\* Three slots of three banks, every order of calls.
CONSTANTS
  Banks = {0, 1, 2}
  Others = {1, 2}
SPECIFICATION Spec
INVARIANTS
  IrqNeedsRom
  TouchesWhatWasAsked
  RestoresBanks
