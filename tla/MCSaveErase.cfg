\* The loop ends: the final state has no successor.
CHECK_DEADLOCK FALSE
CONSTANT SramSlots = 15
SPECIFICATION Spec
INVARIANTS ErasesOnlyWhatWasAsked
PROPERTY ErasesAllThatWasAsked
