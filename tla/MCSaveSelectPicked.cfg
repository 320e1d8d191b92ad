CONSTANTS
  GameSlots = 3
  SramSlots = 3
SPECIFICATION Spec
PROPERTY GivesPickedBlock
