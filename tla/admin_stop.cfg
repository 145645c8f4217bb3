SPECIFICATION Spec
CONSTANTS
  MaxTexts = 3
  Kinds <- AllKinds
CHECK_DEADLOCK FALSE
PROPERTY BareStopEndsExploring
