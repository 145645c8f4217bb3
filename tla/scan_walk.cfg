SPECIFICATION FairSpec
CONSTANTS
  Headings = 4
  StepUnits = 4
  Nudge = 1
  MaxNudges = 1
  MaxOverrides = 1
  MaxChase = 1
  MaxRooms = 3
  MaxRoots = 1
  OpenAt <- AheadOfOne
  Commands <- StartStop
CHECK_DEADLOCK FALSE
INVARIANT TypeOK
INVARIANT WithinBudgets
INVARIANT AimsAtDoorway
INVARIANT BacktrackOnlyWhenExhausted
INVARIANT SweepCoversCircle
PROPERTY AsksOnlyAfterSettling
PROPERTY SweepEnds
PROPERTY PursuitEnds
