SPECIFICATION FairSpec
CONSTANTS
  Labels = {l}
  Moves <- RoamMoves
  Commands <- RoamCommands
  Frontier = TRUE
  RoomScanModes = {TRUE, FALSE}
  Sensors <- AllSensors
  MoveTicks = 2
  TurnTicks = 2
  VisionTimeout = 1
  OdomTimeout = 1
  GoalTimeout = 1
  SubGoalTimeout = 1
  LabelInterval = 1
  LabelTimeout = 1
  MaxMoves = 0
  MaxCaptures = 1
INVARIANT SteersInTime
INVARIANT StandsWhileNaming
PROPERTY NamingEnds
PROPERTY PoseGoalEnds
PROPERTY InspectionKeepsSnapshot
