SPECIFICATION Spec
CONSTANTS
  Labels = {l}
  Moves <- TeachMoves
  Commands <- TeachCommands
  Frontier = FALSE
  RoomScanModes = {TRUE}
  Sensors = {}
  MoveTicks = 3
  TurnTicks = 2
  VisionTimeout = 1
  OdomTimeout = 1
  GoalTimeout = 1
  SubGoalTimeout = 1
  LabelInterval = 1
  LabelTimeout = 1
  MaxMoves = 2
  MaxCaptures = 1
INVARIANT StoppedStands
PROPERTY RouteKept
PROPERTY ReplayDrivesRoute
