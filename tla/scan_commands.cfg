SPECIFICATION Spec
CONSTANTS
  Headings = 4
  StepUnits = 4
  Nudge = 0
  MaxNudges = 0
  MaxOverrides = 1
  MaxChase = 1
  MaxRooms = 3
  MaxRoots = 1
  OpenAt <- AheadOfOne
  Commands <- AllCommands
CHECK_DEADLOCK FALSE
INVARIANT MissionTree
INVARIANT PhaseMatchesFlags
INVARIANT TrueHeading
INVARIANT BacktrackReversesEntry
PROPERTY KeepsPrompt
PROPERTY LeavesExploringOnlyByCommand
