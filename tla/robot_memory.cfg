CONSTANTS
    Farthest = 1
    MaxRooms = 2
    MaxLost = 1
SPECIFICATION Spec
INVARIANTS
    RestartLosesNothing
