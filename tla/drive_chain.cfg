CONSTANTS
    Missions <- AllMissions
    HoldTime = 1
    MaxAvoidance = 2
    ConfirmFrames = 2
    CommandTimeout = 1
    RespawnDelay = 1
    Heartbeat = 2
    VisionTimeout = 1
SPECIFICATION Spec
INVARIANTS
    MotorsLeased
    NobodysMotion
    SeesWhereItGoes
    StopReachesMotors
    PatrolYields
