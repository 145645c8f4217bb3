CONSTANTS
    MaxUpdates = 1
    MaxBackoff = 2
    MaxExponent = 1
    MaxVersions = 1
    MaxRestarts = 1
SPECIFICATION Spec
INVARIANT RecordedIsBuilt
CHECK_DEADLOCK FALSE
