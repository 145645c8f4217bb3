CONSTANTS
    MaxUpdates = 2
    MaxBackoff = 3
    MaxExponent = 2
    MaxVersions = 2
    MaxRestarts = 1
SPECIFICATION FairSpec
INVARIANTS
    PublishedInOrder
    NoneForgotten
    TreeHasRecorded
PROPERTIES
    TextArrives
    UpdateSettles
CHECK_DEADLOCK FALSE
