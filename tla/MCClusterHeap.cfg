SPECIFICATION Spec
CONSTANTS
    ClusterSize = 6
    MaxClusters = 1
    MaxStack = 2
    Type <- EvenTypes
INVARIANTS
    ReachableIntact
    Tiled
    CollectsAllGarbage
CHECK_DEADLOCK FALSE
