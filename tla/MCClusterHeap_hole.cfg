SPECIFICATION Spec
CONSTANTS
    ClusterSize = 5
    MaxClusters = 1
    MaxStack = 2
    Type <- OddTypes
INVARIANT
    ReachableIntact
CHECK_DEADLOCK FALSE
