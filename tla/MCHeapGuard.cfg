SPECIFICATION FairSpec
CONSTANTS
    p1 = p1
    p2 = p2
    p3 = p3
    p4 = p4
    t1 = t1
    t2 = t2
    Ptr <- MCPtr
    Thread <- MCThread
    Slot <- MCSlot
    Hash <- MCHash
    Max = 2
    Faulty <- MCFaulty
INVARIANTS
    NeverUndercounts
    NeverBlocksCorrectFree
    ExactWhenQuiet
    ReportedOnce
PROPERTY
    CallsReturn
