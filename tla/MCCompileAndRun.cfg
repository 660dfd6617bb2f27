SPECIFICATION Spec
CONSTANTS
    Name <- MCName
    Entry = 1
    Intrinsic <- MCIntrinsic
    Disk <- MCDisk
    ExtraRoots <- MCExtraRoots
    HaltCode <- MCHaltCode
    HalfI32 = 512
    None = None
INVARIANTS
    TypeOK
    FinalizedInReverse
    FailureIsReported
PROPERTIES
    KeepsLifecycle
    RunsToTheEnd
