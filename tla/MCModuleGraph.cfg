SPECIFICATION FairSpec
CONSTANTS
    Name <- MCName
    Entry = 1
    Intrinsic <- MCIntrinsic
    Disk <- MCDisk
    ExtraRoots <- MCExtraRoots
INVARIANTS
    TypeOK
    DependencyFirst
    OrderIsReachableSet
    ErrorHasCause
    EntryLastWithoutExtras
PROPERTY
    LoaderReturns
