SPECIFICATION FairSpec
CONSTANTS
    Client = {c1, c2, c3}
    MaxStops = 3
INVARIANTS
    OneWaitPerFiber
    NoHandleReuse
PROPERTIES
    QuietReturn
    StopEndsRun
CHECK_DEADLOCK FALSE
