SPECIFICATION Spec
CONSTANTS
    t1 = t1
    t2 = t2
    Thread <- MCThread
    Bootstrap <- MCBootstrap
    Block = {b1, b2}
    MaxCollects = 2
INVARIANTS
    LiveSurvivesStoppedWorld
PROPERTIES
    RunsOnlyByKnownRaces
    CallsReturn
