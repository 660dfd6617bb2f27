\* The interfaces of two library modules and a client, in all orders.
SPECIFICATION Spec
CONSTANTS
    Module   <- Mods
    Programs <- Progs
    Reading  <- MCReading
INVARIANTS
    MeaningsSettle
    DiagnosesMistakes
    BuildsEachOnce
