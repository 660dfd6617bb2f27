\* An implementation constant computed from a constant of its definition.
SPECIFICATION Spec
CONSTANTS
    Module   <- Mods
    Programs <- Inherits
    Reading  <- MCReading
INVARIANT SeesWhatIsDeclared
