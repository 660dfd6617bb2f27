SPECIFICATION Spec
CONSTANTS
    MaxInteger = 255
    Keywords <- MCKeywords
    Alphabetic <- MCAlphabetic
    Idents <- MCIdents
    Ints <- MCInts
    Strings <- MCStrings
    Sources <- MCSources
    Env <- MCEnv
    Edited <- MCEdited
    EditUnits <- MCEditUnits
    MaxEdits = 1
    Pass <- MCPass
INVARIANTS CompilesWhatWasMeant KeepsPositions ReadsBack
CHECK_DEADLOCK FALSE
