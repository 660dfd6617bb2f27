CONSTANTS
  Wide = 5
  Narrow = 3
  CharBits = 4
  SetBits = 6
  Fuel = 60
  MaxOut = 40
  Programs <- AllPrograms
  Pass <- MCPass
SPECIFICATION Spec
INVARIANTS MeansWhatItSays NeverGoesWrong CleansUp
PROPERTY Ends
CHECK_DEADLOCK FALSE
