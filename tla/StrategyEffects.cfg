SPECIFICATION LiveSpec
CONSTANTS
  Callbacks = {"sig1", "sig2", "quote", "event"}
  Inputs = {"sig1", "sig2", "event"}
  External = {"sig1", "sig2"}
  Owner <- Owners
  Acts <- Actions
  Symbols = {"x", "y"}
  MaxBatch = 2
  TurnLimit = 4
  MaxCrashes = 1
INVARIANTS LogReplays DecidedOnce  
CHECK_DEADLOCK FALSE
 
