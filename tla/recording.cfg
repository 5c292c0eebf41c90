SPECIFICATION Spec
CONSTANTS
  Operators = {op}
  Startup = startup
  MaxAttempts = 3
  MaxSegments = 2
  MaxCrashes = 1
  FaultRegimes <- Regimes
INVARIANTS TypeOK OneRecorder NothingHeldWhenOver PersistedStateAgrees CompleteMeansStopped
PROPERTIES RecoveryKeepsSegments
CONSTRAINT Bounds
CHECK_DEADLOCK FALSE
