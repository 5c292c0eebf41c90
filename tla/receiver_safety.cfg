SPECIFICATION FairSpec
CONSTANTS
  Consumers = {rec, stream}
  LiveAligned = {stream}
  Abortable = {rec, stream}
  SessionScoped = {stream}
  Supervisors = {}
  Host = host
  NoOne = none
  MaxLaunches = 2
  MaxRecoveryAttempts = 1
INVARIANTS AtMostOneSource StopLeavesNoSource
PROPERTY CallsReturn
CHECK_DEADLOCK FALSE
