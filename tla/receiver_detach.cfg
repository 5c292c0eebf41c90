SPECIFICATION Spec
CONSTANTS
  Consumers = {rec, stream}
  LiveAligned = {stream}
  Abortable = {}
  SessionScoped = {stream}
  Supervisors = {}
  Host = host
  NoOne = none
  MaxLaunches = 1
  MaxRecoveryAttempts = 1
INVARIANT DetachIsPrivate
CHECK_DEADLOCK FALSE
