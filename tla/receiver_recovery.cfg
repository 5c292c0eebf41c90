SPECIFICATION Spec
CONSTANTS
  Consumers = {rec, stream}
  LiveAligned = {}
  Abortable = {sup}
  SessionScoped = {}
  Supervisors = {sup}
  Host = host
  NoOne = none
  MaxLaunches = 2
  MaxRecoveryAttempts = 2
INVARIANTS NoLeaseAfterStop
CONSTRAINT EarlierLaunchesDrained
CHECK_DEADLOCK FALSE
