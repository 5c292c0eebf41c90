SPECIFICATION Spec
CONSTANTS
  Operators = {op}
  Startup = startup
  MaxAttempts = 2
  MaxSegments = 2
  MaxCrashes = 0
  FaultRegimes <- NoFaults
PROPERTIES SegmentsAreKept
CHECK_DEADLOCK FALSE
