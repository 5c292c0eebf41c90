SPECIFICATION AnyOrder
CONSTANTS
  Matches = {m1}
  HalfTimeMatches = {m1}
  ExtraTimeMatches = {m1}
  Operators = {o1}
  InUse = {"start", "halfTimeStart"}
  NoMatch = NoMatch
  NoOne = NoOne
  Faults = {}
  MaxCrashes = 1
  Taggers = {}
  MaxTags = 0
INVARIANTS HalfTimePausesClock
CHECK_DEADLOCK FALSE
