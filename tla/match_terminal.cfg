SPECIFICATION AnyOrder
CONSTANTS
  Matches = {m1}
  HalfTimeMatches = {m1}
  ExtraTimeMatches = {}
  Operators = {o1, o2}
  InUse = {"start", "pause", "resume", "fullTime", "abandon"}
  NoMatch = NoMatch
  NoOne = NoOne
  Faults = {}
  MaxCrashes = 0
  Taggers = {t1}
  MaxTags = 1
PROPERTIES TerminalIsForever
CHECK_DEADLOCK FALSE
