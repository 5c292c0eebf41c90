SPECIFICATION MCSpec
CONSTANTS
  Matches = {m1, m2}
  HalfTimeMatches = {m1, m2}
  ExtraTimeMatches = {m1, m2}
  Operators = {o1, o2}
  Taggers = {t1}
  InUse = {"start", "pause", "resume", "halfTimeStart", "halfTimeEnd", "extraTimeEnter", "extraTimeStart", "extraTimeHalfTimeStart", "extraTimeHalfTimeEnd", "abandon", "fullTime", "correct"}
  NoMatch = NoMatch
  NoOne = NoOne
  Faults = {"save"}
  MaxCrashes = 1
  MaxTags = 3
INVARIANTS AtMostOneLive CopiesAgree ScoreTypeOK ScoreIsItsEvents
SYMMETRY Symmetric
CHECK_DEADLOCK FALSE
