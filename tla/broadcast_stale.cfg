SPECIFICATION FairSpec
CONSTANTS
  Taggers = {t}
  Sources = {}
  MaxRow = 1
  MaxLive = 1
  Faults = {}
  Reconnections = {r1}
  Look <- ScoreboardThenUnknown
  DropsWait = FALSE
PROPERTIES
  LiveMeansCurrent
CHECK_DEADLOCK FALSE
