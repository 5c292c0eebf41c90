SPECIFICATION Spec
CONSTANTS
  Taggers = {t}
  Sources = {c}
  MaxRow = 1
  MaxLive = 1
  Faults = {}
  Reconnections = {r1}
  Look <- ScoreboardThenUnknown
  DropsWait = FALSE
PROPERTIES
  MessagesWaitForSnapshot
CHECK_DEADLOCK FALSE
