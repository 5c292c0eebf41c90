SPECIFICATION FairSpec
CONSTANTS
  Taggers = {t}
  Sources = {c}
  MaxRow = 2
  MaxLive = 1
  Faults = {"publish", "rest", "connect", "giveup", "unmount"}
  Reconnections = {r1}
  Look <- ScoreboardThenUnknown
  DropsWait = TRUE
INVARIANTS
  RendererTypeOK
  NoScoreLost
  NoLiveLost
PROPERTIES
  MessagesWaitForSnapshot
  LiveMeansCurrent
  OutputSurvivesFaults
  UnmountDisconnects
CHECK_DEADLOCK FALSE
