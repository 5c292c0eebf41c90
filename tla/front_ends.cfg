CONSTANTS
  MatchIds <- TheMatches
  CameraIds <- TheCameras
  DestinationIds <- TheDestinations
  EventIds <- TheEvents
  Pages <- AllPages
  MaxCalls = 3
  MaxScript = 4
  MaxNow = 2
  MaxLost = 1
  Keys <- TwoKeys
  MaxActs = 4
  MaxToasts = 3
  Mockups <- TheMockups
  Hidden <- TheHidden
  MaxChanges = 3
  MaxFailures = 1
  MaxTurns = 2
  MaxCommands = 4
  MaxSeconds = 2
SPECIFICATION UiSpec
INVARIANTS
  UiTypeOK
  ServerKeeps
  FormsFaithful
  TimersRun
  DraftFollowsSelection
  DeckKeeps
  OfferMeansReady
  MockupsCurrent
  DecodingFaithful
  MocksAgree
PROPERTIES
  ClockNeverBack
  PagesSettle
CHECK_DEADLOCK FALSE
