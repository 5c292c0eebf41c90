CONSTANTS
  MatchIds <- TheMatches
  CameraIds <- TheCameras
  DestinationIds <- TheDestinations
  EventIds <- TheEvents
  Pages = {"deck"}
  MaxCalls = 3
  MaxScript = 4
  MaxNow = 2
  MaxLost = 0
  Keys <- TwoKeys
  MaxActs = 6
  MaxToasts = 3
  Mockups <- TheMockups
  Hidden <- TheHidden
  MaxChanges = 3
  MaxFailures = 1
  MaxTurns = 2
  MaxCommands = 4
  MaxSeconds = 2
SPECIFICATION UiSpec
INVARIANTS
  EditsStored
CHECK_DEADLOCK FALSE
