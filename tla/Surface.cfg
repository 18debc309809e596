CONSTANTS
  Nodes = {n1}
  Ranges = {"24h", "7d"}
  Slots = {1, 2}
  MaxVersion = 2
  MaxAsks = 1
  MaxHubFaults = 2
  Machines = {"shop", "office"}
  Patches = {"lan", "loopback", "hub", "node", "token", "unlist"}
  MaxSaves = 3
  MaxCodes = 2
  MaxPairingFaults = 2
  PageRanges = {"24h", "7d"}
  MaxServed = 1
  MaxPageFrames = 1
  MaxAsked = 2
  MaxGestures = 1
  MaxPageFaults = 1
  Rows = {1, 2, 3}
  Sorts = {"lastActivity", "grade"}
  Filters = {"any", "active"}
  ListLimit = 1
  MaxTouches = 1
  MaxActs = 1
  MaxListFaults = 1
  Hosts = {h1, h2}
  Ids = {1, 2, 3}
  Shape <- MCShape
  Outcomes = {"succeeded", "failed"}
  Span <- MCSpan
  RecentLimit = 1
  MaxClock = 1
  MaxRowSteps = 3
  Items <- MCItems
  Links <- MCLinks
  Pictures <- MCPictures
  MaxLinks = 3
  PanelSessions = {s1, s2}
  Terms = {"a", "b"}
  PanelPage = 1
  MaxArchived = 2
  MaxReads = 2
  MaxPanelActs = 2
  MaxPanelFaults = 1
SPECIFICATION FairSurfaceSpec
INVARIANTS SurfaceTypeOK StreamIsKept ListIsSound   BoardIsTrue LinksAreDrawn
PROPERTIES HubMirrors PageIsServed PanelIsSound
CHECK_DEADLOCK FALSE
