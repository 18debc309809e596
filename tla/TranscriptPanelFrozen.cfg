CONSTANTS
  PanelSessions = {s1, s2}
  Terms = {"a", "b"}
  PanelPage = 1
  MaxArchived = 2
  MaxReads = 2
  MaxPanelActs = 2
  MaxPanelFaults = 1
SPECIFICATION PanelSpec
INVARIANT OpenTranscriptFollows
CHECK_DEADLOCK FALSE
