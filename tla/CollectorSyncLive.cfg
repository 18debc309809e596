CONSTANTS
  Callers = {"tasks", "sessions", "subscribe", "cron", "roster"}
  Builds <- MCOnePass
  MaxFaults = 2
SPECIFICATION FairSpec
PROPERTIES GapIsRepaired Recovers
CHECK_DEADLOCK FALSE
