CONSTANTS
  Callers = {"tasks", "sessions", "subscribe", "cron", "roster"}
  Builds <- MCFull
  MaxFaults = 1
SPECIFICATION Spec
INVARIANT ForecastIsCurrent
CHECK_DEADLOCK FALSE
