CONSTANTS
  Callers = {"tasks", "sessions", "subscribe", "cron", "roster"}
  Builds <- MCBuilds
  MaxFaults = 2
SPECIFICATION Spec
INVARIANTS TypeOK ClientIsSound StatusIsEarned
 
CHECK_DEADLOCK FALSE
