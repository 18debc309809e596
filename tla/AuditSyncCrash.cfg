CONSTANTS
  PageLimit = 2
  TailBudget = 2
  RoundBudget = 3
  Unreadable = {}
  BurstLimit = 3
  MaxSeq = 7
  MaxEra = 0
  MaxFailures = 0
  MaxCrashes = 1
SPECIFICATION Spec
INVARIANT NothingLeftBehind
