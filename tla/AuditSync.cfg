CONSTANTS
  PageLimit = 2
  TailBudget = 2
  RoundBudget = 3
  Unreadable = {4, 5}
  BurstLimit = 3
  MaxSeq = 5
  MaxEra = 1
  MaxFailures = 1
  MaxCrashes = 1
SPECIFICATION FairSpec
INVARIANTS TypeOK MarkIsContiguous CompleteIsWhole NoFalseRewind
PROPERTY RoundsCatchUp
