CONSTANTS
  Tools = {t1}
  RunOutcomes = {"failed"}
  AbandonAfter = 1
  MaxInstants = 3
  MaxCalls = 1
  MaxRuns = 1
  MaxSignalFaults = 0
SPECIFICATION FairSignalsSpec
PROPERTY QuietIsAbandoned
CHECK_DEADLOCK FALSE
