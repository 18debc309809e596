CONSTANTS
  Tasks = {t1, t2, t3}
  PageLimit = 1
  PageCap = 2
  MaxUpdates = 4
  MaxFaults = 1
  Metered = {1, 2}
  DayTicks = 2
  RollupAfter = 2
  RecentWindow = 0
  StaleAfter = 1
  StaleLimit = 1
  UsageRoundLimit = 2
  Datings = {TRUE, FALSE}
  MaxTick = 4
  Openings = {2}
  MaxSpend <- MCSpend
  MaxUsageFaults = 1
  Tools = {exec}
  RunOutcomes = {"failed"}
  AbandonAfter = 1
  MaxInstants = 1
  MaxCalls = 2
  MaxRuns = 1
  MaxSignalFaults = 1
  Transcripts = TRUE
  Builds <- MCBuilds
  Refusal = "unavailable"
  Passes = {q1, q2}
  MaxConnects = 3
  MaxProbeFaults = 3
  Pids = {p1}
  PsTicks = 1
  MaxIncarnations = 2
  MaxCliFaults = 1
  MaxCliRestarts = 1
  Agents = {a1, a2}
  Names = {"main", "ops"}
  Models = {"m"}
  MaxRosterSteps = 4
  Openers = {"one", "two"}
  Targets = {1, 2}
  MaxOpenings = 3
  MaxUpgradeFaults = 1
SPECIFICATION FairRecordsSpec
INVARIANTS RecordsTypeOK OutcomeIsReported UsageIsCounted UpgradesAreSafe
PROPERTIES ChangesAreTrue Converges TailConverges SignalsAreSound ProbesAreSound ProcessesAreShown 
CHECK_DEADLOCK FALSE
