CONSTANTS
  Tasks = {t1, t2, t3}
  PageLimit = 1
  PageCap = 3
  MaxUpdates = 5
  MaxFaults = 0
SPECIFICATION Spec
INVARIANT ListedIsNotMissing
