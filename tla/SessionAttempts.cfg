CONSTANTS
  k1 = k1
  k2 = k2
  r1 = r1
  r2 = r2
  Sessions = {k1, k2}
  Runs = {r1, r2}
  SessionOf <- TwoRuns
  Named = {TRUE, FALSE}
  Dated = {TRUE, FALSE}
  MaxChanges = 3
  MaxFaults = 1
SPECIFICATION FairSpec
INVARIANTS TypeOK
PROPERTIES AttemptsAreTrue ActiveIsShown 
