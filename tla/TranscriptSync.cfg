CONSTANTS
  Sessions = {a, b}
  Numberings = {TRUE, FALSE}
  Textless = {3}
  PageLimit = 2
  RoundBudget = 3
  BackfillBudget = 1
  MaxRows = 2
  MaxMessages = 3
  MaxFaults = 1
SPECIFICATION FairSpec
INVARIANTS TypeOK  
 
