SPECIFICATION FairSpec
CONSTANTS
  Slots = {"baseline", "front"}
  MaxId = 2
  Budgets <- MCBudgets
CHECK_DEADLOCK FALSE
INVARIANTS
  
  RowOfOneMaster
PROPERTY CloseEnds
