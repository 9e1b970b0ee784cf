SPECIFICATION FairSpec
CONSTANTS
  main = main
  other = other
  None = None
  Threads = {main, other}
  Main = main
  Budgets <- MCBudgets
INVARIANTS
  BytesStayOwned
  ResultIsClean
PROPERTY PendingIsRetried
CHECK_DEADLOCK FALSE
