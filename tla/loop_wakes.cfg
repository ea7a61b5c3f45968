SPECIFICATION FairSpec
CONSTANTS
  Places = {"none", "office"}
  Ids = {1, 2}
  Attempts = 1
  QueueCap = 1
  Budgets <- MCBudgets
INVARIANTS
  ForceOwed
  WakeOwed
  SessionsSettle
PROPERTIES
  RevisionArrives
  SiteFollows
  Unwinds
