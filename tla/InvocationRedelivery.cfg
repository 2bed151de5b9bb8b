\* The clients make a bounded number of requests and then the system rests.
SPECIFICATION FairSpec
CONSTANTS
  NQA = 2
  Workers = {w1}
  Clients = {c1}
  Ops = {"run", "cancel", "force", "delete"}
  MaxRequests = 2
  Attempts = 2
  Budget <- MCBudget
  Crashes = 2
  Kills = 0
  DbErrors = 1
  BrokerErrors = 0
INVARIANTS
  QuietIsSettled
  OneRowPerQuestion
  QueuedState
PROPERTIES
  RunSettles
CHECK_DEADLOCK FALSE
