\* The clients make a bounded number of requests and then the system rests.
SPECIFICATION FairSpec
CONSTANTS
  NQA = 3
  BatchSize = 2
  Workers = {w1}
  Clients = {c1}
  Ops = {"run", "rerun", "cancel", "retry", "delete"}
  MaxRequests = 4
  Attempts = 2
  Budget <- MCBudget
  Crashes = 1
  Kills = 0
  SoftLimits = 1
  Escapes = 1
  DbErrors = 0
  BrokerErrors = 0
INVARIANTS
  SummaryIsOfResults
PROPERTIES
  CancelledStays
  RunSettles
CHECK_DEADLOCK FALSE
