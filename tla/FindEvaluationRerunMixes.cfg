\* The clients make a bounded number of requests and then the system rests.
SPECIFICATION Spec
CONSTANTS
  NQA = 2
  BatchSize = 1
  Workers = {w1}
  Clients = {c1}
  Ops = {"run", "rerun"}
  MaxRequests = 2
  Attempts = 2
  Budget <- MCBudget
  Crashes = 0
  Kills = 0
  SoftLimits = 1
  Escapes = 0
  DbErrors = 0
  BrokerErrors = 0
INVARIANTS
  AnySummaryIsOfResults
CHECK_DEADLOCK FALSE
