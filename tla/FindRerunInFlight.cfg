\* The clients make a bounded number of requests and then the system rests.
SPECIFICATION Spec
CONSTANTS
  NQA = 1
  Workers = {w1}
  Clients = {c1}
  Ops = {"run"}
  MaxRequests = 3
  Attempts = 3
  Budget <- MCBudget
  Crashes = 0
  Kills = 0
  DbErrors = 0
  BrokerErrors = 0
INVARIANTS
  NotInFlightHasNoWork
CHECK_DEADLOCK FALSE
