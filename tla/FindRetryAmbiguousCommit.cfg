\* The clients make a bounded number of requests and then the system rests.
SPECIFICATION Spec
CONSTANTS
  NQA = 2
  Workers = {w1}
  Clients = {c1}
  Ops = {"run", "retry_one"}
  MaxRequests = 2
  Attempts = 3
  Budget <- MCBudget
  Crashes = 0
  Kills = 0
  DbErrors = 1
  BrokerErrors = 0
INVARIANTS
  OneRowPerQuestion
CHECK_DEADLOCK FALSE
