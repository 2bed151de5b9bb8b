\* The clients make a bounded number of requests and then the system rests.
SPECIFICATION Spec
CONSTANTS
  NQA = 2
  Workers = {w1}
  Clients = {c1}
  Ops = {"run", "cancel", "force", "retry", "retry_one", "delete"}
  MaxRequests = 3
  Attempts = 2
  Budget <- MCBudget
  Crashes = 0
  Kills = 0
  DbErrors = 1
  BrokerErrors = 0
INVARIANTS
  TypeOK
  SettledCounts
PROPERTIES
  CompletedIsFrozen
  ImplementsContract
CHECK_DEADLOCK FALSE
