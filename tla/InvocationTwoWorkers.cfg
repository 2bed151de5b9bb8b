\* The clients make a bounded number of requests and then the system rests.
SPECIFICATION Spec
CONSTANTS
  NQA = 2
  Workers = {w1, w2}
  Clients = {c1, c2}
  Ops = {"run", "retry", "cancel", "delete"}
  MaxRequests = 2
  Attempts = 2
  Budget <- MCBudget
  Crashes = 0
  Kills = 1
  DbErrors = 1
  BrokerErrors = 1
SYMMETRY Symmetry
INVARIANTS
  CompletedIsCovered
PROPERTIES
  ResultsNeverVanish
CHECK_DEADLOCK FALSE
