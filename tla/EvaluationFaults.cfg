\* The clients make a bounded number of requests and then the system rests.
SPECIFICATION Spec
CONSTANTS
  NQA = 3
  BatchSize = 2
  Workers = {w1}
  Clients = {c1, c2}
  Ops = {"run", "rerun", "cancel", "force", "delete"}
  MaxRequests = 3
  Attempts = 2
  Budget <- MCBudget
  Crashes = 1
  Kills = 1
  SoftLimits = 1
  Escapes = 1
  DbErrors = 1
  BrokerErrors = 1
INVARIANTS
  TypeOK
  OneScorePerSample
  CompletedIsScored
PROPERTIES
  ScoresSurvive
CHECK_DEADLOCK FALSE
