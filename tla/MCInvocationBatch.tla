-------------------------- MODULE MCInvocationBatch --------------------------
EXTENDS InvocationBatch, TLC
CONSTANTS Crashes, Kills, DbErrors, BrokerErrors
MCBudget == [k \in FaultKinds |-> CASE k = "crash" -> Crashes [] k = "kill" -> Kills
                                    [] k = "db" -> DbErrors [] k = "broker" -> BrokerErrors]
Symmetry == Permutations(Workers) \cup Permutations(Clients)
=============================================================================
