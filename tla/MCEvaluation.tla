---------------------------- MODULE MCEvaluation ----------------------------
EXTENDS Evaluation, TLC
CONSTANTS Crashes, Kills, SoftLimits, Escapes, DbErrors, BrokerErrors
MCBudget == [k \in FaultKinds |->
                CASE k = "crash" -> Crashes [] k = "kill" -> Kills
                  [] k = "soft" -> SoftLimits [] k = "escape" -> Escapes [] k = "db" -> DbErrors
                  [] k = "broker" -> BrokerErrors]
=============================================================================
