----------------------------- MODULE LoadConfig -----------------------------
(***************************************************************************)
(* The integers of a load test: nothing checks what a client gives.        *)
(***************************************************************************)
EXTENDS Integers, Sequences

CONSTANTS
    Given,       \* the integers a client may give; 0 stands for none as well
    Default,     \* what is used instead of none or 0
    Levels       \* the levels of a latency distribution test

ASSUME GivenAssumption == Given \subseteq Int
ASSUME DefaultAssumption ==
    /\ DOMAIN Default = {"initial", "step", "max"}
    /\ \A f \in DOMAIN Default : Default[f] \in Nat \ {0}
ASSUME LevelsAssumption == Levels \in Seq(Int)
=============================================================================
