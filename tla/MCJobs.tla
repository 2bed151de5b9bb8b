------------------------------- MODULE MCJobs -------------------------------
(* Small instances of the jobs. *)
EXTENDS Jobs, Integers

CONSTANTS Crashes, Kills, DbErrors, BrokerErrors

MCBudget == [crash |-> Crashes, kill |-> Kills, db |-> DbErrors, broker |-> BrokerErrors]
MCLimit == [k \in KindsOfJob |-> IF k \in {"parse", "prof"} THEN 3 ELSE 2]
MCUploads == {"f1", "f2", "f3"}
MCNameOf == [f \in MCUploads |-> IF f = "f3" THEN "b" ELSE "a"]
MCLoadWorkers == {"w1", "w2"}
MCGiven == {-1, 0, 2}
MCDefault == [initial |-> 1, step |-> 1, max |-> 3]
MCLevels == <<2, 0, -1>>
MCIngestFiles == <<"f1", "f2">>
=============================================================================
