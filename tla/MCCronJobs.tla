----------------------------- MODULE MCCronJobs -----------------------------
(***************************************************************************)
(* Instances of CronJobs for TLC.  As in the migration, what is seeded for *)
(* the job longTime is not accepted until it is edited.                    *)
(***************************************************************************)
EXTENDS CronJobs

CONSTANTS longTime, lowUsage, seeded, edited

MCValid == [j \in Job |-> IF j = longTime THEN {edited} ELSE {seeded, edited}]
MCSeed  == [j \in Job |-> seeded]

NoFaults  == [f \in Fault |-> 0]
AllFaults == [f \in Fault |-> IF f = "restart" THEN 2 ELSE 1]
=============================================================================
