-------------------------- MODULE MCTaskController --------------------------
(***************************************************************************)
(* Instances of TaskController for TLC.  The account team has quota for    *)
(* one of its guaranteed tasks large and small at a time; spare is a best  *)
(* effort task of it.  The account guest, with the task visit, is created  *)
(* while the server runs.                                                  *)
(***************************************************************************)
EXTENDS TaskController

CONSTANTS team, guest, large, small, spare, visit

MCHard      == [x \in Account |-> 2]
MCAccountOf == [t \in Task |-> IF t = visit THEN guest ELSE team]
MCSlo       == [t \in Task |-> IF t = spare THEN "low" ELSE "high"]
MCRequest   == [t \in Task |-> IF t = large THEN 2 ELSE 1]

\* Budgets of faults
NoFaults == [f \in Fault |-> 0]
Refusals == [NoFaults EXCEPT !["api"] = 1, !["resync"] = 1, !["race"] = 1]
Crashes  == [NoFaults EXCEPT !["restart"] = 1, !["race"] = 1]
Errors   == [NoFaults EXCEPT !["db"] = 1, !["ingress"] = 1, !["race"] = 1]
=============================================================================
