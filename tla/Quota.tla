-------------------------------- MODULE Quota --------------------------------
(***************************************************************************)
(* The quotas of the EMIAS accounts and what tasks count against them.     *)
(* One resource stands for the resource list of a request, and only        *)
(* guaranteed tasks count: nothing reads the usage of best effort tasks.   *)
(***************************************************************************)
EXTENDS Integers, FiniteSets

CONSTANTS
  Account,      \* accounts (the UserName of a task)
  Hard,         \* Hard[a]: the Deserved quota of an account
  Task,         \* ids of AI tasks
  AccountOf,    \* AccountOf[t]: the account that submits t
  Slo,          \* Slo[t]: "high" (guaranteed) or "low" (best effort)
  Request,      \* Request[t]: the resource t requests
  MaxRequest    \* the largest request

ASSUME QuotaAssumption ==
  /\ IsFiniteSet(Task)
  /\ Hard \in [Account -> Nat]
  /\ AccountOf \in [Task -> Account]
  /\ Slo \in [Task -> {"high", "low"}]
  /\ MaxRequest \in Nat
  /\ Request \in [Task -> 0..MaxRequest]

\* The sum of the requests of the guaranteed tasks of S, counted unit by unit.
Units(S) == {u \in Task \X (1..MaxRequest) :
               u[1] \in S /\ Slo[u[1]] = "high" /\ u[2] <= Request[u[1]]}
Usage(S) == Cardinality(Units(S))

\* mutant: the request is not added to the usage before the comparison
FitsUnadded(t, n) == Slo[t] = "low" \/ n <= Hard[AccountOf[t]]

\* CheckHardQuotaExceed, negated, for an account that uses the amount n
FitsInto(t, n) == Slo[t] = "low" \/ n + Request[t] <= Hard[AccountOf[t]]
=============================================================================
