----------------------------- MODULE QuotaLedger -----------------------------
(***************************************************************************)
(* What the task controller promises about quotas: an account holds quota  *)
(* for a set of tasks; a task is added when its request fits into what is  *)
(* left, and taken away at any time.  Only a boot, which takes over what   *)
(* the database says, may leave an account with more than its hard quota.  *)
(***************************************************************************)
EXTENDS Quota

VARIABLES
  held,         \* held[a]: the tasks that hold quota of account a
  boots         \* how often the server has booted again

Members(a) == {t \in Task : AccountOf[t] = a}

Init == /\ held = [a \in Account |-> {}]
        /\ boots = 0

\* QuotaInfo.AddTask in admitTask, after CheckHardQuotaExceed
Admit(t) ==
  LET a == AccountOf[t] IN
  /\ t \notin held[a] /\ FitsInto(t, Usage(held[a]))
  /\ held' = [held EXCEPT ![a] = @ \cup {t}]
  /\ UNCHANGED boots

\* QuotaInfo.DeleteTask
Return(t) ==
  /\ t \in held[AccountOf[t]]
  /\ held' = [held EXCEPT ![AccountOf[t]] = @ \ {t}]
  /\ UNCHANGED boots

\* TaskController.Init
Boot ==
  /\ boots' = boots + 1
  /\ held' \in [Account -> SUBSET Task]
  /\ \A a \in Account : held'[a] \subseteq Members(a)

Next == Boot \/ \E t \in Task : Admit(t) \/ Return(t)

Spec == Init /\ [][Next]_<<held, boots>>

\* An account holds quota for its own tasks only, also after TaskController.Init.
TypeOK == /\ held \in [Account -> SUBSET Task]
          /\ \A a \in Account : held[a] \subseteq Members(a)
          /\ boots \in Nat

\* Without a second boot no account ever holds more than its hard quota, and the
\* best effort tasks it holds do not count.
WithinHard == boots = 0 => \A a \in Account : Usage(held[a]) <= Hard[a]

\* After a boot that found an account over its quota, the account takes no more
\* guaranteed tasks until enough have been returned: its usage only goes down.
OverQuotaOnlyShrinks ==
  [][\A a \in Account :
       Usage(held[a]) > Hard[a] /\ boots' = boots => Usage(held'[a]) <= Usage(held[a])]_<<held, boots>>
=============================================================================
