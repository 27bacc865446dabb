-------------------------- MODULE QuotaLedgerProofs --------------------------
(***************************************************************************)
(* Theorems about the ledger, for any accounts, quotas and tasks.          *)
(***************************************************************************)
EXTENDS QuotaLedger, QueueQuotaProofs

\* The ledger keeps its type: every account holds quota for its own tasks only.
THEOREM LedgerTypeOK == Spec => []TypeOK
<1>1. Init => TypeOK
  BY DEF Init, TypeOK
<1>2. TypeOK /\ [Next]_<<held, boots>> => TypeOK'
  <2> SUFFICES ASSUME TypeOK, [Next]_<<held, boots>> PROVE TypeOK'
    OBVIOUS
  <2>1. ASSUME NEW t \in Task, Admit(t) PROVE TypeOK'
    BY <2>1, QuotaAssumption DEF TypeOK, Admit, Members
  <2>2. ASSUME NEW t \in Task, Return(t) PROVE TypeOK'
    BY <2>2, QuotaAssumption DEF TypeOK, Return, Members
  <2>3. ASSUME Boot PROVE TypeOK'
    BY <2>3 DEF TypeOK, Boot
  <2>4. CASE UNCHANGED <<held, boots>>
    BY <2>4 DEF TypeOK
  <2> QED BY <2>1, <2>2, <2>3, <2>4 DEF Next
<1> QED
  BY <1>1, <1>2, PTL DEF Spec

\* Without a second boot no account ever holds more than its hard quota.
THEOREM LedgerWithinHard == Spec => []WithinHard
<1>1. Init => WithinHard
  BY UsageOfNone, QuotaAssumption DEF Init, WithinHard
<1>2. TypeOK /\ WithinHard /\ [Next]_<<held, boots>> => WithinHard'
  <2> SUFFICES ASSUME TypeOK, WithinHard, [Next]_<<held, boots>>, boots' = 0, NEW a \in Account
               PROVE  Usage(held'[a]) <= Hard[a]
    BY DEF WithinHard
  <2>1. ASSUME NEW t \in Task, Admit(t) PROVE Usage(held'[a]) <= Hard[a]
    <3>1. boots = 0 /\ Usage(held[a]) <= Hard[a] /\ Hard[a] \in Nat
      BY <2>1, QuotaAssumption DEF Admit, WithinHard
    <3>2. CASE a # AccountOf[t]
      BY <3>1, <3>2, <2>1 DEF Admit, TypeOK
    <3>3. CASE a = AccountOf[t]
      <4>1. held'[a] = held[a] \cup {t} /\ t \notin held[a]
        BY <3>3, <2>1 DEF Admit, TypeOK
      <4>2. Usage(held'[a]) = Usage(held[a]) + Cost(t)
        BY <4>1, UsageAdd
      <4> QED
        BY <4>2, <3>1, <3>3, <2>1, UsageIsNat, QuotaAssumption DEF Admit, FitsInto, Cost
    <3> QED BY <3>2, <3>3
  <2>2. ASSUME NEW t \in Task, Return(t) PROVE Usage(held'[a]) <= Hard[a]
    <3>1. boots = 0 /\ Usage(held[a]) <= Hard[a] /\ Hard[a] \in Nat
      BY <2>2, QuotaAssumption DEF Return, WithinHard
    <3>2. held'[a] \subseteq held[a]
      BY <2>2 DEF Return, TypeOK
    <3> QED
      BY <3>1, <3>2, UsageMonotone, UsageIsNat
  <2>3. CASE Boot
    BY <2>3 DEF Boot, TypeOK
  <2>4. CASE UNCHANGED <<held, boots>>
    BY <2>4 DEF WithinHard
  <2> QED
    BY <2>1, <2>2, <2>3, <2>4 DEF Next
<1> QED
  BY <1>1, <1>2, LedgerTypeOK, PTL DEF Spec

\* An account over its quota takes nothing more until enough has been returned.
THEOREM LedgerOverQuotaOnlyShrinks == Spec => OverQuotaOnlyShrinks
<1>1. ASSUME TypeOK, [Next]_<<held, boots>>, NEW a \in Account,
             Usage(held[a]) > Hard[a], boots' = boots
      PROVE  Usage(held'[a]) <= Usage(held[a])
  <2>1. ASSUME NEW t \in Task, Admit(t) PROVE Usage(held'[a]) <= Usage(held[a])
    <3>1. CASE a # AccountOf[t]
      BY <1>1, <3>1, <2>1, UsageIsNat DEF Admit, TypeOK
    <3>2. CASE a = AccountOf[t]
      <4>1. held'[a] = held[a] \cup {t} /\ t \notin held[a]
        BY <1>1, <3>2, <2>1 DEF Admit, TypeOK
      <4>2. Slo[t] = "low"
        BY <1>1, <3>2, <2>1, UsageIsNat, QuotaAssumption DEF Admit, FitsInto
      <4> QED
        BY <4>1, <4>2, UsageAdd, UsageIsNat DEF Cost
    <3> QED BY <3>1, <3>2
  <2>2. ASSUME NEW t \in Task, Return(t) PROVE Usage(held'[a]) <= Usage(held[a])
    <3>1. held'[a] \subseteq held[a]
      BY <1>1, <2>2 DEF Return, TypeOK
    <3> QED BY <3>1, UsageMonotone
  <2>3. CASE Boot
    BY <1>1, <2>3 DEF Boot, TypeOK
  <2>4. CASE UNCHANGED <<held, boots>>
    BY <2>4, UsageIsNat
  <2> QED
    BY <1>1, <2>1, <2>2, <2>3, <2>4 DEF Next
<1>2. TypeOK /\ [Next]_<<held, boots>> =>
        [\A a \in Account : Usage(held[a]) > Hard[a] /\ boots' = boots
                              => Usage(held'[a]) <= Usage(held[a])]_<<held, boots>>
  BY <1>1
<1> QED
  BY <1>2, LedgerTypeOK, PTL DEF Spec, OverQuotaOnlyShrinks
=============================================================================
