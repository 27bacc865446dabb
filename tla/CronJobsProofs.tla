--------------------------- MODULE CronJobsProofs ---------------------------
(***************************************************************************)
(* Theorems about the cron job manager, for any jobs, configurations and   *)
(* faults.  The one fact they rest on is that the scheduler never gives an *)
(* id to two entries of a process.                                         *)
(***************************************************************************)
EXTENDS CronJobs, FiniteSetTheorems, TLAPS

\* No two entries have one id.
UniqueIds == \A e, f \in entries : e.id = f.id => e = f

\* A job that is not suspended was accepted by AddCronJob: without it, SyncCronJob would
\* leave such a job out.
ActiveIsValid == \A j \in Job : ~row[j].suspended => row[j].conf \in Valid[j]

IInv == TypeOK /\ UniqueIds /\ ActiveIsValid /\ ActiveIsScheduled

\* A fault is counted, and only that fault.
LEMMA FailsCounts ==
  ASSUME TypeOK, NEW f \in Fault, Fails(f)
  PROVE  /\ spent' \in [Fault -> Nat]
         /\ spent'[f] = spent[f] + 1
         /\ \A g \in Fault \ {f} : spent'[g] = spent[g]
  BY DEF TypeOK, Fails

\* An update of the entries by Remove takes out the one entry of an id.
LEMMA RemoveOne ==
  ASSUME UniqueIds, NEW e \in entries
  PROVE  Without(e.id) = entries \ {e}
  BY DEF UniqueIds, Without

\* Nothing has the id that a suspended job names.
LEMMA RemoveNone ==
  ASSUME TypeOK
  PROVE  Without(NoEntry) = entries
<1>1. \A e \in entries : e.id \in Nat
  BY DEF TypeOK, Entry
<1> QED BY <1>1 DEF Without, NoEntry

\* The rows after one has been written.
LEMMA WriteRow ==
  ASSUME TypeOK, NEW j \in Job, NEW r \in Row, r.suspended => r.entry = NoEntry,
         row' = [row EXCEPT ![j] = r]
  PROVE  /\ row' \in [Job -> Row]
         /\ row'[j] = r
         /\ \A i \in Job \ {j} : row'[i] = row[i]
         /\ \A i \in Job : row'[i].suspended => row'[i].entry = NoEntry
<1>1. row \in [Job -> Row] /\ \A i \in Job : row[i].suspended => row[i].entry = NoEntry
  BY DEF TypeOK
<1>2. row' \in [Job -> Row] /\ row'[j] = r /\ \A i \in Job \ {j} : row'[i] = row[i]
  BY <1>1
<1>3. ASSUME NEW i \in Job, row'[i].suspended PROVE row'[i].entry = NoEntry
  <2>1. CASE i = j
    BY <1>2, <1>3, <2>1
  <2>2. CASE i # j
    BY <1>1, <1>2, <1>3, <2>2
  <2> QED BY <2>1, <2>2
<1> QED BY <1>2, <1>3

-----------------------------------------------------------------------------

LEMMA Initial == Init => IInv
<1> SUFFICES ASSUME Init PROVE IInv
  OBVIOUS
<1>1. \A j \in Job : [suspended |-> TRUE, conf |-> Seed[j], entry |-> NoEntry] \in Row
  BY CronAssumption DEF Row, NoEntry
<1>2. row \in [Job -> Row] /\ \A j \in Job : row[j].entry = NoEntry
  BY <1>1 DEF Init
<1>3. spent \in [Fault -> Nat] /\ nextID \in Nat \ {0} /\ entries = {} /\ synced = FALSE
  BY DEF Init
<1>4. ActiveIsValid
  BY DEF Init, ActiveIsValid
<1> QED BY <1>2, <1>3, <1>4 DEF IInv, TypeOK, UniqueIds, ActiveIsScheduled

\* Suspending removes the entry of the job, or leaves everything as it is.
LEMMA SuspendInductive ==
  ASSUME IInv, NEW j \in Job, NEW c \in Conf, Suspend(j, c)
  PROVE  IInv'
<1>0. /\ TypeOK /\ UniqueIds /\ ActiveIsScheduled
      /\ {"write", "commit", "sync"} \subseteq Fault
  BY DEF IInv, Fault
<1>1. /\ entries' \subseteq entries /\ nextID' = nextID /\ synced' = synced
      /\ spent' \in [Fault -> Nat]
  BY <1>0, FailsCounts DEF Suspend, Without, TypeOK
<1>2. row' \in [Job -> Row] /\ \A i \in Job : row'[i].suspended => row'[i].entry = NoEntry
  <2> DEFINE r == [suspended |-> TRUE, conf |-> c, entry |-> NoEntry]
  <2>1. r \in Row /\ r.entry = NoEntry
    BY DEF Row, NoEntry
  <2>2. CASE row' = row
    BY <1>0, <2>2 DEF TypeOK
  <2>3. CASE row' = [row EXCEPT ![j] = r]
    BY <1>0, <2>1, <2>3, WriteRow
  <2> QED BY <2>2, <2>3 DEF Suspend
<1>3. TypeOK' /\ UniqueIds'
  BY <1>0, <1>1, <1>2 DEF TypeOK, UniqueIds
<1>4. ActiveIsValid'
  <2> DEFINE r == [suspended |-> TRUE, conf |-> c, entry |-> NoEntry]
  <2>1. CASE row' = row
    BY <2>1 DEF IInv, ActiveIsValid
  <2>2. CASE row' = [row EXCEPT ![j] = r]
    <3>1. r \in Row /\ r.entry = NoEntry /\ r.suspended
      BY DEF Row, NoEntry
    <3>2. row'[j] = r /\ \A i \in Job \ {j} : row'[i] = row[i]
      BY <1>0, <2>2, <3>1, WriteRow
    <3> QED BY <3>1, <3>2 DEF IInv, ActiveIsValid
  <2> QED BY <2>1, <2>2 DEF Suspend
<1>5. ActiveIsScheduled'
  <2> SUFFICES ASSUME Committed', synced', NEW i \in Job, ~row'[i].suspended
               PROVE  [id |-> row'[i].entry, job |-> i, conf |-> row'[i].conf] \in entries'
    BY DEF ActiveIsScheduled
  <2> DEFINE Named(k) == [id |-> row[k].entry, job |-> k, conf |-> row[k].conf]
             r == [suspended |-> TRUE, conf |-> c, entry |-> NoEntry]
  <2>1. Committed /\ ~Fails("commit") /\ synced
    BY <1>0, <1>1, FailsCounts DEF Suspend, Committed, TypeOK, Fault
  <2>2. \A k \in Job : ~row[k].suspended => Named(k) \in entries
    BY <1>0, <2>1 DEF ActiveIsScheduled
  <2>3. CASE row' = row /\ entries' = entries
    BY <2>2, <2>3
  <2>4. CASE row' = [row EXCEPT ![j] = r] /\ entries' = Without(row[j].entry)
    <3>1. r \in Row /\ r.entry = NoEntry /\ r.suspended
      BY DEF Row, NoEntry
    <3>2. row'[j] = r /\ (i # j => row'[i] = row[i])
      BY <1>0, <2>4, <3>1, WriteRow
    <3>3. i # j /\ row'[i] = row[i]
      BY <3>1, <3>2
    <3>4. Named(i) \in entries /\ Named(j) \in entries
      BY <2>2, <3>3 DEF Suspend
    <3>5. entries' = entries \ {Named(j)}
      BY <1>0, <2>4, <3>4, RemoveOne
    <3> QED BY <3>3, <3>4, <3>5
  <2> QED BY <2>1, <2>3, <2>4 DEF Suspend
<1> QED BY <1>3, <1>4, <1>5 DEF IInv

LEMMA EditInductive ==
  ASSUME IInv, NEW j \in Job, NEW c \in Conf, EditSuspended(j, c)
  PROVE  IInv'
<1>1. TypeOK'
  BY DEF EditSuspended, IInv, TypeOK, Row
<1>2. UniqueIds'
  BY DEF EditSuspended, IInv, UniqueIds
<1>3. ActiveIsScheduled'
  BY DEF EditSuspended, IInv, TypeOK, Row, ActiveIsScheduled, Committed
<1>4. ActiveIsValid'
  BY DEF EditSuspended, IInv, TypeOK, Row, ActiveIsValid
<1> QED BY <1>1, <1>2, <1>3, <1>4 DEF IInv

\* Activating adds an entry with an id of its own and names it, or leaves the rows as
\* they are and removes nothing.
LEMMA ActivateSteps ==
  ASSUME TypeOK, NEW j \in Job, NEW c \in Conf, Activate(j, c)
  PROVE  /\ synced' = synced
         /\ \/ row' = row /\ entries' = entries /\ UNCHANGED nextID /\ UNCHANGED spent
            \/ row' = row /\ entries' = entries /\ nextID' = nextID + 1 /\ Fails("write")
            \/ /\ c \in Valid[j] /\ entries' = entries \cup {[id |-> nextID, job |-> j, conf |-> c]}
               /\ nextID' = nextID + 1
               /\ \/ row' = row /\ Fails("commit")
                  \/ /\ row' = [row EXCEPT ![j] = [suspended |-> FALSE, conf |-> c, entry |-> nextID]]
                     /\ UNCHANGED spent
<1>1. row[j].suspended => Without(row[j].entry) = entries
  BY RemoveNone DEF TypeOK
<1> QED BY <1>1 DEF Activate

LEMMA ActivateInductive ==
  ASSUME IInv, NEW j \in Job, NEW c \in Conf, Activate(j, c)
  PROVE  IInv'
<1> DEFINE new == [id |-> nextID, job |-> j, conf |-> c]
<1>0. /\ TypeOK /\ UniqueIds /\ ActiveIsScheduled
      /\ {"write", "commit", "sync"} \subseteq Fault
  BY DEF IInv, Fault
<1>1. new \in Entry /\ nextID + 1 \in Nat \ {0} /\ \A e \in entries : e.id < nextID + 1 /\ e.id # nextID
  BY <1>0 DEF TypeOK, Entry
<1>2. spent' \in [Fault -> Nat] /\ (Committed' => Committed /\ ~Fails("commit"))
  BY <1>0, ActivateSteps, FailsCounts DEF Committed, TypeOK, Fault
<1>3. row' \in [Job -> Row] /\ \A i \in Job : row'[i].suspended => row'[i].entry = NoEntry
  <2> DEFINE r == [suspended |-> FALSE, conf |-> c, entry |-> nextID]
  <2>1. r \in Row /\ ~r.suspended
    BY <1>0 DEF Row, TypeOK
  <2>2. CASE row' = row
    BY <1>0, <2>2 DEF TypeOK
  <2>3. CASE row' = [row EXCEPT ![j] = r]
    BY <1>0, <2>1, <2>3, WriteRow
  <2> QED BY <1>0, <2>2, <2>3, ActivateSteps
<1>4. entries' \subseteq entries \cup {new} /\ nextID' \in {nextID, nextID + 1}
      /\ (new \in entries' => nextID' = nextID + 1)
  BY <1>0, <1>1, ActivateSteps
<1>5. TypeOK'
  BY <1>0, <1>1, <1>2, <1>3, <1>4, ActivateSteps DEF TypeOK
<1>6. UniqueIds'
  BY <1>0, <1>1, <1>4 DEF UniqueIds
<1>7. ActiveIsScheduled'
  <2> SUFFICES ASSUME Committed', synced', NEW i \in Job, ~row'[i].suspended
               PROVE  [id |-> row'[i].entry, job |-> i, conf |-> row'[i].conf] \in entries'
    BY DEF ActiveIsScheduled
  <2> DEFINE Named(k) == [id |-> row[k].entry, job |-> k, conf |-> row[k].conf]
             r == [suspended |-> FALSE, conf |-> c, entry |-> nextID]
  <2>1. \A k \in Job : ~row[k].suspended => Named(k) \in entries'
    BY <1>0, <1>2, ActivateSteps DEF ActiveIsScheduled
  <2>2. CASE row' = row
    BY <2>1, <2>2
  <2>3. CASE row' = [row EXCEPT ![j] = r] /\ entries' = entries \cup {new}
    <3>1. r \in Row /\ ~r.suspended /\ r.entry = nextID /\ r.conf = c
      BY <1>0 DEF Row, TypeOK
    <3>2. row'[j] = r /\ (i # j => row'[i] = row[i])
      BY <1>0, <2>3, <3>1, WriteRow
    <3>3. CASE i = j
      BY <2>3, <3>1, <3>2, <3>3
    <3>4. CASE i # j
      BY <2>1, <3>2, <3>4
    <3> QED BY <3>3, <3>4
  <2> QED BY <1>0, <2>2, <2>3, ActivateSteps
<1>8. ActiveIsValid'
  <2> DEFINE r == [suspended |-> FALSE, conf |-> c, entry |-> nextID]
  <2>1. CASE row' = row
    BY <2>1 DEF IInv, ActiveIsValid
  <2>2. CASE row' = [row EXCEPT ![j] = r] /\ c \in Valid[j]
    <3>1. r \in Row /\ ~r.suspended /\ r.conf = c
      BY <1>0 DEF Row, TypeOK
    <3>2. row'[j] = r /\ \A i \in Job \ {j} : row'[i] = row[i]
      BY <1>0, <2>2, <3>1, WriteRow
    <3> QED BY <2>2, <3>1, <3>2 DEF IInv, ActiveIsValid
  <2> QED BY <1>0, <2>1, <2>2, ActivateSteps
<1> QED BY <1>5, <1>6, <1>7, <1>8 DEF IInv

\* The entries of the jobs in a set, with ids that are new and differ, keep ids unique.
LEMMA AddEntries ==
  ASSUME TypeOK, UniqueIds, NEW A \in SUBSET Job, NEW n \in Nat,
         NEW id \in [A -> nextID..(nextID + n - 1)], IsInjective(id),
         nextID' = nextID + n,
         entries' = entries \cup {[id |-> id[j], job |-> j, conf |-> row[j].conf] : j \in A}
  PROVE  /\ entries' \in SUBSET Entry /\ nextID' \in Nat \ {0}
         /\ \A e \in entries' : e.id < nextID'
         /\ UniqueIds'
         /\ \A j \in A : id[j] \in Int
<1> DEFINE entry(j) == [id |-> id[j], job |-> j, conf |-> row[j].conf]
<1>1. nextID \in Nat \ {0} /\ entries \in SUBSET Entry /\ row \in [Job -> Row]
      /\ \A e \in entries : e.id < nextID
  BY DEF TypeOK
<1>2. ASSUME NEW j \in A
      PROVE  id[j] \in Nat \ {0} /\ nextID <= id[j] /\ id[j] < nextID + n
  <2>1. id[j] \in nextID..(nextID + n - 1)
    OBVIOUS
  <2> QED BY <1>1, <2>1
<1>3. ASSUME NEW j \in A PROVE entry(j) \in Entry /\ entry(j).id = id[j]
  <2>1. row[j] \in Row
    BY <1>1
  <2>2. row[j].conf \in Conf
    BY <2>1 DEF Row
  <2>3. entry(j).id = id[j]
    OBVIOUS
  <2> QED BY <1>2, <2>2, <2>3 DEF Entry
<1>4. ASSUME NEW e \in entries PROVE e \in Entry /\ e.id \in Nat /\ e.id < nextID
  BY <1>1 DEF Entry
<1>5. ASSUME NEW e \in entries'
      PROVE  e \in entries \/ \E j \in A : e = entry(j)
  OBVIOUS
<1> HIDE DEF entry
<1>6. ASSUME NEW e \in entries' PROVE e \in Entry /\ e.id < nextID'
  <2>1. CASE e \in entries
    BY <1>1, <1>4, <2>1
  <2>2. ASSUME NEW j \in A, e = entry(j) PROVE e \in Entry /\ e.id < nextID'
    BY <1>2, <1>3, <2>2
  <2> QED BY <1>5, <2>1, <2>2
<1>7. ASSUME NEW e \in entries', NEW f \in entries', e.id = f.id PROVE e = f
  <2>1. CASE e \in entries /\ f \in entries
    BY <1>7, <2>1 DEF UniqueIds
  <2>2. ASSUME NEW j \in A, NEW k \in A, e = entry(j), f = entry(k) PROVE e = f
    <3>1. id[j] = id[k]
      BY <1>3, <1>7, <2>2
    <3> QED BY <2>2, <3>1 DEF IsInjective
  <2>3. ASSUME NEW j \in A, e \in entries, f = entry(j) PROVE FALSE
    BY <1>1, <1>2, <1>3, <1>4, <1>7, <2>3
  <2>4. ASSUME NEW j \in A, e = entry(j), f \in entries PROVE FALSE
    BY <1>1, <1>2, <1>3, <1>4, <1>7, <2>4
  <2> QED BY <1>5, <2>1, <2>2, <2>3, <2>4
<1>8. nextID' \in Nat \ {0}
  BY <1>1
<1> QED BY <1>2, <1>6, <1>7, <1>8 DEF UniqueIds

\* A synchronisation that fails is counted, and after it nothing is promised.
LEMMA SyncFails ==
  ASSUME TypeOK, Fails("sync")
  PROVE  spent' \in [Fault -> Nat] /\ ~Committed'
<1>1. "sync" \in Fault /\ spent["sync"] \in Nat
  BY DEF Fault, TypeOK
<1>2. spent' \in [Fault -> Nat] /\ spent'["sync"] = spent["sync"] + 1
  BY <1>1, FailsCounts
<1> QED BY <1>1, <1>2 DEF Committed

\* SyncCronJob gives every active job an entry with an id that no other entry has.
LEMMA SyncInductive == ASSUME IInv, Sync PROVE IInv'
<1> DEFINE active == {j \in Job : ~row[j].suspended /\ row[j].conf \in Valid[j]}
           n == Cardinality(active)
<1>0. TypeOK /\ UniqueIds /\ ActiveIsValid /\ synced' = TRUE
  BY DEF IInv, Sync
<1>1. active \in SUBSET Job /\ n \in Nat
  BY CronAssumption, FS_Subset, FS_CardinalityType
<1>2. CASE UNCHANGED <<row, entries, nextID>> /\ Fails("sync")
  <2>1. spent' \in [Fault -> Nat] /\ ~Committed'
    BY <1>0, <1>2, SyncFails
  <2>2. TypeOK' /\ UniqueIds'
    BY <1>0, <1>2, <2>1 DEF TypeOK, UniqueIds
  <2> QED BY <1>0, <1>2, <2>1, <2>2 DEF IInv, ActiveIsScheduled, ActiveIsValid
<1>3. ASSUME NEW id \in [active -> nextID..(nextID + n - 1)], IsInjective(id),
             nextID' = nextID + n,
             entries' = entries \cup {[id |-> id[j], job |-> j, conf |-> row[j].conf] : j \in active},
             \/ /\ row' = [j \in Job |-> IF j \in active
                                         THEN [row[j] EXCEPT !.entry = id[j]] ELSE row[j]]
                /\ UNCHANGED spent
             \/ UNCHANGED row /\ Fails("sync")
      PROVE  IInv'
  <2> HIDE DEF active, n
  <2>1. /\ entries' \in SUBSET Entry /\ nextID' \in Nat \ {0}
        /\ \A e \in entries' : e.id < nextID'
        /\ UniqueIds'
        /\ \A j \in active : id[j] \in Int
    BY <1>0, <1>1, <1>3, AddEntries
  <2>2. CASE UNCHANGED row /\ Fails("sync")
    <3>1. spent' \in [Fault -> Nat] /\ ~Committed'
      BY <1>0, <2>2, SyncFails
    <3>2. TypeOK'
      BY <1>0, <2>1, <2>2, <3>1 DEF TypeOK
    <3> QED BY <1>0, <2>1, <2>2, <3>1, <3>2 DEF IInv, ActiveIsScheduled, ActiveIsValid
  <2>3. CASE /\ row' = [j \in Job |-> IF j \in active
                                     THEN [row[j] EXCEPT !.entry = id[j]] ELSE row[j]]
             /\ UNCHANGED spent
    <3>1. \A j \in Job : row[j] \in Row
      BY <1>0 DEF TypeOK
    <3>2. ASSUME NEW j \in active
          PROVE  /\ row'[j] = [row[j] EXCEPT !.entry = id[j]] /\ row'[j] \in Row
                 /\ row'[j].entry = id[j] /\ row'[j].conf = row[j].conf
                 /\ row'[j].suspended = row[j].suspended
      <4>1. row'[j] = [row[j] EXCEPT !.entry = id[j]] /\ row[j] \in Row /\ id[j] \in Int
        BY <1>1, <2>1, <2>3, <3>1
      <4> QED BY <4>1 DEF Row
    <3>3. ASSUME NEW j \in Job, j \notin active PROVE row'[j] = row[j]
      BY <2>3, <3>3
    <3>4. row' \in [Job -> Row]
      <4>1. \A j \in Job : row'[j] \in Row
        BY <3>1, <3>2, <3>3
      <4>2. row' = [j \in Job |-> row'[j]]
        BY <2>3
      <4> QED BY <4>1, <4>2
    <3>5. ASSUME NEW j \in active PROVE ~row[j].suspended /\ row[j].conf \in Valid[j]
      BY DEF active
    <3>6. ASSUME NEW j \in Job, row'[j].suspended PROVE row'[j].entry = NoEntry
      <4>1. j \notin active
        BY <3>2, <3>5, <3>6
      <4> QED BY <1>0, <3>3, <3>6, <4>1 DEF TypeOK
    <3>7. TypeOK'
      <4>1. spent' \in [Fault -> Nat] /\ synced' \in BOOLEAN
        BY <1>0, <2>3 DEF TypeOK
      <4> QED BY <2>1, <3>4, <3>6, <4>1 DEF TypeOK
    <3>8. ASSUME NEW j \in active
          PROVE  [id |-> row'[j].entry, job |-> j, conf |-> row'[j].conf] \in entries'
      BY <1>3, <3>2
    <3>9. ASSUME NEW j \in Job, ~row'[j].suspended
          PROVE  j \in active /\ row'[j].conf \in Valid[j]
      <4>1. j \in active
        BY <1>0, <3>3, <3>9 DEF ActiveIsValid, active
      <4> QED BY <3>2, <3>5, <4>1
    <3> QED BY <2>1, <3>7, <3>8, <3>9 DEF IInv, ActiveIsScheduled, ActiveIsValid
  <2> QED BY <1>3, <2>2, <2>3
<1> QED BY <1>2, <1>3 DEF Sync

\* After a restart the scheduler is empty, and nothing is promised until it is filled.
LEMMA RestartInductive == ASSUME IInv, Restart PROVE IInv'
<1>1. "restart" \in Fault /\ TypeOK /\ Fails("restart")
  BY DEF IInv, Fault, Restart
<1>2. spent' \in [Fault -> Nat]
  BY <1>1, FailsCounts
<1>3. entries' = {} /\ nextID' = 1 /\ synced' = FALSE /\ row' = row
  BY DEF Restart
<1>4. TypeOK'
  <2>1. row' \in [Job -> Row] /\ \A j \in Job : row'[j].suspended => row'[j].entry = NoEntry
    BY <1>1, <1>3 DEF TypeOK
  <2>2. entries' \in SUBSET Entry /\ \A e \in entries' : e.id < nextID'
    BY <1>3
  <2>3. nextID' \in Nat \ {0}
    BY <1>3
  <2>4. synced' \in BOOLEAN
    BY DEF Restart
  <2> QED BY <1>2, <2>1, <2>2, <2>3, <2>4 DEF TypeOK
<1> QED BY <1>3, <1>4 DEF IInv, UniqueIds, ActiveIsScheduled, ActiveIsValid

\* Every step of the manager keeps the invariant.
LEMMA Inductive == IInv /\ [Next]_vars => IInv'
<1> SUFFICES ASSUME IInv, [Next]_vars PROVE IInv'
  OBVIOUS
<1>1. CASE \E j \in Job, c \in Conf : Suspend(j, c)
  BY <1>1, SuspendInductive
<1>2. CASE \E j \in Job, c \in Conf : EditSuspended(j, c)
  BY <1>2, EditInductive
<1>3. CASE \E j \in Job, c \in Conf : Activate(j, c)
  BY <1>3, ActivateInductive
<1>4. CASE Sync
  BY <1>4, SyncInductive
<1>5. CASE Restart
  BY <1>5, RestartInductive
<1>6. CASE UNCHANGED vars
  BY <1>6 DEF vars, IInv, TypeOK, UniqueIds, ActiveIsValid, ActiveIsScheduled, Committed
<1> QED BY <1>1, <1>2, <1>3, <1>4, <1>5, <1>6 DEF Next

LEMMA Invariance == Spec => []IInv
  BY Initial, Inductive, PTL DEF Spec

\* Rows and entries have their types, ids are below the next one, and a suspended job
\* names no entry (updateSuspendedJobConfig).
THEOREM CronTypeCorrect == Spec => []TypeOK
<1>1. IInv => TypeOK
  BY DEF IInv
<1> QED BY <1>1, Invariance, PTL

\* Once SyncCronJob has run, every job that is not suspended has the entry that its row
\* names, with the configuration of the row, unless a transaction failed to commit.
THEOREM ActiveIsScheduledCorrect == Spec => []ActiveIsScheduled
<1>1. IInv => ActiveIsScheduled
  BY DEF IInv
<1> QED BY <1>1, Invariance, PTL

\* Suspending a job removes at most the entry that its row names, which is its own.
LEMMA SuspendRemovesOwn ==
  ASSUME IInv, synced, NEW j \in Job, NEW c \in Conf, Suspend(j, c), Committed'
  PROVE  \A e \in entries \ entries' : e.job = j /\ row'[j] # row[j]
<1>0. TypeOK /\ UniqueIds /\ ActiveIsScheduled /\ {"write", "commit", "sync"} \subseteq Fault
  BY DEF IInv, Fault
<1>1. Committed /\ ~Fails("commit")
  BY <1>0, FailsCounts DEF Suspend, Committed, TypeOK, Fault
<1> DEFINE own == [id |-> row[j].entry, job |-> j, conf |-> row[j].conf]
           r   == [suspended |-> TRUE, conf |-> c, entry |-> NoEntry]
<1>2. own \in entries
  BY <1>0, <1>1 DEF ActiveIsScheduled, Suspend
<1>3. Without(row[j].entry) = entries \ {own}
  BY <1>0, <1>2, RemoveOne
<1>4. CASE row' = [row EXCEPT ![j] = r] /\ entries' = Without(row[j].entry)
  <2>1. r \in Row /\ r.entry = NoEntry /\ r.suspended
    BY DEF Row, NoEntry
  <2>2. row'[j] = r
    BY <1>0, <1>4, <2>1, WriteRow
  <2>3. row'[j] # row[j]
    BY <2>1, <2>2 DEF Suspend
  <2> QED BY <1>3, <1>4, <2>3
<1>5. CASE entries' = entries
  BY <1>5
<1> QED BY <1>1, <1>4, <1>5 DEF Suspend

\* Once SyncCronJob has run in this process, and while no commit has failed, an update
\* never takes the entry of a job out of the scheduler whose row it does not write,
\* although it removes entries by ids that come again in every process.
THEOREM OthersStayScheduledCorrect == Spec => OthersStayScheduled
<1> DEFINE Kept == \A e \in entries \ entries' : row'[e.job] # row[e.job]
<1>1. ASSUME IInv, [Next]_vars
      PROVE  [Committed' /\ synced /\ synced' => Kept]_vars
  <2> SUFFICES ASSUME Committed', synced, synced' PROVE Kept
    OBVIOUS
  <2>1. ASSUME NEW j \in Job, NEW c \in Conf, Suspend(j, c) PROVE Kept
    BY <1>1, <2>1, SuspendRemovesOwn
  <2>2. ASSUME NEW j \in Job, NEW c \in Conf, EditSuspended(j, c) PROVE Kept
    BY <2>2 DEF EditSuspended
  <2>3. ASSUME NEW j \in Job, NEW c \in Conf, Activate(j, c) PROVE Kept
    <3>1. entries \subseteq entries'
      BY <1>1, <2>3, ActivateSteps DEF IInv
    <3> QED BY <3>1
  <2>4. ~Sync /\ ~Restart
    BY DEF Sync, Restart
  <2>5. CASE UNCHANGED vars
    BY <2>5 DEF vars
  <2> QED BY <1>1, <2>1, <2>2, <2>3, <2>4, <2>5 DEF Next
<1> QED BY <1>1, Invariance, PTL DEF Spec, OthersStayScheduled

\* An update whose write fails leaves the scheduler as it was.
THEOREM FailedWriteLeavesNoTraceCorrect == Spec => FailedWriteLeavesNoTrace
<1> DEFINE Failed == spent'["write"] # spent["write"]
<1>0. {"write", "commit", "sync", "restart"} \subseteq Fault
  BY DEF Fault
<1>1. ASSUME IInv, [Next]_vars
      PROVE  [Failed => entries' = entries]_vars
  <2> SUFFICES ASSUME Failed PROVE entries' = entries
    OBVIOUS
  <2>1. TypeOK /\ ~Fails("commit") /\ ~Fails("sync") /\ ~Fails("restart")
    BY <1>0, <1>1, FailsCounts DEF IInv
  <2>2. ASSUME NEW j \in Job, NEW c \in Conf, Suspend(j, c) PROVE entries' = entries
    BY <2>1, <2>2 DEF Suspend
  <2>3. ASSUME NEW j \in Job, NEW c \in Conf, EditSuspended(j, c) PROVE entries' = entries
    BY <2>3 DEF EditSuspended
  <2>4. ASSUME NEW j \in Job, NEW c \in Conf, Activate(j, c) PROVE entries' = entries
    BY <2>1, <2>4, ActivateSteps
  <2>5. ~Sync /\ ~Restart
    BY <2>1 DEF Sync, Restart
  <2>6. ~UNCHANGED vars
    BY DEF vars
  <2> QED BY <1>1, <2>2, <2>3, <2>4, <2>5, <2>6 DEF Next
<1> QED BY <1>1, Invariance, PTL DEF Spec, FailedWriteLeavesNoTrace
=============================================================================
