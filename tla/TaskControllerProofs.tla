------------------------ MODULE TaskControllerProofs ------------------------
(***************************************************************************)
(* Theorems about the task controller, for any number of accounts, tasks   *)
(* and days and any budget of faults.                                      *)
(***************************************************************************)
EXTENDS TaskController, QueueQuotaProofs

\* The type invariant needs that the keys of a user queue are distinct and its own: a
\* deletion takes out the only position of a key.  The task in work is a candidate.
QueuesType(queues) ==
  /\ queues \in [UserQueue -> Seq(Task)]
  /\ \A q \in UserQueue : Distinct(queues[q]) /\ \A t \in ToSet(queues[q]) : QueueOf(t) = q

TypeInv == TypeOK /\ QueuesType(queue) /\ (cur.task \in Task => cur.task \in Candidates)

\* A fault that happens is counted, and nothing else is.
LEMMA FailsType ==
  ASSUME spent \in [Fault -> Nat], NEW f \in Fault, Fails(f)
  PROVE  spent' \in [Fault -> Nat] /\ \A g \in Fault \ {f} : spent'[g] = spent[g]
BY DEF Fails

\* Taking a task back leaves quotas of the right type ...
LEMMA TakeBackType ==
  ASSUME TypeInv, NEW t \in Task, NEW tasks \in SUBSET Task, NEW amount \in Int,
         TakeBack(t, tasks, amount)
  PROVE  /\ quotaInfos' \in SUBSET Account
         /\ used' \in [Account -> SUBSET Task]
         /\ hardUsed' \in [Account -> Int]
<1>1. AccountOf[t] \in Account /\ Request[t] \in Int
  BY QuotaAssumption
<1> QED
  BY <1>1 DEF TakeBack, TypeInv, TypeOK

\* ... and so does the release of a task, whether its account was cached or not.
LEMMA ReleaseType ==
  ASSUME TypeInv, NEW t \in Task, Release(t)
  PROVE  /\ quotaInfos' \in SUBSET Account
         /\ used' \in [Account -> SUBSET Task]
         /\ hardUsed' \in [Account -> Int]
         /\ spent' \in [Fault -> Nat]
<1> DEFINE a == AccountOf[t]
           stored == Listed(a, Occupying)
<1>1. a \in Account
  BY QuotaAssumption
<1>2. stored \in SUBSET Task /\ Usage(stored) \in Int
  BY UsageIsNat DEF Listed
<1>3. used[a] \in SUBSET Task /\ hardUsed[a] \in Int
  BY <1>1 DEF TypeInv, TypeOK
<1>4. spent' \in [Fault -> Nat]
  BY FailsType DEF Release, TypeInv, TypeOK, Fault
<1>5. CASE TakeBack(t, used[a], hardUsed[a])
  BY <1>3, <1>4, <1>5, TakeBackType
<1>6. CASE TakeBack(t, stored, Usage(stored))
  BY <1>2, <1>4, <1>6, TakeBackType
<1>7. CASE TakeBack(t, {}, 0)
  <2>1. {} \in SUBSET Task /\ 0 \in Int
    OBVIOUS
  <2> QED BY <2>1, <1>4, <1>7, TakeBackType
<1>8. CASE UNCHANGED <<quotaInfos, used, hardUsed>>
  BY <1>4, <1>8 DEF TypeInv, TypeOK
<1> QED
  BY <1>5, <1>6, <1>7, <1>8 DEF Release

\* Loading the database leaves queues and quotas of the right type.
LEMMA LoadMemoryType ==
  ASSUME TypeInv, LoadMemory
  PROVE  /\ userQueues' \in SUBSET Account
         /\ quotaInfos' \in SUBSET Account
         /\ used' \in [Account -> SUBSET Task]
         /\ hardUsed' \in [Account -> Int]
         /\ QueuesType(queue')
         /\ \A t \in Task : t \in Queued' <=> /\ AccountOf[t] \in accounts
                                             /\ t \in Listed(AccountOf[t], {"Queueing"})
<1> DEFINE waiting(q) == {t \in Task : /\ QueueOf(t) = q /\ AccountOf[t] \in accounts
                                        /\ t \in Listed(AccountOf[t], {"Queueing"})}
<1>1. \A a : Listed(a, Occupying) \in SUBSET Task
  BY DEF Listed
<1>2. ASSUME NEW q \in UserQueue
      PROVE  queue'[q] \in Seq(Task) /\ Distinct(queue'[q]) /\ ToSet(queue'[q]) = waiting(q)
  <2>1. waiting(q) \in SUBSET Task
    OBVIOUS
  <2>2. IsFiniteSet(waiting(q))
    BY <2>1, FS_Subset, QuotaAssumption
  <2>3. queue'[q] \in SetToSeqs(waiting(q))
    BY DEF LoadMemory
  <2> HIDE DEF waiting
  <2>4. queue'[q] \in Seq(waiting(q)) /\ Distinct(queue'[q]) /\ ToSet(queue'[q]) = waiting(q)
    BY <2>2, <2>3, LoadedQueue
  <2> QED BY <2>1, <2>4, SeqMonotonic
<1>3. \E V : queue' \in [UserQueue -> V]
  BY DEF LoadMemory
<1>4. queue' \in [UserQueue -> Seq(Task)]
  BY <1>2, <1>3
<1>5. QueuesType(queue')
  BY <1>2, <1>4 DEF QueuesType
<1>6. \A t \in Task : t \in Queued' <=> /\ AccountOf[t] \in accounts
                                      /\ t \in Listed(AccountOf[t], {"Queueing"})
  <2>1. \A t \in Task : QueueOf(t) \in UserQueue
    BY QuotaAssumption DEF QueueOf, UserQueue
  <2> QED BY <1>2, <2>1 DEF Queued
<1>7. used' \in [Account -> SUBSET Task]
  BY <1>1 DEF LoadMemory
<1>8. hardUsed' \in [Account -> Int]
  BY UsageIsNat DEF LoadMemory
<1> QED
  BY <1>5, <1>6, <1>7, <1>8 DEF LoadMemory, TypeInv, TypeOK

\* Adding the quota of a task leaves quotas of the right type.
LEMMA ReserveType ==
  ASSUME TypeInv, NEW t \in Task, Reserve(t)
  PROVE  /\ quotaInfos' \in SUBSET Account
         /\ used' \in [Account -> SUBSET Task]
         /\ hardUsed' \in [Account -> Int]
<1>1. AccountOf[t] \in Account /\ Request[t] \in Int
  BY QuotaAssumption
<1> QED
  BY <1>1 DEF Reserve, TypeInv, TypeOK

\* Queueing a task and taking one out of its queue leave queues of distinct tasks, and
\* nobody else comes or goes.
LEMMA QueueType ==
  ASSUME TypeInv, NEW t \in Task
  PROVE  /\ RemoveTask(t) => QueuesType(queue') /\ Queued' = Queued \ {t}
         /\ AddTask(t) => /\ QueuesType(queue')
                          /\ Queued' = IF AccountOf[t] \in userQueues THEN Queued \cup {t} ELSE Queued
<1>1. /\ queue \in [UserQueue -> Seq(Task)] /\ QueueOf(t) \in UserQueue
      /\ \A q \in UserQueue : Distinct(queue[q]) /\ \A u \in ToSet(queue[q]) : QueueOf(u) = q
  BY QuotaAssumption DEF TypeInv, QueuesType, QueueOf, UserQueue
<1> DEFINE q == QueueOf(t)
<1>2. ASSUME NEW w \in Seq(Task), Distinct(w), queue' = [queue EXCEPT ![q] = w],
             \A u \in ToSet(w) : QueueOf(u) = q
      PROVE  QueuesType(queue')
  BY <1>1, <1>2 DEF QueuesType
<1>3. ASSUME NEW w \in Seq(Task), queue' = [queue EXCEPT ![q] = w]
      PROVE  /\ queue'[q] = w /\ \A p \in UserQueue : p # q => queue'[p] = queue[p]
  BY <1>1, <1>3
<1>4. ASSUME RemoveTask(t) PROVE QueuesType(queue') /\ Queued' = Queued \ {t}
  <2> DEFINE w == Withdraw(queue[q], t)
  <2>1. w \in Seq(Task) /\ Distinct(w) /\ ToSet(w) = ToSet(queue[q]) \ {t}
    BY <1>1, WithdrawProperties
  <2>2. queue' = [queue EXCEPT ![q] = w]
    BY <1>4 DEF RemoveTask
  <2> HIDE DEF w
  <2>3. QueuesType(queue')
    BY <1>1, <1>2, <2>1, <2>2
  <2>4. Queued' = Queued \ {t}
    <3>1. \A p \in UserQueue : p # q => t \notin ToSet(queue[p])
      BY <1>1
    <3>2. \A p \in UserQueue : ToSet(queue'[p]) = ToSet(queue[p]) \ {t}
      BY <1>1, <1>3, <2>1, <2>2, <3>1
    <3> QED BY <3>2 DEF Queued
  <2> QED BY <2>3, <2>4
<1>5. ASSUME AddTask(t)
      PROVE  /\ QueuesType(queue')
             /\ Queued' = IF AccountOf[t] \in userQueues THEN Queued \cup {t} ELSE Queued
  <2>1. CASE AccountOf[t] \in userQueues /\ ~Contains(queue[q], t)
    <3> DEFINE w == Enqueue(queue[q], t)
    <3>1. w \in Seq(Task) /\ Distinct(w) /\ ToSet(w) = ToSet(queue[q]) \cup {t}
      BY <1>1, EnqueueProperties
    <3>2. queue' = [queue EXCEPT ![q] = w]
      BY <1>5, <2>1 DEF AddTask
    <3> HIDE DEF w
    <3>3. QueuesType(queue')
      BY <1>1, <1>2, <3>1, <3>2
    <3>4. Queued' = Queued \cup {t}
      BY <1>1, <1>3, <3>1, <3>2 DEF Queued
    <3> QED BY <2>1, <3>3, <3>4
  <2>2. CASE ~(AccountOf[t] \in userQueues /\ ~Contains(queue[q], t))
    <3>1. queue' = queue
      BY <1>5, <2>2 DEF AddTask
    <3>2. Contains(queue[q], t) => t \in Queued
      BY <1>1 DEF Contains, Queued, ToSet
    <3>3. Queued' = Queued
      BY <3>1 DEF Queued
    <3> QED BY <2>2, <3>1, <3>2, <3>3 DEF TypeInv
  <2> QED BY <2>1, <2>2
<1> QED BY <1>4, <1>5

\* What a push, a deletion and a turn of the list leave of the list under way.
LEMMA WalkType ==
  ASSUME TypeInv
  PROVE  /\ \A w \in Seq(Task) : [walk EXCEPT !.stale = w] \in Walk
         /\ [walk EXCEPT !.read = @ + 1] \in Walk
         /\ \A q \in UserQueue, n \in Nat, c \in Int :
              [of |-> q, len |-> n, read |-> 0, stale |-> <<>>, copy |-> c] \in Walk
         /\ NoWalk \in Walk
<1>1. walk \in Walk
  BY DEF TypeInv, TypeOK
<1>2. <<>> \in Seq(Task)
  BY EmptyQueue
<1> QED BY <1>1, <1>2 DEF Walk, NoWalk

-----------------------------------------------------------------------------

\* The updates of one row leave a table of rows.
LEMMA RowUpdates ==
  ASSUME TypeInv, NEW t \in Task
  PROVE  /\ \A s \in Status : [row EXCEPT ![t].status = s] \in [Task -> Row]
         /\ \A n \in Nat : [row EXCEPT ![t].status = "Queueing", ![t].createdAt = n] \in [Task -> Row]
         /\ \A d \in 0..MaxDay : [row EXCEPT ![t].jobName = d] \in [Task -> Row]
         /\ [row EXCEPT ![t].deleted = TRUE] \in [Task -> Row]
<1>1. row \in [Task -> Row] /\ row[t] \in Row /\ "Queueing" \in Status
  BY DEF TypeInv, TypeOK, Status
<1>2. ASSUME NEW s \in Status PROVE [row EXCEPT ![t].status = s] \in [Task -> Row]
  <2>1. [row[t] EXCEPT !.status = s] \in Row
    BY <1>1 DEF Row
  <2> QED BY <1>1, <2>1
<1>3. ASSUME NEW n \in Nat
      PROVE  [row EXCEPT ![t].status = "Queueing", ![t].createdAt = n] \in [Task -> Row]
  <2>1. [row[t] EXCEPT !.status = "Queueing", !.createdAt = n] \in Row
    BY <1>1 DEF Row
  <2>2. [row EXCEPT ![t].status = "Queueing", ![t].createdAt = n]
          = [row EXCEPT ![t] = [row[t] EXCEPT !.status = "Queueing", !.createdAt = n]]
    BY <1>1
  <2> QED BY <1>1, <2>1, <2>2
<1>4. ASSUME NEW d \in 0..MaxDay PROVE [row EXCEPT ![t].jobName = d] \in [Task -> Row]
  <2>1. [row[t] EXCEPT !.jobName = d] \in Row
    BY <1>1 DEF Row
  <2> QED BY <1>1, <2>1
<1>5. [row EXCEPT ![t].deleted = TRUE] \in [Task -> Row]
  <2>1. [row[t] EXCEPT !.deleted = TRUE] \in Row
    BY <1>1 DEF Row
  <2> QED BY <1>1, <2>1
<1> QED BY <1>2, <1>3, <1>4, <1>5

\* The candidate that the scheduler has done with is one of its candidates.
LEMMA SkipType ==
  ASSUME TypeInv, NEW t \in Candidates, Skip(t)
  PROVE  cands' \in [Task -> Nat] /\ step' = "scan" /\ cur' = NoCur /\ cur'.task = NoTask
         /\ cur' \in [task : Task \cup {NoTask}, day : 0..MaxDay]
<1>1. cands \in [Task -> Nat] /\ cands[t] - 1 \in Nat
  BY DEF TypeInv, TypeOK, Candidates
<1>2. 0 \in 0..MaxDay
  BY ControllerAssumption
<1> QED BY <1>1, <1>2 DEF Skip, NoCur

\* Every action keeps the variables in their types.
LEMMA TypeInductive == TypeInv /\ [Next]_vars => TypeInv'
<1> SUFFICES ASSUME TypeInv, [Next]_vars PROVE TypeInv'
  OBVIOUS
<1> USE DEF database, cluster, memory, schedule, vars
<1>1. ASSUME NEW t \in Task, SubmitInsert(t) PROVE TypeInv'
  <2>1. Cardinality({u \in Task : row[u].status # "Absent"}) \in Nat
    BY FS_Subset, FS_CardinalityType, QuotaAssumption
  <2>2. row' \in [Task -> Row]
    BY <1>1, <2>1, RowUpdates DEF SubmitInsert
  <2> QED
    BY <1>1, <2>2 DEF SubmitInsert, TypeInv, TypeOK, QueuesType, Candidates
<1>2. ASSUME NEW t \in Task, SubmitNotify(t) PROVE TypeInv'
  <2>1. QueuesType(queue')
    BY <1>2, QueueType DEF SubmitNotify, TypeInv
  <2>3. walk' \in Walk /\ (walk' # NoWalk => step = "list" /\ walk'.of \in UserQueue)
    <3>1. walk \in Walk /\ walk.stale \in Seq(Task)
      BY DEF TypeInv, TypeOK, Walk
    <3>2. CASE walk.stale # <<>> /\ walk' = [walk EXCEPT !.stale = Tail(@)]
      <4>1. Tail(walk.stale) \in Seq(Task)
        BY <3>1, <3>2, HeadTailProperties
      <4>2. walk' \in Walk
        BY <3>2, <4>1, WalkType
      <4>3. walk # NoWalk /\ walk'.of = walk.of
        BY <3>1, <3>2 DEF NoWalk, Walk
      <4> QED BY <4>2, <4>3 DEF TypeInv, TypeOK, QueuesType, Candidates
    <3>3. CASE walk' = walk
      BY <3>3 DEF TypeInv, TypeOK, QueuesType, Candidates
    <3> QED BY <1>2, <3>2, <3>3 DEF SubmitNotify, AddTask
  <2>2. spent' \in [Fault -> Nat]
    BY <1>2, FailsType DEF SubmitNotify, TypeInv, TypeOK, Fault
  <2> QED
    BY <1>2, <2>1, <2>2, <2>3 DEF SubmitNotify, TypeInv, TypeOK, QueuesType, Candidates
<1>3. ASSUME NEW t \in Task, DeleteRead(t) PROVE TypeInv'
  <2>1. spent' \in [Fault -> Nat]
    BY <1>3, FailsType DEF DeleteRead, TypeInv, TypeOK, Fault
  <2>2. row[t].jobName \in 0..MaxDay /\ 0 \in 0..MaxDay
    BY ControllerAssumption DEF TypeInv, TypeOK, Row
  <2>3. deletion' \in [Task -> [at : {"idle", "queue", "quota", "job", "row"}, jobName : 0..MaxDay]]
    <3>1. deletion \in [Task -> [at : {"idle", "queue", "quota", "job", "row"}, jobName : 0..MaxDay]]
      BY DEF TypeInv, TypeOK
    <3> QED BY <1>3, <2>2, <3>1 DEF DeleteRead
  <2> QED
    BY <1>3, <2>1, <2>3 DEF DeleteRead, TypeInv, TypeOK, QueuesType, Candidates
<1>4. ASSUME NEW t \in Task, DeleteQueued(t) PROVE TypeInv'
  <2>1. QueuesType(queue')
    BY <1>4, QueueType DEF DeleteQueued
  <2>2. spent' \in [Fault -> Nat]
    BY <1>4, FailsType DEF DeleteQueued, TypeInv, TypeOK, Fault
  <2>3. walk' \in Walk /\ (walk' # NoWalk => step = "list" /\ walk'.of \in UserQueue)
    <3> DEFINE q == QueueOf(t)
               w == <<Last(queue[q])>> \o walk.stale
    <3>1. walk \in Walk /\ walk.stale \in Seq(Task) /\ q \in UserQueue /\ queue[q] \in Seq(Task)
      BY QuotaAssumption DEF TypeInv, TypeOK, Walk, QueueOf, UserQueue
    <3>2. CASE walk.of = q /\ Contains(queue[q], t) /\ walk' = [walk EXCEPT !.stale = w]
      <4>1. Len(queue[q]) \in 1..Len(queue[q])
        BY <3>1, <3>2 DEF Contains
      <4>2. Last(queue[q]) \in Task
        BY <3>1, <4>1, ElementOfSeq DEF Last
      <4>3. w \in Seq(Task)
        BY <3>1, <4>2, ConcatProperties
      <4>4. walk' \in Walk
        BY <3>2, <4>3, WalkType
      <4>5. q # NoQueue
        BY <3>1 DEF NoQueue, UserQueue
      <4>6. walk # NoWalk
        BY <3>2, <4>5 DEF NoWalk
      <4> HIDE DEF w
      <4>7. walk'.of = walk.of
        BY <3>1, <3>2 DEF Walk
      <4> QED BY <4>4, <4>6, <4>7 DEF TypeInv, TypeOK, QueuesType, Candidates
    <3>3. CASE walk' = walk
      BY <3>3 DEF TypeInv, TypeOK, QueuesType, Candidates
    <3> QED BY <1>4, <3>2, <3>3 DEF DeleteQueued
  <2> QED
    BY <1>4, <2>1, <2>2, <2>3 DEF DeleteQueued, TypeInv, TypeOK, QueuesType, Candidates
<1>5. ASSUME NEW t \in Task, DeleteQuota(t) PROVE TypeInv'
  BY <1>5, ReleaseType DEF DeleteQuota, TypeInv, TypeOK, QueuesType, Candidates
<1>6. ASSUME NEW t \in Task, DeleteJob(t) PROVE TypeInv'
  <2>1. spent' \in [Fault -> Nat]
    BY <1>6, FailsType DEF DeleteJob, TypeInv, TypeOK, Fault
  <2>2. job' \in [Task -> [Day -> Phase]]
    <3> DEFINE d == deletion[t].jobName
    <3>1. CASE job' = [job EXCEPT ![t] = [e \in Day |-> IF e = d THEN "None" ELSE @[e]]]
      <4>1. [e \in Day |-> IF e = d THEN "None" ELSE job[t][e]] \in [Day -> Phase]
        BY DEF TypeInv, TypeOK, Phase
      <4> QED BY <3>1, <4>1 DEF TypeInv, TypeOK, QueuesType, Candidates
    <3>2. CASE UNCHANGED job
      BY <3>2 DEF TypeInv, TypeOK, QueuesType, Candidates
    <3> QED BY <1>6, <3>1, <3>2 DEF DeleteJob
  <2>3. deletion' \in [Task -> [at : {"idle", "queue", "quota", "job", "row"}, jobName : 0..MaxDay]]
    BY <1>6 DEF DeleteJob, TypeInv, TypeOK, QueuesType, Candidates
  <2> QED
    BY <1>6, <2>1, <2>2, <2>3 DEF DeleteJob, TypeInv, TypeOK, QueuesType, Candidates
<1>7. ASSUME NEW t \in Task, DeleteRow(t) PROVE TypeInv'
  <2>1. spent' \in [Fault -> Nat]
    BY <1>7, FailsType DEF DeleteRow, TypeInv, TypeOK, Fault
  <2>2. 0 \in 0..MaxDay
    BY ControllerAssumption
  <2>3. row' \in [Task -> Row]
    <3>1. [row EXCEPT ![t].deleted = TRUE] \in [Task -> Row]
      BY RowUpdates
    <3>2. row \in [Task -> Row]
      BY DEF TypeInv, TypeOK, QueuesType, Candidates
    <3> QED
      BY <1>7, <3>1, <3>2 DEF DeleteRow
  <2> QED
    BY <1>7, <2>1, <2>2, <2>3 DEF DeleteRow, TypeInv, TypeOK, QueuesType, Candidates
<1>8. ASSUME NEW a \in Account, AddAccount(a) PROVE TypeInv'
  BY <1>8 DEF AddAccount, TypeInv, TypeOK, QueuesType, Candidates
<1>9. CASE Schedule
  <2>1. userQueues \X {"high", "low"} \in SUBSET UserQueue
    BY DEF TypeInv, TypeOK, UserQueue
  <2>2. todo' \in SUBSET UserQueue
    BY <1>9, <2>1 DEF Schedule, TypeInv, TypeOK, QueuesType, Candidates
  <2>3. walk # NoWalk => step' = "list"
    BY <1>9 DEF Schedule, TypeInv, TypeOK, QueuesType, Candidates
  <2>4. /\ step' \in {"scan", "list", "create", "mark", "name", "reserve", "dequeue", "fail"}
        /\ step' \in {"scan", "list"} /\ step \in {"scan", "list"}
    BY <1>9 DEF Schedule
  <2> QED
    BY <1>9, <2>2, <2>3, <2>4 DEF Schedule, TypeInv, TypeOK, QueuesType, Candidates
<1>25. ASSUME NEW q \in UserQueue, ListBegin(q) PROVE TypeInv'
  <2>1. todo' \in SUBSET UserQueue
    BY <1>25 DEF ListBegin, TypeInv, TypeOK, QueuesType, Candidates
  <2>2. q[1] \in Account
    BY DEF UserQueue
  <2>3. Len(queue[q]) \in Nat /\ hardUsed[q[1]] \in Int
    BY <2>2 DEF TypeInv, TypeOK, QueuesType, Candidates
  <2>4. walk' \in Walk /\ walk'.of = q
    BY <1>25, <2>3, WalkType DEF ListBegin
  <2> QED
    BY <1>25, <2>1, <2>4 DEF ListBegin, TypeInv, TypeOK, QueuesType, Candidates
<1>26. CASE ListRead
  <2> DEFINE t == NextKey
  <2>1. t \in Task
    BY <1>26 DEF ListRead, Queued, TypeInv, TypeOK, ToSet
  <2> HIDE DEF t
  <2>2. cands' = [cands EXCEPT ![t] = @ + 1] \/ cands' = cands
    BY <1>26 DEF ListRead, t
  <2>3. cands' \in [Task -> Nat]
    <3>1. cands \in [Task -> Nat] /\ cands[t] + 1 \in Nat
      BY <2>1 DEF TypeInv, TypeOK
    <3> QED BY <2>1, <2>2, <3>1
  <2>4. walk' \in Walk /\ (walk' # NoWalk => walk'.of \in UserQueue)
    <3>1. walk \in Walk /\ walk.of \in UserQueue
      BY <1>26 DEF ListRead, TypeInv, TypeOK, QueuesType, Candidates
    <3>2. CASE walk' = [walk EXCEPT !.read = @ + 1]
      BY <3>1, <3>2, WalkType DEF Walk
    <3>3. CASE walk' = NoWalk
      BY <3>3, WalkType
    <3> QED BY <1>26, <3>2, <3>3 DEF ListRead
  <2>5. cur.task \notin Task
    BY <1>26, ControllerAssumption DEF ListRead, TypeInv, TypeOK, QueuesType, Candidates
  <2> QED
    BY <1>26, <2>3, <2>4, <2>5 DEF ListRead, TypeInv, TypeOK, QueuesType, Candidates
<1>27. CASE ListEnd
  <2>1. cur.task \notin Task
    BY <1>27, ControllerAssumption DEF ListEnd, TypeInv, TypeOK, QueuesType, Candidates
  <2> QED
    BY <1>27, <2>1 DEF ListEnd, TypeInv, TypeOK, QueuesType, Candidates
<1>10. ASSUME NEW t \in Task, AdmitCheck(t) PROVE TypeInv'
  <2>1. spent' \in [Fault -> Nat]
    BY <1>10, FailsType DEF AdmitCheck, TypeInv, TypeOK, Fault
  <2>2. t # NoTask /\ 0 \in 0..MaxDay /\ t \in Candidates
    BY <1>10, ControllerAssumption DEF AdmitCheck
  <2>3. CASE Skip(t)
    BY <1>10, <2>1, <2>2, <2>3, SkipType, ControllerAssumption
       DEF AdmitCheck, TypeInv, TypeOK, QueuesType
  <2>4. CASE step' = "create" /\ cur' = [task |-> t, day |-> 0] /\ UNCHANGED <<cands, spent>>
    BY <1>10, <2>1, <2>2, <2>4 DEF AdmitCheck, TypeInv, TypeOK, QueuesType, Candidates
  <2> QED BY <1>10, <2>3, <2>4 DEF AdmitCheck
<1>11. CASE AdmitCreate
  <2>1. spent' \in [Fault -> Nat]
    BY <1>11, FailsType DEF AdmitCreate, TypeInv, TypeOK, Fault
  <2>2. job' \in [Task -> [Day -> Phase]]
    BY <1>11 DEF AdmitCreate, TypeInv, TypeOK, Phase
  <2>3. cur' \in [task : Task \cup {NoTask}, day : 0..MaxDay] /\ cur'.task = cur.task
    BY <1>11, ControllerAssumption DEF AdmitCreate, TypeInv, TypeOK, Day
  <2> QED
    BY <1>11, <2>1, <2>2, <2>3 DEF AdmitCreate, TypeInv, TypeOK, QueuesType, Candidates
<1>12. CASE AdmitMark
  <2>1. spent' \in [Fault -> Nat]
    BY <1>12, FailsType DEF AdmitMark, TypeInv, TypeOK, Fault
  <2>2. 0 \in 0..MaxDay
    BY ControllerAssumption
  <2>3. row' \in [Task -> Row]
    <3>1. cur.task \in Task /\ "Created" \in Status
      BY <1>12 DEF AdmitMark, TypeInv, TypeOK, Status
    <3>2. [row EXCEPT ![cur.task].status = "Created"] \in [Task -> Row]
      BY <3>1, RowUpdates
    <3>3. row \in [Task -> Row]
      BY DEF TypeInv, TypeOK, QueuesType, Candidates
    <3> QED
      BY <1>12, <3>2, <3>3 DEF AdmitMark
  <2>7. cur.task \in Candidates
    BY <1>12 DEF AdmitMark, TypeInv, TypeOK
  <2>8. CASE Skip(cur.task)
    BY <1>12, <2>1, <2>3, <2>7, <2>8, SkipType, ControllerAssumption
       DEF AdmitMark, TypeInv, TypeOK, QueuesType
  <2>9. CASE step' = "name" /\ UNCHANGED <<cands, cur, spent>>
    BY <1>12, <2>1, <2>3, <2>9 DEF AdmitMark, TypeInv, TypeOK, QueuesType, Candidates
  <2> QED BY <1>12, <2>8, <2>9 DEF AdmitMark
<1>13. CASE AdmitName
  <2>1. spent' \in [Fault -> Nat]
    BY <1>13, FailsType DEF AdmitName, TypeInv, TypeOK, Fault
  <2>2. 0 \in 0..MaxDay
    BY ControllerAssumption
  <2>3. row' \in [Task -> Row]
    <3>1. cur.task \in Task /\ cur.day \in 0..MaxDay
      BY <1>13 DEF AdmitName, TypeInv, TypeOK, Status
    <3>2. [row EXCEPT ![cur.task].jobName = cur.day] \in [Task -> Row]
      BY <3>1, RowUpdates
    <3>3. row \in [Task -> Row]
      BY DEF TypeInv, TypeOK, QueuesType, Candidates
    <3> QED
      BY <1>13, <3>2, <3>3 DEF AdmitName
  <2>7. cur.task \in Candidates
    BY <1>13 DEF AdmitName, TypeInv, TypeOK
  <2>8. CASE Skip(cur.task)
    BY <1>13, <2>1, <2>3, <2>7, <2>8, SkipType, ControllerAssumption
       DEF AdmitName, TypeInv, TypeOK, QueuesType
  <2>9. CASE step' = "reserve" /\ UNCHANGED <<cands, cur, spent>>
    BY <1>13, <2>1, <2>3, <2>9 DEF AdmitName, TypeInv, TypeOK, QueuesType, Candidates
  <2> QED BY <1>13, <2>8, <2>9 DEF AdmitName
<1>14. CASE AdmitReserve
  <2>1. cur.task \in Task
    BY <1>14 DEF AdmitReserve, TypeInv, TypeOK, QueuesType, Candidates
  <2> QED
    BY <1>14, <2>1, ReserveType DEF AdmitReserve, TypeInv, TypeOK, QueuesType, Candidates
<1>15. CASE AdmitDequeue
  <2>1. QueuesType(queue')
    <3>1. cur.task \in Task
      BY <1>15 DEF AdmitDequeue, TypeInv, TypeOK, QueuesType, Candidates
    <3> QED BY <1>15, <3>1, QueueType DEF AdmitDequeue
  <2>2. 0 \in 0..MaxDay
    BY ControllerAssumption
  <2>7. cur.task \in Candidates
    BY <1>15 DEF AdmitDequeue, TypeInv, TypeOK
  <2>8. CASE Skip(cur.task)
    BY <1>15, <2>1, <2>7, <2>8, SkipType, ControllerAssumption
       DEF AdmitDequeue, TypeInv, TypeOK, QueuesType
  <2> QED BY <1>15, <2>8 DEF AdmitDequeue
<1>16. CASE AdmitFail
  <2>1. spent' \in [Fault -> Nat]
    BY <1>16, FailsType DEF AdmitFail, TypeInv, TypeOK, Fault
  <2>2. 0 \in 0..MaxDay
    BY ControllerAssumption
  <2>3. row' \in [Task -> Row]
    <3>1. cur.task \in Task /\ "Failed" \in Status
      BY <1>16 DEF AdmitFail, TypeInv, TypeOK, Status
    <3>2. [row EXCEPT ![cur.task].status = "Failed"] \in [Task -> Row]
      BY <3>1, RowUpdates
    <3>3. row \in [Task -> Row]
      BY DEF TypeInv, TypeOK, QueuesType, Candidates
    <3> QED
      BY <1>16, <3>2, <3>3 DEF AdmitFail
  <2>7. cur.task \in Candidates
    BY <1>16 DEF AdmitFail, TypeInv, TypeOK
  <2>8. CASE Skip(cur.task)
    BY <1>16, <2>1, <2>3, <2>7, <2>8, SkipType, ControllerAssumption
       DEF AdmitFail, TypeInv, TypeOK, QueuesType
  <2>9. CASE step' = "dequeue" /\ UNCHANGED <<cands, cur, spent>>
    BY <1>16, <2>1, <2>3, <2>9 DEF AdmitFail, TypeInv, TypeOK, QueuesType, Candidates
  <2> QED BY <1>16, <2>8, <2>9 DEF AdmitFail
<1>17. CASE WatchReceive
  <2>1. Head(events) \in Report /\ Tail(events) \in Seq(Report)
    BY <1>17, HeadTailProperties DEF WatchReceive, TypeInv, TypeOK, QueuesType, Candidates
  <2>2. spent' \in [Fault -> Nat]
    BY <1>17, FailsType DEF WatchReceive, TypeInv, TypeOK, Fault
  <2>3. Head(events).task \in Task /\ Head(events).phase \in Notified
    BY <2>1 DEF Report
  <2> QED
    BY <1>17, <2>1, <2>2, <2>3 DEF WatchReceive, Idle, TypeInv, TypeOK, QueuesType, Candidates
<1>18. CASE WatchWrite
  <2>1. spent' \in [Fault -> Nat]
    BY <1>18, FailsType DEF WatchWrite, TypeInv, TypeOK, Fault
  <2>2. watch.task \in Task /\ watch.phase \in Status
    BY <1>18 DEF WatchWrite, TypeInv, TypeOK, Notified, Status
  <2>3. row' \in [Task -> Row]
    <3>1. [row EXCEPT ![watch.task].status = watch.phase] \in [Task -> Row]
      BY <2>2, RowUpdates
    <3>2. row \in [Task -> Row]
      BY DEF TypeInv, TypeOK, QueuesType, Candidates
    <3> QED
      BY <1>18, <3>1, <3>2 DEF WatchWrite
  <2>4. watch' \in {Idle, [watch EXCEPT !.at = "release"]}
    BY <1>18 DEF WatchWrite
  <2>5. /\ watch' \in [at : {"idle", "write", "release"}, task : Task \cup {NoTask},
                         phase : Notified \cup {"None"}]
        /\ watch'.at # "idle" => watch'.task \in Task /\ watch'.phase \in Notified
    <3>1. /\ watch \in [at : {"idle", "write", "release"}, task : Task \cup {NoTask},
                         phase : Notified \cup {"None"}]
          /\ watch.task \in Task /\ watch.phase \in Notified
      BY <1>18 DEF WatchWrite, TypeInv, TypeOK, QueuesType, Candidates
    <3>2. CASE watch' = Idle
      BY <3>2 DEF Idle
    <3>3. CASE watch' = [watch EXCEPT !.at = "release"]
      BY <3>1, <3>3
    <3> QED BY <2>4, <3>2, <3>3
  <2> QED
    BY <1>18, <2>1, <2>3, <2>5 DEF WatchWrite, TypeInv, TypeOK, QueuesType, Candidates
<1>19. CASE WatchRelease
  <2>1. watch.task \in Task
    BY <1>19 DEF WatchRelease, TypeInv, TypeOK, QueuesType, Candidates
  <2> QED
    BY <1>19, <2>1, ReleaseType DEF WatchRelease, Idle, TypeInv, TypeOK, QueuesType, Candidates
<1>20. ASSUME NEW t \in Task, NEW d \in Day, JobProgress(t, d) PROVE TypeInv'
  <2>1. PICK p \in Successors(job[t][d]) :
          /\ job' = [job EXCEPT ![t] = [e \in Day |-> IF e = d THEN p ELSE @[e]]]
          /\ Notify(t, d, p)
    BY <1>20 DEF JobProgress
  <2>2. p \in Notified
    BY <2>1 DEF Successors, Notified
  <2>3. events' \in Seq(Report)
    BY <2>1, <2>2, AppendProperties DEF Notify, Report, TypeInv, TypeOK, QueuesType, Candidates
  <2>4. job' \in [Task -> [Day -> Phase]]
    BY <2>1, <2>2 DEF TypeInv, TypeOK, Phase
  <2> QED
    BY <1>20, <2>3, <2>4 DEF JobProgress, TypeInv, TypeOK, QueuesType, Candidates
<1>21. ASSUME NEW t \in Task, NEW d \in Day, JobTouched(t, d) PROVE TypeInv'
  <2>1. events' \in Seq(Report)
    BY <1>21, AppendProperties DEF JobTouched, Notify, Report, TypeInv, TypeOK, QueuesType, Candidates
  <2>2. spent' \in [Fault -> Nat]
    BY <1>21, FailsType DEF JobTouched, TypeInv, TypeOK, Fault
  <2> QED
    BY <1>21, <2>1, <2>2 DEF JobTouched, TypeInv, TypeOK, QueuesType, Candidates
<1>22. CASE Midnight
  BY <1>22, ControllerAssumption DEF Midnight, TypeInv, TypeOK, QueuesType, Candidates, Day
<1>23. CASE Restart
  <2> DEFINE reported == {e \in Report : job[e.task][e.day] = e.phase}
  <2>1. IsFiniteSet(reported)
    <3>1. IsFiniteSet(Task \X Day)
      <4>1. IsFiniteSet(Day)
        BY FS_Interval, ControllerAssumption DEF Day
      <4> QED BY <4>1, FS_Product, QuotaAssumption
    <3> DEFINE f == [e \in reported |-> <<e.task, e.day>>]
    <3>2. f \in [reported -> Task \X Day]
      BY DEF Report
    <3>3. ASSUME NEW x \in reported, NEW y \in reported, f[x] = f[y] PROVE x = y
      <4>1. x.task = y.task /\ x.day = y.day
        BY <3>3
      <4>2. x.phase = y.phase
        BY <4>1
      <4> QED BY <4>1, <4>2 DEF Report
    <3>4. f \in Injection(reported, Task \X Day)
      BY <3>2, <3>3 DEF Injection, IsInjective
    <3> QED BY <3>1, <3>4, FS_Injection
  <2>2. events' \in Seq(Report)
    BY <1>23, <2>1, LoadedQueue, SeqMonotonic DEF Restart
  <2>3. spent' \in [Fault -> Nat]
    BY <1>23, FailsType DEF Restart, TypeInv, TypeOK, Fault
  <2>4. 0 \in 0..MaxDay
    BY ControllerAssumption
  <2> QED
    BY <1>23, <2>2, <2>3, <2>4, LoadMemoryType, WalkType, ControllerAssumption
       DEF Restart, NoCur, NoCands, Idle, TypeInv, TypeOK, QueuesType
<1>24. CASE UNCHANGED vars
  BY <1>24 DEF TypeInv, TypeOK, QueuesType, Candidates
<1> QED
  BY <1>1, <1>2, <1>3, <1>4, <1>5, <1>6, <1>7, <1>8, <1>9, <1>10, <1>11, <1>12, <1>13,
     <1>14, <1>15, <1>16, <1>17, <1>18, <1>19, <1>20, <1>21, <1>22, <1>23, <1>24, <1>25, <1>26, <1>27
     DEF Next, Handler, Scheduler, Watcher, Cluster

LEMMA TypeInitial == Init => TypeInv
BY ControllerAssumption, EmptyQueue
   DEF Init, TypeInv, TypeOK, QueuesType, Candidates, Walk, NoWalk, NoCands, Row, Status, NoRow,
       NoCur, Idle, Phase, Day

LEMMA TypeInvariant == Spec => []TypeInv
BY TypeInitial, TypeInductive, PTL DEF Spec

\* Every variable keeps its type.
THEOREM TypeCorrect == Spec => []TypeOK
<1>1. TypeInv => TypeOK
  BY DEF TypeInv
<1> QED
  BY <1>1, TypeInvariant, PTL

-----------------------------------------------------------------------------
(* The usage of an account is the sum of the requests of its tasks. *)

\* An account that uses what its tasks request still does after one is taken back.
LEMMA TakeBackAccounted ==
  ASSUME TypeInv, UsageAccounted, NEW t \in Task, NEW tasks \in SUBSET Task,
         TakeBack(t, tasks, Usage(tasks))
  PROVE  UsageAccounted'
<1>1. AccountOf[t] \in Account /\ Slo[t] \in {"high", "low"} /\ Request[t] \in Int
  BY QuotaAssumption
<1>2. used \in [Account -> SUBSET Task] /\ hardUsed \in [Account -> Int]
  BY DEF TypeInv, TypeOK
<1> SUFFICES ASSUME NEW a \in Account PROVE hardUsed'[a] = Usage(used'[a])
  BY DEF UsageAccounted, Usage, Units
<1>3. CASE a # AccountOf[t]
  BY <1>1, <1>2, <1>3 DEF TakeBack, UsageAccounted
<1>4. CASE a = AccountOf[t]
  <2>1. used'[a] = tasks \ {t}
    BY <1>1, <1>2, <1>4 DEF TakeBack
  <2>2. hardUsed'[a] = IF t \in tasks /\ Slo[t] = "high" THEN Usage(tasks) - Request[t] ELSE Usage(tasks)
    BY <1>1, <1>2, <1>4 DEF TakeBack
  <2>3. CASE t \in tasks
    <3>1. Usage(tasks \ {t}) = Usage(tasks) - Cost(t)
      BY <2>3, UsageRemove
    <3>2. Usage(tasks) \in Nat
      BY UsageIsNat
    <3> QED
      BY <1>1, <2>1, <2>2, <2>3, <3>1, <3>2 DEF Cost
  <2>4. CASE t \notin tasks
    <3>1. tasks \ {t} = tasks
      BY <2>4
    <3> QED BY <2>1, <2>2, <2>4, <3>1
  <2> QED BY <2>3, <2>4
<1> QED BY <1>3, <1>4

\* So it is after any release.
LEMMA ReleaseAccounted ==
  ASSUME TypeInv, UsageAccounted, NEW t \in Task, Release(t)
  PROVE  UsageAccounted'
<1> DEFINE a == AccountOf[t]
           stored == Listed(a, Occupying)
<1>1. used[a] \in SUBSET Task /\ hardUsed[a] = Usage(used[a])
  BY QuotaAssumption DEF TypeInv, TypeOK, UsageAccounted
<1>2. CASE TakeBack(t, used[a], hardUsed[a])
  BY <1>1, <1>2, TakeBackAccounted
<1>3. CASE TakeBack(t, stored, Usage(stored))
  <2>1. stored \in SUBSET Task
    BY DEF Listed
  <2> QED BY <1>3, <2>1, TakeBackAccounted
<1>4. CASE TakeBack(t, {}, 0)
  <2>1. {} \in SUBSET Task /\ Usage({}) = 0
    BY UsageOfNone
  <2> QED BY <1>4, <2>1, TakeBackAccounted
<1>5. CASE UNCHANGED <<quotaInfos, used, hardUsed>>
  BY <1>5 DEF UsageAccounted, Usage, Units
<1> QED
  BY <1>2, <1>3, <1>4, <1>5 DEF Release

\* So it is after a task is admitted.
LEMMA ReserveAccounted ==
  ASSUME TypeInv, UsageAccounted, NEW t \in Task, Reserve(t)
  PROVE  UsageAccounted'
<1>1. AccountOf[t] \in Account /\ Slo[t] \in {"high", "low"} /\ Request[t] \in Int
  BY QuotaAssumption
<1>2. used \in [Account -> SUBSET Task] /\ hardUsed \in [Account -> Int]
  BY DEF TypeInv, TypeOK
<1> SUFFICES ASSUME NEW a \in Account PROVE hardUsed'[a] = Usage(used'[a])
  BY DEF UsageAccounted, Usage, Units
<1>3. hardUsed[a] = Usage(used[a]) /\ Usage(used[a]) \in Nat
  BY UsageIsNat DEF UsageAccounted
<1>4. CASE a # AccountOf[t]
  BY <1>1, <1>2, <1>3, <1>4 DEF Reserve
<1>5. CASE a = AccountOf[t]
  <2>1. used'[a] = used[a] \cup {t}
    BY <1>1, <1>2, <1>5 DEF Reserve
  <2>2. hardUsed'[a] = IF t \notin used[a] /\ Slo[t] = "high"
                       THEN hardUsed[a] + Request[t] ELSE hardUsed[a]
    BY <1>1, <1>2, <1>5 DEF Reserve
  <2>3. CASE t \in used[a]
    <3>1. used[a] \cup {t} = used[a]
      BY <2>3
    <3> QED BY <1>3, <2>1, <2>2, <2>3, <3>1
  <2>4. CASE t \notin used[a]
    <3>1. Usage(used[a] \cup {t}) = Usage(used[a]) + Cost(t)
      BY <2>4, UsageAdd
    <3> QED BY <1>1, <1>3, <2>1, <2>2, <2>4, <3>1 DEF Cost
  <2> QED BY <2>3, <2>4
<1> QED BY <1>4, <1>5

\* No other action touches the quotas, save a boot, which counts afresh.
LEMMA UsageInductive == TypeInv /\ UsageAccounted /\ [Next]_vars => UsageAccounted'
<1> SUFFICES ASSUME TypeInv, UsageAccounted, [Next]_vars PROVE UsageAccounted'
  OBVIOUS
<1>1. ASSUME UNCHANGED <<used, hardUsed>> PROVE UsageAccounted'
  BY <1>1 DEF UsageAccounted, Usage, Units
<1>2. ASSUME NEW t \in Task, DeleteQuota(t) PROVE UsageAccounted'
  BY <1>2, ReleaseAccounted DEF DeleteQuota
<1>3. CASE WatchRelease
  <2>1. watch.task \in Task
    BY <1>3 DEF WatchRelease, TypeInv, TypeOK
  <2> QED BY <1>3, <2>1, ReleaseAccounted DEF WatchRelease
<1>4. CASE AdmitReserve
  <2>1. cur.task \in Task
    BY <1>4 DEF AdmitReserve, TypeInv, TypeOK
  <2> QED BY <1>4, <2>1, ReserveAccounted DEF AdmitReserve
<1>5. CASE Restart
  <2>1. \A a \in Account : hardUsed'[a] = Usage(used'[a])
    BY <1>5 DEF Restart, LoadMemory
  <2> QED BY <2>1 DEF UsageAccounted, Usage, Units
<1>6. CASE ~(\E t \in Task : DeleteQuota(t)) /\ ~WatchRelease /\ ~AdmitReserve /\ ~Restart
  <2>1. UNCHANGED <<used, hardUsed>>
    BY <1>6 DEF Next, Handler, Scheduler, Watcher, Cluster, vars, memory, SubmitInsert,
       SubmitNotify, DeleteRead, DeleteQueued, DeleteJob, DeleteRow, AddAccount, Schedule, ListBegin, ListRead, ListEnd,
       AdmitCheck, AdmitCreate, AdmitMark, AdmitName, AdmitDequeue, AdmitFail, WatchReceive,
       WatchWrite, JobProgress, JobTouched, Midnight
  <2> QED BY <1>1, <2>1
<1> QED BY <1>2, <1>3, <1>4, <1>5, <1>6

LEMMA UsageInitial == Init => UsageAccounted
BY UsageOfNone DEF Init, UsageAccounted

\* HardUsed is at all times the sum of the requests of UsedTasks.
THEOREM UsageCorrect == Spec => []UsageAccounted
BY UsageInitial, UsageInductive, TypeInvariant, PTL DEF Spec

-----------------------------------------------------------------------------
(* What the goroutines know *)

\* The quotas implement the ledger, and a task that waits holds no quota.  Both rest on
\* what the goroutines know of a task at any moment: nothing about a task is in memory
\* or in the cluster unless its account is cached and its submission has gone through.

\* The account of the task is cached, and the task has been submitted.
InService(t) == /\ AccountOf[t] \in quotaInfos
                /\ row[t].status # "Absent"
                /\ t \notin submitting

\* Caches of the server belong to accounts in the database, and every account
\* that has a queue has its quota cached.
AccountsCached == userQueues \subseteq quotaInfos /\ quotaInfos \subseteq accounts

\* A row belongs to an account; handlers work on tasks that have a row.
RowsFirst ==
  \A t \in Task : /\ row[t].status # "Absent" => AccountOf[t] \in accounts
                  /\ row[t].status = "Absent" => deletion[t].at = "idle" /\ t \notin submitting

\* Whoever knows a task, knows one that is in service.
QueueKnows   == \A t \in Queued : InService(t)
CandsKnow    == \A t \in Candidates : InService(t)
CurKnows     == cur.task \in Task => InService(cur.task)
WatchKnows   == watch.task \in Task => InService(watch.task)
ClusterKnows == \A t \in Task : (\E d \in Day : job[t][d] # "None") => InService(t)
EventsKnow   == \A i \in DOMAIN events : InService(events[i].task)
UsedKnows    == \A t \in Task : t \in used[AccountOf[t]] => InService(t)
RowKnows     == \A t \in Task : row[t].status \notin {"Absent", "Queueing"} => InService(t)

Knowledge == /\ QueueKnows /\ CandsKnow /\ CurKnows /\ WatchKnows
             /\ ClusterKnows /\ EventsKnow /\ UsedKnows /\ RowKnows

\* What admitTask has checked still holds when it adds the quota.
CheckHolds == step \in {"create", "mark", "name", "reserve"} => Fits(cur.task)

\* An account holds quota for its own tasks only.
OwnTasks == \A a \in Account : \A t \in used[a] : AccountOf[t] = a

IInv == /\ TypeInv /\ UsageAccounted /\ AccountsCached /\ RowsFirst /\ Knowledge
        /\ CheckHolds /\ OwnTasks /\ QueuedXorReserved

-----------------------------------------------------------------------------
(* What the actions leave alone *)

\* A step that is neither a boot nor a stutter is one of the actions.
LEMMA Cases ==
  ASSUME [Next]_vars, ~Restart
  PROVE  \/ \E t \in Task : Handler(t)
         \/ \E a \in Account : AddAccount(a)
         \/ Scheduler \/ Watcher \/ Cluster
         \/ UNCHANGED vars
BY DEF Next

\* What a step other than a boot may do to the status of a row: a submission creates
\* it, and after that the scheduler and the watcher write it for the task in work.
LEMMA StatusSteps ==
  ASSUME TypeInv, [Next]_vars, ~Restart, NEW u \in Task
  PROVE  \/ row'[u].status = row[u].status
         \/ /\ row[u].status = "Absent" /\ row'[u].status = "Queueing"
            /\ AccountOf[u] \in accounts
         \/ row'[u].status \in Status \ {"Absent", "Queueing"} /\ u \in {cur.task, watch.task}
<1> USE DEF database, cluster, memory, schedule, vars
<1>0. row \in [Task -> Row] /\ row[u] \in Row
  BY DEF TypeInv, TypeOK
<1>1. ASSUME NEW t \in Task, SubmitInsert(t)
      PROVE  \/ row'[u].status = row[u].status
             \/ /\ row[u].status = "Absent" /\ row'[u].status = "Queueing"
                /\ AccountOf[u] \in accounts
  BY <1>0, <1>1 DEF SubmitInsert, Row
<1>2. ASSUME NEW t \in Task, DeleteRow(t) PROVE row'[u].status = row[u].status
  BY <1>0, <1>2 DEF DeleteRow, Row
<1>3. ASSUME AdmitMark
      PROVE  row'[u].status = row[u].status \/ (row'[u].status = "Created" /\ u = cur.task)
  BY <1>0, <1>3 DEF AdmitMark, Row
<1>4. ASSUME AdmitFail
      PROVE  row'[u].status = row[u].status \/ (row'[u].status = "Failed" /\ u = cur.task)
  BY <1>0, <1>4 DEF AdmitFail, Row
<1>5. ASSUME AdmitName PROVE row'[u].status = row[u].status
  BY <1>0, <1>5 DEF AdmitName, Row
<1>6. ASSUME WatchWrite
      PROVE  \/ row'[u].status = row[u].status
             \/ row'[u].status = watch.phase /\ watch.phase \in Notified /\ u = watch.task
  BY <1>0, <1>6 DEF WatchWrite, Row, TypeInv, TypeOK
<1>7. ASSUME NEW t \in Task, Handler(t), ~SubmitInsert(t), ~DeleteRow(t) PROVE UNCHANGED row
  BY <1>7 DEF Handler, SubmitNotify, DeleteRead, DeleteQueued, DeleteQuota, DeleteJob
<1>8. ASSUME Scheduler, ~AdmitMark, ~AdmitFail, ~AdmitName PROVE UNCHANGED row
  BY <1>8 DEF Scheduler, Schedule, ListBegin, ListRead, ListEnd,
     AdmitCheck, AdmitCreate, AdmitReserve, AdmitDequeue
<1>9. ASSUME Watcher, ~WatchWrite PROVE UNCHANGED row
  BY <1>9 DEF Watcher, WatchReceive, WatchRelease
<1>10. ASSUME Cluster \/ UNCHANGED vars \/ \E a \in Account : AddAccount(a) PROVE UNCHANGED row
  BY <1>10 DEF Cluster, JobProgress, JobTouched, Midnight, AddAccount
<1>11. {"Created", "Failed"} \cup Notified \subseteq Status \ {"Absent", "Queueing"}
  BY DEF Status, Notified
<1> QED
  BY <1>1, <1>2, <1>3, <1>4, <1>5, <1>6, <1>7, <1>8, <1>9, <1>10, <1>11, Cases

\* The quotas of a step other than a boot: a task is released, the scheduler adds
\* the task in work, or nothing changes.
LEMMA QuotaSteps ==
  ASSUME [Next]_vars, ~Restart
  PROVE  \/ UNCHANGED <<quotaInfos, used, hardUsed>>
         \/ \E t \in Task : DeleteQuota(t)
         \/ WatchRelease
         \/ AdmitReserve
<1> USE DEF database, cluster, memory, schedule, vars
<1>1. ASSUME NEW t \in Task, Handler(t), ~DeleteQuota(t)
      PROVE  UNCHANGED <<quotaInfos, used, hardUsed>>
  BY <1>1 DEF Handler, SubmitInsert, SubmitNotify, DeleteRead, DeleteQueued, DeleteJob, DeleteRow
<1>2. ASSUME Scheduler, ~AdmitReserve PROVE UNCHANGED <<quotaInfos, used, hardUsed>>
  BY <1>2 DEF Scheduler, Schedule, ListBegin, ListRead, ListEnd,
     AdmitCheck, AdmitCreate, AdmitMark, AdmitName,
     AdmitDequeue, AdmitFail
<1>3. ASSUME Watcher, ~WatchRelease PROVE UNCHANGED <<quotaInfos, used, hardUsed>>
  BY <1>3 DEF Watcher, WatchReceive, WatchWrite
<1>4. ASSUME Cluster \/ UNCHANGED vars \/ \E a \in Account : AddAccount(a)
      PROVE  UNCHANGED <<quotaInfos, used, hardUsed>>
  BY <1>4 DEF Cluster, JobProgress, JobTouched, Midnight, AddAccount
<1> QED
  BY <1>1, <1>2, <1>3, <1>4, Cases

\* Who queues and who dequeues, other than a boot.
LEMMA QueueSteps ==
  ASSUME TypeInv, [Next]_vars, ~Restart
  PROVE  \/ UNCHANGED queue
         \/ \E t \in submitting : /\ SubmitNotify(t) /\ AccountOf[t] \in userQueues
                                 /\ Queued' = Queued \cup {t}
         \/ \E t \in Task : DeleteQueued(t) /\ Queued' = Queued \ {t}
         \/ AdmitDequeue /\ Queued' = Queued \ {cur.task}
<1> USE DEF database, cluster, memory, schedule, vars
<1>2. ASSUME NEW t \in Task, SubmitNotify(t)
      PROVE  \/ UNCHANGED queue
             \/ t \in submitting /\ AccountOf[t] \in userQueues /\ Queued' = Queued \cup {t}
  <2>1. AddTask(t) => \/ UNCHANGED queue
                      \/ AccountOf[t] \in userQueues /\ Queued' = Queued \cup {t}
    BY QueueType DEF AddTask
  <2> QED
    BY <1>2, <2>1 DEF SubmitNotify
<1>3. ASSUME NEW t \in Task, DeleteQueued(t) PROVE Queued' = Queued \ {t}
  BY <1>3, QueueType DEF DeleteQueued
<1>4. ASSUME AdmitDequeue PROVE Queued' = Queued \ {cur.task}
  <2>1. cur.task \in Task
    BY <1>4 DEF AdmitDequeue, TypeInv, TypeOK
  <2> QED BY <1>4, <2>1, QueueType DEF AdmitDequeue
<1>5. ASSUME NEW t \in Task, Handler(t), ~SubmitNotify(t), ~DeleteQueued(t) PROVE UNCHANGED queue
  BY <1>5 DEF Handler, SubmitInsert, DeleteRead, DeleteQuota, DeleteJob, DeleteRow
<1>6. ASSUME Scheduler, ~AdmitDequeue PROVE UNCHANGED queue
  BY <1>6 DEF Scheduler, Schedule, ListBegin, ListRead, ListEnd,
     AdmitCheck, AdmitCreate, AdmitMark, AdmitName,
     AdmitReserve, AdmitFail
<1>7. ASSUME Watcher \/ Cluster \/ UNCHANGED vars \/ \E a \in Account : AddAccount(a)
      PROVE  UNCHANGED queue
  BY <1>7 DEF Watcher, WatchReceive, WatchWrite, WatchRelease, Cluster, JobProgress,
     JobTouched, Midnight, AddAccount
<1> QED
  BY <1>2, <1>3, <1>4, <1>5, <1>6, <1>7, Cases

\* The tasks that are being submitted, and the accounts.
LEMMA SubmitSteps ==
  ASSUME [Next]_vars, ~Restart
  PROVE  /\ \/ submitting' \subseteq submitting
            \/ \E t \in Task : SubmitInsert(t) /\ submitting' = submitting \cup {t}
         /\ accounts \subseteq accounts'
         /\ UNCHANGED userQueues
<1> USE DEF database, cluster, memory, schedule, vars
<1>1. ASSUME NEW t \in Task, Handler(t)
      PROVE  /\ \/ submitting' \subseteq submitting
                \/ SubmitInsert(t) /\ submitting' = submitting \cup {t}
             /\ UNCHANGED <<accounts, userQueues>>
  BY <1>1 DEF Handler, SubmitInsert, SubmitNotify, DeleteRead, DeleteQueued, DeleteQuota,
     DeleteJob, DeleteRow
<1>2. ASSUME Scheduler PROVE UNCHANGED <<submitting, accounts, userQueues>>
  BY <1>2 DEF Scheduler, Schedule, ListBegin, ListRead, ListEnd,
     AdmitCheck, AdmitCreate, AdmitMark, AdmitName,
     AdmitReserve, AdmitDequeue, AdmitFail
<1>3. ASSUME Watcher \/ Cluster \/ UNCHANGED vars
      PROVE  UNCHANGED <<submitting, accounts, userQueues>>
  BY <1>3 DEF Watcher, WatchReceive, WatchWrite, WatchRelease, Cluster, JobProgress,
     JobTouched, Midnight
<1>4. ASSUME NEW a \in Account, AddAccount(a)
      PROVE  UNCHANGED <<submitting, userQueues>> /\ accounts \subseteq accounts'
  BY <1>4 DEF AddAccount
<1> QED
  BY <1>1, <1>2, <1>3, <1>4, Cases

\* The scheduler takes its candidates from the queue and its task in work from the
\* candidates.
LEMMA ScheduleSteps ==
  ASSUME TypeInv, [Next]_vars, ~Restart
  PROVE  /\ Candidates' \subseteq Candidates \cup Queued
         /\ cur'.task \in Candidates \cup {cur.task, NoTask}
<1> USE DEF database, cluster, memory, schedule, vars
<1>0. cands \in [Task -> Nat]
  BY DEF TypeInv, TypeOK
<1>1. ASSUME NEW t \in Task, Handler(t) PROVE UNCHANGED <<cands, cur>>
  BY <1>1 DEF Handler, SubmitInsert, SubmitNotify, DeleteRead, DeleteQueued, DeleteQuota,
     DeleteJob, DeleteRow
<1>2. ASSUME Watcher \/ Cluster \/ UNCHANGED vars \/ \E a \in Account : AddAccount(a)
      PROVE  UNCHANGED <<cands, cur>>
  BY <1>2 DEF Watcher, WatchReceive, WatchWrite, WatchRelease, Cluster, JobProgress,
     JobTouched, Midnight, AddAccount
<1>3. ASSUME Schedule \/ ListEnd \/ \E q \in UserQueue : ListBegin(q) PROVE UNCHANGED <<cands, cur>>
  BY <1>3 DEF Schedule, ListBegin, ListEnd
<1>4. ASSUME ListRead PROVE Candidates' \subseteq Candidates \cup Queued /\ UNCHANGED cur
  BY <1>0, <1>4 DEF ListRead, Candidates
<1>5. ASSUME NEW t \in Task, Skip(t) PROVE Candidates' \subseteq Candidates /\ cur'.task = NoTask
  BY <1>0, <1>5 DEF Skip, NoCur, Candidates
<1>6. ASSUME UNCHANGED cands PROVE Candidates' = Candidates
  BY <1>6 DEF Candidates
<1>7. ASSUME NEW t \in Task, AdmitCheck(t)
      PROVE  Candidates' \subseteq Candidates /\ cur'.task \in Candidates \cup {NoTask}
  BY <1>5, <1>6, <1>7 DEF AdmitCheck
<1>8. ASSUME AdmitCreate PROVE UNCHANGED cands /\ cur'.task = cur.task
  BY <1>8 DEF AdmitCreate, TypeInv, TypeOK
<1>9. ASSUME AdmitMark \/ AdmitName \/ AdmitReserve \/ AdmitDequeue \/ AdmitFail
      PROVE  Candidates' \subseteq Candidates /\ cur'.task \in {cur.task, NoTask}
  <2>1. cur.task \in Task
    BY <1>9 DEF AdmitMark, AdmitName, AdmitReserve, AdmitDequeue, AdmitFail, TypeInv, TypeOK
  <2> QED BY <1>5, <1>6, <1>9, <2>1 DEF AdmitMark, AdmitName, AdmitReserve, AdmitDequeue, AdmitFail
<1> QED
  BY <1>1, <1>2, <1>3, <1>4, <1>6, <1>7, <1>8, <1>9, Cases DEF Scheduler

\* The watcher works on the report it has received.
LEMMA WatchSteps ==
  ASSUME TypeInv, [Next]_vars, ~Restart
  PROVE  \/ watch' \in {watch, Idle}
         \/ /\ events # <<>>
            /\ watch'.task = Head(events).task /\ watch'.phase = Head(events).phase
            /\ watch'.at = "release" => watch'.phase \in Completed
         \/ /\ watch.at = "write" /\ watch'.at = "release"
            /\ watch'.task = watch.task /\ watch'.phase = watch.phase /\ watch.phase \in Completed
<1> USE DEF database, cluster, memory, schedule, vars
<1>1. ASSUME NEW t \in Task, Handler(t) PROVE UNCHANGED watch
  BY <1>1 DEF Handler, SubmitInsert, SubmitNotify, DeleteRead, DeleteQueued, DeleteQuota,
     DeleteJob, DeleteRow
<1>2. ASSUME Scheduler \/ Cluster \/ UNCHANGED vars \/ \E a \in Account : AddAccount(a)
      PROVE  UNCHANGED watch
  BY <1>2 DEF Scheduler, Schedule, ListBegin, ListRead, ListEnd,
     AdmitCheck, AdmitCreate, AdmitMark, AdmitName,
     AdmitReserve, AdmitDequeue, AdmitFail, Cluster, JobProgress, JobTouched, Midnight, AddAccount
<1>3. ASSUME WatchReceive
      PROVE  \/ watch' \in {watch, Idle}
             \/ /\ events # <<>>
                /\ watch'.task = Head(events).task /\ watch'.phase = Head(events).phase
                /\ watch'.at = "release" => watch'.phase \in Completed
  BY <1>3 DEF WatchReceive
<1>4. ASSUME WatchWrite
      PROVE  \/ watch' \in {watch, Idle}
             \/ /\ watch.at = "write" /\ watch'.at = "release"
                /\ watch'.task = watch.task /\ watch'.phase = watch.phase
                /\ watch.phase \in Completed
  BY <1>4 DEF WatchWrite, TypeInv, TypeOK
<1>5. ASSUME WatchRelease PROVE watch' = Idle
  BY <1>5 DEF WatchRelease
<1> QED
  BY <1>1, <1>2, <1>3, <1>4, <1>5, Cases DEF Watcher

\* What a step other than a boot may do to an AIJob: it is deleted, it is created for
\* the task in work, where there was none, or it comes to its next phase.
LEMMA JobSteps ==
  ASSUME TypeInv, [Next]_vars, ~Restart, NEW u \in Task, NEW d \in Day
  PROVE  \/ job'[u][d] \in {job[u][d], "None"}
         \/ AdmitCreate /\ u = cur.task /\ d = today /\ job[u][d] = "None"
         \/ JobProgress(u, d) /\ job'[u][d] \in Successors(job[u][d])
<1> USE DEF database, cluster, memory, schedule, vars
<1>0. job \in [Task -> [Day -> Phase]]
  BY DEF TypeInv, TypeOK
<1>1. ASSUME NEW t \in Task, DeleteJob(t) PROVE job'[u][d] \in {job[u][d], "None"}
  BY <1>0, <1>1 DEF DeleteJob
<1>2. ASSUME AdmitCreate
      PROVE  job'[u][d] = job[u][d] \/ (u = cur.task /\ d = today /\ job[u][d] = "None")
  BY <1>0, <1>2 DEF AdmitCreate
<1>3. ASSUME NEW t \in Task, NEW e \in Day, JobProgress(t, e)
      PROVE  job'[u][d] = job[u][d] \/ (JobProgress(u, d) /\ job'[u][d] \in Successors(job[u][d]))
  <2>1. PICK p \in Successors(job[t][e]) :
          job' = [job EXCEPT ![t] = [x \in Day |-> IF x = e THEN p ELSE job[t][x]]]
    BY <1>3 DEF JobProgress
  <2>2. CASE u = t /\ d = e
    BY <1>0, <1>3, <2>1, <2>2
  <2>3. CASE ~(u = t /\ d = e)
    BY <1>0, <2>1, <2>3
  <2> QED BY <2>2, <2>3
<1>4. CASE UNCHANGED job
  BY <1>4
<1>5. ASSUME NEW t \in Task, Handler(t), ~DeleteJob(t) PROVE UNCHANGED job
  BY <1>5 DEF Handler, SubmitInsert, SubmitNotify, DeleteRead, DeleteQueued, DeleteQuota, DeleteRow
<1>6. ASSUME Scheduler, ~AdmitCreate PROVE UNCHANGED job
  BY <1>6 DEF Scheduler, Schedule, ListBegin, ListRead, ListEnd,
     AdmitCheck, AdmitMark, AdmitName, AdmitReserve,
     AdmitDequeue, AdmitFail
<1>7. ASSUME Watcher \/ UNCHANGED vars \/ \E a \in Account : AddAccount(a) PROVE UNCHANGED job
  BY <1>7 DEF Watcher, WatchReceive, WatchWrite, WatchRelease, AddAccount
<1>8. ASSUME Cluster
      PROVE  UNCHANGED job \/ \E t \in Task, e \in Day : JobProgress(t, e)
  BY <1>8 DEF Cluster, JobTouched, Midnight
<1> QED
  BY <1>1, <1>2, <1>3, <1>4, <1>5, <1>6, <1>7, <1>8, Cases

\* An AIJob comes into being for the task in work.
LEMMA ClusterSteps ==
  ASSUME TypeInv, [Next]_vars, ~Restart, NEW u \in Task, NEW d \in Day, job'[u][d] # "None"
  PROVE  job[u][d] # "None" \/ u = cur.task
<1>1. job[u][d] = "None" => Successors(job[u][d]) = {}
  BY DEF Successors
<1> QED BY <1>1, JobSteps

\* A new report tells the phase of an AIJob that exists.
LEMMA EventSteps ==
  ASSUME TypeInv, [Next]_vars, ~Restart, NEW i \in DOMAIN events'
  PROVE  \/ \E j \in DOMAIN events : events'[i] = events[j]
         \/ \E t \in Task, d \in Day : /\ events'[i] = [task |-> t, day |-> d, phase |-> job'[t][d]]
                                       /\ job[t][d] # "None"
<1> USE DEF database, cluster, memory, schedule, vars
<1>0. events \in Seq(Report)
  BY DEF TypeInv, TypeOK
<1>1. ASSUME WatchReceive PROVE \E j \in DOMAIN events : events'[i] = events[j]
  <2>1. events' = Tail(events) /\ events # <<>>
    BY <1>1 DEF WatchReceive
  <2>2. i + 1 \in DOMAIN events /\ events'[i] = events[i + 1]
    BY <1>0, <2>1, HeadTailProperties
  <2> QED BY <2>2
<1>2. ASSUME NEW t \in Task, NEW d \in Day, NEW p \in Notified, Notify(t, d, p), job[t][d] # "None",
             job'[t][d] = p
      PROVE  \/ \E j \in DOMAIN events : events'[i] = events[j]
             \/ \E u \in Task, e \in Day : /\ events'[i] = [task |-> u, day |-> e, phase |-> job'[u][e]]
                                           /\ job[u][e] # "None"
  <2> DEFINE r == [task |-> t, day |-> d, phase |-> p]
  <2>1. events' = Append(events, r) /\ r \in Report /\ r = [task |-> t, day |-> d, phase |-> job'[t][d]]
    BY <1>2 DEF Notify, Report
  <2> HIDE DEF r
  <2>2. /\ Len(events') = Len(events) + 1 /\ events' \in Seq(Report)
        /\ \A j \in 1..Len(events) : events'[j] = events[j]
        /\ events'[Len(events) + 1] = r
    BY <1>0, <2>1, AppendProperties
  <2>3. CASE i \in DOMAIN events
    BY <1>0, <2>2, <2>3
  <2>4. CASE i \notin DOMAIN events
    <3>1. i = Len(events) + 1
      BY <1>0, <2>2, <2>4
    <3> QED BY <1>2, <2>1, <2>2, <3>1
  <2> QED BY <2>3, <2>4
<1>3. ASSUME NEW t \in Task, NEW d \in Day, JobProgress(t, d) \/ JobTouched(t, d)
      PROVE  \E p \in Notified : Notify(t, d, p) /\ job[t][d] # "None" /\ job'[t][d] = p
  <2>1. job \in [Task -> [Day -> Phase]]
    BY DEF TypeInv, TypeOK
  <2>2. CASE JobProgress(t, d)
    BY <2>1, <2>2 DEF JobProgress, Successors, Notified
  <2>3. CASE JobTouched(t, d)
    BY <2>1, <2>3 DEF JobTouched, Notified
  <2> QED BY <1>3, <2>2, <2>3
<1>4. CASE UNCHANGED events
  BY <1>4
<1>5. ASSUME NEW t \in Task, Handler(t) PROVE UNCHANGED events
  BY <1>5 DEF Handler, SubmitInsert, SubmitNotify, DeleteRead, DeleteQueued, DeleteQuota,
     DeleteJob, DeleteRow
<1>6. ASSUME Scheduler \/ UNCHANGED vars \/ \E a \in Account : AddAccount(a)
      PROVE  UNCHANGED events
  BY <1>6 DEF Scheduler, Schedule, ListBegin, ListRead, ListEnd,
     AdmitCheck, AdmitCreate, AdmitMark, AdmitName,
     AdmitReserve, AdmitDequeue, AdmitFail, AddAccount
<1>7. ASSUME Watcher, ~WatchReceive PROVE UNCHANGED events
  BY <1>7 DEF Watcher, WatchWrite, WatchRelease
<1>8. ASSUME Cluster
      PROVE  UNCHANGED events \/ \E t \in Task, d \in Day : JobProgress(t, d) \/ JobTouched(t, d)
  BY <1>8 DEF Cluster, Midnight
<1> QED
  BY <1>1, <1>2, <1>3, <1>4, <1>5, <1>6, <1>7, <1>8, Cases

-----------------------------------------------------------------------------
(* Nothing is known of a task before it is in service *)

\* An account that is not cached has no task that holds quota, in memory or in the
\* database, so a release that loads it takes nothing away.
LEMMA ReleaseEffect ==
  ASSUME TypeInv, OwnTasks, UsedKnows, RowKnows, NEW t \in Task, Release(t)
  PROVE  /\ used' = [used EXCEPT ![AccountOf[t]] = @ \ {t}] \/ UNCHANGED used
         /\ quotaInfos' = quotaInfos \cup {AccountOf[t]} \/ UNCHANGED quotaInfos
<1> DEFINE a == AccountOf[t]
           stored == Listed(a, Occupying)
<1>1. a \in Account /\ used \in [Account -> SUBSET Task] /\ row \in [Task -> Row]
  BY QuotaAssumption DEF TypeInv, TypeOK
<1>2. CASE a \in quotaInfos
  BY <1>1, <1>2 DEF Release, TakeBack
<1>3. CASE a \notin quotaInfos
  <2>1. used[a] = {}
    BY <1>1, <1>3 DEF OwnTasks, UsedKnows, InService
  <2>2. stored = {}
    BY <1>1, <1>3 DEF Listed, RowKnows, InService, Occupying
  <2>3. used' = [used EXCEPT ![a] = {} \ {t}] \/ UNCHANGED used
    BY <1>3, <2>2 DEF Release, TakeBack
  <2>4. {} \ {t} = used[a] \ {t}
    BY <2>1
  <2>5. quotaInfos' = quotaInfos \cup {a} \/ UNCHANGED quotaInfos
    BY <1>3 DEF Release, TakeBack
  <2> QED BY <1>1, <2>3, <2>4, <2>5
<1> QED BY <1>2, <1>3

\* The sets of accounts only grow, between two boots, and the caches stay within the
\* accounts of the database.
LEMMA AccountsInductive ==
  ASSUME TypeInv, IInv, [Next]_vars
  PROVE  AccountsCached' /\ (~Restart => quotaInfos \subseteq quotaInfos')
<1>1. CASE Restart
  BY <1>1 DEF Restart, LoadMemory, AccountsCached, database
<1>2. CASE ~Restart
  <2>1. accounts \subseteq accounts' /\ UNCHANGED userQueues
    BY <1>2, SubmitSteps
  <2>2. ASSUME NEW t \in Task, DeleteQuota(t)
        PROVE  quotaInfos \subseteq quotaInfos' /\ quotaInfos' \subseteq accounts
    <3>1. AccountOf[t] \in accounts
      BY <2>2 DEF IInv, RowsFirst, DeleteQuota
    <3>2. quotaInfos' = quotaInfos \cup {AccountOf[t]} \/ UNCHANGED quotaInfos
      BY <2>2, ReleaseEffect DEF IInv, Knowledge, DeleteQuota
    <3> QED BY <3>1, <3>2 DEF IInv, AccountsCached
  <2>3. ASSUME WatchRelease
        PROVE  quotaInfos \subseteq quotaInfos' /\ quotaInfos' \subseteq accounts
    <3>1. watch.task \in Task /\ Release(watch.task)
      BY <2>3 DEF WatchRelease, TypeInv, TypeOK
    <3>2. AccountOf[watch.task] \in accounts
      BY <3>1 DEF IInv, Knowledge, WatchKnows, InService, AccountsCached
    <3>3. quotaInfos' = quotaInfos \cup {AccountOf[watch.task]} \/ UNCHANGED quotaInfos
      BY <3>1, ReleaseEffect DEF IInv, Knowledge
    <3> QED BY <3>2, <3>3 DEF IInv, AccountsCached
  <2>4. ASSUME AdmitReserve PROVE UNCHANGED quotaInfos
    BY <2>4 DEF AdmitReserve, Reserve
  <2>5. quotaInfos \subseteq quotaInfos' /\ quotaInfos' \subseteq accounts
    BY <1>2, <2>2, <2>3, <2>4, QuotaSteps DEF IInv, AccountsCached
  <2> QED BY <2>1, <2>5 DEF IInv, AccountsCached
<1> QED BY <1>1, <1>2

\* A task in service stays in service until the server boots again.
LEMMA ServiceStable ==
  ASSUME IInv, [Next]_vars, ~Restart, NEW t \in Task, InService(t)
  PROVE  InService(t)'
<1>1. quotaInfos \subseteq quotaInfos'
  BY AccountsInductive DEF IInv
<1>2. row'[t].status # "Absent"
  BY StatusSteps DEF IInv, InService
<1>3. t \notin submitting'
  BY SubmitSteps DEF InService, SubmitInsert
<1> QED BY <1>1, <1>2, <1>3 DEF InService

\* Rows come first.
LEMMA RowsInductive == IInv /\ [Next]_vars => RowsFirst'
<1> SUFFICES ASSUME IInv, [Next]_vars, NEW t \in Task
             PROVE  /\ row'[t].status # "Absent" => AccountOf[t] \in accounts'
                    /\ row'[t].status = "Absent" => deletion'[t].at = "idle" /\ t \notin submitting'
  BY DEF RowsFirst
<1> USE DEF database, cluster, memory, schedule, vars
<1>1. CASE Restart
  BY <1>1 DEF Restart, IInv, RowsFirst
<1>2. CASE ~Restart
  <2>1. row'[t].status # "Absent" => AccountOf[t] \in accounts'
    <3>1. accounts \subseteq accounts'
      BY <1>2, SubmitSteps
    <3> QED
      BY <1>2, <3>1, StatusSteps DEF IInv, RowsFirst, Knowledge, CurKnows, WatchKnows,
         InService, AccountsCached
  <2>2. ASSUME row'[t].status = "Absent" PROVE deletion'[t].at = "idle" /\ t \notin submitting'
    <3>1. row[t].status = "Absent"
      BY <1>2, <2>2, StatusSteps DEF IInv
    <3>2. deletion[t].at = "idle" /\ t \notin submitting
      BY <3>1 DEF IInv, RowsFirst
    <3>3. t \notin submitting'
      <4>1. ASSUME SubmitInsert(t) PROVE row'[t].status # "Absent"
        BY <4>1 DEF SubmitInsert, IInv, TypeInv, TypeOK, Row
      <4> QED BY <1>2, <2>2, <3>2, <4>1, SubmitSteps DEF SubmitInsert
    <3>4. ASSUME NEW u \in Task, Handler(u) PROVE deletion'[t].at = "idle"
      BY <3>1, <3>2, <3>4 DEF Handler, SubmitInsert, SubmitNotify, DeleteRead, DeleteQueued,
         DeleteQuota, DeleteJob, DeleteRow, IInv, TypeInv, TypeOK
    <3>5. ASSUME Scheduler PROVE UNCHANGED deletion
      BY <3>5 DEF Scheduler, Schedule, ListBegin, ListRead, ListEnd,
         AdmitCheck, AdmitCreate, AdmitMark, AdmitName,
         AdmitReserve, AdmitDequeue, AdmitFail
    <3>6. ASSUME Watcher \/ Cluster \/ UNCHANGED vars \/ \E a \in Account : AddAccount(a)
          PROVE  UNCHANGED deletion
      BY <3>6 DEF Watcher, WatchReceive, WatchWrite, WatchRelease, Cluster, JobProgress,
         JobTouched, Midnight, AddAccount
    <3> QED BY <1>2, <3>2, <3>3, <3>4, <3>5, <3>6, Cases
  <2> QED BY <2>1, <2>2
<1> QED BY <1>1, <1>2

\* After a boot every task that has a row is in service.
LEMMA BootService ==
  ASSUME IInv, Restart, NEW t \in Task, row[t].status # "Absent"
  PROVE  InService(t)'
BY DEF Restart, LoadMemory, IInv, RowsFirst, InService, database

\* What a boot loads and reports: queueing tasks, tasks that occupy quota, and the
\* AIJobs that the cluster has.
LEMMA BootLoads ==
  ASSUME IInv, Restart
  PROVE  /\ \A t \in Task : t \in Queued' => row[t].status = "Queueing"
         /\ \A a \in Account : \A t \in used'[a] :
              t \in Task /\ AccountOf[t] = a /\ row[t].status \in Occupying
         /\ \A i \in DOMAIN events' :
              \E t \in Task : events'[i].task = t /\ \E d \in Day : job[t][d] # "None"
<1>1. TypeInv /\ LoadMemory
  BY DEF IInv, Restart
<1>2. \A t \in Task : t \in Queued' => row[t].status = "Queueing"
  BY <1>1, LoadMemoryType DEF Listed
<1>3. ASSUME NEW a \in Account, NEW t \in used'[a]
      PROVE  t \in Task /\ AccountOf[t] = a /\ row[t].status \in Occupying
  BY <1>1, <1>3 DEF LoadMemory, Listed
<1>4. ASSUME NEW i \in DOMAIN events'
      PROVE  \E t \in Task : events'[i].task = t /\ \E d \in Day : job[t][d] # "None"
  <2> DEFINE found == {e \in Report : job[e.task][e.day] = e.phase}
  <2>1. events' \in SetToSeqs(found)
    BY DEF Restart
  <2>2. events'[i] \in found
    BY <1>4, <2>1 DEF SetToSeqs
  <2> QED
    BY <2>2 DEF Report, Notified
<1> QED BY <1>2, <1>3, <1>4

\* A boot leaves nothing in memory that is not in service.
LEMMA BootKnowledge == IInv /\ Restart => Knowledge'
<1> SUFFICES ASSUME IInv, Restart PROVE Knowledge'
  OBVIOUS
<1>0. NoTask \notin Task /\ Candidates' = {} /\ cur'.task = NoTask /\ watch'.task = NoTask
      /\ row' = row /\ job' = job
  BY ControllerAssumption DEF Restart, NoCur, NoCands, Candidates, Idle, database
<1>1. ASSUME NEW t \in Task, t \in Queued' PROVE InService(t)'
  BY <1>1, BootLoads, BootService
<1>2. Queued' \subseteq Task
  <2>1. QueuesType(queue')
    BY LoadMemoryType DEF IInv, Restart
  <2> QED BY <2>1 DEF QueuesType, Queued, ToSet
<1>3. ASSUME NEW t \in Task, t \in used'[AccountOf[t]] PROVE InService(t)'
  <2>1. row[t].status \in Occupying
    BY <1>3, BootLoads, QuotaAssumption
  <2> QED BY <2>1, BootService DEF Occupying
<1>4. ASSUME NEW t \in Task, \E d \in Day : job[t][d] # "None" PROVE InService(t)'
  BY <1>4, BootService DEF IInv, Knowledge, ClusterKnows, InService
<1>5. ASSUME NEW i \in DOMAIN events' PROVE InService(events[i].task)'
  <2>1. PICK t \in Task : events'[i].task = t /\ \E d \in Day : job[t][d] # "None"
    BY <1>5, BootLoads
  <2>2. InService(t)'
    BY <1>4, <2>1
  <2> QED BY <2>1, <2>2 DEF InService
<1>6. ASSUME NEW t \in Task, row[t].status \notin {"Absent", "Queueing"} PROVE InService(t)'
  BY <1>6, BootService
<1> QED
  BY <1>0, <1>1, <1>2, <1>3, <1>4, <1>5, <1>6 DEF Knowledge, QueueKnows, CandsKnow, CurKnows,
     WatchKnows, ClusterKnows, EventsKnow, UsedKnows, RowKnows

\* Whoever comes to know a task between two boots learns of it from someone who
\* knows it already, or submits it.
LEMMA KnowledgeInductive == IInv /\ [Next]_vars => Knowledge'
<1> SUFFICES ASSUME IInv, [Next]_vars, ~Restart PROVE Knowledge'
  BY BootKnowledge
<1>0. TypeInv /\ Knowledge /\ QueuesType(queue') /\ NoTask \notin Task
  BY TypeInductive, ControllerAssumption DEF IInv, TypeInv, TypeOK
<1>1. ASSUME NEW t \in Task, t \in Queued' PROVE InService(t)'
  <2>1. CASE t \in Queued
    BY <1>0, <2>1, ServiceStable DEF Knowledge, QueueKnows
  <2>2. ASSUME SubmitNotify(t), t \in submitting, AccountOf[t] \in userQueues PROVE InService(t)'
    <3>1. UNCHANGED <<quotaInfos, row>> /\ submitting' = submitting \ {t}
      BY <2>2 DEF SubmitNotify, database
    <3>2. row[t].status # "Absent" /\ AccountOf[t] \in quotaInfos
      BY <2>2 DEF IInv, RowsFirst, AccountsCached
    <3> QED BY <3>1, <3>2 DEF InService
  <2> QED BY <1>0, <1>1, <2>1, <2>2, QueueSteps DEF Queued
<1>2. Queued' \subseteq Task
  BY <1>0 DEF QueuesType, Queued, ToSet
<1>3. Candidates' \subseteq Task
  BY DEF Candidates
<1>4. ASSUME NEW t \in Task, t \in Candidates' PROVE InService(t)'
  BY <1>0, <1>4, ScheduleSteps, ServiceStable DEF Knowledge, CandsKnow, QueueKnows
<1>5. ASSUME cur'.task \in Task PROVE InService(cur.task)'
  <2>1. PICK t \in Task : t = cur'.task
    BY <1>5
  <2>2. t \in Candidates \/ t = cur.task
    BY <1>0, <2>1, ScheduleSteps
  <2>3. InService(t)
    BY <1>0, <2>2 DEF Knowledge, CandsKnow, CurKnows
  <2>4. InService(t)'
    BY <2>3, ServiceStable
  <2> QED BY <2>1, <2>4 DEF InService
<1>6. ASSUME watch'.task \in Task PROVE InService(watch.task)'
  <2>1. PICK t \in Task : t = watch'.task
    BY <1>6
  <2>2. events # <<>> => 1 \in DOMAIN events /\ Head(events) = events[1]
    BY <1>0 DEF TypeInv, TypeOK
  <2>3. InService(t)
    BY <1>0, <2>1, <2>2, WatchSteps DEF Knowledge, WatchKnows, EventsKnow, Idle
  <2>4. InService(t)'
    BY <2>3, ServiceStable
  <2> QED BY <2>1, <2>4 DEF InService
<1>7. ASSUME NEW t \in Task, NEW d \in Day, job'[t][d] # "None" PROVE InService(t)'
  BY <1>0, <1>7, ClusterSteps, ServiceStable DEF Knowledge, ClusterKnows, CurKnows
<1>8. ASSUME NEW i \in DOMAIN events' PROVE InService(events[i].task)'
  <2>1. events \in Seq(Report)
    BY <1>0 DEF TypeInv, TypeOK
  <2>2. PICK t \in Task : events'[i].task = t /\ InService(t)
    <3>1. ASSUME NEW j \in DOMAIN events PROVE events[j].task \in Task
      <4>1. events[j] \in Report
        BY <2>1
      <4> QED BY <4>1 DEF Report
    <3>2. \/ \E j \in DOMAIN events : events'[i] = events[j]
          \/ \E t \in Task, d \in Day : job[t][d] # "None" /\ events'[i].task = t
      BY <1>0, <1>8, EventSteps
    <3> QED BY <1>0, <3>1, <3>2 DEF Knowledge, ClusterKnows, EventsKnow
  <2>3. InService(t)'
    BY <2>2, ServiceStable
  <2> QED BY <2>2, <2>3 DEF InService
<1>9. ASSUME NEW t \in Task, t \in used'[AccountOf[t]] PROVE InService(t)'
  <2>1. CASE t \in used[AccountOf[t]]
    BY <1>0, <2>1, ServiceStable DEF Knowledge, UsedKnows
  <2>2. ASSUME NEW u \in Task, Release(u), t \notin used[AccountOf[t]] PROVE FALSE
    <3>1. used' = [used EXCEPT ![AccountOf[u]] = @ \ {u}] \/ UNCHANGED used
      BY <2>2, ReleaseEffect DEF IInv, Knowledge
    <3>2. AccountOf[u] \in Account /\ AccountOf[t] \in Account /\ used \in [Account -> SUBSET Task]
      BY <1>0, QuotaAssumption DEF TypeInv, TypeOK
    <3> QED BY <1>9, <2>2, <3>1, <3>2
  <2>3. ASSUME AdmitReserve, t \notin used[AccountOf[t]] PROVE t = cur.task
    BY <1>0, <1>9, <2>3 DEF AdmitReserve, Reserve, TypeInv, TypeOK
  <2>4. CASE t = cur.task
    BY <1>0, <2>4, ServiceStable DEF Knowledge, CurKnows
  <2>5. ASSUME WatchRelease PROVE watch.task \in Task /\ Release(watch.task)
    BY <1>0, <2>5 DEF WatchRelease, TypeInv, TypeOK
  <2> QED BY <1>9, <2>1, <2>2, <2>3, <2>4, <2>5, QuotaSteps DEF DeleteQuota
<1>10. ASSUME NEW t \in Task, row'[t].status \notin {"Absent", "Queueing"} PROVE InService(t)'
  BY <1>0, <1>10, StatusSteps, ServiceStable DEF Knowledge, RowKnows, CurKnows, WatchKnows
<1> QED
  BY <1>0, <1>1, <1>2, <1>3, <1>4, <1>5, <1>6, <1>7, <1>8, <1>9, <1>10 DEF Knowledge, QueueKnows,
     CandsKnow, CurKnows, WatchKnows, ClusterKnows, EventsKnow, UsedKnows, RowKnows

-----------------------------------------------------------------------------
(* A task waits or holds quota *)

\* Only the scheduler moves itself.
LEMMA SchedulerAlone ==
  ASSUME [Next]_vars, ~Restart, ~Scheduler
  PROVE  UNCHANGED <<step, todo, cands, cur>>
<1> USE DEF database, cluster, memory, schedule, vars
<1>1. ASSUME NEW t \in Task, Handler(t) PROVE UNCHANGED <<step, todo, cands, cur>>
  BY <1>1 DEF Handler, SubmitInsert, SubmitNotify, DeleteRead, DeleteQueued, DeleteQuota,
     DeleteJob, DeleteRow
<1>2. ASSUME Watcher \/ Cluster \/ UNCHANGED vars \/ \E a \in Account : AddAccount(a)
      PROVE  UNCHANGED <<step, todo, cands, cur>>
  BY <1>2 DEF Watcher, WatchReceive, WatchWrite, WatchRelease, Cluster, JobProgress,
     JobTouched, Midnight, AddAccount
<1> QED BY <1>1, <1>2, Cases

\* The steps of the scheduler that matter to the quota: a task is taken into work when
\* it fits, and goes on to the quota, the queue and the rest of the round.
LEMMA WorkSteps ==
  ASSUME TypeInv, [Next]_vars, ~Restart
  PROVE  \/ step' = step /\ cur'.task = cur.task
         \/ step' \in {"scan", "list", "fail"}
         \/ /\ step' = "create" /\ cur'.task \in Task /\ Fits(cur'.task)
            /\ step = "scan" /\ UNCHANGED hardUsed
         \/ /\ step \in {"create", "mark", "name"} /\ step' \in {"mark", "name", "reserve"}
            /\ cur'.task = cur.task /\ UNCHANGED hardUsed
         \/ AdmitReserve /\ step' = "dequeue" /\ cur' = cur
         \/ step = "fail" /\ step' = "dequeue" /\ cur' = cur
<1> USE DEF database, cluster, memory, schedule, vars
<1>1. ASSUME ~Scheduler PROVE UNCHANGED <<step, cur>>
  BY <1>1, SchedulerAlone
<1>3. ASSUME Schedule \/ ListRead \/ ListEnd \/ \E q \in UserQueue : ListBegin(q)
      PROVE  (step' = step \/ step' \in {"scan", "list"}) /\ UNCHANGED cur
  BY <1>3 DEF Schedule, ListBegin, ListRead, ListEnd
<1>4. ASSUME NEW t \in Task, AdmitCheck(t)
      PROVE  \/ step' = "scan"
             \/ /\ step' = "create" /\ cur'.task = t /\ Fits(t)
                /\ step = "scan" /\ UNCHANGED hardUsed
  BY <1>4 DEF AdmitCheck, Skip
<1>5. ASSUME AdmitCreate
      PROVE  step' = "fail" \/ (step = "create" /\ step' = "mark" /\ cur'.task = cur.task
                                /\ UNCHANGED hardUsed)
  BY <1>5 DEF AdmitCreate, TypeInv, TypeOK
<1>6. ASSUME AdmitMark
      PROVE  step' = "scan" \/ (step = "mark" /\ step' = "name" /\ UNCHANGED <<cur, hardUsed>>)
  BY <1>6 DEF AdmitMark, Skip
<1>7. ASSUME AdmitName
      PROVE  step' = "scan" \/ (step = "name" /\ step' = "reserve" /\ UNCHANGED <<cur, hardUsed>>)
  BY <1>7 DEF AdmitName, Skip
<1>8. ASSUME AdmitReserve PROVE step' = "dequeue" /\ cur' = cur
  BY <1>8 DEF AdmitReserve
<1>9. ASSUME AdmitDequeue PROVE step' = "scan"
  BY <1>9 DEF AdmitDequeue, Skip
<1>10. ASSUME AdmitFail PROVE step' = "scan" \/ (step = "fail" /\ step' = "dequeue" /\ cur' = cur)
  BY <1>10 DEF AdmitFail, Skip
<1> QED
  BY <1>1, <1>3, <1>4, <1>5, <1>6, <1>7, <1>8, <1>9, <1>10 DEF Scheduler

\* Only the scheduler adds to what an account holds, and only the task in work.
LEMMA HeldSteps ==
  ASSUME IInv, [Next]_vars, ~Restart
  PROVE  \/ UNCHANGED used
         \/ \E t \in Task : used' = [used EXCEPT ![AccountOf[t]] = @ \ {t}]
         \/ /\ AdmitReserve /\ cur.task \in Task
            /\ used' = [used EXCEPT ![AccountOf[cur.task]] = @ \cup {cur.task}]
<1>1. ASSUME NEW t \in Task, DeleteQuota(t)
      PROVE  UNCHANGED used \/ used' = [used EXCEPT ![AccountOf[t]] = @ \ {t}]
  BY <1>1, ReleaseEffect DEF DeleteQuota, IInv, Knowledge
<1>2. ASSUME WatchRelease
      PROVE  /\ watch.task \in Task
             /\ UNCHANGED used \/ used' = [used EXCEPT ![AccountOf[watch.task]] = @ \ {watch.task}]
  <2>1. watch.task \in Task /\ Release(watch.task)
    BY <1>2 DEF WatchRelease, IInv, TypeInv, TypeOK
  <2> QED BY <2>1, ReleaseEffect DEF IInv, Knowledge
<1>3. ASSUME AdmitReserve
      PROVE  /\ cur.task \in Task
             /\ used' = [used EXCEPT ![AccountOf[cur.task]] = @ \cup {cur.task}]
  BY <1>3 DEF AdmitReserve, Reserve, IInv, TypeInv, TypeOK
<1> QED BY <1>1, <1>2, <1>3, QuotaSteps

\* An account comes to hold its own tasks only.
LEMMA OwnTasksInductive == IInv /\ [Next]_vars => OwnTasks'
<1> SUFFICES ASSUME IInv, [Next]_vars, NEW a \in Account, NEW t \in used'[a]
             PROVE  AccountOf[t] = a
  BY DEF OwnTasks
<1>1. CASE Restart
  BY <1>1, BootLoads
<1>2. CASE ~Restart
  <2>1. used \in [Account -> SUBSET Task] /\ \A x \in used[a] : AccountOf[x] = a
    BY DEF IInv, TypeInv, TypeOK, OwnTasks
  <2> QED BY <1>2, <2>1, HeldSteps, QuotaAssumption
<1> QED BY <1>1, <1>2

\* A task that waits holds no quota: it enters the queue before it is in service, and
\* whoever adds it to the quota takes it out of the queue next.
LEMMA QueuedInductive == IInv /\ [Next]_vars => QueuedXorReserved'
<1> SUFFICES ASSUME IInv, [Next]_vars,
                    NEW t \in Queued', t \in used'[AccountOf[t]]
             PROVE  step' = "dequeue" /\ cur'.task = t
  BY DEF QueuedXorReserved
<1>0. TypeInv /\ t \in Task /\ AccountOf[t] \in Account
  <2>1. QueuesType(queue')
    BY TypeInductive DEF IInv, TypeInv
  <2> QED BY <2>1, QuotaAssumption DEF QueuesType, Queued, ToSet, IInv
<1>1. CASE Restart
  BY <1>0, <1>1, BootLoads DEF Occupying
<1>2. CASE ~Restart
  <2>1. used \in [Account -> SUBSET Task]
    BY <1>0 DEF TypeInv, TypeOK
  <2>2. CASE t \in Queued /\ t \in used[AccountOf[t]]
    <3>1. step = "dequeue" /\ cur.task = t
      BY <2>2 DEF IInv, QueuedXorReserved
    <3>2. ~AdmitDequeue
      BY <1>0, <3>1, QueueType DEF AdmitDequeue
    <3>3. ASSUME Scheduler PROVE AdmitDequeue
      BY <3>1, <3>3 DEF Scheduler, Schedule, ListBegin, ListRead, ListEnd,
         AdmitCheck, AdmitCreate, AdmitMark, AdmitName,
         AdmitReserve, AdmitFail
    <3> QED BY <1>2, <3>1, <3>2, <3>3, SchedulerAlone
  <2>3. CASE t \notin Queued
    <3>1. PICK u \in submitting : SubmitNotify(u) /\ Queued' = Queued \cup {u}
      BY <1>0, <1>2, <2>3, QueueSteps DEF Queued
    <3>2. u = t /\ UNCHANGED used
      BY <2>3, <3>1 DEF SubmitNotify
    <3> QED BY <1>0, <3>1, <3>2 DEF IInv, Knowledge, UsedKnows, InService
  <2>4. CASE t \notin used[AccountOf[t]]
    <3>1. AdmitReserve /\ t = cur.task
      BY <1>0, <1>2, <2>1, <2>4, HeldSteps, QuotaAssumption
    <3> QED BY <3>1 DEF AdmitReserve
  <2> QED BY <2>2, <2>3, <2>4
<1> QED BY <1>1, <1>2

-----------------------------------------------------------------------------
(* What was checked still fits *)

\* Between two boots the usage of an account grows only when the scheduler adds the
\* task in work.
LEMMA UsageShrinks ==
  ASSUME IInv, [Next]_vars, ~Restart, ~AdmitReserve, NEW a \in Account
  PROVE  hardUsed'[a] <= hardUsed[a] /\ hardUsed[a] \in Nat /\ hardUsed'[a] \in Nat
<1>1. used'[a] \subseteq used[a]
  BY HeldSteps DEF IInv, TypeInv, TypeOK
<1>2. hardUsed[a] = Usage(used[a])
  BY DEF IInv, UsageAccounted
<1>3. hardUsed'[a] = Usage(used'[a])
  BY UsageInductive DEF IInv, UsageAccounted, Usage, Units
<1>4. Usage(used[a]) \in Nat /\ Usage(used'[a]) \in Nat
  BY UsageIsNat
<1>5. Usage(used'[a]) <= Usage(used[a])
  BY <1>1, UsageMonotone
<1> QED BY <1>2, <1>3, <1>4, <1>5

\* From the check to the addition the other goroutines can only make room.
LEMMA CheckHoldsInductive == IInv /\ [Next]_vars => CheckHolds'
<1> SUFFICES ASSUME IInv, [Next]_vars, step' \in {"create", "mark", "name", "reserve"}
             PROVE  Fits(cur.task)'
  BY DEF CheckHolds
<1>0. ~Restart /\ TypeInv /\ TypeInv'
  BY TypeInductive DEF Restart, IInv
<1>1. cur'.task \in Task
  BY <1>0 DEF TypeInv, TypeOK
<1>2. Fits(cur'.task) /\ ~AdmitReserve
  <2>1. ~AdmitReserve
    BY DEF AdmitReserve
  <2> QED BY <1>0, <2>1, WorkSteps DEF IInv, CheckHolds
<1> DEFINE t == cur'.task
           a == AccountOf[cur'.task]
<1>3. a \in Account /\ Request[t] \in Nat /\ Hard[a] \in Nat
  BY <1>1, QuotaAssumption
<1>4. hardUsed'[a] <= hardUsed[a] /\ hardUsed[a] \in Nat /\ hardUsed'[a] \in Nat
  BY <1>0, <1>2, <1>3, UsageShrinks
<1>5. Slo[t] = "low" \/ hardUsed[a] + Request[t] <= Hard[a]
  BY <1>2 DEF Fits, FitsInto
<1>6. Slo[t] = "low" \/ hardUsed'[a] + Request[t] <= Hard[a]
  BY <1>3, <1>4, <1>5
<1> QED BY <1>6 DEF Fits, FitsInto

-----------------------------------------------------------------------------

LEMMA SafetyInitial == Init => IInv
<1> SUFFICES ASSUME Init PROVE IInv
  OBVIOUS
<1>1. TypeInv /\ UsageAccounted
  BY TypeInitial, UsageInitial
<1>2. NoTask \notin Task /\ Founding \subseteq Account
  BY ControllerAssumption
<1>3. Queued = {} /\ Candidates = {}
  BY EmptyQueue DEF Init, Queued, Candidates, NoCands
<1>4. Knowledge
  BY <1>2, <1>3, QuotaAssumption DEF Init, Knowledge, QueueKnows, CandsKnow, CurKnows, WatchKnows,
     ClusterKnows, EventsKnow, UsedKnows, RowKnows, NoRow, NoCur, Idle
<1>5. AccountsCached /\ RowsFirst /\ CheckHolds /\ OwnTasks
  BY DEF Init, AccountsCached, RowsFirst, CheckHolds, OwnTasks, NoRow
<1> QED BY <1>1, <1>3, <1>4, <1>5 DEF IInv, QueuedXorReserved

LEMMA SafetyInductive == IInv /\ [Next]_vars => IInv'
<1> SUFFICES ASSUME IInv, [Next]_vars PROVE IInv'
  OBVIOUS
<1>1. TypeInv' /\ UsageAccounted'
  BY TypeInductive, UsageInductive DEF IInv
<1>2. AccountsCached' /\ RowsFirst' /\ Knowledge'
  BY AccountsInductive, RowsInductive, KnowledgeInductive DEF IInv
<1>3. CheckHolds' /\ OwnTasks' /\ QueuedXorReserved'
  BY CheckHoldsInductive, OwnTasksInductive, QueuedInductive
<1> QED BY <1>1, <1>2, <1>3 DEF IInv

LEMMA SafetyInvariant == Spec => []IInv
BY SafetyInitial, SafetyInductive, PTL DEF Spec

\* No task waits in a user queue and holds quota, but for the one step of admitTask
\* between quotaInfo.AddTask and taskQueue.DeleteTask.
THEOREM QueuedXorReservedCorrect == Spec => []QueuedXorReserved
<1>1. IInv => QueuedXorReserved
  BY DEF IInv
<1> QED BY <1>1, SafetyInvariant, PTL

-----------------------------------------------------------------------------
(* The quotas implement the ledger *)

\* Nothing but a fault is counted, nothing but a boot as a boot, and nothing but the
\* deletion from a queue as a race with its list.
LEMMA FaultSteps ==
  ASSUME [Next]_vars, ~Restart
  PROVE  \/ UNCHANGED spent
         \/ \E f \in Fault \ {"restart", "race"} : Fails(f)
         \/ Fails("race") /\ \E t \in Task : DeleteQueued(t)
<1> USE DEF database, cluster, memory, schedule, vars
<1>1. {"db", "api", "ingress", "resync"} \subseteq Fault \ {"restart", "race"}
  BY DEF Fault
<1>2. ASSUME NEW t \in Task, Handler(t)
      PROVE  \/ UNCHANGED spent
             \/ \E f \in Fault \ {"restart", "race"} : Fails(f)
             \/ Fails("race") /\ DeleteQueued(t)
  BY <1>1, <1>2 DEF Handler, SubmitInsert, SubmitNotify, DeleteRead, DeleteQueued, DeleteQuota,
     DeleteJob, DeleteRow, Release
<1>3. ASSUME Scheduler
      PROVE  UNCHANGED spent \/ \E f \in Fault \ {"restart", "race"} : Fails(f)
  BY <1>1, <1>3 DEF Scheduler, Schedule, ListBegin, ListRead, ListEnd,
     AdmitCheck, AdmitCreate, AdmitMark, AdmitName,
     AdmitReserve, AdmitDequeue, AdmitFail
<1>4. ASSUME Watcher
      PROVE  UNCHANGED spent \/ \E f \in Fault \ {"restart", "race"} : Fails(f)
  BY <1>1, <1>4 DEF Watcher, WatchReceive, WatchWrite, WatchRelease, Release
<1>5. ASSUME Cluster \/ UNCHANGED vars \/ \E a \in Account : AddAccount(a)
      PROVE  UNCHANGED spent \/ \E f \in Fault \ {"restart", "race"} : Fails(f)
  BY <1>1, <1>5 DEF Cluster, JobProgress, JobTouched, Midnight, AddAccount
<1> QED BY <1>2, <1>3, <1>4, <1>5, Cases

\* Without a deletion from a queue no list of it is disturbed.
LEMMA RaceSteps ==
  ASSUME TypeInv, [Next]_vars, ~Restart, \A t \in Task : ~DeleteQueued(t)
  PROVE  spent'["race"] = spent["race"]
<1>1. spent \in [Fault -> Nat] /\ "race" \in Fault
  BY DEF TypeInv, TypeOK, Fault
<1>2. ASSUME NEW f \in Fault \ {"restart", "race"}, Fails(f) PROVE spent'["race"] = spent["race"]
  BY <1>1, <1>2, FailsType
<1>3. UNCHANGED spent \/ \E f \in Fault \ {"restart", "race"} : Fails(f)
  BY FaultSteps
<1> QED BY <1>2, <1>3

\* The boots that the ledger counts.
LEMMA BootSteps ==
  ASSUME TypeInv, [Next]_vars, ~Restart
  PROVE  spent'["restart"] = spent["restart"]
<1>1. spent \in [Fault -> Nat] /\ "restart" \in Fault /\ "race" \in Fault \ {"restart"}
  BY DEF TypeInv, TypeOK, Fault
<1>2. ASSUME NEW f \in Fault \ {"restart"}, Fails(f) PROVE spent'["restart"] = spent["restart"]
  BY <1>1, <1>2, FailsType
<1>3. UNCHANGED spent \/ \E f \in Fault \ {"restart"} : Fails(f)
  BY <1>1, FaultSteps
<1> QED BY <1>2, <1>3

\* A boot is counted.
LEMMA BootCounted == ASSUME TypeInv, Restart PROVE spent'["restart"] # 0
<1>1. spent \in [Fault -> Nat] /\ "restart" \in Fault
  BY DEF TypeInv, TypeOK, Fault
<1>2. spent'["restart"] = spent["restart"] + 1
  BY <1>1 DEF Restart, Fails
<1> QED BY <1>1, <1>2

\* Until the server boots again no account uses more than its hard quota: what is added
\* still fits, and everything else makes room.
THEOREM HardQuotaKeptCorrect == Spec => []HardQuotaKept
<1>1. Init => HardQuotaKept
  BY QuotaAssumption DEF Init, HardQuotaKept
<1>2. IInv /\ HardQuotaKept /\ [Next]_vars => HardQuotaKept'
  <2> SUFFICES ASSUME IInv, HardQuotaKept, [Next]_vars, spent'["restart"] = 0, NEW a \in Account
               PROVE  hardUsed'[a] <= Hard[a]
    BY DEF HardQuotaKept
  <2>1. TypeInv /\ ~Restart /\ Hard[a] \in Nat
    BY BootCounted, QuotaAssumption DEF IInv
  <2>2. hardUsed[a] <= Hard[a]
    BY <2>1, BootSteps DEF HardQuotaKept
  <2>3. CASE ~AdmitReserve
    BY <2>1, <2>2, <2>3, UsageShrinks
  <2>4. CASE AdmitReserve
    <3> DEFINE t == cur.task
    <3>1. /\ t \in Task /\ AccountOf[t] \in Account /\ Request[t] \in Nat
          /\ FitsInto(t, hardUsed[AccountOf[t]])
          /\ hardUsed \in [Account -> Int]
      BY <2>1, <2>4, QuotaAssumption DEF AdmitReserve, IInv, CheckHolds, Fits, TypeInv, TypeOK
    <3>2. hardUsed'[a] = hardUsed[a]
            \/ (a = AccountOf[t] /\ Slo[t] = "high" /\ hardUsed'[a] = hardUsed[a] + Request[t])
      BY <3>1, <2>4 DEF AdmitReserve, Reserve
    <3>3. CASE a = AccountOf[t] /\ Slo[t] = "high" /\ hardUsed'[a] = hardUsed[a] + Request[t]
      BY <3>1, <3>3 DEF FitsInto
    <3> QED BY <2>2, <3>2, <3>3
  <2> QED BY <2>3, <2>4
<1> QED
  BY <1>1, <1>2, SafetyInvariant, PTL DEF Spec

\* The ledger measures usage as the controller does.
LEMMA LedgerUsage == \A S : Ledger!Usage(S) = Usage(S)
<1>1. \A S : Ledger!Units(S) = Units(S)
  BY DEF Ledger!Units, Units
<1>2. \A S : Ledger!Cardinality(S) = Cardinality(S)
  BY Zenon DEF Ledger!Cardinality, Cardinality
<1> QED BY <1>1, <1>2 DEF Ledger!Usage, Usage

\* Every step of the controller is one of the ledger, or invisible in it.
LEMMA StepSimulation == IInv /\ [Next]_vars => [Ledger!Next]_<<used, spent["restart"]>>
<1> SUFFICES ASSUME IInv, [Next]_vars
             PROVE  Ledger!Next \/ UNCHANGED <<used, spent["restart"]>>
  OBVIOUS
<1>0. /\ TypeInv /\ used \in [Account -> SUBSET Task] /\ AccountOf \in [Task -> Account]
      /\ spent \in [Fault -> Nat] /\ "restart" \in Fault
  BY QuotaAssumption DEF IInv, TypeInv, TypeOK, Fault
<1>1. CASE Restart
  <2>1. used' \in [Account -> SUBSET Task]
    BY <1>0, <1>1, TypeInductive DEF TypeInv, TypeOK
  <2>2. \A a \in Account : used'[a] \subseteq Ledger!Members(a)
    BY <1>1, BootLoads DEF Ledger!Members
  <2>3. spent'["restart"] = spent["restart"] + 1
    BY <1>0, <1>1 DEF Restart, Fails
  <2> QED BY <2>1, <2>2, <2>3 DEF Ledger!Next, Ledger!Boot
<1>2. CASE ~Restart
  <2>1. spent'["restart"] = spent["restart"]
    BY <1>0, <1>2, BootSteps
  <2>2. ASSUME NEW t \in Task, used' = [used EXCEPT ![AccountOf[t]] = @ \ {t}]
        PROVE  Ledger!Return(t) \/ UNCHANGED used
    BY <1>0, <2>1, <2>2 DEF Ledger!Return
  <2>3. ASSUME AdmitReserve, cur.task \in Task,
               used' = [used EXCEPT ![AccountOf[cur.task]] = @ \cup {cur.task}]
        PROVE  Ledger!Admit(cur.task) \/ UNCHANGED used
    <3> DEFINE t == cur.task
               a == AccountOf[t]
    <3>1. CASE t \in used[a]
      BY <1>0, <2>3, <3>1
    <3>2. CASE t \notin used[a]
      <4>1. FitsInto(t, hardUsed[a]) /\ hardUsed[a] = Usage(used[a])
        BY <1>0, <2>3 DEF AdmitReserve, IInv, CheckHolds, Fits, UsageAccounted
      <4>2. Ledger!FitsInto(t, Ledger!Usage(used[a]))
        BY <4>1, LedgerUsage DEF Ledger!FitsInto, FitsInto
      <4> QED BY <2>1, <2>3, <3>2, <4>2 DEF Ledger!Admit
    <3> QED BY <3>1, <3>2
  <2> QED BY <1>2, <2>1, <2>2, <2>3, HeldSteps DEF Ledger!Next
<1> QED BY <1>1, <1>2

\* The controller keeps the promise of the ledger, whatever the interleaving of its
\* goroutines, their failures and the boots of the server.
THEOREM Refinement == Spec => ImplementsLedger
<1>1. Init => Ledger!Init
  BY DEF Init, Ledger!Init, Fault
<1> QED
  BY <1>1, StepSimulation, SafetyInvariant, PTL DEF Spec, ImplementsLedger, Ledger!Spec

-----------------------------------------------------------------------------
(* Without certain faults *)

\* None of the faults F has happened so far.
Untroubled(F) == \A f \in F : spent[f] = 0

\* A fault that has not happened after a step did not happen in it, nor before it.
LEMMA NoFaultBefore ==
  ASSUME TypeInv, [Next]_vars, NEW f \in Fault, spent'[f] = 0
  PROVE  spent[f] = 0 /\ ~Fails(f)
<1>1. spent \in [Fault -> Nat]
  BY DEF TypeInv, TypeOK
<1>2. ~Fails(f)
  BY <1>1 DEF Fails
<1>3. UNCHANGED spent \/ \E g \in Fault : Fails(g)
  BY FaultSteps DEF Restart, Fault
<1> QED BY <1>1, <1>2, <1>3, FailsType

-----------------------------------------------------------------------------
(* No submitted task is forgotten *)

\* The row of t stands, and no delete handler works on it.
Kept(t) == ~row[t].deleted /\ deletion[t].at = "idle"

\* A task that the scheduler has to find.
Waiting(t) == row[t].status = "Queueing" /\ t \notin submitting /\ Kept(t)

Remembered == \A t \in Task : AccountOf[t] \in userQueues /\ Waiting(t) => t \in Queued

\* admitTask takes a task out of the queue after it has written its row.
AdmittedIsMarked ==
  step \in {"name", "reserve", "dequeue"} => row[cur.task].status \notin {"Absent", "Queueing"}

LEMMA MarkedInductive == IInv /\ AdmittedIsMarked /\ [Next]_vars => AdmittedIsMarked'
<1> SUFFICES ASSUME IInv, AdmittedIsMarked, [Next]_vars, step' \in {"name", "reserve", "dequeue"}
             PROVE  row'[cur'.task].status \notin {"Absent", "Queueing"}
  BY DEF AdmittedIsMarked
<1>0. ~Restart /\ TypeInv /\ TypeInv'
  BY TypeInductive DEF Restart, IInv
<1>1. row \in [Task -> Row] /\ row' \in [Task -> Row] /\ cur'.task \in Task
  BY <1>0 DEF TypeInv, TypeOK
<1>2. ASSUME step \in {"name", "reserve", "dequeue"}, cur'.task = cur.task
      PROVE  row'[cur'.task].status \notin {"Absent", "Queueing"}
  BY <1>0, <1>1, <1>2, StatusSteps DEF AdmittedIsMarked
<1>3. ASSUME ~Scheduler PROVE step' = step /\ cur' = cur
  BY <1>0, <1>3, SchedulerAlone
<1>4. ASSUME AdmitMark \/ AdmitFail PROVE row'[cur'.task].status \notin {"Absent", "Queueing"}
  <2>1. cur' = cur /\ row'[cur'.task].status \in {"Created", "Failed"}
    BY <1>1, <1>4 DEF AdmitMark, AdmitFail, Skip, Row
  <2> QED BY <2>1
<1>5. ASSUME Scheduler, ~AdmitMark, ~AdmitFail
      PROVE  step \in {"name", "reserve", "dequeue"} /\ cur' = cur
  BY <1>5 DEF Scheduler, Schedule, ListBegin, ListRead, ListEnd,
     AdmitCheck, AdmitCreate, AdmitName, AdmitReserve,
     AdmitDequeue, Skip
<1> QED BY <1>2, <1>3, <1>4, <1>5

\* Only a deletion that fails to delete the row leaves a task with its row.
LEMMA KeptSteps ==
  ASSUME TypeInv, [Next]_vars, ~Restart, NEW t \in Task, Kept(t)', spent'["db"] = 0
  PROVE  Kept(t) /\ ~DeleteQueued(t) /\ ~DeleteQuota(t) /\ ~DeleteJob(t) /\ ~DeleteRow(t)
<1> USE DEF database, cluster, memory, schedule, vars
<1>1. /\ row \in [Task -> Row] /\ row[t] \in Row
      /\ deletion \in [Task -> [at : {"idle", "queue", "quota", "job", "row"}, jobName : 0..MaxDay]]
      /\ ~Fails("db")
  BY NoFaultBefore DEF TypeInv, TypeOK, Fault
<1>2. ~DeleteQueued(t) /\ ~DeleteQuota(t) /\ ~DeleteJob(t) /\ ~DeleteRow(t)
  BY <1>1 DEF Kept, DeleteQueued, DeleteQuota, DeleteJob, DeleteRow, Row
<1>3. ASSUME NEW u \in Task, Handler(u) PROVE Kept(t)
  <2>1. row[t].deleted = row'[t].deleted
    <3>1. CASE SubmitInsert(u)
      BY <1>1, <3>1 DEF SubmitInsert, Row
    <3>2. CASE DeleteRow(u)
      <4>1. u # t
        BY <1>2, <3>2
      <4> QED BY <1>1, <3>2, <4>1 DEF DeleteRow
    <3>3. CASE UNCHANGED row
      BY <3>3
    <3> QED BY <1>3, <3>1, <3>2, <3>3 DEF Handler, SubmitNotify, DeleteRead, DeleteQueued,
         DeleteQuota, DeleteJob
  <2>2. deletion[t].at = "idle"
    BY <1>1, <1>2, <1>3 DEF Kept, Handler, SubmitInsert, SubmitNotify, DeleteRead, DeleteQueued,
       DeleteQuota, DeleteJob, DeleteRow
  <2> QED BY <2>1, <2>2 DEF Kept
<1>4. ASSUME Scheduler PROVE Kept(t)
  <2>1. row'[t].deleted = row[t].deleted
    <3>1. CASE AdmitMark
      BY <1>1, <3>1 DEF AdmitMark, Row
    <3>2. CASE AdmitName
      BY <1>1, <3>2 DEF AdmitName, Row
    <3>3. CASE AdmitFail
      BY <1>1, <3>3 DEF AdmitFail, Row
    <3>4. CASE UNCHANGED row
      BY <3>4
    <3> QED
      BY <1>4, <3>1, <3>2, <3>3, <3>4 DEF Scheduler, Schedule, ListBegin, ListRead, ListEnd,
         AdmitCheck, AdmitCreate, AdmitReserve, AdmitDequeue
  <2>2. UNCHANGED deletion
    BY <1>4 DEF Scheduler, Schedule, ListBegin, ListRead, ListEnd,
       AdmitCheck, AdmitCreate, AdmitMark, AdmitName,
       AdmitReserve, AdmitDequeue, AdmitFail
  <2> QED BY <2>1, <2>2 DEF Kept
<1>5. ASSUME Watcher PROVE Kept(t)
  <2>1. row'[t].deleted = row[t].deleted
    <3>1. CASE WatchWrite
      BY <1>1, <3>1 DEF WatchWrite, Row
    <3>2. CASE UNCHANGED row
      BY <3>2
    <3> QED BY <1>5, <3>1, <3>2 DEF Watcher, WatchReceive, WatchRelease
  <2>2. UNCHANGED deletion
    BY <1>5 DEF Watcher, WatchReceive, WatchWrite, WatchRelease
  <2> QED BY <2>1, <2>2 DEF Kept
<1>6. ASSUME Cluster \/ UNCHANGED vars \/ \E a \in Account : AddAccount(a) PROVE Kept(t)
  BY <1>6 DEF Cluster, JobProgress, JobTouched, Midnight, AddAccount, Kept
<1> QED BY <1>2, <1>3, <1>4, <1>5, <1>6, Cases

\* A task begins to wait when its handler notifies the controller.
LEMMA WaitingSteps ==
  ASSUME IInv, [Next]_vars, ~Restart, NEW t \in Task, Waiting(t)', spent'["db"] = 0
  PROVE  Waiting(t) \/ SubmitNotify(t)
<1> USE DEF database, cluster, memory, schedule, vars
<1>1. TypeInv /\ row'[t].status = "Queueing" /\ t \notin submitting' /\ Kept(t)
  BY KeptSteps DEF Waiting, IInv
<1>2. row[t].status \in {"Queueing", "Absent"}
  BY <1>1, StatusSteps
<1>3. CASE row[t].status = "Absent"
  <2>1. ~SubmitInsert(t)
    BY <1>1 DEF SubmitInsert
  <2>2. ASSUME NEW u \in Task, SubmitInsert(u), u # t PROVE row'[t] = row[t]
    BY <2>2 DEF SubmitInsert, IInv, TypeInv, TypeOK
  <2>3. ASSUME NEW u \in Task, DeleteRow(u) PROVE row'[t].status = row[t].status
    <3>1. row \in [Task -> Row] /\ row[t] \in Row
      BY <1>1 DEF TypeInv, TypeOK
    <3> QED BY <2>3, <3>1 DEF DeleteRow, Row
  <2>4. ASSUME NEW u \in Task, Handler(u), ~SubmitInsert(u), ~DeleteRow(u) PROVE UNCHANGED row
    BY <2>4 DEF Handler, SubmitNotify, DeleteRead, DeleteQueued, DeleteQuota, DeleteJob
  <2>5. t # cur.task /\ t # watch.task
    BY <1>3 DEF IInv, Knowledge, CurKnows, WatchKnows, InService
  <2>6. ASSUME Scheduler PROVE row'[t] = row[t]
    BY <2>5, <2>6 DEF Scheduler, Schedule, ListBegin, ListRead, ListEnd,
       AdmitCheck, AdmitCreate, AdmitMark, AdmitName,
       AdmitReserve, AdmitDequeue, AdmitFail, IInv, TypeInv, TypeOK
  <2>7. ASSUME Watcher PROVE row'[t] = row[t]
    BY <2>5, <2>7 DEF Watcher, WatchReceive, WatchWrite, WatchRelease, IInv, TypeInv, TypeOK
  <2>8. ASSUME Cluster \/ UNCHANGED vars \/ \E a \in Account : AddAccount(a) PROVE UNCHANGED row
    BY <2>8 DEF Cluster, JobProgress, JobTouched, Midnight, AddAccount
  <2> QED BY <1>1, <1>3, <2>1, <2>2, <2>3, <2>4, <2>6, <2>7, <2>8, Cases
<1>4. CASE row[t].status = "Queueing" /\ t \in submitting
  <2>1. ASSUME NEW u \in Task, Handler(u), u # t \/ ~SubmitNotify(u) PROVE t \in submitting'
    BY <1>4, <2>1 DEF Handler, SubmitInsert, SubmitNotify, DeleteRead, DeleteQueued, DeleteQuota,
       DeleteJob, DeleteRow
  <2>2. ASSUME Scheduler PROVE UNCHANGED submitting
    BY <2>2 DEF Scheduler, Schedule, ListBegin, ListRead, ListEnd,
       AdmitCheck, AdmitCreate, AdmitMark, AdmitName,
       AdmitReserve, AdmitDequeue, AdmitFail
  <2>3. ASSUME Watcher \/ Cluster \/ UNCHANGED vars \/ \E a \in Account : AddAccount(a)
        PROVE  UNCHANGED submitting
    BY <2>3 DEF Watcher, WatchReceive, WatchWrite, WatchRelease, Cluster, JobProgress,
       JobTouched, Midnight, AddAccount
  <2> QED BY <1>1, <1>4, <2>1, <2>2, <2>3, Cases
<1> QED BY <1>1, <1>2, <1>3, <1>4 DEF Waiting

\* A task in the queue leaves it by its deletion, or when the row no longer says that it
\* waits; and a boot loads all that wait.
LEMMA RememberedInductive ==
  ASSUME IInv, AdmittedIsMarked, Remembered, [Next]_vars, spent'["db"] = 0
  PROVE  Remembered'
<1> SUFFICES ASSUME NEW t \in Task, AccountOf[t] \in userQueues', Waiting(t)'
             PROVE  t \in Queued'
  BY DEF Remembered
<1>0. TypeInv /\ row'[t].status = "Queueing" /\ Kept(t)'
  BY DEF IInv, Waiting
<1>1. CASE Restart
  <2>1. row[t].status = "Queueing" /\ ~row[t].deleted
    BY <1>0, <1>1 DEF Restart, Kept, database
  <2>2. AccountOf[t] \in accounts
    BY <2>1 DEF IInv, RowsFirst
  <2>3. t \in Listed(AccountOf[t], {"Queueing"})
    BY <2>1 DEF Listed
  <2> QED BY <1>0, <1>1, <2>2, <2>3, LoadMemoryType DEF Restart
<1>2. CASE ~Restart /\ SubmitNotify(t)
  <2>1. ~Fails("db") /\ UNCHANGED userQueues
    BY <1>0, <1>2, NoFaultBefore, SubmitSteps DEF Fault
  <2>2. AddTask(t)
    BY <1>2, <2>1 DEF SubmitNotify
  <2> QED BY <1>0, <2>1, <2>2, QueueType
<1>3. CASE ~Restart /\ ~SubmitNotify(t)
  <2>1. Waiting(t) /\ AccountOf[t] \in userQueues
    BY <1>3, WaitingSteps, SubmitSteps
  <2>2. t \in Queued
    BY <2>1 DEF Remembered
  <2>3. ~DeleteQueued(t)
    BY <1>0, <1>3, KeptSteps
  <2>4. ASSUME AdmitDequeue PROVE cur.task # t
    BY <2>1, <2>4 DEF AdmitDequeue, AdmittedIsMarked, Waiting
  <2> QED BY <1>0, <1>3, <2>2, <2>3, <2>4, QueueSteps DEF Queued
<1> QED BY <1>1, <1>2, <1>3

\* What admitTask, the deletions and the boots keep, as long as no write or read of the
\* database fails.
RememberedInv == AdmittedIsMarked /\ (spent["db"] = 0 => Remembered)

LEMMA RememberedInvariant == Spec => []RememberedInv
<1>1. Init => RememberedInv
  BY DEF Init, RememberedInv, AdmittedIsMarked, Remembered, Waiting, NoRow
<1>2. IInv /\ RememberedInv /\ [Next]_vars => RememberedInv'
  <2> SUFFICES ASSUME IInv, RememberedInv, [Next]_vars PROVE RememberedInv'
    OBVIOUS
  <2>1. AdmittedIsMarked'
    BY MarkedInductive DEF RememberedInv
  <2>2. ASSUME spent'["db"] = 0 PROVE Remembered'
    <3>1. spent["db"] = 0
      BY <2>2, NoFaultBefore DEF IInv, Fault
    <3> QED BY <2>2, <3>1, RememberedInductive DEF RememberedInv
  <2> QED BY <2>1, <2>2 DEF RememberedInv
<1> QED BY <1>1, <1>2, SafetyInvariant, PTL DEF Spec

\* While every account has its queue and the database has answered every call, no
\* submitted task is forgotten, whatever is refused by the cluster, deleted or killed in
\* between: TaskUpdated queues it, admitTask takes it out only after its row says
\* something else, and a boot queues it again.
THEOREM NoneForgottenCorrect ==
  Spec => [](spent["db"] = 0 /\ accounts \subseteq userQueues => NoneForgotten)
<1>1. IInv /\ RememberedInv => (spent["db"] = 0 /\ accounts \subseteq userQueues => NoneForgotten)
  <2> SUFFICES ASSUME IInv, RememberedInv, spent["db"] = 0, accounts \subseteq userQueues,
                      NEW t \in Task, Waiting(t)
               PROVE  t \in Queued
    BY DEF NoneForgotten, Waiting, Kept
  <2>1. AccountOf[t] \in accounts
    BY DEF Waiting, IInv, RowsFirst
  <2> QED BY <2>1 DEF RememberedInv, Remembered
<1> QED BY <1>1, SafetyInvariant, RememberedInvariant, PTL

-----------------------------------------------------------------------------
(* One AIJob for a task *)

\* When the database answers, the task in work goes from the creation of its AIJob to
\* the queue without a way back.
LEMMA WorkAdvances ==
  ASSUME TypeInv, [Next]_vars, ~Restart, spent'["db"] = 0, cur.task \in Task
  PROVE  \/ /\ UNCHANGED cands
            /\ \/ step' = step /\ cur' = cur
               \/ AdmitCreate /\ step' \in {"mark", "fail"} /\ cur'.task = cur.task
               \/ step = "mark" /\ step' = "name" /\ cur' = cur
               \/ step = "name" /\ step' = "reserve" /\ cur' = cur
               \/ AdmitReserve /\ step' = "dequeue" /\ cur' = cur
               \/ step = "fail" /\ step' = "dequeue" /\ cur' = cur
         \/ AdmitDequeue
<1>1. step \notin {"scan", "list"} /\ ~Fails("db")
  BY NoFaultBefore, ControllerAssumption DEF TypeInv, TypeOK, Fault
<1>2. ASSUME ~Scheduler PROVE UNCHANGED <<step, cands, cur>>
  BY <1>2, SchedulerAlone
<1>3. /\ ~Schedule /\ ~ListRead /\ ~ListEnd /\ ~(\E q \in UserQueue : ListBegin(q))
      /\ ~(\E t \in Task : AdmitCheck(t))
  BY <1>1 DEF Schedule, ListBegin, ListRead, ListEnd, AdmitCheck
<1>4. ASSUME AdmitCreate
      PROVE  step' \in {"mark", "fail"} /\ cur'.task = cur.task /\ UNCHANGED cands
  BY <1>4 DEF AdmitCreate, TypeInv, TypeOK
<1>5. ASSUME AdmitMark PROVE step = "mark" /\ step' = "name" /\ UNCHANGED <<cands, cur>>
  BY <1>1, <1>5 DEF AdmitMark
<1>6. ASSUME AdmitName PROVE step = "name" /\ step' = "reserve" /\ UNCHANGED <<cands, cur>>
  BY <1>1, <1>6 DEF AdmitName
<1>7. ASSUME AdmitReserve PROVE step' = "dequeue" /\ UNCHANGED <<cands, cur>>
  BY <1>7 DEF AdmitReserve
<1>8. ASSUME AdmitFail PROVE step = "fail" /\ step' = "dequeue" /\ UNCHANGED <<cands, cur>>
  BY <1>1, <1>8 DEF AdmitFail
<1> QED BY <1>2, <1>3, <1>4, <1>5, <1>6, <1>7, <1>8 DEF Scheduler

\* The list under way, while no deletion has shifted the keys below it: the cells it goes
\* over are the first ones of the queue, and of those it has not read it has no candidate.
WalkInPlace ==
  /\ walk.of \in UserQueue \ todo
  /\ walk.stale = <<>>
  /\ walk.read < walk.len /\ walk.len <= Len(queue[walk.of])
  /\ \A t \in Candidates :
       QueueOf(t) = walk.of => \E i \in 1..walk.read : queue[walk.of][i] = t

\* A round lists every task once.
ListOnce ==
  /\ \A t \in Task : cands[t] <= 1
  /\ walk # NoWalk => WalkInPlace
  /\ step = "list" => \A t \in Candidates : QueueOf(t) \notin todo

\* The queue under a list only grows, at its end.
LEMMA WalkUndisturbed ==
  ASSUME IInv, ListOnce, [Next]_vars, ~Restart, ~Scheduler, spent'["race"] = 0
  PROVE  ListOnce'
<1> USE DEF database, cluster, memory, schedule, vars
<1>0. /\ TypeInv /\ QueuesType(queue) /\ queue \in [UserQueue -> Seq(Task)] /\ walk \in Walk
      /\ ~Fails("race")
  BY NoFaultBefore DEF IInv, TypeInv, TypeOK, QueuesType, Fault
<1>1. UNCHANGED <<step, todo, cands>>
  BY SchedulerAlone
<1>2. Candidates' = Candidates
  BY <1>1 DEF Candidates
<1>3. ASSUME UNCHANGED <<queue, walk>> PROVE ListOnce'
  BY <1>1, <1>2, <1>3 DEF ListOnce, WalkInPlace
<1>4. ASSUME UNCHANGED walk, NEW u \in Task, walk # NoWalk,
             queue' = [queue EXCEPT ![QueueOf(u)] = Enqueue(@, u)]
      PROVE  WalkInPlace'
  <2> DEFINE q == walk.of
  <2>1. q \in UserQueue /\ queue[q] \in Seq(Task) /\ walk.len \in Nat /\ walk.read \in Nat
    BY <1>0, <1>4 DEF ListOnce, WalkInPlace, Walk
  <2>2. queue'[q] = queue[q] \/ queue'[q] = Append(queue[q], u)
    BY <1>0, <1>4, <2>1 DEF Enqueue
  <2>3. Len(queue'[q]) >= Len(queue[q]) /\ \A i \in 1..walk.read : queue'[q][i] = queue[q][i]
    BY <1>4, <2>1, <2>2 DEF ListOnce, WalkInPlace
  <2>4. Len(queue'[q]) \in Nat /\ Len(queue[q]) \in Nat
    BY <2>1, <2>2
  <2>5. walk.len <= Len(queue'[q])
    BY <1>4, <2>1, <2>3, <2>4 DEF ListOnce, WalkInPlace
  <2> QED BY <1>1, <1>2, <1>4, <2>3, <2>5 DEF ListOnce, WalkInPlace
<1>5. ASSUME NEW u \in Task, AddTask(u) PROVE ListOnce'
  <2>1. CASE UNCHANGED queue /\ UNCHANGED walk
    BY <1>3, <2>1
  <2>2. CASE queue' = [queue EXCEPT ![QueueOf(u)] = Enqueue(@, u)] /\ UNCHANGED walk
    BY <1>1, <1>2, <1>4, <2>2 DEF ListOnce
  <2>3. walk.stale = <<>> \/ walk = NoWalk
    BY DEF ListOnce, WalkInPlace
  <2>4. UNCHANGED walk
    BY <1>5, <2>3 DEF AddTask, NoWalk
  <2>5. UNCHANGED queue \/ queue' = [queue EXCEPT ![QueueOf(u)] = Enqueue(@, u)]
    BY <1>5 DEF AddTask
  <2> QED BY <2>1, <2>2, <2>4, <2>5
<1>6. ASSUME NEW u \in Task, DeleteQueued(u) PROVE ListOnce'
  <2> DEFINE q == walk.of
  <2>1. UNCHANGED walk /\ queue' = [queue EXCEPT ![QueueOf(u)] = Withdraw(@, u)]
    BY <1>0, <1>6 DEF DeleteQueued, RemoveTask
  <2>2. q # QueueOf(u) \/ ~Contains(queue[QueueOf(u)], u)
    BY <1>0, <1>6 DEF DeleteQueued
  <2>3. q \in UserQueue => queue'[q] = queue[q]
    <3>1. CASE q # QueueOf(u)
      BY <1>0, <2>1, <3>1
    <3>2. CASE q = QueueOf(u) /\ q \in UserQueue
      <4>1. queue[q] \in Seq(Task)
        BY <1>0, <3>2
      <4>2. Withdraw(queue[q], u) = queue[q]
        BY <2>2, <3>2 DEF Withdraw
      <4> QED BY <1>0, <2>1, <3>2, <4>2
    <3> QED BY <2>2, <3>1, <3>2
  <2> QED BY <1>1, <1>2, <2>1, <2>3 DEF ListOnce, WalkInPlace
<1>7. ASSUME NEW u \in Task, Handler(u) PROVE ListOnce'
  BY <1>3, <1>5, <1>6, <1>7 DEF Handler, SubmitInsert, SubmitNotify, DeleteRead, DeleteQuota,
     DeleteJob, DeleteRow
<1>8. ASSUME Watcher \/ Cluster \/ UNCHANGED vars \/ \E a \in Account : AddAccount(a)
      PROVE  UNCHANGED <<queue, walk>>
  BY <1>8 DEF Watcher, WatchReceive, WatchWrite, WatchRelease, Cluster, JobProgress,
     JobTouched, Midnight, AddAccount
<1> QED BY <1>3, <1>7, <1>8, Cases

\* The scheduler reads each key of a queue once, and each queue once in a round.
LEMMA ListAdvances ==
  ASSUME IInv, ListOnce, Scheduler
  PROVE  ListOnce'
<1> USE DEF database, cluster, memory, schedule
<1>0. /\ QueuesType(queue) /\ queue \in [UserQueue -> Seq(Task)] /\ walk \in Walk
      /\ cands \in [Task -> Nat] /\ todo \subseteq UserQueue
      /\ walk # NoWalk => step = "list"
  BY DEF IInv, TypeInv, TypeOK, QueuesType
<1>1. ASSUME UNCHANGED cands PROVE Candidates' = Candidates
  BY <1>1 DEF Candidates
<1>2. CASE Schedule
  <2>1. Candidates = {} /\ UNCHANGED <<cands, walk>> /\ walk = NoWalk
    BY <1>0, <1>2 DEF Schedule, Candidates, NoCands
  <2> QED BY <1>1, <2>1 DEF ListOnce
<1>3. ASSUME NEW q \in UserQueue, ListBegin(q) PROVE ListOnce'
  <2>1. /\ Candidates' = Candidates /\ UNCHANGED <<queue, cands>>
        /\ \A t \in Candidates : QueueOf(t) \notin todo
    BY <1>1, <1>3 DEF ListBegin, ListOnce
  <2>2. walk'.of = q /\ walk'.len = Len(queue[q]) /\ walk'.read = 0 /\ walk'.stale = <<>>
    BY <1>3 DEF ListBegin
  <2>3. q \in todo /\ todo' \subseteq todo \ {q} /\ queue[q] \in Seq(Task) /\ queue[q] # <<>>
    BY <1>0, <1>3 DEF ListBegin
  <2>4. 0 < Len(queue[q]) /\ Len(queue[q]) <= Len(queue[q])
    BY <2>3
  <2>5. WalkInPlace'
    BY <2>1, <2>2, <2>3, <2>4 DEF WalkInPlace
  <2> QED BY <2>1, <2>3, <2>5 DEF ListOnce
<1>4. CASE ListRead
  <2> DEFINE q == walk.of
             t == NextKey
  <2>1. /\ WalkInPlace /\ walk # NoWalk /\ step = "list" /\ UNCHANGED <<step, queue, todo>>
        /\ \A u \in Candidates : QueueOf(u) \notin todo
    BY <1>4 DEF ListRead, ListOnce
  <2>2. /\ q \in UserQueue /\ q \notin todo /\ queue[q] \in Seq(Task) /\ Distinct(queue[q])
        /\ walk.read \in Nat /\ walk.len \in Nat /\ Len(queue[q]) \in Nat
        /\ walk.read < walk.len /\ walk.len <= Len(queue[q])
    BY <1>0, <2>1 DEF WalkInPlace, QueuesType, Walk
  <2>3. walk.read + 1 \in 1..Len(queue[q]) /\ walk.read + 1 <= Len(queue[q])
    BY <2>2
  <2>4. t = queue[q][walk.read + 1]
    BY <2>3 DEF NextKey
  <2>5. t \in Task /\ QueueOf(t) = q
    BY <1>0, <2>2, <2>3, <2>4 DEF QueuesType, ToSet
  <2>6. cands[t] = 0
    <3>1. SUFFICES ASSUME t \in Candidates PROVE FALSE
      BY <1>0, <2>5 DEF Candidates
    <3>2. PICK i \in 1..walk.read : queue[q][i] = t
      BY <2>1, <2>5, <3>1 DEF WalkInPlace
    <3>3. i \in 1..Len(queue[q]) /\ i # walk.read + 1
      BY <2>2
    <3> QED BY <2>2, <2>3, <2>4, <3>2, <3>3 DEF Distinct
  <2>7. \A u \in Task : u # t => cands'[u] = cands[u]
    BY <1>0, <1>4 DEF ListRead
  <2>8. cands'[t] \in {0, 1}
    BY <1>0, <1>4, <2>5, <2>6 DEF ListRead
  <2>9. \A u \in Task : cands'[u] <= 1
    BY <2>7, <2>8 DEF ListOnce
  <2>10. Candidates' \subseteq Candidates \cup {t}
    BY <2>7 DEF Candidates
  <2>11. \A u \in Candidates' : QueueOf(u) \notin todo'
    BY <2>1, <2>2, <2>5, <2>10
  <2>12. CASE walk' = NoWalk
    BY <2>9, <2>11, <2>12 DEF ListOnce
  <2>13. CASE walk.read + 1 < walk.len /\ walk' = [walk EXCEPT !.read = @ + 1]
    <3>1. /\ walk'.of = q /\ walk'.read = walk.read + 1 /\ walk'.len = walk.len
          /\ walk'.stale = walk.stale
      BY <1>0, <2>13 DEF Walk
    <3>2. walk.read + 1 \in 1..walk.read + 1 /\ 1..walk.read \subseteq 1..walk.read + 1
      BY <2>2
    <3>3. \A u \in Candidates' : QueueOf(u) = q => \E i \in 1..walk.read + 1 : queue[q][i] = u
      BY <2>1, <2>4, <2>10, <3>2 DEF WalkInPlace
    <3>4. WalkInPlace'
      BY <2>1, <2>2, <2>13, <3>1, <3>3 DEF WalkInPlace
    <3> QED BY <2>9, <2>11, <3>4 DEF ListOnce
  <2> QED BY <1>4, <2>12, <2>13 DEF ListRead
<1>5. CASE ListEnd
  <2>1. step' = "scan" /\ UNCHANGED cands /\ walk' = NoWalk
    BY <1>5 DEF ListEnd
  <2> QED BY <2>1 DEF ListOnce
<1>6. ASSUME ~Schedule, ~ListRead, ~ListEnd, ~(\E q \in UserQueue : ListBegin(q))
      PROVE  walk' = NoWalk /\ step' # "list"
  BY <1>0, <1>6 DEF Scheduler, AdmitCheck, AdmitCreate, AdmitMark, AdmitName, AdmitReserve,
     AdmitDequeue, AdmitFail, Skip
<1>7. ASSUME ~Schedule, ~ListRead, ~ListEnd, ~(\E q \in UserQueue : ListBegin(q)), NEW t \in Task
      PROVE  cands'[t] <= 1
  <2>1. ASSUME NEW u, Skip(u) PROVE cands'[t] <= 1
    <3>1. cands[t] \in Nat /\ cands[t] <= 1 /\ cands'[t] \in {cands[t], cands[t] - 1}
      BY <1>0, <2>1 DEF Skip, ListOnce
    <3> QED BY <3>1
  <2>2. ASSUME UNCHANGED cands PROVE cands'[t] <= 1
    BY <2>2 DEF ListOnce
  <2> QED
    BY <1>7, <2>1, <2>2 DEF Scheduler, AdmitCheck, AdmitCreate, AdmitMark, AdmitName,
       AdmitReserve, AdmitDequeue, AdmitFail
<1> QED BY <1>2, <1>3, <1>4, <1>5, <1>6, <1>7 DEF ListOnce

\* The scheduler is past the creation of the AIJob of t, and never comes back to it.
Past(t) == /\ row[t].status # "Absent" /\ t \notin submitting
           /\ t \in Queued \cup Candidates \cup {cur.task}
                => cur.task = t /\ step # "create" /\ cands[t] = 1

LEMMA PastStable ==
  ASSUME IInv, [Next]_vars, ~Restart, spent'["db"] = 0, NEW t \in Task, Past(t)
  PROVE  Past(t)'
<1>0. TypeInv /\ TypeInv' /\ NoTask \notin Task /\ cands \in [Task -> Nat]
  BY TypeInductive, ControllerAssumption DEF IInv, TypeInv, TypeOK
<1>1. row'[t].status # "Absent"
  BY <1>0, StatusSteps DEF Past
<1>2. t \notin submitting'
  BY SubmitSteps DEF Past, SubmitInsert
<1>3. Queued' \subseteq Queued \cup submitting
  BY <1>0, QueueSteps DEF Queued
<1>4. Candidates' \subseteq Candidates \cup Queued /\ cur'.task \in Candidates \cup {cur.task, NoTask}
  BY <1>0, ScheduleSteps
<1>5. CASE t \notin Queued \cup Candidates \cup {cur.task}
  <2>1. t \notin Queued' \cup Candidates' \cup {cur'.task}
    BY <1>0, <1>3, <1>4, <1>5 DEF Past
  <2> QED BY <1>1, <1>2, <2>1 DEF Past
<1>6. CASE cur.task = t /\ step # "create" /\ cands[t] = 1
  <2>1. CASE AdmitDequeue
    <3>1. t \notin Queued'
      BY <1>0, <1>6, <2>1, QueueType DEF AdmitDequeue
    <3>2. t \notin Candidates' /\ cur'.task # t
      BY <1>0, <1>6, <2>1 DEF AdmitDequeue, Skip, NoCur, Candidates
    <3> QED BY <1>1, <1>2, <3>1, <3>2 DEF Past
  <2>2. CASE ~AdmitDequeue
    <3>1. cur'.task = t /\ step' # "create" /\ UNCHANGED cands
      BY <1>0, <1>6, <2>2, WorkAdvances DEF AdmitCreate
    <3> QED BY <1>1, <1>2, <1>6, <3>1 DEF Past
  <2> QED BY <2>1, <2>2
<1> QED BY <1>5, <1>6 DEF Past

\* An AIJob of t runs or is about to run.
Alive(t) == \E d \in Day : job[t][d] \in Live

\* The scheduler is past the tasks that have an AIJob, and each has one.
JobsPast == \A t \in Task : (\E d \in Day : job[t][d] # "None") => Past(t)
OneJob   == \A t \in Task : \A d, e \in Day : job[t][d] # "None" /\ job[t][e] # "None" => d = e

\* A new AIJob is of a task that had none.
LEMMA NewJob ==
  ASSUME IInv, JobsPast, AdmitCreate
  PROVE  cur.task \in Task /\ \A d \in Day : job[cur.task][d] = "None"
<1>1. cur.task \in Task /\ step = "create"
  BY DEF AdmitCreate, IInv, TypeInv, TypeOK
<1>2. ~Past(cur.task)
  BY <1>1 DEF Past
<1> QED BY <1>1, <1>2 DEF JobsPast

LEMMA JobsPastInductive ==
  ASSUME IInv, ListOnce, JobsPast, [Next]_vars, ~Restart, spent'["db"] = 0
  PROVE  JobsPast'
<1> SUFFICES ASSUME NEW t \in Task, NEW d \in Day, job'[t][d] # "None" PROVE Past(t)'
  BY DEF JobsPast
<1>0. TypeInv
  BY DEF IInv
<1>1. CASE job[t][d] # "None"
  BY <1>1, PastStable DEF JobsPast
<1>2. CASE job[t][d] = "None"
  <2>1. Successors(job[t][d]) = {}
    BY <1>2 DEF Successors
  <2>2. AdmitCreate /\ t = cur.task
    BY <1>0, <1>2, <2>1, JobSteps
  <2>3. step' \in {"mark", "fail"} /\ cur'.task = t /\ UNCHANGED <<row, submitting, cands>>
    BY <1>0, <2>2 DEF AdmitCreate, TypeInv, TypeOK, database
  <2>4. InService(t)
    BY <2>2 DEF IInv, Knowledge, CurKnows
  <2>5. cands[t] = 1
    <3>1. t \in Candidates /\ cands[t] \in Nat /\ cands[t] <= 1
      BY <1>0, <2>2 DEF TypeInv, TypeOK, ListOnce
    <3> QED BY <3>1 DEF Candidates
  <2> QED BY <2>3, <2>4, <2>5 DEF Past, InService
<1> QED BY <1>1, <1>2

LEMMA OneJobInductive ==
  ASSUME IInv, JobsPast, OneJob, [Next]_vars, ~Restart
  PROVE  OneJob'
<1> SUFFICES ASSUME NEW t \in Task, NEW d \in Day, NEW e \in Day,
                    job'[t][d] # "None", job'[t][e] # "None"
             PROVE  d = e
  BY DEF OneJob
<1>1. ASSUME NEW x \in Day, job'[t][x] # "None"
      PROVE  job[t][x] # "None" \/ (AdmitCreate /\ t = cur.task /\ x = today)
  <2>1. job[t][x] = "None" => Successors(job[t][x]) = {}
    BY DEF Successors
  <2> QED BY <1>1, <2>1, JobSteps DEF IInv
<1>2. CASE job[t][d] # "None" /\ job[t][e] # "None"
  BY <1>2 DEF OneJob
<1>3. CASE AdmitCreate /\ t = cur.task
  <2>1. job[t][d] = "None" /\ job[t][e] = "None"
    BY <1>3, NewJob
  <2> QED BY <1>1, <2>1
<1> QED BY <1>1, <1>2, <1>3

-----------------------------------------------------------------------------
(* What the reports say of a task *)

\* What a report of phase p says of t: its AIJob was created, and it does not come to
\* life again once it is completed.
Tells(t, p) == Past(t) /\ (p \in Completed => ~Alive(t))

EventsTell == \A i \in DOMAIN events : Tells(events[i].task, events[i].phase)
WatchTells == watch.at # "idle" => /\ Tells(watch.task, watch.phase)
                                   /\ watch.at = "release" => watch.phase \in Completed

\* No AIJob comes to life past its creation.
LEMMA NoRevival ==
  ASSUME IInv, [Next]_vars, ~Restart, NEW t \in Task, Past(t), Alive(t)'
  PROVE  Alive(t)
<1>1. PICK d \in Day : job'[t][d] \in Live
  BY DEF Alive
<1>2. ~(AdmitCreate /\ t = cur.task)
  BY DEF AdmitCreate, Past
<1>3. job'[t][d] # "None"
  BY <1>1 DEF Live
<1>4. job'[t][d] = job[t][d] \/ job'[t][d] \in Successors(job[t][d])
  BY <1>2, <1>3, JobSteps DEF IInv
<1>5. job[t][d] \in Live
  BY <1>1, <1>4 DEF Successors, Live
<1> QED BY <1>5 DEF Alive

LEMMA TellsStable ==
  ASSUME IInv, [Next]_vars, ~Restart, spent'["db"] = 0, NEW t \in Task, NEW p, Tells(t, p)
  PROVE  Past(t)' /\ (p \in Completed => ~Alive(t)')
BY PastStable, NoRevival DEF Tells

LEMMA EventsTellInductive ==
  ASSUME IInv, JobsPast, OneJob', EventsTell, [Next]_vars, ~Restart, spent'["db"] = 0
  PROVE  EventsTell'
<1> SUFFICES ASSUME NEW i \in DOMAIN events'
             PROVE  Past(events[i].task)' /\ (events'[i].phase \in Completed => ~Alive(events[i].task)')
  BY DEF EventsTell, Tells
<1>0. TypeInv /\ events \in Seq(Report)
  BY DEF IInv, TypeInv, TypeOK
<1>1. CASE \E j \in DOMAIN events : events'[i] = events[j]
  <2>1. PICK j \in DOMAIN events : events'[i] = events[j]
    BY <1>1
  <2>2. events[j] \in Report
    BY <1>0
  <2>3. PICK t \in Task, p \in Notified : t = events[j].task /\ p = events[j].phase
    BY <2>2 DEF Report
  <2>4. Past(t)' /\ (p \in Completed => ~Alive(t)')
    BY <2>3, TellsStable DEF EventsTell
  <2> QED BY <2>1, <2>3, <2>4 DEF Past, Alive
<1>2. CASE \E t \in Task, d \in Day : /\ events'[i] = [task |-> t, day |-> d, phase |-> job'[t][d]]
                                     /\ job[t][d] # "None"
  <2>1. PICK t \in Task, d \in Day : /\ events'[i] = [task |-> t, day |-> d, phase |-> job'[t][d]]
                                     /\ job[t][d] # "None"
    BY <1>2
  <2>2. Past(t)'
    BY <2>1, PastStable DEF JobsPast
  <2>3. ASSUME job'[t][d] \in Completed, NEW e \in Day PROVE job'[t][e] \notin Live
    <3>1. "None" \notin Completed \cup Live /\ Completed \cap Live = {}
      BY DEF Completed, Live
    <3> QED BY <2>3, <3>1 DEF OneJob
  <2> QED BY <2>1, <2>2, <2>3 DEF Past, Alive
<1> QED BY <1>0, <1>1, <1>2, EventSteps

LEMMA WatchTellsInductive ==
  ASSUME IInv, EventsTell, WatchTells, [Next]_vars, ~Restart, spent'["db"] = 0
  PROVE  WatchTells'
<1> SUFFICES ASSUME watch'.at # "idle"
             PROVE  /\ Past(watch.task)' /\ (watch'.phase \in Completed => ~Alive(watch.task)')
                    /\ watch'.at = "release" => watch'.phase \in Completed
  BY DEF WatchTells, Tells
<1>0. TypeInv /\ events \in Seq(Report)
  BY DEF IInv, TypeInv, TypeOK
<1>1. ASSUME NEW t \in Task, NEW p, Tells(t, p), watch'.task = t, watch'.phase = p
      PROVE  Past(watch.task)' /\ (watch'.phase \in Completed => ~Alive(watch.task)')
  <2>1. Past(t)' /\ (p \in Completed => ~Alive(t)')
    BY <1>1, TellsStable
  <2> QED BY <1>1, <2>1 DEF Past, Alive
<1>2. CASE watch.at # "idle" /\ watch'.task = watch.task /\ watch'.phase = watch.phase
  <2>1. watch.task \in Task /\ Tells(watch.task, watch.phase)
    BY <1>0, <1>2 DEF WatchTells, TypeInv, TypeOK
  <2>2. watch'.at = "release" => watch'.phase \in Completed
    BY <1>0, <1>2, WatchSteps DEF WatchTells, Idle
  <2> QED BY <1>1, <1>2, <2>1, <2>2
<1>3. CASE /\ events # <<>>
           /\ watch'.task = Head(events).task /\ watch'.phase = Head(events).phase
           /\ watch'.at = "release" => watch'.phase \in Completed
  <2>1. 1 \in DOMAIN events /\ Head(events) = events[1] /\ events[1] \in Report
    BY <1>0, <1>3
  <2>2. Head(events).task \in Task /\ Tells(Head(events).task, Head(events).phase)
    BY <2>1 DEF EventsTell, Report
  <2> QED BY <1>1, <1>3, <2>2
<1> QED BY <1>0, <1>2, <1>3, WatchSteps DEF Idle

\* What schedule, admitTask, the cluster and the watcher keep while the database answers,
\* the server is not killed, and no deletion shifts a queue below a list of it.
ClusterInv ==
  Untroubled({"db", "restart", "race"})
    => ListOnce /\ JobsPast /\ OneJob /\ EventsTell /\ WatchTells

LEMMA ClusterInvariant == Spec => []ClusterInv
<1>1. Init => ClusterInv
  BY DEF Init, ClusterInv, JobsPast, OneJob, EventsTell, WatchTells, Idle, ListOnce, NoCands
<1>2. IInv /\ ClusterInv /\ [Next]_vars => ClusterInv'
  <2> SUFFICES ASSUME IInv, ClusterInv, [Next]_vars,
                      spent'["db"] = 0, spent'["restart"] = 0, spent'["race"] = 0
               PROVE  ListOnce' /\ JobsPast' /\ OneJob' /\ EventsTell' /\ WatchTells'
    BY DEF ClusterInv, Untroubled
  <2>1. Untroubled({"db", "restart", "race"}) /\ ~Restart
    BY NoFaultBefore, BootCounted DEF IInv, Untroubled, Fault
  <2>2. ListOnce' /\ JobsPast' /\ OneJob'
    BY <2>1, WalkUndisturbed, ListAdvances, JobsPastInductive, OneJobInductive DEF ClusterInv
  <2>3. EventsTell' /\ WatchTells'
    BY <2>1, <2>2, EventsTellInductive, WatchTellsInductive DEF ClusterInv
  <2> QED BY <2>2, <2>3
<1> QED BY <1>1, <1>2, SafetyInvariant, PTL DEF Spec

\* As long as the database has answered, the server was not killed, and no deletion has
\* shifted a queue below a list of it, a task has one live AIJob at most, although the
\* name of an AIJob changes at midnight: schedule lists every task once in a round, and
\* does not come back to a task whose AIJob it has created.
THEOREM OneLiveJobCorrect == Spec => [](Untroubled({"db", "restart"}) => OneLiveJob)
<1>1. ClusterInv => (Untroubled({"db", "restart"}) => OneLiveJob)
  BY DEF ClusterInv, OneJob, OneLiveJob, SingleJob, Live, Untroubled
<1> QED BY <1>1, ClusterInvariant, PTL

-----------------------------------------------------------------------------
(* What runs in the cluster is within the quota *)

\* The AIJob of the task in work runs, and its quota is not yet added.
InHand(t) == cur.task = t /\ step \in {"mark", "name", "reserve"}

\* A task that runs, and that nobody deletes, holds quota or is about to.
AliveHolds == \A t \in Task : Alive(t) /\ Kept(t) => t \in used[AccountOf[t]] \/ InHand(t)

\* Quota is given back by a deletion of the task, or by the watcher.
LEMMA HeldUntilReleased ==
  ASSUME IInv, [Next]_vars, ~Restart, NEW t \in Task, t \in used[AccountOf[t]]
  PROVE  t \in used'[AccountOf[t]] \/ DeleteQuota(t) \/ (WatchRelease /\ watch.task = t)
<1>1. used \in [Account -> SUBSET Task] /\ AccountOf \in [Task -> Account]
  BY QuotaAssumption DEF IInv, TypeInv, TypeOK
<1>2. ASSUME NEW u \in Task, Release(u), u # t PROVE t \in used'[AccountOf[t]]
  <2>1. used' = [used EXCEPT ![AccountOf[u]] = @ \ {u}] \/ UNCHANGED used
    BY <1>2, ReleaseEffect DEF IInv, Knowledge
  <2> QED BY <1>1, <1>2, <2>1
<1>3. ASSUME WatchRelease PROVE watch.task \in Task /\ Release(watch.task)
  BY <1>3 DEF WatchRelease, IInv, TypeInv, TypeOK
<1>4. ASSUME AdmitReserve PROVE t \in used'[AccountOf[t]]
  BY <1>1, <1>4 DEF AdmitReserve, Reserve
<1> QED BY <1>2, <1>3, <1>4, QuotaSteps DEF DeleteQuota

LEMMA AliveHoldsInductive ==
  ASSUME IInv, JobsPast, WatchTells, AliveHolds, [Next]_vars, ~Restart,
         spent'["db"] = 0, spent'["ingress"] = 0
  PROVE  AliveHolds'
<1> SUFFICES ASSUME NEW t \in Task, Alive(t)', Kept(t)'
             PROVE  t \in used'[AccountOf[t]] \/ InHand(t)'
  BY DEF AliveHolds
<1>0. TypeInv /\ Kept(t) /\ ~DeleteQuota(t)
  BY KeptSteps DEF IInv
<1>1. CASE Alive(t) /\ t \in used[AccountOf[t]]
  <2>1. ~(WatchRelease /\ watch.task = t)
    BY <1>1 DEF WatchRelease, WatchTells, Tells
  <2> QED BY <1>0, <1>1, <2>1, HeldUntilReleased
<1>2. CASE Alive(t) /\ InHand(t)
  <2>1. ASSUME AdmitReserve PROVE t \in used'[AccountOf[t]]
    BY <1>0, <1>2, <2>1, QuotaAssumption DEF AdmitReserve, Reserve, InHand, TypeInv, TypeOK
  <2> QED BY <1>0, <1>2, <2>1, WorkAdvances DEF InHand, AdmitCreate, AdmitDequeue
<1>3. CASE ~Alive(t)
  <2>1. PICK d \in Day : job'[t][d] \in Live
    BY DEF Alive
  <2>2. job[t][d] \notin Live /\ "None" \notin Live
    BY <1>3 DEF Alive, Live
  <2>3. job'[t][d] \notin Successors(job[t][d])
    BY <2>1, <2>2 DEF Successors, Live
  <2>4. AdmitCreate /\ t = cur.task /\ d = today /\ job[t][d] = "None"
    BY <1>0, <2>1, <2>2, <2>3, JobSteps
  <2>5. ~Fails("ingress") /\ job' # job
    BY <1>0, <2>1, <2>2, NoFaultBefore DEF Fault
  <2>6. step' = "mark" /\ cur'.task = t
    BY <1>0, <2>4, <2>5 DEF AdmitCreate, TypeInv, TypeOK
  <2> QED BY <2>6 DEF InHand
<1> QED BY <1>0, <1>1, <1>2, <1>3 DEF AliveHolds

HoldsInv == Untroubled({"db", "restart", "race", "ingress"}) => AliveHolds

LEMMA HoldsInvariant == Spec => []HoldsInv
<1>1. Init => HoldsInv
  BY DEF Init, HoldsInv, AliveHolds, Alive, Live
<1>2. IInv /\ ClusterInv /\ HoldsInv /\ [Next]_vars => HoldsInv'
  <2> SUFFICES ASSUME IInv, ClusterInv, HoldsInv, [Next]_vars,
                      spent'["db"] = 0, spent'["restart"] = 0, spent'["race"] = 0,
                      spent'["ingress"] = 0
               PROVE  AliveHolds'
    BY DEF HoldsInv, Untroubled
  <2>1. Untroubled({"db", "restart", "race", "ingress"}) /\ ~Restart
    BY NoFaultBefore, BootCounted DEF IInv, Untroubled, Fault
  <2>2. JobsPast /\ WatchTells /\ AliveHolds
    BY <2>1 DEF ClusterInv, HoldsInv, Untroubled
  <2> QED BY <2>1, <2>2, AliveHoldsInductive
<1> QED BY <1>1, <1>2, SafetyInvariant, ClusterInvariant, PTL DEF Spec

\* The tasks of an account that run and that nobody deletes stay within its quota.
KeptWithinQuota ==
  \A a \in Account : Usage({t \in Task : AccountOf[t] = a /\ Alive(t) /\ Kept(t)}) <= Hard[a]

\* The task in work was checked against what its account holds, and still fits.
LEMMA HoldsEnough ==
  ASSUME IInv, HardQuotaKept, spent["restart"] = 0, AliveHolds
  PROVE  KeptWithinQuota
<1> SUFFICES ASSUME NEW a \in Account
             PROVE  Usage({t \in Task : AccountOf[t] = a /\ Alive(t) /\ Kept(t)}) <= Hard[a]
  BY DEF KeptWithinQuota
<1> DEFINE S == {t \in Task : AccountOf[t] = a /\ Alive(t) /\ Kept(t)}
           c == cur.task
<1>1. Hard[a] \in Nat /\ Usage(S) \in Nat /\ Usage(used[a]) \in Nat
  BY QuotaAssumption, UsageIsNat
<1>2. hardUsed[a] = Usage(used[a]) /\ hardUsed[a] <= Hard[a]
  BY DEF IInv, UsageAccounted, HardQuotaKept
<1>3. CASE S \subseteq used[a]
  <2>1. Usage(S) <= Usage(used[a])
    BY <1>3, UsageMonotone
  <2> QED BY <1>1, <1>2, <2>1
<1>4. CASE c \in S /\ InHand(c) /\ c \notin used[a] /\ S \subseteq used[a] \cup {c}
  <2>1. c \in Task /\ AccountOf[c] = a /\ Fits(c)
    BY <1>4 DEF IInv, CheckHolds, InHand
  <2>2. Slo[c] \in {"high", "low"} /\ Request[c] \in Nat
    BY <2>1, QuotaAssumption
  <2>3. Usage(S) <= Usage(used[a] \cup {c})
    BY <1>4, UsageMonotone
  <2>4. Usage(used[a] \cup {c}) = Usage(used[a]) + Cost(c)
    BY <1>4, <2>1, UsageAdd
  <2>5. Slo[c] = "low" \/ Usage(used[a]) + Request[c] <= Hard[a]
    BY <1>2, <2>1 DEF Fits, FitsInto
  <2>6. Usage(used[a]) + Cost(c) <= Hard[a]
    <3>1. CASE Slo[c] = "low"
      BY <1>1, <1>2, <3>1 DEF Cost
    <3>2. CASE Slo[c] = "high"
      BY <2>5, <3>2 DEF Cost
    <3> QED BY <2>2, <3>1, <3>2
  <2>7. Usage(used[a] \cup {c}) \in Nat
    BY UsageIsNat
  <2> QED BY <1>1, <2>3, <2>4, <2>6, <2>7
<1>5. \A t \in S : t \in used[a] \/ (t = c /\ InHand(c))
  BY DEF AliveHolds, InHand
<1> QED BY <1>3, <1>4, <1>5

\* As long as the database and the ingresses have answered, the server was not killed, and
\* no deletion has shifted a queue below a list of it, the guaranteed tasks of an account
\* that run, and that nobody has deleted or is deleting, never request more than its hard
\* quota.  admitTask adds to the quota last, but it works on one task at a time, and once
\* on each, and what it has checked still fits.
THEOREM KeptTasksWithinQuota ==
  Spec => [](Untroubled({"db", "restart", "race", "ingress"}) => KeptWithinQuota)
<1>1. IInv /\ HardQuotaKept /\ HoldsInv
        => (Untroubled({"db", "restart", "race", "ingress"}) => KeptWithinQuota)
  BY HoldsEnough DEF HoldsInv, Untroubled
<1> QED BY <1>1, SafetyInvariant, HardQuotaKeptCorrect, HoldsInvariant, PTL

\* A queue is shifted below a list by the deletion of a task, which ends with its row or
\* with a fault.
DeletionShows ==
  Untroubled({"db", "restart"}) /\ spent["race"] # 0 => \E t \in Task : ~Kept(t)

LEMMA DeletionInvariant == Spec => []DeletionShows
<1>1. Init => DeletionShows
  BY DEF Init, DeletionShows, Fault
<1>2. IInv /\ DeletionShows /\ [Next]_vars => DeletionShows'
  <2> SUFFICES ASSUME IInv, DeletionShows, [Next]_vars, \A t \in Task : Kept(t)',
                      spent'["db"] = 0, spent'["restart"] = 0
               PROVE  spent'["race"] = 0
    BY DEF DeletionShows, Untroubled
  <2>1. Untroubled({"db", "restart"}) /\ ~Restart
    BY NoFaultBefore, BootCounted DEF IInv, Untroubled, Fault
  <2>2. \A t \in Task : Kept(t) /\ ~DeleteQueued(t)
    BY <2>1, KeptSteps DEF IInv
  <2>3. spent["race"] = 0
    BY <2>1, <2>2 DEF DeletionShows
  <2> QED BY <2>1, <2>2, <2>3, RaceSteps DEF IInv
<1> QED BY <1>1, <1>2, SafetyInvariant, PTL DEF Spec

\* So, while nothing is deleted, all that runs in the cluster is within the quotas.
THEOREM ClusterWithinQuotaCorrect ==
  Spec => [](Untroubled({"db", "restart", "ingress"}) /\ (\A t \in Task : Kept(t))
               => ClusterWithinQuota)
<1>1. KeptWithinQuota /\ (\A t \in Task : Kept(t)) => ClusterWithinQuota
  <2> SUFFICES ASSUME KeptWithinQuota, \A t \in Task : Kept(t), NEW a \in Account
               PROVE  Usage({t \in Task : AccountOf[t] = a /\ \E d \in Day : job[t][d] \in Live})
                        <= Hard[a]
    BY DEF ClusterWithinQuota
  <2>1. {t \in Task : AccountOf[t] = a /\ \E d \in Day : job[t][d] \in Live}
          = {t \in Task : AccountOf[t] = a /\ Alive(t) /\ Kept(t)}
    BY DEF Alive
  <2> QED BY <2>1 DEF KeptWithinQuota
<1>2. DeletionShows /\ Untroubled({"db", "restart", "ingress"}) /\ (\A t \in Task : Kept(t))
        => Untroubled({"db", "restart", "race", "ingress"})
  BY DEF DeletionShows, Untroubled
<1> QED BY <1>1, <1>2, DeletionInvariant, KeptTasksWithinQuota, PTL

=============================================================================
