------------------------- MODULE VolcanoJobsProofs -------------------------
(***************************************************************************)
(* Theorems about the records of Volcano jobs, for any number of jobs,     *)
(* requests and runs of the cleaner and any budget of faults.  They rest   *)
(* on one fact: an object never goes back to an earlier stage of its life, *)
(* so what an actor has read of it is at most as late as what is there.    *)
(***************************************************************************)
EXTENDS VolcanoJobs, TLAPS

USE DEF mailing

\* How far an object has come; a restart takes it back to Pending, within a stage.
Stage(phase) == CASE phase = "none"                   -> 0
                  [] phase \in {"Pending", "Running"} -> 1
                  [] phase = "Completed"              -> 2
                  [] phase = "gone"                   -> 3

\* The cache is not ahead of the cluster, and the actors not ahead of the cache.
CacheIsBehind == \A j \in Job : Stage(cache[j]) <= Stage(obj[j])

WorkerIsBehind ==
  worker.at # "idle" => /\ Stage(worker.seen) <= Stage(cache[worker.job])
                        /\ worker.seen # cache[worker.job] => worker.job \in queue

CallsAreBehind ==
  \A r \in Request :
    /\ call[r].at # "idle" => call[r].job \in Job /\ rec[call[r].job].status # "none"
    /\ call[r].at \in {"record", "delete"} =>
         Stage(call[r].seen) \in 1..Stage(cache[call[r].job])

\* A record exists only of an object that was in the cache, and says Completed only
\* when the object was there at its end.
RecordsAreBehind ==
  \A j \in Job : /\ rec[j].status # "none" => Stage(cache[j]) >= 1
                 /\ rec[j].status = "Completed" => Stage(cache[j]) >= 2

\* What the worker still knows of the record and the object when it writes: nobody
\* else makes a record Completed, so one that is Completed was so when it was read.
WorkerKnows ==
  /\ worker.at \in {"create", "mail", "alert", "write"} => worker.seen \notin Absent
  /\ worker.at \in {"mail", "alert", "write", "free"} => rec[worker.job].status # "none"
  /\ worker.at # "idle" /\ rec[worker.job].status = "Completed" =>
       worker.at # "free" /\ Stage(worker.seen) >= 2

\* Whoever is about to mail about a freed job has deleted its object, and is alone.
FreedByOne ==
  /\ \A j \in Job : mails[j]["freed"] > 0 => obj[j] = "gone"
  /\ \A s \in Sweeper : sweep[s].at = "mail" =>
       obj[sweep[s].job] = "gone" /\ mails[sweep[s].job]["freed"] = 0
  /\ \A s, t \in Sweeper :
       sweep[s].at = "mail" /\ sweep[t].at = "mail" /\ sweep[s].job = sweep[t].job => s = t

\* The mail that the worker has sent and not recorded yet, of which there is at most one.
InHand(j, k) == worker.at = "alert" /\ worker.job = j /\ k \in Due(worker.seen, worker.old)

\* When the alerts do not tell of a mail, all that were sent of its kind lost their record.
AlertsTell ==
  \A j \in Job, k \in {"running", "ended"} :
    k \in alerts[j] \/ InHand(j, k) \/ mails[j][k] <= lost[j][k]

\* The inductive invariant.
JobsInv == /\ TypeOK
           /\ CacheIsBehind /\ WorkerIsBehind /\ CallsAreBehind /\ RecordsAreBehind
           /\ WorkerKnows /\ FreedByOne /\ AlertsTell
           /\ HiddenNeverRuns /\ MailedOnce /\ GoneIsPursued

-----------------------------------------------------------------------------
(* Type correctness *)

\* A fault that happens is within the bound.
LEMMA FaultType == TypeOK /\ (Fault \/ Works) => faults' \in 0..MaxFaults
BY VolcanoAssumption DEF TypeOK, Fault, Works

\* A mail is put on record or counted as lost.
LEMMA RecordAlertType ==
  ASSUME TypeOK, NEW j \in Job, NEW k \in Mail, RecordAlert(j, k)
  PROVE  /\ alerts' \in [Job -> SUBSET Mail] /\ lost' \in [Job -> [Mail -> Nat]]
         /\ faults' \in 0..MaxFaults
<1>1. alerts \in [Job -> SUBSET Mail] /\ lost \in [Job -> [Mail -> Nat]]
  BY DEF TypeOK
<1>2. alerts' \in [Job -> SUBSET Mail]
  BY <1>1 DEF RecordAlert
<1>3. lost' \in [Job -> [Mail -> Nat]]
  BY <1>1 DEF RecordAlert
<1>4. faults' \in 0..MaxFaults
  BY FaultType DEF RecordAlert
<1>5. QED
  BY <1>2, <1>3, <1>4

\* Rows are of their type, and only a row that was there is marked as deleted.
RowsOK == rec \in [Job -> Record] /\ \A j \in Job : rec[j].removed => rec[j].status # "none"

LEMMA SetStatusType ==
  ASSUME RowsOK, NEW j \in Job, NEW status \in Status, SetStatus(j, status)
  PROVE  RowsOK'
<1> DEFINE new == IF rec[j].removed THEN rec[j].status ELSE status
<1>1. rec' = [rec EXCEPT ![j].status = new]
  BY DEF SetStatus
<1>2. rec[j] \in Record /\ new \in Status
  BY DEF RowsOK, Record
<1> HIDE DEF new
<1>3. rec' \in [Job -> Record]
  BY <1>1, <1>2 DEF RowsOK, Record
<1>4. \A i \in Job \ {j} : rec'[i] = rec[i]
  BY <1>1 DEF RowsOK
<1>5. rec'[j].removed = rec[j].removed /\ rec'[j].status = new
  BY <1>1, <1>2 DEF RowsOK, Record
<1>6. rec[j].removed => new = rec[j].status
  BY DEF new
<1>7. QED
  BY <1>3, <1>4, <1>5, <1>6 DEF RowsOK

LEMMA RemoveType ==
  ASSUME RowsOK, NEW j \in Job, rec[j].status # "none", rec' = [rec EXCEPT ![j].removed = TRUE]
  PROVE  RowsOK'
BY DEF RowsOK, Record

\* The cluster keeps its types ...
LEMMA ClusterType ==
  ASSUME TypeOK, NEW j \in Job, Volcano(j) \/ Vanish(j) \/ Watch(j)
  PROVE  TypeOK'
<1>1. CASE Volcano(j)
  <2>1. obj' \in [Job -> Phase]
    BY <1>1 DEF TypeOK, Volcano, Phase
  <2>2. restarts' \in [Job -> 0..MaxRestarts]
    BY <1>1, VolcanoAssumption DEF TypeOK, Volcano
  <2>3. QED
    BY <1>1, <2>1, <2>2 DEF TypeOK, Volcano, server
<1>2. CASE Vanish(j)
  BY <1>2 DEF TypeOK, Vanish, server, Phase
<1>3. CASE Watch(j)
  BY <1>3 DEF TypeOK, Watch, server, Phase
<1>4. QED
  BY <1>1, <1>2, <1>3

\* ... and so do the reconciler ...
LEMMA ReconcileType ==
  ASSUME TypeOK, WorkerKnows, Reconcile
  PROVE  TypeOK'
<1>1. CASE \E j \in Job : Get(j)
  BY <1>1 DEF TypeOK, Get, Worker, Status, Phase, others
<1>2. CASE ReadRecord
  <2>1. worker' \in Worker /\ (worker'.at # "idle" => worker'.job \in Job) /\ queue' \subseteq Job
    <3>1. worker.job \in Job /\ rec[worker.job].status \in Status
      BY <1>2 DEF TypeOK, ReadRecord, Record
    <3>2. CASE Done \/ Requeue(worker.job)
      BY <3>1, <3>2 DEF TypeOK, Done, Requeue, Worker, IdleWorker, Phase, Status
    <3>3. ASSUME NEW at \in {"create", "mail", "write", "free"}, NEW old \in Status,
                 Goto(at, old)
          PROVE  worker' \in Worker /\ worker'.job \in Job /\ queue' \subseteq Job
      BY <3>1, <3>3 DEF TypeOK, Goto, Worker
    <3>4. "none" \in Status
      BY DEF Status
    <3>5. QED
      BY <1>2, <3>1, <3>2, <3>3, <3>4 DEF ReadRecord
  <2>2. faults' \in 0..MaxFaults
    BY <1>2, FaultType DEF ReadRecord
  <2>3. QED
    BY <1>2, <2>1, <2>2 DEF TypeOK, ReadRecord, others
<1>3. CASE Create
  <2>1. worker' \in Worker /\ (worker'.at # "idle" => worker'.job \in Job) /\ queue' \subseteq Job
    BY <1>3 DEF TypeOK, Create, Worker, IdleWorker, Phase, Status, Done, Requeue
  <2>2. RowsOK'
    <3>1. worker.job \in Job /\ worker.seen \in Status
      BY <1>3 DEF TypeOK, WorkerKnows, Create, Worker, Phase, Absent, Status
    <3>2. [status |-> worker.seen, removed |-> FALSE] \in Record
      BY <3>1 DEF Record
    <3>3. CASE rec' = [rec EXCEPT ![worker.job] = [status |-> worker.seen, removed |-> FALSE]]
      <4>1. rec' \in [Job -> Record] /\ ~rec'[worker.job].removed
        BY <3>1, <3>2, <3>3 DEF TypeOK
      <4>2. \A i \in Job \ {worker.job} : rec'[i] = rec[i]
        BY <3>3 DEF TypeOK
      <4>3. QED
        BY <4>1, <4>2 DEF TypeOK, RowsOK
    <3>4. CASE UNCHANGED rec
      BY <3>4 DEF TypeOK, RowsOK
    <3>5. QED
      BY <1>3, <3>3, <3>4 DEF Create
  <2>3. faults' \in 0..MaxFaults
    BY <1>3, FaultType DEF Create
  <2>4. QED
    BY <1>3, <2>1, <2>2, <2>3 DEF TypeOK, RowsOK, Create, others
<1>4. CASE SendMail \/ RecordMail
  <2>1. worker.job \in Job /\ Due(worker.seen, worker.old) \subseteq Mail
    BY <1>4 DEF TypeOK, SendMail, RecordMail, Due, Mail
  <2>2. mails' \in [Job -> [Mail -> Nat]]
    <3>1. mails \in [Job -> [Mail -> Nat]]
      BY DEF TypeOK
    <3>2. ASSUME NEW k \in Mail, Send(worker.job, k)
          PROVE  mails' \in [Job -> [Mail -> Nat]]
      BY <2>1, <3>1, <3>2 DEF Send
    <3>3. QED
      BY <1>4, <2>1, <3>1, <3>2 DEF SendMail, RecordMail
  <2>3. /\ alerts' \in [Job -> SUBSET Mail] /\ lost' \in [Job -> [Mail -> Nat]]
        /\ faults' \in 0..MaxFaults
    <3>1. CASE SendMail
      BY <3>1 DEF TypeOK, SendMail
    <3>2. CASE RecordMail
      BY <2>1, <3>2, RecordAlertType DEF RecordMail
    <3>3. QED
      BY <1>4, <3>1, <3>2
  <2>4. worker' \in Worker /\ worker'.job \in Job
    BY <1>4, <2>1 DEF TypeOK, SendMail, RecordMail, Worker
  <2>5. QED
    BY <1>4, <2>2, <2>3, <2>4 DEF TypeOK, SendMail, RecordMail, others
<1>5. CASE WriteStatus \/ WriteFreed
  <2>1. worker' \in Worker /\ (worker'.at # "idle" => worker'.job \in Job) /\ queue' \subseteq Job
    BY <1>5 DEF TypeOK, WriteStatus, WriteFreed, Worker, IdleWorker, Phase, Status, Done, Requeue
  <2>2. RowsOK'
    <3>1. worker.job \in Job /\ (worker.at = "write" => worker.seen \in Status)
      BY <1>5 DEF TypeOK, WorkerKnows, WriteStatus, WriteFreed, Worker, Phase, Absent, Status
    <3>2. "Freed" \in Status
      BY DEF Status
    <3>3. QED
      BY <1>5, <3>1, <3>2, SetStatusType DEF TypeOK, RowsOK, WriteStatus, WriteFreed
  <2>3. faults' \in 0..MaxFaults
    BY <1>5, FaultType DEF WriteStatus, WriteFreed
  <2>4. QED
    BY <1>5, <2>1, <2>2, <2>3 DEF TypeOK, RowsOK, WriteStatus, WriteFreed, others
<1>6. QED
  BY <1>1, <1>2, <1>3, <1>4, <1>5 DEF Reconcile

\* ... the handlers ...
LEMMA HandlerType ==
  ASSUME TypeOK, NEW r \in Request, Handler(r),
         call[r].at # "idle" => call[r].job \in Job /\ rec[call[r].job].status # "none"
  PROVE  TypeOK'
<1>1. CASE \E j \in Job : DeleteJob(r, j)
  BY <1>1 DEF TypeOK, DeleteJob, Call, Phase
<1>2. CASE GetObject(r)
  <2>1. call' \in [Request -> Call]
    <3>1. call \in [Request -> Call] /\ cache[call[r].job] \in Phase
      BY <1>2 DEF TypeOK, GetObject
    <3>2. NoCall \in Call
      BY DEF Call, NoCall, Phase
    <3>3. QED
      BY <1>2, <3>1, <3>2 DEF GetObject, Return, Call
  <2>2. QED
    BY <1>2, <2>1 DEF TypeOK, GetObject
<1>3. CASE WriteRecord(r)
  <2>1. RowsOK'
    <3>1. call[r].job \in Job /\ rec[call[r].job].status # "none" /\ RowsOK
      BY <1>3 DEF TypeOK, RowsOK, WriteRecord
    <3>2. "Deleted" \in Status
      BY DEF Status
    <3>3. QED
      BY <1>3, <3>1, <3>2, SetStatusType, RemoveType DEF RowsOK, WriteRecord
  <2>2. call' \in [Request -> Call]
    <3>1. call[r] \in Call /\ NoCall \in Call /\ [call[r] EXCEPT !.at = "delete"] \in Call
      BY DEF TypeOK, Call, NoCall, Phase
    <3>2. QED
      BY <1>3, <3>1 DEF TypeOK, WriteRecord, Return
  <2>3. faults' \in 0..MaxFaults
    BY <1>3, FaultType DEF WriteRecord
  <2>4. QED
    BY <1>3, <2>1, <2>2, <2>3 DEF TypeOK, RowsOK, WriteRecord
<1>4. CASE DeleteObject(r)
  <2>1. obj' \in [Job -> Phase] /\ call' \in [Request -> Call]
    BY <1>4 DEF TypeOK, DeleteObject, Deleted, Return, Call, NoCall, Phase
  <2>2. faults' \in 0..MaxFaults
    BY <1>4, FaultType DEF DeleteObject
  <2>3. QED
    BY <1>4, <2>1, <2>2 DEF TypeOK, DeleteObject
<1>5. QED
  BY <1>1, <1>2, <1>3, <1>4 DEF Handler

\* A run of the cleaner goes on with a list, and has a job in hand while it frees it.
SweepOK == /\ sweep \in [Sweeper -> Sweep]
           /\ \A s \in Sweeper :
                sweep[s].at \in {"delete", "mail", "alert"} => sweep[s].job \in Job

LEMMA ContinueType ==
  ASSUME SweepOK, NEW s \in Sweeper, sweep' = [sweep EXCEPT ![s] = Continue(s)]
  PROVE  SweepOK'
<1>1. Continue(s) \in Sweep /\ Continue(s).at \notin {"delete", "mail", "alert"}
  BY DEF SweepOK, Continue, NoSweep, Sweep
<1>2. QED
  BY <1>1 DEF SweepOK

\* ... and the cleaner.
LEMMA CleanerType ==
  ASSUME TypeOK, NEW s \in Sweeper, Cleaner(s)
  PROVE  TypeOK'
<1>1. SweepOK
  BY DEF TypeOK, SweepOK
<1>2. CASE \E rule \in Rule : List(s, rule)
  <2> SUFFICES ASSUME NEW rule \in Rule, List(s, rule) PROVE TypeOK'
    BY <1>2
  <2>1. PICK J \in SUBSET Job :
          sweep' = [sweep EXCEPT ![s] = [at |-> "loop", mail |-> rule # "waiting", todo |-> J,
                                         job |-> None]]
    BY DEF List
  <2>2. SweepOK'
    BY <1>1, <2>1 DEF SweepOK, Sweep
  <2>3. QED
    BY <2>2 DEF TypeOK, SweepOK, List
<1>3. CASE \E j \in Job : FindObject(s, j)
  <2>1. SweepOK'
    BY <1>1, <1>3 DEF SweepOK, FindObject, Sweep
  <2>2. QED
    BY <1>3, <2>1 DEF TypeOK, SweepOK, FindObject
<1>4. CASE \E j \in Job : SkipObject(s, j)
  <2> SUFFICES ASSUME NEW j \in Job, SkipObject(s, j) PROVE TypeOK'
    BY <1>4
  <2> DEFINE next == IF sweep[s].todo = {j} THEN NoSweep
                     ELSE [sweep[s] EXCEPT !.todo = @ \ {j}]
  <2>1. next \in Sweep /\ next.at \notin {"delete", "mail", "alert"}
    BY DEF TypeOK, SkipObject, NoSweep, Sweep
  <2>2. sweep' = [sweep EXCEPT ![s] = next]
    BY <1>1 DEF SweepOK, SkipObject
  <2>3. SweepOK'
    BY <1>1, <2>1, <2>2 DEF SweepOK
  <2>4. QED
    BY <2>3 DEF TypeOK, SweepOK, SkipObject
<1>5. CASE FreeObject(s)
  <2>1. obj' \in [Job -> Phase]
    BY <1>5 DEF TypeOK, FreeObject, Deleted, Phase
  <2>2. SweepOK'
    <3>1. CASE sweep' = [sweep EXCEPT ![s] = Continue(s)]
      BY <1>1, <3>1, ContinueType
    <3>2. CASE sweep' = [sweep EXCEPT ![s].at = "mail"]
      BY <1>1, <1>5, <3>2 DEF FreeObject, SweepOK, Sweep
    <3>3. QED
      BY <1>5, <3>1, <3>2 DEF FreeObject
  <2>3. faults' \in 0..MaxFaults
    BY <1>5, FaultType DEF FreeObject
  <2>4. QED
    BY <1>5, <2>1, <2>2, <2>3 DEF TypeOK, SweepOK, FreeObject
<1>6. CASE MailFreed(s)
  <2>1. SweepOK'
    <3>1. CASE sweep' = [sweep EXCEPT ![s] = Continue(s)]
      BY <1>1, <3>1, ContinueType
    <3>2. CASE sweep' = [sweep EXCEPT ![s].at = "alert"]
      BY <1>1, <1>6, <3>2 DEF MailFreed, SweepOK, Sweep
    <3>3. QED
      BY <1>6, <3>1, <3>2 DEF MailFreed
  <2>2. mails' \in [Job -> [Mail -> Nat]]
    BY <1>6 DEF TypeOK, MailFreed, Mail
  <2>3. QED
    BY <1>6, <2>1, <2>2 DEF TypeOK, SweepOK, MailFreed
<1>7. CASE RecordFreed(s)
  <2>1. SweepOK'
    BY <1>1, <1>7, ContinueType DEF RecordFreed
  <2>2. sweep[s].job \in Job /\ "freed" \in Mail
    BY <1>7 DEF TypeOK, RecordFreed, Mail
  <2>3. /\ alerts' \in [Job -> SUBSET Mail] /\ lost' \in [Job -> [Mail -> Nat]]
        /\ faults' \in 0..MaxFaults
    BY <1>7, <2>2, RecordAlertType DEF RecordFreed
  <2>4. QED
    BY <1>7, <2>1, <2>3 DEF TypeOK, SweepOK, RecordFreed
<1>8. QED
  BY <1>2, <1>3, <1>4, <1>5, <1>6, <1>7 DEF Cleaner

\* A boot leaves everyone idle.
LEMMA StopType ==
  ASSUME TypeOK, Stop
  PROVE  TypeOK'
<1>1. worker' \in Worker /\ worker'.at = "idle"
  BY DEF Stop, Worker, IdleWorker, Phase, Status
<1>2. call' \in [Request -> Call] /\ sweep' \in [Sweeper -> Sweep]
  BY DEF Stop, Call, NoCall, Phase, Sweep, NoSweep
<1>3. \A s \in Sweeper : sweep'[s].at = "idle"
  BY DEF Stop, NoSweep
<1>4. lost' \in [Job -> [Mail -> Nat]]
  BY DEF TypeOK, Stop
<1>5. cache' \in [Job -> Phase] /\ queue' \subseteq Job /\ missed' \subseteq Job
  BY DEF TypeOK, Stop
<1>6. faults' \in 0..MaxFaults
  BY FaultType DEF Stop
<1>7. QED
  BY <1>1, <1>2, <1>3, <1>4, <1>5, <1>6 DEF TypeOK, Stop

-----------------------------------------------------------------------------
(* What is read of an object stays at most as late as what is there *)

LEMMA StageProperties ==
  \A p \in Phase : /\ Stage(p) \in 0..3
                   /\ Stage(p) >= 1 <=> p # "none"
                   /\ Stage(p) >= 2 <=> p \in {"Completed", "gone"}
                   /\ Stage(p) >= 3 <=> p = "gone"
BY DEF Phase, Stage

\* No step takes an object or its copy in the cache back to an earlier stage, and
\* the copy does not overtake the object.
LEMMA StagesAdvance ==
  ASSUME TypeOK, CacheIsBehind, [Next]_vars, NEW j \in Job
  PROVE  /\ Stage(obj[j]) <= Stage(obj'[j])
         /\ Stage(cache[j]) <= Stage(cache'[j])
         /\ Stage(cache'[j]) <= Stage(obj'[j])
         /\ obj'[j] \in Phase /\ cache'[j] \in Phase
<1>1. obj[j] \in Phase /\ cache[j] \in Phase
  BY DEF TypeOK
<1>2. \A p, q \in Phase : Stage(p) \in 0..3 /\ (q = "gone" => Stage(p) <= Stage(q))
  BY StageProperties
<1>3. Stage(cache[j]) <= Stage(obj[j])
  BY DEF CacheIsBehind
<1>4. CASE obj' = obj /\ cache' = cache
  BY <1>1, <1>2, <1>3, <1>4
<1>5. ASSUME NEW i \in Job, obj' = [obj EXCEPT ![i] = "gone"], cache' = cache
      PROVE  Stage(obj[j]) <= Stage(obj'[j]) /\ obj'[j] \in Phase /\ cache'[j] = cache[j]
  BY <1>1, <1>2, <1>5 DEF TypeOK, Phase
<1>6. ASSUME NEW i \in Job, Volcano(i)
      PROVE  Stage(obj[j]) <= Stage(obj'[j]) /\ obj'[j] \in Phase /\ cache'[j] = cache[j]
  BY <1>1, <1>2, <1>6 DEF TypeOK, Volcano, Phase, Stage
<1>7. ASSUME NEW i \in Job, Watch(i)
      PROVE  /\ Stage(cache[j]) <= Stage(cache'[j]) /\ Stage(cache'[j]) <= Stage(obj[j])
             /\ cache'[j] \in Phase /\ obj'[j] = obj[j]
  <2>1. cache \in [Job -> Phase] /\ cache' = [cache EXCEPT ![i] = obj[i]] /\ obj' = obj
    BY <1>7 DEF TypeOK, Watch
  <2>2. cache'[j] = cache[j] \/ cache'[j] = obj[j]
    BY <2>1
  <2>3. QED
    BY <1>1, <1>2, <1>3, <2>1, <2>2
<1>8. ASSUME NEW i \in Job, Vanish(i)
      PROVE  obj' = [obj EXCEPT ![i] = "gone"] /\ cache' = cache
  BY <1>8 DEF Vanish
<1>9. CASE Reconcile
  BY <1>4, <1>9 DEF Reconcile, Get, ReadRecord, Create, SendMail, RecordMail, WriteStatus,
                    WriteFreed, others
<1>10. ASSUME NEW r \in Request, Handler(r)
       PROVE  cache' = cache /\ (obj' = obj \/ obj' = [obj EXCEPT ![call[r].job] = "gone"])
  BY <1>10 DEF Handler, DeleteJob, GetObject, WriteRecord, DeleteObject, Deleted
<1>11. ASSUME NEW s \in Sweeper, Cleaner(s)
       PROVE  cache' = cache /\ (obj' = obj \/ obj' = [obj EXCEPT ![sweep[s].job] = "gone"])
  BY <1>11 DEF Cleaner, List, FindObject, SkipObject, FreeObject, MailFreed, RecordFreed, Deleted
<1>12. ASSUME NEW k, obj' = [obj EXCEPT ![k] = "gone"], cache' = cache
       PROVE  Stage(obj[j]) <= Stage(obj'[j]) /\ obj'[j] \in Phase /\ cache'[j] = cache[j]
  <2>1. CASE k \in Job
    BY <1>5, <1>12, <2>1
  <2>2. CASE k \notin Job
    BY <1>1, <1>2, <1>12, <2>2 DEF TypeOK
  <2>3. QED
    BY <2>1, <2>2
<1>13. CASE UNCHANGED vars
  BY <1>4, <1>13 DEF vars
<1>14. Stage(obj[j]) \in 0..3 /\ Stage(cache[j]) \in 0..3
  BY <1>1, <1>2
<1>15. CASE cache'[j] = cache[j] /\ Stage(obj[j]) <= Stage(obj'[j]) /\ obj'[j] \in Phase
  BY <1>1, <1>2, <1>3, <1>15
<1>16. CASE /\ Stage(cache[j]) <= Stage(cache'[j]) /\ Stage(cache'[j]) <= Stage(obj[j])
            /\ cache'[j] \in Phase /\ obj'[j] = obj[j]
  BY <1>1, <1>14, <1>16
<1>17. CASE \E i \in Job : Volcano(i) \/ Vanish(i) \/ Watch(i)
  BY <1>5, <1>6, <1>7, <1>8, <1>15, <1>16, <1>17
<1>18. CASE (\E r \in Request : Handler(r)) \/ (\E s \in Sweeper : Cleaner(s))
  BY <1>4, <1>10, <1>11, <1>12, <1>15, <1>18
<1>19. CASE Stop
  <2>1. obj'[j] = obj[j] /\ cache'[j] = obj[j]
    BY <1>19 DEF Stop
  <2>2. QED
    BY <1>1, <1>3, <1>14, <2>1
<1>20. QED
  BY <1>9, <1>13, <1>17, <1>18, <1>19 DEF Next

\* What is gone stays gone, and a job that has ended does not run again.
LEMMA EndIsFinal ==
  ASSUME TypeOK, CacheIsBehind, [Next]_vars, NEW j \in Job
  PROVE  /\ obj[j] = "gone" => obj'[j] = "gone"
         /\ obj[j] \in {"Completed", "gone"} => obj'[j] \in {"Completed", "gone"}
         /\ cache'[j] = "gone" => obj'[j] = "gone"
<1>1. /\ obj[j] \in Phase /\ obj'[j] \in Phase /\ cache'[j] \in Phase
      /\ Stage(obj[j]) <= Stage(obj'[j]) /\ Stage(cache'[j]) <= Stage(obj'[j])
  BY StagesAdvance DEF TypeOK
<1>2. QED
  BY <1>1, StageProperties

-----------------------------------------------------------------------------
(* The steps of the cluster *)

LEMMA ClusterInductive ==
  ASSUME JobsInv, NEW j \in Job, Volcano(j) \/ Vanish(j) \/ Watch(j)
  PROVE  JobsInv'
<1>0. /\ TypeOK /\ TypeOK' /\ CacheIsBehind /\ [Next]_vars
      /\ UNCHANGED server /\ UNCHANGED <<rec, worker, call, sweep, mailing, missed, faults>>
  BY ClusterType DEF JobsInv, Next, Volcano, Vanish, Watch, server
<1>1. \A i \in Job : /\ Stage(cache[i]) \in 0..3 /\ Stage(cache'[i]) \in 0..3
                     /\ Stage(cache[i]) <= Stage(cache'[i])
                     /\ Stage(cache'[i]) <= Stage(obj'[i])
  BY <1>0, StagesAdvance, StageProperties DEF TypeOK
<1>2. \A i \in Job : /\ obj[i] = "gone" => obj'[i] = "gone"
                     /\ obj[i] \in {"Completed", "gone"} => obj'[i] \in {"Completed", "gone"}
  BY <1>0, EndIsFinal
<1>3. queue \subseteq queue' /\ \A i \in Job : cache'[i] = cache[i] \/ i \in queue'
  BY <1>0 DEF Volcano, Vanish, Watch, TypeOK
<1>4. CacheIsBehind'
  BY <1>1 DEF CacheIsBehind
<1>5. WorkerIsBehind'
  <2>1. worker.at # "idle" => worker.job \in Job /\ Stage(worker.seen) \in 0..3
    BY <1>0, StageProperties DEF TypeOK, Worker
  <2>2. QED
    BY <1>0, <1>1, <1>3, <2>1 DEF JobsInv, WorkerIsBehind
<1>6. CallsAreBehind'
  <2> SUFFICES ASSUME NEW r \in Request
               PROVE  /\ call[r].at # "idle" => /\ call[r].job \in Job
                                                /\ rec[call[r].job].status # "none"
                      /\ call[r].at \in {"record", "delete"} =>
                           Stage(call[r].seen) \in 1..Stage(cache'[call[r].job])
    BY <1>0 DEF CallsAreBehind
  <2>1. Stage(call[r].seen) \in 0..3
    BY <1>0, StageProperties DEF TypeOK, Call
  <2>2. QED
    BY <1>1, <2>1 DEF JobsInv, CallsAreBehind
<1>7. RecordsAreBehind'
  BY <1>0, <1>1 DEF JobsInv, RecordsAreBehind
<1>8. WorkerKnows'
  BY <1>0 DEF JobsInv, WorkerKnows
<1>9. FreedByOne' /\ AlertsTell'
  BY <1>0, <1>2 DEF JobsInv, FreedByOne, AlertsTell, InHand, TypeOK
<1>10. HiddenNeverRuns' /\ MailedOnce'
  BY <1>0, <1>2 DEF JobsInv, HiddenNeverRuns, MailedOnce
<1>11. GoneIsPursued'
  <2> SUFFICES ASSUME NEW i \in Job, obj'[i] = "gone", i \notin missed', ~Ended(i)',
                      cache'[i] = "gone", i \notin queue'
               PROVE  worker'.job = i /\ worker'.at \in {"read", "free"}
    BY DEF GoneIsPursued
  <2>1. cache[i] = "gone" /\ i \notin queue
    BY <1>3
  <2>2. obj[i] = "gone"
    <3>1. obj[i] \in Phase /\ cache[i] \in Phase /\ Stage(cache[i]) <= Stage(obj[i])
      BY <1>0 DEF TypeOK, CacheIsBehind
    <3>2. QED
      BY <2>1, <3>1, StageProperties
  <2>3. ~Ended(i)
    BY <1>0 DEF Ended, Found
  <2>4. QED
    BY <1>0, <2>1, <2>2, <2>3 DEF JobsInv, GoneIsPursued
<1>12. QED
  BY <1>0, <1>4, <1>5, <1>6, <1>7, <1>8, <1>9, <1>10, <1>11 DEF JobsInv

-----------------------------------------------------------------------------
(* The steps of the reconciler *)

\* A mail is sent when the alerts do not tell of it, and either they tell of it afterwards
\* or its record is lost.
LEMMA MailInductive ==
  ASSUME JobsInv, SendMail \/ RecordMail
  PROVE  MailedOnce' /\ AlertsTell'
<1> DEFINE j == worker.job
           due == Due(worker.seen, worker.old)
<1>1. /\ j \in Job /\ due \subseteq {"running", "ended"}
      /\ \A k, l \in due : k = l
  BY DEF JobsInv, TypeOK, SendMail, RecordMail, Due
<1>2. \A i \in Job, k \in Mail : mails[i][k] \in Nat /\ lost[i][k] \in Nat
  BY DEF JobsInv, TypeOK
<1>3. \A i \in Job : /\ \A k \in Mail : mails[i][k] <= 1 + lost[i][k]
                     /\ mails[i]["freed"] <= 1
  BY DEF JobsInv, MailedOnce
<1>4. CASE SendMail /\ mails' = mails
  <2>1. UNCHANGED <<alerts, lost>> /\ worker.at = "mail"
    BY <1>4 DEF SendMail
  <2>2. QED
    BY <1>4, <2>1 DEF JobsInv, MailedOnce, AlertsTell, InHand
<1>5. ASSUME SendMail, NEW k \in due, Send(j, k), worker' = [worker EXCEPT !.at = "alert"]
      PROVE  MailedOnce' /\ AlertsTell'
  <2>1. UNCHANGED <<alerts, lost>> /\ worker.at = "mail" /\ k \notin alerts[j]
    BY <1>5 DEF SendMail, Send
  <2>2. mails[j][k] <= lost[j][k]
    BY <1>1, <1>5, <2>1 DEF JobsInv, AlertsTell, InHand
  <2>3. /\ mails'[j][k] = mails[j][k] + 1
        /\ \A i \in Job, l \in Mail : i # j \/ l # k => mails'[i][l] = mails[i][l]
    BY <1>1, <1>5 DEF Send, JobsInv, TypeOK, Mail
  <2>4. MailedOnce'
    BY <1>1, <1>2, <1>3, <2>1, <2>2, <2>3 DEF MailedOnce, Mail
  <2>5. worker'.at = "alert" /\ worker'.job = j /\ k \in Due(worker'.seen, worker'.old)
    BY <1>5 DEF JobsInv, TypeOK, Worker
  <2>6. AlertsTell'
    <3> SUFFICES ASSUME NEW i \in Job, NEW l \in {"running", "ended"}
                 PROVE  l \in alerts[i] \/ InHand(i, l)' \/ mails'[i][l] <= lost[i][l]
      BY <2>1 DEF AlertsTell
    <3>1. CASE i = j /\ l = k
      BY <2>5, <3>1 DEF InHand
    <3>2. CASE i # j \/ l # k
      <4>1. mails'[i][l] = mails[i][l]
        BY <2>3, <3>2 DEF Mail
      <4>2. QED
        BY <2>1, <4>1 DEF JobsInv, AlertsTell, InHand
    <3>3. QED
      BY <3>1, <3>2
  <2>7. QED
    BY <2>4, <2>6
<1>6. ASSUME RecordMail, NEW k \in due, RecordAlert(j, k)
      PROVE  MailedOnce' /\ AlertsTell'
  <2>1. mails' = mails /\ worker.at = "alert"
    BY <1>6 DEF RecordMail
  <2>2. \A i \in Job, l \in {"running", "ended"} : i # j \/ l # k => ~InHand(i, l)
    BY <1>1 DEF InHand
  <2>3. CASE alerts' = [alerts EXCEPT ![j] = @ \cup {k}] /\ UNCHANGED lost
    <3>1. k \in alerts'[j] /\ \A i \in Job : alerts[i] \subseteq alerts'[i]
      BY <1>1, <2>3 DEF JobsInv, TypeOK
    <3>2. QED
      BY <2>1, <2>2, <2>3, <3>1 DEF JobsInv, MailedOnce, AlertsTell
  <2>4. CASE lost' = [lost EXCEPT ![j][k] = @ + 1] /\ UNCHANGED alerts
    <3>1. /\ lost'[j][k] = lost[j][k] + 1
          /\ \A i \in Job, l \in Mail : i # j \/ l # k => lost'[i][l] = lost[i][l]
      BY <1>1, <2>4 DEF JobsInv, TypeOK, Mail
    <3>2. MailedOnce'
      BY <1>1, <1>2, <1>3, <2>1, <3>1 DEF MailedOnce, Mail
    <3>3. mails'[j][k] <= lost'[j][k]
      BY <1>1, <1>2, <1>3, <2>1, <3>1 DEF Mail
    <3>4. AlertsTell'
      BY <1>1, <2>1, <2>2, <2>4, <3>1, <3>3 DEF JobsInv, AlertsTell, Mail
    <3>5. QED
      BY <3>2, <3>4
  <2>5. QED
    BY <1>6, <2>3, <2>4 DEF RecordAlert
<1>7. QED
  BY <1>4, <1>5, <1>6 DEF SendMail, RecordMail

\* The reconciler leaves the objects, the requests and the cleaner alone.  If no
\* record disappears or is removed, it keeps what they know.
LEMMA ReconcileKeeps ==
  ASSUME JobsInv, Reconcile,
         \A j \in Job : rec[j].status # "none" => rec'[j].status # "none",
         \A j \in Job : rec'[j].removed => rec[j].removed
  PROVE  /\ TypeOK' /\ CacheIsBehind' /\ CallsAreBehind' /\ FreedByOne'
         /\ HiddenNeverRuns' /\ MailedOnce' /\ AlertsTell'
<1>1. TypeOK /\ TypeOK' /\ UNCHANGED <<obj, cache, restarts, call, sweep, missed>>
  BY ReconcileType DEF JobsInv, Reconcile, Get, ReadRecord, Create, SendMail, RecordMail,
                       WriteStatus, WriteFreed, others
<1>2. \A j \in Job : mails'[j]["freed"] = mails[j]["freed"]
  <2>1. CASE mails' = mails
    BY <2>1
  <2>2. CASE SendMail
    <3>1. PICK k \in {"running", "ended"} :
            mails' = mails \/ mails' = [mails EXCEPT ![worker.job][k] = @ + 1]
      BY <2>2 DEF SendMail, Send, Due
    <3>2. mails \in [Job -> [Mail -> Nat]] /\ k # "freed" /\ "freed" \in Mail
      BY <1>1 DEF TypeOK, Mail
    <3>3. QED
      BY <3>1, <3>2
  <2>3. QED
    BY <2>1, <2>2 DEF Reconcile, Get, ReadRecord, Create, RecordMail, WriteStatus, WriteFreed
<1>3. CacheIsBehind' /\ CallsAreBehind' /\ HiddenNeverRuns'
  BY <1>1 DEF JobsInv, CacheIsBehind, CallsAreBehind, HiddenNeverRuns
<1>4. FreedByOne'
  BY <1>1, <1>2 DEF JobsInv, FreedByOne, TypeOK
<1>5. MailedOnce' /\ AlertsTell'
  <2>1. CASE UNCHANGED mailing /\ worker.at # "alert"
    BY <2>1 DEF JobsInv, MailedOnce, AlertsTell, InHand
  <2>2. CASE SendMail \/ RecordMail
    BY <2>2, MailInductive
  <2>3. QED
    BY <2>1, <2>2 DEF Reconcile, Get, ReadRecord, Create, WriteStatus, WriteFreed
<1>6. QED
  BY <1>1, <1>3, <1>4, <1>5

LEMMA GetInductive ==
  ASSUME JobsInv, NEW j \in Job, Get(j)
  PROVE  JobsInv'
<1>1. /\ UNCHANGED <<rec, obj, cache, missed>> /\ worker.at = "idle" /\ queue' = queue \ {j}
      /\ worker' = [at |-> "read", job |-> j, seen |-> cache[j], old |-> "none"]
  BY DEF Get, others
<1>2. /\ TypeOK' /\ CacheIsBehind' /\ CallsAreBehind' /\ FreedByOne'
      /\ HiddenNeverRuns' /\ MailedOnce' /\ AlertsTell'
  BY <1>1, ReconcileKeeps DEF Reconcile
<1>3. WorkerIsBehind' /\ RecordsAreBehind' /\ WorkerKnows'
  <2>1. Stage(cache[j]) \in 0..3
    BY StageProperties DEF JobsInv, TypeOK
  <2>2. QED
    BY <1>1, <2>1 DEF JobsInv, WorkerIsBehind, RecordsAreBehind, WorkerKnows
<1>4. GoneIsPursued'
  BY <1>1 DEF JobsInv, GoneIsPursued, Ended, Found
<1>5. QED
  BY <1>2, <1>3, <1>4 DEF JobsInv

\* An idle worker knows nothing.  When it puts the job back, nothing is lost.
LEMMA RequeueKeeps ==
  ASSUME JobsInv, Reconcile, rec' = rec, worker.at # "idle", Requeue(worker.job)
  PROVE  JobsInv'
<1>1. UNCHANGED <<obj, cache, missed>> /\ worker'.at = "idle" /\ queue' = queue \cup {worker.job}
  BY DEF Reconcile, Get, ReadRecord, Create, SendMail, RecordMail, WriteStatus, WriteFreed,
         others, Requeue, IdleWorker
<1>2. /\ TypeOK' /\ CacheIsBehind' /\ CallsAreBehind' /\ FreedByOne'
      /\ HiddenNeverRuns' /\ MailedOnce' /\ AlertsTell'
  BY ReconcileKeeps
<1>3. WorkerIsBehind' /\ RecordsAreBehind' /\ WorkerKnows'
  BY <1>1 DEF JobsInv, WorkerIsBehind, RecordsAreBehind, WorkerKnows
<1>4. GoneIsPursued'
  BY <1>1 DEF JobsInv, GoneIsPursued, Ended, Found
<1>5. QED
  BY <1>2, <1>3, <1>4 DEF JobsInv

LEMMA ReadRecordInductive ==
  ASSUME JobsInv, ReadRecord
  PROVE  JobsInv'
<1> DEFINE j == worker.job
<1>1. UNCHANGED <<rec, obj, cache, missed>> /\ worker.at = "read" /\ j \in Job /\ Reconcile
  BY DEF JobsInv, TypeOK, ReadRecord, others, Reconcile
<1>2. /\ TypeOK' /\ CacheIsBehind' /\ CallsAreBehind' /\ FreedByOne'
      /\ HiddenNeverRuns' /\ MailedOnce' /\ AlertsTell'
  BY <1>1, ReconcileKeeps
<1>3. /\ worker.seen \in Phase /\ Stage(worker.seen) \in 0..3
      /\ Stage(worker.seen) <= Stage(cache[j])
      /\ worker.seen # cache[j] => j \in queue
      /\ rec[j].status = "Completed" => Stage(worker.seen) >= 2
  BY <1>1, StageProperties DEF JobsInv, TypeOK, Worker, WorkerIsBehind, WorkerKnows
<1>4. RecordsAreBehind'
  BY <1>1 DEF JobsInv, RecordsAreBehind
<1>5. CASE Done /\ worker.seen \in Absent /\ (~Found(j) \/ rec[j].status \in Final)
  <2>1. worker'.at = "idle" /\ queue' = queue
    BY <1>5 DEF Done, IdleWorker
  <2>2. WorkerIsBehind' /\ WorkerKnows'
    BY <2>1 DEF WorkerIsBehind, WorkerKnows
  <2>3. GoneIsPursued'
    BY <1>1, <1>5, <2>1 DEF JobsInv, GoneIsPursued, Ended, Found
  <2>4. QED
    BY <1>2, <1>4, <2>2, <2>3 DEF JobsInv
<1>6. CASE Goto("free", "none") /\ Found(j) /\ rec[j].status \notin Final
  <2>1. /\ worker'.at = "free" /\ worker'.job = j /\ worker'.seen = worker.seen
        /\ queue' = queue
    BY <1>6 DEF JobsInv, TypeOK, Goto, Worker
  <2>2. WorkerIsBehind' /\ WorkerKnows'
    BY <1>1, <1>3, <1>6, <2>1 DEF WorkerIsBehind, WorkerKnows, Found, Final
  <2>3. GoneIsPursued'
    BY <1>1, <2>1 DEF JobsInv, GoneIsPursued, Ended, Found
  <2>4. QED
    BY <1>2, <1>4, <2>2, <2>3 DEF JobsInv
<1>7. ASSUME NEW at \in {"create", "mail", "write"}, NEW old \in Status, Goto(at, old),
             worker.seen \notin Absent, at # "create" => Found(j)
      PROVE  JobsInv'
  <2>1. /\ worker'.at = at /\ worker'.job = j /\ worker'.seen = worker.seen
        /\ queue' = queue
    BY <1>7 DEF JobsInv, TypeOK, Goto, Worker
  <2>2. WorkerIsBehind' /\ WorkerKnows'
    BY <1>1, <1>3, <1>7, <2>1 DEF WorkerIsBehind, WorkerKnows, Found
  <2>3. cache[j] = "gone" => j \in queue
    BY <1>3, <1>7 DEF Absent
  <2>4. GoneIsPursued'
    BY <1>1, <2>1, <2>3 DEF JobsInv, GoneIsPursued, Ended, Found
  <2>5. QED
    BY <1>2, <1>4, <2>2, <2>4 DEF JobsInv
<1>8. CASE Requeue(j)
  BY <1>1, <1>8, RequeueKeeps
<1>9. "none" \in Status /\ rec[j].status \in Status
  BY <1>1 DEF JobsInv, TypeOK, Record, Status
<1>10. QED
  BY <1>5, <1>6, <1>7, <1>8, <1>9 DEF ReadRecord

LEMMA CreateInductive ==
  ASSUME JobsInv, Create
  PROVE  JobsInv'
<1> DEFINE j == worker.job
<1>1. UNCHANGED <<obj, cache, missed>> /\ worker.at = "create" /\ j \in Job /\ Reconcile
  BY DEF JobsInv, TypeOK, Create, others, Reconcile
<1>2. CASE Requeue(j) /\ UNCHANGED rec
  BY <1>1, <1>2, RequeueKeeps
<1>3. CASE /\ rec[j].status = "none" /\ Done
           /\ rec' = [rec EXCEPT ![j] = [status |-> worker.seen, removed |-> FALSE]]
  <2>1. /\ worker.seen \in Phase \ Absent /\ Stage(worker.seen) \in 1..3
        /\ Stage(worker.seen) <= Stage(cache[j]) /\ Stage(cache[j]) \in 0..3
        /\ worker.seen # cache[j] => j \in queue
        /\ worker.seen = "Completed" => Stage(worker.seen) >= 2
    BY <1>1, StageProperties
       DEF JobsInv, TypeOK, Worker, WorkerIsBehind, WorkerKnows, Absent
  <2>2. /\ worker'.at = "idle" /\ queue' = queue
        /\ rec'[j].status = worker.seen /\ ~rec'[j].removed
        /\ \A i \in Job \ {j} : rec'[i] = rec[i]
    BY <1>1, <1>3 DEF JobsInv, TypeOK, Done, IdleWorker
  <2>3. worker.seen # "none" /\ worker.seen # "gone"
    BY <2>1 DEF Absent
  <2>4. /\ TypeOK' /\ CacheIsBehind' /\ CallsAreBehind' /\ FreedByOne'
        /\ HiddenNeverRuns' /\ MailedOnce' /\ AlertsTell'
    BY <1>1, <2>2, <2>3, ReconcileKeeps
  <2>5. WorkerIsBehind' /\ WorkerKnows'
    BY <2>2 DEF WorkerIsBehind, WorkerKnows
  <2>6. RecordsAreBehind'
    BY <1>1, <2>1, <2>2 DEF JobsInv, RecordsAreBehind
  <2>7. GoneIsPursued'
    BY <1>1, <2>1, <2>2, <2>3 DEF JobsInv, GoneIsPursued, Ended, Found
  <2>8. QED
    BY <2>4, <2>5, <2>6, <2>7 DEF JobsInv
<1>4. QED
  BY <1>2, <1>3 DEF Create

LEMMA SendMailInductive ==
  ASSUME JobsInv, SendMail \/ RecordMail
  PROVE  JobsInv'
<1>1. /\ UNCHANGED <<obj, cache, rec, queue, missed>> /\ worker.at \in {"mail", "alert"}
      /\ worker.job \in Job /\ Reconcile
  BY DEF JobsInv, TypeOK, SendMail, RecordMail, others, Reconcile
<1>2. /\ TypeOK' /\ CacheIsBehind' /\ CallsAreBehind' /\ FreedByOne'
      /\ HiddenNeverRuns' /\ MailedOnce' /\ AlertsTell'
  BY <1>1, ReconcileKeeps
<1>3. /\ worker'.at \in {"alert", "write"} /\ worker'.job = worker.job
      /\ worker'.seen = worker.seen
  BY DEF JobsInv, TypeOK, SendMail, RecordMail, Worker
<1>4. WorkerIsBehind' /\ RecordsAreBehind' /\ WorkerKnows'
  BY <1>1, <1>3 DEF JobsInv, WorkerIsBehind, RecordsAreBehind, WorkerKnows
<1>5. GoneIsPursued'
  BY <1>1, <1>3 DEF JobsInv, GoneIsPursued, Ended, Found
<1>6. QED
  BY <1>2, <1>4, <1>5 DEF JobsInv

\* A status that is written leaves the mark of the row, and a removed row as it is.
LEMMA SetStatusEffect ==
  ASSUME TypeOK, NEW j \in Job, NEW status \in Status, SetStatus(j, status)
  PROVE  /\ rec'[j].status = IF rec[j].removed THEN rec[j].status ELSE status
         /\ rec'[j].removed = rec[j].removed
         /\ \A i \in Job \ {j} : rec'[i] = rec[i]
BY DEF TypeOK, Record, SetStatus

LEMMA WriteInductive ==
  ASSUME JobsInv, WriteStatus \/ WriteFreed
  PROVE  JobsInv'
<1> DEFINE j == worker.job
           status == IF worker.at = "free" THEN "Freed" ELSE worker.seen
<1>1. /\ UNCHANGED <<obj, cache, missed>> /\ worker.at \in {"write", "free"} /\ j \in Job /\ Reconcile
      /\ rec[j].status # "none"
  BY DEF JobsInv, TypeOK, WriteStatus, WriteFreed, others, Reconcile, WorkerKnows
<1>2. CASE Requeue(j) /\ UNCHANGED rec
  BY <1>1, <1>2, RequeueKeeps
<1>3. CASE SetStatus(j, status) /\ Done
  <2>1. /\ Stage(cache[j]) \in 1..3
        /\ worker.at = "write" => /\ worker.seen \in Phase \ Absent
                                  /\ Stage(worker.seen) \in 1..Stage(cache[j])
                                  /\ worker.seen # cache[j] => j \in queue
                                  /\ worker.seen = "Completed" => Stage(worker.seen) >= 2
    BY <1>1, StageProperties
       DEF JobsInv, TypeOK, Worker, RecordsAreBehind, WorkerIsBehind, WorkerKnows, Absent
  <2>2. status \in Status \ {"none"}
    BY <1>1, <2>1 DEF Status, Phase, Absent
  <2>3. /\ worker'.at = "idle" /\ queue' = queue
        /\ rec'[j].status = IF rec[j].removed THEN rec[j].status ELSE status
        /\ rec'[j].removed = rec[j].removed
        /\ \A i \in Job \ {j} : rec'[i] = rec[i]
    BY <1>1, <1>3, <2>2, SetStatusEffect DEF JobsInv, Done, IdleWorker
  <2>4. /\ TypeOK' /\ CacheIsBehind' /\ CallsAreBehind' /\ FreedByOne'
        /\ HiddenNeverRuns' /\ MailedOnce' /\ AlertsTell'
    BY <1>1, <2>2, <2>3, ReconcileKeeps
  <2>5. WorkerIsBehind' /\ WorkerKnows'
    BY <2>3 DEF WorkerIsBehind, WorkerKnows
  <2>6. status = "Completed" => Stage(cache[j]) >= 2
    BY <1>1, <2>1
  <2>7. RecordsAreBehind'
    BY <1>1, <2>1, <2>3, <2>6 DEF JobsInv, RecordsAreBehind
  <2>8. cache[j] = "gone" /\ j \notin queue => status = "Freed"
    BY <1>1, <2>1 DEF Absent
  <2>9. GoneIsPursued'
    BY <1>1, <2>3, <2>8 DEF JobsInv, GoneIsPursued, Ended, Found, Final
  <2>10. QED
    BY <2>4, <2>5, <2>7, <2>9 DEF JobsInv
<1>4. QED
  BY <1>2, <1>3 DEF WriteStatus, WriteFreed

LEMMA ReconcileInductive ==
  ASSUME JobsInv, Reconcile
  PROVE  JobsInv'
BY GetInductive, ReadRecordInductive, CreateInductive, SendMailInductive, WriteInductive
   DEF Reconcile

-----------------------------------------------------------------------------
(* The steps of the handlers and of the cleaner *)

\* Neither touches the cache, the queue or the worker.  Of the records, a handler marks
\* one as deleted or writes Deleted; no record becomes or stays Completed by that.
LEMMA OthersKeep ==
  ASSUME JobsInv, [Next]_vars, UNCHANGED <<cache, queue, worker, missed>>,
         \A j \in Job : /\ rec'[j].status # "none" <=> rec[j].status # "none"
                        /\ rec'[j].status = "Completed" => rec[j].status = "Completed"
                        /\ Ended(j) => Ended(j)'
  PROVE  CacheIsBehind' /\ WorkerIsBehind' /\ RecordsAreBehind' /\ WorkerKnows' /\ GoneIsPursued'
<1>1. CacheIsBehind' /\ \A j \in Job : cache[j] = "gone" => obj[j] = "gone"
  <2>1. CacheIsBehind'
    BY StagesAdvance DEF JobsInv, CacheIsBehind
  <2>2. \A j \in Job : obj[j] \in Phase /\ cache[j] \in Phase /\ Stage(cache[j]) <= Stage(obj[j])
    BY DEF JobsInv, TypeOK, CacheIsBehind
  <2>3. QED
    BY <2>1, <2>2, StageProperties
<1>2. WorkerIsBehind' /\ RecordsAreBehind'
  BY DEF JobsInv, WorkerIsBehind, RecordsAreBehind
<1>3. WorkerKnows'
  BY DEF JobsInv, TypeOK, WorkerKnows
<1>4. GoneIsPursued'
  BY <1>1 DEF JobsInv, GoneIsPursued
<1>5. QED
  BY <1>1, <1>2, <1>3, <1>4

\* A step of a request moves it alone, and a request that goes on keeps its job.
LEMMA CallMoves ==
  ASSUME TypeOK, NEW r \in Request, Handler(r)
  PROVE  /\ \A q \in Request \ {r} : call'[q] = call[q]
         /\ \/ call'[r].at = "idle"
            \/ call'[r].at = "get" /\ \E j \in Job : Found(j) /\ call'[r].job = j
            \/ /\ call[r].at = "get" /\ call'[r].at = "record" /\ call'[r].job = call[r].job
               /\ call'[r].seen = cache[call[r].job]
            \/ /\ call[r].at = "record" /\ call'[r].at = "delete" /\ call'[r].job = call[r].job
               /\ call'[r].seen = call[r].seen
<1>1. call \in [Request -> Call] /\ NoCall.at = "idle"
  BY DEF TypeOK, NoCall
<1>2. CASE \E j \in Job : DeleteJob(r, j)
  BY <1>1, <1>2 DEF DeleteJob
<1>3. CASE Return(r)
  BY <1>1, <1>3 DEF Return
<1>4. CASE /\ call[r].at = "get"
           /\ call' = [call EXCEPT ![r].at = "record", ![r].seen = cache[call[r].job]]
  <2>1. call[r] \in Call
    BY <1>1
  <2>2. call'[r] = [call[r] EXCEPT !.at = "record", !.seen = cache[call[r].job]]
    BY <1>1, <1>4
  <2>3. call'[r].at = "record" /\ call'[r].seen = cache[call[r].job] /\ call'[r].job = call[r].job
    BY <2>1, <2>2 DEF Call
  <2>4. \A q \in Request \ {r} : call'[q] = call[q]
    BY <1>1, <1>4
  <2>5. QED
    BY <1>4, <2>3, <2>4
<1>5. CASE call[r].at = "record" /\ call' = [call EXCEPT ![r].at = "delete"]
  <2>1. call'[r] = [call[r] EXCEPT !.at = "delete"] /\ call[r] \in Call
    BY <1>1, <1>5
  <2>2. call'[r].at = "delete" /\ call'[r].seen = call[r].seen /\ call'[r].job = call[r].job
    BY <2>1 DEF Call
  <2>3. \A q \in Request \ {r} : call'[q] = call[q]
    BY <1>1, <1>5
  <2>4. QED
    BY <1>5, <2>2, <2>3
<1>6. QED
  BY <1>2, <1>3, <1>4, <1>5 DEF Handler, GetObject, WriteRecord, DeleteObject

LEMMA HandlerInductive ==
  ASSUME JobsInv, NEW r \in Request, Handler(r)
  PROVE  JobsInv'
<1> DEFINE j == call[r].job
<1>1. /\ TypeOK /\ TypeOK' /\ [Next]_vars /\ CacheIsBehind
      /\ UNCHANGED <<cache, restarts, queue, worker, sweep, mailing, missed>>
      /\ call[r].at # "idle" => j \in Job /\ rec[j].status # "none"
  <2>1. call[r].at # "idle" => j \in Job /\ rec[j].status # "none"
    BY DEF JobsInv, CallsAreBehind
  <2>2. QED
    BY <2>1, HandlerType
       DEF JobsInv, Next, Handler, DeleteJob, GetObject, WriteRecord, DeleteObject
<1>2. \A i \in Job : /\ obj[i] = "gone" => obj'[i] = "gone"
                     /\ obj[i] \in {"Completed", "gone"} => obj'[i] \in {"Completed", "gone"}
  BY <1>1, EndIsFinal
<1>3. FreedByOne' /\ MailedOnce' /\ AlertsTell'
  BY <1>1, <1>2 DEF JobsInv, FreedByOne, MailedOnce, AlertsTell, InHand, TypeOK
<1>4. /\ \A i \in Job : /\ rec'[i].status # "none" <=> rec[i].status # "none"
                        /\ rec'[i].status = "Completed" => rec[i].status = "Completed"
                        /\ Ended(i) => Ended(i)'
      /\ HiddenNeverRuns'
  <2>1. CASE rec' = rec
    BY <1>2, <2>1 DEF JobsInv, HiddenNeverRuns, Ended, Found
  <2>2. CASE WriteRecord(r) /\ rec' # rec
    <3>1. /\ call[r].at = "record" /\ obj' = obj /\ j \in Job /\ rec[j].status # "none"
          /\ call[r].seen \in Phase /\ Stage(call[r].seen) \in 1..Stage(cache[j])
          /\ Stage(cache[j]) \in 0..3
      BY <1>1, <2>2, StageProperties DEF JobsInv, TypeOK, Call, CallsAreBehind, WriteRecord
    <3>2. \A i \in Job \ {j} : rec'[i] = rec[i]
      BY <1>1, <2>2, <3>1 DEF TypeOK, WriteRecord, SetStatus
    <3>3. \/ rec'[j].removed /\ rec'[j].status = rec[j].status
          \/ /\ rec'[j].removed = rec[j].removed
             /\ rec'[j].status = IF rec[j].removed THEN rec[j].status ELSE "Deleted"
      BY <1>1, <2>2, <3>1 DEF TypeOK, Record, WriteRecord, SetStatus
    <3>4. \A i \in Job : /\ rec'[i].status # "none" <=> rec[i].status # "none"
                         /\ rec'[i].status = "Completed" => rec[i].status = "Completed"
                         /\ Ended(i) => Ended(i)'
      BY <3>1, <3>2, <3>3 DEF Ended, Found, Final
    <3>5. rec'[j].removed => rec[j].removed \/ call[r].seen \in Absent \cup {"Completed"}
      BY <1>1, <2>2, <3>1 DEF TypeOK, Record, WriteRecord, SetStatus
    <3>6. call[r].seen \in Absent \cup {"Completed"} => obj[j] \in {"Completed", "gone"}
      <4>1. obj[j] \in Phase /\ Stage(obj[j]) \in 0..3 /\ Stage(cache[j]) <= Stage(obj[j])
        BY <1>1, <3>1, StageProperties DEF TypeOK, CacheIsBehind
      <4>2. call[r].seen \in Absent \cup {"Completed"} => Stage(call[r].seen) \in 2..3
        BY <3>1, StageProperties DEF Absent
      <4>3. QED
        BY <3>1, <4>1, <4>2, StageProperties
    <3>7. HiddenNeverRuns'
      BY <3>1, <3>2, <3>5, <3>6 DEF JobsInv, HiddenNeverRuns
    <3>8. QED
      BY <3>4, <3>7
  <2>3. QED
    BY <2>1, <2>2 DEF Handler, DeleteJob, GetObject, DeleteObject
<1>5. CallsAreBehind'
  <2>1. \A i \in Job : rec[i].status # "none" => Stage(cache[i]) \in 1..3
    BY <1>1, StageProperties DEF JobsInv, RecordsAreBehind, TypeOK
  <2>2. call'[r].at # "idle" => call'[r].job \in Job /\ rec[call'[r].job].status # "none"
    BY <1>1, CallMoves DEF Found
  <2>3. call'[r].at \in {"record", "delete"} =>
          Stage(call'[r].seen) \in 1..Stage(cache[call'[r].job])
    BY <1>1, <2>1, CallMoves DEF JobsInv, CallsAreBehind
  <2>4. QED
    BY <1>1, <1>4, <2>2, <2>3, CallMoves DEF JobsInv, CallsAreBehind
<1>6. CacheIsBehind' /\ WorkerIsBehind' /\ RecordsAreBehind' /\ WorkerKnows' /\ GoneIsPursued'
  BY <1>1, <1>4, OthersKeep
<1>7. QED
  BY <1>1, <1>3, <1>4, <1>5, <1>6 DEF JobsInv

\* A run of the cleaner that is about to mail has just freed the job it has in hand.
LEMMA SweepMoves ==
  ASSUME TypeOK, NEW s \in Sweeper, Cleaner(s)
  PROVE  /\ \A t \in Sweeper \ {s} : sweep'[t] = sweep[t]
         /\ \/ sweep'[s].at # "mail"
            \/ /\ Deleted(sweep[s].job) /\ sweep[s].job \in Job
               /\ sweep'[s].at = "mail" /\ sweep'[s].job = sweep[s].job
         /\ \/ UNCHANGED mailing
            \/ MailFreed(s) /\ sweep'[s].at # "mail" /\ UNCHANGED <<alerts, lost>>
            \/ RecordFreed(s) /\ sweep'[s].at # "mail" /\ mails' = mails
<1>1. sweep \in [Sweeper -> Sweep] /\ sweep[s] \in Sweep
  BY DEF TypeOK
<1>2. ASSUME NEW v, v.at # "mail", sweep' = [sweep EXCEPT ![s] = v]
      PROVE  sweep'[s].at # "mail" /\ \A t \in Sweeper \ {s} : sweep'[t] = sweep[t]
  BY <1>1, <1>2
<1>3. Continue(s).at # "mail"
  BY <1>1 DEF Continue, NoSweep, Sweep
<1>4. ASSUME NEW rule \in Rule, List(s, rule)
      PROVE  /\ sweep'[s].at # "mail" /\ \A t \in Sweeper \ {s} : sweep'[t] = sweep[t]
             /\ UNCHANGED mailing
  <2>1. PICK J \in SUBSET Job :
          sweep' = [sweep EXCEPT ![s] = [at |-> "loop", mail |-> rule # "waiting", todo |-> J,
                                         job |-> None]]
    BY <1>4 DEF List
  <2>2. [at |-> "loop", mail |-> rule # "waiting", todo |-> J, job |-> None].at # "mail"
    OBVIOUS
  <2>3. QED
    BY <1>2, <1>4, <2>1, <2>2 DEF List
<1>5. ASSUME NEW j \in Job, FindObject(s, j)
      PROVE  /\ sweep'[s].at # "mail" /\ \A t \in Sweeper \ {s} : sweep'[t] = sweep[t]
             /\ UNCHANGED mailing
  <2>1. sweep'[s] = [sweep[s] EXCEPT !.todo = sweep[s].todo \ {j}, !.at = "delete", !.job = j]
    BY <1>1, <1>5 DEF FindObject
  <2>2. \A t \in Sweeper \ {s} : sweep'[t] = sweep[t]
    BY <1>1, <1>5 DEF FindObject
  <2>3. QED
    BY <1>1, <1>5, <2>1, <2>2 DEF FindObject, Sweep
<1>6. ASSUME NEW j \in Job, SkipObject(s, j)
      PROVE  /\ sweep'[s].at # "mail" /\ \A t \in Sweeper \ {s} : sweep'[t] = sweep[t]
             /\ UNCHANGED mailing
  <2> DEFINE next == IF sweep[s].todo = {j} THEN NoSweep
                     ELSE [sweep[s] EXCEPT !.todo = @ \ {j}]
  <2>1. next.at # "mail"
    BY <1>1, <1>6 DEF SkipObject, NoSweep, Sweep
  <2>2. sweep' = [sweep EXCEPT ![s] = next]
    BY <1>1, <1>6 DEF SkipObject
  <2> HIDE DEF next
  <2>3. QED
    BY <1>2, <1>6, <2>1, <2>2 DEF SkipObject
<1>7. ASSUME sweep' = [sweep EXCEPT ![s] = Continue(s)]
      PROVE  sweep'[s].at # "mail" /\ \A t \in Sweeper \ {s} : sweep'[t] = sweep[t]
  BY <1>2, <1>3, <1>7
<1>8. CASE FreeObject(s) /\ Deleted(sweep[s].job) /\ sweep' = [sweep EXCEPT ![s].at = "mail"]
  <2>1. sweep'[s] = [sweep[s] EXCEPT !.at = "mail"] /\ \A t \in Sweeper \ {s} : sweep'[t] = sweep[t]
    BY <1>1, <1>8
  <2>2. sweep'[s].at = "mail" /\ sweep'[s].job = sweep[s].job
    BY <1>1, <2>1 DEF Sweep
  <2>3. sweep[s].job \in Job
    BY <1>8 DEF TypeOK, FreeObject
  <2>4. UNCHANGED mailing
    BY <1>8 DEF FreeObject
  <2>5. QED
    BY <1>8, <2>1, <2>2, <2>3, <2>4
<1>9. CASE FreeObject(s)
  <2>1. /\ UNCHANGED mailing
        /\ \/ sweep' = [sweep EXCEPT ![s] = Continue(s)]
           \/ Deleted(sweep[s].job) /\ sweep' = [sweep EXCEPT ![s].at = "mail"]
    BY <1>9 DEF FreeObject
  <2>2. QED
    BY <1>7, <1>8, <1>9, <2>1
<1>10. CASE MailFreed(s)
  <2>1. CASE sweep' = [sweep EXCEPT ![s].at = "alert"]
    <3>1. sweep'[s] = [sweep[s] EXCEPT !.at = "alert"] /\ \A t \in Sweeper \ {s} : sweep'[t] = sweep[t]
      BY <1>1, <2>1
    <3>2. sweep'[s].at # "mail"
      BY <1>1, <3>1 DEF Sweep
    <3>3. QED
      BY <1>10, <3>1, <3>2 DEF MailFreed
  <2>2. QED
    BY <1>7, <1>10, <2>1 DEF MailFreed
<1>11. CASE RecordFreed(s)
  BY <1>7, <1>11 DEF RecordFreed
<1>12. QED
  BY <1>4, <1>5, <1>6, <1>9, <1>10, <1>11 DEF Cleaner

LEMMA CleanerInductive ==
  ASSUME JobsInv, NEW s \in Sweeper, Cleaner(s)
  PROVE  JobsInv'
<1> DEFINE j == sweep[s].job
<1>1. /\ TypeOK /\ TypeOK' /\ [Next]_vars /\ CacheIsBehind
      /\ UNCHANGED <<cache, restarts, rec, queue, worker, call, missed>>
  BY CleanerType
     DEF JobsInv, Next, Cleaner, List, FindObject, SkipObject, FreeObject, MailFreed, RecordFreed
<1>2. \A i \in Job : /\ obj[i] = "gone" => obj'[i] = "gone"
                     /\ obj[i] \in {"Completed", "gone"} => obj'[i] \in {"Completed", "gone"}
  BY <1>1, EndIsFinal
<1>3. CallsAreBehind' /\ HiddenNeverRuns'
  BY <1>1, <1>2 DEF JobsInv, CallsAreBehind, HiddenNeverRuns
<1>4. CacheIsBehind' /\ WorkerIsBehind' /\ RecordsAreBehind' /\ WorkerKnows' /\ GoneIsPursued'
  BY <1>1, OthersKeep DEF Ended, Found
<1>5. FreedByOne' /\ MailedOnce' /\ AlertsTell'
  <2>1. CASE UNCHANGED mailing /\ sweep'[s].at # "mail"
    <3>1. MailedOnce' /\ AlertsTell'
      BY <1>1, <2>1 DEF JobsInv, MailedOnce, AlertsTell, InHand
    <3>2. \A t \in Sweeper : sweep'[t].at = "mail" => t # s /\ sweep'[t] = sweep[t] /\ sweep[t].job \in Job
      BY <1>1, <2>1, SweepMoves DEF TypeOK
    <3>3. QED
      BY <1>2, <2>1, <3>1, <3>2 DEF JobsInv, FreedByOne
  <2>2. CASE /\ UNCHANGED mailing /\ Deleted(j) /\ j \in Job
             /\ sweep'[s].at = "mail" /\ sweep'[s].job = j
    <3>1. obj[j] # "gone" /\ obj'[j] = "gone" /\ mails[j]["freed"] \in Nat
      BY <1>1, <2>2 DEF TypeOK, Deleted, Absent, Mail
    <3>2. /\ mails[j]["freed"] = 0
          /\ \A t \in Sweeper : sweep[t].at = "mail" => sweep[t].job # j
      BY <2>2, <3>1 DEF JobsInv, FreedByOne
    <3>3. MailedOnce' /\ AlertsTell'
      BY <1>1, <2>2 DEF JobsInv, MailedOnce, AlertsTell, InHand
    <3>4. \A t \in Sweeper : sweep'[t].at = "mail" =>
            t = s \/ (sweep'[t] = sweep[t] /\ sweep[t].job \in Job \ {j})
      BY <1>1, <3>2, SweepMoves DEF TypeOK
    <3>5. QED
      BY <1>2, <2>2, <3>1, <3>2, <3>3, <3>4 DEF JobsInv, FreedByOne
  <2>3. CASE MailFreed(s) /\ sweep'[s].at # "mail" /\ UNCHANGED <<alerts, lost>>
    <3>1. sweep[s].at = "mail" /\ j \in Job /\ obj' = obj
      BY <1>1, <2>3 DEF TypeOK, MailFreed
    <3>2. mails[j]["freed"] = 0 /\ obj[j] = "gone"
      BY <3>1 DEF JobsInv, FreedByOne
    <3>3. /\ \A i \in Job \ {j} : mails'[i] = mails[i]
          /\ \A k \in Mail \ {"freed"} : mails'[j][k] = mails[j][k]
          /\ mails'[j]["freed"] \in 0..1
      BY <1>1, <2>3, <3>1, <3>2 DEF TypeOK, MailFreed, Mail
    <3>4. \A t \in Sweeper : sweep'[t].at = "mail" =>
            t # s /\ sweep'[t] = sweep[t] /\ sweep[t].job \in Job \ {j}
      BY <1>1, <2>3, <3>1, SweepMoves DEF JobsInv, FreedByOne, TypeOK
    <3>5. FreedByOne'
      BY <3>1, <3>2, <3>3, <3>4 DEF JobsInv, FreedByOne
    <3>6. /\ \A i \in Job : lost[i]["freed"] \in Nat
          /\ \A i \in Job, k \in Mail \ {"freed"} : mails'[i][k] = mails[i][k]
          /\ \A i \in Job : mails'[i]["freed"] = mails[i]["freed"] \/ mails'[i]["freed"] \in 0..1
      BY <1>1, <3>3 DEF TypeOK, Mail
    <3>7. MailedOnce'
      BY <2>3, <3>6 DEF JobsInv, MailedOnce, Mail
    <3>8. AlertsTell'
      BY <1>1, <2>3, <3>6 DEF JobsInv, AlertsTell, InHand, Mail
    <3>9. QED
      BY <3>5, <3>7, <3>8
  <2>4. CASE RecordFreed(s) /\ sweep'[s].at # "mail" /\ mails' = mails
    <3>1. j \in Job /\ obj' = obj
      BY <1>1, <2>4 DEF TypeOK, RecordFreed
    <3>2. /\ \A i \in Job, k \in Mail : lost[i][k] \in Nat /\ mails[i][k] \in Nat
          /\ \A i \in Job, k \in Mail : lost'[i][k] = lost[i][k] \/ lost'[i][k] = lost[i][k] + 1
          /\ \A i \in Job, k \in {"running", "ended"} : lost'[i][k] = lost[i][k]
          /\ \A i \in Job : alerts[i] \subseteq alerts'[i]
      <4>1. /\ alerts \in [Job -> SUBSET Mail] /\ lost \in [Job -> [Mail -> Nat]]
            /\ \A i \in Job, k \in Mail : lost[i][k] \in Nat /\ mails[i][k] \in Nat
        BY <1>1 DEF TypeOK
      <4>2. CASE alerts' = [alerts EXCEPT ![j] = @ \cup {"freed"}] /\ UNCHANGED lost
        BY <3>1, <4>1, <4>2
      <4>3. CASE lost' = [lost EXCEPT ![j]["freed"] = @ + 1] /\ UNCHANGED alerts
        BY <3>1, <4>1, <4>3 DEF Mail
      <4>4. QED
        BY <2>4, <4>1, <4>2, <4>3 DEF RecordFreed, RecordAlert, Mail
    <3>3. MailedOnce'
      BY <2>4, <3>2 DEF JobsInv, MailedOnce
    <3>4. AlertsTell'
      BY <1>1, <2>4, <3>2 DEF JobsInv, AlertsTell, InHand
    <3>5. \A t \in Sweeper : sweep'[t].at = "mail" => t # s /\ sweep'[t] = sweep[t]
      BY <1>1, <2>4, SweepMoves
    <3>6. FreedByOne'
      BY <2>4, <3>1, <3>5 DEF JobsInv, FreedByOne
    <3>7. QED
      BY <3>3, <3>4, <3>6
  <2>5. QED
    BY <1>1, <2>1, <2>2, <2>3, <2>4, SweepMoves
<1>6. QED
  BY <1>1, <1>3, <1>4, <1>5 DEF JobsInv

-----------------------------------------------------------------------------
(* The boot *)

\* Nobody has anything in hand, and a mail that was is counted as lost.
LEMMA StopInductive ==
  ASSUME JobsInv, Stop
  PROVE  JobsInv'
<1>1. /\ TypeOK /\ TypeOK' /\ cache' = obj /\ UNCHANGED <<obj, rec, mails, alerts>>
      /\ worker'.at = "idle"
  BY StopType DEF JobsInv, Stop, IdleWorker
<1>2. /\ \A r \in Request : call'[r].at = "idle"
      /\ \A s \in Sweeper : sweep'[s].at = "idle"
  BY DEF Stop, NoCall, NoSweep
<1>3. \A j \in Job : /\ Stage(cache[j]) \in 0..3 /\ Stage(obj[j]) \in 0..3
                     /\ Stage(cache[j]) <= Stage(obj[j])
  BY <1>1, StageProperties DEF JobsInv, TypeOK, CacheIsBehind
<1>4. CacheIsBehind' /\ WorkerIsBehind' /\ CallsAreBehind' /\ WorkerKnows'
  BY <1>1, <1>2, <1>3 DEF CacheIsBehind, WorkerIsBehind, CallsAreBehind, WorkerKnows
<1>5. RecordsAreBehind'
  BY <1>1, <1>3 DEF JobsInv, RecordsAreBehind
<1>6. FreedByOne' /\ HiddenNeverRuns'
  BY <1>1, <1>2 DEF JobsInv, FreedByOne, HiddenNeverRuns
<1>7. /\ \A j \in Job, k \in Mail : mails[j][k] \in Nat /\ lost[j][k] \in Nat
      /\ \A j \in Job, k \in Mail :
           lost'[j][k] = IF Unrecorded(j, k) THEN lost[j][k] + 1 ELSE lost[j][k]
  BY <1>1 DEF TypeOK, Stop
<1>8. MailedOnce'
  BY <1>1, <1>7 DEF JobsInv, MailedOnce
<1>9. AlertsTell'
  <2> SUFFICES ASSUME NEW j \in Job, NEW k \in {"running", "ended"}, k \notin alerts[j]
               PROVE  mails[j][k] <= lost'[j][k]
    BY <1>1 DEF AlertsTell
  <2>1. k \in Mail
    BY DEF Mail
  <2>2. CASE InHand(j, k)
    <3>1. lost'[j][k] = lost[j][k] + 1 /\ mails[j][k] <= 1 + lost[j][k]
      BY <1>7, <2>1, <2>2 DEF JobsInv, MailedOnce, InHand, Unrecorded
    <3>2. QED
      BY <1>7, <2>1, <3>1
  <2>3. CASE ~InHand(j, k)
    <3>1. mails[j][k] <= lost[j][k]
      BY <2>3 DEF JobsInv, AlertsTell
    <3>2. QED
      BY <1>7, <2>1, <3>1
  <2>4. QED
    BY <2>2, <2>3
<1>10. GoneIsPursued'
  BY <1>1 DEF GoneIsPursued, Stop
<1>11. QED
  BY <1>1, <1>4, <1>5, <1>6, <1>8, <1>9, <1>10 DEF JobsInv

-----------------------------------------------------------------------------
(* Theorems *)

LEMMA Initial == Init => JobsInv
<1> SUFFICES ASSUME Init PROVE JobsInv
  OBVIOUS
<1>1. TypeOK
  BY VolcanoAssumption
     DEF Init, TypeOK, Phase, Record, NoRecord, Status, Worker, IdleWorker, Call, NoCall, Sweep,
         NoSweep, Mail
<1>2. CacheIsBehind /\ WorkerIsBehind /\ CallsAreBehind /\ RecordsAreBehind
  BY StageProperties
     DEF Init, CacheIsBehind, WorkerIsBehind, CallsAreBehind, RecordsAreBehind, IdleWorker,
         NoCall, NoRecord, Phase
<1>3. WorkerKnows /\ FreedByOne /\ AlertsTell
  BY DEF Init, WorkerKnows, FreedByOne, AlertsTell, IdleWorker, NoSweep, Mail
<1>4. HiddenNeverRuns /\ GoneIsPursued
  BY DEF Init, HiddenNeverRuns, GoneIsPursued, NoRecord
<1>5. \A j \in Job, k \in Mail : mails[j][k] = 0 /\ lost[j][k] = 0
  BY DEF Init
<1>6. MailedOnce
  <2>1. "freed" \in Mail
    BY DEF Mail
  <2>2. ASSUME NEW j \in Job PROVE mails[j]["freed"] <= 1
    BY <1>5, <2>1
  <2>3. ASSUME NEW j \in Job, NEW k \in Mail PROVE mails[j][k] <= 1 + lost[j][k]
    <3>1. mails[j][k] = 0 /\ lost[j][k] = 0
      BY <1>5
    <3>2. QED
      BY <3>1
  <2>4. QED
    BY <2>2, <2>3 DEF MailedOnce
<1>7. QED
  BY <1>1, <1>2, <1>3, <1>4, <1>6 DEF JobsInv

LEMMA Inductive == JobsInv /\ [Next]_vars => JobsInv'
<1> SUFFICES ASSUME JobsInv, [Next]_vars PROVE JobsInv'
  OBVIOUS
<1>1. CASE \E j \in Job : Volcano(j) \/ Vanish(j) \/ Watch(j)
  BY <1>1, ClusterInductive
<1>2. CASE Reconcile
  BY <1>2, ReconcileInductive
<1>3. CASE \E r \in Request : Handler(r)
  BY <1>3, HandlerInductive
<1>4. CASE \E s \in Sweeper : Cleaner(s)
  BY <1>4, CleanerInductive
<1>5. CASE Stop
  BY <1>5, StopInductive
<1>6. CASE UNCHANGED vars
  BY <1>6 DEF vars, JobsInv, TypeOK, CacheIsBehind, WorkerIsBehind, CallsAreBehind,
              RecordsAreBehind, WorkerKnows, FreedByOne, AlertsTell, InHand, HiddenNeverRuns,
              MailedOnce, GoneIsPursued, Ended, Found
<1>7. QED
  BY <1>1, <1>2, <1>3, <1>4, <1>5, <1>6 DEF Next

\* The inductive invariant holds of every state that the code reaches.
THEOREM JobsInvariant == Spec => []JobsInv
BY Initial, Inductive, PTL DEF Spec

\* The objects, the records and the actors keep their types.
THEOREM JobsTypeOK == Spec => []TypeOK
<1>1. JobsInv => TypeOK
  BY DEF JobsInv
<1>2. QED
  BY <1>1, JobsInvariant, PTL

\* No handler removes the record of a job that still waits or runs, although it decides
\* by an object of the cache that may be stale when it writes: a stale object is one
\* of an earlier stage, and an end that is seen is final.
THEOREM NoHiddenJobRuns == Spec => []HiddenNeverRuns
<1>1. JobsInv => HiddenNeverRuns
  BY DEF JobsInv
<1>2. QED
  BY <1>1, JobsInvariant, PTL

\* Neither restarts of the job, nor Deleted in a record for a while, nor a status that could
\* not be written repeat a mail, but only a record of the mail before it that was not
\* written, once for each; and the runs of the cleaner that free a job send one in all.
THEOREM NoMailTwice == Spec => []MailedOnce
<1>1. JobsInv => MailedOnce
  BY DEF JobsInv
<1>2. QED
  BY <1>1, JobsInvariant, PTL

\* An object that is gone while its record goes on is always about to reach the
\* reconciler, after any number of errors, unless the server boots when it is gone already:
\* what EveryRecordEnds promises is never lost.
THEOREM EndsArePursued == Spec => []GoneIsPursued
<1>1. JobsInv => GoneIsPursued
  BY DEF JobsInv
<1>2. QED
  BY <1>1, JobsInvariant, PTL

\* The reconciler never shows a job that ended by itself as freed or as running again,
\* whatever it has read before: only a request for deletion changes such a record.
THEOREM JobEndIsKept == Spec => EndedIsKept
<1>1. JobsInv /\ [Next]_vars =>
        \A j \in Job : rec[j].status = "Completed" => rec'[j].status \in {"Completed", "Deleted"}
  <2> SUFFICES ASSUME JobsInv, [Next]_vars, NEW j \in Job, rec[j].status = "Completed"
               PROVE  rec'[j].status \in {"Completed", "Deleted"}
    OBVIOUS
  <2>1. CASE rec' = rec
    BY <2>1
  <2>2. CASE Create
    BY <2>2 DEF JobsInv, TypeOK, Create
  <2>3. CASE WriteStatus \/ WriteFreed
    <3>1. CASE rec' = rec
      BY <3>1
    <3>2. CASE worker.job # j
      BY <2>3, <3>2 DEF JobsInv, TypeOK, WriteStatus, WriteFreed, SetStatus
    <3>3. CASE worker.job = j /\ rec' # rec
      <4>1. /\ worker.at = "write" /\ Stage(worker.seen) >= 2
            /\ worker.seen \in Phase \ Absent
        BY <2>3, <3>3
           DEF JobsInv, TypeOK, Worker, WorkerKnows, WriteStatus, WriteFreed
      <4>2. worker.seen = "Completed"
        BY <4>1, StageProperties DEF Absent
      <4>3. SetStatus(j, "Completed")
        BY <2>3, <3>3, <4>1, <4>2 DEF WriteStatus, WriteFreed
      <4>4. QED
        BY <4>3, SetStatusEffect DEF JobsInv, Status
    <3>4. QED
      BY <3>1, <3>2, <3>3
  <2>4. ASSUME NEW r \in Request, WriteRecord(r)
        PROVE  rec'[j].status \in {"Completed", "Deleted"}
    <3>1. CASE SetStatus(call[r].job, "Deleted")
      BY <3>1 DEF JobsInv, TypeOK, Record, SetStatus
    <3>2. CASE rec' = [rec EXCEPT ![call[r].job].removed = TRUE]
      BY <3>2 DEF JobsInv, TypeOK, Record
    <3>3. QED
      BY <2>1, <2>4, <3>1, <3>2 DEF WriteRecord
  <2>5. QED
    BY <2>1, <2>2, <2>3, <2>4
       DEF Next, vars, Volcano, Vanish, Watch, server, Reconcile, Get, ReadRecord, SendMail,
           RecordMail, Handler, DeleteJob, GetObject, DeleteObject, Cleaner, List, FindObject,
           SkipObject, FreeObject, MailFreed, RecordFreed, Stop
<1>2. QED
  BY <1>1, JobsInvariant, PTL DEF Spec, EndedIsKept

\* The reconciler tries to create a record for every object it sees without one, and no
\* write brings back the row of a job that a user has removed.
THEOREM RemovalIsFinal == Spec => RemovedStaysRemoved
<1>1. JobsInv /\ [Next]_vars => \A j \in Job : rec[j].removed => rec'[j].removed
  <2> SUFFICES ASSUME JobsInv, [Next]_vars, NEW j \in Job, rec[j].removed
               PROVE  rec'[j].removed
    OBVIOUS
  <2>1. rec[j].status # "none"
    BY DEF JobsInv, TypeOK
  <2>2. CASE rec' = rec
    BY <2>2
  <2>3. CASE Create
    BY <2>1, <2>3 DEF JobsInv, TypeOK, Create
  <2>4. ASSUME NEW i, NEW status, SetStatus(i, status)
        PROVE  rec'[j].removed
    BY <2>4 DEF JobsInv, TypeOK, Record, SetStatus
  <2>5. ASSUME NEW r \in Request, WriteRecord(r)
        PROVE  rec'[j].removed
    <3>1. CASE rec' = [rec EXCEPT ![call[r].job].removed = TRUE]
      BY <3>1 DEF JobsInv, TypeOK, Record
    <3>2. QED
      BY <2>2, <2>4, <2>5, <3>1 DEF WriteRecord
  <2>6. QED
    BY <2>2, <2>3, <2>4, <2>5
       DEF Next, vars, Volcano, Vanish, Watch, server, Reconcile, Get, ReadRecord, SendMail,
           WriteStatus, WriteFreed, Handler, DeleteJob, GetObject, DeleteObject, Cleaner, List,
           FindObject, SkipObject, FreeObject, MailFreed, RecordMail, RecordFreed, Stop
<1>2. QED
  BY <1>1, JobsInvariant, PTL DEF Spec, RemovedStaysRemoved
=============================================================================
