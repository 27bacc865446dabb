---------------------------- MODULE VolcanoJobs ----------------------------
(***************************************************************************)
(* The records of Volcano jobs.  A job is an object of the cluster; what   *)
(* users see of it is a row of the database, which the reconciler keeps up *)
(* to date (vcjob-reconciler.go).  Users stop and delete jobs (vcjob.go,   *)
(* the job lists of the frontend), and the cleaner frees jobs that run too *)
(* long or wait in vain (pkg/cleaner).  All of them read the objects from  *)
(* a cache that lags behind the cluster, and mail the owner (pkg/alert).   *)
(* The server may stop at any step and boot again.                         *)
(*                                                                         *)
(* External: Volcano, the API server and its watch.                        *)
(***************************************************************************)
EXTENDS Naturals

CONSTANTS
  Job, Request, Sweeper,
  None,
  MaxRestarts,   \* bound: how often Volcano restarts a job whose pod is evicted
  MaxFaults      \* bound: accesses to the database and deletions that fail, and stops

ASSUME VolcanoAssumption ==
  /\ None \notin Job
  /\ MaxRestarts \in Nat /\ MaxFaults \in Nat

VARIABLES
  obj,       \* obj[j]: the object in the cluster
  cache,     \* cache[j]: what the watch has told of it
  restarts,  \* the restarts of each job so far
  rec,       \* rec[j]: the row of the database
  queue,     \* the work queue of the reconciler
  worker,    \* its only worker
  call,      \* call[r]: a request for deletion
  sweep,     \* sweep[s]: a run of the cleaner
  mails,     \* mails[j][k]: how many mails of kind k were sent about j
  alerts,    \* alerts[j]: the kinds of mail about j that the database has a record of
  lost,      \* lost[j][k]: how many mails of kind k about j could not be recorded
  missed,    \* the jobs whose object vanished before a boot of the server
  faults

mailing == <<mails, alerts, lost>>

vars == <<obj, cache, restarts, rec, queue, worker, call, sweep, mailing, missed, faults>>

-----------------------------------------------------------------------------
(* Values *)

\* Phases that nothing here tells apart are one: Pending is also a restarting job, Running
\* also one that is about to end, Completed also Failed, Aborted and Terminated.
Phase  == {"none", "Pending", "Running", "Completed", "gone"}
Absent == {"none", "gone"}
Status == {"none", "Pending", "Running", "Completed", "Deleted", "Freed"}
Final  == {"Completed", "Deleted", "Freed"}
Mail   == {"running", "ended", "freed"}

\* gorm deletes a row by a mark, and the unique index on the name still knows it
Record   == [status : Status, removed : BOOLEAN]
NoRecord == [status |-> "none", removed |-> FALSE]
Found(j) == rec[j].status # "none" /\ ~rec[j].removed

Worker     == [at : {"idle", "read", "create", "mail", "alert", "write", "free"},
               job : Job \cup {None}, seen : Phase, old : Status]
IdleWorker == [at |-> "idle", job |-> None, seen |-> "none", old |-> "none"]

Call   == [at : {"idle", "get", "record", "delete"}, job : Job \cup {None}, seen : Phase]
NoCall == [at |-> "idle", job |-> None, seen |-> "none"]

\* Rules of the cleaner: what runs too long, what has pods that leave their GPUs idle, and
\* notebooks that no node takes.  The last rule does not mail the owner (mail is FALSE).
Rule    == {"long", "idle", "waiting"}
Sweep   == [at : {"idle", "loop", "delete", "mail", "alert"}, mail : BOOLEAN, todo : SUBSET Job,
            job : Job \cup {None}]
NoSweep == [at |-> "idle", mail |-> FALSE, todo |-> {}, job |-> None]

Init ==
  /\ obj = [j \in Job |-> "none"] /\ cache = obj
  /\ restarts = [j \in Job |-> 0]
  /\ rec = [j \in Job |-> NoRecord]
  /\ queue = {}
  /\ worker = IdleWorker
  /\ call = [r \in Request |-> NoCall]
  /\ sweep = [s \in Sweeper |-> NoSweep]
  /\ mails = [j \in Job |-> [k \in Mail |-> 0]] /\ lost = mails
  /\ alerts = [j \in Job |-> {}]
  /\ missed = {}
  /\ faults = 0

Fault == faults < MaxFaults /\ faults' = faults + 1
Works == UNCHANGED faults

-----------------------------------------------------------------------------
(* The cluster *)

server == <<rec, worker, call, sweep, mailing, missed, faults>>

\* the phases that Volcano gives to a job
Volcano(j) ==
  /\ \/ /\ obj[j] = "none" /\ obj' = [obj EXCEPT ![j] = "Pending"] /\ UNCHANGED restarts
     \/ /\ obj[j] = "Pending" /\ obj' = [obj EXCEPT ![j] = "Running"] /\ UNCHANGED restarts
     \/ /\ obj[j] = "Running" /\ obj' = [obj EXCEPT ![j] = "Completed"] /\ UNCHANGED restarts
     \/ /\ obj[j] = "Running" /\ restarts[j] < MaxRestarts
        /\ obj' = [obj EXCEPT ![j] = "Pending"]
        /\ restarts' = [restarts EXCEPT ![j] = @ + 1]
  /\ UNCHANGED <<cache, queue, server>>

\* the object of a job that has ended expires, or anyone deletes an object
Vanish(j) ==
  /\ obj[j] \notin Absent /\ obj' = [obj EXCEPT ![j] = "gone"]
  /\ UNCHANGED <<cache, restarts, queue, server>>

\* the watch updates the cache and queues the job
Watch(j) ==
  /\ cache[j] # obj[j] /\ cache' = [cache EXCEPT ![j] = obj[j]]
  /\ queue' = queue \cup {j}
  /\ UNCHANGED <<obj, restarts, server>>

-----------------------------------------------------------------------------
(* The reconciler *)

others == <<obj, cache, restarts, call, sweep, missed>>

\* An error puts the job back.
Requeue(j) == worker' = IdleWorker /\ queue' = queue \cup {j}
Done       == worker' = IdleWorker /\ UNCHANGED queue

Get(j) ==
  /\ worker.at = "idle" /\ j \in queue
  /\ queue' = queue \ {j}
  /\ worker' = [at |-> "read", job |-> j, seen |-> cache[j], old |-> "none"]
  /\ UNCHANGED <<rec, mailing, faults, others>>

\* which mail a phase calls for, when the record does not have it yet
Due(phase, old) == IF phase = old THEN {} ELSE CASE phase = "Running"   -> {"running"}
                                                 [] phase = "Completed" -> {"ended"}
                                                 [] OTHER               -> {}

Goto(at, old) == worker' = [worker EXCEPT !.at = at, !.old = old] /\ UNCHANGED queue

\* mutant: every record whose object is gone is marked as freed
ReadEveryRecord ==
  LET j == worker.job IN
  /\ worker.at = "read"
  /\ \/ worker.seen \in Absent /\ ~Found(j) /\ Works /\ Done
     \/ worker.seen \in Absent /\ Found(j) /\ Works /\ Goto("free", "none")
     \/ worker.seen \notin Absent /\ ~Found(j) /\ Works /\ Goto("create", "none")
     \/ /\ worker.seen \notin Absent /\ Found(j)
        /\ Works /\ Goto(IF Due(worker.seen, rec[j].status) = {} THEN "write" ELSE "mail",
                         rec[j].status)
     \/ Fault /\ Requeue(j)
  /\ UNCHANGED <<rec, mailing, others>>

\* A record whose object is gone and that has not ended was freed.
ReadRecord ==
  LET j == worker.job IN
  /\ worker.at = "read"
  /\ \/ /\ worker.seen \in Absent /\ (~Found(j) \/ rec[j].status \in Final)
        /\ Works /\ Done
     \/ /\ worker.seen \in Absent /\ Found(j) /\ rec[j].status \notin Final
        /\ Works /\ Goto("free", "none")
     \/ /\ worker.seen \notin Absent /\ ~Found(j)
        /\ Works /\ Goto("create", "none")
     \/ /\ worker.seen \notin Absent /\ Found(j)
        /\ Works /\ Goto(IF Due(worker.seen, rec[j].status) = {} THEN "write" ELSE "mail",
                         rec[j].status)
     \/ Fault /\ Requeue(j)
  /\ UNCHANGED <<rec, mailing, others>>

\* mutant: the name is not unique among the rows that are marked as deleted
CreateAgain ==
  /\ worker.at = "create" /\ Works /\ Done
  /\ rec' = [rec EXCEPT ![worker.job] = [status |-> worker.seen, removed |-> FALSE]]
  /\ UNCHANGED <<mailing, others>>

\* The unique index refuses a second row for a job whose record was removed.
Create ==
  LET j == worker.job IN
  /\ worker.at = "create"
  /\ \/ /\ rec[j].status = "none" /\ Works /\ Done
        /\ rec' = [rec EXCEPT ![j] = [status |-> worker.seen, removed |-> FALSE]]
     \/ rec[j].status # "none" /\ Works /\ Requeue(j) /\ UNCHANGED rec
     \/ Fault /\ Requeue(j) /\ UNCHANGED rec
  /\ UNCHANGED <<mailing, others>>

\* mutant: the alerts on record are not looked up
SendAgain(j, k) == mails' = [mails EXCEPT ![j][k] = @ + 1]

\* sendJobNotification: the mail, unless one of its type is on record (the reminder of an
\* idle job, which may be repeated, is left out) ...
Send(j, k) == k \notin alerts[j] /\ mails' = [mails EXCEPT ![j][k] = @ + 1]

\* ... and then its record, without which the next one is not held back.  A mail that was
\* delivered although the mail server reported an error has none either.
RecordAlert(j, k) ==
  \/ Works /\ alerts' = [alerts EXCEPT ![j] = @ \cup {k}] /\ UNCHANGED lost
  \/ Fault /\ lost' = [lost EXCEPT ![j][k] = @ + 1] /\ UNCHANGED alerts

\* No mail is sent when the alerts are disabled, the job was queued for less than ten
\* minutes, or the lookup or the mail server fails; the reconciler only logs the error.
SendMail ==
  /\ worker.at = "mail"
  /\ \/ /\ \E k \in Due(worker.seen, worker.old) : Send(worker.job, k)
        /\ worker' = [worker EXCEPT !.at = "alert"]
     \/ UNCHANGED mails /\ worker' = [worker EXCEPT !.at = "write"]
  /\ UNCHANGED <<rec, queue, alerts, lost, faults, others>>

RecordMail ==
  /\ worker.at = "alert"
  /\ \E k \in Due(worker.seen, worker.old) : RecordAlert(worker.job, k)
  /\ worker' = [worker EXCEPT !.at = "write"]
  /\ UNCHANGED <<rec, queue, mails, others>>

\* An update of a row that is marked as deleted changes nothing.
SetStatus(j, status) == rec' = [rec EXCEPT ![j].status = IF rec[j].removed THEN @ ELSE status]

WriteStatus ==
  /\ worker.at = "write"
  /\ \/ SetStatus(worker.job, worker.seen) /\ Works /\ Done
     \/ Fault /\ Requeue(worker.job) /\ UNCHANGED rec
  /\ UNCHANGED <<mailing, others>>

\* mutant: an error ends the reconciliation
WriteFreedOnce ==
  /\ worker.at = "free"
  /\ \/ SetStatus(worker.job, "Freed") /\ Works
     \/ Fault /\ UNCHANGED rec
  /\ Done
  /\ UNCHANGED <<mailing, others>>

WriteFreed ==
  /\ worker.at = "free"
  /\ \/ SetStatus(worker.job, "Freed") /\ Works /\ Done
     \/ Fault /\ Requeue(worker.job) /\ UNCHANGED rec
  /\ UNCHANGED <<mailing, others>>

-----------------------------------------------------------------------------
(* Requests for deletion: stop and delete in the lists of jobs *)

DeleteJob(r, j) ==
  /\ call[r].at = "idle" /\ Found(j)
  /\ call' = [call EXCEPT ![r] = [at |-> "get", job |-> j, seen |-> "none"]]
  /\ UNCHANGED <<obj, cache, restarts, rec, queue, worker, sweep, mailing, missed, faults>>

Return(r) == call' = [call EXCEPT ![r] = NoCall]

GetObject(r) ==
  /\ call[r].at = "get"
  /\ \/ call' = [call EXCEPT ![r].at = "record", ![r].seen = cache[call[r].job]]
     \/ Return(r)
  /\ UNCHANGED <<obj, cache, restarts, rec, queue, worker, sweep, mailing, missed, faults>>

\* mutant: a job that waits for its pods has nothing to record either
WriteRecordOfWaiting(r) ==
  LET j == call[r].job IN
  /\ call[r].at = "record"
  /\ \/ /\ Works
        /\ IF call[r].seen \in Absent \cup {"Completed", "Pending"}
           THEN rec' = [rec EXCEPT ![j].removed = TRUE]
           ELSE SetStatus(j, "Deleted")
        /\ IF call[r].seen \in Absent THEN Return(r) ELSE call' = [call EXCEPT ![r].at = "delete"]
     \/ Fault /\ Return(r) /\ UNCHANGED rec
  /\ UNCHANGED <<obj, cache, restarts, queue, worker, sweep, mailing, missed>>

\* The record of a job that is gone or has ended is removed, another one says Deleted.
WriteRecord(r) ==
  LET j == call[r].job IN
  /\ call[r].at = "record"
  /\ \/ /\ Works
        /\ IF call[r].seen \in Absent \cup {"Completed"}
           THEN rec' = [rec EXCEPT ![j].removed = TRUE]
           ELSE SetStatus(j, "Deleted")
        /\ IF call[r].seen \in Absent THEN Return(r) ELSE call' = [call EXCEPT ![r].at = "delete"]
     \/ Fault /\ Return(r) /\ UNCHANGED rec
  /\ UNCHANGED <<obj, cache, restarts, queue, worker, sweep, mailing, missed>>

\* Delete of the API server: the first one wins, the others are told that nothing is found
Deleted(j) == obj[j] \notin Absent /\ obj' = [obj EXCEPT ![j] = "gone"]

DeleteObject(r) ==
  /\ call[r].at = "delete" /\ Return(r)
  /\ \/ Works /\ Deleted(call[r].job)
     \/ Works /\ obj[call[r].job] \in Absent /\ UNCHANGED obj
     \/ Fault /\ UNCHANGED obj
  /\ UNCHANGED <<cache, restarts, rec, queue, worker, sweep, mailing, missed>>

-----------------------------------------------------------------------------
(* The cleaner *)

\* A run of the cleaner ends with its list.
Continue(s) == IF sweep[s].todo = {} THEN NoSweep ELSE [sweep[s] EXCEPT !.at = "loop", !.job = None]

\* The records that a rule may be about: the first and the last go by the status, the
\* second by the pods.  Any of them may be too young, busy or locked; when a query fails
\* nothing is freed, and a run that finds nothing changes nothing.
List(s, rule) ==
  LET About(j) == CASE rule = "long"    -> rec[j].status = "Running"
                    [] rule = "idle"    -> TRUE
                    [] rule = "waiting" -> rec[j].status = "Pending"
  IN
  /\ sweep[s].at = "idle"
  /\ \E J \in SUBSET {j \in Job : Found(j) /\ About(j)} \ {{}} :
       sweep' = [sweep EXCEPT ![s] = [at |-> "loop", mail |-> rule # "waiting", todo |-> J,
                                      job |-> None]]
  /\ UNCHANGED <<obj, cache, restarts, rec, queue, worker, call, mailing, missed, faults>>

\* mutant: the error of Get is logged only
FindNothing(s, j) ==
  /\ sweep[s].at = "loop" /\ j \in sweep[s].todo
  /\ sweep' = [sweep EXCEPT ![s].todo = @ \ {j}, ![s].at = "delete",
                            ![s].job = IF cache[j] \in Absent THEN None ELSE j]
  /\ UNCHANGED <<obj, cache, restarts, rec, queue, worker, call, mailing, missed, faults>>

\* the object in the cache
FindObject(s, j) ==
  /\ sweep[s].at = "loop" /\ j \in sweep[s].todo /\ cache[j] \notin Absent
  /\ sweep' = [sweep EXCEPT ![s].todo = @ \ {j}, ![s].at = "delete", ![s].job = j]
  /\ UNCHANGED <<obj, cache, restarts, rec, queue, worker, call, mailing, missed, faults>>

\* one that is not found is skipped
SkipObject(s, j) ==
  /\ sweep[s].at = "loop" /\ j \in sweep[s].todo /\ cache[j] \in Absent
  /\ sweep' = [sweep EXCEPT ![s] = IF @.todo = {j} THEN NoSweep
                                   ELSE [sweep[s] EXCEPT !.todo = @ \ {j}]]
  /\ UNCHANGED <<obj, cache, restarts, rec, queue, worker, call, mailing, missed, faults>>

\* Only the run that has deleted the job mails its owner; the waiting notebook has none.
FreeObject(s) ==
  LET j == sweep[s].job
      continued == [sweep EXCEPT ![s] = Continue(s)]
  IN
  /\ sweep[s].at = "delete"
  /\ \/ /\ Works /\ Deleted(j)
        /\ sweep' = IF sweep[s].mail THEN [sweep EXCEPT ![s].at = "mail"] ELSE continued
     \/ Works /\ obj[j] \in Absent /\ UNCHANGED obj /\ sweep' = continued
     \/ Fault /\ UNCHANGED obj /\ sweep' = continued
  /\ UNCHANGED <<cache, restarts, rec, queue, worker, call, mailing, missed>>

\* The rules have alerts of different types, so that the record of one does not hold back
\* the mail of the other; an error is logged, and the loop goes on.
MailFreed(s) ==
  /\ sweep[s].at = "mail"
  /\ \/ /\ mails' = [mails EXCEPT ![sweep[s].job]["freed"] = @ + 1]
        /\ sweep' = [sweep EXCEPT ![s].at = "alert"]
     \/ UNCHANGED mails /\ sweep' = [sweep EXCEPT ![s] = Continue(s)]
  /\ UNCHANGED <<obj, cache, restarts, rec, queue, worker, call, alerts, lost, missed, faults>>

RecordFreed(s) ==
  /\ sweep[s].at = "alert"
  /\ RecordAlert(sweep[s].job, "freed")
  /\ sweep' = [sweep EXCEPT ![s] = Continue(s)]
  /\ UNCHANGED <<obj, cache, restarts, rec, queue, worker, call, mails, missed>>

-----------------------------------------------------------------------------
(* The server stops, and boots: what its requests, its worker and its cleaner had in hand  *)
(* is dropped, and the cache and the queue are filled with the objects that are there.     *)

Unrecorded(j, k) ==
  \/ worker.at = "alert" /\ worker.job = j /\ k \in Due(worker.seen, worker.old)
  \/ \E s \in Sweeper : sweep[s].at = "alert" /\ sweep[s].job = j /\ k = "freed"

Stop ==
  /\ Fault
  /\ worker' = IdleWorker
  /\ call' = [r \in Request |-> NoCall] /\ sweep' = [s \in Sweeper |-> NoSweep]
  /\ cache' = obj /\ queue' = {j \in Job : obj[j] \notin Absent}
  /\ missed' = missed \cup {j \in Job : obj[j] = "gone"}
  /\ lost' = [j \in Job |-> [k \in Mail |-> IF Unrecorded(j, k) THEN lost[j][k] + 1
                                            ELSE lost[j][k]]]
  /\ UNCHANGED <<obj, restarts, rec, mails, alerts>>

-----------------------------------------------------------------------------
Reconcile == \/ \E j \in Job : Get(j)
             \/ ReadRecord \/ Create \/ SendMail \/ RecordMail \/ WriteStatus \/ WriteFreed

Handler(r) == \/ \E j \in Job : DeleteJob(r, j)
              \/ GetObject(r) \/ WriteRecord(r) \/ DeleteObject(r)

Cleaner(s) == \/ \E rule \in Rule : List(s, rule)
              \/ \E j \in Job : FindObject(s, j) \/ SkipObject(s, j)
              \/ FreeObject(s) \/ MailFreed(s) \/ RecordFreed(s)

Next == \/ \E j \in Job : Volcano(j) \/ Vanish(j) \/ Watch(j)
        \/ Reconcile
        \/ \E r \in Request : Handler(r)
        \/ \E s \in Sweeper : Cleaner(s)
        \/ Stop

\* The watch and the worker keep going; users, the cleaner and Volcano need not.
Fairness == /\ \A j \in Job : WF_vars(Watch(j))
            /\ \A j \in Job : SF_vars(Get(j))
            /\ WF_vars(\/ ReadRecord \/ Create \/ SendMail \/ RecordMail
                        \/ WriteStatus \/ WriteFreed)

Spec == Init /\ [][Next]_vars /\ Fairness

-----------------------------------------------------------------------------
(* Properties *)

\* Type invariant of the objects, the records and the actors that share them.
TypeOK ==
  /\ obj \in [Job -> Phase] /\ cache \in [Job -> Phase]
  /\ restarts \in [Job -> 0..MaxRestarts]
  /\ rec \in [Job -> Record] /\ \A j \in Job : rec[j].removed => rec[j].status # "none"
  /\ queue \subseteq Job
  /\ worker \in Worker /\ (worker.at # "idle" => worker.job \in Job)
  /\ call \in [Request -> Call] /\ sweep \in [Sweeper -> Sweep]
  /\ \A s \in Sweeper : sweep[s].at \in {"delete", "mail", "alert"} => sweep[s].job \in Job
  /\ mails \in [Job -> [Mail -> Nat]] /\ lost \in [Job -> [Mail -> Nat]]
  /\ alerts \in [Job -> SUBSET Mail] /\ missed \subseteq Job
  /\ faults \in 0..MaxFaults

\* No job runs that no list shows: a record is removed only when the job has ended,
\* although the handler looks at an object of the cache, and a write or a call may fail.
HiddenNeverRuns ==
  \A j \in Job : rec[j].removed => obj[j] \in {"Completed", "gone"}

\* A mail is repeated only when the record of the one before it was not written: not when
\* the job is restarted, its record says Deleted for a while, or the status could not be
\* written.  Of the runs of the cleaner that free a job only one mails its owner.
MailedOnce ==
  \A j \in Job : /\ \A k \in Mail : mails[j][k] <= 1 + lost[j][k]
                 /\ mails[j]["freed"] <= 1

\* A job that has ended by itself is never shown as freed, or as running again; at most
\* a user's request that crossed the end says Deleted.
EndedIsKept ==
  [][\A j \in Job : rec[j].status = "Completed" => rec'[j].status \in {"Completed", "Deleted"}]_vars

\* A record that was removed does not come back, although the object may live on and
\* the reconciler creates a record for every object it sees.
RemovedStaysRemoved == [][\A j \in Job : rec[j].removed => rec'[j].removed]_vars

Ended(j) == ~Found(j) \/ rec[j].status \in Final

\* The end of an object is never lost on the way to the record: until the record has
\* ended, the watch has yet to tell, the job is queued, or the worker has it in hand,
\* whatever fails and whatever stale phase the worker or a request still writes.  A boot
\* misses the objects that are gone by then.
GoneIsPursued ==
  \A j \in Job : obj[j] = "gone" /\ j \notin missed =>
    \/ Ended(j) \/ cache[j] # "gone" \/ j \in queue
    \/ worker.job = j /\ worker.at \in {"read", "free"}

\* Once the object of a job is gone its record ends, and does not wake up again, unless a
\* boot missed it: no stale copy, failed write or crossing request leaves it Running or
\* Pending.
EveryRecordEnds == \A j \in Job : <>[](obj[j] = "gone" => Ended(j) \/ j \in missed)
=============================================================================
