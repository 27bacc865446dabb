--------------------------- MODULE TaskController ---------------------------
(***************************************************************************)
(* The EMIAS task controller (pkg/aitaskctl) with everything that talks to *)
(* it: the HTTP handlers that submit and delete AI tasks, the AIJob        *)
(* reconciler that reports phases, the table of tasks in the database, and *)
(* the AIJobs in the cluster.                                              *)
(*                                                                         *)
(* Four kinds of goroutines share the state: one scheduler, one watcher of *)
(* job phases, one handler per HTTP request, and the cluster.  A step is   *)
(* one access to the database, the cluster, a queue or a quota; every such *)
(* access is atomic in the code (a row, an object, a mutex) and nothing is *)
(* locked between two of them.                                             *)
(*                                                                         *)
(* Profiling is off (c.profiler = nil).                                    *)
(***************************************************************************)
EXTENDS FifoQueue, Quota

CONSTANTS
  Founding,     \* the accounts that exist when the server boots
  NoTask,       \* no id
  Jupyter,      \* the tasks of type jupyter, which also need an ingress
  Deletable,    \* the tasks a user may delete
  MaxDay,       \* calendar days; the name of an AIJob contains the date
  MaxEvents,    \* bound: phase reports that wait for the watcher
  Budget        \* Budget[f]: bound: how often fault f may happen

Fault == {"db", "api", "ingress", "resync", "restart", "race"}

ASSUME ControllerAssumption ==
  /\ Founding \subseteq Account
  /\ NoTask \notin Task
  /\ Jupyter \subseteq Task
  /\ Deletable \subseteq Task
  /\ MaxDay \in Nat \ {0}
  /\ MaxEvents \in Nat
  /\ Budget \in [Fault -> Nat]

VARIABLES
  \* the database
  accounts,     \* rows of the table of accounts
  row,          \* row[t]: the row of t in the table of AI tasks
  \* the cluster
  job,          \* job[t][d]: the AIJob created for t on day d
  today,
  events,       \* phase reports of the informer, oldest first
  \* the memory of the server
  userQueues,   \* accounts that have a queue in taskQueue.userQueues
  queue,        \* queue[q]: the keys of the user queue q in insertion order
  quotaInfos,   \* accounts that have an entry in quotaInfos
  used,         \* used[a]: UsedTasks
  hardUsed,     \* hardUsed[a]: HardUsed
  \* the goroutines
  submitting,   \* tasks whose create handler has not yet notified
  deletion,     \* deletion[t]: the delete handler that works on t
  step,         \* the scheduler: its next step,
  todo, walk,   \* the user queues it has yet to list and the list it is making,
  cands, cur,   \* how often each task stands among its candidates, and the one in
                \* work with the day in the name of its AIJob
  watch,        \* the watcher: its next step and the report in work
  spent         \* spent[f]: how often fault f has happened

database == <<accounts, row>>
cluster  == <<job, today, events>>
memory   == <<userQueues, queue, quotaInfos, used, hardUsed>>
schedule == <<step, todo, walk, cands, cur>>
vars == <<database, cluster, memory, submitting, deletion, schedule, watch, spent>>

-----------------------------------------------------------------------------
(* Values *)

Status    == {"Absent", "Queueing", "Created", "Running", "Preempted", "Succeeded", "Failed"}
\* mutant: a preempted AIJob counts as completed
CompletedOrPreempted == {"Succeeded", "Failed", "Preempted"}

Completed == {"Succeeded", "Failed"}
Occupying == {"Created", "Running", "Preempted"}
Notified  == {"Running", "Preempted", "Succeeded", "Failed"}
Phase     == {"None", "Pending"} \cup Notified
Live      == {"Pending", "Running", "Preempted"}
Day       == 1..MaxDay

Row    == [status : Status, jobName : 0..MaxDay, deleted : BOOLEAN, createdAt : Nat]
Report == [task : Task, day : Day, phase : Notified]
NoRow  == [status |-> "Absent", jobName |-> 0, deleted |-> FALSE, createdAt |-> 0]
NoCur  == [task |-> NoTask, day |-> 0]
Idle   == [at |-> "idle", task |-> NoTask, phase |-> "None"]

\* A user queue belongs to an account and an SLO.
UserQueue  == Account \X {"high", "low"}
QueueOf(t) == <<AccountOf[t], Slo[t]>>
Queued     == UNION {ToSet(queue[q]) : q \in UserQueue}

\* The list under way: the queue, the cells its range goes over, those it has read,
\* the cells behind the end of the queue, which deletions have left, and the usage
\* in the copy of the quota.
NoQueue == <<NoTask, "none">>
Walk    == [of : UserQueue \cup {NoQueue}, len : Nat, read : Nat, stale : Seq(Task), copy : Int]
NoWalk  == [of |-> NoQueue, len |-> 0, read |-> 0, stale |-> <<>>, copy |-> 0]
NoCands == [t \in Task |-> 0]
Candidates == {t \in Task : cands[t] > 0}

\* CheckHardQuotaExceed, negated, on the usage the controller keeps
Fits(t) == FitsInto(t, hardUsed[AccountOf[t]])

\* The rows that ListByUserAndStatuses finds
Listed(a, statuses) ==
  {t \in Task : AccountOf[t] = a /\ row[t].status \in statuses /\ ~row[t].deleted}

Fails(f) == spent[f] < Budget[f] /\ spent' = [spent EXCEPT ![f] = @ + 1]

-----------------------------------------------------------------------------
(* The task queue and the quotas *)

\* A new key takes the first cell behind the end of the queue.
AddTask(t) ==
  LET q   == QueueOf(t)
      new == AccountOf[t] \in userQueues /\ ~Contains(queue[q], t)
  IN
  /\ queue' = IF new THEN [queue EXCEPT ![q] = Enqueue(@, t)] ELSE queue
  /\ walk' = IF new /\ walk.of = q /\ walk.stale # <<>>
             THEN [walk EXCEPT !.stale = Tail(@)] ELSE walk

RemoveTask(t) == queue' = [queue EXCEPT ![QueueOf(t)] = Withdraw(@, t)]

\* QuotaInfo.AddTask: nothing is counted twice
Reserve(t) ==
  LET a == AccountOf[t] IN
  /\ used' = [used EXCEPT ![a] = @ \cup {t}]
  /\ hardUsed' = [hardUsed EXCEPT ![a] =
       IF t \notin used[a] /\ Slo[t] = "high" THEN @ + Request[t] ELSE @]
  /\ UNCHANGED quotaInfos

\* mutant: the amount is lowered whether or not the task was counted
TakeBackUnchecked(t, tasks, amount) ==
  LET a == AccountOf[t] IN
  /\ quotaInfos' = quotaInfos \cup {a}
  /\ used' = [used EXCEPT ![a] = tasks \ {t}]
  /\ hardUsed' = [hardUsed EXCEPT ![a] = IF Slo[t] = "high" THEN amount - Request[t] ELSE amount]

\* mutant: the task stays in UsedTasks
TakeBackHalf(t, tasks, amount) ==
  LET a == AccountOf[t] IN
  /\ quotaInfos' = quotaInfos \cup {a}
  /\ used' = [used EXCEPT ![a] = tasks]
  /\ hardUsed' = [hardUsed EXCEPT ![a] =
       IF t \in tasks /\ Slo[t] = "high" THEN amount - Request[t] ELSE amount]

\* QuotaInfo.DeleteTask on an account that has the tasks and uses the amount: only
\* what was counted is taken back
TakeBack(t, tasks, amount) ==
  LET a == AccountOf[t] IN
  /\ quotaInfos' = quotaInfos \cup {a}
  /\ used' = [used EXCEPT ![a] = tasks \ {t}]
  /\ hardUsed' = [hardUsed EXCEPT ![a] =
       IF t \in tasks /\ Slo[t] = "high" THEN amount - Request[t] ELSE amount]

\* GetQuotaInfo, which loads an account that is not cached, and DeleteTask.  When the
\* load fails there is no QuotaInfo, or one that counts nothing.
Release(t) ==
  LET a == AccountOf[t]
      stored == Listed(a, Occupying)
  IN
  \/ a \in quotaInfos /\ TakeBack(t, used[a], hardUsed[a]) /\ UNCHANGED spent
  \/ a \notin quotaInfos /\ TakeBack(t, stored, Usage(stored)) /\ UNCHANGED spent
  \/ a \notin quotaInfos /\ TakeBack(t, {}, 0) /\ Fails("db")
  \/ a \notin quotaInfos /\ UNCHANGED <<quotaInfos, used, hardUsed>> /\ Fails("db")

\* mutant: the quotas are loaded and the queues are not
LoadQuotasOnly ==
  /\ userQueues' = accounts
  /\ quotaInfos' = accounts
  /\ used' = [a \in Account |-> IF a \in accounts THEN Listed(a, Occupying) ELSE {}]
  /\ hardUsed' = [a \in Account |-> Usage(used'[a])]
  /\ queue' = [q \in UserQueue |-> <<>>]

\* TaskController.Init: the queues and quotas of every account in the
\* database.  The rows come back in no particular order.
LoadMemory ==
  /\ userQueues' = accounts
  /\ quotaInfos' = accounts
  /\ used' = [a \in Account |-> IF a \in accounts THEN Listed(a, Occupying) ELSE {}]
  /\ hardUsed' = [a \in Account |-> Usage(used'[a])]
  /\ queue' \in [UserQueue -> UNION {SetToSeqs(T) : T \in SUBSET Task}]
  /\ \A q \in UserQueue :
       queue'[q] \in SetToSeqs({t \in Task : /\ QueueOf(t) = q /\ AccountOf[t] \in accounts
                                           /\ t \in Listed(AccountOf[t], {"Queueing"})})

-----------------------------------------------------------------------------
(* The handlers of aijob: submit and delete *)

\* CreateCustom and CreateJupyterJob insert the row ...
SubmitInsert(t) ==
  /\ row[t].status = "Absent" /\ AccountOf[t] \in accounts
  /\ row' = [row EXCEPT ![t].status = "Queueing",
                        ![t].createdAt = Cardinality({u \in Task : row[u].status # "Absent"})]
  /\ submitting' = submitting \cup {t}
  /\ UNCHANGED <<accounts, cluster, memory, deletion, schedule, watch, spent>>

\* ... and then notify the controller, which reads the row and queues the task.
SubmitNotify(t) ==
  /\ t \in submitting
  /\ submitting' = submitting \ {t}
  /\ \/ AddTask(t) /\ UNCHANGED spent
     \/ UNCHANGED <<queue, walk>> /\ Fails("db")
  /\ UNCHANGED <<database, cluster, userQueues, quotaInfos, used, hardUsed,
                 deletion, step, todo, cands, cur, watch>>

\* Delete finds the row, whatever its status; TaskUpdated reads it once more and
\* keeps the name of the AIJob that it reads here.  When this second read fails,
\* nothing is taken back, and the row is deleted all the same.
DeleteRead(t) ==
  /\ t \in Deletable /\ row[t].status # "Absent" /\ deletion[t].at = "idle"
  /\ \/ /\ deletion' = [deletion EXCEPT ![t] = [at |-> "queue", jobName |-> row[t].jobName]]
        /\ UNCHANGED spent
     \/ /\ deletion' = [deletion EXCEPT ![t] = [at |-> "row", jobName |-> 0]]
        /\ Fails("db")
  /\ UNCHANGED <<database, cluster, memory, submitting, schedule, watch>>

\* The keys behind t move up in the array, below the list that the scheduler may be
\* making of it without the mutex, and the cell of the last key keeps its copy.
DeleteQueued(t) ==
  LET q == QueueOf(t)
      shifted == walk.of = q /\ Contains(queue[q], t)
  IN
  /\ deletion[t].at = "queue"
  /\ deletion' = [deletion EXCEPT ![t].at = "quota"]
  /\ RemoveTask(t)
  /\ \/ shifted /\ walk' = [walk EXCEPT !.stale = <<Last(queue[q])>> \o @] /\ Fails("race")
     \/ ~shifted /\ UNCHANGED <<walk, spent>>
  /\ UNCHANGED <<database, cluster, userQueues, quotaInfos, used, hardUsed, submitting,
                 step, todo, cands, cur, watch>>

DeleteQuota(t) ==
  /\ deletion[t].at = "quota"
  /\ deletion' = [deletion EXCEPT ![t].at = "job"]
  /\ Release(t)
  /\ UNCHANGED <<database, cluster, userQueues, queue, submitting, schedule, watch>>

\* DeleteJobFromTask: the name may be empty or the job gone; an error is logged
DeleteJob(t) ==
  LET d == deletion[t].jobName IN
  /\ deletion[t].at = "job"
  /\ deletion' = [deletion EXCEPT ![t].at = "row"]
  /\ \/ job' = [job EXCEPT ![t] = [e \in Day |-> IF e = d THEN "None" ELSE @[e]]]
        /\ UNCHANGED spent
     \/ d # 0 /\ UNCHANGED job /\ Fails("api")
  /\ UNCHANGED <<database, today, events, memory, submitting, schedule, watch>>

\* DeleteByQueueAndID
DeleteRow(t) ==
  /\ deletion[t].at = "row"
  /\ deletion' = [deletion EXCEPT ![t] = [at |-> "idle", jobName |-> 0]]
  /\ \/ row' = [row EXCEPT ![t].deleted = TRUE] /\ UNCHANGED spent
     \/ UNCHANGED row /\ Fails("db")
  /\ UNCHANGED <<accounts, cluster, memory, submitting, schedule, watch>>

\* CreateAccount: nothing tells the task controller
AddAccount(a) ==
  /\ a \notin accounts
  /\ accounts' = accounts \cup {a}
  /\ UNCHANGED <<row, cluster, memory, submitting, deletion, schedule, watch, spent>>

-----------------------------------------------------------------------------
(* The scheduler *)

\* A round, every five seconds.  One over empty queues changes nothing.
Schedule ==
  /\ step = "scan" /\ cands = NoCands
  /\ \/ Queued = {} /\ UNCHANGED <<step, todo>>
     \/ Queued # {} /\ step' = "list" /\ todo' = userQueues \X {"high", "low"}
  /\ UNCHANGED <<database, cluster, memory, submitting, deletion, walk, cands, cur, watch, spent>>

\* The user queues are listed one after the other in the order of a map, the
\* guaranteed ones before the best effort ones.  An empty queue is passed over.  The
\* quota is copied, and the range over the keys fixes the array and its length.
ListBegin(q) ==
  /\ step = "list" /\ walk = NoWalk
  /\ q \in todo /\ queue[q] # <<>>
  /\ q[2] = "low" => \A p \in todo : p[2] = "high" => queue[p] = <<>>
  /\ todo' = {p \in todo \ {q} : q[2] = "low" => p[2] = "low"}
  /\ walk' = [of |-> q, len |-> Len(queue[q]), read |-> 0, stale |-> <<>>, copy |-> hardUsed[q[1]]]
  /\ UNCHANGED <<database, cluster, memory, submitting, deletion, step, cands, cur, watch, spent>>

\* The key in the next cell of the array
NextKey ==
  LET i == walk.read + 1
      q == queue[walk.of]
  IN IF i <= Len(q) THEN q[i] ELSE walk.stale[i - Len(q)]

\* What the copy of the quota counts: the usage that was copied and the guaranteed
\* candidates of the account, each of them once
CopyUsage == walk.copy + Usage({t \in Candidates : AccountOf[t] = walk.of[1]})

\* mutant: best effort tasks are left out
ChosenGuaranteed(t) == Slo[t] = "high" /\ FitsInto(t, CopyUsage)

\* mutant: a task may not use the last unit of the quota
ChosenStrictly(t) == Slo[t] = "low" \/ CopyUsage + Request[t] < Hard[AccountOf[t]]

\* A task is a candidate when it fits into the copy of the quota, to which the
\* candidates before it have been added.  One that does not fit is skipped.
Chosen(t) == FitsInto(t, CopyUsage)

\* One turn of the range: the key and its item.  A key whose item is gone ends the
\* process (the nil item is dereferenced): the scheduler is then stuck until Restart.
ListRead ==
  LET t == NextKey IN
  /\ step = "list" /\ walk # NoWalk /\ t \in Queued
  /\ cands' = IF Chosen(t) THEN [cands EXCEPT ![t] = @ + 1] ELSE cands
  /\ walk' = IF walk.read + 1 < walk.len THEN [walk EXCEPT !.read = @ + 1] ELSE NoWalk
  /\ UNCHANGED <<database, cluster, memory, submitting, deletion, step, todo, cur, watch, spent>>

ListEnd ==
  /\ step = "list" /\ walk = NoWalk
  /\ \A q \in todo : queue[q] = <<>>
  /\ step' = "scan" /\ todo' = {}
  /\ UNCHANGED <<database, cluster, memory, submitting, deletion, walk, cands, cur, watch, spent>>

\* The rest of the round without this candidate: also the error returns of admitTask
Skip(t) == /\ step' = "scan"
           /\ cur' = NoCur
           /\ cands' = [cands EXCEPT ![t] = @ - 1]

\* The candidates are taken by creation time, a task that was listed twice two times.
\* The row is read again, but neither its status nor is_deleted is looked at; the
\* quota is checked again.
AdmitCheck(t) ==
  /\ step = "scan" /\ t \in Candidates
  /\ \A u \in Candidates : row[t].createdAt <= row[u].createdAt
  /\ \/ /\ Fits(t) /\ AccountOf[t] \in quotaInfos
        /\ step' = "create" /\ cur' = [task |-> t, day |-> 0]
        /\ UNCHANGED <<cands, spent>>
     \/ ~Fits(t) /\ Skip(t) /\ UNCHANGED spent
     \/ Skip(t) /\ Fails("db")
  /\ UNCHANGED <<database, cluster, memory, submitting, deletion, todo, walk, watch>>

\* CreateJobFromTask.  It fails when an AIJob of that name exists, when the cluster
\* refuses, and for a notebook when its ingress fails after the AIJob is created.
AdmitCreate ==
  LET t == cur.task
      created == /\ job[t][today] = "None"
                 /\ job' = [job EXCEPT ![t] = [d \in Day |-> IF d = today THEN "Pending" ELSE @[d]]]
  IN
  /\ step = "create"
  /\ \/ created /\ step' = "mark" /\ cur' = [cur EXCEPT !.day = today] /\ UNCHANGED spent
     \/ job[t][today] # "None" /\ step' = "fail" /\ UNCHANGED <<job, cur, spent>>
     \/ step' = "fail" /\ UNCHANGED <<job, cur>> /\ Fails("api")
     \/ t \in Jupyter /\ created /\ step' = "fail" /\ UNCHANGED cur /\ Fails("ingress")
  /\ UNCHANGED <<database, today, events, memory, submitting, deletion, todo, walk, cands, watch>>

\* UpdateStatus after the AIJob is created ...
AdmitMark ==
  LET t == cur.task IN
  /\ step = "mark"
  /\ \/ /\ row' = [row EXCEPT ![t].status = "Created"]
        /\ step' = "name" /\ UNCHANGED <<cands, cur, spent>>
     \/ UNCHANGED row /\ Skip(t) /\ Fails("db")
  /\ UNCHANGED <<accounts, cluster, memory, submitting, deletion, todo, walk, watch>>

\* ... UpdateJobName ...
AdmitName ==
  LET t == cur.task IN
  /\ step = "name"
  /\ \/ /\ row' = [row EXCEPT ![t].jobName = cur.day]
        /\ step' = "reserve" /\ UNCHANGED <<cands, cur, spent>>
     \/ UNCHANGED row /\ Skip(t) /\ Fails("db")
  /\ UNCHANGED <<accounts, cluster, memory, submitting, deletion, todo, walk, watch>>

\* ... the quota ...
AdmitReserve ==
  /\ step = "reserve"
  /\ step' = "dequeue"
  /\ Reserve(cur.task)
  /\ UNCHANGED <<database, cluster, userQueues, queue, submitting, deletion, todo, walk,
                 cands, cur, watch, spent>>

\* mutant: the task is not taken out of the queue
AdmitKeepQueued ==
  /\ step = "dequeue"
  /\ Skip(cur.task)
  /\ UNCHANGED <<database, cluster, memory, submitting, deletion, todo, walk, watch, spent>>

\* ... and the queue, at the end of both a successful and a failed admission.
AdmitDequeue ==
  /\ step = "dequeue"
  /\ RemoveTask(cur.task)
  /\ Skip(cur.task)
  /\ UNCHANGED <<database, cluster, userQueues, quotaInfos, used, hardUsed, submitting,
                 deletion, todo, walk, watch, spent>>

\* The AIJob could not be created: the task has failed.
AdmitFail ==
  LET t == cur.task IN
  /\ step = "fail"
  /\ \/ /\ row' = [row EXCEPT ![t].status = "Failed"]
        /\ step' = "dequeue" /\ UNCHANGED <<cands, cur, spent>>
     \/ UNCHANGED row /\ Skip(t) /\ Fails("db")
  /\ UNCHANGED <<accounts, cluster, memory, submitting, deletion, todo, walk, watch>>

-----------------------------------------------------------------------------
(* The watcher of job phases: watchJobStatus and updateTaskStatus *)

\* The report is received and the status of the row is compared with it.
WatchReceive ==
  LET e == Head(events)
      next == IF row[e.task].status # e.phase THEN "write"
              ELSE IF e.phase \in Completed THEN "release" ELSE "idle"
  IN
  /\ watch.at = "idle" /\ events # <<>>
  /\ events' = Tail(events)
  /\ \/ /\ watch' = IF next = "idle" THEN Idle
                    ELSE [at |-> next, task |-> e.task, phase |-> e.phase]
        /\ UNCHANGED spent
     \/ UNCHANGED watch /\ Fails("db")
  /\ UNCHANGED <<database, job, today, memory, submitting, deletion, schedule>>

\* mutant: the task is not kept for the release
WatchWriteForgets ==
  /\ watch.at = "write"
  /\ \/ /\ row' = [row EXCEPT ![watch.task].status = watch.phase]
        /\ watch' = IF watch.phase \in Completed THEN [Idle EXCEPT !.at = "release"] ELSE Idle
        /\ UNCHANGED spent
     \/ UNCHANGED row /\ watch' = Idle /\ Fails("db")
  /\ UNCHANGED <<accounts, cluster, memory, submitting, deletion, schedule>>

WatchWrite ==
  /\ watch.at = "write"
  /\ \/ /\ row' = [row EXCEPT ![watch.task].status = watch.phase]
        /\ watch' = IF watch.phase \in Completed THEN [watch EXCEPT !.at = "release"] ELSE Idle
        /\ UNCHANGED spent
     \/ UNCHANGED row /\ watch' = Idle /\ Fails("db")
  /\ UNCHANGED <<accounts, cluster, memory, submitting, deletion, schedule>>

\* A completed job gives its quota back.
WatchRelease ==
  /\ watch.at = "release"
  /\ watch' = Idle
  /\ Release(watch.task)
  /\ UNCHANGED <<database, cluster, userQueues, queue, submitting, deletion, schedule>>

-----------------------------------------------------------------------------
(* The cluster and the informer of AIJobs *)

Successors(p) ==
  CASE p = "Pending"   -> {"Running", "Failed"}
    [] p = "Running"   -> {"Preempted", "Succeeded", "Failed"}
    [] p = "Preempted" -> {"Running", "Failed"}
    [] OTHER           -> {}

\* notifyJobStatus for a phase that the watcher wants to know of
Notify(t, d, p) ==
  /\ Len(events) < MaxEvents
  /\ events' = Append(events, [task |-> t, day |-> d, phase |-> p])

JobProgress(t, d) ==
  /\ \E p \in Successors(job[t][d]) :
       /\ job' = [job EXCEPT ![t] = [e \in Day |-> IF e = d THEN p ELSE @[e]]]
       /\ Notify(t, d, p)
  /\ UNCHANGED <<database, today, memory, submitting, deletion, schedule, watch, spent>>

\* An update of an AIJob that leaves its phase alone is reported all the same.
JobTouched(t, d) ==
  /\ job[t][d] \in Notified /\ Notify(t, d, job[t][d])
  /\ Fails("resync")
  /\ UNCHANGED <<database, job, today, memory, submitting, deletion, schedule, watch>>

Midnight ==
  /\ today < MaxDay /\ today' = today + 1
  /\ UNCHANGED <<database, job, events, memory, submitting, deletion, schedule, watch, spent>>

-----------------------------------------------------------------------------

\* The server is killed and boots again: goroutines and memory are gone, the
\* controller loads the database, and the informer reports every AIJob it finds.
Restart ==
  /\ Fails("restart")
  /\ LoadMemory
  /\ events' \in SetToSeqs({e \in Report : job[e.task][e.day] = e.phase})
  /\ submitting' = {}
  /\ deletion' = [t \in Task |-> [at |-> "idle", jobName |-> 0]]
  /\ step' = "scan" /\ todo' = {} /\ walk' = NoWalk /\ cands' = NoCands /\ cur' = NoCur
  /\ watch' = Idle
  /\ UNCHANGED <<database, job, today>>

Init ==
  /\ accounts = Founding
  /\ row = [t \in Task |-> NoRow]
  /\ job = [t \in Task |-> [d \in Day |-> "None"]]
  /\ today = 1
  /\ events = <<>>
  /\ userQueues = Founding
  /\ queue = [q \in UserQueue |-> <<>>]
  /\ quotaInfos = Founding
  /\ used = [a \in Account |-> {}]
  /\ hardUsed = [a \in Account |-> 0]
  /\ submitting = {}
  /\ deletion = [t \in Task |-> [at |-> "idle", jobName |-> 0]]
  /\ step = "scan" /\ todo = {} /\ walk = NoWalk /\ cands = NoCands /\ cur = NoCur
  /\ watch = Idle
  /\ spent = [f \in Fault |-> 0]

Handler(t) == \/ SubmitInsert(t) \/ SubmitNotify(t)
              \/ DeleteRead(t) \/ DeleteQueued(t) \/ DeleteQuota(t) \/ DeleteJob(t) \/ DeleteRow(t)

Scheduler == \/ Schedule
             \/ \E q \in UserQueue : ListBegin(q)
             \/ ListRead \/ ListEnd
             \/ \E t \in Task : AdmitCheck(t)
             \/ AdmitCreate \/ AdmitMark \/ AdmitName \/ AdmitReserve \/ AdmitDequeue
             \/ AdmitFail

Watcher == WatchReceive \/ WatchWrite \/ WatchRelease

Cluster == \/ \E t \in Task, d \in Day : JobProgress(t, d) \/ JobTouched(t, d)
           \/ Midnight

Next == \/ \E t \in Task : Handler(t)
        \/ \E a \in Account : AddAccount(a)
        \/ Scheduler \/ Watcher \/ Cluster
        \/ Restart

Spec == Init /\ [][Next]_vars

\* The two goroutines that Start launches run forever, the scheduler every five
\* seconds; a handler that has begun runs to its end.
FairSpec ==
  /\ Spec
  /\ WF_vars(Scheduler)
  /\ WF_vars(Watcher)
  /\ \A t \in Task :
       /\ WF_vars(SubmitNotify(t))
       /\ WF_vars(DeleteQueued(t) \/ DeleteQuota(t) \/ DeleteJob(t) \/ DeleteRow(t))

-----------------------------------------------------------------------------
(* Properties *)

\* The values the variables take: rows, AIJobs, reports, queue, quotas and the
\* program counters of the goroutines of pkg/aitaskctl.
TypeOK ==
  /\ accounts \in SUBSET Account
  /\ row \in [Task -> Row]
  /\ job \in [Task -> [Day -> Phase]]
  /\ today \in Day
  /\ events \in Seq(Report)
  /\ userQueues \in SUBSET Account
  /\ queue \in [UserQueue -> Seq(Task)]
  /\ quotaInfos \in SUBSET Account
  /\ used \in [Account -> SUBSET Task]
  /\ hardUsed \in [Account -> Int]
  /\ submitting \in SUBSET Task
  /\ deletion \in [Task -> [at : {"idle", "queue", "quota", "job", "row"}, jobName : 0..MaxDay]]
  /\ step \in {"scan", "list", "create", "mark", "name", "reserve", "dequeue", "fail"}
  /\ todo \in SUBSET UserQueue
  /\ walk \in Walk
  /\ walk # NoWalk => step = "list" /\ walk.of \in UserQueue
  /\ cands \in [Task -> Nat]
  /\ cur \in [task : Task \cup {NoTask}, day : 0..MaxDay]
  /\ (step \in {"scan", "list"}) <=> (cur.task = NoTask)
  /\ watch \in [at : {"idle", "write", "release"}, task : Task \cup {NoTask},
                 phase : Notified \cup {"None"}]
  /\ watch.at # "idle" => watch.task \in Task /\ watch.phase \in Notified
  /\ spent \in [Fault -> Nat]

\* HardUsed of an account is at all times the sum of the requests of its
\* UsedTasks, although it is only ever added to and subtracted from, by three
\* goroutines (QuotaInfo.AddTask and DeleteTask), and an account is loaded late.
UsageAccounted == \A a \in Account : hardUsed[a] = Usage(used[a])

\* A task waits in a user queue or it holds quota, never both, except in the one
\* step of admitTask between quotaInfo.AddTask and taskQueue.DeleteTask.  Were it
\* both, the next round would count its request a second time.
QueuedXorReserved ==
  \A t \in Queued : t \in used[AccountOf[t]] => step = "dequeue" /\ cur.task = t

\* Until the server boots again no account uses more than its hard quota, although
\* admitTask checks the quota, then calls the cluster and writes two columns, and adds
\* to the quota only after that (CheckHardQuotaExceed).
HardQuotaKept == spent["restart"] = 0 => \A a \in Account : hardUsed[a] <= Hard[a]

\* The quotas of the controller implement the ledger.  The unlocked gap between
\* the check and the addition of admitTask, the release by two other goroutines and
\* the late load of an account are all invisible in it.
Ledger == INSTANCE QuotaLedger
            WITH held <- used, boots <- spent["restart"]
ImplementsLedger == Ledger!Spec

\* What the quota is for: the guaranteed tasks of an account that have a live
\* AIJob never request more than its hard quota.
ClusterWithinQuota ==
  \A a \in Account :
    Usage({t \in Task : AccountOf[t] = a /\ \E d \in Day : job[t][d] \in Live}) <= Hard[a]

SingleJob ==
  \A t \in Task : \A d, e \in Day : job[t][d] \in Live /\ job[t][e] \in Live => d = e

\* A task has at most one live AIJob, although the name of the AIJob changes at
\* midnight and a name is all that keeps the cluster from creating a second one.  It
\* may have two once a deletion has shifted the keys of a queue below the list that
\* schedule is making of it (Queue.List takes no mutex).
OneLiveJob == spent["race"] = 0 => SingleJob

\* A submitted task is not forgotten: while its row says Queueing, and no handler
\* works on it, it is in a user queue, where the scheduler finds it.
NoneForgotten ==
  \A t \in Task :
    row[t].status = "Queueing" /\ ~row[t].deleted /\ t \notin submitting /\ deletion[t].at = "idle"
      => t \in Queued

\* Nothing is under way that concerns t.
Settled(t) == /\ events = <<>> /\ watch = Idle
              /\ step = "scan" /\ cands = NoCands
              /\ t \notin submitting /\ deletion[t].at = "idle"

\* Controller: the watcher updates the status of a task by the phase of its AIJob,
\* so once every report is handled the row agrees with the AIJob.
StatusFollowsJob ==
  \A t \in Task, d \in Day :
    Settled(t) /\ job[t][d] \in Notified => row[t].status = job[t][d]

\* QuotaInfo.DeleteTask takes the quota of completed and deleted tasks back, so
\* once nothing is under way such a task holds none.
EndedHoldsNoQuota ==
  \A t \in Task :
    Settled(t) /\ (row[t].deleted \/ \E d \in Day : job[t][d] \in Completed)
      => t \notin used[AccountOf[t]]

\* Delete deletes the AI job: afterwards the cluster runs nothing for the task.
DeletedLeavesNoJob ==
  \A t \in Task, d \in Day : Settled(t) /\ row[t].deleted => job[t][d] \notin Live

\* A best effort task needs no quota: once queued it leaves the queue, whatever
\* the guaranteed tasks do.
BestEffortServed ==
  \A t \in Task : Slo[t] = "low" => (t \in Queued ~> t \notin Queued)

\* A guaranteed task that does not fit holds nobody up: no task stays in the queue
\* for good while its request fits into what is left of the quota.
FittingServed ==
  \A t \in Task : []<>(t \notin Queued \/ ~Fits(t))
=============================================================================
