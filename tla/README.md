# Crater: specifications, model checks and proofs

Crater is a platform for machine-learning jobs on Kubernetes. Its backend
(`src/backend`, Go) keeps records in PostgreSQL, creates objects in the cluster
and learns about them through informers; its frontend (`src/frontend`,
TypeScript) talks to the backend over HTTP. This directory holds TLA+ modules of
its core logic, the TLC configurations that check them on small instances, and
theorems about them that TLAPS proves for every value of their constants.
Paths below are relative to `src/backend` unless they start with `src/`, and to
`src/frontend/src` when they end with `.ts` or `.tsx`.

Five parts are modelled, those that keep state over several steps and share it:

- the **EMIAS task controller**, which queues AI tasks by account, admits them against
  a quota it keeps in memory, and follows the AIJobs it creates;
- the **cron job manager**, which keeps a scheduler in step with rows in the database;
- the **sessions** of the frontend: its HTTP client refreshes an expired token once for
  all requests that meet it, while the user logs in, out, or switches the account;
- **approval orders and job locks**: pages of administrators that lock a job and then
  approve the order, an automatic approval, and a sweep of old orders;
- the **records of Volcano jobs**, written by the reconciler, by requests for deletion
  and in consequence of the cleaner.

## 1. Inventory

### EMIAS task controller, modelled (`pkg/aitaskctl/controller.go`, `task.go`)

*State*: `quotaInfos`, a map from account to `QuotaInfo`; `taskQueue`, a map from account to two
queues; the table of AI tasks; the AIJobs in the cluster. *Operations*: `Init` loads queues and
quotas; `Start` launches two goroutines, the scheduler (`schedule`, `admitTask`, every five
seconds) and the watcher (`watchJobStatus`, `updateTaskStatus`); `TaskUpdated` is called by HTTP
handlers when a task is created or deleted. *Interactions*: the AIJob reconciler sends phases
over an unbuffered channel; the handlers of `internal/handler/aijob` write rows and call
`TaskUpdated`; the AIJob client creates and deletes objects. *What is hard*: three kinds of
goroutines change the same quota, row and AIJob, each in several steps with nothing locked in
between. `admitTask` alone has seven (check, create, two writes, quota, queue, and the round's
next task), each of which may fail. The round before it walks the queues without their mutex.
Memory is lost with the process and rebuilt from rows that another step was about to write.
*Correct when*: usage equals what was admitted and not returned; nothing is admitted that does
not fit at that time; a task waits or holds quota but not both; a submitted task is never
forgotten; a task has one AIJob; what fits is served; rows follow AIJobs; what has ended holds
nothing.

### EMIAS quota, modelled (`quota.go`, `utils.go`)

*State*: `Hard`, `HardUsed`, `UsedTasks` per account, under a mutex.
*Operations*: `AddTask`, `DeleteTask`, `CheckHardQuotaExceed`, `Snapshot`,
`GetQuotaInfo`, which loads an account that is not cached. *What is hard*: the
mutex covers one operation, not check and addition together; the sum is kept by
additions and subtractions and never recomputed. *Correct when*: `HardUsed` is
the sum over `UsedTasks`, and is within `Hard` unless a boot found more.

### Task queues and the keyed queue, modelled (`taskqueue.go`, `userqueue.go`, `pkg/util/queue/queue.go`)

*State*: a slice of keys and a map from key to item. *Operations*: push, delete,
`List`. *What is hard*: deletion shifts keys within an array that the old and the
new slice share; the scheduler lists without the mutex. *Correct when*: slice
and map agree and behave as a first-in first-out queue.

### AIJob reconciler, client and handlers, modelled as far as they change state

`pkg/reconciler/aijob-reconciler.go` forwards every create and update of an AIJob
whose phase is Running, Succeeded, Failed or Preempted. `pkg/crclient/jobclient.go`
names an AIJob by task, id and *date*, creates it, and for a notebook creates a
service and an ingress afterwards. `internal/handler/aijob/{new,emias}.go` insert
and delete rows. *What is hard*: the date makes one task's name change at
midnight; a deletion needs the name that an admission is about to write.

### Cron job manager, modelled (`pkg/cronjob/config.go`, `manger.go`)

*State*: rows of `cron_job_configs` (type, schedule, settings, suspended, entry id);
the entries of the cron scheduler, in memory, under ids counted from 1 in every
process. *Operations*: `UpdateJobConfig`, with a branch that suspends, one that
activates and one that only edits a suspended job; `SyncCronJob`, a goroutine of the
boot. *Interactions*: the operations handler calls `UpdateJobConfig`; entries run the
cleaner. *What is hard*: entries change at once and rows when the transaction
commits; `Remove` goes by an id that a row may have from an earlier process, in
which case it may now belong to another job. *Correct when*: a job that is not suspended has the
entry its row names; an update touches the entry of its own job only; an update that
fails leaves no entry; a suspended job has none.

### Sessions and the HTTP client, modelled (`services/client.ts`, `hooks/use-auth.tsx`, `internal/handler/auth.go`)

*State*: two tokens in the local storage, shared by the tabs of a browser; per tab the
account it shows, `isRefreshing`, `failedQueue` and the requests under way. *Operations*:
a request, its answer, the refresh after the answer "token expired", the resending of what
waited; the check at load time, login, logout, the switch of the account. *What is hard*:
answers come in any order, before, during and after a refresh; other tabs change the
tokens at any time; a failed refresh has to wake everything that waits. *Correct when*:
a tab has one refresh at a time; nobody waits for one that is over; what is sent again
carries a newer token; every request settles; the page shows the account that pays.

### Approval orders and job locks, modelled (`internal/handler/approvalorder.go`, `operations/lock.go`, `use-approval-order-lock.ts`, `duration-dialog.tsx`, the order pages)

*State*: rows of orders; `LockedTimestamp` of a job; for each page of an administrator the
orders it shows and the dialog that is open. *Operations*: creation, with an automatic
approval for the first short order of two days; review; deletion; the sweep that cancels
orders of jobs that no longer run; lock and unlock. *What is hard*: no handler
uses a transaction; the page locks by one call and approves by another; either may fail,
the dialog may be closed, and the page may be old. *Correct when*: an approved order has
its lock; what the system approved is not reviewed again; extensions never add up to more
than was given; the system approves one order in two days.

### Volcano jobs, modelled (`pkg/reconciler/vcjob-reconciler.go`, `internal/handler/vcjob/vcjob.go`, `pkg/cleaner`, `pkg/alert/alert.go`, the job lists)

*State*: the objects of the cluster, the cache of the server, the rows, the work queue of the
reconciler, the mails that were sent and the alerts that tell of them. *Operations*:
`Reconcile`; `deleteJob`, behind "stop" and "delete" of the job lists; the three rules of the
cleaner. *What is hard*: all of them decide by a cache and by rows that others write; the phases
of a job, a request, a sweep and a retry cross; a mail and its record are two steps, and the
server may stop between any two. *Correct when*: no job runs without a row; an ended row stays
ended and every row ends; a removed row does not come back; a mail is repeated only when the one
before it could not be recorded.

### Not modelled

| Component | State, and what is hard | Correct when |
| --- | --- | --- |
| Profiler (`pkg/aitaskctl/profiler.go`) | A queue shared by scheduler, profiler and handlers without a lock; `Top` drops a key and keeps the item; it writes statuses of tasks that are still queued. Off unless configured | every submitted profile ends, a failed profile leaves a final row |
| Admission checks of job quotas (`pkg/aitaskctl/utils.go`) | Check, then create, for two requests of one user | the limit holds |
| Image builds (`pkg/reconciler/build-reconciler.go`, `internal/handler/image`) | Three writes at the end of a build, repeated after a failure; cancellation | one image record per finished build |
| Log view (`components/codeblock/log-dialog.tsx`) | A stream that is stopped and begun again; the `finally` of the old one clears the controller of the new one (line 294) | the stream that runs can be stopped |

Most of the repository's TypeScript, some 59000 lines, is presentation: layouts, tables,
form schemas, generated routes, one-shot queries whose state is kept by the libraries
(TanStack Query and Router, ky, react-hook-form). Such a page calls the backend once and
shows the answer. There is no protocol to model, and a definition that stood for
such lines would say nothing. The map therefore covers a small share of these lines: the client and
session code, and the dialogs and hooks that combine several calls. What the map
covers of the backend is larger, since that is where state is shared.

Out of scope, because they are I/O, configuration or generated:
Harbor and BuildKit clients, users, datasets and resources (single-row
transactions), passwords and LDAP, node and metrics queries, web terminals and logs,
generated queries and migrations, the WebDAV server (`src/storage`), website,
charts, dashboards. `pkg/aitaskctl/linklist.go` and `pkg/util/heap` have no
caller. `PROJECT.json` lists each with its reason.

## 2. Modules

| Module | What it is |
| --- | --- |
| `FifoQueue` | First-in first-out queue of distinct keys as operators: what a `Queue` promises |
| `KeyedQueue` | `Queue` as written: backing array, length, map, and an unlocked reader; refines `FifoQueue` |
| `Quota` | Units of the hard quota, sum over a set of tasks, and the check |
| `QuotaLedger` | Abstract specification of admission: `Admit` what fits *now*, `Return`, `Boot` |
| `TaskController` | Database, cluster, memory and goroutines; uses `FifoQueue` and `Quota`, refines `QuotaLedger` |
| `CronJobs` | Rows, entries and transactions of the cron job manager |
| `TokenRefresh` | One tab: its requests, the refresh, the page; storage shared with other tabs; the backend's answers |
| `ApprovalOrders` | Orders, locks, the handlers by database call, the pages and dialogs, the sweep |
| `VolcanoJobs` | Objects, cache, rows, reconciler, requests for deletion, cleaner, mails |
| `MC*` | Instances for TLC: model values, amounts, budgets of faults |
| `*Proofs` | Theorems (section 5) |

### TaskController and the code

An action is one access to shared state: one row read or written, one call to
the API server, one critical section of a queue or a quota. Between two accesses
every other goroutine may run.

| State | Code |
| --- | --- |
| `accounts`, `row` | tables `Account` and `AITask`; `createdAt` is the order of insertion |
| `job[t][d]`, `today` | the AIJob named for task `t` on day `d`; the name holds nothing else that varies |
| `events` | updates between the informer and the watcher, in order; the channel itself has no buffer |
| `userQueues`, `queue` | which accounts have a `userQueue`; all their queues as one sequence, in which the tasks of an account and an SLO form the queue of that account and SLO |
| `quotaInfos`, `used`, `hardUsed` | `quotaInfos`, `UsedTasks`, `HardUsed` |
| `submitting` | handlers between the insertion of the row and `TaskUpdated(create)` |
| `deletion[t]` | a delete handler: where it is, and the job name it has read |
| `step`, `cands`, `cur` | the scheduler: its place; how often each task is among the candidates left in this round; the task in `admitTask` and the date in its new name |
| `todo`, `walk` | the user queues a round has yet to list; the list it is making: its queue, the length `range` has fixed, what it has read, the copies of keys behind the end of the queue, the copy of the quota |
| `watch` | the watcher: its place and the report it works on |

| Actions | Code |
| --- | --- |
| `SubmitInsert`, `SubmitNotify` | `CreateCustom`/`CreateJupyterJob`: insert, then `TaskUpdated(create)` |
| `DeleteRead` ... `DeleteRow` | `Delete`, which calls `TaskUpdated(delete)`: read, queue, quota, AIJob, row |
| `Schedule`, `ListBegin`, `ListRead`, `ListEnd` | first half of `schedule`: the user queues one after the other, guaranteed ones first; `List` key by key; the candidates, by a copy of each quota |
| `AdmitCheck` ... `AdmitFail` | second half and `admitTask`: check, create, status, name, quota, queue; failure path |
| `WatchReceive`, `WatchWrite`, `WatchRelease` | `watchJobStatus` and `updateTaskStatus` |
| `JobProgress`, `JobTouched` | phases of an AIJob, and updates that leave it, through `notifyJobStatus` |
| `Midnight` | the date changes |
| `AddAccount` | `CreateAccount`; nothing tells the controller |
| `Restart` | the process dies between any two steps; `setupEMIASJob` and the informer's first list |

Faults (`db`, `api`, `ingress`, `resync`, `restart`) take their branch of an action only
while `Budget` allows, so an instance says how many of each may happen. `race` is no
fault: it counts the deletions that shift a queue while the scheduler lists it.

**The list beside a deletion.** `List` takes no mutex. `range` fixes the array and its
length; `delete` shifts the keys behind its position within that array, and the last cell
keeps its copy. A list that has passed the deleted key therefore misses the one
behind it, and one that stands before it or on it reads on; when it reaches a key
twice, the task is a candidate twice, and `admitTask` runs for it twice. `cands` is hence a
bag, and `walk.stale` holds the copies, until a push writes over them. A key whose item
is gone ends the process with a nil dereference: `ListRead` is then not enabled, the scheduler
stands still, and the server goes on with a `Restart`. (That the other goroutines may take steps
first adds behaviours and removes none.) A push that moves the keys to a larger array leaves
the list with the old one, where no deletion shifts any more; such a list reads
what it would have read had it ended before the deletion, so it has no behaviour of its own.
`KeyedQueue` models arrays, capacities and growth cell by cell.

What the model leaves out, and why it does not matter to the properties:

- One number stands for the resource list: `CheckHardQuotaExceed` compares, and
  `AddResourceList` adds, component by component. `SoftUsed` is never read.
- `Hard` is constant: the code that refreshes it has no caller after the boot.
- The profiler is off, as it is when the configuration does not enable it.
- A round over empty queues is a stutter.
- `UpdateStatus` reads the row to skip an equal status and then writes; the
  skipped write changes nothing, so it is one step.
- The reads of `Init` succeed at boot; if one fails, the server goes on without
  the account, which is then as the late account of the run `faults`.
- A release that has to load its account does so in one step, although the load reads
  the database and stores the entry afterwards. An account that is not cached was
  created after the boot, has no queue, and so none of its tasks is admitted before
  the next boot: two loads that race store the same, empty, usage.
- Accounts are not deleted, and one delete handler works on a task at a time.
- Status Pending is written nowhere; the reconciler does not forward it.

### KeyedQueue and the code

`keys` is a slice of `Len` entries over an array; `push` writes the next entry or,
at capacity, moves to a new array; `delete` removes the item from the map and
shifts the rest left in place. A reader takes the slice header and then reads
entry after entry, from the array *as it is at that time*, and looks each key up.
What the Go memory model leaves open beyond this interleaving is not modelled.

### CronJobs and the code

| State | Code |
| --- | --- |
| `row[j]` | the row of `CronJobConfig`; type, schedule and settings are one value `conf` |
| `entries`, `nextID` | the entries of `cron.Cron`; the id of the next one |
| `synced` | `SyncCronJob` has run in this process |

| Actions | Code |
| --- | --- |
| `Suspend`, `EditSuspended`, `Activate` | the branches of `UpdateJobConfig`: `updateSuspendedJobConfig`; the plain update; `updateActiveJobConfig` with `AddCronJob` |
| `Sync` | `SyncCronJob`: rows are read outside the transaction, ids written in it |
| `Restart` | the process ends, at any point of an update: what an update did to the entries is lost with them, and its row is written or not |

`UpdateJobConfig` and `SyncCronJob` hold `cronMutex` from the first access to the last, the
commit included, and nothing else reads rows to change them, so each is one
action. A write that fails aborts the transaction (`write`), or the commit fails after
the entries have been changed (`commit`); at boot either loses all ids that were to be
written (`sync`). `Valid[j]` stands for what `AddCronJob` accepts: a known type, a
parsable schedule, settings of the right form. What the migration seeds for
`clean-long-time-job` is not accepted, as it has a string where a number is read.
Left out: `StopCron`, which no route reaches; an update without a suspend
flag, which the handler never sends; records of executions.

### TokenRefresh and the code

JavaScript runs one callback at a time, so an action is what happens between two awaits.

| State | Code |
| --- | --- |
| `stored` | the pair in `localStorage`: the account it was made for, and when |
| `shown`, `isLoading`, `atAuth`, `leaving` | `useAuth`'s user and context; whether the check at load time has settled; the address; an assignment of `location.href` that has not taken effect |
| `isRefreshing`, `req[r].at = "queued"` | `isRefreshing`, `failedQueue` |
| `req[r]` | a request: kind, token it was sent with, how often it was sent, its answer, the pair a refresh or a login brings |

| Actions | Code |
| --- | --- |
| `Check`, `Login`, `Logout`, `QueueSwitch`, `Call`, `Load` | `AuthProvider`, the login form, the team switcher, the `apiV1*` functions, a reload |
| `Serve`, `ServeRefresh` | the middleware and `SwitchQueue`; `RefreshToken`; or the timeout of 10 seconds |
| `Enqueue`, `BeginRefresh`, `Resume`, `GiveUp` | the hook `afterResponse`, `refreshTokenFn`, `processQueue` |
| `Succeed`, `Fail` | what the caller does with the answer, or with the error |
| `Tick`, `Elsewhere` | the clock; other tabs |

A token is its account and its birth; signatures are left out. A clock unit is
the client's timeout, so that nothing is under way for two ticks. Requests that are sent again
bypass the hooks, as `ky` is called directly with the request. The upload by
`XMLHttpRequest`, the log stream and the web sockets do not refresh and are left out.

### ApprovalOrders and the code

| State | Code |
| --- | --- |
| `order[o]`, `until[j]`, `running` | rows of orders; `LockedTimestamp`; the jobs whose row says Running |
| `sub[o]` | `CreateApprovalOrder`: its place, and what it has read |
| `seen[p]`, `tab[p]` | the orders a page fetched; its dialog (`selectedOrder`, `selectedJob`) with the calls it makes |
| `sweep` | `UpdateApprovalOrderByJobStatus`: its list and its place |
| `lockedFor`, `given` | history variables: who extended a lock for an order; the hours added |

`Submit` ... `Insert` are the steps of the creation, `OpenDialog` ... `Approve` those of a
review: the page locks (`LockRead`, `LockWrite` in the backend) and, when the call succeeds,
approves. The other actions are single calls. Each call may fail, and the answer to a lock
may be lost. A page has one dialog; two dialogs of one page are two pages. Orders for
datasets change nothing but their row and are left out, as are the texts. `PUT` of an order is
modelled as the pages call it: `UpdateApprovalOrder` itself takes any status from any user and
guards Approved only (`approvalorder.go:431-481`), so that a call that no page makes may put
an order back to Pending.

### VolcanoJobs and the code

| State | Code |
| --- | --- |
| `obj[j]`, `cache[j]` | the object in the cluster; the copy in the cache of controller-runtime |
| `rec[j]` | the row: its status, and the mark of a deletion; the unique index on the name covers marked rows |
| `queue`, `worker` | the work queue and the only worker of the reconciler |
| `call[r]`, `sweep[s]` | `deleteJob`; a run of a rule of the cleaner |
| `mails[j][k]`, `alerts[j]` | mails sent; the kinds of which the table `alerts` has a record, which keeps the next one back |
| `lost`, `missed` | history variables: mails sent that could not be recorded; jobs whose object had vanished when a server booted |

`Get` ... `WriteFreed` are the branches of `Reconcile`, with an access to the database each;
`GetObject`, `WriteRecord`, `DeleteObject` those of `deleteJob`; `List` ... `RecordFreed` those
of the cleaner. `sendJobNotification` looks an alert up and mails (`SendMail`, `MailFreed`), and
then writes the record of it (`RecordMail`, `RecordFreed`), which may fail; between the two
anything may happen, and the server may stop. `Stop` drops what worker, requests and cleaner
have in hand; the boot fills cache and queue with the objects that are there. Which jobs a rule
singles out depends on metrics, on age and on the white list; the model lets it list any that
its status filter allows, so that the white list may be stale or not. Phases are classes:
`Completed` also stands for Failed, Aborted and Terminated, and their mails for each other.
Reminders, which may repeat, are left out. Work that a server leaves unfinished when it stops is
taken up by the next one; servers do not overlap.

## 3. Runs

Instances of the task controller have one account with quota for two units, a guaranteed task `large`
that needs both, a guaranteed task `small` that needs one, and where it matters a
best effort task `spare`. That is the smallest instance in which tasks compete:
either guaranteed task keeps `large` out, and one that does not fit stands
before one that does. `faults` has `large` and a second account `guest` with a task
`visit`; that account is created while the server runs.

| Run | Shows | Bounds |
| --- | --- | --- |
| `faults` | `TypeOK`, `UsageAccounted`, `QueuedXorReserved`: with submissions, deletions, admissions and reports in any order, one deletion below a list, one database error and one ingress error anywhere, and an account whose quota is loaded by its first release | 2 accounts, 2 tasks, 1 day, 1 waiting report |
| `crash` | `NoneForgotten`, `HardQuotaKept`, `ImplementsLedger`: one kill between any two steps, in the middle of a deletion or of a list as well | 2 tasks, 1 restart, 1 deletion below a list, 1 day |
| `deletes` | `OneLiveJob`: a deletion at any time, over a midnight, with one refusal of the API server and one repeated report; it speaks of the behaviours in which no deletion has shifted a queue below its list (section 4) | 2 tasks, 2 days |
| `service` | `ClusterWithinQuota`, `BestEffortServed`, `FittingServed` | 3 tasks, no faults |
| `queue` | `TypeOK`, `KeysMatchItems`, `QuietListExact` (the list neither panics nor misses or repeats a key), `ImplementsFifo`: through shifts, reuse of the freed tail and growth | 3 keys, symmetric |
| `cron` | `TypeOK`, `ActiveIsScheduled`, `OthersStayScheduled`, `FailedWriteLeavesNoTrace`: updates before and after the synchronisation, with a failed write, commit and synchronisation and two boots; the second and the third speak of the time after the synchronisation, while no commit has failed | 2 jobs, one of them seeded with settings that are not accepted; updates stop after the entry 4 of a process |
| `cron_suspend` | a suspended job that runs on (section 4) | as `cron`, no fault |
| `tokens` | `TypeOK`, `RefreshOnce`, `NoneStranded`, `RetryIsFresh`, `EveryRequestSettles`: two requests at a time, and other tabs | 2 requests, 1 account, access tokens live 2 units, refresh tokens 3, 3 units in all |
| `switch` | a switch that a refresh undoes (section 4) | as `tokens`, 2 accounts, no other tab |
| `orders` | `TypeOK`, `ApprovedWasLocked`, `AutoNeverReviewed`, `NeverBeyondGiven`: creation, review, sweep, deletion, direct locks, any call failing | 2 orders, 1 job, 1 user, 1 page, spans of 1 and 2, 2 hours given in all, 1 tick |
| `auto_once` | two automatic approvals in two days (section 4) | as `orders` |
| `vcjobs` | `TypeOK`, `HiddenNeverRuns`, `MailedOnce`, `GoneIsPursued` (the end of an object is on its way until the record has it), `EndedIsKept`, `RemovedStaysRemoved`, `EveryRecordEnds`: a job with one restart, a request for deletion, two runs of the cleaner, with one failed access, lost alert or stop of the server | 1 job, 1 request, 2 sweeps at a time, 1 restart, 1 fault |

Why the bounds are enough. One error is enough to break an admission or a deletion at each of
its points; each then ends in a state from which the run goes on, so that later steps meet its
leftovers. A name recurs within a day and changes between two, so two days show both. One
waiting report is enough for a report to be late against every other step: the watcher holds a
second one in work. A restart returns to a state of the same kind, with fewer guarantees, and
everything may follow it. One deletion below a list is what it takes to list a task twice. Two
guaranteed tasks are what `UsageAccounted` and `QueuedXorReserved` need. All safety properties
of the task controller are proved for any number of tasks, accounts and days (section 5). In
`cron`, two jobs are what it takes to confuse ids, two boots let an id of the first process be
taken by another job in the third, and four entries allow an update of an active job on both
sides of that; the properties are proved without these bounds. So are those of `queue` and
`vcjobs`, except for liveness.

In `tokens` two requests are one that refreshes and one that meets it at every point; ids are
used again, so that a third, later request is covered. An access token expires before its
refresh token and both expire within three units. In `orders`, one span is below the limit of
the automatic approval and one is not; two orders cross on one job; the proofs cover any number
of pages, orders and jobs. In `vcjobs` jobs do not interact, but the actors that meet on one do:
the worker, a request and two sweeps. One fault lets a mail go out twice, once with a record
that could not be written; the proofs cover any number. One restart gives the phase Running, and
with it each difference between row and object, twice.

Symmetry is used in `queue` and in `orders`, where keys and ids of orders are interchangeable
and the properties are safety and a refinement without fairness.

Deadlock is checked in every run but `vcjobs`. There the system may stop: when the only job is
gone and its record has ended, nobody has anything left to do. No other run can stop: a round of the scheduler
without candidates, a list of the queue, an edit of a cron job, a reload and a fetch are always
possible.

### Fairness

`FairSpec` of `TaskController` is used by `service`, where nothing is deleted and the list
therefore meets no missing item. It assumes weak fairness of the scheduler and of the
watcher, the two goroutines that `Start` launches with a loop that ends with the
process only, and of the remaining steps of a handler that has begun (it makes
calls that return). It assumes nothing of users, the cluster or the calendar:
a job may run forever. `BestEffortServed` therefore means that a best effort task
needs nobody else's progress; `FittingServed` means that a guaranteed task that
fits is not kept back, which settles the doubt in the comment at
`controller.go:234`: a task that does not fit is skipped and holds up none that fits.

`FairSpec` of `TokenRefresh` assumes, for each request, weak fairness of its answer and of the
callback that handles it: the client aborts a transmission after ten seconds, and the event loop
runs what is ready. Nothing is assumed of the user, the clock or other tabs. That a request
in the queue settles is not assumed by this, as nothing is enabled for it: it rests on the
refresh that the others wait for.

`Spec` of `VolcanoJobs` assumes weak fairness of the watch and of the worker in progress and
strong fairness of `Get`, as the only worker takes every queued job in turn while others may
come before it. Users, the cleaner and Volcano need not do anything.

## 4. Where the code and its documentation disagree

Three runs find a shortest behaviour each.

- `cron_suspend`: `updateActiveJobConfig` removes the old entry of a job only if the job
  was suspended, when there is none. Updating an active job adds an entry and leaves
  the old one, which no row names; suspending the job removes the new one, and the
  cleaner goes on by the old one, with the old settings, until the process ends.
- `switch`: a refresh is under way when the user switches the account. The switch
  stores its pair and the page reports it; then the refresh ends and stores a pair
  with the old account. Page and requests disagree until the page is loaded again.
- `auto_once`: two short orders are requested at once. Both handlers find no automatic
  approval within two days and both approve. In another behaviour
  the user deletes the approved order, which the query then no longer finds.

The task controller has further ones. Their properties are in the modules, and the
configurations named here, which are no runs of `PROJECT.json`, reproduce them.

- `StatusLags.cfg` (`StatusFollowsJob`): `admitTask` creates the AIJob and then writes
  Created over whatever the row says. If the report Running, or Failed, is handled in
  between, the row says Created, and no report corrects it.
- `QuotaLeak.cfg` (`EndedHoldsNoQuota`): the watcher releases the quota of an AIJob that
  failed at once before `admitTask` adds it. The release does nothing, the addition
  stays, and the account has less quota until the next boot.
- `Orphan.cfg` (`DeletedLeavesNoJob`): a task is deleted while it is admitted. `TaskUpdated`
  has read an empty job name, deletes nothing, and the AIJob lives on without a row.
- `NewAccount.cfg` (`NoneForgotten`): `InitUserQueue` runs at boot only. `AddTask` drops tasks
  of an account that was created later; their rows say Queueing until the next boot.
- `ListRace.cfg` (`ListReturnsAllItems`): `List` without the mutex misses or repeats an item,
  or dereferences the item of a key that has left the map.
- `DoubleJob.cfg` (`SingleJob`): a deletion of `large` shifts the queue below the list that
  the scheduler makes of it; `small` is listed twice, passes both checks, and is
  admitted twice in one round. If the date changes between the two, a second AIJob is
  created beside the first; no call has failed and nothing was killed. Within one day the second
  creation is refused, and the task is marked as Failed while its AIJob runs.

Consequences of the code that no document denies, seen while modelling: a logout during a
refresh leaves tokens in the storage (`client.ts:38`); a request that expired before a switch is
sent again for the new account (`client.ts:106`); a refresh that fails for want of a network
sends the user to the login (`client.ts:112`). Closing the dialog on the page of an order while
the lock is under way leaves the job locked and the order pending (`$id.tsx:280`); an order
about a job that is locked for good cannot be approved (`lock.go:92`); the sweep may cancel an
order that was just approved (`approvalorder.go:119`); a permanent lock may be overwritten by a
short one that was computed before it (`lock.go:111`). "Stop" of a job that has just ended
removes its record (`vcjob.go:216`); Deleted may be overwritten by an older phase and then
become Freed (`vcjob-reconciler.go:229`); an object that goes while no server watches leaves a
record that says Running; after a failed deletion of an ended job, whose record is removed first
(`vcjob.go:243`), the reconciler tries to insert it until the object expires. A mail goes out
before its record is written (`alert.go:152`, `:166`): if that fails, or the server stops
between the two, a restart of the job, a stale copy or a status that could not be written sends
it again, which is what `lost` counts. `allowRepeatAlert` treats a failed lookup as success and
a missing record as an error (`low_gpu_usage.go:96`). The rules of the cleaner read the white
list once, and free jobs one by one later (`low_gpu_usage.go:56`).

The properties of the passing runs are chosen so that they hold beside these:
`OneLiveJob` and `ClusterWithinQuota` do not depend on rows that lag, and
`OneLiveJob` is `SingleJob` of the behaviours in which no deletion has shifted a queue
below its list. The properties of `faults` and `crash` hold with such shifts: `AddTask`
looks at membership, so that a task that is admitted twice is counted once.
`NoneForgotten` holds of accounts that have their queue, without database errors;
`UsageAccounted` speaks of what `UsedTasks` says, leaked or not. `ClusterWithinQuota`
is checked without deletions, restarts and database errors, because after the deletion
of `Orphan.cfg`, a double admission or a partly failed one an AIJob lives that the quota does
not count.
`ActiveIsScheduled` and `OthersStayScheduled` speak of the time after the synchronisation
and of databases in which no commit has failed: before it, an update that
suspends a job may remove the entry of another by an id of the last process, which
the synchronisation then adds again.

## 5. Proofs

| Theorem | Says |
| --- | --- |
| `TypeCorrect` (`TaskControllerProofs`) | `Spec => []TypeOK` |
| `UsageCorrect` | `Spec => []UsageAccounted` |
| `QueuedXorReservedCorrect` | `Spec => []QueuedXorReserved` |
| `Refinement` | `Spec => ImplementsLedger` |
| `HardQuotaKeptCorrect` | `Spec => []HardQuotaKept`: without a second boot no account uses more than `Hard` |
| `NoneForgottenCorrect` | `[]NoneForgotten` while no database call has failed and every account has its queue |
| `OneLiveJobCorrect` | `[]OneLiveJob` while no database call has failed and the server was not killed; `OneLiveJob` adds that no deletion has shifted a queue below its list |
| `KeptTasksWithinQuota` | under these three conditions and while no ingress has failed: what runs and is not deleted is within the quota |
| `ClusterWithinQuotaCorrect` | hence `[]ClusterWithinQuota` as long as nothing is deleted, which excludes the shift as well (`DeletionShows`) |
| `LedgerTypeOK`, `LedgerWithinHard`, `LedgerOverQuotaOnlyShrinks` (`QuotaLedgerProofs`) | the ledger's properties |
| `KeyedQueueTypeOK`, `SliceAndMapAgree`, `QuietListIsExact`, `SliceImplementsFifo` (`KeyedQueueProofs`) | `TypeOK`, `KeysMatchItems`, `QuietListExact` and the refinement of `FifoQueue`: all of the run `queue` |
| `CronTypeCorrect`, `ActiveIsScheduledCorrect`, `OthersStayScheduledCorrect`, `FailedWriteLeavesNoTraceCorrect` (`CronJobsProofs`) | the properties of the run `cron` |
| `SessionTypeCorrect`, `RefreshOnceCorrect`, `NoneStrandedCorrect`, `RetryIsFreshCorrect` (`TokenRefreshProofs`) | the safety properties of the run `tokens` |
| `OrdersTypeCorrect`, `ApprovedWasLockedCorrect`, `AutoNeverReviewedCorrect`, `NeverBeyondGivenCorrect` (`ApprovalOrdersProofs`) | the properties of the run `orders` |
| `JobsTypeOK`, `NoHiddenJobRuns`, `NoMailTwice`, `EndsArePursued`, `JobEndIsKept`, `RemovalIsFinal` (`VolcanoJobsProofs`) | `TypeOK`, `HiddenNeverRuns`, `MailedOnce`, `GoneIsPursued`, `EndedIsKept`, `RemovedStaysRemoved`: the safety properties of the run `vcjobs` |

Every safety property that a passing run checks is thus a theorem; `QueueQuotaProofs` holds
the lemmas on queues and sums that these proofs share.

Assumptions: `QuotaAssumption` (a finite set of tasks, requests from 0 to `MaxRequest`, hard
quotas natural numbers), `ControllerAssumption` (the ids of constants belong together,
budgets are natural numbers), `CronAssumption` (a finite set of cron jobs; what is
valid and what is seeded are configurations), `SessionAssumption` (an access token lives
longer than a transmission, which takes one unit at most), `OrdersAssumption` (spans are
positive, and a permanent lock lies beyond all that is given), and those of `KeyedQueue` and
`VolcanoJobs` (no key and no job is the mark for none; bounds are natural numbers). No bound
on tasks, accounts, days, reports, faults, keys, requests, orders, jobs, sweeps or pages: the
proofs cover every budget of every fault.

**Usage.** `QueueQuotaProofs` proves that adding a task that is not in a finite set adds its
request to `Usage`, and removing one that is takes it away. Every action then keeps
`hardUsed[a] = Usage(used[a])`: `Reserve` and `TakeBack` look at membership first, and
a load computes both from the same rows.

**One of queue and quota, and the ledger.** Neither is inductive. That a task is
not in the queue *and* in `UsedTasks` depends on who may still bring it there: an
admission in progress, a release that loads the account from rows, a boot. The
strengthening `IInv` says:

- `Knowledge`: everyone who knows a task (queue, candidates, admission, watcher, AIJob,
  report, `UsedTasks`, a row beyond Queueing) knows one that is *in service*: its
  account is cached and its submission has gone through. So a release that has to load
  an account finds none of its tasks admitted, and a submission never queues a task
  that already went further;
- `AccountsCached`, `RowsFirst`: an account with a queue is cached, a cached account and
  the account of a row exist, and handlers work on tasks that have a row;
- `OwnTasks`: an account's `UsedTasks` are its own;
- `CheckHolds`: from `AdmitCheck` until the addition, the task fits. Only the scheduler
  adds, so between check and addition the usage can only shrink. This is what the
  unlocked gap of `admitTask` rests on, and it would fail with a second scheduler.

There is a lemma for each group of actions that preserves a part; `SafetyInductive`
combines them. `StepSimulation` then maps every step to the ledger: `AdmitReserve` to
`Admit`, whose guard is `CheckHolds`; the releases to `Return`; `Restart` to `Boot`;
everything else to a stutter. `HardQuotaKeptCorrect` follows from the same facts and
`UsageCorrect`: until a boot takes over what the rows say, every account is within
its quota, although nothing is locked between check and addition.

**No task is forgotten.** `NoneForgotten` itself is almost inductive, account by account
(`Remembered`). A handler that queues a task looks whether its account has a queue; a
deletion that takes it out ends by marking the row; a boot queues every row that says
Queueing. What is missing is `AdmittedIsMarked`: when `admitTask` reaches the queue, the row
of its task no longer says Queueing, whichever of its two paths it took. The hypotheses are
the two ways in which the code does forget a task: `TaskUpdated` returns when it
cannot read the row, and an account that is created after the boot has no queue.

**One AIJob.** `ListOnce` says that a round lists every task once, as long as no deletion shifts
a queue below its list: the keys a list has not read are no candidates, and a queue that is still
to be listed has none among them. A list is disturbed only by pushes behind it, and by deletions
in other queues. `Past(t)` says that the scheduler has left the creation of the AIJob of `t`
behind: if `t` is still in the queue, among the candidates or in work, then because it is in
work beyond that step. Without a database error `admitTask` has no way from there but the
queue (`WorkAdvances`), so `Past` is stable (`PastStable`). A task that has an AIJob, of
any day, is `Past` (`JobsPast`), so an AIJob is created for a task that has none, and each has
one (`OneJob`), although the name by which the cluster refuses a second one changes at
midnight. A database error at the write of Created, or a kill, puts the task back with
its AIJob, and a shift below the list makes it a candidate twice: any of the three hypotheses
dropped, TLC finds two live AIJobs on two days.

**What runs is within the quota.** A report of a completed phase, in the informer or in
the hands of the watcher, is about a task that will not live again (`Tells`: the only AIJob
has ended, and no other is created), so the watcher releases nothing that runs. Hence a live task
that nobody deletes is in `UsedTasks` or in the hands of `admitTask` (`AliveHolds`). There is
one task in hand, and by `CheckHolds` it fits beside `UsedTasks`, so what runs is within
`Hard` at every step, even before the quota is added (`HoldsEnough`). Each hypothesis is
needed: TLC finds the quota exceeded after a failed write (the AIJob runs, and nothing
is reserved), after a kill between creation and write, after a failed ingress (the task is
Failed and its AIJob runs), during a deletion (the quota is released first, the AIJob
deleted later), and after a double admission (the report of the first AIJob releases what
the second one holds).

**The keyed queue.** `CellsMatchItems` says of the first `len` cells of the array what the slice
means: they are the items no deletion has taken, each once. A deletion shifts the cells behind
its position by one and leaves a copy of the last key in the freed cell, which no cell
below `len` can see; a push writes exactly there, or copies the cells to a new array.
`RemoveAtShifts` and `SliceProperties` turn cells into sequences, and `SliceImplementsFifo`
maps every step to an `Enqueue`, a `Withdraw` or a stutter. `QuietReader` adds the lock-free
reader: while nobody writes, its list is what it has passed.

**Cron jobs.** `ActiveIsScheduled` is not inductive either. `UniqueIds` (two entries of a
process have two ids, as ids are below `nextID`) makes `Remove` take out one entry, and
with `ActiveIsScheduled` the one of the suspended job itself. `ActiveIsValid` (a job that is
not suspended was accepted by `AddCronJob`) is what keeps `SyncCronJob` from leaving an
active job out. The two action properties follow from the same invariant.

**Sessions.** `OneRefresh`, that is `RefreshOnce` with `NoneStranded`, is inductive: the flag is set
exactly while a request is refreshing, a request joins the queue only under the flag, and
both ends of a refresh empty the queue in the callback that clears the flag.
`RetryIsFresh` needs `Ages`: a request that was told its token had expired carries one
older than a lifetime, and a refresh that has just ended brought a pair made less than two
ticks ago. With a lifetime of more than one transmission the new token is the younger one,
although nothing compares the two and other tabs store what they like.

**Orders.** The invariant adds to the properties what each actor knows. `Creation`: until the order
exists, it was locked for by the system or by nobody, and only an order that was locked for carries
`notes`. `Review`: a page and its dialog hold only orders that were pending when they were
read, and what was once pending was never approved by the system; a page that approves has
locked. `Sweeping`: the sweep holds such orders only. In `NeverBeyondGiven`, a base that was
read stays below the time plus what was given, since neither decreases; that bounds
the write whatever was written in between.

**Volcano jobs.** An object goes through the stages none, alive, completed and gone and never
back: a restart changes its phase within a stage. Everyone else is behind: the cache behind
the cluster (`CacheIsBehind`), the worker and the handlers behind the cache, the record behind
both (`WorkerIsBehind`, `CallsAreBehind`, `RecordsAreBehind`). `HiddenNeverRuns` follows, as who
saw an object completed, however long ago, saw something final. `WorkerIsBehind` also says
that a worker whose object has changed since has the job queued again; this makes
`GoneIsPursued` inductive, whichever write fails. `WorkerKnows` gives
`EndedIsKept`: a record that says Completed when the worker writes said so when it was
read, as only the worker writes it. `MailedOnce` counts against `lost`, and rests on `AlertsTell`: a
mail that was sent is on record, in the hands of the worker, or lost. `FreedByOne` says that the
sweep which is about to mail about a job is the one whose deletion the API server accepted; that
mail goes out once even when its record fails. A stop of the server breaks none of this: it puts
what the worker had in hand back as objects of the new cache, and `missed` names those that are
gone by then.

Model-checked only: the liveness properties `BestEffortServed`, `FittingServed`,
`EveryRequestSettles` and `EveryRecordEnds`. They rest on fairness and ENABLED, which the
prover does not handle. `NoneStranded` and `GoneIsPursued` are the safety part of the last two: what
must happen eventually is always on its way. The runs that expect a violation have no theorem.

## 6. Plan

1. *Done*: the task controller with its queues and quotas, the cron job manager, the sessions of
   the frontend, approval orders with job locks, and the records of Volcano jobs with the cleaner.
2. *Done*: proofs of the safety properties of all runs, and of both refinements.
3. *Prove*: that a task of an account without a queue comes back with the next boot; what a boot
   leaves of `OneLiveJob` and `ClusterWithinQuota`; an abstract life of a record that
   `VolcanoJobs` refines.
4. *Extend*, should these parts change: the profiler with `Pop`, `Top` and `Reorder` in
   `KeyedQueue`; the admission checks of job quotas; image builds; the log view.
