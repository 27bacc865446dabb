--------------------------- MODULE ApprovalOrders ---------------------------
(***************************************************************************)
(* Approval orders for the lock of a job: the user asks for an extension   *)
(* (extension-request-dialog.tsx), the backend approves the first short    *)
(* one of two days by itself (approvalorder.go), and for the others an     *)
(* administrator's page locks the job and approves the order, with one     *)
(* call after the other (use-approval-order-lock.ts, duration-dialog.tsx). *)
(* Administrators also lock and unlock jobs directly (lock.go), and sweep  *)
(* away the orders of jobs that have ended.                                *)
(*                                                                         *)
(* A handler of the backend reads, computes and writes without a           *)
(* transaction: each of its database calls is an action.                   *)
(***************************************************************************)
EXTENDS Integers

CONSTANTS
  Job, User, Tab,   \* a tab is a page of an administrator that shows orders
  Order,            \* ids of the requests for an extension
  None,
  Hours,            \* the extensions that are asked for and given
  AutoLimit,        \* 12 hours: what is shorter may be approved without a review
  Window,           \* 48 hours: how long the next one must be reviewed
  Forever,          \* the time of a permanent lock, GetPermanentTime
  MaxClock,         \* bound: how long the clock runs
  MaxGiven          \* bound: the hours given to a job in all

ASSUME OrdersAssumption ==
  /\ None \notin Order /\ "system" \notin Tab
  /\ Hours \subseteq Nat \ {0}
  /\ AutoLimit \in Nat /\ Window \in Nat /\ MaxClock \in Nat /\ MaxGiven \in Nat
  /\ Forever \in Nat /\ Forever > MaxClock + MaxGiven

VARIABLES
  clock,
  running,    \* the jobs whose record says Running
  until,      \* until[j]: LockedTimestamp, 0 when it was never set or was cleared
  order,      \* order[o]: the row of o
  sub,        \* sub[o]: CreateApprovalOrder for o
  seen,       \* seen[p]: the orders that page p shows as Pending
  tab,        \* tab[p]: the dialog of page p, and its calls
  sweep,      \* UpdateApprovalOrderByJobStatus
  lockedFor,  \* history: lockedFor[o]: who has extended the lock for o
  given       \* history: given[j]: the hours that were added to the lock of j

vars == <<clock, running, until, order, sub, seen, tab, sweep, lockedFor, given>>

-----------------------------------------------------------------------------
(* Values *)

Span     == Hours \cup {Forever}     \* what the dialog asks for: Forever is isPermanent
Deadline == 0..Forever
Status   == {"none", "Pending", "Approved", "Rejected", "Cancelled"}

\* notes: ReviewNotes say that the system has approved the order
Row   == [status : Status, notes : BOOLEAN, born : 0..MaxClock, deleted : BOOLEAN]
NoRow == [status |-> "none", notes |-> FALSE, born |-> 0, deleted |-> FALSE]

Submission == [at : {"idle", "check", "read", "write", "insert", "done"},
               by : User \cup {None}, job : Job \cup {None}, hours : Hours \cup {0},
               base : Deadline, auto : BOOLEAN]
NoSubmission == [at |-> "idle", by |-> None, job |-> None, hours |-> 0, base |-> 0, auto |-> FALSE]

Dialog == [at : {"list", "dialog", "sent", "write", "approve"},
           order : Order \cup {None}, job : Job \cup {None}, span : Span \cup {0}, base : Deadline]
Closed == [at |-> "list", order |-> None, job |-> None, span |-> 0, base |-> 0]

Sweep   == [at : {"idle", "loop", "cancel"}, todo : SUBSET Order, order : Order \cup {None}]
NoSweep == [at |-> "idle", todo |-> {}, order |-> None]

Init ==
  /\ clock = 0
  /\ running = Job
  /\ until = [j \in Job |-> 0]
  /\ order = [o \in Order |-> NoRow]
  /\ sub = [o \in Order |-> NoSubmission]
  /\ seen = [p \in Tab |-> {}]
  /\ tab = [p \in Tab |-> Closed]
  /\ sweep = NoSweep
  /\ lockedFor = [o \in Order |-> {}]
  /\ given = [j \in Job |-> 0]

-----------------------------------------------------------------------------
(* The lock of a job *)

\* mutant: an extension is added to what is left and to the time
BaseTwice(j) == clock + until[j]

\* A lock that has run out, or that was never set, is extended from now on.
Base(j) == IF until[j] > clock THEN until[j] ELSE clock

\* mutant: a permanent lock is one more duration
ExtendAlways(j, base, span, o, who) ==
  /\ span # Forever => given[j] + span <= MaxGiven
  /\ until' = [until EXCEPT ![j] = base + span]
  /\ given' = [given EXCEPT ![j] = IF span = Forever THEN @ ELSE @ + span]
  /\ lockedFor' = IF o = None THEN lockedFor
                  ELSE [lockedFor EXCEPT ![o] = @ \cup {who}]

\* The write of a lock, computed from what was read before.
Extend(j, base, span, o, who) ==
  /\ span # Forever => given[j] + span <= MaxGiven
  /\ until' = [until EXCEPT ![j] = IF span = Forever THEN Forever ELSE base + span]
  /\ given' = [given EXCEPT ![j] = IF span = Forever THEN @ ELSE @ + span]
  /\ lockedFor' = IF o = None THEN lockedFor
                  ELSE [lockedFor EXCEPT ![o] = @ \cup {who}]

Untouched == UNCHANGED <<until, given, lockedFor>>

-----------------------------------------------------------------------------
(* The user *)

\* createApprovalOrder; that a similar order is pending is only asked about
Submit(o, u, j, h) ==
  /\ sub[o].at = "idle"
  /\ sub' = [sub EXCEPT ![o] = [at |-> "check", by |-> u, job |-> j, hours |-> h,
                                base |-> 0, auto |-> FALSE]]
  /\ UNCHANGED <<clock, running, until, order, seen, tab, sweep, lockedFor, given>>

\* checkAutoApprovalEligibility: the orders that the user has deleted are not found
RecentlyApproved(u) ==
  \E p \in Order : /\ order[p].status # "none" /\ ~order[p].deleted /\ sub[p].by = u
                   /\ order[p].notes /\ order[p].born + Window > clock

CheckEligibility(o) ==
  /\ sub[o].at = "check"
  /\ sub' = [sub EXCEPT ![o].at = IF /\ sub[o].hours < AutoLimit
                                     /\ ~RecentlyApproved(sub[o].by)
                                  THEN "read" ELSE "insert"]
  /\ UNCHANGED <<clock, running, until, order, seen, tab, sweep, lockedFor, given>>

\* lockJobForApproval reads the job.  Without a lock the order is created for a review.
AutoRead(o) ==
  LET j == sub[o].job IN
  /\ sub[o].at = "read"
  /\ \/ /\ until[j] # Forever
        /\ sub' = [sub EXCEPT ![o].at = "write", ![o].base = Base(j)]
     \/ sub' = [sub EXCEPT ![o].at = "insert"]
  /\ UNCHANGED <<clock, running, until, order, seen, tab, sweep, lockedFor, given>>

AutoWrite(o) ==
  /\ sub[o].at = "write"
  /\ \/ /\ Extend(sub[o].job, sub[o].base, sub[o].hours, o, "system")
        /\ sub' = [sub EXCEPT ![o].at = "insert", ![o].auto = TRUE]
     \/ /\ sub' = [sub EXCEPT ![o].at = "insert"]
        /\ Untouched
  /\ UNCHANGED <<clock, running, order, seen, tab, sweep>>

\* What the handler has computed is gone when it answers.
Answered(o) ==
  sub' = [sub EXCEPT ![o].at = "done", ![o].hours = 0, ![o].base = 0, ![o].auto = FALSE]

\* mutant: the order is created before it is approved
InsertPending(o) ==
  /\ sub[o].at = "insert"
  /\ Answered(o)
  /\ \/ order' = [order EXCEPT ![o] = [status |-> "Pending", notes |-> sub[o].auto,
                                       born |-> clock, deleted |-> FALSE]]
     \/ UNCHANGED order
  /\ UNCHANGED <<clock, running, until, seen, tab, sweep, lockedFor, given>>

\* The row is inserted, or the insertion fails, and a lock that was written stays.
Insert(o) ==
  /\ sub[o].at = "insert"
  /\ Answered(o)
  /\ \/ order' = [order EXCEPT ![o] = [status |-> IF sub[o].auto THEN "Approved" ELSE "Pending",
                                       notes |-> sub[o].auto, born |-> clock, deleted |-> FALSE]]
     \/ UNCHANGED order
  /\ UNCHANGED <<clock, running, until, seen, tab, sweep, lockedFor, given>>

\* DeleteApprovalOrder by the creator; gorm only marks the row
DeleteOrder(o) ==
  /\ order[o].status # "none" /\ ~order[o].deleted
  /\ order' = [order EXCEPT ![o].deleted = TRUE]
  /\ UNCHANGED <<clock, running, until, sub, seen, tab, sweep, lockedFor, given>>

-----------------------------------------------------------------------------
(* The pages of the administrators *)

Fetch(p) ==
  /\ seen' = [seen EXCEPT ![p] = {o \in Order : order[o].status = "Pending" /\ ~order[o].deleted}]
  /\ UNCHANGED <<clock, running, until, order, sub, tab, sweep, lockedFor, given>>

\* handleApproveWithDelay: the list of jobs in which the job must be running is as old as
\* the page, on which every job was running once.
OpenDialog(p, o) ==
  /\ tab[p].at = "list" /\ o \in seen[p]
  /\ tab' = [tab EXCEPT ![p] = [Closed EXCEPT !.at = "dialog", !.order = o, !.job = sub[o].job]]
  /\ UNCHANGED <<clock, running, until, order, sub, seen, sweep, lockedFor, given>>

\* The dialog of the list of jobs serves no order.
OpenJobDialog(p, j) ==
  /\ tab[p].at = "list"
  /\ tab' = [tab EXCEPT ![p] = [Closed EXCEPT !.at = "dialog", !.job = j]]
  /\ UNCHANGED <<clock, running, until, order, sub, seen, sweep, lockedFor, given>>

\* lockMutation; the duration is preset by the order and may be changed
SubmitLock(p, span) ==
  /\ tab[p].at = "dialog"
  /\ tab' = [tab EXCEPT ![p].at = "sent", ![p].span = span]
  /\ UNCHANGED <<clock, running, until, order, sub, seen, sweep, lockedFor, given>>

\* The dialog is closed.  A call that is under way is not aborted, but the page with the
\* details of one order forgets what the call was for.
CloseDialog(p) ==
  /\ tab[p].at \in {"dialog", "sent", "write"}
  /\ tab' = [tab EXCEPT ![p] = IF @.at = "dialog" THEN Closed ELSE [@ EXCEPT !.order = None]]
  /\ UNCHANGED <<clock, running, until, order, sub, seen, sweep, lockedFor, given>>

\* What the page does when it learns that the lock has failed: the dialog stays open.
LockFailed(p) ==
  tab' = [tab EXCEPT ![p] = IF @.order = None THEN Closed ELSE [@ EXCEPT !.at = "dialog", !.span = 0,
                                                                         !.base = 0]]

\* AddLockTime reads the job.
LockRead(p) ==
  LET j == tab[p].job IN
  /\ tab[p].at = "sent"
  /\ \/ /\ until[j] # Forever
        /\ tab' = [tab EXCEPT ![p].at = "write", ![p].base = Base(j)]
     \/ LockFailed(p)
  /\ UNCHANGED <<clock, running, until, order, sub, seen, sweep, lockedFor, given>>

\* mutant: the order is approved whatever became of the lock
LockWriteUnchecked(p) ==
  LET d == tab[p] IN
  /\ d.at = "write"
  /\ \/ Extend(d.job, d.base, d.span, d.order, p)
     \/ Untouched
  /\ tab' = [tab EXCEPT ![p] = IF d.order = None THEN Closed ELSE [d EXCEPT !.at = "approve"]]
  /\ UNCHANGED <<clock, running, order, sub, seen, sweep>>

\* AddLockTime writes.  The answer may be lost, and then the page takes the lock for failed.
LockWrite(p) ==
  LET d == tab[p] IN
  /\ d.at = "write"
  /\ \/ /\ Extend(d.job, d.base, d.span, d.order, p)
        /\ tab' = [tab EXCEPT ![p] = IF d.order = None THEN Closed ELSE [d EXCEPT !.at = "approve"]]
     \/ Extend(d.job, d.base, d.span, d.order, p) /\ LockFailed(p)
     \/ Untouched /\ LockFailed(p)
  /\ UNCHANGED <<clock, running, order, sub, seen, sweep>>

\* UpdateApprovalOrder, by id: whatever the row says by now, unless it is deleted
Update(o, status) ==
  order' = [order EXCEPT ![o].status = IF order[o].deleted THEN @ ELSE status]

\* handleDelaySuccess; when this call fails the job stays locked, and the order is shown
\* as before.
Approve(p) ==
  /\ tab[p].at = "approve"
  /\ tab' = [tab EXCEPT ![p] = Closed]
  /\ Update(tab[p].order, "Approved") \/ UNCHANGED order
  /\ UNCHANGED <<clock, running, until, sub, seen, sweep, lockedFor, given>>

Reject(p, o) ==
  /\ tab[p].at = "list" /\ o \in seen[p]
  /\ Update(o, "Rejected")
  /\ UNCHANGED <<clock, running, until, sub, seen, tab, sweep, lockedFor, given>>

\* ClearLockTime
Unlock(j) ==
  /\ until' = [until EXCEPT ![j] = 0]
  /\ UNCHANGED <<clock, running, order, sub, seen, tab, sweep, lockedFor, given>>

-----------------------------------------------------------------------------
(* The sweep of pending orders *)

SweepList ==
  /\ sweep.at = "idle"
  /\ sweep' = [at |-> "loop", order |-> None,
               todo |-> {o \in Order : order[o].status = "Pending" /\ ~order[o].deleted}]
  /\ UNCHANGED <<clock, running, until, order, sub, seen, tab, lockedFor, given>>

SweepRead(o) ==
  /\ sweep.at = "loop" /\ o \in sweep.todo
  /\ sweep' = [sweep EXCEPT !.todo = @ \ {o},
                            !.at = IF sub[o].job \in running THEN "loop" ELSE "cancel",
                            !.order = IF sub[o].job \in running THEN None ELSE o]
  /\ UNCHANGED <<clock, running, until, order, sub, seen, tab, lockedFor, given>>

\* cancelApprovalOrder, by id; an error is logged
SweepCancel ==
  /\ sweep.at = "cancel"
  /\ sweep' = [sweep EXCEPT !.at = "loop", !.order = None]
  /\ \/ order' = [order EXCEPT ![sweep.order] =
                    IF @.deleted THEN @ ELSE [@ EXCEPT !.status = "Cancelled", !.notes = FALSE]]
     \/ UNCHANGED order
  /\ UNCHANGED <<clock, running, until, sub, seen, tab, lockedFor, given>>

SweepEnd ==
  /\ sweep.at = "loop" /\ sweep.todo = {}
  /\ sweep' = NoSweep
  /\ UNCHANGED <<clock, running, until, order, sub, seen, tab, lockedFor, given>>

-----------------------------------------------------------------------------
JobEnds(j) ==
  /\ j \in running /\ running' = running \ {j}
  /\ UNCHANGED <<clock, until, order, sub, seen, tab, sweep, lockedFor, given>>

Tick ==
  /\ clock < MaxClock /\ clock' = clock + 1
  /\ UNCHANGED <<running, until, order, sub, seen, tab, sweep, lockedFor, given>>

Creator(o) == \/ \E u \in User, j \in Job, h \in Hours : Submit(o, u, j, h)
              \/ CheckEligibility(o) \/ AutoRead(o) \/ AutoWrite(o) \/ Insert(o)
              \/ DeleteOrder(o)

Reviewer(p) == \/ Fetch(p)
               \/ \E o \in Order : OpenDialog(p, o) \/ Reject(p, o)
               \/ \E j \in Job : OpenJobDialog(p, j)
               \/ \E span \in Span : SubmitLock(p, span)
               \/ CloseDialog(p) \/ LockRead(p) \/ LockWrite(p) \/ Approve(p)

Next == \/ \E o \in Order : Creator(o)
        \/ \E p \in Tab : Reviewer(p)
        \/ \E j \in Job : Unlock(j) \/ JobEnds(j)
        \/ SweepList \/ (\E o \in Order : SweepRead(o)) \/ SweepCancel \/ SweepEnd
        \/ Tick

Spec == Init /\ [][Next]_vars

-----------------------------------------------------------------------------
(* Properties *)

\* Type invariant of the orders, the locks, the handlers and the dialogs.
TypeOK ==
  /\ clock \in 0..MaxClock
  /\ running \in SUBSET Job
  /\ until \in [Job -> Deadline]
  /\ order \in [Order -> Row]
  /\ sub \in [Order -> Submission]
  /\ \A o \in Order : sub[o].at # "idle" => sub[o].job \in Job
  /\ seen \in [Tab -> SUBSET Order]
  /\ tab \in [Tab -> Dialog]
  /\ sweep \in Sweep
  /\ lockedFor \in [Order -> SUBSET (Tab \cup {"system"})]
  /\ given \in [Job -> 0..MaxGiven]

\* An approved order stands for a lock: before the row says Approved, the lock of the job
\* was extended for it, by the backend or from the page that approves it, whatever fails
\* in between.
ApprovedWasLocked ==
  \A o \in Order : order[o].status = "Approved" => lockedFor[o] # {}

\* What the system has approved nobody locks for again: no page ever offers such an order
\* for a review, not even one that shows an old list, as no page puts an order back.
AutoNeverReviewed ==
  \A o \in Order : order[o].notes => lockedFor[o] = {"system"}

\* Extensions that cross each other, or a clearing, get lost but never add up: a lock ends
\* no later than now plus the hours that were ever given to the job.
NeverBeyondGiven ==
  \A j \in Job : until[j] # Forever => until[j] <= clock + given[j]

\* In two days the system approves one order of a user at the most: the dialog says that
\* every two days the first short one is approved directly.
AutoOnce ==
  \A o, p \in Order :
    /\ order[o].notes /\ order[p].notes /\ sub[o].by = sub[p].by
    /\ order[p].born < order[o].born + Window /\ order[o].born <= order[p].born
    => o = p
=============================================================================
