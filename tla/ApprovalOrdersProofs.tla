------------------------ MODULE ApprovalOrdersProofs ------------------------
(***************************************************************************)
(* Theorems about ApprovalOrders, for any number of pages, orders and jobs *)
(* and any rule about the hours.                                           *)
(***************************************************************************)
EXTENDS ApprovalOrders, TLAPS

-----------------------------------------------------------------------------
(* The inductive invariant *)

\* What a page may have been told of: an order that has a row, and that the system has
\* not approved by itself.
Offered(o) == order[o].status # "none" /\ ~order[o].notes

\* An order without a row is still being created, and only the system has locked for it.
Created(o) ==
  /\ order[o].status # "none" => sub[o].at = "done"
  /\ order[o].status = "Pending" => ~order[o].notes
  /\ sub[o].at # "done" => lockedFor[o] = (IF sub[o].auto THEN {"system"} ELSE {})
  /\ sub[o].auto => sub[o].at = "insert"
  /\ sub[o].at \notin {"idle", "done"} => sub[o].hours \in Hours
  /\ sub[o].at = "write" => sub[o].base <= clock + given[sub[o].job]

Creation == \A o \in Order : Created(o)

\* A page approves what it was offered and has locked for.
Reviewed(p) ==
  /\ \A o \in seen[p] : Offered(o)
  /\ tab[p].order # None => Offered(tab[p].order)
  /\ tab[p].at # "list" => tab[p].job \in Job
  /\ tab[p].at \in {"sent", "write"} => tab[p].span \in Span
  /\ tab[p].at = "write" => tab[p].base <= clock + given[tab[p].job]
  /\ tab[p].at = "approve" => tab[p].order # None /\ p \in lockedFor[tab[p].order]

Review == \A p \in Tab : Reviewed(p)

Sweeping ==
  /\ \A o \in sweep.todo : order[o].status # "none"
  /\ sweep.at = "cancel" => sweep.order # None /\ order[sweep.order].status # "none"

IInv == /\ TypeOK /\ Creation /\ Review /\ Sweeping
        /\ ApprovedWasLocked /\ AutoNeverReviewed /\ NeverBeyondGiven

-----------------------------------------------------------------------------
(* Types *)

LEMMA InitHolds == Init => IInv
<1> SUFFICES ASSUME Init PROVE IInv
  OBVIOUS
<1> USE OrdersAssumption
<1>1. NoRow \in Row /\ NoSubmission \in Submission /\ Closed \in Dialog /\ NoSweep \in Sweep
  BY DEF NoRow, Row, NoSubmission, Submission, Closed, Dialog, NoSweep, Sweep, Status, Deadline
<1>2. TypeOK
  BY <1>1 DEF Init, TypeOK, Deadline, NoSubmission
<1>3. Creation /\ Review /\ Sweeping
  BY DEF Init, Creation, Created, Review, Reviewed, Sweeping, NoRow, NoSubmission, Closed, NoSweep
<1>4. ApprovedWasLocked /\ AutoNeverReviewed /\ NeverBeyondGiven
  BY DEF Init, ApprovedWasLocked, AutoNeverReviewed, NeverBeyondGiven, NoRow
<1> QED BY <1>2, <1>3, <1>4 DEF IInv

\* From where a lock is extended lies within what was given.
LEMMA BaseBound ==
  ASSUME TypeOK, NeverBeyondGiven, NEW j \in Job, until[j] # Forever
  PROVE  Base(j) \in Deadline /\ Base(j) <= clock + given[j]
BY OrdersAssumption DEF Base, TypeOK, NeverBeyondGiven, Deadline

\* An extension of a bounded base keeps the types and the bound.
LEMMA ExtendHolds ==
  ASSUME TypeOK, NeverBeyondGiven, clock' = clock,
         NEW j \in Job, NEW base \in Deadline, NEW span \in Span, NEW o, NEW who,
         base <= clock + given[j], Extend(j, base, span, o, who),
         who \in Tab \cup {"system"}
  PROVE  /\ until' \in [Job -> Deadline]
         /\ given' \in [Job -> 0..MaxGiven]
         /\ lockedFor' \in [Order -> SUBSET (Tab \cup {"system"})]
         /\ \A k \in Job : given[k] <= given'[k]
         /\ NeverBeyondGiven'
<1> USE OrdersAssumption
<1>1. given[j] \in 0..MaxGiven /\ clock \in 0..MaxClock /\ base \in 0..Forever
  BY DEF TypeOK, Deadline
<1>2. lockedFor' \in [Order -> SUBSET (Tab \cup {"system"})]
  BY DEF TypeOK, Extend
<1>3. CASE span = Forever
  <2>1. until' = [until EXCEPT ![j] = Forever] /\ given' = [given EXCEPT ![j] = given[j]]
    BY <1>3 DEF Extend, TypeOK
  <2>2. until' \in [Job -> Deadline] /\ given' \in [Job -> 0..MaxGiven]
    BY <2>1 DEF TypeOK, Deadline
  <2>3. \A k \in Job : given'[k] = given[k]
    BY <2>1 DEF TypeOK
  <2>4. NeverBeyondGiven'
    BY <2>1, <2>3 DEF NeverBeyondGiven, TypeOK
  <2>5. \A k \in Job : given[k] <= given'[k]
    BY <2>3 DEF TypeOK
  <2> QED BY <1>2, <2>2, <2>4, <2>5
<1>4. CASE span # Forever
  <2>1. span \in Nat /\ given[j] + span <= MaxGiven
    BY <1>4 DEF Span, Extend
  <2>2. until' = [until EXCEPT ![j] = base + span] /\ given' = [given EXCEPT ![j] = given[j] + span]
    BY <1>4 DEF Extend, TypeOK
  <2>3. base + span \in Deadline /\ given[j] + span \in 0..MaxGiven
    BY <1>1, <2>1 DEF Deadline
  <2>4. until' \in [Job -> Deadline] /\ given' \in [Job -> 0..MaxGiven]
    BY <2>2, <2>3 DEF TypeOK
  <2>5. \A k \in Job : given[k] <= given'[k]
    BY <2>2, <2>1 DEF TypeOK
  <2>6. NeverBeyondGiven'
    BY <1>1, <2>1, <2>2 DEF NeverBeyondGiven, TypeOK
  <2> QED BY <1>2, <2>4, <2>5, <2>6
<1> QED BY <1>3, <1>4

\* What the actions leave in a row, a creation and a dialog.
LEMMA Members ==
  /\ \A r \in Row, x \in Status : [r EXCEPT !.status = x] \in Row
  /\ \A r \in Row, x \in Status : [r EXCEPT !.status = x, !.notes = FALSE] \in Row
  /\ \A r \in Row : [r EXCEPT !.deleted = TRUE] \in Row
  /\ \A s \in Submission, x \in {"read", "insert", "done"} : [s EXCEPT !.at = x] \in Submission
  /\ \A s \in Submission, b \in Deadline : [s EXCEPT !.at = "write", !.base = b] \in Submission
  /\ \A s \in Submission : [s EXCEPT !.at = "insert", !.auto = TRUE] \in Submission
  /\ \A s \in Submission :
       [s EXCEPT !.at = "done", !.hours = 0, !.base = 0, !.auto = FALSE] \in Submission
  /\ Closed \in Dialog
  /\ \A d \in Dialog, x \in Span : [d EXCEPT !.at = "sent", !.span = x] \in Dialog
  /\ \A d \in Dialog : [d EXCEPT !.order = None] \in Dialog
  /\ \A d \in Dialog : [d EXCEPT !.at = "approve"] \in Dialog
  /\ \A d \in Dialog : [d EXCEPT !.at = "dialog", !.span = 0, !.base = 0] \in Dialog
  /\ \A d \in Dialog, b \in Deadline : [d EXCEPT !.at = "write", !.base = b] \in Dialog
<1> USE OrdersAssumption
<1>1. /\ \A r \in Row, x \in Status : [r EXCEPT !.status = x] \in Row
      /\ \A r \in Row, x \in Status : [r EXCEPT !.status = x, !.notes = FALSE] \in Row
      /\ \A r \in Row : [r EXCEPT !.deleted = TRUE] \in Row
  BY DEF Row
<1>2. 0 \in Deadline
  BY DEF Deadline
<1>3. /\ \A s \in Submission, x \in {"read", "insert", "done"} : [s EXCEPT !.at = x] \in Submission
      /\ \A s \in Submission, b \in Deadline : [s EXCEPT !.at = "write", !.base = b] \in Submission
      /\ \A s \in Submission : [s EXCEPT !.at = "insert", !.auto = TRUE] \in Submission
  BY DEF Submission
<1>4. \A s \in Submission :
        [s EXCEPT !.at = "done", !.hours = 0, !.base = 0, !.auto = FALSE] \in Submission
  BY <1>2 DEF Submission
<1>5. Closed \in Dialog
  BY <1>2 DEF Dialog, Closed
<1>6. /\ \A d \in Dialog, x \in Span : [d EXCEPT !.at = "sent", !.span = x] \in Dialog
      /\ \A d \in Dialog : [d EXCEPT !.order = None] \in Dialog
      /\ \A d \in Dialog : [d EXCEPT !.at = "approve"] \in Dialog
  BY DEF Dialog
<1>7. \A d \in Dialog : [d EXCEPT !.at = "dialog", !.span = 0, !.base = 0] \in Dialog
  BY <1>2 DEF Dialog
<1>8. \A d \in Dialog, b \in Deadline : [d EXCEPT !.at = "write", !.base = b] \in Dialog
  BY DEF Dialog
<1> QED BY <1>1, <1>3, <1>4, <1>5, <1>6, <1>7, <1>8

LEMMA TypeCreator ==
  ASSUME IInv, NEW o \in Order, Creator(o)
  PROVE  TypeOK' /\ NeverBeyondGiven'
<1> USE OrdersAssumption
<1>0. /\ TypeOK /\ sub[o] \in Submission /\ order[o] \in Row /\ clock \in 0..MaxClock
      /\ NeverBeyondGiven
  BY DEF IInv, TypeOK
<1>1. ASSUME NEW u \in User, NEW j \in Job, NEW h \in Hours, Submit(o, u, j, h)
      PROVE  TypeOK' /\ NeverBeyondGiven'
  <2>1. [at |-> "check", by |-> u, job |-> j, hours |-> h, base |-> 0, auto |-> FALSE] \in Submission
    BY DEF Submission, Deadline
  <2> QED BY <1>0, <1>1, <2>1 DEF Submit, TypeOK, NeverBeyondGiven
<1>2. CASE CheckEligibility(o)
  <2>1. PICK x \in {"read", "insert"} : sub' = [sub EXCEPT ![o].at = x]
    BY <1>2 DEF CheckEligibility
  <2>2. [sub[o] EXCEPT !.at = x] \in Submission
    BY <1>0, <2>1, Members
  <2> QED BY <1>0, <1>2, <2>1, <2>2 DEF CheckEligibility, TypeOK, NeverBeyondGiven
<1>3. CASE AutoRead(o)
  <2>1. sub[o].job \in Job
    BY <1>0, <1>3 DEF AutoRead, TypeOK
  <2>2. CASE sub' = [sub EXCEPT ![o].at = "insert"]
    <3>1. [sub[o] EXCEPT !.at = "insert"] \in Submission
      BY <1>0, Members
    <3> QED BY <1>0, <1>3, <2>1, <2>2, <3>1 DEF AutoRead, TypeOK, NeverBeyondGiven
  <2>3. CASE /\ until[sub[o].job] # Forever
             /\ sub' = [sub EXCEPT ![o].at = "write", ![o].base = Base(sub[o].job)]
    <3>1. Base(sub[o].job) \in Deadline
      BY <1>0, <2>1, <2>3, BaseBound
    <3>2. [sub[o] EXCEPT !.at = "write", !.base = Base(sub[o].job)] \in Submission
      BY <1>0, <3>1, Members
    <3>3. sub' = [sub EXCEPT ![o] = [sub[o] EXCEPT !.at = "write", !.base = Base(sub[o].job)]]
      BY <1>0, <2>3 DEF TypeOK
    <3> QED BY <1>0, <1>3, <2>1, <3>3, <3>2 DEF AutoRead, TypeOK, NeverBeyondGiven
  <2> QED BY <1>3, <2>2, <2>3 DEF AutoRead
<1>4. CASE AutoWrite(o)
  <2>1. sub[o].job \in Job /\ sub[o].base \in Deadline
        /\ sub[o].hours \in Span /\ sub[o].base <= clock + given[sub[o].job]
    BY <1>0, <1>4 DEF AutoWrite, TypeOK, IInv, Creation, Created, Span, Submission
  <2>2. sub' \in [Order -> Submission] /\ sub'[o].job = sub[o].job
        /\ \A q \in Order \ {o} : sub'[q] = sub[q]
    <3>1. [sub[o] EXCEPT !.at = "insert"] \in Submission
          /\ [sub[o] EXCEPT !.at = "insert", !.auto = TRUE] \in Submission
      BY <1>0, Members
    <3>2. \/ sub' = [sub EXCEPT ![o] = [sub[o] EXCEPT !.at = "insert"]]
          \/ sub' = [sub EXCEPT ![o] = [sub[o] EXCEPT !.at = "insert", !.auto = TRUE]]
      BY <1>0, <1>4 DEF AutoWrite, TypeOK
    <3>3. PICK s \in Submission : s.job = sub[o].job /\ sub' = [sub EXCEPT ![o] = s]
      <4>1. /\ [sub[o] EXCEPT !.at = "insert"].job = sub[o].job
            /\ [sub[o] EXCEPT !.at = "insert", !.auto = TRUE].job = sub[o].job
        BY <1>0 DEF Submission
      <4> QED BY <3>1, <3>2, <4>1
    <3> QED BY <1>0, <3>3 DEF TypeOK
  <2>3. CASE Untouched
    BY <1>0, <1>4, <2>1, <2>2, <2>3 DEF AutoWrite, Untouched, TypeOK, NeverBeyondGiven
  <2>4. CASE Extend(sub[o].job, sub[o].base, sub[o].hours, o, "system")
    <3>1. clock' = clock
      BY <1>4 DEF AutoWrite
    <3>2. /\ until' \in [Job -> Deadline] /\ given' \in [Job -> 0..MaxGiven]
          /\ lockedFor' \in [Order -> SUBSET (Tab \cup {"system"})] /\ NeverBeyondGiven'
      BY <1>0, <2>1, <2>4, <3>1, ExtendHolds
    <3> QED BY <1>0, <1>4, <2>1, <2>2, <3>2 DEF AutoWrite, TypeOK
  <2> QED BY <1>4, <2>3, <2>4 DEF AutoWrite
<1>5. CASE Insert(o)
  <2>1. [sub[o] EXCEPT !.at = "done", !.hours = 0, !.base = 0, !.auto = FALSE] \in Submission
    BY <1>0, Members
  <2>2. sub' = [sub EXCEPT ![o] = [sub[o] EXCEPT !.at = "done", !.hours = 0, !.base = 0,
                                                 !.auto = FALSE]]
    BY <1>0, <1>5 DEF Insert, Answered, TypeOK
  <2>3. sub[o].job \in Job
    BY <1>0, <1>5 DEF Insert, TypeOK
  <2>4. sub' \in [Order -> Submission] /\ \A q \in Order : sub'[q].at # "idle" => sub'[q].job \in Job
    <3> HIDE DEF Submission
    <3>1. sub'[o].job = sub[o].job
      BY <1>0, <2>2 DEF TypeOK, Submission
    <3>2. \A q \in Order \ {o} : sub'[q] = sub[q]
      BY <1>0, <2>2 DEF TypeOK
    <3> QED BY <1>0, <2>1, <2>2, <2>3, <3>1, <3>2 DEF TypeOK
  <2>5. order' \in [Order -> Row]
    <3> DEFINE row == [status |-> IF sub[o].auto THEN "Approved" ELSE "Pending",
                       notes |-> sub[o].auto, born |-> clock, deleted |-> FALSE]
    <3>1. row \in Row
      BY <1>0 DEF Row, Submission, Status
    <3> HIDE DEF row
    <3>2. order' = order \/ order' = [order EXCEPT ![o] = row]
      BY <1>5 DEF Insert, row
    <3> QED BY <1>0, <3>1, <3>2 DEF TypeOK
  <2> QED BY <1>0, <1>5, <2>4, <2>5 DEF Insert, TypeOK, NeverBeyondGiven
<1>6. CASE DeleteOrder(o)
  <2>1. [order[o] EXCEPT !.deleted = TRUE] \in Row
    BY <1>0, Members
  <2> QED BY <1>0, <1>6, <2>1 DEF DeleteOrder, TypeOK, NeverBeyondGiven
<1> QED BY <1>1, <1>2, <1>3, <1>4, <1>5, <1>6 DEF Creator

LEMMA TypeReviewer ==
  ASSUME IInv, NEW p \in Tab, Reviewer(p)
  PROVE  TypeOK' /\ NeverBeyondGiven'
<1> USE OrdersAssumption
<1>0. /\ TypeOK /\ NeverBeyondGiven /\ tab[p] \in Dialog
      /\ \A o \in seen[p] : o \in Order /\ sub[o].job \in Job
  <2>1. TypeOK /\ NeverBeyondGiven /\ tab[p] \in Dialog /\ seen[p] \in SUBSET Order
    BY DEF IInv, TypeOK
  <2>2. ASSUME NEW o \in seen[p] PROVE sub[o].at = "done"
    BY <2>1 DEF IInv, Review, Reviewed, Creation, Created, Offered
  <2>3. ASSUME NEW o \in seen[p] PROVE sub[o].job \in Job
    BY <2>1, <2>2 DEF TypeOK
  <2> QED BY <2>1, <2>3
<1>1. ASSUME NEW d \in Dialog, tab' = [tab EXCEPT ![p] = d],
             UNCHANGED <<clock, running, until, order, sub, seen, sweep, lockedFor, given>>
      PROVE  TypeOK' /\ NeverBeyondGiven'
  BY <1>0, <1>1 DEF TypeOK, NeverBeyondGiven
<1>2. CASE Fetch(p)
  BY <1>0, <1>2 DEF Fetch, TypeOK, NeverBeyondGiven
<1>3. ASSUME NEW o \in Order, OpenDialog(p, o) PROVE TypeOK' /\ NeverBeyondGiven'
  <2>1. sub[o].job \in Job
    BY <1>0, <1>3 DEF OpenDialog
  <2>2. [Closed EXCEPT !.at = "dialog", !.order = o, !.job = sub[o].job] \in Dialog
    BY <2>1, Members DEF Dialog
  <2> QED BY <1>1, <1>3, <2>2 DEF OpenDialog
<1>4. ASSUME NEW j \in Job, OpenJobDialog(p, j) PROVE TypeOK' /\ NeverBeyondGiven'
  <2>1. [Closed EXCEPT !.at = "dialog", !.job = j] \in Dialog
    BY Members DEF Dialog
  <2> QED BY <1>1, <1>4, <2>1 DEF OpenJobDialog
<1>5. ASSUME NEW span \in Span, SubmitLock(p, span) PROVE TypeOK' /\ NeverBeyondGiven'
  <2>1. [tab[p] EXCEPT !.at = "sent", !.span = span] \in Dialog
    BY <1>0, Members
  <2>2. tab' = [tab EXCEPT ![p] = [tab[p] EXCEPT !.at = "sent", !.span = span]]
    BY <1>0, <1>5 DEF SubmitLock, TypeOK
  <2> QED BY <1>1, <1>5, <2>1, <2>2 DEF SubmitLock
<1>6. CASE CloseDialog(p)
  <2> DEFINE d == IF tab[p].at = "dialog" THEN Closed ELSE [tab[p] EXCEPT !.order = None]
  <2>1. d \in Dialog
    BY <1>0, Members
  <2>2. tab' = [tab EXCEPT ![p] = d]
    BY <1>0, <1>6 DEF CloseDialog, TypeOK
  <2> HIDE DEF d
  <2> QED BY <1>1, <1>6, <2>1, <2>2 DEF CloseDialog
<1>7. ASSUME LockFailed(p) PROVE \E d \in Dialog : tab' = [tab EXCEPT ![p] = d]
  <2> DEFINE d == IF tab[p].order = None THEN Closed
                  ELSE [tab[p] EXCEPT !.at = "dialog", !.span = 0, !.base = 0]
  <2>1. d \in Dialog
    BY <1>0, Members
  <2>2. tab' = [tab EXCEPT ![p] = d]
    BY <1>0, <1>7 DEF LockFailed, TypeOK
  <2> HIDE DEF d
  <2> QED BY <2>1, <2>2
<1>8. CASE LockRead(p)
  <2>1. CASE LockFailed(p)
    <3>1. PICK d \in Dialog : tab' = [tab EXCEPT ![p] = d]
      BY <1>7, <2>1
    <3> QED BY <1>1, <1>8, <3>1 DEF LockRead
  <2>2. CASE /\ until[tab[p].job] # Forever
             /\ tab' = [tab EXCEPT ![p].at = "write", ![p].base = Base(tab[p].job)]
    <3>1. tab[p].job \in Job
      BY <1>8 DEF LockRead, IInv, Review, Reviewed
    <3>2. Base(tab[p].job) \in Deadline
      BY <1>0, <2>2, <3>1, BaseBound
    <3>3. [tab[p] EXCEPT !.at = "write", !.base = Base(tab[p].job)] \in Dialog
      BY <1>0, <3>2, Members
    <3>4. tab' = [tab EXCEPT ![p] = [tab[p] EXCEPT !.at = "write", !.base = Base(tab[p].job)]]
      BY <1>0, <2>2 DEF TypeOK
    <3> QED BY <1>1, <1>8, <3>3, <3>4 DEF LockRead
  <2> QED BY <1>8, <2>1, <2>2 DEF LockRead
<1>9. CASE LockWrite(p)
  <2>1. PICK d \in Dialog : tab' = [tab EXCEPT ![p] = d]
    <3> DEFINE d == IF tab[p].order = None THEN Closed ELSE [tab[p] EXCEPT !.at = "approve"]
    <3>1. d \in Dialog
      BY <1>0, Members
    <3>2. tab' = [tab EXCEPT ![p] = d] \/ LockFailed(p)
      BY <1>9 DEF LockWrite
    <3> HIDE DEF d
    <3> QED BY <1>7, <3>1, <3>2
  <2>2. CASE Untouched
    BY <1>1, <1>9, <2>1, <2>2 DEF LockWrite, Untouched
  <2>3. CASE Extend(tab[p].job, tab[p].base, tab[p].span, tab[p].order, p)
    <3>1. /\ tab[p].job \in Job /\ tab[p].base \in Deadline /\ tab[p].span \in Span
          /\ tab[p].base <= clock + given[tab[p].job]
      BY <1>0, <1>9 DEF LockWrite, IInv, Review, Reviewed, Dialog
    <3>2. clock' = clock
      BY <1>9 DEF LockWrite
    <3>3. /\ until' \in [Job -> Deadline] /\ given' \in [Job -> 0..MaxGiven]
          /\ lockedFor' \in [Order -> SUBSET (Tab \cup {"system"})] /\ NeverBeyondGiven'
      BY <1>0, <2>3, <3>1, <3>2, ExtendHolds
    <3> QED BY <1>0, <1>9, <2>1, <3>3 DEF LockWrite, TypeOK
  <2> QED BY <1>9, <2>2, <2>3 DEF LockWrite
<1>10. ASSUME NEW o \in Order, NEW x \in Status, Update(o, x) PROVE order' \in [Order -> Row]
  <2>1. order[o] \in Row /\ order[o].status \in Status
    BY <1>0 DEF TypeOK, Row
  <2>2. PICK y \in Status : order' = [order EXCEPT ![o] = [order[o] EXCEPT !.status = y]]
    BY <1>0, <1>10, <2>1 DEF Update, TypeOK
  <2>3. [order[o] EXCEPT !.status = y] \in Row
    BY <2>1, Members
  <2> QED BY <1>0, <2>2, <2>3 DEF TypeOK
<1>11. CASE Approve(p)
  <2>1. tab[p].order \in Order
    BY <1>0, <1>11 DEF Approve, IInv, Review, Reviewed, Dialog
  <2>2. order' \in [Order -> Row]
    BY <1>0, <1>10, <1>11, <2>1 DEF Approve, Status, TypeOK
  <2> QED BY <1>0, <1>11, <2>2, Members DEF Approve, TypeOK, NeverBeyondGiven
<1>12. ASSUME NEW o \in Order, Reject(p, o) PROVE TypeOK' /\ NeverBeyondGiven'
  <2>1. order' \in [Order -> Row]
    BY <1>10, <1>12 DEF Reject, Status
  <2> QED BY <1>0, <1>12, <2>1 DEF Reject, TypeOK, NeverBeyondGiven
<1> QED BY <1>2, <1>3, <1>4, <1>5, <1>6, <1>8, <1>9, <1>11, <1>12 DEF Reviewer

LEMMA TypeOthers ==
  ASSUME IInv,
         \/ \E j \in Job : Unlock(j) \/ JobEnds(j)
         \/ SweepList \/ (\E o \in Order : SweepRead(o)) \/ SweepCancel \/ SweepEnd
         \/ Tick \/ UNCHANGED vars
  PROVE  TypeOK' /\ NeverBeyondGiven'
<1> USE OrdersAssumption
<1>0. TypeOK /\ NeverBeyondGiven /\ sweep \in Sweep
  BY DEF IInv, TypeOK
<1>1. ASSUME NEW j \in Job, Unlock(j) PROVE TypeOK' /\ NeverBeyondGiven'
  BY <1>0, <1>1 DEF Unlock, TypeOK, NeverBeyondGiven, Deadline
<1>2. ASSUME NEW j \in Job, JobEnds(j) PROVE TypeOK' /\ NeverBeyondGiven'
  BY <1>0, <1>2 DEF JobEnds, TypeOK, NeverBeyondGiven
<1>3. ASSUME sweep' \in Sweep,
             UNCHANGED <<clock, running, until, order, sub, seen, tab, lockedFor, given>>
      PROVE  TypeOK' /\ NeverBeyondGiven'
  BY <1>0, <1>3 DEF TypeOK, NeverBeyondGiven
<1>4. CASE SweepList
  <2>1. sweep' \in Sweep
    BY <1>4 DEF SweepList, Sweep
  <2> QED BY <1>3, <1>4, <2>1 DEF SweepList
<1>5. ASSUME NEW o \in Order, SweepRead(o) PROVE TypeOK' /\ NeverBeyondGiven'
  <2>1. sweep' \in Sweep
    BY <1>0, <1>5 DEF SweepRead, Sweep
  <2> QED BY <1>3, <1>5, <2>1 DEF SweepRead
<1>6. CASE SweepCancel
  <2>1. sweep' \in Sweep
    BY <1>0, <1>6 DEF SweepCancel, Sweep
  <2>2. sweep.order \in Order
    BY <1>0, <1>6 DEF SweepCancel, Sweep, IInv, Sweeping
  <2>3. order[sweep.order] \in Row /\ "Cancelled" \in Status
    BY <1>0, <2>2 DEF TypeOK, Status
  <2>4. \/ order' = order
        \/ order' = [order EXCEPT ![sweep.order] = order[sweep.order]]
        \/ order' = [order EXCEPT ![sweep.order] =
                       [order[sweep.order] EXCEPT !.status = "Cancelled", !.notes = FALSE]]
    BY <1>0, <1>6, <2>2 DEF SweepCancel, TypeOK
  <2>5. order' \in [Order -> Row]
    <3>1. [order[sweep.order] EXCEPT !.status = "Cancelled", !.notes = FALSE] \in Row
      BY <2>3, Members
    <3> QED BY <1>0, <2>3, <2>4, <3>1 DEF TypeOK
  <2> QED BY <1>0, <1>6, <2>1, <2>5 DEF SweepCancel, TypeOK, NeverBeyondGiven
<1>7. CASE SweepEnd
  <2>1. sweep' \in Sweep
    BY <1>7 DEF SweepEnd, Sweep, NoSweep
  <2> QED BY <1>3, <1>7, <2>1 DEF SweepEnd
<1>8. CASE Tick
  <2>1. clock \in 0..MaxClock /\ clock' = clock + 1 /\ clock' \in 0..MaxClock
    BY <1>0, <1>8 DEF Tick, TypeOK
  <2> QED BY <1>0, <1>8, <2>1 DEF Tick, TypeOK, NeverBeyondGiven, Deadline
<1>9. CASE UNCHANGED vars
  BY <1>0, <1>9 DEF vars, TypeOK, NeverBeyondGiven
<1> QED BY <1>1, <1>2, <1>4, <1>5, <1>6, <1>7, <1>8, <1>9

LEMMA TypeNext == IInv /\ [Next]_vars => TypeOK' /\ NeverBeyondGiven'
BY TypeCreator, TypeReviewer, TypeOthers DEF Next

-----------------------------------------------------------------------------
(* What no step takes back *)

\* A row stays, and becomes no work of the system and waits for no review afterwards.
RowStays(o) ==
  /\ order'[o].status # "none"
  /\ order'[o].notes => order[o].notes
  /\ order'[o].status = "Pending" => order[o].status = "Pending"

LEMMA RowsStay ==
  ASSUME IInv, [Next]_vars, NEW o \in Order, order[o].status # "none"
  PROVE  RowStays(o)
<1>0. TypeOK /\ order[o] \in Row /\ sub[o].at = "done" /\ order[o].status # "none"
  BY DEF IInv, TypeOK, Creation, Created
<1>1. ASSUME NEW q \in Order, NEW x, x # "none", x # "Pending",
             \/ order' = [order EXCEPT ![q].status = x]
             \/ order' = [order EXCEPT ![q] = [order[q] EXCEPT !.status = x, !.notes = FALSE]]
             \/ order' = [order EXCEPT ![q].deleted = TRUE]
             \/ order' = [order EXCEPT ![q] = order[q]]
             \/ UNCHANGED order
      PROVE  RowStays(o)
  <2>0. order \in [Order -> Row] /\ order[q] \in Row
    BY <1>0 DEF TypeOK
  <2>1. CASE order' = [order EXCEPT ![q].status = x]
    BY <1>0, <1>1, <2>0, <2>1 DEF Row, RowStays
  <2>2. CASE order' = [order EXCEPT ![q] = [order[q] EXCEPT !.status = x, !.notes = FALSE]]
    BY <1>0, <1>1, <2>0, <2>2 DEF Row, RowStays
  <2>3. CASE order' = [order EXCEPT ![q].deleted = TRUE]
    BY <1>0, <1>1, <2>0, <2>3 DEF Row, RowStays
  <2>4. CASE order' = [order EXCEPT ![q] = order[q]]
    BY <1>0, <1>1, <2>0, <2>4 DEF RowStays
  <2>5. CASE UNCHANGED order
    BY <1>0, <2>5 DEF RowStays
  <2> QED BY <1>1, <2>1, <2>2, <2>3, <2>4, <2>5
<1>2. ASSUME NEW q \in Order, NEW x, x # "none", x # "Pending", Update(q, x)
      PROVE  RowStays(o)
  <2>1. CASE order[q].deleted
    <3>1. order' = [order EXCEPT ![q].status = order[q].status]
      BY <1>0, <1>2, <2>1 DEF Update, TypeOK
    <3> QED BY <1>0, <3>1 DEF TypeOK, Row, RowStays
  <2>2. CASE ~order[q].deleted
    <3>1. order' = [order EXCEPT ![q].status = x]
      BY <1>0, <1>2, <2>2 DEF Update, TypeOK
    <3> QED BY <1>1, <1>2, <3>1
  <2> QED BY <2>1, <2>2
<1>3. ASSUME NEW q \in Order, Creator(q)
      PROVE  RowStays(o)
  <2>1. CASE Insert(q)
    <3>1. q # o
      BY <1>0, <2>1 DEF Insert
    <3> QED BY <1>0, <2>1, <3>1 DEF Insert, TypeOK, RowStays
  <2>2. CASE DeleteOrder(q)
    BY <1>1, <2>2 DEF DeleteOrder
  <2>3. CASE UNCHANGED order
    BY <2>3 DEF RowStays
  <2> QED BY <1>3, <2>1, <2>2, <2>3 DEF Creator, Submit, CheckEligibility, AutoRead, AutoWrite
<1>4. ASSUME NEW p \in Tab, Reviewer(p)
      PROVE  RowStays(o)
  <2>1. CASE Approve(p)
    <3>1. tab[p].order \in Order
      BY <1>0, <2>1 DEF Approve, IInv, Review, Reviewed, Dialog, TypeOK
    <3> QED BY <1>1, <1>2, <2>1, <3>1 DEF Approve
  <2>2. ASSUME NEW q \in Order, Reject(p, q)
        PROVE  RowStays(o)
    BY <1>2, <2>2 DEF Reject
  <2>3. CASE UNCHANGED order
    BY <2>3 DEF RowStays
  <2> QED BY <1>4, <2>1, <2>2, <2>3
          DEF Reviewer, Fetch, OpenDialog, OpenJobDialog, SubmitLock, CloseDialog, LockRead, LockWrite
<1>5. CASE SweepCancel
  <2>1. sweep.order \in Order
    BY <1>0, <1>5 DEF SweepCancel, IInv, Sweeping, Sweep, TypeOK
  <2>2. CASE order' = [order EXCEPT ![sweep.order] = order[sweep.order]]
    BY <1>0, <2>1, <2>2 DEF TypeOK, RowStays
  <2>3. CASE order' = [order EXCEPT ![sweep.order] =
                         [order[sweep.order] EXCEPT !.status = "Cancelled", !.notes = FALSE]]
    BY <1>0, <2>1, <2>3 DEF TypeOK, Row, RowStays
  <2>4. CASE UNCHANGED order
    BY <1>0, <2>4 DEF RowStays
  <2> QED BY <1>0, <1>5, <2>1, <2>2, <2>3, <2>4 DEF SweepCancel, TypeOK
<1>6. CASE UNCHANGED order
  BY <1>6 DEF RowStays
<1> QED BY <1>3, <1>4, <1>5, <1>6
        DEF Next, vars, Unlock, JobEnds, SweepList, SweepRead, SweepEnd, Tick

\* Time passes, hours are given, and what was locked for an order stays on the record.
LEMMA GivenStays ==
  ASSUME IInv, [Next]_vars
  PROVE  /\ \A j \in Job : clock + given[j] <= clock' + given'[j]
         /\ \A o \in Order : lockedFor[o] \subseteq lockedFor'[o]
<1> USE OrdersAssumption
<1>0. TypeOK /\ TypeOK' /\ clock \in Nat /\ \A j \in Job : given[j] \in Nat
  BY TypeNext DEF IInv, TypeOK
<1>1. ASSUME NEW j \in Job, NEW span \in Span, NEW base, NEW o, NEW who,
             Extend(j, base, span, o, who), clock' = clock
      PROVE  /\ \A k \in Job : clock + given[k] <= clock' + given'[k]
             /\ \A q \in Order : lockedFor[q] \subseteq lockedFor'[q]
  <2>1. \A k \in Job : given[k] <= given'[k]
    <3>1. CASE span = Forever
      BY <1>0, <1>1, <3>1 DEF Extend, TypeOK
    <3>2. CASE span # Forever
      BY <1>0, <1>1, <3>2 DEF Extend, TypeOK, Span
    <3> QED BY <3>1, <3>2
  <2>2. \A q \in Order : lockedFor[q] \subseteq lockedFor'[q]
    BY <1>0, <1>1 DEF Extend, TypeOK
  <2>3. \A k \in Job : given'[k] \in Nat
    BY <1>0 DEF TypeOK
  <2> QED BY <1>0, <1>1, <2>1, <2>2, <2>3
<1>2. CASE UNCHANGED <<clock, given, lockedFor>>
  BY <1>0, <1>2
<1>3. CASE Tick
  BY <1>0, <1>3 DEF Tick
<1>4. ASSUME NEW o \in Order, AutoWrite(o)
      PROVE  /\ \A k \in Job : clock + given[k] <= clock' + given'[k]
             /\ \A q \in Order : lockedFor[q] \subseteq lockedFor'[q]
  <2>1. sub[o].job \in Job /\ sub[o].hours \in Span /\ clock' = clock
    BY <1>0, <1>4 DEF AutoWrite, TypeOK, IInv, Creation, Created, Span
  <2> QED BY <1>1, <1>2, <1>4, <2>1 DEF AutoWrite, Untouched
<1>5. ASSUME NEW p \in Tab, LockWrite(p)
      PROVE  /\ \A k \in Job : clock + given[k] <= clock' + given'[k]
             /\ \A q \in Order : lockedFor[q] \subseteq lockedFor'[q]
  <2>1. tab[p].job \in Job /\ tab[p].span \in Span /\ clock' = clock
    BY <1>5 DEF LockWrite, IInv, Review, Reviewed
  <2> QED BY <1>1, <1>2, <1>5, <2>1 DEF LockWrite, Untouched
<1>6. ASSUME NEW o \in Order, Creator(o), ~AutoWrite(o) PROVE UNCHANGED <<clock, given, lockedFor>>
  BY <1>6 DEF Creator, Submit, CheckEligibility, AutoRead, Insert, DeleteOrder
<1>7. ASSUME NEW p \in Tab, Reviewer(p), ~LockWrite(p) PROVE UNCHANGED <<clock, given, lockedFor>>
  BY <1>7 DEF Reviewer, Fetch, OpenDialog, Reject, OpenJobDialog, SubmitLock, CloseDialog, LockRead,
              Approve
<1> QED BY <1>2, <1>3, <1>4, <1>5, <1>6, <1>7
        DEF Next, vars, Unlock, JobEnds, SweepList, SweepRead, SweepCancel, SweepEnd

-----------------------------------------------------------------------------
(* Creations *)

\* Only CreateApprovalOrder itself touches an order without a row.
LEMMA OnlyTheCreator ==
  ASSUME IInv, [Next]_vars, NEW o \in Order, ~Creator(o)
  PROVE  /\ sub'[o] = sub[o]
         /\ order[o].status = "none" => order'[o] = order[o] /\ lockedFor'[o] = lockedFor[o]
<1>0. TypeOK
  BY DEF IInv
<1>1. ASSUME NEW q \in Order, Creator(q)
      PROVE  sub'[o] = sub[o] /\ order'[o] = order[o] /\ lockedFor'[o] = lockedFor[o]
  <2>1. q # o
    BY <1>1
  <2> QED BY <1>0, <1>1, <2>1
          DEF Creator, Submit, CheckEligibility, AutoRead, AutoWrite, Insert, Answered, DeleteOrder,
              Extend, Untouched, TypeOK
<1>2. \A q \in Order : Offered(q) => order[q].status # "none"
  BY DEF Offered
<1>3. ASSUME NEW p \in Tab, Reviewer(p), order[o].status = "none"
      PROVE  order'[o] = order[o] /\ lockedFor'[o] = lockedFor[o]
  <2>1. tab[p].order # o
    BY <1>0, <1>2, <1>3, OrdersAssumption DEF IInv, Review, Reviewed
  <2>2. \A q \in seen[p] : q # o
    BY <1>2, <1>3 DEF IInv, Review, Reviewed
  <2>3. CASE LockWrite(p)
    BY <1>0, <2>1, <2>3 DEF LockWrite, Extend, Untouched, TypeOK
  <2>4. CASE Approve(p)
    BY <1>0, <2>1, <2>4 DEF Approve, Update, TypeOK
  <2>5. ASSUME NEW q \in Order, Reject(p, q)
        PROVE  order'[o] = order[o] /\ lockedFor'[o] = lockedFor[o]
    BY <1>0, <2>2, <2>5 DEF Reject, Update, TypeOK
  <2>6. CASE UNCHANGED <<order, lockedFor>>
    BY <2>6
  <2> QED BY <1>3, <2>3, <2>4, <2>5, <2>6
          DEF Reviewer, Fetch, OpenDialog, OpenJobDialog, SubmitLock, CloseDialog, LockRead
<1>4. ASSUME NEW p \in Tab, Reviewer(p) PROVE sub' = sub
  BY <1>4 DEF Reviewer, Fetch, OpenDialog, OpenJobDialog, SubmitLock, CloseDialog, LockRead,
              LockWrite, Approve, Reject
<1>5. CASE SweepCancel
  <2>1. order[o].status = "none" => sweep.order # o
    BY <1>5 DEF SweepCancel, IInv, Sweeping
  <2> QED BY <1>0, <1>5, <2>1 DEF SweepCancel, TypeOK
<1>6. CASE UNCHANGED <<sub, order, lockedFor>>
  BY <1>6
<1> QED BY <1>1, <1>3, <1>4, <1>5, <1>6
        DEF Next, vars, Unlock, JobEnds, SweepList, SweepRead, SweepEnd, Tick

LEMMA CreationNext ==
  ASSUME IInv, [Next]_vars
  PROVE  Creation'
<1> USE OrdersAssumption
<1> SUFFICES ASSUME NEW o \in Order PROVE Created(o)'
  BY DEF Creation
<1>0. /\ TypeOK /\ TypeOK' /\ Created(o) /\ NeverBeyondGiven
      /\ sub[o] \in Submission /\ sub'[o] \in Submission
  BY TypeNext DEF IInv, Creation, TypeOK
<1>1. CASE ~Creator(o)
  <2>1. sub'[o] = sub[o]
    BY <1>1, OnlyTheCreator
  <2>2. CASE sub[o].at = "done"
    <3>1. order[o].status # "none" => RowStays(o)
      BY RowsStay
    <3>2. order[o].status = "none" => order'[o] = order[o]
      BY <1>1, OnlyTheCreator
    <3> QED BY <1>0, <2>1, <2>2, <3>1, <3>2 DEF Created, RowStays
  <2>3. CASE sub[o].at # "done"
    <3>1. order'[o] = order[o] /\ lockedFor'[o] = lockedFor[o]
      BY <1>0, <1>1, <2>3, OnlyTheCreator DEF Created
    <3>2. ASSUME sub[o].at = "write" PROVE sub[o].base <= clock' + given'[sub[o].job]
      <4>1. sub[o].job \in Job
        BY <1>0, <3>2 DEF TypeOK
      <4>2. clock + given[sub[o].job] <= clock' + given'[sub[o].job]
        BY <4>1, GivenStays
      <4>3. sub[o].base <= clock + given[sub[o].job] /\ sub[o].base \in Int
        BY <1>0, <3>2 DEF Created, Submission, Deadline
      <4>4. clock \in Int /\ clock' \in Int /\ given[sub[o].job] \in Int /\ given'[sub[o].job] \in Int
        BY <1>0, <4>1 DEF TypeOK
      <4> QED BY <4>2, <4>3, <4>4
    <3> QED BY <1>0, <2>1, <2>3, <3>1, <3>2 DEF Created
  <2> QED BY <2>2, <2>3
<1>2. ASSUME NEW u \in User, NEW j \in Job, NEW h \in Hours, Submit(o, u, j, h) PROVE Created(o)'
  BY <1>0, <1>2 DEF Submit, Created, TypeOK
<1>3. CASE CheckEligibility(o)
  BY <1>0, <1>3 DEF CheckEligibility, Created, TypeOK, Submission
<1>4. CASE AutoRead(o)
  <2>1. CASE sub' = [sub EXCEPT ![o].at = "insert"]
    BY <1>0, <1>4, <2>1 DEF AutoRead, Created, TypeOK, Submission
  <2>2. CASE /\ until[sub[o].job] # Forever
             /\ sub' = [sub EXCEPT ![o].at = "write", ![o].base = Base(sub[o].job)]
    <3>1. sub[o].job \in Job
      BY <1>0, <1>4 DEF AutoRead, TypeOK
    <3>2. Base(sub[o].job) <= clock + given[sub[o].job]
      BY <1>0, <2>2, <3>1, BaseBound
    <3> QED BY <1>0, <1>4, <2>2, <3>2 DEF AutoRead, Created, TypeOK, Submission
  <2> QED BY <1>4, <2>1, <2>2 DEF AutoRead
<1>5. CASE AutoWrite(o)
  <2>1. lockedFor[o] = {} /\ sub[o].hours \in Hours /\ order'[o] = order[o]
        /\ order[o].status = "none"
    BY <1>0, <1>5 DEF AutoWrite, Created
  <2>2. CASE Untouched /\ sub' = [sub EXCEPT ![o].at = "insert"]
    BY <1>0, <1>5, <2>1, <2>2 DEF AutoWrite, Untouched, Created, TypeOK, Submission
  <2>3. CASE /\ Extend(sub[o].job, sub[o].base, sub[o].hours, o, "system")
             /\ sub' = [sub EXCEPT ![o].at = "insert", ![o].auto = TRUE]
    <3>1. lockedFor'[o] = {"system"}
      BY <1>0, <2>1, <2>3 DEF Extend, TypeOK
    <3>2. sub'[o].at = "insert" /\ sub'[o].auto /\ sub'[o].hours = sub[o].hours
      BY <1>0, <2>3 DEF TypeOK, Submission
    <3> QED BY <2>1, <3>1, <3>2 DEF Created
  <2> QED BY <1>5, <2>2, <2>3 DEF AutoWrite, Untouched
<1>6. CASE Insert(o)
  <2>1. sub'[o].at = "done" /\ ~sub'[o].auto
    BY <1>0, <1>6 DEF Insert, Answered, TypeOK, Submission
  <2>2. order'[o].status = "Pending" => ~order'[o].notes
    BY <1>0, <1>6 DEF Insert, Created, TypeOK
  <2> QED BY <2>1, <2>2 DEF Created
<1>7. CASE DeleteOrder(o)
  <2>1. sub'[o] = sub[o] /\ sub[o].at = "done"
    BY <1>0, <1>7 DEF DeleteOrder, Created
  <2>2. order'[o].status = "Pending" => ~order'[o].notes
    BY <1>0, <1>7 DEF DeleteOrder, Created, TypeOK, Row
  <2> QED BY <1>0, <2>1, <2>2 DEF Created
<1> QED BY <1>1, <1>2, <1>3, <1>4, <1>5, <1>6, <1>7 DEF Creator

-----------------------------------------------------------------------------
(* Reviews *)

\* What a page was told of stays true.
StillOffered(o) == order'[o].status # "none" /\ ~order'[o].notes

LEMMA OfferStays ==
  ASSUME IInv, [Next]_vars, NEW o \in Order, Offered(o)
  PROVE  Offered(o)' /\ StillOffered(o)
BY RowsStay DEF Offered, StillOffered, RowStays

LEMMA ReviewNext ==
  ASSUME IInv, [Next]_vars
  PROVE  Review'
<1> USE OrdersAssumption
<1> SUFFICES ASSUME NEW p \in Tab PROVE Reviewed(p)'
  BY DEF Review
<1>0. /\ TypeOK /\ TypeOK' /\ Reviewed(p) /\ NeverBeyondGiven
      /\ tab[p] \in Dialog /\ tab'[p] \in Dialog /\ seen[p] \in SUBSET Order
      /\ \A o \in Order : Offered(o) => Offered(o)' /\ StillOffered(o)
      /\ \A o \in Order : lockedFor[o] \subseteq lockedFor'[o]
  BY TypeNext, OfferStays, GivenStays DEF IInv, Review, TypeOK
<1>1. tab[p].order # None => tab[p].order \in Order /\ Offered(tab[p].order) /\ StillOffered(tab[p].order)
  BY <1>0 DEF Reviewed, Dialog
<1>2. seen'[p] = seen[p] => \A o \in seen'[p] : Offered(o)'
  BY <1>0 DEF Reviewed
\* A base that was read stays within what is given.
<1>3. tab[p].at = "write" => tab[p].base <= clock' + given'[tab[p].job]
  <2>1. SUFFICES ASSUME tab[p].at = "write" PROVE tab[p].base <= clock' + given'[tab[p].job]
    OBVIOUS
  <2>2. tab[p].job \in Job /\ tab[p].base <= clock + given[tab[p].job] /\ tab[p].base \in Int
    BY <1>0, <2>1 DEF Reviewed, Dialog, Deadline
  <2>3. clock + given[tab[p].job] <= clock' + given'[tab[p].job]
    BY <2>2, GivenStays
  <2>4. /\ clock \in Int /\ clock' \in Int
        /\ given[tab[p].job] \in Int /\ given'[tab[p].job] \in Int
    BY <1>0, <2>2 DEF TypeOK
  <2> QED BY <2>2, <2>3, <2>4
\* The cases in which the dialog does what it did, or is closed
<1>4. CASE tab'[p] = tab[p] /\ seen'[p] = seen[p]
  <2>1. tab[p].at = "approve" => tab[p].order # None /\ p \in lockedFor'[tab[p].order]
    BY <1>0, <1>1 DEF Reviewed
  <2> QED BY <1>0, <1>1, <1>2, <1>3, <1>4, <2>1 DEF Reviewed, Offered, StillOffered
<1>5. CASE tab'[p] = Closed /\ seen'[p] = seen[p]
  BY <1>2, <1>5 DEF Reviewed, Closed
\* The dialog is open, and nothing is under way.
<1>6. ASSUME seen'[p] = seen[p], tab'[p].at = "dialog", tab'[p].job \in Job,
             tab'[p].order # None => StillOffered(tab'[p].order)
      PROVE  Reviewed(p)'
  BY <1>2, <1>6 DEF Reviewed, Offered, StillOffered
<1>7. CASE Fetch(p)
  <2>1. tab'[p] = tab[p] /\ seen'[p] = {o \in Order : order[o].status = "Pending" /\ ~order[o].deleted}
    BY <1>0, <1>7 DEF Fetch, TypeOK
  <2>2. \A o \in seen'[p] : Offered(o)'
    <3>1. ASSUME NEW o \in seen'[p] PROVE Offered(o)'
      <4>1. o \in Order /\ order[o].status = "Pending" /\ sub[o].at = "done"
        BY <2>1, <3>1 DEF IInv, Creation, Created
      <4>2. ~order[o].notes
        BY <4>1 DEF IInv, Creation, Created
      <4> QED BY <1>0, <4>1, <4>2 DEF Offered
    <3> QED BY <3>1
  <2>3. tab[p].at = "approve" => tab[p].order # None /\ p \in lockedFor'[tab[p].order]
    BY <1>0, <1>1 DEF Reviewed
  <2> QED BY <1>0, <1>1, <1>3, <2>1, <2>2, <2>3 DEF Reviewed, Offered, StillOffered
<1>8. ASSUME NEW o \in Order, OpenDialog(p, o) PROVE Reviewed(p)'
  <2>1. o \in seen[p] /\ StillOffered(o) /\ sub[o].at = "done"
    BY <1>0, <1>8 DEF OpenDialog, Reviewed, Offered, IInv, Creation, Created
  <2>2. sub[o].job \in Job
    BY <1>0, <2>1 DEF TypeOK
  <2>3. tab'[p] = [Closed EXCEPT !.at = "dialog", !.order = o, !.job = sub[o].job] /\ seen'[p] = seen[p]
    BY <1>0, <1>8 DEF OpenDialog, TypeOK
  <2> QED BY <1>6, <2>1, <2>2, <2>3 DEF Closed
<1>9. ASSUME NEW j \in Job, OpenJobDialog(p, j) PROVE Reviewed(p)'
  <2>1. tab'[p] = [Closed EXCEPT !.at = "dialog", !.job = j] /\ seen'[p] = seen[p]
    BY <1>0, <1>9 DEF OpenJobDialog, TypeOK
  <2> QED BY <1>6, <2>1 DEF Closed
<1>10. ASSUME NEW span \in Span, SubmitLock(p, span) PROVE Reviewed(p)'
  <2>1. /\ tab'[p].at = "sent" /\ tab'[p].span = span /\ tab'[p].order = tab[p].order
        /\ tab'[p].job = tab[p].job /\ seen'[p] = seen[p] /\ tab[p].at = "dialog"
    BY <1>0, <1>10 DEF SubmitLock, TypeOK, Dialog
  <2> QED BY <1>0, <1>1, <1>2, <2>1 DEF Reviewed, Offered, StillOffered
<1>11. CASE CloseDialog(p)
  <2>1. CASE tab[p].at = "dialog"
    BY <1>0, <1>5, <1>11, <2>1 DEF CloseDialog, TypeOK
  <2>2. CASE tab[p].at \in {"sent", "write"}
    <3>1. /\ tab'[p].at = tab[p].at /\ tab'[p].span = tab[p].span /\ tab'[p].order = None
          /\ tab'[p].job = tab[p].job /\ tab'[p].base = tab[p].base /\ seen'[p] = seen[p]
      BY <1>0, <1>11, <2>2 DEF CloseDialog, TypeOK, Dialog
    <3> QED BY <1>0, <1>2, <1>3, <2>2, <3>1 DEF Reviewed
  <2> QED BY <1>11, <2>1, <2>2 DEF CloseDialog
<1>12. ASSUME LockFailed(p), tab[p].at \in {"sent", "write"}, seen'[p] = seen[p]
       PROVE  Reviewed(p)'
  <2>1. CASE tab[p].order = None
    BY <1>0, <1>5, <1>12, <2>1 DEF LockFailed, TypeOK
  <2>2. CASE tab[p].order # None
    <3>1. tab'[p].at = "dialog" /\ tab'[p].job = tab[p].job /\ tab'[p].order = tab[p].order
      BY <1>0, <1>12, <2>2 DEF LockFailed, TypeOK, Dialog
    <3>2. tab[p].job \in Job
      BY <1>0, <1>12 DEF Reviewed
    <3> QED BY <1>1, <1>6, <1>12, <2>2, <3>1, <3>2
  <2> QED BY <2>1, <2>2
<1>13. CASE LockRead(p)
  <2>1. CASE LockFailed(p)
    BY <1>12, <1>13, <2>1 DEF LockRead
  <2>2. CASE /\ until[tab[p].job] # Forever
             /\ tab' = [tab EXCEPT ![p].at = "write", ![p].base = Base(tab[p].job)]
    <3>1. tab[p].job \in Job /\ tab[p].span \in Span
      BY <1>0, <1>13 DEF LockRead, Reviewed
    <3>2. Base(tab[p].job) <= clock + given[tab[p].job]
      BY <1>0, <2>2, <3>1, BaseBound
    <3>3. /\ tab'[p].at = "write" /\ tab'[p].span = tab[p].span /\ tab'[p].order = tab[p].order
          /\ tab'[p].job = tab[p].job /\ tab'[p].base = Base(tab[p].job)
          /\ seen'[p] = seen[p] /\ clock' = clock /\ given' = given
      BY <1>0, <1>13, <2>2 DEF LockRead, TypeOK, Dialog
    <3> QED BY <1>1, <1>2, <3>1, <3>2, <3>3 DEF Reviewed, Offered, StillOffered
  <2> QED BY <1>13, <2>1, <2>2 DEF LockRead
<1>14. CASE LockWrite(p)
  <2>1. seen'[p] = seen[p] /\ tab[p].at = "write"
    BY <1>14 DEF LockWrite
  <2>2. CASE LockFailed(p)
    BY <1>12, <2>1, <2>2
  <2>3. CASE /\ Extend(tab[p].job, tab[p].base, tab[p].span, tab[p].order, p)
             /\ tab' = [tab EXCEPT ![p] = IF tab[p].order = None THEN Closed
                                          ELSE [tab[p] EXCEPT !.at = "approve"]]
    <3>1. CASE tab[p].order = None
      BY <1>0, <1>5, <2>1, <2>3, <3>1 DEF TypeOK
    <3>2. CASE tab[p].order # None
      <4>1. tab'[p].at = "approve" /\ tab'[p].job = tab[p].job /\ tab'[p].order = tab[p].order
        BY <1>0, <2>3, <3>2 DEF TypeOK, Dialog
      <4>2. p \in lockedFor'[tab[p].order]
        BY <1>0, <1>1, <2>3, <3>2 DEF Extend, TypeOK
      <4> QED BY <1>0, <1>1, <1>2, <2>1, <3>2, <4>1, <4>2 DEF Reviewed, Offered, StillOffered
    <3> QED BY <3>1, <3>2
  <2> QED BY <1>14, <2>2, <2>3 DEF LockWrite
<1>15. CASE Approve(p)
  BY <1>0, <1>5, <1>15 DEF Approve, TypeOK
<1>16. ASSUME NEW o \in Order, Reject(p, o) PROVE Reviewed(p)'
  BY <1>4, <1>16 DEF Reject
<1>17. ASSUME NEW q \in Tab, q # p, Reviewer(q) PROVE Reviewed(p)'
  BY <1>0, <1>4, <1>17
     DEF Reviewer, Fetch, OpenDialog, OpenJobDialog, SubmitLock, CloseDialog, LockFailed, LockRead,
         LockWrite, Approve, Reject, TypeOK
<1>18. CASE Reviewer(p)
  BY <1>7, <1>8, <1>9, <1>10, <1>11, <1>13, <1>14, <1>15, <1>16, <1>18 DEF Reviewer
<1>19. CASE UNCHANGED <<seen, tab>>
  BY <1>4, <1>19
<1>20. ASSUME NEW o \in Order, Creator(o) PROVE UNCHANGED <<seen, tab>>
  BY <1>20 DEF Creator, Submit, CheckEligibility, AutoRead, AutoWrite, Insert, DeleteOrder
<1> QED BY <1>17, <1>18, <1>19, <1>20
        DEF Next, vars, Unlock, JobEnds, SweepList, SweepRead, SweepCancel, SweepEnd, Tick

LEMMA SweepingNext ==
  ASSUME IInv, [Next]_vars
  PROVE  Sweeping'
<1>0. /\ Sweeping /\ sweep \in Sweep
      /\ \A o \in Order : order[o].status # "none" => order'[o].status # "none"
  BY RowsStay DEF IInv, TypeOK, RowStays
<1>1. CASE SweepList
  <2>1. order' = order /\ sweep' = [at |-> "loop", order |-> None,
                todo |-> {o \in Order : order[o].status = "Pending" /\ ~order[o].deleted}]
    BY <1>1 DEF SweepList
  <2> QED BY <2>1 DEF Sweeping
<1>2. ASSUME NEW o \in Order, SweepRead(o) PROVE Sweeping'
  <2>1. order' = order /\ o \in sweep.todo /\ order[o].status # "none"
        /\ sweep'.todo \subseteq sweep.todo
        /\ (sweep'.at = "cancel" => sweep'.order = o)
    BY <1>0, <1>2 DEF SweepRead, Sweep, Sweeping
  <2> QED BY <1>0, <2>1, OrdersAssumption DEF Sweeping
<1>3. CASE SweepCancel
  <2>1. sweep'.at = "loop" /\ sweep'.todo = sweep.todo
    BY <1>0, <1>3 DEF SweepCancel, Sweep
  <2> QED BY <1>0, <2>1 DEF Sweeping, Sweep
<1>4. CASE SweepEnd
  BY <1>4 DEF SweepEnd, NoSweep, Sweeping
<1>5. CASE sweep' = sweep
  BY <1>0, <1>5 DEF Sweeping, Sweep
<1>6. ASSUME NEW o \in Order, Creator(o) PROVE sweep' = sweep
  BY <1>6 DEF Creator, Submit, CheckEligibility, AutoRead, AutoWrite, Insert, DeleteOrder
<1>7. ASSUME NEW p \in Tab, Reviewer(p) PROVE sweep' = sweep
  BY <1>7 DEF Reviewer, Fetch, OpenDialog, OpenJobDialog, SubmitLock, CloseDialog, LockRead,
              LockWrite, Approve, Reject
<1> QED BY <1>1, <1>2, <1>3, <1>4, <1>5, <1>6, <1>7 DEF Next, vars, Unlock, JobEnds, Tick

-----------------------------------------------------------------------------
(* Decisions *)

\* The status Approved comes from the system, with its lock, or from a page that has locked.
LEMMA ApprovedNext ==
  ASSUME IInv, [Next]_vars
  PROVE  ApprovedWasLocked'
<1> SUFFICES ASSUME NEW o \in Order, order'[o].status = "Approved" PROVE lockedFor'[o] # {}
  BY DEF ApprovedWasLocked
<1>0. TypeOK /\ order[o] \in Row /\ lockedFor[o] \subseteq lockedFor'[o]
  BY GivenStays DEF IInv, TypeOK
<1>1. CASE order[o].status = "Approved"
  BY <1>0, <1>1 DEF IInv, ApprovedWasLocked
<1>2. CASE order[o].status # "Approved"
  <2>1. ASSUME NEW q \in Order, Creator(q) PROVE lockedFor'[o] # {}
    <3>1. CASE Insert(q)
      <4>1. q = o /\ sub[o].auto /\ sub[o].at # "done"
        BY <1>0, <1>2, <3>1 DEF Insert, TypeOK
      <4>2. lockedFor[o] = {"system"}
        BY <4>1 DEF IInv, Creation, Created
      <4> QED BY <1>0, <4>2
    <3>2. CASE DeleteOrder(q)
      BY <1>0, <1>2, <3>2 DEF DeleteOrder, TypeOK, Row
    <3>3. CASE UNCHANGED order
      BY <1>2, <3>3
    <3> QED BY <2>1, <3>1, <3>2, <3>3 DEF Creator, Submit, CheckEligibility, AutoRead, AutoWrite
  <2>2. ASSUME NEW p \in Tab, Reviewer(p) PROVE lockedFor'[o] # {}
    <3>1. CASE Approve(p)
      <4>1. tab[p].order = o
        BY <1>0, <1>2, <3>1 DEF Approve, Update, TypeOK
      <4>2. p \in lockedFor[o]
        BY <3>1, <4>1 DEF Approve, IInv, Review, Reviewed
      <4> QED BY <1>0, <4>2
    <3>2. ASSUME NEW q \in Order, Reject(p, q) PROVE FALSE
      BY <1>0, <1>2, <3>2 DEF Reject, Update, TypeOK, Row
    <3>3. CASE UNCHANGED order
      BY <1>2, <3>3
    <3> QED BY <2>2, <3>1, <3>2, <3>3
            DEF Reviewer, Fetch, OpenDialog, OpenJobDialog, SubmitLock, CloseDialog, LockRead,
                LockWrite
  <2>3. CASE SweepCancel
    <3>1. sweep.order \in Order
      BY <1>0, <2>3 DEF SweepCancel, IInv, Sweeping, Sweep, TypeOK
    <3>2. \/ order' = order
          \/ order' = [order EXCEPT ![sweep.order] = order[sweep.order]]
          \/ order' = [order EXCEPT ![sweep.order] =
                         [order[sweep.order] EXCEPT !.status = "Cancelled", !.notes = FALSE]]
      BY <1>0, <2>3, <3>1 DEF SweepCancel, TypeOK
    <3>3. order' # order
      BY <1>2
    <3>4. order' # [order EXCEPT ![sweep.order] = order[sweep.order]]
      BY <1>0, <1>2, <3>1 DEF TypeOK
    <3>5. order'[o].status # "Approved"
      <4> DEFINE c == [order[sweep.order] EXCEPT !.status = "Cancelled", !.notes = FALSE]
      <4>1. order[sweep.order] \in Row
        BY <1>0, <3>1 DEF TypeOK
      <4>2. c.status = "Cancelled"
        BY <4>1 DEF Row
      <4> HIDE DEF c
      <4>3. order' = [order EXCEPT ![sweep.order] = c]
        BY <3>2, <3>3, <3>4 DEF c
      <4> QED BY <1>0, <1>2, <3>1, <4>2, <4>3 DEF TypeOK
    <3> QED BY <3>5
  <2>4. CASE UNCHANGED order
    BY <1>2, <2>4
  <2> QED BY <2>1, <2>2, <2>3, <2>4
          DEF Next, vars, Unlock, JobEnds, SweepList, SweepRead, SweepEnd, Tick
<1> QED BY <1>1, <1>2

\* Nobody extends the lock again for what the system has approved.
LEMMA AutoNext ==
  ASSUME IInv, [Next]_vars
  PROVE  AutoNeverReviewed'
<1> SUFFICES ASSUME NEW o \in Order, order'[o].notes PROVE lockedFor'[o] = {"system"}
  BY DEF AutoNeverReviewed
<1>0. TypeOK /\ Created(o)
  BY DEF IInv, Creation
<1>1. CASE order[o].status = "none" /\ ~Insert(o)
  <2>1. order'[o] = order[o]
    <3>1. CASE Creator(o)
      BY <1>1, <3>1 DEF Creator, Submit, CheckEligibility, AutoRead, AutoWrite, DeleteOrder
    <3>2. CASE ~Creator(o)
      BY <1>1, <3>2, OnlyTheCreator
    <3> QED BY <3>1, <3>2
  <2>2. order[o].notes /\ lockedFor[o] = {"system"}
    BY <2>1 DEF IInv, AutoNeverReviewed
  <2>3. lockedFor'[o] = lockedFor[o]
    <3>1. CASE Creator(o)
      <4>1. ~AutoWrite(o)
        BY <1>0, <2>2 DEF AutoWrite, Created
      <4> QED BY <1>1, <3>1, <4>1
              DEF Creator, Submit, CheckEligibility, AutoRead, DeleteOrder
    <3>2. CASE ~Creator(o)
      BY <1>1, <3>2, OnlyTheCreator
    <3> QED BY <3>1, <3>2
  <2> QED BY <2>2, <2>3
<1>2. CASE Insert(o)
  <2>1. CASE order' = order
    BY <1>2, <2>1 DEF Insert, IInv, AutoNeverReviewed
  <2>2. CASE order' # order
    <3>1. sub[o].auto /\ sub[o].at # "done" /\ lockedFor' = lockedFor
      BY <1>0, <1>2, <2>2 DEF Insert, TypeOK
    <3> QED BY <1>0, <3>1 DEF Created
  <2> QED BY <2>1, <2>2
<1>3. CASE order[o].status # "none"
  <2>1. order[o].notes
    BY <1>3, RowsStay DEF RowStays
  <2>2. lockedFor[o] = {"system"} /\ sub[o].at = "done"
    BY <1>0, <1>3, <2>1 DEF IInv, AutoNeverReviewed, Created
  <2>3. lockedFor'[o] = lockedFor[o]
    <3>1. ASSUME NEW q \in Order, Creator(q) PROVE lockedFor'[o] = lockedFor[o]
      BY <1>0, <2>2, <3>1
         DEF Creator, Submit, CheckEligibility, AutoRead, AutoWrite, Insert, DeleteOrder, Extend,
             Untouched, TypeOK
    <3>2. ASSUME NEW p \in Tab, LockWrite(p) PROVE lockedFor'[o] = lockedFor[o]
      <4>1. tab[p].order # o
        BY <2>1, OrdersAssumption DEF IInv, Review, Reviewed, Offered
      <4> QED BY <1>0, <3>2, <4>1 DEF LockWrite, Extend, Untouched, TypeOK
    <3>3. ASSUME NEW p \in Tab, Reviewer(p), ~LockWrite(p) PROVE lockedFor' = lockedFor
      BY <3>3 DEF Reviewer, Fetch, OpenDialog, OpenJobDialog, SubmitLock, CloseDialog, LockRead,
                  Approve, Reject
    <3> QED BY <3>1, <3>2, <3>3
            DEF Next, vars, Unlock, JobEnds, SweepList, SweepRead, SweepCancel, SweepEnd, Tick
  <2> QED BY <2>2, <2>3
<1> QED BY <1>1, <1>2, <1>3

-----------------------------------------------------------------------------
(* Theorems *)

LEMMA Inductive == Spec => []IInv
<1>1. IInv /\ [Next]_vars => IInv'
  BY TypeNext, CreationNext, ReviewNext, SweepingNext, ApprovedNext, AutoNext DEF IInv
<1> QED BY <1>1, InitHolds, PTL DEF Spec

\* The rows, the locks, the handlers and the dialogs keep their types; a lock that is
\* neither cleared nor permanent never reaches the value of a permanent one.
THEOREM OrdersTypeCorrect == Spec => []TypeOK
<1>1. IInv => TypeOK
  BY DEF IInv
<1> QED BY <1>1, Inductive, PTL

\* No order becomes Approved before the lock of its job was extended for it, however many
\* pages, sweeps and failures there are.
THEOREM ApprovedWasLockedCorrect == Spec => []ApprovedWasLocked
<1>1. IInv => ApprovedWasLocked
  BY DEF IInv
<1> QED BY <1>1, Inductive, PTL

\* The lock is extended once for an order that the system has approved.
THEOREM AutoNeverReviewedCorrect == Spec => []AutoNeverReviewed
<1>1. IInv => AutoNeverReviewed
  BY DEF IInv
<1> QED BY <1>1, Inductive, PTL

\* Extensions that cross each other never add up to more than the hours given.
THEOREM NeverBeyondGivenCorrect == Spec => []NeverBeyondGiven
<1>1. IInv => NeverBeyondGiven
  BY DEF IInv
<1> QED BY <1>1, Inductive, PTL
=============================================================================
