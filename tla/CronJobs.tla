------------------------------ MODULE CronJobs ------------------------------
(***************************************************************************)
(* The cron job manager (pkg/cronjob): rows with the configuration of each *)
(* cleaning job in the database, and entries of the cron scheduler in      *)
(* memory.  A row names the entry of its job by an id that the scheduler   *)
(* gives out anew in every process.                                        *)
(*                                                                         *)
(* An update holds the mutex of the manager and runs in one transaction,   *)
(* but an entry is added and removed at once, whatever becomes of the      *)
(* transaction.  One action is one update, or the synchronisation at boot. *)
(***************************************************************************)
EXTENDS Integers, FiniteSets, Functions

CONSTANTS
  Job,          \* names of cron jobs
  Conf,         \* type, schedule and settings of a job, as one value
  Valid,        \* Valid[j]: those that AddCronJob accepts for j
  Seed,         \* Seed[j]: the one that the migration writes
  MaxEntry,     \* bound: the last id that an update gives out in a process
  Budget        \* Budget[f]: bound: how often fault f may happen

Fault == {"write", "commit", "sync", "restart"}

ASSUME CronAssumption ==
  /\ IsFiniteSet(Job)
  /\ Valid \in [Job -> SUBSET Conf]
  /\ Seed \in [Job -> Conf]
  /\ MaxEntry \in Nat
  /\ Budget \in [Fault -> Nat]

VARIABLES
  row,          \* row[j]: the row of j in the table of configurations
  entries,      \* the entries of the scheduler
  nextID,       \* the id of the next entry
  synced,       \* SyncCronJob has run in this process
  spent         \* spent[f]: how often fault f has happened

vars == <<row, entries, nextID, synced, spent>>

NoEntry == -1
Row     == [suspended : BOOLEAN, conf : Conf, entry : Int]
Entry   == [id : Nat \ {0}, job : Job, conf : Conf]

Fails(f) == spent[f] < Budget[f] /\ spent' = [spent EXCEPT ![f] = @ + 1]

\* cron.Remove: no entry, or the one that has the id now
Without(id) == {e \in entries : e.id # id}

\* The migration leaves all jobs suspended.
Init ==
  /\ row = [j \in Job |-> [suspended |-> TRUE, conf |-> Seed[j], entry |-> NoEntry]]
  /\ entries = {}
  /\ nextID = 1
  /\ synced = FALSE
  /\ spent = [f \in Fault |-> 0]

-----------------------------------------------------------------------------
(* UpdateJobConfig *)

\* mutant: the id is not reset, as Updates leaves out fields that are zero
SuspendKeepId(j, c) ==
  /\ ~row[j].suspended
  /\ \/ /\ row' = [row EXCEPT ![j].suspended = TRUE, ![j].conf = c]
        /\ entries' = Without(row[j].entry)
        /\ UNCHANGED spent
     \/ UNCHANGED <<row, entries>> /\ Fails("write")
     \/ UNCHANGED row /\ entries' = Without(row[j].entry) /\ Fails("commit")
  /\ UNCHANGED <<nextID, synced>>

\* updateSuspendedJobConfig: the row first, then the entry
Suspend(j, c) ==
  /\ ~row[j].suspended
  /\ \/ /\ row' = [row EXCEPT ![j] = [suspended |-> TRUE, conf |-> c, entry |-> NoEntry]]
        /\ entries' = Without(row[j].entry)
        /\ UNCHANGED spent
     \/ UNCHANGED <<row, entries>> /\ Fails("write")
     \/ UNCHANGED row /\ entries' = Without(row[j].entry) /\ Fails("commit")
  /\ UNCHANGED <<nextID, synced>>

\* A suspended job that stays suspended: the row alone, and nothing is validated.
EditSuspended(j, c) ==
  /\ row[j].suspended /\ row' = [row EXCEPT ![j].conf = c]
  /\ UNCHANGED <<entries, nextID, synced, spent>>

\* mutant: the entry stays when the row cannot be written
ActivateKeepEntry(j, c) ==
  LET new == [id |-> nextID, job |-> j, conf |-> c] IN
  /\ c \in Valid[j] /\ nextID <= MaxEntry
  /\ nextID' = nextID + 1
  /\ entries' = entries \cup {new}
  /\ \/ /\ row' = [row EXCEPT ![j] = [suspended |-> FALSE, conf |-> c, entry |-> nextID]]
        /\ UNCHANGED spent
     \/ UNCHANGED row /\ (Fails("write") \/ Fails("commit"))
  /\ UNCHANGED synced

\* updateActiveJobConfig, for a job that was suspended and for one that is active
\* already: the entry first, then the row.  The entry of a job that is active stays.
Activate(j, c) ==
  LET kept == IF row[j].suspended /\ row[j].conf # c THEN Without(row[j].entry) ELSE entries
      new  == [id |-> nextID, job |-> j, conf |-> c]
  IN
  /\ nextID <= MaxEntry
  /\ \/ /\ c \notin Valid[j] /\ entries' = kept
        /\ UNCHANGED <<row, nextID, spent>>
     \/ /\ c \in Valid[j] /\ nextID' = nextID + 1
        /\ \/ /\ row' = [row EXCEPT ![j] = [suspended |-> FALSE, conf |-> c, entry |-> nextID]]
              /\ entries' = kept \cup {new}
              /\ UNCHANGED spent
           \/ UNCHANGED row /\ entries' = kept /\ Fails("write")
           \/ UNCHANGED row /\ entries' = kept \cup {new} /\ Fails("commit")
  /\ UNCHANGED synced

-----------------------------------------------------------------------------
(* SyncCronJob, in a goroutine of its own: updates may come before it *)

\* mutant: the ids are not written back
SyncForgetIds ==
  LET active == {j \in Job : ~row[j].suspended /\ row[j].conf \in Valid[j]} IN
  /\ ~synced /\ synced' = TRUE
  /\ nextID' = nextID + Cardinality(active)
  /\ \E id \in [active -> nextID..(nextID + Cardinality(active) - 1)] :
       /\ IsInjective(id)
       /\ entries' = entries \cup {[id |-> id[j], job |-> j, conf |-> row[j].conf] : j \in active}
  /\ UNCHANGED <<row, spent>>

\* An entry for every active job, in no particular order, and its id in the row.  One
\* failed write aborts the transaction, so that no id is written; when the rows
\* cannot be read, nothing is added.
Sync ==
  LET active == {j \in Job : ~row[j].suspended /\ row[j].conf \in Valid[j]} IN
  /\ ~synced /\ synced' = TRUE
  /\ \/ /\ nextID' = nextID + Cardinality(active)
        /\ \E id \in [active -> nextID..(nextID + Cardinality(active) - 1)] :
             /\ IsInjective(id)
             /\ entries' = entries \cup
                  {[id |-> id[j], job |-> j, conf |-> row[j].conf] : j \in active}
             /\ \/ /\ row' = [j \in Job |-> IF j \in active
                                            THEN [row[j] EXCEPT !.entry = id[j]] ELSE row[j]]
                   /\ UNCHANGED spent
                \/ UNCHANGED row /\ Fails("sync")
     \/ UNCHANGED <<row, entries, nextID>> /\ Fails("sync")

\* The process ends, at any point of an update: the transaction is rolled back, or it
\* was committed, and the entries are gone.
Restart ==
  /\ Fails("restart")
  /\ entries' = {} /\ nextID' = 1 /\ synced' = FALSE
  /\ UNCHANGED row

Next == \/ \E j \in Job, c \in Conf : Suspend(j, c) \/ EditSuspended(j, c) \/ Activate(j, c)
        \/ Sync
        \/ Restart

Spec == Init /\ [][Next]_vars

-----------------------------------------------------------------------------
(* Properties *)

\* Rows and entries; a suspended job names no entry (updateSuspendedJobConfig).
TypeOK ==
  /\ row \in [Job -> Row]
  /\ \A j \in Job : row[j].suspended => row[j].entry = NoEntry
  /\ entries \in SUBSET Entry
  /\ nextID \in Nat \ {0}
  /\ \A e \in entries : e.id < nextID
  /\ synced \in BOOLEAN
  /\ spent \in [Fault -> Nat]

\* No transaction of this database has failed to commit, and none at boot has failed.
Committed == spent["commit"] = 0 /\ spent["sync"] = 0

\* Once SyncCronJob has run, every job that is not suspended has an entry, the one that
\* its row names, and with the configuration of the row: after any updates, failed
\* writes and boots, although ids of earlier processes are in the rows.
ActiveIsScheduled ==
  Committed /\ synced =>
    \A j \in Job : ~row[j].suspended =>
      [id |-> row[j].entry, job |-> j, conf |-> row[j].conf] \in entries

\* Once SyncCronJob has run in this process, and while no commit has failed, an update
\* takes no entry of another job out of the scheduler, although it goes by an id, and ids
\* come again in every process (updateSuspendedJobConfig).  Before, it may: the row still
\* names an entry of the last process.
OthersStayScheduled ==
  [][Committed' /\ synced /\ synced' =>
       \A e \in entries \ entries' : row'[e.job] # row[e.job]]_vars

\* An update whose write fails leaves the scheduler as it was (updateActiveJobConfig
\* takes the new entry back).
FailedWriteLeavesNoTrace ==
  [][spent'["write"] # spent["write"] => entries' = entries]_vars

\* A suspended job does not run.
SuspendedStaysSilent == \A e \in entries : ~row[e.job].suspended
=============================================================================
