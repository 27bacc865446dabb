----------------------------- MODULE KeyedQueue -----------------------------
(***************************************************************************)
(* The queue of pkg/util/queue as it lies in memory, used as the task      *)
(* queue uses it: a map of items, and a slice of keys on a backing array   *)
(* that deletions shift in place and insertions fill in place while there  *)
(* is room.  Writers hold the mutex of the TaskQueue; the scheduler lists  *)
(* the queue without it, one key at a time.                                *)
(*                                                                         *)
(* Each access to the array and to the map is atomic here.                 *)
(***************************************************************************)
EXTENDS FifoQueue

CONSTANTS Key, NoKey

ASSUME NoKeyAssumption == NoKey \notin Key

VARIABLES
  items,      \* the keys of the map
  cells, len, \* the backing array of the slice and the length of the slice
  doomed,     \* the key that a deletion has taken from the slice, not yet from the map
  reader,     \* the scheduler in List
  stayed,     \* the keys that have been in the slice ever since List began
  quiet       \* nobody has written since List began

vars == <<items, cells, len, doomed, reader, stayed, quiet>>

keys == SubSeq(cells, 1, len)

\* own = <<>> while the reader iterates over the array that the queue still uses
NoReader == [at |-> "idle", pos |-> 1, size |-> 0, own |-> <<>>, list |-> <<>>]
Array == IF reader.own = <<>> THEN cells ELSE reader.own

Capacity(n) == IF n = 0 THEN 1 ELSE 2 * n
Observed == stayed' = stayed \cap ToSet(keys') /\ quiet' = FALSE

Init == /\ items = {}
        /\ cells = <<>> /\ len = 0
        /\ doomed = NoKey
        /\ reader = NoReader
        /\ stayed = {} /\ quiet = TRUE

-----------------------------------------------------------------------------
(* The writers, under the mutex *)

\* mutant: push of a key that is present
PushAgain(k) ==
  /\ doomed = NoKey /\ len < Len(cells)
  /\ items' = items \cup {k}
  /\ cells' = [cells EXCEPT ![len + 1] = k]
  /\ len' = len + 1
  /\ Observed
  /\ UNCHANGED <<doomed, reader>>

\* push into the spare room of the array
PushInPlace(k) ==
  /\ doomed = NoKey /\ k \notin items /\ len < Len(cells)
  /\ items' = items \cup {k}
  /\ cells' = [cells EXCEPT ![len + 1] = k]
  /\ len' = len + 1
  /\ Observed
  /\ UNCHANGED <<doomed, reader>>

\* push that moves the keys to a larger array; a reader stays with the old one
PushAndGrow(k) ==
  /\ doomed = NoKey /\ k \notin items /\ len = Len(cells)
  /\ items' = items \cup {k}
  /\ cells' = [i \in 1..Capacity(len) |->
                 IF i <= len THEN cells[i] ELSE IF i = len + 1 THEN k ELSE NoKey]
  /\ len' = len + 1
  /\ reader' = IF reader.at # "idle" THEN [reader EXCEPT !.own = Array] ELSE reader
  /\ Observed
  /\ UNCHANGED doomed

\* mutant: the last key takes the place of the deleted one
DeleteSwap(k) ==
  /\ doomed = NoKey /\ k \in items
  /\ \E i \in 1..len :
       /\ cells[i] = k /\ \A j \in 1..(i - 1) : cells[j] # k
       /\ cells' = [cells EXCEPT ![i] = cells[len]]
  /\ len' = len - 1
  /\ doomed' = k
  /\ Observed
  /\ UNCHANGED <<items, reader>>

\* delete: append(keys[:i], keys[i+1:]...) shifts the keys in place and leaves the
\* last cell as it is ...
DeleteShift(k) ==
  /\ doomed = NoKey /\ k \in items
  /\ \E i \in 1..len :
       /\ cells[i] = k /\ \A j \in 1..(i - 1) : cells[j] # k
       /\ cells' = [j \in DOMAIN cells |-> IF j \in i..(len - 1) THEN cells[j + 1] ELSE cells[j]]
  /\ len' = len - 1
  /\ doomed' = k
  /\ Observed
  /\ UNCHANGED <<items, reader>>

\* ... and then the item leaves the map.
DeleteItem ==
  /\ doomed # NoKey
  /\ items' = items \ {doomed}
  /\ doomed' = NoKey
  /\ UNCHANGED <<cells, len, reader, stayed, quiet>>

-----------------------------------------------------------------------------
(* List, without the mutex: range evaluates the slice once *)

\* mutant: the range ends before the last key
ListBeginShort ==
  /\ reader.at = "idle"
  /\ reader' = [NoReader EXCEPT !.at = "read", !.size = len - 1]
  /\ stayed' = ToSet(keys) /\ quiet' = TRUE
  /\ UNCHANGED <<items, cells, len, doomed>>

ListBegin ==
  /\ reader.at = "idle"
  /\ reader' = [NoReader EXCEPT !.at = "read", !.size = len]
  /\ stayed' = ToSet(keys) /\ quiet' = TRUE
  /\ UNCHANGED <<items, cells, len, doomed>>

\* q.items[key].obj dereferences nil when the map no longer has the key.
ListNext ==
  LET k == Array[reader.pos] IN
  /\ reader.at = "read" /\ reader.pos <= reader.size
  /\ reader' = IF k \in items
               THEN [reader EXCEPT !.pos = @ + 1, !.list = Append(@, k)]
               ELSE [reader EXCEPT !.at = "panic"]
  /\ UNCHANGED <<items, cells, len, doomed, stayed, quiet>>

ListReturn ==
  /\ reader.at = "read" /\ reader.pos > reader.size
  /\ reader' = [reader EXCEPT !.at = "returned"]
  /\ UNCHANGED <<items, cells, len, doomed, stayed, quiet>>

ListUsed ==
  /\ reader.at = "returned"
  /\ reader' = NoReader /\ stayed' = {} /\ quiet' = TRUE
  /\ UNCHANGED <<items, cells, len, doomed>>

Writer == \/ \E k \in Key : PushInPlace(k) \/ PushAndGrow(k) \/ DeleteShift(k)
          \/ DeleteItem

Reader == ListBegin \/ ListNext \/ ListReturn \/ ListUsed

Next == Writer \/ Reader

Spec == Init /\ [][Next]_vars

-----------------------------------------------------------------------------
(* Properties *)

\* The array, the slice, the map and the iteration of the reader.
TypeOK ==
  /\ items \in SUBSET Key
  /\ cells \in Seq(Key \cup {NoKey})
  /\ len \in 0..Len(cells)
  /\ doomed \in Key \cup {NoKey}
  /\ reader.at \in {"idle", "read", "panic", "returned"}
  /\ reader.list \in Seq(Key)
  /\ reader.pos \in 1..(reader.size + 1)
  /\ stayed \in SUBSET Key /\ quiet \in BOOLEAN

\* The slice and the map agree whenever the mutex is free, although PushOrUpdate,
\* PushIfNotPresent and delete each change them one after the other.
KeysMatchItems ==
  /\ Distinct(keys)
  /\ ToSet(keys) = items \ {doomed}

\* The slice implements the first-in first-out queue that the task controller relies
\* on: each write appends a key at the end or takes one out, and the order of the
\* others stays, whichever cells of the array have been shifted, reused or moved.
ImplementsFifo ==
  [][\/ keys' = keys
     \/ \E k \in Key : keys' = Enqueue(keys, k) \/ keys' = Withdraw(keys, k)]_vars

\* List is exact when nobody writes while it runs: it does not panic, although a deletion
\* may be between the slice and the map, and it returns the keys of the slice.
QuietListExact == quiet => /\ reader.at # "panic"
                           /\ reader.at = "returned" => reader.list = keys

\* List returns a list of all the items: it does not panic, and it lists once, and
\* only once, every key that was in the queue during the whole call.
ListReturnsAllItems ==
  /\ reader.at # "panic"
  /\ reader.at = "returned" => Distinct(reader.list) /\ stayed \subseteq ToSet(reader.list)
=============================================================================
