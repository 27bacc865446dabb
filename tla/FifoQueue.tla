------------------------------ MODULE FifoQueue ------------------------------
(***************************************************************************)
(* A first-in first-out queue of distinct keys: what the task controller   *)
(* asks of the queue of pkg/util/queue.  A queue is the sequence of its    *)
(* keys in insertion order; a key is in it at most once.                   *)
(***************************************************************************)
EXTENDS Integers, FiniteSets, SequencesExt

\* PushOrUpdate and PushIfNotPresent: a key that is present keeps its place.
Enqueue(q, k) == IF Contains(q, k) THEN q ELSE Append(q, k)

\* Delete and DeleteByKey: the key leaves, the keys behind it move up.  The keys
\* of a queue are distinct, so any position of the key is its only position.
Withdraw(q, k) ==
  IF Contains(q, k) THEN RemoveAt(q, CHOOSE i \in 1..Len(q) : q[i] = k) ELSE q

\* No key is queued twice.
Distinct(q) == \A i, j \in DOMAIN q : q[i] = q[j] => i = j
=============================================================================
