-------------------------- MODULE KeyedQueueProofs --------------------------
(***************************************************************************)
(* Theorems about the queue in memory, for any set of keys.  What the      *)
(* array holds beyond the slice is left over from deletions and does not   *)
(* matter; the first len cells are the keys.                               *)
(***************************************************************************)
EXTENDS KeyedQueue, SequenceTheorems, TLAPS

Cell == Key \cup {NoKey}

\* The reader, with the fields that TypeOK does not look at.
ReaderRecord == [at : {"idle", "read", "panic", "returned"}, pos : Nat, size : Nat,
                 own : Seq(Cell), list : Seq(Key)]

\* The first len cells are keys, each once, and are the items that no deletion has
\* taken from the slice.
CellsMatchItems ==
  /\ \A i \in 1..len : cells[i] \in items \ {doomed}
  /\ \A i, j \in 1..len : cells[i] = cells[j] => i = j
  /\ \A k \in items \ {doomed} : \E i \in 1..len : cells[i] = k

\* While nobody writes, the reader walks along the array that the queue uses, and its
\* list is what it has passed.
QuietReader ==
  quiet /\ reader.at # "idle" =>
    /\ reader.at # "panic" /\ reader.own = <<>> /\ reader.size = len
    /\ Len(reader.list) = reader.pos - 1
    /\ \A i \in 1..(reader.pos - 1) : reader.list[i] = cells[i]

\* The inductive invariant.
QueueInv ==
  /\ TypeOK
  /\ reader \in ReaderRecord
  /\ reader.at = "returned" => reader.pos = reader.size + 1
  /\ CellsMatchItems
  /\ QuietReader

-----------------------------------------------------------------------------
(* The slice and the array *)

\* The keys are the first cells.
LEMMA SliceProperties ==
  ASSUME NEW S, NEW c \in Seq(S), NEW n \in 0..Len(c)
  PROVE  /\ SubSeq(c, 1, n) \in Seq(S)
         /\ Len(SubSeq(c, 1, n)) = n
         /\ \A i \in 1..n : SubSeq(c, 1, n)[i] = c[i]
<1>1. /\ n \in Nat /\ Len(c) \in Nat /\ n <= Len(c)
      /\ \A i \in 1..n : c[i] \in S
  BY ElementOfSeq
<1>2. 1 \in Int /\ n \in Int
  BY <1>1
<1>3. /\ SubSeq(c, 1, n) \in Seq(S)
      /\ Len(SubSeq(c, 1, n)) = IF 1 <= n THEN n - 1 + 1 ELSE 0
      /\ \A i \in 1..(n - 1 + 1) : SubSeq(c, 1, n)[i] = c[1 + i - 1]
  BY <1>1, <1>2, SubSeqProperties
<1>4. QED
  BY <1>1, <1>3

\* The keys behind a position move up when it is taken out.
LEMMA RemoveAtShifts ==
  ASSUME NEW S, NEW q \in Seq(S), NEW i \in 1..Len(q)
  PROVE  /\ RemoveAt(q, i) \in Seq(S)
         /\ Len(RemoveAt(q, i)) = Len(q) - 1
         /\ \A j \in 1..(Len(q) - 1) : RemoveAt(q, i)[j] = IF j < i THEN q[j] ELSE q[j + 1]
<1> DEFINE n == Len(q)
           front == SubSeq(q, 1, i - 1)
           back == SubSeq(q, i + 1, n)
<1>1. n \in Nat /\ i \in 1..n /\ \A j \in 1..n : q[j] \in S
  BY ElementOfSeq
<1>2. front \in Seq(S) /\ Len(front) = i - 1 /\ \A j \in 1..(i - 1) : front[j] = q[j]
  <2>1. i - 1 \in 0..n
    BY <1>1
  <2>2. QED
    BY <2>1, SliceProperties
<1>3. back \in Seq(S) /\ Len(back) = n - i /\ \A j \in 1..(n - i) : back[j] = q[i + j]
  <2>1. i + 1 \in Int /\ n \in Int /\ \A j \in (i + 1)..n : q[j] \in S
    BY <1>1
  <2>2. /\ back \in Seq(S) /\ Len(back) = IF i + 1 <= n THEN n - (i + 1) + 1 ELSE 0
        /\ \A j \in 1..(n - (i + 1) + 1) : back[j] = q[(i + 1) + j - 1]
    BY <2>1, SubSeqProperties
  <2>3. QED
    BY <1>1, <2>2
<1>4. RemoveAt(q, i) = front \o back
  BY DEF RemoveAt
<1> HIDE DEF front, back, n
<1>5. /\ front \o back \in Seq(S) /\ Len(front \o back) = Len(front) + Len(back)
      /\ \A j \in 1..(Len(front) + Len(back)) :
           (front \o back)[j] = IF j <= Len(front) THEN front[j] ELSE back[j - Len(front)]
  BY <1>2, <1>3, ConcatProperties
<1>6. ASSUME NEW j \in 1..(n - 1)
      PROVE  (front \o back)[j] = IF j < i THEN q[j] ELSE q[j + 1]
  <2>1. j \in 1..(Len(front) + Len(back))
    BY <1>1, <1>2, <1>3
  <2>2. CASE j < i
    BY <1>1, <1>2, <1>5, <2>1, <2>2
  <2>3. CASE ~(j < i)
    <3>1. j - (i - 1) \in 1..(n - i) /\ i + (j - (i - 1)) = j + 1 /\ ~(j <= i - 1)
      BY <1>1, <2>3
    <3>2. back[j - (i - 1)] = q[j + 1]
      BY <1>3, <3>1
    <3>3. QED
      BY <1>2, <1>5, <2>1, <2>3, <3>1, <3>2
  <2>4. QED
    BY <2>2, <2>3
<1>7. Len(front \o back) = n - 1
  BY <1>1, <1>2, <1>3, <1>5
<1>8. QED
  BY <1>4, <1>5, <1>6, <1>7 DEF n

\* The fields of the state that the proofs use over and over.
LEMMA State ==
  ASSUME QueueInv
  PROVE  /\ cells \in Seq(Cell) /\ Len(cells) \in Nat /\ len \in Nat /\ len \in 0..Len(cells)
         /\ items \subseteq Key /\ \A i \in 1..len : cells[i] \in Key
         /\ keys \in Seq(Key) /\ Len(keys) = len /\ \A i \in 1..len : keys[i] = cells[i]
<1>1. /\ cells \in Seq(Cell) /\ Len(cells) \in Nat /\ len \in Nat /\ len \in 0..Len(cells)
      /\ items \subseteq Key
  BY DEF QueueInv, TypeOK, Cell
<1>2. \A i \in 1..len : cells[i] \in Key
  BY <1>1 DEF QueueInv, CellsMatchItems
<1>3. keys \in Seq(Cell) /\ Len(keys) = len /\ \A i \in 1..len : keys[i] = cells[i]
  BY <1>1, SliceProperties DEF keys
<1>4. keys \in Seq(Key)
  BY <1>2, <1>3
<1>5. QED
  BY <1>1, <1>2, <1>3, <1>4

\* The slice and the map agree when the cells do.
LEMMA SliceMatchesItems == QueueInv => KeysMatchItems
<1> SUFFICES ASSUME QueueInv PROVE KeysMatchItems
  OBVIOUS
<1>1. DOMAIN keys = 1..len /\ \A i \in 1..len : keys[i] = cells[i]
  BY State
<1>2. Distinct(keys)
  BY <1>1 DEF QueueInv, CellsMatchItems, Distinct
<1>3. ToSet(keys) = items \ {doomed}
  <2>1. ASSUME NEW k \in items \ {doomed} PROVE k \in ToSet(keys)
    BY <1>1, <2>1 DEF QueueInv, CellsMatchItems, ToSet
  <2>2. ASSUME NEW k \in ToSet(keys) PROVE k \in items \ {doomed}
    BY <1>1, <2>2 DEF QueueInv, CellsMatchItems, ToSet
  <2>3. QED
    BY <2>1, <2>2
<1>4. QED
  BY <1>2, <1>3 DEF KeysMatchItems

-----------------------------------------------------------------------------
(* The writers *)

\* A key that is new goes behind the others, in place or in a larger array.
LEMMA PushEffect ==
  ASSUME QueueInv, NEW k \in Key \ items, NEW c \in Seq(Cell),
         len + 1 \in 1..Len(c), \A i \in 1..len : c[i] = cells[i], c[len + 1] = k,
         doomed = NoKey, doomed' = doomed, items' = items \cup {k}, cells' = c, len' = len + 1
  PROVE  CellsMatchItems' /\ keys' = Enqueue(keys, k)
<1>1. /\ len \in Nat /\ keys \in Seq(Key) /\ Len(keys) = len
      /\ \A i \in 1..len : keys[i] = cells[i] /\ cells[i] \in Key
  BY State
<1>2. \A i \in 1..len : cells[i] \in items /\ cells[i] # k
  BY DEF QueueInv, CellsMatchItems
<1>3. doomed \notin items'
  BY NoKeyAssumption DEF QueueInv, TypeOK
<1>4. CellsMatchItems'
  <2>1. \A i \in 1..len' : cells'[i] \in items' \ {doomed'}
    BY <1>1, <1>2, <1>3
  <2>2. \A i, j \in 1..len' : cells'[i] = cells'[j] => i = j
    <3>1. \A i, j \in 1..len : cells[i] = cells[j] => i = j
      BY DEF QueueInv, CellsMatchItems
    <3>2. QED
      BY <1>1, <1>2, <3>1
  <2>3. \A x \in items' \ {doomed'} : \E i \in 1..len' : cells'[i] = x
    <3>1. \A x \in items \ {doomed} : \E i \in 1..len : cells[i] = x
      BY DEF QueueInv, CellsMatchItems
    <3>2. QED
      BY <1>1, <3>1
  <2>4. QED
    BY <2>1, <2>2, <2>3 DEF CellsMatchItems
<1>5. keys' = Append(keys, k)
  <2>1. keys' = SubSeq(c, 1, len + 1) /\ len + 1 \in 0..Len(c) /\ k \in Cell
    BY <1>1 DEF keys, Cell
  <2>2. keys' \in Seq(Cell) /\ Len(keys') = len + 1 /\ \A i \in 1..(len + 1) : keys'[i] = c[i]
    BY <2>1, SliceProperties
  <2>3. /\ Append(keys, k) \in Seq(Key) /\ Len(Append(keys, k)) = len + 1
        /\ \A i \in 1..len : Append(keys, k)[i] = keys[i]
        /\ Append(keys, k)[len + 1] = k
    BY <1>1, AppendProperties
  <2>4. Append(keys, k) \in Seq(Cell)
    BY <2>3, SeqMonotonic DEF Cell
  <2>5. \A i \in 1..(len + 1) : keys'[i] = Append(keys, k)[i]
    BY <1>1, <2>2, <2>3
  <2>6. QED
    BY <2>2, <2>3, <2>4, <2>5, SeqEqual
<1>6. ~Contains(keys, k)
  BY <1>1, <1>2 DEF Contains
<1>7. QED
  BY <1>4, <1>5, <1>6 DEF Enqueue

LEMMA PushInPlaceEffect ==
  ASSUME QueueInv, NEW k \in Key, PushInPlace(k)
  PROVE  /\ CellsMatchItems' /\ keys' = Enqueue(keys, k)
         /\ cells' \in Seq(Cell) /\ len' \in 0..Len(cells')
<1>1. cells \in Seq(Cell) /\ len \in Nat /\ len + 1 \in 1..Len(cells) /\ k \in Cell
  BY State DEF PushInPlace, Cell
<1> DEFINE c == [cells EXCEPT ![len + 1] = k]
<1>2. /\ c \in Seq(Cell) /\ Len(c) = Len(cells)
      /\ \A i \in 1..Len(cells) : c[i] = IF i = len + 1 THEN k ELSE cells[i]
  BY <1>1, ExceptSeq
<1> HIDE DEF c
<1>3. len + 1 \in 1..Len(c) /\ c[len + 1] = k /\ \A i \in 1..len : c[i] = cells[i]
  BY <1>1, <1>2
<1>4. /\ cells' = c /\ len' = len + 1 /\ k \in Key \ items /\ items' = items \cup {k}
      /\ doomed = NoKey /\ doomed' = doomed
  BY DEF PushInPlace, c
<1>5. QED
  BY <1>1, <1>2, <1>3, <1>4, PushEffect

LEMMA PushAndGrowEffect ==
  ASSUME QueueInv, NEW k \in Key, PushAndGrow(k)
  PROVE  /\ CellsMatchItems' /\ keys' = Enqueue(keys, k)
         /\ cells' \in Seq(Cell) /\ len' \in 0..Len(cells')
<1> DEFINE n == Capacity(len)
           c == [i \in 1..n |-> IF i <= len THEN cells[i] ELSE IF i = len + 1 THEN k ELSE NoKey]
<1>1. len \in Nat /\ n \in Nat /\ len + 1 \in 1..n /\ \A i \in 1..len : cells[i] \in Cell
  BY State DEF Capacity, Cell
<1> HIDE DEF n
<1>2. \A i \in 1..n : c[i] \in Cell
  BY <1>1 DEF Cell
<1>3. c \in Seq(Cell) /\ Len(c) = n
  BY <1>1, <1>2
<1>4. len + 1 \in 1..Len(c) /\ c[len + 1] = k /\ \A i \in 1..len : c[i] = cells[i]
  BY <1>1, <1>3
<1>5. /\ cells' = c /\ len' = len + 1 /\ k \in Key \ items /\ items' = items \cup {k}
      /\ doomed = NoKey /\ doomed' = doomed
  BY DEF PushAndGrow, n
<1> HIDE DEF c
<1>6. QED
  BY <1>1, <1>3, <1>4, <1>5, PushEffect

LEMMA DeleteShiftEffect ==
  ASSUME QueueInv, NEW k \in Key, DeleteShift(k)
  PROVE  /\ CellsMatchItems' /\ keys' = Withdraw(keys, k)
         /\ cells' \in Seq(Cell) /\ len' \in 0..Len(cells')
<1>1. /\ cells \in Seq(Cell) /\ Len(cells) \in Nat /\ len \in Nat /\ len <= Len(cells)
      /\ keys \in Seq(Key) /\ Len(keys) = len /\ \A i \in 1..len : keys[i] = cells[i]
      /\ items \subseteq Key
  BY State
<1>2. PICK i \in 1..len :
        /\ cells[i] = k
        /\ cells' = [j \in DOMAIN cells |-> IF j \in i..(len - 1) THEN cells[j + 1] ELSE cells[j]]
  BY DEF DeleteShift
<1>3. len' = len - 1 /\ doomed' = k /\ items' = items /\ doomed = NoKey /\ k \in items
  BY DEF DeleteShift
<1>4. /\ cells' \in Seq(Cell) /\ Len(cells') = Len(cells) /\ len' \in 0..Len(cells')
      /\ \A j \in 1..(len - 1) : cells'[j] = IF j < i THEN cells[j] ELSE cells[j + 1]
  <2>1. DOMAIN cells = 1..Len(cells) /\ \A j \in 1..Len(cells) : cells[j] \in Cell
    BY <1>1, ElementOfSeq
  <2>2. \A j \in 1..Len(cells) : cells'[j] = IF j \in i..(len - 1) THEN cells[j + 1] ELSE cells[j]
    BY <1>2, <2>1
  <2>3. \A j \in 1..Len(cells) : cells'[j] \in Cell
    BY <1>1, <2>1, <2>2
  <2>4. cells' \in Seq(Cell) /\ Len(cells') = Len(cells)
    BY <1>1, <1>2, <2>1, <2>3
  <2>5. QED
    BY <1>1, <1>2, <1>3, <2>2, <2>4
<1>5. \A a, b \in 1..len : cells[a] = cells[b] => a = b
  BY DEF QueueInv, CellsMatchItems
<1>6. CellsMatchItems'
  <2>1. \A j \in 1..len' : cells'[j] \in items' \ {doomed'}
    BY <1>1, <1>2, <1>3, <1>4, <1>5 DEF QueueInv, CellsMatchItems
  <2>2. \A a, b \in 1..len' : cells'[a] = cells'[b] => a = b
    <3> SUFFICES ASSUME NEW a \in 1..(len - 1), NEW b \in 1..(len - 1), cells'[a] = cells'[b]
                 PROVE  a = b
      BY <1>3
    <3> DEFINE from(j) == IF j < i THEN j ELSE j + 1
    <3>1. from(a) \in 1..len /\ from(b) \in 1..len
      BY <1>1
    <3>2. cells[from(a)] = cells[from(b)]
      BY <1>4
    <3>3. from(a) = from(b)
      BY <1>5, <3>1, <3>2
    <3>4. QED
      BY <1>1, <3>3
  <2>3. \A x \in items' \ {doomed'} : \E j \in 1..len' : cells'[j] = x
    <3> SUFFICES ASSUME NEW x \in items \ {k} PROVE \E j \in 1..(len - 1) : cells'[j] = x
      BY <1>3
    <3>1. x # doomed
      BY <1>1, <1>3, NoKeyAssumption
    <3>2. PICK j \in 1..len : cells[j] = x /\ j # i
      BY <1>2, <3>1 DEF QueueInv, CellsMatchItems
    <3>3. CASE j < i
      BY <1>1, <1>2, <1>4, <3>2, <3>3
    <3>4. CASE j > i
      <4>1. j - 1 \in 1..(len - 1) /\ ~(j - 1 < i)
        BY <1>1, <3>4
      <4>2. cells'[j - 1] = x
        BY <1>4, <3>2, <4>1
      <4>3. QED
        BY <4>1, <4>2
    <3>5. QED
      BY <3>2, <3>3, <3>4
  <2>4. QED
    BY <2>1, <2>2, <2>3 DEF CellsMatchItems
<1>7. keys' = RemoveAt(keys, i)
  <2>1. /\ RemoveAt(keys, i) \in Seq(Key) /\ Len(RemoveAt(keys, i)) = len - 1
        /\ \A j \in 1..(len - 1) : RemoveAt(keys, i)[j] = IF j < i THEN keys[j] ELSE keys[j + 1]
    BY <1>1, RemoveAtShifts
  <2>2. keys' \in Seq(Cell) /\ Len(keys') = len - 1 /\ \A j \in 1..(len - 1) : keys'[j] = cells'[j]
    BY <1>3, <1>4, SliceProperties DEF keys
  <2>3. RemoveAt(keys, i) \in Seq(Cell)
    BY <2>1, SeqMonotonic DEF Cell
  <2>4. \A j \in 1..(len - 1) : keys'[j] = RemoveAt(keys, i)[j]
    BY <1>1, <1>4, <2>1, <2>2
  <2>5. QED
    BY <2>1, <2>2, <2>3, <2>4, SeqEqual
<1> DEFINE at == CHOOSE j \in 1..Len(keys) : keys[j] = k
<1>8. Contains(keys, k) /\ at = i
  BY <1>1, <1>2, <1>5 DEF Contains
<1>9. Withdraw(keys, k) = RemoveAt(keys, at)
  BY <1>8 DEF Withdraw
<1> HIDE DEF at
<1>10. QED
  BY <1>4, <1>6, <1>7, <1>8, <1>9

\* A deletion that goes on to the map leaves the slice as it is.
LEMMA DeleteItemEffect ==
  ASSUME QueueInv, DeleteItem
  PROVE  CellsMatchItems' /\ keys' = keys
<1>1. doomed \in Key /\ doomed' = NoKey /\ items' = items \ {doomed} /\ cells' = cells /\ len' = len
  BY DEF QueueInv, TypeOK, DeleteItem
<1>2. items' \ {doomed'} = items \ {doomed}
  BY <1>1, NoKeyAssumption DEF QueueInv, TypeOK
<1>3. QED
  BY <1>1, <1>2 DEF QueueInv, CellsMatchItems, keys

\* Whatever a writer does, the array stays well formed and the slice moves as the
\* first-in first-out queue does.
LEMMA WriterEffect ==
  ASSUME QueueInv, Writer
  PROVE  /\ CellsMatchItems' /\ cells' \in Seq(Cell) /\ len' \in 0..Len(cells')
         /\ items' \in SUBSET Key /\ doomed' \in Cell
         /\ \/ keys' = keys
            \/ \E k \in Key : keys' = Enqueue(keys, k) \/ keys' = Withdraw(keys, k)
<1>1. items \in SUBSET Key /\ doomed \in Cell /\ cells \in Seq(Cell) /\ len \in 0..Len(cells)
  BY DEF QueueInv, TypeOK, Cell
<1>2. ASSUME NEW k \in Key, PushInPlace(k) \/ PushAndGrow(k) \/ DeleteShift(k)
      PROVE  items' \in SUBSET Key /\ doomed' \in Cell
  BY <1>1, <1>2 DEF PushInPlace, PushAndGrow, DeleteShift, Cell
<1>3. CASE DeleteItem
  <2>1. items' \in SUBSET Key /\ doomed' \in Cell /\ cells' = cells /\ len' = len
    BY <1>1, <1>3 DEF DeleteItem, Cell
  <2>2. QED
    BY <1>1, <1>3, <2>1, DeleteItemEffect
<1>4. QED
  BY <1>2, <1>3, PushInPlaceEffect, PushAndGrowEffect, DeleteShiftEffect DEF Writer

LEMMA WriterInductive ==
  ASSUME QueueInv, Writer
  PROVE  QueueInv'
<1>1. /\ CellsMatchItems' /\ cells' \in Seq(Cell) /\ len' \in 0..Len(cells')
      /\ items' \in SUBSET Key /\ doomed' \in Cell
  BY WriterEffect
<1>2. reader \in ReaderRecord /\ cells \in Seq(Cell) /\ reader.own \in Seq(Cell)
  BY DEF QueueInv, TypeOK, ReaderRecord, Cell
<1>3. stayed' \in SUBSET Key /\ quiet' \in BOOLEAN
  BY DEF QueueInv, TypeOK, Writer, PushInPlace, PushAndGrow, DeleteShift, DeleteItem, Observed
<1>4. /\ reader' \in ReaderRecord
      /\ reader'.at = reader.at /\ reader'.pos = reader.pos /\ reader'.size = reader.size
      /\ reader'.list = reader.list
  <2>1. Array \in Seq(Cell)
    BY <1>2 DEF Array
  <2>2. CASE reader' = reader
    BY <1>2, <2>2
  <2>3. CASE reader' = [reader EXCEPT !.own = Array]
    BY <1>2, <2>1, <2>3 DEF ReaderRecord
  <2>4. QED
    BY <2>2, <2>3 DEF Writer, PushInPlace, PushAndGrow, DeleteShift, DeleteItem
<1>5. TypeOK'
  BY <1>1, <1>3, <1>4 DEF QueueInv, TypeOK, Cell
<1>6. QuietReader'
  <2>1. CASE DeleteItem
    BY <2>1 DEF QueueInv, QuietReader, DeleteItem
  <2>2. CASE ~quiet'
    BY <2>2 DEF QuietReader
  <2>3. QED
    BY <2>1, <2>2 DEF Writer, PushInPlace, PushAndGrow, DeleteShift, Observed
<1>7. reader'.at = "returned" => reader'.pos = reader'.size + 1
  BY <1>4 DEF QueueInv
<1>8. QED
  BY <1>1, <1>4, <1>5, <1>6, <1>7 DEF QueueInv

-----------------------------------------------------------------------------
(* The reader *)

\* The list of a quiet reader grows by the key it reads, which is an item.
LEMMA ListNextQuiet ==
  ASSUME QueueInv, ListNext, quiet
  PROVE  QuietReader'
<1> DEFINE k == Array[reader.pos]
<1>1. /\ reader.at = "read" /\ reader.pos \in 1..reader.size /\ reader.size = len /\ len \in Nat
      /\ reader \in ReaderRecord /\ reader.pos \in Nat
      /\ reader.own = <<>> /\ Len(reader.list) = reader.pos - 1
      /\ \A i \in 1..(reader.pos - 1) : reader.list[i] = cells[i]
  BY State DEF QueueInv, TypeOK, ReaderRecord, QuietReader, ListNext
<1>2. k = cells[reader.pos] /\ k \in items /\ k \in Key
  BY <1>1, State DEF QueueInv, CellsMatchItems, Array
<1>3. reader' = [reader EXCEPT !.pos = reader.pos + 1, !.list = Append(reader.list, k)]
  BY <1>2 DEF ListNext
<1>4. reader.list \in Seq(Key)
  BY <1>1 DEF ReaderRecord
<1> HIDE DEF k
<1>5. /\ Len(Append(reader.list, k)) = reader.pos
      /\ \A i \in 1..(reader.pos - 1) : Append(reader.list, k)[i] = cells[i]
      /\ Append(reader.list, k)[reader.pos] = cells[reader.pos]
  BY <1>1, <1>2, <1>4, AppendProperties
<1>6. /\ reader'.at = "read" /\ reader'.pos = reader.pos + 1 /\ reader'.size = reader.size
      /\ reader'.own = <<>> /\ reader'.list = Append(reader.list, k)
  BY <1>1, <1>3 DEF ReaderRecord
<1>7. \A i \in 1..(reader'.pos - 1) : reader'.list[i] = cells[i]
  BY <1>1, <1>5, <1>6
<1>8. cells' = cells /\ len' = len
  BY DEF ListNext
<1>9. QED
  BY <1>1, <1>5, <1>6, <1>7, <1>8 DEF QuietReader

LEMMA ReaderInductive ==
  ASSUME QueueInv, Reader
  PROVE  QueueInv'
<1>1. /\ UNCHANGED <<items, cells, len, doomed>> /\ TypeOK /\ reader \in ReaderRecord
      /\ reader.at = "returned" => reader.pos = reader.size + 1
      /\ len \in Nat /\ items \subseteq Key
  BY State DEF QueueInv, Reader, ListBegin, ListNext, ListReturn, ListUsed
<1>2. CellsMatchItems'
  BY <1>1 DEF QueueInv, CellsMatchItems
<1>3. <<>> \in Seq(Key) /\ <<>> \in Seq(Cell)
  BY EmptySeq
<1>4. ASSUME reader' \in ReaderRecord, reader'.pos \in 1..(reader'.size + 1),
             stayed' \in SUBSET Key, quiet' \in BOOLEAN,
             reader'.at = "returned" => reader'.pos = reader'.size + 1, QuietReader'
      PROVE  QueueInv'
  <2>1. TypeOK'
    BY <1>1, <1>4 DEF TypeOK, ReaderRecord
  <2>2. QED
    BY <1>2, <1>4, <2>1 DEF QueueInv
<1>5. CASE ListBegin
  <2>1. reader' = [at |-> "read", pos |-> 1, size |-> len, own |-> <<>>, list |-> <<>>]
    BY <1>5 DEF ListBegin, NoReader
  <2>2. reader' \in ReaderRecord
    BY <1>1, <1>3, <2>1 DEF ReaderRecord
  <2>3. stayed' \in SUBSET Key
    <3>1. ToSet(keys) = items \ {doomed}
      BY SliceMatchesItems DEF KeysMatchItems
    <3>2. QED
      BY <1>1, <1>5, <3>1 DEF ListBegin
  <2>4. QuietReader'
    BY <1>1, <2>1 DEF QuietReader
  <2>5. reader'.at # "returned" /\ reader'.pos = 1 /\ reader'.size = len
    BY <2>1
  <2>6. reader'.pos \in 1..(reader'.size + 1)
    BY <1>1, <2>5
  <2>7. quiet' \in BOOLEAN
    BY <1>5 DEF ListBegin
  <2>8. QED
    BY <1>4, <2>2, <2>3, <2>4, <2>5, <2>6, <2>7
<1>6. CASE ListNext
  <2> DEFINE k == Array[reader.pos]
  <2>1. /\ reader.at = "read" /\ reader.pos \in Nat /\ reader.pos \in 1..reader.size
        /\ reader.list \in Seq(Key) /\ UNCHANGED <<stayed, quiet>>
    BY <1>1, <1>6 DEF ListNext, TypeOK, ReaderRecord
  <2>2. \/ reader' = [reader EXCEPT !.at = "panic"]
        \/ k \in Key /\ reader' = [reader EXCEPT !.pos = reader.pos + 1, !.list = Append(reader.list, k)]
    BY <1>1, <1>6 DEF ListNext
  <2> HIDE DEF k
  <2>3. k \in Key => Append(reader.list, k) \in Seq(Key)
    BY <2>1, AppendProperties
  <2>4. /\ reader' \in ReaderRecord /\ reader'.at # "returned"
        /\ reader'.pos \in 1..(reader'.size + 1)
    <3>1. CASE reader' = [reader EXCEPT !.at = "panic"]
      BY <1>1, <2>1, <3>1 DEF TypeOK, ReaderRecord
    <3>2. ASSUME NEW list \in Seq(Key),
                 reader' = [reader EXCEPT !.pos = reader.pos + 1, !.list = list]
          PROVE  /\ reader' \in ReaderRecord /\ reader'.at # "returned"
                 /\ reader'.pos \in 1..(reader'.size + 1)
      <4>1. /\ reader'.at = "read" /\ reader'.pos = reader.pos + 1 /\ reader'.size = reader.size
            /\ reader'.own = reader.own /\ reader'.list = list
        BY <1>1, <2>1, <3>2 DEF ReaderRecord
      <4>2. reader.size \in Nat /\ reader.own \in Seq(Cell)
        BY <1>1 DEF ReaderRecord
      <4>3. reader'.pos \in Nat /\ reader'.pos \in 1..(reader'.size + 1)
        BY <2>1, <4>1, <4>2
      <4>4. reader' \in ReaderRecord
        BY <1>1, <3>2, <4>1, <4>3 DEF ReaderRecord
      <4>5. QED
        BY <4>1, <4>3, <4>4
    <3>3. QED
      BY <2>2, <2>3, <3>1, <3>2
  <2>5. QuietReader'
    <3>1. CASE quiet
      BY <1>6, <3>1, ListNextQuiet
    <3>2. CASE ~quiet
      BY <2>1, <3>2 DEF QuietReader
    <3>3. QED
      BY <3>1, <3>2
  <2>6. QED
    BY <1>1, <1>4, <2>1, <2>4, <2>5 DEF TypeOK
<1>7. CASE ListReturn
  <2>1. /\ reader.at = "read" /\ reader.pos \in 1..(reader.size + 1) /\ reader.pos > reader.size
        /\ reader.size \in Nat /\ UNCHANGED <<stayed, quiet>>
    BY <1>1, <1>7 DEF ListReturn, TypeOK, ReaderRecord
  <2>2. /\ reader' \in ReaderRecord /\ reader'.at = "returned"
        /\ reader'.pos = reader.pos /\ reader'.size = reader.size
        /\ reader'.own = reader.own /\ reader'.list = reader.list
    BY <1>1, <1>7 DEF ListReturn, ReaderRecord
  <2>3. QuietReader'
    BY <1>1, <2>1, <2>2 DEF QueueInv, QuietReader
  <2>4. QED
    BY <1>1, <1>4, <2>1, <2>2, <2>3 DEF TypeOK
<1>8. CASE ListUsed
  <2>1. reader' = NoReader /\ stayed' = {} /\ quiet' = TRUE
    BY <1>8 DEF ListUsed
  <2>2. reader' \in ReaderRecord /\ reader'.at = "idle" /\ reader'.pos = 1 /\ reader'.size = 0
    BY <1>3, <2>1 DEF NoReader, ReaderRecord
  <2>3. QuietReader'
    BY <2>2 DEF QuietReader
  <2>4. QED
    BY <1>4, <2>1, <2>2, <2>3
<1>9. QED
  BY <1>5, <1>6, <1>7, <1>8 DEF Reader

-----------------------------------------------------------------------------
(* Theorems *)

LEMMA Initial == Init => QueueInv
<1> SUFFICES ASSUME Init PROVE QueueInv
  OBVIOUS
<1>1. <<>> \in Seq(Key) /\ <<>> \in Seq(Cell) /\ Len(<<>>) = 0
  BY EmptySeq
<1>2. TypeOK /\ reader \in ReaderRecord
  BY <1>1 DEF Init, NoReader, TypeOK, ReaderRecord, Cell
<1>3. CellsMatchItems /\ QuietReader /\ reader.at # "returned"
  BY DEF Init, NoReader, CellsMatchItems, QuietReader
<1>4. QED
  BY <1>2, <1>3 DEF QueueInv

LEMMA Inductive == QueueInv /\ [Next]_vars => QueueInv'
<1>1. CASE UNCHANGED vars
  BY <1>1 DEF vars, QueueInv, TypeOK, ReaderRecord, CellsMatchItems, QuietReader
<1>2. QED
  BY <1>1, WriterInductive, ReaderInductive DEF Next

\* The inductive invariant holds of every state that the code reaches.
THEOREM QueueInvariant == Spec => []QueueInv
BY Initial, Inductive, PTL DEF Spec

\* The array, the slice, the map and the reader keep their types.
THEOREM KeyedQueueTypeOK == Spec => []TypeOK
<1>1. QueueInv => TypeOK
  BY DEF QueueInv
<1>2. QED
  BY <1>1, QueueInvariant, PTL

\* The slice holds the keys of the map, each once, except the key that a deletion is
\* about to take from the map.
THEOREM SliceAndMapAgree == Spec => []KeysMatchItems
BY SliceMatchesItems, QueueInvariant, PTL

\* A list that nobody disturbs neither panics nor misses or repeats a key.
THEOREM QuietListIsExact == Spec => []QuietListExact
<1>1. QueueInv => QuietListExact
  <2> SUFFICES ASSUME QueueInv, quiet
               PROVE  /\ reader.at # "panic"
                      /\ reader.at = "returned" => reader.list = keys
    BY DEF QuietListExact
  <2>1. reader.at # "panic"
    BY DEF QueueInv, QuietReader
  <2>2. CASE reader.at = "returned"
    <3>1. /\ keys \in Seq(Key) /\ Len(keys) = len /\ \A i \in 1..len : keys[i] = cells[i]
          /\ len \in Nat
      BY State
    <3>2. reader.list \in Seq(Key) /\ reader.pos = len + 1
      BY <2>2 DEF QueueInv, QuietReader, ReaderRecord
    <3>3. Len(reader.list) = len /\ \A i \in 1..len : reader.list[i] = keys[i]
      BY <2>2, <3>1, <3>2 DEF QueueInv, QuietReader
    <3>4. reader.list = keys
      BY <3>1, <3>2, <3>3, SeqEqual
    <3>5. QED
      BY <2>1, <3>4
  <2>3. QED
    BY <2>1, <2>2
<1>2. QED
  BY <1>1, QueueInvariant, PTL

\* The slice on its array implements the first-in first-out queue of the task
\* controller: every step leaves its keys alone, appends a new one or takes one out.
THEOREM SliceImplementsFifo == Spec => ImplementsFifo
<1> DEFINE Step == \/ keys' = keys
                   \/ \E k \in Key : keys' = Enqueue(keys, k) \/ keys' = Withdraw(keys, k)
<1>1. QueueInv /\ [Next]_vars => Step
  <2> SUFFICES ASSUME QueueInv, [Next]_vars PROVE Step
    OBVIOUS
  <2>1. CASE Writer
    BY <2>1, WriterEffect
  <2>2. CASE Reader \/ UNCHANGED vars
    <3>1. cells' = cells /\ len' = len
      BY <2>2 DEF Reader, ListBegin, ListNext, ListReturn, ListUsed, vars
    <3>2. keys' = keys
      BY <3>1 DEF keys
    <3>3. QED
      BY <3>2
  <2>3. QED
    BY <2>1, <2>2 DEF Next
<1>2. QED
  BY <1>1, QueueInvariant, PTL DEF Spec, ImplementsFifo
=============================================================================
