----------------------------- MODULE RingBuffer -----------------------------
(***************************************************************************)
(* The growing ring buffer of src/RingBuffer_ResolverData.c, as operators  *)
(* on a record with the fields of the C struct.  `data' is the allocated   *)
(* array: an element, Zero where memset cleared the cell, Garbage where    *)
(* malloc or realloc left it uninitialized.                                *)
(***************************************************************************)
EXTENDS Cells, Integers, Sequences

CONSTANTS Elem, Zero

ASSUME CellAssumption == Zero \notin Elem /\ Garbage \notin Elem

Cell == Elem \cup {Zero, Garbage}

GROW_RATE == 2

-----------------------------------------------------------------------------
RingBuffer_make(initial_count) ==
  LET capacity == IF initial_count = 0 THEN 10 ELSE initial_count
  IN  [data   |-> [i \in 0 .. capacity - 1 |-> Garbage],
       index  |-> 0, stored |-> 0, count |-> capacity]

\* The array is freed and every field zeroed.
RingBuffer_destroyed ==
  [data |-> [i \in 0 .. -1 |-> Garbage], index |-> 0, stored |-> 0, count |-> 0]

\* realloc keeps the old cells; the part that wrapped around, [0, index), moves
\* to the old end and the cells it leaves are cleared.
RingBuffer_grow_NotMoved(r) ==
  [data   |-> [i \in 0 .. r.count * GROW_RATE - 1 |->
                 IF i < r.count THEN r.data[i] ELSE Garbage],
   index  |-> r.index, stored |-> r.stored, count |-> r.count * GROW_RATE]

RingBuffer_grow_NotCleared(r) ==
  [data   |-> [i \in 0 .. r.count * GROW_RATE - 1 |->
                 IF i < r.count THEN r.data[i]
                 ELSE IF i - r.count < r.index THEN r.data[i - r.count]
                 ELSE Garbage],
   index  |-> r.index, stored |-> r.stored, count |-> r.count * GROW_RATE]

RingBuffer_grow(r) ==
  [data   |-> [i \in 0 .. r.count * GROW_RATE - 1 |->
                 IF i < r.index THEN Zero
                 ELSE IF i < r.count THEN r.data[i]
                 ELSE IF i - r.count < r.index THEN r.data[i - r.count]
                 ELSE Garbage],
   index  |-> r.index, stored |-> r.stored, count |-> r.count * GROW_RATE]

RingBuffer_append(r, element) ==
  LET g == IF r.stored = r.count THEN RingBuffer_grow(r) ELSE r
      write_index == (g.index + g.stored) % g.count
  IN  [data   |-> [g.data EXCEPT ![write_index] = element],
       index  |-> g.index, stored |-> g.stored + 1, count |-> g.count]

\* What peek and retrieve copy into *result, and what retrieve leaves behind;
\* both return false without touching anything when nothing is stored.
RingBuffer_peek(r) == r.data[r.index]

RingBuffer_retrieve(r) ==
  [data   |-> [r.data EXCEPT ![r.index] = Zero],
   index  |-> (r.index + 1) % r.count, stored |-> r.stored - 1, count |-> r.count]

-----------------------------------------------------------------------------
\* Where the k-th stored element (from 0) is, and the stored elements in order.
Slot(r, k) == (r.index + k) % r.count

LiveSlots(r) == {Slot(r, k) : k \in 0 .. r.stored - 1}

Contents(r) == [k \in 1 .. r.stored |-> r.data[Slot(r, k - 1)]]

IsAllocated(r) == r.count > 0

(***************************************************************************)
(* The shape of an allocated buffer: index is "always clamped between      *)
(* [0, count[", never more elements than cells, and exactly the live       *)
(* cells hold an element, so no read returns uninitialized memory and      *)
(* nothing stale survives in a cell that was read or moved.                *)
(***************************************************************************)
RingShape(r) ==
  /\ r \in [data : [0 .. r.count - 1 -> Cell], index : Nat, stored : Nat, count : Nat]
  /\ r.count > 0 /\ r.index < r.count /\ r.stored <= r.count

LiveCellsHoldElements(r) ==
  \A i \in 0 .. r.count - 1 : r.data[i] \in Elem <=> i \in LiveSlots(r)
=============================================================================
