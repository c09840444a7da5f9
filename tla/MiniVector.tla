----------------------------- MODULE MiniVector -----------------------------
(***************************************************************************)
(* The growable vector of template/src/MiniVector.c, from which the five   *)
(* MiniVector_*.c are generated, as operators on a record with the fields  *)
(* of the struct.  `capacity' counts elements: the code counts bytes, but  *)
(* only whole elements.  A cell of `data' holds an element, or Garbage: no *)
(* value of the type, as malloc and realloc leave it.  insert, which       *)
(* nothing calls, is left out.                                             *)
(***************************************************************************)
EXTENDS Cells, Integers, Sequences

VECTOR_GROW_RATE == 2

-----------------------------------------------------------------------------
Vector_make(initial_count) ==
  LET capacity == IF initial_count = 0 THEN 10 ELSE initial_count
  IN  [data |-> [i \in 0 .. capacity - 1 |-> Garbage], capacity |-> capacity, count |-> 0]

Vector_destroyed == [data |-> [i \in 0 .. -1 |-> Garbage], capacity |-> 0, count |-> 0]

Vector_grow(v) ==
  LET capacity == v.capacity * VECTOR_GROW_RATE
  IN  [data     |-> [i \in 0 .. capacity - 1 |->
                       IF i < v.capacity THEN v.data[i] ELSE Garbage],
       capacity |-> capacity, count |-> v.count]

\* The vector append works on.
WithRoom_Late(v) == IF v.count > v.capacity THEN Vector_grow(v) ELSE v

WithRoom(v) == IF v.count = v.capacity THEN Vector_grow(v) ELSE v

\* get returns false, and set does nothing, outside of the stored elements.
InRange(v, index) == index < v.count

Vector_set(v, index, element) ==
  IF InRange(v, index)
  THEN [data |-> [v.data EXCEPT ![index] = element], capacity |-> v.capacity,
        count |-> v.count]
  ELSE v

Vector_append(v, element) ==
  LET g == WithRoom(v)
  IN  [data |-> [g.data EXCEPT ![g.count] = element], capacity |-> g.capacity,
       count |-> g.count + 1]

\* The elements behind move down by one; the last cell keeps its old value.
Vector_remove_OneShort(v, index) ==
  IF InRange(v, index)
  THEN [data     |-> [i \in DOMAIN v.data |->
                        IF i \in index .. v.count - 3 THEN v.data[i + 1] ELSE v.data[i]],
        capacity |-> v.capacity, count |-> v.count - 1]
  ELSE v

Vector_remove(v, index) ==
  IF InRange(v, index)
  THEN [data     |-> [i \in DOMAIN v.data |->
                        IF i \in index .. v.count - 2 THEN v.data[i + 1] ELSE v.data[i]],
        capacity |-> v.capacity, count |-> v.count - 1]
  ELSE v

-----------------------------------------------------------------------------
\* The stored elements in order.
Items(v) == [k \in 1 .. v.count |-> v.data[k - 1]]

IsMade(v) == v.capacity > 0

\* The shape of an allocated vector with elements from S: no element beyond the
\* array, and no stored cell without an element.
VectorShape(v, S) ==
  /\ v \in [data : [0 .. v.capacity - 1 -> S \cup {Garbage}], capacity : Nat, count : Nat]
  /\ v.capacity > 0 /\ v.count <= v.capacity
  /\ \A i \in 0 .. v.count - 1 : v.data[i] \in S
=============================================================================
