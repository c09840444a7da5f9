------------------------------ MODULE MiniMap ------------------------------
(***************************************************************************)
(* The map of template/src/MiniMap.c, from which the MiniMap_*.c are       *)
(* generated: two vectors of the same length.  Keys are values that eq_fun *)
(* tells apart, so that eq_fun is equality.                                *)
(***************************************************************************)
EXTENDS MiniVector

Map_make(initial_count) ==
  [keys |-> Vector_make(initial_count), values |-> Vector_make(initial_count)]

Map_destroyed == [keys |-> Vector_destroyed, values |-> Vector_destroyed]

\* The positions of a key.  The loops of replace, get, set and remove stop at the
\* first, which is the only one as long as no key is stored twice.
Places(m, key) == {i \in 0 .. m.keys.count - 1 : m.keys.data[i] = key}

Present(m, key) == Places(m, key) # {}

First(m, key) == CHOOSE i \in Places(m, key) : \A j \in Places(m, key) : i <= j

\* What get copies into *result when it returns true.
Map_get(m, key) == m.values.data[First(m, key)]

Map_replace(m, key, value) ==
  IF Present(m, key)
  THEN [keys |-> m.keys, values |-> Vector_set(m.values, First(m, key), value)]
  ELSE m

Map_set_Appends(m, key, value) ==
  [keys |-> Vector_append(m.keys, key), values |-> Vector_append(m.values, value)]

Map_set(m, key, value) ==
  IF Present(m, key)
  THEN [keys |-> m.keys, values |-> Vector_set(m.values, First(m, key), value)]
  ELSE [keys |-> Vector_append(m.keys, key), values |-> Vector_append(m.values, value)]

Map_remove_LastValue(m, key) ==
  IF Present(m, key)
  THEN [keys   |-> Vector_remove(m.keys, First(m, key)),
        values |-> Vector_remove(m.values, m.values.count - 1)]
  ELSE m

Map_remove(m, key) ==
  IF Present(m, key)
  THEN [keys   |-> Vector_remove(m.keys, First(m, key)),
        values |-> Vector_remove(m.values, First(m, key))]
  ELSE m

-----------------------------------------------------------------------------
\* The map as a function from the keys it holds.
StoredKeys(m) == {m.keys.data[i] : i \in 0 .. m.keys.count - 1}

AsFunction(m) == [key \in StoredKeys(m) |-> Map_get(m, key)]

\* The shape of an allocated map: a value at the place of every key, no key twice.
MapShape(m, Keys, Values) ==
  /\ VectorShape(m.keys, Keys) /\ VectorShape(m.values, Values)
  /\ m.keys.count = m.values.count /\ m.keys.capacity = m.values.capacity
  /\ \A i, j \in 0 .. m.keys.count - 1 : m.keys.data[i] = m.keys.data[j] => i = j
=============================================================================
