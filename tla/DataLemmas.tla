----------------------------- MODULE DataLemmas -----------------------------
(***************************************************************************)
(* Facts about the data structures that the proofs about their users cite: *)
(* induction, recursion and division of numbers, the vector of MiniVector  *)
(* and the map of MiniMap.                                                 *)
(***************************************************************************)
EXTENDS MiniMap, WellFoundedInduction, TLAPS

-----------------------------------------------------------------------------
(* Induction, with a set in the place of the predicate.                    *)

Below == {p \in Nat \X Nat : p[1] < p[2]}

LEMMA BelowIsWellFounded == IsWellFoundedOn(Below, Nat)
  BY NatLessThanWellFounded DEF OpToRel, Below

\* Every set of numbers that is not empty has a least.
LEMMA LeastNumber ==
  ASSUME NEW T, T \subseteq Nat, T # {}
  PROVE  \E n \in T : \A m \in T : n <= m
  <1>1. PICK n \in T : \A m \in T : <<m, n>> \notin Below
    BY BelowIsWellFounded, WFMin
  <1>2. ASSUME NEW m \in T PROVE n <= m
    <2>1. m \in Nat /\ n \in Nat
      OBVIOUS
    <2>2. <<m, n>> \notin {p \in Nat \X Nat : p[1] < p[2]}
      BY <1>1 DEF Below
    <2> QED
      BY <2>1, <2>2
  <1> QED
    BY <1>2

\* A set with 0 and the successor of each of its numbers has all of them.
LEMMA Induction ==
  ASSUME NEW P, 0 \in P, \A n \in Nat : n \in P => n + 1 \in P
  PROVE  Nat \subseteq P
  <1> SUFFICES ASSUME Nat \ P # {} PROVE FALSE
    OBVIOUS
  <1>1. PICK n \in Nat \ P : \A m \in Nat \ P : n <= m
    BY LeastNumber
  <1>2. n - 1 \in Nat /\ ~(n <= n - 1)
    OBVIOUS
  <1>3. n - 1 \in P
    BY <1>1, <1>2
  <1> QED
    BY <1>2, <1>3

\* f starts with a and each of its values is the step from the one before.
Iterates(f, a, step) == f[0] = a /\ \A n \in Nat : f[n + 1] = step[<<n, f[n]>>]

\* A loop is a function of the number of its passes: what a recursive definition names exists.
LEMMA Recursion ==
  ASSUME NEW V, NEW a \in V, NEW step \in [Nat \X V -> V]
  PROVE  \E f \in [Nat -> V] : Iterates(f, a, step)
  <1> DEFINE Starts(n, g) == /\ g \in [0 .. n -> V] /\ g[0] = a
                             /\ \A k \in 0 .. n - 1 : g[k + 1] = step[<<k, g[k]>>]
             P == {n \in Nat : \E g : Starts(n, g)}
  <1>1. Nat \subseteq P
    <2>1. 0 \in P
      <3>1. Starts(0, [k \in 0 .. 0 |-> a])
        OBVIOUS
      <3> QED
        BY <3>1
    <2>2. ASSUME NEW n \in Nat, n \in P PROVE n + 1 \in P
      <3>1. PICK g : Starts(n, g)
        BY <2>2
      <3> DEFINE h == [k \in 0 .. n + 1 |-> IF k = n + 1 THEN step[<<n, g[n]>>] ELSE g[k]]
      <3>2. g[n] \in V /\ step[<<n, g[n]>>] \in V
        BY <3>1
      <3>3. h \in [0 .. n + 1 -> V]
        BY <3>1, <3>2
      <3>4. h[0] = a
        BY <3>1
      <3>5. ASSUME NEW k \in 0 .. n PROVE h[k + 1] = step[<<k, h[k]>>]
        <4>1. CASE k = n
          <5>1. h[n + 1] = step[<<n, g[n]>>] /\ h[n] = g[n]
            OBVIOUS
          <5> QED
            BY <4>1, <5>1
        <4>2. CASE k # n
          <5>1. k \in 0 .. n - 1 /\ k + 1 \in 0 .. n /\ k + 1 # n + 1 /\ k # n + 1
            BY <4>2
          <5>2. h[k + 1] = g[k + 1] /\ h[k] = g[k]
            BY <5>1
          <5> QED
            BY <3>1, <5>1, <5>2
        <4> QED
          BY <4>1, <4>2
      <3>6. Starts(n + 1, h)
        <4>1. \A k \in 0 .. n + 1 - 1 : k \in 0 .. n
          OBVIOUS
        <4> HIDE DEF h
        <4> QED
          BY <3>3, <3>4, <3>5, <4>1
      <3> HIDE DEF Starts
      <3> QED
        BY <3>6
    <2> HIDE DEF P
    <2> QED
      BY <2>1, <2>2, Induction
  <1>2. ASSUME NEW n \in Nat, NEW g, Starts(n, g), NEW m \in Nat, NEW h, Starts(m, h)
        PROVE  \A k \in Nat : k <= n /\ k <= m => g[k] = h[k]
    <2> DEFINE Q == {k \in Nat : k <= n /\ k <= m => g[k] = h[k]}
    <2>1. 0 \in Q
      BY <1>2
    <2>2. ASSUME NEW k \in Nat, k \in Q PROVE k + 1 \in Q
      <3> SUFFICES ASSUME k + 1 <= n, k + 1 <= m PROVE g[k + 1] = h[k + 1]
        OBVIOUS
      <3>1. k \in 0 .. n - 1 /\ k \in 0 .. m - 1 /\ g[k] = h[k]
        BY <2>2
      <3> QED
        BY <1>2, <3>1
    <2>3. Nat \subseteq Q
      <3> HIDE DEF Q
      <3> QED
        BY <2>1, <2>2, Induction
    <2> QED
      BY <2>3
  <1> DEFINE G(n) == CHOOSE g : Starts(n, g)
             f == [n \in Nat |-> G(n)[n]]
  <1>3. \A n \in Nat : Starts(n, G(n))
    <2> HIDE DEF Starts
    <2> QED
      BY <1>1
  <1> HIDE DEF G
  <1>4. f \in [Nat -> V]
    BY <1>3
  <1>5. f[0] = a
    BY <1>3
  <1>6. ASSUME NEW n \in Nat PROVE f[n + 1] = step[<<n, f[n]>>]
    <2>1. Starts(n + 1, G(n + 1)) /\ Starts(n, G(n))
      BY <1>3
    <2>2. G(n + 1)[n + 1] = step[<<n, G(n + 1)[n]>>]
      BY <2>1
    <2>3. G(n + 1)[n] = G(n)[n]
      <3> HIDE DEF Starts
      <3> QED
        BY <1>2, <2>1
    <2> QED
      BY <2>2, <2>3
  <1> HIDE DEF f
  <1> QED
    BY <1>4, <1>5, <1>6 DEF Iterates

-----------------------------------------------------------------------------
(* Division.                                                                *)

\* What \div and % return.
LEMMA DivMod ==
  ASSUME NEW a \in Nat, NEW b \in Nat \ {0}
  PROVE  /\ a \div b \in Nat /\ a % b \in 0 .. b - 1
         /\ a = b * (a \div b) + (a % b)
  OBVIOUS

\* A quotient and a remainder below the divisor are the only ones.
LEMMA DivUnique ==
  ASSUME NEW a \in Nat, NEW b \in Nat \ {0}, NEW q \in Nat, NEW r \in 0 .. b - 1, a = b * q + r
  PROVE  a \div b = q
  OBVIOUS

\* To divide twice is to divide by the product.
LEMMA DivDiv ==
  ASSUME NEW a \in Nat, NEW b \in Nat \ {0}, NEW c \in Nat \ {0}
  PROVE  (a \div b) \div c = a \div (c * b) /\ c * b \in Nat \ {0}
  <1> DEFINE d == a \div b
             r == a % b
             q == d \div c
             s == d % c
  <1>1. d \in Nat /\ r \in 0 .. b - 1 /\ a = b * d + r
    BY DivMod
  <1> HIDE DEF d, r
  <1>2. q \in Nat /\ s \in 0 .. c - 1 /\ d = c * q + s
    BY <1>1, DivMod
  <1> HIDE DEF q, s
  <1>3. c * b \in Nat \ {0}
    OBVIOUS
  <1>4. a = (c * b) * q + (b * s + r)
    <2>1. b * d = b * (c * q) + b * s
      BY <1>2
    <2>2. b * (c * q) = (c * b) * q
      BY <1>2
    <2> QED
      BY <1>1, <1>2, <2>1, <2>2
  <1>5. b * s + r \in 0 .. c * b - 1
    <2>1. s <= c - 1
      BY <1>2
    <2>2. b * s <= b * (c - 1)
      BY <1>2, <2>1
    <2>3. b * (c - 1) = c * b - b
      OBVIOUS
    <2>4. b * s \in Nat
      BY <1>2
    <2> QED
      BY <1>1, <1>3, <2>2, <2>3, <2>4
  <1>6. a \div (c * b) = q
    BY <1>2, <1>3, <1>4, <1>5, DivUnique
  <1> QED
    BY <1>3, <1>6 DEF q, d

\* A quotient is 0 below the divisor, and only there.
LEMMA QuotientZero ==
  ASSUME NEW a \in Nat, NEW b \in Nat \ {0}
  PROVE  a \div b = 0 <=> a < b
  <1> DEFINE q == a \div b
             r == a % b
  <1>1. q \in Nat /\ r \in 0 .. b - 1 /\ a = b * q + r
    BY DivMod
  <1> HIDE DEF q, r
  <1>2. CASE q = 0
    BY <1>1, <1>2 DEF q
  <1>3. CASE q # 0
    <2>1. b * q >= b
      BY <1>1, <1>3
    <2>2. b * q \in Nat
      BY <1>1
    <2> QED
      BY <1>1, <1>3, <2>1, <2>2 DEF q
  <1> QED
    BY <1>2, <1>3

-----------------------------------------------------------------------------
(* The vector.                                                             *)

LEMMA VectorParts ==
  ASSUME NEW S, NEW v, VectorShape(v, S)
  PROVE  /\ v.capacity \in Nat \ {0} /\ v.count \in Nat /\ v.count <= v.capacity
         /\ v.data \in [0 .. v.capacity - 1 -> S \cup {Garbage}]
         /\ \A i \in 0 .. v.count - 1 : i \in 0 .. v.capacity - 1 /\ v.data[i] \in S
         /\ v = [data |-> v.data, capacity |-> v.capacity, count |-> v.count]
         /\ IsMade(v)
  BY DEF VectorShape, IsMade

LEMMA VectorMakeShape ==
  ASSUME NEW S, NEW n \in Nat
  PROVE  VectorShape(Vector_make(n), S) /\ Vector_make(n).count = 0
  BY DEF Vector_make, VectorShape

LEMMA VectorGrowShape ==
  ASSUME NEW S, NEW v, VectorShape(v, S)
  PROVE  LET g == Vector_grow(v)
         IN  /\ VectorShape(g, S) /\ g.count = v.count /\ g.count < g.capacity
             /\ g.capacity = 2 * v.capacity
             /\ \A i \in 0 .. v.count - 1 : g.data[i] = v.data[i]
  <1> DEFINE d == [i \in 0 .. 2 * v.capacity - 1 |->
                     IF i < v.capacity THEN v.data[i] ELSE Garbage]
  <1>1. Vector_grow(v) = [data |-> d, capacity |-> 2 * v.capacity, count |-> v.count]
    <2>1. v.capacity * VECTOR_GROW_RATE = 2 * v.capacity
      BY VectorParts DEF VECTOR_GROW_RATE
    <2> QED
      BY <2>1 DEF Vector_grow
  <1>2. d \in [0 .. 2 * v.capacity - 1 -> S \cup {Garbage}]
    BY VectorParts
  <1>3. \A i \in 0 .. v.count - 1 : d[i] = v.data[i] /\ d[i] \in S
    BY VectorParts
  <1>4. /\ v.capacity \in Nat \ {0} /\ 2 * v.capacity \in Nat /\ 2 * v.capacity > 0
        /\ v.count \in Nat /\ v.count < 2 * v.capacity /\ v.count <= 2 * v.capacity
    BY VectorParts
  <1> HIDE DEF d
  <1> DEFINE g == Vector_grow(v)
  <1>5. g.data = d /\ g.capacity = 2 * v.capacity /\ g.count = v.count
    BY <1>1
  <1>6. VectorShape(g, S)
    BY <1>1, <1>2, <1>3, <1>4 DEF VectorShape
  <1> QED
    BY <1>3, <1>4, <1>5, <1>6

LEMMA WithRoomShape ==
  ASSUME NEW S, NEW v, VectorShape(v, S)
  PROVE  LET g == WithRoom(v)
         IN  /\ VectorShape(g, S) /\ g.count = v.count /\ g.count < g.capacity
             /\ g.capacity = IF v.count = v.capacity THEN 2 * v.capacity ELSE v.capacity
             /\ \A i \in 0 .. v.count - 1 : g.data[i] = v.data[i]
  <1>1. CASE v.count = v.capacity
    BY <1>1, VectorGrowShape DEF WithRoom
  <1>2. CASE v.count # v.capacity
    BY <1>2, VectorParts DEF WithRoom
  <1> QED
    BY <1>1, <1>2

LEMMA VectorAppendShape ==
  ASSUME NEW S, NEW v, VectorShape(v, S), NEW e \in S
  PROVE  LET a == Vector_append(v, e)
         IN  /\ VectorShape(a, S) /\ a.count = v.count + 1
             /\ a.capacity = IF v.count = v.capacity THEN 2 * v.capacity ELSE v.capacity
             /\ a.data[v.count] = e
             /\ \A i \in 0 .. v.count - 1 : a.data[i] = v.data[i]
  <1> DEFINE g == WithRoom(v)
  <1>1. /\ VectorShape(g, S) /\ g.count = v.count /\ g.count < g.capacity
        /\ g.capacity = IF v.count = v.capacity THEN 2 * v.capacity ELSE v.capacity
        /\ \A i \in 0 .. v.count - 1 : g.data[i] = v.data[i]
    BY WithRoomShape
  <1>2. Vector_append(v, e) = [data |-> [g.data EXCEPT ![g.count] = e],
                               capacity |-> g.capacity, count |-> g.count + 1]
    BY DEF Vector_append
  <1> HIDE DEF g
  <1>3. g.data \in [0 .. g.capacity - 1 -> S \cup {Garbage}] /\ g.capacity \in Nat \ {0}
        /\ g.count \in Nat /\ \A i \in 0 .. g.count - 1 : g.data[i] \in S
    BY <1>1, VectorParts
  <1> DEFINE d == [g.data EXCEPT ![g.count] = e]
  <1>4. g.count \in 0 .. g.capacity - 1
    BY <1>1, <1>3
  <1>5. /\ d \in [0 .. g.capacity - 1 -> S \cup {Garbage}] /\ d[g.count] = e
        /\ \A i \in 0 .. g.count - 1 : d[i] = g.data[i] /\ d[i] \in S
    BY <1>3, <1>4
  <1> HIDE DEF d
  <1>6. Vector_append(v, e) = [data |-> d, capacity |-> g.capacity, count |-> g.count + 1]
    BY <1>2 DEF d
  <1> QED
    BY <1>1, <1>3, <1>5, <1>6 DEF VectorShape

LEMMA VectorSetShape ==
  ASSUME NEW S, NEW v, VectorShape(v, S), NEW e \in S, NEW i \in Nat
  PROVE  LET s == Vector_set(v, i, e)
         IN  /\ VectorShape(s, S) /\ s.count = v.count /\ s.capacity = v.capacity
             /\ \A j \in 0 .. v.count - 1 : s.data[j] = IF j = i THEN e ELSE v.data[j]
  BY VectorParts DEF Vector_set, InRange, VectorShape

LEMMA VectorRemoveShape ==
  ASSUME NEW S, NEW v, VectorShape(v, S), NEW i \in 0 .. v.count - 1
  PROVE  LET r == Vector_remove(v, i)
         IN  /\ VectorShape(r, S) /\ r.count = v.count - 1 /\ r.capacity = v.capacity
             /\ \A j \in 0 .. v.count - 2 :
                  r.data[j] = IF j < i THEN v.data[j] ELSE v.data[j + 1]
  <1> DEFINE d == [j \in DOMAIN v.data |->
                     IF j \in i .. v.count - 2 THEN v.data[j + 1] ELSE v.data[j]]
  <1>1. Vector_remove(v, i) = [data |-> d, capacity |-> v.capacity, count |-> v.count - 1]
    BY VectorParts DEF Vector_remove, InRange
  <1>2. d \in [0 .. v.capacity - 1 -> S \cup {Garbage}]
    BY VectorParts
  <1>3. \A j \in 0 .. v.count - 2 : d[j] = IF j < i THEN v.data[j] ELSE v.data[j + 1]
    BY VectorParts
  <1>4. ASSUME NEW j \in 0 .. v.count - 2 PROVE d[j] \in S
    <2>1. j \in 0 .. v.count - 1 /\ j + 1 \in 0 .. v.count - 1
      BY VectorParts
    <2> QED
      BY <1>3, <2>1, VectorParts
  <1> HIDE DEF d
  <1> QED
    BY <1>1, <1>2, <1>3, <1>4, VectorParts DEF VectorShape

-----------------------------------------------------------------------------
(* The map.                                                                *)

LEMMA MapParts ==
  ASSUME NEW K, NEW V, NEW m, MapShape(m, K, V)
  PROVE  /\ m.keys.count \in Nat /\ m.values.count = m.keys.count
         /\ VectorShape(m.keys, K) /\ VectorShape(m.values, V)
         /\ \A i \in 0 .. m.keys.count - 1 : m.keys.data[i] \in K /\ m.values.data[i] \in V
         /\ \A i, j \in 0 .. m.keys.count - 1 : m.keys.data[i] = m.keys.data[j] => i = j
  BY VectorParts DEF MapShape

\* The place of a key that is stored is the only one.
LEMMA FirstPlace ==
  ASSUME NEW K, NEW V, NEW m, MapShape(m, K, V), NEW key, Present(m, key)
  PROVE  /\ First(m, key) \in 0 .. m.keys.count - 1
         /\ m.keys.data[First(m, key)] = key
         /\ \A i \in 0 .. m.keys.count - 1 : m.keys.data[i] = key => i = First(m, key)
         /\ Map_get(m, key) = m.values.data[First(m, key)] /\ Map_get(m, key) \in V
  <1>1. PICK p \in 0 .. m.keys.count - 1 : m.keys.data[p] = key
    BY DEF Present, Places
  <1>2. Places(m, key) = {p}
    BY <1>1, MapParts DEF Places
  <1>3. p <= p
    BY MapParts
  <1>4. First(m, key) = p
    BY <1>2, <1>3 DEF First
  <1> QED
    BY <1>1, <1>4, MapParts DEF Map_get

LEMMA MapMakeShape ==
  ASSUME NEW K, NEW V, NEW n \in Nat
  PROVE  MapShape(Map_make(n), K, V) /\ Map_make(n).keys.count = 0
  <1> DEFINE v == Vector_make(n)
  <1>1. VectorShape(v, K) /\ VectorShape(v, V) /\ v.count = 0
    BY VectorMakeShape
  <1>2. Map_make(n).keys = v /\ Map_make(n).values = v
    BY DEF Map_make
  <1> HIDE DEF v
  <1> QED
    BY <1>1, <1>2 DEF MapShape

\* Storing a value under a key that is there overwrites the value at its place; another
\* key is appended with its value.
LEMMA MapSetPresent ==
  ASSUME NEW K, NEW V, NEW m, MapShape(m, K, V), NEW k \in K, NEW v \in V, Present(m, k)
  PROVE  LET s == Map_set(m, k, v)
         IN  /\ MapShape(s, K, V) /\ s.keys = m.keys
             /\ \A i \in 0 .. m.keys.count - 1 :
                  s.values.data[i] = IF i = First(m, k) THEN v ELSE m.values.data[i]
  <1> DEFINE s == Map_set(m, k, v)
  <1>1. s.keys = m.keys /\ s.values = Vector_set(m.values, First(m, k), v)
    BY DEF Map_set
  <1>2. First(m, k) \in Nat
    BY FirstPlace, MapParts
  <1>3. /\ VectorShape(s.values, V) /\ s.values.count = m.values.count
        /\ s.values.capacity = m.values.capacity
        /\ \A j \in 0 .. m.values.count - 1 :
             s.values.data[j] = IF j = First(m, k) THEN v ELSE m.values.data[j]
    BY <1>1, <1>2, MapParts, VectorSetShape
  <1> HIDE DEF s
  <1>4. MapShape(s, K, V)
    BY <1>1, <1>3 DEF MapShape
  <1> QED
    BY <1>1, <1>3, <1>4, MapParts DEF s

LEMMA MapSetAbsent ==
  ASSUME NEW K, NEW V, NEW m, MapShape(m, K, V), NEW k \in K, NEW v \in V, ~Present(m, k)
  PROVE  LET s == Map_set(m, k, v)
         IN  /\ MapShape(s, K, V) /\ s.keys.count = m.keys.count + 1
             /\ s.keys.data[m.keys.count] = k /\ s.values.data[m.keys.count] = v
             /\ \A i \in 0 .. m.keys.count - 1 : /\ s.keys.data[i] = m.keys.data[i]
                                                 /\ s.values.data[i] = m.values.data[i]
  <1> DEFINE s == Map_set(m, k, v)
             n == m.keys.count
  <1>1. s.keys = Vector_append(m.keys, k) /\ s.values = Vector_append(m.values, v)
    BY DEF Map_set
  <1>2. /\ VectorShape(s.keys, K) /\ s.keys.count = n + 1 /\ s.keys.data[n] = k
        /\ s.keys.capacity = IF n = m.keys.capacity THEN 2 * m.keys.capacity ELSE m.keys.capacity
        /\ \A i \in 0 .. n - 1 : s.keys.data[i] = m.keys.data[i]
    BY <1>1, MapParts, VectorAppendShape
  <1>3. /\ VectorShape(s.values, V) /\ s.values.count = n + 1 /\ s.values.data[n] = v
        /\ s.values.capacity = IF n = m.values.capacity THEN 2 * m.values.capacity
                               ELSE m.values.capacity
        /\ \A i \in 0 .. n - 1 : s.values.data[i] = m.values.data[i]
    <2>1. VectorShape(m.values, V) /\ m.values.count = n
      BY MapParts
    <2> HIDE DEF n, s
    <2> QED
      BY <1>1, <2>1, VectorAppendShape
  <1>4. \A i \in 0 .. n - 1 : m.keys.data[i] # k
    BY DEF Present, Places
  <1> HIDE DEF s
  <1>5. \A i, j \in 0 .. s.keys.count - 1 : s.keys.data[i] = s.keys.data[j] => i = j
    <2>1. \A i \in 0 .. s.keys.count - 1 : i \in 0 .. n - 1 \/ i = n
      BY <1>2, MapParts
    <2> QED
      BY <1>2, <1>4, <2>1, MapParts
  <1>6. MapShape(s, K, V)
    BY <1>2, <1>3, <1>5 DEF MapShape
  <1> QED
    BY <1>2, <1>3, <1>6 DEF s

LEMMA MapReplaceShape ==
  ASSUME NEW K, NEW V, NEW m, MapShape(m, K, V), NEW k \in K, NEW v \in V
  PROVE  Map_replace(m, k, v) = IF Present(m, k) THEN Map_set(m, k, v) ELSE m
  BY DEF Map_replace, Map_set

LEMMA MapRemoveShape ==
  ASSUME NEW K, NEW V, NEW m, MapShape(m, K, V), NEW k \in K, Present(m, k)
  PROVE  LET r == Map_remove(m, k)
             Shift(i) == IF i < First(m, k) THEN i ELSE i + 1
         IN  /\ MapShape(r, K, V) /\ r.keys.count = m.keys.count - 1
             /\ \A i \in 0 .. m.keys.count - 2 : /\ r.keys.data[i] = m.keys.data[Shift(i)]
                                                 /\ r.values.data[i] = m.values.data[Shift(i)]
  <1> DEFINE r == Map_remove(m, k)
             n == m.keys.count
             p == First(m, k)
             Shift(i) == IF i < p THEN i ELSE i + 1
  <1>1. r.keys = Vector_remove(m.keys, p) /\ r.values = Vector_remove(m.values, p)
    BY DEF Map_remove
  <1>2. p \in 0 .. n - 1 /\ n \in Nat
    BY FirstPlace, MapParts
  <1> HIDE DEF p
  <1>3. /\ VectorShape(r.keys, K) /\ r.keys.count = n - 1 /\ r.keys.capacity = m.keys.capacity
        /\ \A i \in 0 .. n - 2 : r.keys.data[i] = m.keys.data[Shift(i)]
    <2>1. VectorShape(m.keys, K)
      BY MapParts
    <2>2. /\ VectorShape(r.keys, K) /\ r.keys.count = n - 1
          /\ r.keys.capacity = m.keys.capacity
          /\ \A j \in 0 .. n - 2 :
               r.keys.data[j] = IF j < p THEN m.keys.data[j] ELSE m.keys.data[j + 1]
      BY <1>1, <1>2, <2>1, VectorRemoveShape
    <2> QED
      BY <2>2
  <1>4. /\ VectorShape(r.values, V) /\ r.values.count = n - 1
        /\ r.values.capacity = m.values.capacity
        /\ \A i \in 0 .. n - 2 : r.values.data[i] = m.values.data[Shift(i)]
    <2>1. VectorShape(m.values, V) /\ m.values.count = n
      BY MapParts
    <2>2. /\ VectorShape(r.values, V) /\ r.values.count = n - 1
          /\ r.values.capacity = m.values.capacity
          /\ \A j \in 0 .. n - 2 :
               r.values.data[j] = IF j < p THEN m.values.data[j] ELSE m.values.data[j + 1]
      BY <1>1, <1>2, <2>1, VectorRemoveShape
    <2> QED
      BY <2>2
  <1> HIDE DEF r
  <1>5. \A i, j \in 0 .. n - 2 : r.keys.data[i] = r.keys.data[j] => i = j
    <2>1. \A i \in 0 .. n - 2 : Shift(i) \in 0 .. n - 1
      BY <1>2
    <2>2. \A i, j \in 0 .. n - 2 : Shift(i) = Shift(j) => i = j
      BY <1>2
    <2> HIDE DEF Shift
    <2> QED
      BY <1>3, <2>1, <2>2, MapParts
  <1>6. MapShape(r, K, V)
    <2>1. r.keys.count - 1 = n - 2
      BY <1>2, <1>3
    <2> QED
      BY <1>3, <1>4, <1>5, <2>1 DEF MapShape
  <1> QED
    BY <1>3, <1>4, <1>6 DEF r, p
====
