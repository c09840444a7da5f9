---------------------------- MODULE LibraryProofs ----------------------------
(***************************************************************************)
(* The theorems about the components of MCLibrary, for every value of the  *)
(* constants: the ring buffer is a queue, the vector a list, the map a     *)
(* dictionary, num_to_string writes its argument, and compress_gz returns  *)
(* the whole result in memory it owns.                                     *)
(***************************************************************************)
EXTENDS MCLibrary, RingBufferLemmas, DataLemmas, SequenceTheorems

-----------------------------------------------------------------------------
(* The ring buffer.                                                        *)

\* The outcome of each call on an allocated buffer, from the lemmas.
LEMMA CallsKeepInv ==
  ASSUME Inv, [Next]_vars
  PROVE  Inv'
  <1> USE DEF Inv, TypeOK, NoStaleCell, IsAllocated
  <1>1. RingBuffer_destroyed.count = 0
    BY DEF RingBuffer_destroyed
  <1>2. IsAllocated(rngb) => RingShape(rngb) /\ LiveCellsHoldElements(rngb)
    BY <1>1
  <1>3. CASE \E n \in InitialCounts : MakeCall(n)
    <2>1. PICK n \in InitialCounts : MakeCall(n)
      BY <1>3
    <2>2. n \in Nat
      BY BoundsAssumption
    <2> QED
      BY <2>1, <2>2, MakeShape DEF MakeCall
  <1>4. CASE \E e \in Elem : AppendCall(e)
    <2>1. PICK e \in Elem : AppendCall(e)
      BY <1>4
    <2>2. RingShape(rngb') /\ LiveCellsHoldElements(rngb')
      BY <1>2, <2>1, AppendShape DEF AppendCall
    <2> QED
      BY <2>1, <2>2 DEF AppendCall
  <1>5. CASE RetrieveCall
    <2>1. CASE rngb.stored = 0
      BY <1>5, <2>1 DEF RetrieveCall
    <2>2. CASE rngb.stored # 0
      BY <1>2, <1>5, <2>2, RetrieveShape DEF RetrieveCall
    <2> QED
      BY <2>1, <2>2
  <1>6. CASE PeekCall
    <2>1. CASE rngb.stored = 0
      BY <1>6, <2>1 DEF PeekCall
    <2>2. CASE rngb.stored # 0
      BY <1>2, <1>6, <2>2, RetrieveShape DEF PeekCall
    <2> QED
      BY <2>1, <2>2
  <1>7. CASE DestroyCall
    BY <1>1, <1>7 DEF DestroyCall
  <1>8. CASE UNCHANGED vars
    BY <1>8 DEF vars
  <1> QED
    BY <1>3, <1>4, <1>5, <1>6, <1>7, <1>8 DEF Next

LEMMA InitHoldsInv == Init => Inv
  BY DEF Init, Inv, TypeOK, NoStaleCell, IsAllocated, RingBuffer_destroyed

(***************************************************************************)
(* In every reachable state the buffer is freed or well shaped, and a cell *)
(* holds an element exactly when it is live: no call of append, retrieve,  *)
(* peek or destroy, grown or not, reads an uninitialized cell or leaves an *)
(* element behind.                                                         *)
(***************************************************************************)
THEOREM RingBufferInvariant == Spec => [](TypeOK /\ NoStaleCell)
  <1>1. Inv /\ [Next]_vars => Inv'
    BY CallsKeepInv
  <1> QED
    BY <1>1, InitHoldsInv, PTL DEF Spec, Inv

-----------------------------------------------------------------------------
\* A freed buffer and an empty one are the empty queue.
LEMMA EmptyContents ==
  ASSUME NEW r, r.stored = 0
  PROVE  Contents(r) = <<>>
  BY DEF Contents

\* Every call of the code is a call of the queue.
LEMMA CallsImplementFifo ==
  ASSUME Inv, [Next]_vars
  PROVE  [AbstractQueue!Next]_<<Contents(rngb), result>>
  <1> USE DEF Inv, TypeOK, NoStaleCell, IsAllocated
  <1> DEFINE q == Contents(rngb)
  <1>1. RingBuffer_destroyed.count = 0 /\ RingBuffer_destroyed.stored = 0
    BY DEF RingBuffer_destroyed
  <1>2. IsAllocated(rngb) => RingShape(rngb) /\ LiveCellsHoldElements(rngb)
    BY <1>1
  <1>3. CASE \E n \in InitialCounts : MakeCall(n)
    <2>1. PICK n \in InitialCounts : MakeCall(n)
      BY <1>3
    <2>2. Contents(rngb') = <<>> /\ result' = <<>>
      BY <2>1, MakeShape, BoundsAssumption DEF MakeCall
    <2> QED
      BY <2>2 DEF AbstractQueue!Clear, AbstractQueue!Next
  <1>4. CASE \E e \in Elem : AppendCall(e)
    <2>1. PICK e \in Elem : AppendCall(e)
      BY <1>4
    <2>2. Contents(rngb') = Append(Contents(rngb), e) /\ result' = <<>>
      BY <1>2, <2>1, AppendShape DEF AppendCall
    <2> QED
      BY <2>2 DEF AbstractQueue!Put, AbstractQueue!Next
  <1>5. CASE RetrieveCall
    <2>1. CASE rngb.stored = 0
      <3>1. Contents(rngb) = <<>> /\ result' = <<>> /\ rngb' = rngb
        BY <1>5, <2>1, EmptyContents DEF RetrieveCall
      <3> QED
        BY <3>1 DEF AbstractQueue!Get, AbstractQueue!First, AbstractQueue!Next
    <2>2. CASE rngb.stored # 0
      <3>1. /\ q # <<>> /\ result' = <<Head(q)>> /\ Contents(rngb') = Tail(q)
        BY <1>2, <1>5, <2>2, RetrieveShape DEF RetrieveCall
      <3> QED
        BY <3>1 DEF AbstractQueue!Get, AbstractQueue!First, AbstractQueue!Next
    <2> QED
      BY <2>1, <2>2
  <1>6. CASE PeekCall
    <2>1. CASE rngb.stored = 0
      <3>1. Contents(rngb) = <<>> /\ result' = <<>> /\ rngb' = rngb
        BY <1>6, <2>1, EmptyContents DEF PeekCall
      <3> QED
        BY <3>1 DEF AbstractQueue!Peek, AbstractQueue!First, AbstractQueue!Next
    <2>2. CASE rngb.stored # 0
      <3>1. q # <<>> /\ result' = <<Head(q)>> /\ rngb' = rngb
        BY <1>2, <1>6, <2>2, RetrieveShape DEF PeekCall
      <3> QED
        BY <3>1 DEF AbstractQueue!Peek, AbstractQueue!First, AbstractQueue!Next
    <2> QED
      BY <2>1, <2>2
  <1>7. CASE DestroyCall
    <2>1. Contents(rngb') = <<>> /\ result' = <<>>
      BY <1>1, <1>7, EmptyContents DEF DestroyCall
    <2> QED
      BY <2>1 DEF AbstractQueue!Clear, AbstractQueue!Next
  <1>8. CASE UNCHANGED vars
    BY <1>8 DEF vars
  <1> QED
    BY <1>3, <1>4, <1>5, <1>6, <1>7, <1>8 DEF Next

(***************************************************************************)
(* The ring buffer implements a first-in first-out queue: through any      *)
(* sequence of calls nothing is lost, duplicated or reordered.             *)
(***************************************************************************)
THEOREM RingBufferIsFifo == Spec => IsFifo
  <1>1. Init => AbstractQueue!Init
    BY EmptyContents DEF Init, AbstractQueue!Init, RingBuffer_destroyed
  <1>2. Inv /\ [Next]_vars => [AbstractQueue!Next]_<<Contents(rngb), result>>
    BY CallsImplementFifo
  <1>3. Spec => []Inv
    <2>1. Inv /\ [Next]_vars => Inv'
      BY CallsKeepInv
    <2> QED
      BY <2>1, InitHoldsInv, PTL DEF Spec
  <1> QED
    BY <1>1, <1>2, <1>3, PTL DEF Spec, IsFifo, AbstractQueue!Spec

-----------------------------------------------------------------------------
(* The vector.                                                             *)

\* The items of a vector are a sequence of its stored cells, and the only one.
LEMMA ItemsType ==
  ASSUME NEW S, NEW v, VectorShape(v, S)
  PROVE  /\ Items(v) \in Seq(S) /\ Len(Items(v)) = v.count
         /\ \A k \in 1 .. v.count : Items(v)[k] = v.data[k - 1] /\ k - 1 \in 0 .. v.count - 1
         /\ \A s \in Seq(S) : Len(s) = v.count /\ (\A k \in 1 .. v.count : s[k] = v.data[k - 1])
                                => Items(v) = s
  <1>1. v.count \in Nat /\ \A k \in 1 .. v.count : k - 1 \in 0 .. v.count - 1
    BY VectorParts
  <1>2. \A k \in 1 .. v.count : v.data[k - 1] \in S
    BY <1>1, VectorParts
  <1>3. Items(v) \in [1 .. v.count -> S]
    BY <1>2 DEF Items
  <1>4. \A k \in 1 .. v.count : Items(v)[k] = v.data[k - 1]
    BY DEF Items
  <1> HIDE DEF Items
  <1>5. Items(v) \in Seq(S) /\ Len(Items(v)) = v.count
    BY <1>1, <1>3
  <1>6. ASSUME NEW s \in Seq(S), Len(s) = v.count, \A k \in 1 .. v.count : s[k] = v.data[k - 1]
        PROVE  Items(v) = s
    BY <1>4, <1>5, <1>6, SeqEqual
  <1> QED
    BY <1>1, <1>4, <1>5, <1>6

LEMMA ItemsAfterAppend ==
  ASSUME NEW S, NEW v, VectorShape(v, S), NEW e \in S
  PROVE  Items(Vector_append(v, e)) = Append(Items(v), e)
  <1> DEFINE a == Vector_append(v, e)
             s == Append(Items(v), e)
  <1>1. VectorShape(a, S) /\ a.count = v.count + 1 /\ a.data[v.count] = e
        /\ \A i \in 0 .. v.count - 1 : a.data[i] = v.data[i]
    BY VectorAppendShape
  <1>2. /\ s \in Seq(S) /\ Len(s) = v.count + 1 /\ s[v.count + 1] = e
        /\ \A k \in 1 .. v.count : s[k] = v.data[k - 1]
    BY ItemsType, AppendProperties
  <1> HIDE DEF a, s
  <1>3. \A k \in 1 .. a.count : s[k] = a.data[k - 1]
    <2> TAKE k \in 1 .. a.count
    <2>1. v.count \in Nat
      BY VectorParts
    <2>2. CASE k = v.count + 1
      <3>1. k - 1 = v.count
        BY <2>1, <2>2
      <3> QED
        BY <1>1, <1>2, <2>2, <3>1
    <2>3. CASE k # v.count + 1
      <3>1. k \in 1 .. v.count /\ k - 1 \in 0 .. v.count - 1
        BY <1>1, <2>1, <2>3
      <3> QED
        BY <1>1, <1>2, <3>1
    <2> QED
      BY <2>2, <2>3
  <1>4. Items(a) = s
    BY <1>1, <1>2, <1>3, ItemsType
  <1> QED
    BY <1>4 DEF a, s

LEMMA ItemsAfterGrow ==
  ASSUME NEW S, NEW v, VectorShape(v, S)
  PROVE  Items(Vector_grow(v)) = Items(v)
  <1> DEFINE g == Vector_grow(v)
  <1>1. /\ VectorShape(g, S) /\ g.count = v.count
        /\ \A i \in 0 .. v.count - 1 : g.data[i] = v.data[i]
    BY VectorGrowShape
  <1>2. /\ Items(v) \in Seq(S) /\ Len(Items(v)) = v.count
        /\ \A k \in 1 .. v.count : Items(v)[k] = v.data[k - 1] /\ k - 1 \in 0 .. v.count - 1
    BY ItemsType
  <1> HIDE DEF g
  <1>3. Items(g) = Items(v)
    BY <1>1, <1>2, ItemsType
  <1> QED
    BY <1>3 DEF g

LEMMA ItemsAfterSet ==
  ASSUME NEW S, NEW v, VectorShape(v, S), NEW e \in S, NEW i \in 0 .. v.count - 1
  PROVE  Items(Vector_set(v, i, e)) = [Items(v) EXCEPT ![i + 1] = e]
  <1> DEFINE a == Vector_set(v, i, e)
             s == [Items(v) EXCEPT ![i + 1] = e]
  <1>0. v.count \in Nat /\ i \in Nat /\ i + 1 \in 1 .. v.count
    BY VectorParts
  <1>1. VectorShape(a, S) /\ a.count = v.count
        /\ \A j \in 0 .. v.count - 1 : a.data[j] = IF j = i THEN e ELSE v.data[j]
    BY <1>0, VectorSetShape
  <1>2. Items(v) \in Seq(S) /\ Len(Items(v)) = v.count
        /\ \A k \in 1 .. v.count : Items(v)[k] = v.data[k - 1] /\ k - 1 \in 0 .. v.count - 1
    BY ItemsType
  <1>3. /\ s \in Seq(S) /\ Len(s) = v.count
        /\ \A k \in 1 .. v.count : s[k] = IF k = i + 1 THEN e ELSE v.data[k - 1]
    BY <1>0, <1>2, ExceptSeq
  <1> HIDE DEF a, s
  <1>4. \A k \in 1 .. a.count : s[k] = a.data[k - 1]
    <2> TAKE k \in 1 .. a.count
    <2>1. k \in 1 .. v.count /\ k - 1 \in 0 .. v.count - 1
      BY <1>1, <1>2
    <2>2. k = i + 1 <=> k - 1 = i
      BY <1>0, <2>1
    <2> QED
      BY <1>1, <1>3, <2>1, <2>2
  <1>5. Items(a) = s
    BY <1>1, <1>3, <1>4, ItemsType
  <1> QED
    BY <1>5 DEF a, s

LEMMA ItemsAfterRemove ==
  ASSUME NEW S, NEW v, VectorShape(v, S), NEW i \in 0 .. v.count - 1
  PROVE  Items(Vector_remove(v, i))
           = SubSeq(Items(v), 1, i) \o SubSeq(Items(v), i + 2, Len(Items(v)))
  <1> DEFINE n == v.count
             r == Vector_remove(v, i)
             front == SubSeq(Items(v), 1, i)
             back == SubSeq(Items(v), i + 2, n)
             s == front \o back
  <1>0. n \in Nat /\ i \in Nat /\ i + 1 \in 1 .. n /\ i < n
    BY VectorParts
  <1>1. VectorShape(r, S) /\ r.count = n - 1
        /\ \A j \in 0 .. n - 2 : r.data[j] = IF j < i THEN v.data[j] ELSE v.data[j + 1]
    BY VectorRemoveShape
  <1>2. Items(v) \in Seq(S) /\ Len(Items(v)) = n
        /\ \A k \in 1 .. n : Items(v)[k] = v.data[k - 1] /\ Items(v)[k] \in S
    BY ItemsType, ElementOfSeq
  <1> HIDE DEF n, r
  <1>3. /\ front \in Seq(S) /\ Len(front) = i
        /\ \A k \in 1 .. i : front[k] = Items(v)[k]
    <2>1. \A k \in 1 .. i : Items(v)[k] \in S
      BY <1>0, <1>2
    <2>2. /\ front \in Seq(S) /\ Len(front) = IF 1 <= i THEN i - 1 + 1 ELSE 0
          /\ \A k \in 1 .. i - 1 + 1 : front[k] = Items(v)[1 + k - 1]
      BY <1>0, <2>1, SubSeqProperties
    <2> HIDE DEF front
    <2>3. \A k \in 1 .. i : k \in 1 .. i - 1 + 1 /\ 1 + k - 1 = k
      BY <1>0
    <2>4. Len(front) = i
      BY <1>0, <2>2
    <2> QED
      BY <2>2, <2>3, <2>4
  <1>4. /\ back \in Seq(S) /\ Len(back) = n - 1 - i
        /\ \A k \in 1 .. n - 1 - i : back[k] = Items(v)[i + 1 + k]
    <2>1. \A k \in i + 2 .. n : Items(v)[k] \in S
      BY <1>0, <1>2
    <2>2. /\ back \in Seq(S) /\ Len(back) = IF i + 2 <= n THEN n - (i + 2) + 1 ELSE 0
          /\ \A k \in 1 .. n - (i + 2) + 1 : back[k] = Items(v)[(i + 2) + k - 1]
      BY <1>0, <2>1, SubSeqProperties
    <2> HIDE DEF back
    <2>3. \A k \in 1 .. n - 1 - i : k \in 1 .. n - (i + 2) + 1 /\ (i + 2) + k - 1 = i + 1 + k
      BY <1>0
    <2>4. Len(back) = n - 1 - i
      BY <1>0, <2>2
    <2> QED
      BY <2>2, <2>3, <2>4
  <1> HIDE DEF front, back
  <1>5. /\ s \in Seq(S) /\ Len(s) = Len(front) + Len(back)
        /\ \A k \in 1 .. Len(front) + Len(back) :
             s[k] = IF k <= Len(front) THEN front[k] ELSE back[k - Len(front)]
    BY <1>3, <1>4, ConcatProperties
  <1> HIDE DEF s
  <1>6. Len(s) = n - 1
    BY <1>0, <1>3, <1>4, <1>5
  <1>7. ASSUME NEW k \in 1 .. n - 1 PROVE s[k] = r.data[k - 1]
    <2>1. /\ k - 1 \in 0 .. n - 2 /\ k \in 1 .. Len(front) + Len(back) /\ k - 1 + 1 = k
          /\ k \in 1 .. n /\ k + 1 \in 1 .. n /\ k + 1 - 1 = k
      BY <1>0, <1>3, <1>4
    <2>2. CASE k <= i
      <3>1. k \in 1 .. i /\ k - 1 < i
        BY <1>0, <2>2
      <3>2. s[k] = front[k]
        BY <1>3, <1>5, <2>1, <2>2
      <3>3. s[k] = Items(v)[k]
        BY <1>3, <3>1, <3>2
      <3> QED
        BY <1>1, <1>2, <2>1, <3>1, <3>3
    <2>3. CASE ~(k <= i)
      <3>1. k - i \in 1 .. n - 1 - i /\ i + 1 + (k - i) = k + 1 /\ ~(k - 1 < i)
        BY <1>0, <2>3
      <3>2. s[k] = back[k - i]
        BY <1>3, <1>5, <2>1, <2>3
      <3>3. s[k] = Items(v)[k + 1]
        BY <1>4, <3>1, <3>2
      <3>4. r.data[k - 1] = v.data[k]
        <4>1. r.data[k - 1] = v.data[k - 1 + 1]
          BY <1>1, <2>1, <3>1
        <4> QED
          BY <2>1, <4>1
      <3>5. Items(v)[k + 1] = v.data[k]
        <4>1. Items(v)[k + 1] = v.data[k + 1 - 1]
          BY <1>2, <2>1
        <4> QED
          BY <2>1, <4>1
      <3> QED
        BY <3>3, <3>4, <3>5
    <2> QED
      BY <2>2, <2>3
  <1>8. Items(r) = s
    BY <1>1, <1>5, <1>6, <1>7, ItemsType
  <1> QED
    BY <1>2, <1>8 DEF s, r, front, back, n

LEMMA VectorInitTypeOK == VectorInit => VectorTypeOK
  BY DEF VectorInit, VectorTypeOK

\* Each call keeps the array well shaped, and get returns an element or nothing.
LEMMA VectorCallsKeepType ==
  ASSUME VectorTypeOK, [VectorNext]_vecVars
  PROVE  VectorTypeOK'
  <1> USE DEF VectorTypeOK
  <1>1. Vector_destroyed.capacity = 0 /\ (IsMade(vec) => VectorShape(vec, Item))
    BY DEF Vector_destroyed, IsMade
  <1>2. ASSUME NEW n \in VectorCounts, VectorMakeCall(n) PROVE VectorTypeOK'
    BY <1>2, VectorMakeShape, VectorBounds DEF VectorMakeCall
  <1>3. ASSUME VectorDestroyCall PROVE VectorTypeOK'
    BY <1>3 DEF VectorDestroyCall
  <1>4. ASSUME VectorGrowCall PROVE VectorTypeOK'
    BY <1>1, <1>4, VectorGrowShape DEF VectorGrowCall
  <1>5. ASSUME NEW e \in Item, VectorAppendCall(e) PROVE VectorTypeOK'
    BY <1>1, <1>5, VectorAppendShape DEF VectorAppendCall
  <1>6. ASSUME IsMade(vec), NEW i \in Index
        PROVE  i \in Nat /\ (InRange(vec, i) => i \in 0 .. vec.count - 1)
    BY <1>1, <1>6, VectorParts DEF Index, InRange
  <1>7. ASSUME NEW i \in Index, VectorGetCall(i) PROVE VectorTypeOK'
    <2>1. InRange(vec, i) => vec.data[i] \in Item
      BY <1>1, <1>6, <1>7, VectorParts DEF VectorGetCall
    <2> QED
      BY <1>7, <2>1 DEF VectorGetCall
  <1>8. ASSUME NEW i \in Index, VectorRemoveCall(i) PROVE VectorTypeOK'
    <2>1. VectorShape(Vector_remove(vec, i), Item)
      <3>1. CASE InRange(vec, i)
        BY <1>1, <1>6, <1>8, <3>1, VectorRemoveShape DEF VectorRemoveCall
      <3>2. CASE ~InRange(vec, i)
        BY <1>1, <1>8, <3>2 DEF VectorRemoveCall, Vector_remove
      <3> QED
        BY <3>1, <3>2
    <2> QED
      BY <1>8, <2>1 DEF VectorRemoveCall
  <1>9. ASSUME NEW i \in Index, NEW e \in Item, VectorSetCall(i, e) PROVE VectorTypeOK'
    BY <1>1, <1>6, <1>9, VectorSetShape DEF VectorSetCall
  <1>10. ASSUME UNCHANGED vecVars PROVE VectorTypeOK'
    BY <1>10 DEF vecVars
  <1> QED
    BY <1>2, <1>3, <1>4, <1>5, <1>7, <1>8, <1>9, <1>10 DEF VectorNext

\* Each call is a call of the list.
LEMMA VectorCallsImplementList ==
  ASSUME VectorTypeOK, [VectorNext]_vecVars
  PROVE  [AbstractList!Next]_<<Items(vec), vec_result>>
  <1>1. Vector_destroyed.capacity = 0 /\ (IsMade(vec) => VectorShape(vec, Item))
    BY DEF Vector_destroyed, IsMade, VectorTypeOK
  <1>2. IsMade(vec) => AbstractList!Positions = 0 .. vec.count - 1
    BY <1>1, ItemsType DEF AbstractList!Positions
  <1>3. ASSUME IsMade(vec), NEW i \in Index
        PROVE  i \in Nat /\ (InRange(vec, i) => i \in 0 .. vec.count - 1)
    BY <1>1, <1>3, VectorParts DEF Index, InRange
  <1>4. \A v : v.count = 0 => Items(v) = <<>>
    BY DEF Items
  <1>5. ASSUME NEW n \in VectorCounts, VectorMakeCall(n) PROVE AbstractList!Clear
    <2>1. Vector_make(n).count = 0
      BY DEF Vector_make
    <2> QED
      BY <1>4, <1>5, <2>1 DEF VectorMakeCall, AbstractList!Clear
  <1>6. ASSUME VectorDestroyCall PROVE AbstractList!Clear
    <2>1. Vector_destroyed.count = 0
      BY DEF Vector_destroyed
    <2> QED
      BY <1>4, <1>6, <2>1 DEF VectorDestroyCall, AbstractList!Clear
  <1>7. ASSUME VectorGrowCall PROVE AbstractList!NoSuchPosition
    BY <1>1, <1>7, ItemsAfterGrow DEF VectorGrowCall, AbstractList!NoSuchPosition
  <1>8. ASSUME NEW e \in Item, VectorAppendCall(e) PROVE AbstractList!AppendTo(e)
    BY <1>1, <1>8, ItemsAfterAppend DEF VectorAppendCall, AbstractList!AppendTo
  <1>9. ASSUME NEW i \in Index, VectorGetCall(i)
        PROVE  \/ AbstractList!NoSuchPosition
               \/ i \in AbstractList!Positions /\ AbstractList!ReadAt(i)
    <2>1. IsMade(vec) /\ VectorShape(vec, Item) /\ Items(vec)' = Items(vec)
      BY <1>1, <1>9 DEF VectorGetCall
    <2>2. CASE InRange(vec, i)
      <3>1. i \in 0 .. vec.count - 1 /\ i + 1 \in 1 .. vec.count /\ i + 1 - 1 = i
        BY <1>3, <2>1, <2>2, VectorParts
      <3>2. Items(vec)[i + 1] = vec.data[i]
        <4>1. Items(vec)[i + 1] = vec.data[i + 1 - 1]
          BY <2>1, <3>1, ItemsType
        <4> QED
          BY <3>1, <4>1
      <3> QED
        BY <1>2, <1>9, <2>1, <2>2, <3>1, <3>2 DEF VectorGetCall, AbstractList!ReadAt
    <2>3. CASE ~InRange(vec, i)
      BY <1>9, <2>1, <2>3 DEF VectorGetCall, AbstractList!NoSuchPosition
    <2> QED
      BY <2>2, <2>3
  <1>10. ASSUME NEW i \in Index, VectorRemoveCall(i)
         PROVE  \/ AbstractList!NoSuchPosition
                \/ i \in AbstractList!Positions /\ AbstractList!RemoveAt(i)
    <2>1. IsMade(vec) /\ VectorShape(vec, Item)
      BY <1>1, <1>10 DEF VectorRemoveCall
    <2>2. CASE InRange(vec, i)
      <3>1. i \in 0 .. vec.count - 1
        BY <1>3, <2>1, <2>2
      <3> QED
        BY <1>2, <1>10, <2>1, <3>1, ItemsAfterRemove DEF VectorRemoveCall, AbstractList!RemoveAt
    <2>3. CASE ~InRange(vec, i)
      BY <1>10, <2>1, <2>3 DEF VectorRemoveCall, Vector_remove, AbstractList!NoSuchPosition
    <2> QED
      BY <2>2, <2>3
  <1>11. ASSUME NEW i \in Index, NEW e \in Item, VectorSetCall(i, e)
         PROVE  AbstractList!NoSuchPosition
                  \/ (i \in AbstractList!Positions /\ AbstractList!Replace(i, e))
    <2>1. IsMade(vec) /\ VectorShape(vec, Item)
      BY <1>1, <1>11 DEF VectorSetCall
    <2>2. CASE InRange(vec, i)
      <3>1. i \in 0 .. vec.count - 1
        BY <1>3, <2>1, <2>2
      <3> QED
        BY <1>2, <1>11, <2>1, <3>1, ItemsAfterSet DEF VectorSetCall, AbstractList!Replace
    <2>3. CASE ~InRange(vec, i)
      BY <1>11, <2>1, <2>3 DEF VectorSetCall, Vector_set, AbstractList!NoSuchPosition
    <2> QED
      BY <2>2, <2>3
  <1>12. ASSUME UNCHANGED vecVars PROVE UNCHANGED <<Items(vec), vec_result>>
    BY <1>12 DEF vecVars
  <1> QED
    BY <1>5, <1>6, <1>7, <1>8, <1>9, <1>10, <1>11, <1>12 DEF VectorNext, AbstractList!Next

LEMMA VectorTypeHolds == VectorSpec => []VectorTypeOK
  <1>1. VectorTypeOK /\ [VectorNext]_vecVars => VectorTypeOK'
    BY VectorCallsKeepType
  <1> QED
    BY <1>1, VectorInitTypeOK, PTL DEF VectorSpec

(***************************************************************************)
(* The vector implements a list: through any sequence of calls of append,  *)
(* set, get, remove and grow, at any position, growing when it must.       *)
(***************************************************************************)
THEOREM VectorIsList == VectorSpec => IsList
  <1>1. VectorInit => AbstractList!Init
    BY DEF VectorInit, AbstractList!Init, Vector_destroyed, Items
  <1>2. VectorTypeOK /\ [VectorNext]_vecVars => [AbstractList!Next]_<<Items(vec), vec_result>>
    BY VectorCallsImplementList
  <1> QED
    BY <1>1, <1>2, VectorTypeHolds, PTL DEF VectorSpec, IsList, AbstractList!Spec

-----------------------------------------------------------------------------
(* The map.                                                                *)

\* What the map is as a function.
LEMMA AsFunctionValues ==
  ASSUME NEW K, NEW V, NEW m, MapShape(m, K, V)
  PROVE  /\ DOMAIN AsFunction(m) = StoredKeys(m)
         /\ \A k : Present(m, k) <=> k \in StoredKeys(m)
         /\ \A i \in 0 .. m.keys.count - 1 :
              /\ m.keys.data[i] \in StoredKeys(m)
              /\ AsFunction(m)[m.keys.data[i]] = m.values.data[i]
  <1>1. \A k : Present(m, k) <=> k \in StoredKeys(m)
    BY DEF Present, Places, StoredKeys
  <1>2. ASSUME NEW i \in 0 .. m.keys.count - 1
        PROVE  /\ m.keys.data[i] \in StoredKeys(m)
               /\ AsFunction(m)[m.keys.data[i]] = m.values.data[i]
    <2>1. m.keys.data[i] \in StoredKeys(m)
      BY DEF StoredKeys
    <2>2. First(m, m.keys.data[i]) = i
      BY <1>1, <2>1, FirstPlace
    <2> QED
      BY <2>1, <2>2 DEF AsFunction, Map_get
  <1> QED
    BY <1>1, <1>2 DEF AsFunction

\* Two functions with the same keys and the same values at their places are the same.
LEMMA AsFunctionEqual ==
  ASSUME NEW K, NEW V, NEW m, MapShape(m, K, V), NEW D, NEW f, f = [x \in D |-> f[x]],
         StoredKeys(m) = D,
         \A i \in 0 .. m.keys.count - 1 : f[m.keys.data[i]] = m.values.data[i]
  PROVE  AsFunction(m) = f
  <1>1. \A x \in D : AsFunction(m)[x] = f[x]
    <2> TAKE x \in D
    <2>1. PICK i \in 0 .. m.keys.count - 1 : m.keys.data[i] = x
      BY DEF StoredKeys
    <2> QED
      BY <2>1, AsFunctionValues
  <1>2. AsFunction(m) = [x \in D |-> AsFunction(m)[x]]
    BY DEF AsFunction
  <1> HIDE DEF AsFunction
  <1> QED
    BY <1>1, <1>2

LEMMA EmptyMap ==
  ASSUME NEW m, m.keys.count = 0
  PROVE  AsFunction(m) = [k \in {} |-> k]
  <1>1. StoredKeys(m) = {}
    BY DEF StoredKeys
  <1> QED
    BY <1>1 DEF AsFunction

Overwritten(m, k, v) ==
  [x \in StoredKeys(m) \cup {k} |-> IF x = k THEN v ELSE AsFunction(m)[x]]

LEMMA AsFunctionAfterSet ==
  ASSUME NEW K, NEW V, NEW m, MapShape(m, K, V), NEW k \in K, NEW v \in V
  PROVE  AsFunction(Map_set(m, k, v)) = Overwritten(m, k, v)
  <1> DEFINE s == Map_set(m, k, v)
             n == m.keys.count
             D == StoredKeys(m) \cup {k}
             f == [x \in D |-> IF x = k THEN v ELSE AsFunction(m)[x]]
  <1>1. n \in Nat
    BY MapParts
  <1>2. \A i \in 0 .. n - 1 : /\ m.keys.data[i] \in StoredKeys(m)
                              /\ AsFunction(m)[m.keys.data[i]] = m.values.data[i]
    BY AsFunctionValues
  <1>3. CASE Present(m, k)
    <2>1. /\ MapShape(s, K, V) /\ s.keys = m.keys
          /\ \A i \in 0 .. n - 1 :
               s.values.data[i] = IF i = First(m, k) THEN v ELSE m.values.data[i]
      BY <1>3, MapSetPresent
    <2>2. /\ m.keys.data[First(m, k)] = k
          /\ \A i \in 0 .. n - 1 : m.keys.data[i] = k => i = First(m, k)
      BY <1>3, FirstPlace
    <2>3. k \in StoredKeys(m)
      BY <1>3, AsFunctionValues
    <2>4. StoredKeys(s) = D
      BY <2>1, <2>3 DEF StoredKeys
    <2>5. \A i \in 0 .. n - 1 : f[m.keys.data[i]] = s.values.data[i]
      BY <1>2, <2>1, <2>2
    <2>6. f = [x \in D |-> f[x]]
      OBVIOUS
    <2> HIDE DEF s, f, D
    <2>7. AsFunction(s) = f
      BY <2>1, <2>4, <2>5, <2>6, AsFunctionEqual
    <2> QED
      BY <2>7 DEF s, f, D, Overwritten
  <1>4. CASE ~Present(m, k)
    <2>1. /\ MapShape(s, K, V) /\ s.keys.count = n + 1
          /\ s.keys.data[n] = k /\ s.values.data[n] = v
          /\ \A i \in 0 .. n - 1 : /\ s.keys.data[i] = m.keys.data[i]
                                   /\ s.values.data[i] = m.values.data[i]
      BY <1>4, MapSetAbsent
    <2>2. \A i \in 0 .. n - 1 : m.keys.data[i] # k
      BY <1>4 DEF Present, Places
    <2>3. \A i \in 0 .. s.keys.count - 1 : i \in 0 .. n - 1 \/ i = n
      BY <1>1, <2>1
    <2>4. n \in 0 .. s.keys.count - 1 /\ \A i \in 0 .. n - 1 : i \in 0 .. s.keys.count - 1
      BY <1>1, <2>1
    <2>5. f = [x \in D |-> f[x]]
      OBVIOUS
    <2>6. \A i \in 0 .. n - 1 : f[m.keys.data[i]] = m.values.data[i]
      BY <1>2, <2>2
    <2>7. f[k] = v
      OBVIOUS
    <2> HIDE DEF s, f
    <2>8. StoredKeys(s) = D
      <3>1. ASSUME NEW x \in StoredKeys(s) PROVE x \in D
        <4>1. PICK i \in 0 .. s.keys.count - 1 : s.keys.data[i] = x
          BY DEF StoredKeys
        <4> QED
          BY <1>2, <2>1, <2>3, <4>1
      <3>2. ASSUME NEW x \in D PROVE x \in StoredKeys(s)
        <4>1. PICK i \in 0 .. s.keys.count - 1 : s.keys.data[i] = x
          BY <2>1, <2>4 DEF StoredKeys
        <4> QED
          BY <4>1 DEF StoredKeys
      <3> QED
        BY <3>1, <3>2
    <2> HIDE DEF D
    <2>9. \A i \in 0 .. s.keys.count - 1 : f[s.keys.data[i]] = s.values.data[i]
      BY <2>1, <2>3, <2>6, <2>7
    <2>10. AsFunction(s) = f
      BY <2>1, <2>5, <2>8, <2>9, AsFunctionEqual
    <2> QED
      BY <2>10 DEF s, f, D, Overwritten
  <1> QED
    BY <1>3, <1>4

LEMMA AsFunctionAfterRemove ==
  ASSUME NEW K, NEW V, NEW m, MapShape(m, K, V), NEW k \in K, Present(m, k)
  PROVE  AsFunction(Map_remove(m, k)) = [x \in StoredKeys(m) \ {k} |-> AsFunction(m)[x]]
  <1> DEFINE r == Map_remove(m, k)
             n == m.keys.count
             p == First(m, k)
             D == StoredKeys(m) \ {k}
             f == [x \in D |-> AsFunction(m)[x]]
             Shift(i) == IF i < p THEN i ELSE i + 1
  <1>1. /\ n \in Nat /\ p \in 0 .. n - 1 /\ m.keys.data[p] = k
        /\ \A i \in 0 .. n - 1 : m.keys.data[i] = k => i = p
    BY FirstPlace, MapParts
  <1>2. \A i \in 0 .. n - 1 : /\ m.keys.data[i] \in StoredKeys(m)
                              /\ AsFunction(m)[m.keys.data[i]] = m.values.data[i]
    BY AsFunctionValues
  <1>3. /\ MapShape(r, K, V) /\ r.keys.count = n - 1
        /\ \A i \in 0 .. n - 2 : /\ r.keys.data[i] = m.keys.data[Shift(i)]
                                 /\ r.values.data[i] = m.values.data[Shift(i)]
    BY MapRemoveShape
  <1> HIDE DEF p, r
  <1>4. \A i \in 0 .. n - 2 : Shift(i) \in 0 .. n - 1 /\ Shift(i) # p
    BY <1>1
  <1>5. ASSUME NEW j \in 0 .. n - 1, j # p PROVE \E i \in 0 .. n - 2 : Shift(i) = j
    <2>1. CASE j < p
      <3>1. j \in 0 .. n - 2 /\ Shift(j) = j
        BY <1>1, <2>1
      <3> QED
        BY <3>1
    <2>2. CASE ~(j < p)
      <3>1. j - 1 \in 0 .. n - 2 /\ Shift(j - 1) = j
        BY <1>1, <1>5, <2>2
      <3> QED
        BY <3>1
    <2> QED
      BY <2>1, <2>2
  <1> HIDE DEF Shift
  <1>6. r.keys.count - 1 = n - 2
    BY <1>1, <1>3
  <1>7. StoredKeys(r) = D
    <2>1. ASSUME NEW x \in StoredKeys(r) PROVE x \in D
      <3>1. PICK i \in 0 .. n - 2 : r.keys.data[i] = x
        BY <1>6 DEF StoredKeys
      <3> QED
        BY <1>1, <1>2, <1>3, <1>4, <3>1
    <2>2. ASSUME NEW x \in D PROVE x \in StoredKeys(r)
      <3>1. PICK j \in 0 .. n - 1 : m.keys.data[j] = x
        BY DEF StoredKeys
      <3>2. j # p
        BY <1>1, <3>1
      <3>3. PICK i \in 0 .. n - 2 : Shift(i) = j
        BY <1>5, <3>2
      <3>4. r.keys.data[i] = x
        BY <1>3, <3>1, <3>3
      <3> QED
        BY <1>6, <3>4 DEF StoredKeys
    <2> QED
      BY <2>1, <2>2
  <1>8. \A i \in 0 .. n - 2 : f[r.keys.data[i]] = r.values.data[i]
    <2> TAKE i \in 0 .. n - 2
    <2>1. m.keys.data[Shift(i)] \in D
      BY <1>1, <1>2, <1>4
    <2> QED
      BY <1>2, <1>3, <1>4, <2>1
  <1>9. f = [x \in D |-> f[x]]
    OBVIOUS
  <1> HIDE DEF f, D
  <1>10. AsFunction(r) = f
    BY <1>3, <1>6, <1>7, <1>8, <1>9, AsFunctionEqual
  <1> QED
    BY <1>10 DEF r, f, D

LEMMA MapInitTypeOK == MapInit => MapTypeOK
  BY DEF MapInit, MapTypeOK

LEMMA PresentIsStored == \A m, k : Present(m, k) = (k \in StoredKeys(m))
  BY DEF Present, Places, StoredKeys

\* An allocated map is well shaped, and a key is in the function when a loop finds it.
LEMMA MadeMap ==
  ASSUME MapTypeOK, Made
  PROVE  /\ MapShape(map, Key, Value)
         /\ \A k : Present(map, k) <=> k \in StoredKeys(map)
         /\ DOMAIN AsFunction(map) = StoredKeys(map)
  <1>1. ~IsMade(Map_destroyed.keys)
    BY DEF Map_destroyed, Vector_destroyed, IsMade
  <1>2. MapShape(map, Key, Value)
    BY <1>1 DEF MapTypeOK, Made
  <1> QED
    BY <1>2, AsFunctionValues

\* Each call keeps the two vectors parallel and every key in one place.
LEMMA MapCallsKeepType ==
  ASSUME MapTypeOK, [MapNext]_mapVars
  PROVE  MapTypeOK'
  <1>1. ASSUME NEW n \in MapCounts, MapMakeCall(n) PROVE MapTypeOK'
    BY <1>1, MapMakeShape, MapAssumption DEF MapMakeCall, MapTypeOK
  <1>2. ASSUME MapDestroyCall PROVE MapTypeOK'
    BY <1>2 DEF MapDestroyCall, MapTypeOK
  <1>3. ASSUME NEW k \in Key, MapGetCall(k) PROVE MapTypeOK'
    <2>1. MapShape(map, Key, Value) /\ map' = map
      BY <1>3, MadeMap DEF MapGetCall
    <2>2. Present(map, k) => Map_get(map, k) \in Value
      BY <2>1, FirstPlace
    <2> QED
      BY <1>3, <2>1, <2>2 DEF MapGetCall, MapTypeOK
  <1>4. ASSUME NEW k \in Key, MapRemoveCall(k) PROVE MapTypeOK'
    <2>1. MapShape(map, Key, Value)
      BY <1>4, MadeMap DEF MapRemoveCall
    <2>2. MapShape(Map_remove(map, k), Key, Value)
      <3>1. CASE Present(map, k)
        BY <2>1, <3>1, MapRemoveShape
      <3>2. CASE ~Present(map, k)
        BY <2>1, <3>2 DEF Map_remove
      <3> QED
        BY <3>1, <3>2
    <2>3. Present(map, k) \in BOOLEAN
      BY DEF Present
    <2> QED
      BY <1>4, <2>2, <2>3 DEF MapRemoveCall, MapTypeOK
  <1>5. ASSUME NEW k \in Key, NEW v \in Value, Made PROVE MapShape(Map_set(map, k, v), Key, Value)
    BY <1>5, MapTypeOK, MadeMap, MapSetPresent, MapSetAbsent
  <1>6. ASSUME NEW k \in Key, NEW v \in Value, MapSetCall(k, v) PROVE MapTypeOK'
    BY <1>5, <1>6 DEF MapSetCall, MapTypeOK
  <1>7. ASSUME NEW k \in Key, NEW v \in Value, MapReplaceCall(k, v) PROVE MapTypeOK'
    <2>1. Made /\ MapShape(map, Key, Value)
      BY <1>7, MadeMap DEF MapReplaceCall
    <2>2. MapShape(Map_replace(map, k, v), Key, Value)
      BY <1>5, <2>1, MapReplaceShape
    <2>3. Present(map, k) \in BOOLEAN
      BY DEF Present
    <2> QED
      BY <1>7, <2>2, <2>3 DEF MapReplaceCall, MapTypeOK
  <1>8. ASSUME UNCHANGED mapVars PROVE MapTypeOK'
    BY <1>8 DEF mapVars, MapTypeOK
  <1> QED
    BY <1>1, <1>2, <1>3, <1>4, <1>6, <1>7, <1>8 DEF MapNext

\* Each call is a call of the dictionary.
LEMMA MapCallsImplementDictionary ==
  ASSUME MapTypeOK, [MapNext]_mapVars
  PROVE  [AbstractMap!Next]_<<AsFunction(map), map_result>>
  <1>1. ASSUME NEW n \in MapCounts, MapMakeCall(n) PROVE AbstractMap!Clear
    <2>1. map'.keys.count = 0
      BY <1>1 DEF MapMakeCall, Map_make, Vector_make
    <2> QED
      BY <1>1, <2>1, EmptyMap DEF MapMakeCall, AbstractMap!Clear
  <1>2. ASSUME MapDestroyCall PROVE AbstractMap!Clear
    <2>1. map'.keys.count = 0
      BY <1>2 DEF MapDestroyCall, Map_destroyed, Vector_destroyed
    <2> QED
      BY <1>2, <2>1, EmptyMap DEF MapDestroyCall, AbstractMap!Clear
  <1>3. ASSUME NEW k \in Key, MapGetCall(k) PROVE AbstractMap!Get(k)
    <2>1. /\ Present(map, k) <=> k \in StoredKeys(map)
          /\ DOMAIN AsFunction(map) = StoredKeys(map) /\ map' = map
      BY <1>3, MadeMap DEF MapGetCall
    <2>2. k \in StoredKeys(map) => AsFunction(map)[k] = Map_get(map, k)
      BY DEF AsFunction
    <2> HIDE DEF AsFunction
    <2> QED
      BY <1>3, <2>1, <2>2 DEF MapGetCall, AbstractMap!Get, AbstractMap!Stored
  <1>4. ASSUME NEW k \in Key, MapRemoveCall(k) PROVE AbstractMap!Remove(k)
    <2>1. /\ Present(map, k) <=> k \in StoredKeys(map)
          /\ MapShape(map, Key, Value)
          /\ DOMAIN AsFunction(map) = StoredKeys(map)
      BY <1>4, MadeMap DEF MapRemoveCall
    <2>2. AsFunction(map') = [x \in StoredKeys(map) \ {k} |-> AsFunction(map)[x]]
      <3>1. CASE Present(map, k)
        BY <1>4, <2>1, <3>1, AsFunctionAfterRemove DEF MapRemoveCall
      <3>2. CASE ~Present(map, k)
        <4>1. map' = map /\ StoredKeys(map) \ {k} = StoredKeys(map)
          BY <1>4, <2>1, <3>2 DEF MapRemoveCall, Map_remove
        <4>2. AsFunction(map) = [x \in StoredKeys(map) |-> AsFunction(map)[x]]
          BY DEF AsFunction
        <4> HIDE DEF AsFunction
        <4> QED
          BY <4>1, <4>2
      <3> QED
        BY <3>1, <3>2
    <2>3. map_result' = <<k \in StoredKeys(map)>>
      BY <1>4, PresentIsStored, Zenon DEF MapRemoveCall
    <2> QED
      BY <2>1, <2>2, <2>3 DEF AbstractMap!Remove, AbstractMap!Stored
  <1>5. ASSUME NEW k \in Key, NEW v \in Value, Made
        PROVE  AsFunction(Map_set(map, k, v)) = AbstractMap!With(k, v)
    <2>1. MapShape(map, Key, Value) /\ DOMAIN AsFunction(map) = StoredKeys(map)
      BY <1>5, MadeMap
    <2>2. Overwritten(map, k, v) = AbstractMap!With(k, v)
      <3>1. AbstractMap!Stored = StoredKeys(map)
        BY <2>1 DEF AbstractMap!Stored
      <3> QED
        BY <3>1, Zenon DEF Overwritten, AbstractMap!With
    <2> QED
      BY <2>1, <2>2, AsFunctionAfterSet
  <1>6. ASSUME NEW k \in Key, NEW v \in Value, MapSetCall(k, v) PROVE AbstractMap!Set(k, v)
    BY <1>5, <1>6 DEF MapSetCall, AbstractMap!Set
  <1>7. ASSUME NEW k \in Key, NEW v \in Value, MapReplaceCall(k, v)
        PROVE  AbstractMap!Replace(k, v)
    <2>1. /\ Made /\ MapShape(map, Key, Value)
          /\ Present(map, k) <=> k \in StoredKeys(map)
          /\ DOMAIN AsFunction(map) = StoredKeys(map)
      BY <1>7, MadeMap DEF MapReplaceCall
    <2>2. AsFunction(map') = IF k \in StoredKeys(map) THEN AbstractMap!With(k, v)
                             ELSE AsFunction(map)
      BY <1>5, <1>7, <2>1, MapReplaceShape DEF MapReplaceCall
    <2>3. map_result' = <<k \in StoredKeys(map)>>
      BY <1>7, PresentIsStored, Zenon DEF MapReplaceCall
    <2> QED
      BY <2>1, <2>2, <2>3 DEF AbstractMap!Replace, AbstractMap!Stored
  <1>8. ASSUME UNCHANGED mapVars PROVE UNCHANGED <<AsFunction(map), map_result>>
    BY <1>8 DEF mapVars
  <1> QED
    BY <1>1, <1>2, <1>3, <1>4, <1>6, <1>7, <1>8 DEF MapNext, AbstractMap!Next

LEMMA MapTypeHolds == MapSpec => []MapTypeOK
  <1>1. MapTypeOK /\ [MapNext]_mapVars => MapTypeOK'
    BY MapCallsKeepType
  <1> QED
    BY <1>1, MapInitTypeOK, PTL DEF MapSpec

(***************************************************************************)
(* The map implements a dictionary: in any sequence of calls a key has the *)
(* value that was set last, through growing and through removals in the    *)
(* middle of the two vectors.                                              *)
(***************************************************************************)
THEOREM MapIsDictionary == MapSpec => IsDictionary
  <1>1. MapInit => AbstractMap!Init
    <2>1. Map_destroyed.keys.count = 0
      BY DEF Map_destroyed, Vector_destroyed
    <2> QED
      BY <2>1, EmptyMap DEF MapInit, AbstractMap!Init
  <1>2. MapTypeOK /\ [MapNext]_mapVars => [AbstractMap!Next]_<<AsFunction(map), map_result>>
    BY MapCallsImplementDictionary
  <1> QED
    BY <1>1, <1>2, MapTypeHolds, PTL DEF MapSpec, IsDictionary, AbstractMap!Spec

-----------------------------------------------------------------------------
(* num_to_string and get_num_digits.                                       *)

\* Power is what its definition says: the loop that defines it has a result.
LEMMA PowerSteps ==
  /\ Power \in [Nat -> Nat \ {0}] /\ Power[0] = 1
  /\ \A k \in Nat : Power[k + 1] = Base * Power[k]
  <1> DEFINE Loop(f) == f = [k \in Nat |-> IF k = 0 THEN 1 ELSE Base * f[k - 1]]
             F == CHOOSE f : Loop(f)
             step == [p \in Nat \X (Nat \ {0}) |-> Base * p[2]]
  <1>1. PICK f \in [Nat -> Nat \ {0}] : Iterates(f, 1, step)
    <2>1. step \in [Nat \X (Nat \ {0}) -> Nat \ {0}]
      BY UtilitiesAssumption
    <2>2. 1 \in Nat \ {0}
      OBVIOUS
    <2> HIDE DEF step
    <2> QED
      BY <2>1, <2>2, Recursion
  <1>2. \A k \in Nat : f[k + 1] = Base * f[k]
    BY <1>1 DEF Iterates
  <1>3. Loop(f)
    <2>1. f = [k \in Nat |-> f[k]]
      BY <1>1
    <2>2. ASSUME NEW k \in Nat PROVE f[k] = IF k = 0 THEN 1 ELSE Base * f[k - 1]
      <3>1. CASE k = 0
        BY <1>1, <3>1 DEF Iterates
      <3>2. CASE k # 0
        <4>1. k - 1 \in Nat /\ k - 1 + 1 = k
          BY <3>2
        <4> QED
          BY <1>2, <3>2, <4>1
      <3> QED
        BY <3>1, <3>2
    <2> QED
      BY <2>1, <2>2
  <1>4. Loop(F)
    <2> HIDE DEF Loop
    <2> QED
      BY <1>3
  <1>5. Power = F
    BY DEF Power
  <1> HIDE DEF F
  <1>6. \A k \in Nat : F[k] = IF k = 0 THEN 1 ELSE Base * F[k - 1]
    BY <1>4
  <1>7. F[0] = 1
    BY <1>6
  <1>8. ASSUME NEW k \in Nat PROVE F[k + 1] = Base * F[k]
    <2>1. k + 1 \in Nat /\ k + 1 # 0 /\ k + 1 - 1 = k
      OBVIOUS
    <2> HIDE DEF Loop
    <2> QED
      BY <1>6, <2>1
  <1> DEFINE Q == {k \in Nat : F[k] \in Nat \ {0}}
  <1>9. Nat \subseteq Q
    <2>1. 0 \in Q
      BY <1>7
    <2>2. ASSUME NEW k \in Nat, k \in Q PROVE k + 1 \in Q
      <3>1. Base * F[k] \in Nat \ {0}
        BY <2>2, UtilitiesAssumption
      <3> QED
        BY <1>8, <3>1
    <2> HIDE DEF Q
    <2> QED
      BY <2>1, <2>2, Induction
  <1>10. F \in [Nat -> Nat \ {0}]
    <2>1. F = [k \in Nat |-> F[k]]
      <3> DEFINE d == [k \in Nat |-> IF k = 0 THEN 1 ELSE Base * F[k - 1]]
      <3>1. F = d
        BY <1>4
      <3>2. d = [k \in Nat |-> d[k]]
        OBVIOUS
      <3> HIDE DEF d
      <3> QED
        BY <3>1, <3>2
    <2>2. \A k \in Nat : F[k] \in Nat \ {0}
      BY <1>9
    <2> QED
      BY <2>1, <2>2
  <1> QED
    BY <1>5, <1>7, <1>8, <1>10

\* The powers of a sum are products.
LEMMA PowerOfSum ==
  ASSUME NEW a \in Nat
  PROVE  \A b \in Nat : Power[a + b] = Power[a] * Power[b]
  <1> DEFINE Q == {b \in Nat : Power[a + b] = Power[a] * Power[b]}
  <1>1. 0 \in Q
    <2>1. a + 0 = a /\ Power[a] \in Nat /\ Power[0] = 1
      BY PowerSteps
    <2> QED
      BY <2>1
  <1>2. ASSUME NEW b \in Nat, b \in Q PROVE b + 1 \in Q
    <2> DEFINE x == Power[a]
               y == Power[b]
    <2>1. x \in Nat /\ y \in Nat /\ Base \in Nat
      BY PowerSteps, UtilitiesAssumption
    <2>2. Power[a + b] = x * y
      BY <1>2
    <2>3. Power[b + 1] = Base * y
      BY PowerSteps
    <2>4. Power[a + (b + 1)] = Base * Power[a + b]
      <3>1. a + (b + 1) = (a + b) + 1 /\ a + b \in Nat
        OBVIOUS
      <3> QED
        BY <3>1, PowerSteps
    <2> HIDE DEF x, y
    <2>5. Base * (x * y) = x * (Base * y)
      BY <2>1
    <2>6. Power[a + (b + 1)] = x * Power[b + 1]
      BY <2>2, <2>3, <2>4, <2>5
    <2> QED
      BY <2>6 DEF x
  <1>3. Nat \subseteq Q
    <2> HIDE DEF Q
    <2> QED
      BY <1>1, <1>2, Induction
  <1> QED
    BY <1>3

\* A larger exponent gives no smaller power.
LEMMA PowersGrow ==
  ASSUME NEW a \in Nat, NEW b \in Nat
  PROVE  Power[a] <= Power[a + b]
  <1>1. Power[a] \in Nat \ {0} /\ Power[b] \in Nat \ {0} /\ Power[a + b] = Power[a] * Power[b]
    BY PowerSteps, PowerOfSum
  <1>2. \A x, y \in Nat \ {0} : x <= x * y
    OBVIOUS
  <1> QED
    BY <1>1, <1>2

\* The loop that divides by Base in each pass divides by its powers.
LEMMA LeftIsQuotient ==
  ASSUME NEW n \in Nat
  PROVE  /\ \A k \in Nat : Left(n)[k] = n \div Power[k] /\ Left(n)[k] \in Nat
         /\ \A k \in Nat : Left(n)[k + 1] = Left(n)[k] \div Base
  <1> DEFINE Loop(f) == f = [k \in Nat |-> IF k = 0 THEN n ELSE f[k - 1] \div Base]
             F == CHOOSE f : Loop(f)
             g == [k \in Nat |-> n \div Power[k]]
  <1>1. \A k \in Nat : Power[k] \in Nat \ {0}
    BY PowerSteps
  <1>2. g[0] = n
    BY PowerSteps
  <1>3. ASSUME NEW k \in Nat PROVE g[k + 1] = g[k] \div Base
    <2>1. (n \div Power[k]) \div Base = n \div (Base * Power[k])
      BY <1>1, DivDiv, UtilitiesAssumption
    <2> QED
      BY <2>1, PowerSteps
  <1>4. g = [k \in Nat |-> g[k]]
    OBVIOUS
  <1>5. \A k \in Nat : g[k] \in Nat /\ g[k] = n \div Power[k]
    BY <1>1, DivMod
  <1> HIDE DEF g
  <1>6. Loop(g)
    <2>1. ASSUME NEW k \in Nat PROVE g[k] = IF k = 0 THEN n ELSE g[k - 1] \div Base
      <3>1. CASE k = 0
        BY <1>2, <3>1
      <3>2. CASE k # 0
        <4>1. k - 1 \in Nat /\ k - 1 + 1 = k
          BY <3>2
        <4> QED
          BY <1>3, <3>2, <4>1
      <3> QED
        BY <3>1, <3>2
    <2> QED
      BY <1>4, <2>1
  <1>7. Loop(F)
    <2> HIDE DEF Loop
    <2> QED
      BY <1>6
  <1>8. Left(n) = F
    BY DEF Left
  <1> HIDE DEF F
  <1>9. \A k \in Nat : F[k] = IF k = 0 THEN n ELSE F[k - 1] \div Base
    BY <1>7
  <1> DEFINE Q == {k \in Nat : F[k] = g[k]}
  <1>10. 0 \in Q
    BY <1>2, <1>9
  <1>11. ASSUME NEW k \in Nat, k \in Q PROVE k + 1 \in Q
    <2>1. k + 1 \in Nat /\ k + 1 # 0 /\ k + 1 - 1 = k
      OBVIOUS
    <2>2. F[k + 1] = F[k] \div Base
      BY <1>9, <2>1
    <2> QED
      BY <1>3, <1>11, <2>2
  <1>12. Nat \subseteq Q
    <2> HIDE DEF Q
    <2> QED
      BY <1>10, <1>11, Induction
  <1> QED
    BY <1>3, <1>5, <1>8, <1>12

\* So far r - 1 digits of n are divided away, and what is left has at most so many.
Counting(s, n, places) ==
  /\ s \in [r : Nat \ {0}, n : Nat]
  /\ s.n = n \div Power[s.r - 1]
  /\ s.n < Power[places]
  /\ s.r > 1 => s.n # 0

\* A step leaves half of the digits it may meet, never the number 0.
LEMMA CountStep ==
  ASSUME NEW n \in Nat, NEW p \in Nat, NEW s, Counting(s, n, p + p)
  PROVE  Counting(Count(s, p), n, p) /\ Count(s, p).r <= s.r + p
  <1> DEFINE t == [r |-> s.r + p, n |-> s.n \div Power[p]]
  <1>1. /\ Power[p] \in Nat \ {0} /\ s.r \in Nat \ {0} /\ s.n \in Nat /\ s.r - 1 \in Nat
        /\ Power[s.r - 1] \in Nat \ {0}
    BY PowerSteps DEF Counting
  <1>2. CASE s.n >= Power[p]
    <2>1. Count(s, p) = t
      BY <1>2 DEF Count
    <2>2. t.n \in Nat /\ t.n # 0
      <3>1. s.n \div Power[p] \in Nat /\ (s.n \div Power[p] = 0 <=> s.n < Power[p])
        BY <1>1, DivMod, QuotientZero
      <3> QED
        BY <1>1, <1>2, <3>1
    <2>3. t.n = n \div Power[t.r - 1]
      <3>1. s.n \div Power[p] = n \div (Power[p] * Power[s.r - 1])
        BY <1>1, DivDiv DEF Counting
      <3>2. Power[p + (s.r - 1)] = Power[p] * Power[s.r - 1]
        BY <1>1, PowerOfSum
      <3>3. p + (s.r - 1) = t.r - 1
        BY <1>1
      <3>4. t.n = s.n \div Power[p]
        OBVIOUS
      <3> HIDE DEF t
      <3> QED
        BY <3>1, <3>2, <3>3, <3>4
    <2>4. t.n < Power[p]
      <3>1. Power[p + p] = Power[p] * Power[p] /\ Power[p + p] \in Nat \ {0}
        BY PowerOfSum, PowerSteps
      <3>2. s.n \div Power[p + p] = 0
        BY <1>1, <3>1, QuotientZero DEF Counting
      <3>3. (s.n \div Power[p]) \div Power[p] = 0
        BY <1>1, <3>1, <3>2, DivDiv
      <3> QED
        BY <1>1, <2>2, <3>3, QuotientZero
    <2> QED
      BY <1>1, <2>1, <2>2, <2>3, <2>4 DEF Counting
  <1>3. CASE ~(s.n >= Power[p])
    <2>1. Count(s, p) = s
      BY <1>3 DEF Count
    <2> QED
      BY <1>1, <1>3, <2>1 DEF Counting
  <1> QED
    BY <1>2, <1>3

\* get_num_digits is the number of digits, at least one: they leave nothing, one less does not.
LEMMA DigitsAreCounted ==
  ASSUME NEW n \in Numbers
  PROVE  /\ n \in Nat /\ get_num_digits(n) \in 1 .. 32
         /\ Left(n)[get_num_digits(n)] = 0
         /\ Left(n)[get_num_digits(n) - 1] \in 0 .. Base - 1
         /\ get_num_digits(n) > 1 => Left(n)[get_num_digits(n) - 1] # 0
  <1> DEFINE s0 == [r |-> 1, n |-> n]
             s1 == Count(s0, 16)
             s2 == Count(s1, 8)
             s3 == Count(s2, 4)
             s4 == Count(s3, 2)
             s5 == Count(s4, 1)
             length == get_num_digits(n)
  <1>1. n \in Nat /\ n < Power[20]
    <2>1. n \in 0 .. Power[20] - 1
      BY UtilitiesAssumption
    <2>2. Power[20] \in Nat
      BY PowerSteps
    <2> QED
      BY <2>1, <2>2
  <1>2. Counting(s0, n, 16 + 16)
    <2>1. n \div Power[0] = n
      BY <1>1, PowerSteps
    <2>2. Power[20] <= Power[20 + 12]
      BY PowersGrow
    <2>3. n < Power[16 + 16]
      <3>1. Power[20] \in Nat /\ Power[20 + 12] \in Nat /\ 20 + 12 = 16 + 16
        BY PowerSteps
      <3> QED
        BY <1>1, <2>2, <3>1
    <2> QED
      BY <1>1, <2>1, <2>3 DEF Counting
  <1>3. Counting(s1, n, 8 + 8) /\ s1.r <= 17
    <2>1. Counting(s1, n, 16) /\ s1.r <= s0.r + 16
      BY <1>1, <1>2, CountStep
    <2> QED
      BY <2>1
  <1> HIDE DEF s1
  <1>4. Counting(s2, n, 4 + 4) /\ s2.r <= 25
    <2>1. Counting(s2, n, 8) /\ s2.r <= s1.r + 8
      BY <1>1, <1>3, CountStep
    <2> QED
      BY <1>3, <2>1 DEF Counting
  <1> HIDE DEF s2
  <1>5. Counting(s3, n, 2 + 2) /\ s3.r <= 29
    <2>1. Counting(s3, n, 4) /\ s3.r <= s2.r + 4
      BY <1>1, <1>4, CountStep
    <2> QED
      BY <1>4, <2>1 DEF Counting
  <1> HIDE DEF s3
  <1>6. Counting(s4, n, 1 + 1) /\ s4.r <= 31
    <2>1. Counting(s4, n, 2) /\ s4.r <= s3.r + 2
      BY <1>1, <1>5, CountStep
    <2> QED
      BY <1>5, <2>1 DEF Counting
  <1> HIDE DEF s4
  <1>7. Counting(s5, n, 1) /\ s5.r <= 32
    <2>1. Counting(s5, n, 1) /\ s5.r <= s4.r + 1
      BY <1>1, <1>6, CountStep
    <2> QED
      BY <1>6, <2>1 DEF Counting
  <1>8. length = s5.r
    BY DEF get_num_digits, s1, s2, s3, s4
  <1> HIDE DEF s5, length
  <1>9. /\ length \in 1 .. 32 /\ length - 1 \in Nat
        /\ s5.n = Left(n)[length - 1] /\ s5.n \in Nat
    <2>1. length \in 1 .. 32 /\ length - 1 \in Nat
      BY <1>7, <1>8 DEF Counting
    <2>2. s5.n = n \div Power[length - 1] /\ s5.n \in Nat
      BY <1>7, <1>8 DEF Counting
    <2>3. Left(n)[length - 1] = n \div Power[length - 1]
      BY <1>1, <2>1, LeftIsQuotient
    <2> QED
      BY <2>1, <2>2, <2>3
  <1>10. Power[1] = Base
    <2>1. Power[0 + 1] = Base * Power[0] /\ Power[0] = 1
      BY PowerSteps
    <2> QED
      BY <2>1, UtilitiesAssumption
  <1>11. s5.n \in 0 .. Base - 1
    BY <1>7, <1>9, <1>10, UtilitiesAssumption DEF Counting
  <1>12. Left(n)[length] = 0
    <2>1. Left(n)[length - 1 + 1] = Left(n)[length - 1] \div Base
      BY <1>1, <1>9, LeftIsQuotient
    <2>2. s5.n \div Base = 0
      BY <1>9, <1>11, QuotientZero, UtilitiesAssumption
    <2>3. length - 1 + 1 = length
      BY <1>9
    <2> QED
      BY <1>9, <2>1, <2>2, <2>3
  <1>13. length > 1 => Left(n)[length - 1] # 0
    BY <1>7, <1>8, <1>9 DEF Counting
  <1> QED
    BY <1>1, <1>9, <1>11, <1>12, <1>13 DEF length

\* The digits num_to_string writes, last to first, read as the number, first to last.
LEMMA DigitsReadBack ==
  ASSUME NEW n \in Nat, NEW length \in Nat, Left(n)[length] = 0, NEW text,
         \A i \in 0 .. length - 1 : text[i] = Digit(n, length, i)
  PROVE  Reading(text, length) = n
  <1> DEFINE Loop(f) == f = [k \in 0 .. length |->
                               IF k = 0 THEN 0 ELSE Base * f[k - 1] + text[k - 1]]
             F == CHOOSE f : Loop(f)
             g == [k \in 0 .. length |-> Left(n)[length - k]]
  <1>1. \A k \in 0 .. length : g[k] = Left(n)[length - k] /\ g[k] \in Nat
    BY LeftIsQuotient
  <1>2. g[0] = 0
    BY <1>1
  <1>3. ASSUME NEW k \in 1 .. length PROVE g[k] = Base * g[k - 1] + text[k - 1]
    <2>1. k - 1 \in 0 .. length - 1 /\ length - 1 - (k - 1) = length - k /\ k \in 0 .. length
          /\ k - 1 \in 0 .. length /\ length - k \in Nat /\ length - (k - 1) = length - k + 1
      OBVIOUS
    <2>2. text[k - 1] = g[k] % Base
      BY <1>1, <2>1 DEF Digit
    <2>3. g[k - 1] = g[k] \div Base
      BY <1>1, <2>1, LeftIsQuotient
    <2>4. g[k] = Base * (g[k] \div Base) + (g[k] % Base)
      <3>1. g[k] \in Nat /\ Base \in Nat \ {0}
        BY <1>1, <2>1, UtilitiesAssumption
      <3> HIDE DEF g
      <3> QED
        BY <3>1, DivMod
    <2> QED
      BY <2>2, <2>3, <2>4
  <1>4. g = [k \in 0 .. length |-> g[k]]
    OBVIOUS
  <1>5. g[length] = n
    <2>1. length \in 0 .. length /\ length - length = 0
      OBVIOUS
    <2>2. Left(n)[0] = n \div Power[0] /\ Power[0] = 1
      BY LeftIsQuotient, PowerSteps
    <2> QED
      BY <1>1, <2>1, <2>2
  <1> HIDE DEF g
  <1>6. Loop(g)
    <2>1. ASSUME NEW k \in 0 .. length
          PROVE  g[k] = IF k = 0 THEN 0 ELSE Base * g[k - 1] + text[k - 1]
      <3>1. CASE k = 0
        BY <1>2, <3>1
      <3>2. CASE k # 0
        <4>1. k \in 1 .. length
          BY <3>2
        <4> QED
          BY <1>3, <3>2, <4>1
      <3> QED
        BY <3>1, <3>2
    <2> QED
      BY <1>4, <2>1
  <1>7. Loop(F)
    <2> HIDE DEF Loop
    <2> QED
      BY <1>6
  <1>8. Reading(text, length) = F[length]
    BY DEF Reading
  <1> HIDE DEF F
  <1>9. \A k \in 0 .. length : F[k] = IF k = 0 THEN 0 ELSE Base * F[k - 1] + text[k - 1]
    BY <1>7
  <1> DEFINE Q == {k \in Nat : k <= length => F[k] = g[k]}
  <1>10. 0 \in Q
    BY <1>2, <1>9
  <1>11. ASSUME NEW k \in Nat, k \in Q PROVE k + 1 \in Q
    <2> SUFFICES ASSUME k + 1 <= length PROVE F[k + 1] = g[k + 1]
      OBVIOUS
    <2>1. k + 1 \in 1 .. length /\ k + 1 \in 0 .. length /\ k + 1 # 0 /\ k + 1 - 1 = k
      OBVIOUS
    <2>2. F[k] = g[k]
      BY <1>11
    <2>3. F[k + 1] = Base * F[k] + text[k]
      BY <1>9, <2>1
    <2>4. g[k + 1] = Base * g[k] + text[k]
      BY <1>3, <2>1
    <2> QED
      BY <2>2, <2>3, <2>4
  <1>12. Nat \subseteq Q
    <2> HIDE DEF Q
    <2> QED
      BY <1>10, <1>11, Induction
  <1> QED
    BY <1>5, <1>8, <1>12

\* num_to_string writes the number, whatever the buffer held.
LEMMA NumToStringWrites ==
  ASSUME NEW n \in Numbers, num_to_string(n)
  PROVE  NumberIsWritten'
  <1> DEFINE length == get_num_digits(n)
  <1>1. /\ n \in Nat /\ length \in 1 .. 32 /\ Left(n)[length] = 0
        /\ Left(n)[length - 1] \in 0 .. Base - 1
        /\ length > 1 => Left(n)[length - 1] # 0
    BY DigitsAreCounted
  <1>2. /\ number' = n /\ digits' = length
        /\ digits_str_buffer' = [i \in 0 .. BufferSize - 1 |->
                                   IF i < length THEN Digit(n, length, i)
                                   ELSE IF i = length THEN Terminator
                                   ELSE digits_str_buffer[i]]
    BY DEF num_to_string
  <1> HIDE DEF length
  <1>3. digits' < BufferSize /\ digits_str_buffer'[length] = Terminator
    BY <1>1, <1>2 DEF BufferSize
  <1>4. \A i \in 0 .. length - 1 : digits_str_buffer'[i] = Digit(n, length, i)
    BY <1>1, <1>2 DEF BufferSize
  <1>5. \A i \in 0 .. length - 1 : Digit(n, length, i) \in 0 .. Base - 1
    <2> TAKE i \in 0 .. length - 1
    <2>1. length - 1 - i \in Nat
      BY <1>1
    <2>2. Left(n)[length - 1 - i] \in Nat
      BY <1>1, <2>1, LeftIsQuotient
    <2>3. \A x \in Nat : x % Base \in 0 .. Base - 1
      <3>1. Base \in Nat \ {0}
        BY UtilitiesAssumption
      <3> TAKE x \in Nat
      <3> QED
        BY <3>1, DivMod
    <2> QED
      BY <2>2, <2>3 DEF Digit
  <1>6. length > 1 => digits_str_buffer'[0] # 0
    <2> SUFFICES ASSUME length > 1 PROVE digits_str_buffer'[0] # 0
      OBVIOUS
    <2>1. 0 \in 0 .. length - 1 /\ length - 1 - 0 = length - 1
      BY <1>1
    <2>2. digits_str_buffer'[0] = Left(n)[length - 1] % Base
      BY <1>4, <2>1 DEF Digit
    <2>3. \A x \in 0 .. Base - 1 : x % Base = x
      BY UtilitiesAssumption
    <2> QED
      BY <1>1, <2>2, <2>3
  <1>7. Reading(digits_str_buffer', length) = n
    BY <1>1, <1>4, DigitsReadBack
  <1> QED
    BY <1>1, <1>2, <1>3, <1>4, <1>5, <1>6, <1>7 DEF NumberIsWritten

(***************************************************************************)
(* Whatever numbers num_to_string was given before, and in whatever base:  *)
(* the text it returns last fits the buffer of the thread, has no leading  *)
(* zero and reads as its argument; get_num_digits never counts one digit   *)
(* too few or too many.                                                    *)
(***************************************************************************)
THEOREM NumbersAreWritten == UtilitiesSpec => []NumberIsWritten
  <1>1. UtilitiesInit => NumberIsWritten
    BY DEF UtilitiesInit, NumberIsWritten
  <1>2. NumberIsWritten /\ [UtilitiesNext]_utilityVars => NumberIsWritten'
    <2> SUFFICES ASSUME NumberIsWritten, [UtilitiesNext]_utilityVars PROVE NumberIsWritten'
      OBVIOUS
    <2>1. ASSUME UNCHANGED <<digits_str_buffer, number, digits>> PROVE NumberIsWritten'
      BY <2>1 DEF NumberIsWritten
    <2> QED
      BY <2>1, NumToStringWrites
      DEF UtilitiesNext, CompressNext, compress_gz, Deflate, CompressReturns, utilityVars
  <1> QED
    BY <1>1, <1>2, PTL DEF UtilitiesSpec

-----------------------------------------------------------------------------
(* compress_gz.                                                            *)

\* The least of two numbers is one of them and at most the other.
LEMMA MinOfTwo ==
  ASSUME NEW a \in Int, NEW b \in Int
  PROVE  Min({a, b}) = IF a <= b THEN a ELSE b
  <1>1. CASE a <= b
    <2>1. a \in {a, b} /\ \A y \in {a, b} : a <= y
      BY <1>1
    <2>2. \A x \in {a, b} : (\A y \in {a, b} : x <= y) => x = a
      BY <1>1
    <2> QED BY <1>1, <2>1, <2>2 DEF Min
  <1>2. CASE ~(a <= b)
    <2>1. b \in {a, b} /\ \A y \in {a, b} : b <= y
      BY <1>2
    <2>2. \A x \in {a, b} : (\A y \in {a, b} : x <= y) => x = b
      BY <1>2
    <2> QED BY <1>2, <2>1, <2>2 DEF Min
  <1> QED BY <1>1, <1>2

-----------------------------------------------------------------------------
ZipState == [at : {"idle", "loop", "done"}, len : Nat, result : Nat, out : Nat, capacity : Nat]

\* Between two passes the output holds a prefix of the result, in memory that is its own,
\* and the loop is left only with all of it.
ZipInv == /\ zip \in ZipState
          /\ zip.out <= zip.result
          /\ OutputFits
          /\ OutputIsWhole

\* The increase is positive, so that a pass which fills it has not reached an empty end.
LEMMA IncreaseIsPositive ==
  ASSUME ZipInv
  PROVE  Increase \in Nat /\ Increase > 0
  BY UtilitiesAssumption DEF ZipInv, ZipState, Increase

LEMMA DeflateKeepsZipInv ==
  ASSUME ZipInv, Deflate
  PROVE  ZipInv'
  <1> DEFINE rest == zip.result - zip.out
  <1>1. /\ zip.at = "loop" /\ zip.result \in Nat /\ zip.out \in Nat /\ zip.out <= zip.result
        /\ zip.len \in Nat /\ zip.capacity \in Nat
    BY DEF ZipInv, ZipState, Deflate
  <1>2. Increase \in Nat /\ Increase > 0
    BY IncreaseIsPositive
  <1>3. rest \in Nat
    BY <1>1
  <1>4. Written = IF Increase <= rest THEN Increase ELSE rest
    BY <1>2, <1>3, MinOfTwo DEF Written
  <1>5. zip' = [at       |-> IF Again THEN "loop" ELSE "done", len |-> zip.len,
                result   |-> zip.result,
                out      |-> zip.out + Written,
                capacity |-> zip.out + Increase]
    BY DEF Deflate, ZipInv, ZipState, Room
  <1>6. /\ zip'.out \in Nat /\ zip'.out <= zip'.result /\ zip'.out <= zip'.capacity
        /\ zip'.capacity \in Nat
    <2> HIDE DEF rest
    <2>1. Written \in Nat /\ Written <= Increase /\ Written <= rest
      BY <1>2, <1>3, <1>4
    <2> USE DEF rest
    <2> QED BY <1>1, <1>2, <1>5, <2>1
  <1>7. zip'.at = "done" => zip'.out = zip'.result
    <2>1. SUFFICES ASSUME ~Again PROVE zip.out + Written = zip.result
      BY <1>5
    <2>2. Written # Increase
      BY <1>2, <2>1 DEF Again, AvailOut
    <2>3. Written = rest
      BY <1>4, <2>2
    <2> QED BY <1>1, <2>3
  <1>8. zip' \in ZipState
    BY <1>1, <1>5, <1>6 DEF ZipState
  <1> QED BY <1>6, <1>7, <1>8 DEF ZipInv, OutputFits, OutputIsWhole

\* The inductive invariant of compress_gz.
LEMMA ZipInvHolds == UtilitiesSpec => []ZipInv
  <1>1. UtilitiesInit => ZipInv
    BY DEF UtilitiesInit, NoZip, ZipInv, ZipState, OutputFits, OutputIsWhole
  <1>2. ASSUME ZipInv, [UtilitiesNext]_utilityVars PROVE ZipInv'
    <2>1. ASSUME NEW len \in 0 .. MaxData, NEW size \in 0 .. MaxResult,
                 compress_gz(len, size)
          PROVE  ZipInv'
      BY <2>1, UtilitiesAssumption DEF compress_gz, ZipInv, ZipState, OutputFits, OutputIsWhole
    <2>2. ASSUME CompressReturns PROVE ZipInv'
      BY <2>2 DEF CompressReturns, NoZip, ZipInv, ZipState, OutputFits, OutputIsWhole
    <2>3. ASSUME UNCHANGED zip PROVE ZipInv'
      BY <1>2, <2>3 DEF ZipInv, OutputFits, OutputIsWhole
    <2> QED BY <1>2, <2>1, <2>2, <2>3, DeflateKeepsZipInv
            DEF UtilitiesNext, CompressNext, num_to_string, utilityVars
  <1> QED BY <1>1, <1>2, PTL DEF UtilitiesSpec

-----------------------------------------------------------------------------
\* Whatever the data and its compressed form, compress_gz never writes behind what realloc
\* gave it, though the sum it asks for is taken anew in each pass.
THEOREM CompressedOutputFits == UtilitiesSpec => []OutputFits
  BY ZipInvHolds, PTL DEF ZipInv

\* compress_gz returns the whole result, also when it fills the last room exactly.
THEOREM CompressedOutputIsWhole == UtilitiesSpec => []OutputIsWhole
  BY ZipInvHolds, PTL DEF ZipInv

-----------------------------------------------------------------------------
(* The three data structures together.                                     *)

(***************************************************************************)
(* Whichever of the structures is used, and however: its arrays stay well  *)
(* shaped and every stored cell was written, so that no call returns       *)
(* uninitialized memory.                                                   *)
(***************************************************************************)
THEOREM LibraryWellShaped == LibrarySpec => []LibraryTypeOK
  <1> DEFINE I == Inv /\ VectorTypeOK /\ MapTypeOK
  <1>1. LibraryInit => I
    BY InitHoldsInv, VectorInitTypeOK, MapInitTypeOK DEF LibraryInit
  <1>2. I /\ [LibraryNext]_libraryVars => I'
    <2> SUFFICES ASSUME I, [LibraryNext]_libraryVars PROVE I'
      OBVIOUS
    <2>1. [Next]_vars /\ [VectorNext]_vecVars /\ [MapNext]_mapVars
      BY DEF LibraryNext, RingBufferUsed, VectorUsed, MapUsed, ResponseUsed, NumToStringUsed,
             CompressGzUsed, libraryVars
    <2> QED
      BY <2>1, CallsKeepInv, VectorCallsKeepType, MapCallsKeepType
  <1>3. I => LibraryTypeOK
    BY DEF Inv, LibraryTypeOK
  <1> QED
    BY <1>1, <1>2, <1>3, PTL DEF LibrarySpec
=============================================================================
