-------------------------- MODULE RingBufferLemmas --------------------------
(***************************************************************************)
(* What the operators of RingBuffer preserve and what they do to the       *)
(* contents, for every element set and every capacity.                     *)
(***************************************************************************)
EXTENDS RingBuffer, TLAPS

\* One turn taken off a sum of two positions, and how far i lies behind x.
Turn(n, a) == IF a < n THEN a ELSE a - n

Behind(n, x, i) == IF i >= x THEN i - x ELSE i - x + n

(***************************************************************************)
(* Arithmetic of the index: within two turns of the buffer % is a          *)
(* subtraction.                                                            *)
(***************************************************************************)
LEMMA IndexArithmetic ==
  \A n \in Nat \ {0} : \A i, k \in 0 .. n - 1 :
    (i + k) % n = Turn(n, i + k) /\ (i + k) % n \in 0 .. n - 1
  BY DEF Turn

\* The k-th position from x is i exactly when i lies k behind x.
LEMMA TurnBehind ==
  ASSUME NEW r, r.count \in Nat \ {0}, r.index \in 0 .. r.count - 1,
         NEW k \in 0 .. r.count - 1, NEW i \in 0 .. r.count - 1
  PROVE  /\ Turn(r.count, r.index + k) = i <=> k = Behind(r.count, r.index, i)
         /\ Behind(r.count, r.index, i) \in 0 .. r.count - 1
  <1>1. PICK n \in Nat, x \in Nat : n = r.count /\ x = r.index
    OBVIOUS
  <1>2. x < n /\ k \in 0 .. n - 1 /\ i \in 0 .. n - 1
    BY <1>1
  <1>3. /\ Turn(n, x + k) = i <=> k = Behind(n, x, i)
        /\ Behind(n, x, i) \in 0 .. n - 1
    BY ONLY <1>2, n \in Nat, x \in Nat DEF Turn, Behind
  <1> QED
    BY <1>1, <1>3

\* One step of the index: every other cell comes one place nearer to it.
LEMMA NextIndex ==
  ASSUME NEW r, r.count \in Nat \ {0}, r.index \in 0 .. r.count - 1,
         NEW t, t.index \in 0 .. r.count - 1,
         r.index + 1 < r.count => t.index = r.index + 1,
         r.index + 1 = r.count => t.index = 0,
         NEW i \in 0 .. r.count - 1
  PROVE  /\ i # r.index => Behind(r.count, t.index, i) = Behind(r.count, r.index, i) - 1
         /\ i + 1 < r.count => Turn(r.count, t.index + i) = Turn(r.count, r.index + (i + 1))
  <1>1. PICK n \in Nat, x \in Nat, y \in Nat : n = r.count /\ x = r.index /\ y = t.index
    OBVIOUS
  <1>2. /\ x < n /\ y < n /\ i \in 0 .. n - 1 
        /\ (x + 1 < n => y = x + 1) /\ (x + 1 = n => y = 0)
    BY <1>1
  <1>3. /\ i # x => Behind(n, y, i) = Behind(n, x, i) - 1
        /\ i + 1 < n => Turn(n, y + i) = Turn(n, x + (i + 1))
    BY ONLY <1>2, n \in Nat, x \in Nat, y \in Nat DEF Turn, Behind
  <1> QED
    BY <1>1, <1>3

\* The k-th slot of a buffer, for k within one turn, is a cell of it.
LEMMA SlotArithmetic ==
  ASSUME NEW r, RingShape(r), NEW k \in 0 .. r.count - 1
  PROVE  /\ Slot(r, k) \in 0 .. r.count - 1
         /\ Slot(r, k) = Turn(r.count, r.index + k)
  <1>1. r.index \in 0 .. r.count - 1 /\ r.count \in Nat \ {0}
    BY DEF RingShape
  <1> QED
    BY <1>1, IndexArithmetic, Zenon DEF Slot

\* A buffer as make leaves it has the shape, and no live cell.
LEMMA MakeShape ==
  ASSUME NEW n \in Nat
  PROVE  /\ RingShape(RingBuffer_make(n))
         /\ LiveCellsHoldElements(RingBuffer_make(n))
         /\ Contents(RingBuffer_make(n)) = <<>>
  <1> DEFINE r == RingBuffer_make(n)
  <1>1. RingShape(r)
    BY DEF RingShape, RingBuffer_make, Cell
  <1>2. LiveSlots(r) = {}
    BY DEF LiveSlots, RingBuffer_make
  <1>3. LiveCellsHoldElements(r)
    BY <1>2, CellAssumption DEF LiveCellsHoldElements, RingBuffer_make
  <1>4. Contents(r) = <<>>
    BY DEF Contents, RingBuffer_make
  <1> QED
    BY <1>1, <1>3, <1>4

\* Which cells are live, as arithmetic: those fewer than `stored' cells after
\* index, counting round the end.
LEMMA LiveSlotArithmetic ==
  ASSUME NEW r, RingShape(r), NEW i \in 0 .. r.count - 1
  PROVE  i \in LiveSlots(r) <=>
           Behind(r.count, r.index, i) < r.stored
  <1> DEFINE k == Behind(r.count, r.index, i)
  <1>1. /\ r.index \in 0 .. r.count - 1 /\ r.stored \in 0 .. r.count
        /\ r.count \in Nat \ {0}
    BY DEF RingShape
  <1>2. k \in 0 .. r.count - 1
    BY <1>1, TurnBehind
  <1>3. ASSUME NEW j \in 0 .. r.count - 1
        PROVE  Slot(r, j) = i <=> j = k
    <2>1. Slot(r, j) = Turn(r.count, r.index + j)
      BY SlotArithmetic
    <2>2. Turn(r.count, r.index + j) = i <=> j = k
      BY <1>1, TurnBehind
    <2> QED
      BY <2>1, <2>2
  <1> HIDE DEF k
  <1>4. \A j \in 0 .. r.stored - 1 : j \in 0 .. r.count - 1
    BY <1>1
  <1>5. i \in LiveSlots(r) <=> k \in 0 .. r.stored - 1
    BY <1>2, <1>3, <1>4 DEF LiveSlots
  <1> QED
    BY <1>1, <1>2, <1>5 DEF k

\* Growing a full buffer keeps its contents: the wrapped part is where the larger
\* array looks for it, and nothing else is taken for an element.
LEMMA GrowShape ==
  ASSUME NEW r, RingShape(r), LiveCellsHoldElements(r), r.stored = r.count
  PROVE  LET g == RingBuffer_grow(r)
         IN  /\ RingShape(g) /\ g.stored < g.count
             /\ LiveCellsHoldElements(g)
             /\ Contents(g) = Contents(r)
  <1> DEFINE g == RingBuffer_grow(r)
  <1>1. /\ r.index \in 0 .. r.count - 1 /\ r.count \in Nat \ {0}
        /\ r.data \in [0 .. r.count - 1 -> Cell]
    BY DEF RingShape
  <1>2. /\ g.count = 2 * r.count /\ g.index = r.index /\ g.stored = r.count
        /\ \A i \in 0 .. g.count - 1 :
             g.data[i] = IF i < r.index THEN Zero
                         ELSE IF i < r.count THEN r.data[i]
                         ELSE IF i - r.count < r.index THEN r.data[i - r.count]
                         ELSE Garbage
    BY <1>1 DEF RingBuffer_grow, GROW_RATE, RingShape
  <1>3. RingShape(g)
    BY <1>1 DEF RingBuffer_grow, GROW_RATE, RingShape, Cell
  <1>4. \A i \in 0 .. r.count - 1 : r.data[i] \in Elem
    <2> TAKE i \in 0 .. r.count - 1
    <2>1. i \in LiveSlots(r) <=> Behind(r.count, r.index, i) < r.stored
      BY LiveSlotArithmetic
    <2>2. Behind(r.count, r.index, i) \in 0 .. r.count - 1
      BY <1>1, TurnBehind
    <2> QED
      BY <1>1, <2>1, <2>2 DEF LiveCellsHoldElements
  <1> HIDE DEF g
  <1>5. LiveCellsHoldElements(g)
    <2> SUFFICES ASSUME NEW i \in 0 .. g.count - 1
                 PROVE  g.data[i] \in Elem <=> i \in LiveSlots(g)
      BY DEF LiveCellsHoldElements
    <2>1. i \in LiveSlots(g) <=> r.index <= i /\ i < r.index + r.count
      <3>1. i \in LiveSlots(g) <=> Behind(g.count, g.index, i) < g.stored
        BY <1>3, LiveSlotArithmetic
      <3> QED
        BY <1>1, <1>2, <3>1 DEF Behind
    <2>2. CASE r.index <= i /\ i < r.count
      BY <1>1, <1>2, <1>4, <2>1, <2>2
    <2>3. CASE r.count <= i /\ i < r.count + r.index
      <3>1. i - r.count \in 0 .. r.count - 1
        BY <1>1, <1>2, <2>3
      <3> QED
        BY <1>1, <1>2, <1>4, <2>1, <2>3, <3>1
    <2>4. CASE i < r.index \/ r.count + r.index <= i
      BY <1>1, <1>2, <2>1, <2>4, CellAssumption
    <2> QED
      BY <1>1, <1>2, <2>2, <2>3, <2>4
  <1>6. \A k \in 0 .. r.count - 1 : g.data[Slot(g, k)] = r.data[Slot(r, k)]
    <2> TAKE k \in 0 .. r.count - 1
    <2>1. Slot(g, k) = r.index + k
      <3>1. k \in 0 .. g.count - 1
        BY <1>1, <1>2
      <3>2. Slot(g, k) = Turn(g.count, g.index + k)
        BY <1>3, <3>1, SlotArithmetic
      <3> QED
        BY <1>1, <1>2, <3>2 DEF Turn
    <2>2. Slot(r, k) = Turn(r.count, r.index + k)
      BY <1>1, SlotArithmetic
    <2> QED
      BY <1>1, <1>2, <2>1, <2>2 DEF Turn
  <1>7. Contents(g) = Contents(r)
    BY <1>2, <1>6 DEF Contents, RingShape
  <1> QED
    BY <1>1, <1>2, <1>3, <1>5, <1>7 DEF g

\* The contents of a buffer are a sequence of its `stored' elements.
LEMMA ContentsType ==
  ASSUME NEW r, RingShape(r), LiveCellsHoldElements(r)
  PROVE  /\ Contents(r) \in Seq(Elem) /\ Len(Contents(r)) = r.stored
         /\ \A k \in 0 .. r.stored - 1 :
              r.data[Slot(r, k)] \in Elem /\ Contents(r)[k + 1] = r.data[Slot(r, k)]
  <1>1. r.stored \in Nat /\ r.count \in Nat /\ r.stored <= r.count
    BY DEF RingShape
  <1>2. \A k \in 0 .. r.stored - 1 : Slot(r, k) \in LiveSlots(r) /\ Slot(r, k) \in 0 .. r.count - 1
    BY <1>1, SlotArithmetic DEF LiveSlots
  <1>3. \A k \in 0 .. r.stored - 1 : r.data[Slot(r, k)] \in Elem
    BY <1>2 DEF LiveCellsHoldElements
  <1>4. \A k \in 1 .. r.stored : k - 1 \in 0 .. r.stored - 1
    BY <1>1
  <1>5. Contents(r) \in [1 .. r.stored -> Elem]
    BY <1>3, <1>4 DEF Contents
  <1>6. \A k \in 0 .. r.stored - 1 : Contents(r)[k + 1] = r.data[Slot(r, k)]
    BY <1>1 DEF Contents
  <1>7. Contents(r) \in Seq(Elem) /\ Len(Contents(r)) = r.stored
    BY <1>1, <1>5
  <1> QED
    BY <1>3, <1>6, <1>7

\* Writing one element behind the last, in a buffer that has room.
LEMMA WriteShape ==
  ASSUME NEW g, RingShape(g), LiveCellsHoldElements(g), g.stored < g.count,
         NEW e \in Elem,
         NEW a, RingShape(a), a.index = g.index, a.count = g.count,
         a.stored = g.stored + 1,
         a.data = [g.data EXCEPT ![Slot(g, g.stored)] = e]
  PROVE  /\ LiveCellsHoldElements(a)
         /\ Contents(a) = Append(Contents(g), e)
  <1> DEFINE w == Slot(g, g.stored)
  <1>1. /\ g.index \in 0 .. g.count - 1 /\ g.count \in Nat \ {0}
        /\ g.stored \in 0 .. g.count - 1
        /\ g.data \in [0 .. g.count - 1 -> Cell]
    BY DEF RingShape
  <1>2. /\ w \in 0 .. g.count - 1
        /\ w = Turn(g.count, g.index + g.stored)
    BY <1>1, SlotArithmetic
  <1>3. a.data[w] = e /\ \A i \in 0 .. g.count - 1 : i # w => a.data[i] = g.data[i]
    BY <1>1, <1>2
  <1> HIDE DEF w
  <1>4. LiveCellsHoldElements(a)
    <2> SUFFICES ASSUME NEW i \in 0 .. g.count - 1
                 PROVE  a.data[i] \in Elem <=> i \in LiveSlots(a)
      BY DEF LiveCellsHoldElements
    <2>1. i \in LiveSlots(g) <=>
            Behind(g.count, g.index, i) < g.stored
      BY LiveSlotArithmetic
    <2>2. i \in LiveSlots(a) <=>
            Behind(g.count, g.index, i) < g.stored + 1
      BY LiveSlotArithmetic
    <2>3. g.data[i] \in Elem <=> i \in LiveSlots(g)
      BY DEF LiveCellsHoldElements
    <2>4. CASE i = w
      <3>1. Behind(g.count, g.index, w) = g.stored
        BY <1>1, <1>2, TurnBehind
      <3>2. i \in LiveSlots(a)
        BY <1>1, <2>2, <2>4, <3>1
      <3> QED
        BY <1>3, <2>4, <3>2
    <2>5. CASE i # w
      <3>1. a.data[i] = g.data[i]
        BY <1>3, <2>5
      <3>2. Behind(g.count, g.index, i) # g.stored
        BY <1>1, <1>2, <2>5, TurnBehind
      <3>3. Behind(g.count, g.index, i) \in 0 .. g.count - 1
        BY <1>1, TurnBehind
      <3>4. i \in LiveSlots(a) <=> i \in LiveSlots(g)
        BY <1>1, <2>1, <2>2, <3>2, <3>3
      <3> QED
        BY <2>3, <3>1, <3>4
    <2> QED
      BY <2>4, <2>5
  <1>5. \A k \in 0 .. g.stored : Slot(a, k) = Slot(g, k)
    BY DEF Slot
  <1>6. ASSUME NEW k \in 0 .. g.stored - 1
        PROVE  a.data[Slot(a, k)] = g.data[Slot(g, k)]
    <2>1. k \in 0 .. g.count - 1 /\ k \in 0 .. g.stored
      BY <1>1
    <2>2. /\ Slot(g, k) \in 0 .. g.count - 1
          /\ Slot(g, k) = Turn(g.count, g.index + k)
      BY <2>1, SlotArithmetic
    <2>3. Slot(g, k) # w
      <3>1. k # g.stored
        BY <1>1
      <3> QED
        BY <1>1, <1>2, <2>1, <2>2, <3>1, TurnBehind
    <2> QED
      BY <1>3, <1>5, <2>1, <2>2, <2>3
  <1>7. a.data[Slot(a, g.stored)] = e
    <2>1. Slot(a, g.stored) = w
      BY <1>1, <1>5 DEF w
    <2> QED
      BY <1>3, <2>1
  <1>8. /\ Contents(g) \in Seq(Elem) /\ Len(Contents(g)) = g.stored
        /\ \A k \in 0 .. g.stored - 1 : Contents(g)[k + 1] = g.data[Slot(g, k)]
    BY ContentsType
  <1>9. /\ Contents(a) \in Seq(Elem) /\ Len(Contents(a)) = g.stored + 1
        /\ \A k \in 0 .. a.stored - 1 : Contents(a)[k + 1] = a.data[Slot(a, k)]
    BY <1>4, ContentsType
  <1>10. Contents(a)[g.stored + 1] = e
    <2>1. g.stored \in 0 .. a.stored - 1
      BY <1>1
    <2> QED
      BY <1>7, <1>9, <2>1
  <1>11. ASSUME NEW k \in 1 .. g.stored
         PROVE  Contents(a)[k] = Contents(g)[k]
    <2>1. /\ k - 1 \in 0 .. g.stored - 1 /\ k - 1 \in 0 .. a.stored - 1
          /\ (k - 1) + 1 = k
      BY <1>1
    <2>2. a.data[Slot(a, k - 1)] = g.data[Slot(g, k - 1)]
      BY <1>6, <2>1
    <2>3. /\ Contents(g)[(k - 1) + 1] = g.data[Slot(g, k - 1)]
          /\ Contents(a)[(k - 1) + 1] = a.data[Slot(a, k - 1)]
      BY <1>8, <1>9, <2>1
    <2> QED
      BY <2>1, <2>2, <2>3
  <1>12. Contents(a) = Append(Contents(g), e)
    <2> DEFINE ca == Contents(a)
               cg == Contents(g)
    <2>1. ca \in Seq(Elem) /\ cg \in Seq(Elem) /\ Len(ca) = Len(cg) + 1
      BY <1>8, <1>9
    <2>2. ca[Len(cg) + 1] = e
      BY <1>8, <1>10
    <2>3. \A k \in 1 .. Len(cg) : ca[k] = cg[k]
      BY <1>8, <1>11
    <2> HIDE DEF ca, cg
    <2> QED
      BY <2>1, <2>2, <2>3 DEF ca, cg
  <1> QED
    BY <1>4, <1>12

\* append adds its element at the end, whether it had to grow or not.
LEMMA AppendShape ==
  ASSUME NEW r, RingShape(r), LiveCellsHoldElements(r), NEW e \in Elem
  PROVE  LET a == RingBuffer_append(r, e)
         IN  /\ RingShape(a) /\ LiveCellsHoldElements(a)
             /\ a.stored = r.stored + 1
             /\ Contents(a) = Append(Contents(r), e)
  <1> DEFINE g == IF r.stored = r.count THEN RingBuffer_grow(r) ELSE r
             a == RingBuffer_append(r, e)
  <1>1. /\ RingShape(g) /\ LiveCellsHoldElements(g) /\ g.stored < g.count
        /\ g.stored = r.stored /\ Contents(g) = Contents(r)
    <2>1. CASE r.stored = r.count
      BY <2>1, GrowShape DEF RingBuffer_grow
    <2>2. CASE r.stored # r.count
      BY <2>2 DEF RingShape
    <2> QED
      BY <2>1, <2>2
  <1>2. a = [data   |-> [g.data EXCEPT ![Slot(g, g.stored)] = e],
             index  |-> g.index, stored |-> g.stored + 1, count |-> g.count]
    BY DEF RingBuffer_append, Slot
  <1> HIDE DEF g, a
  <1>3. /\ a.data = [g.data EXCEPT ![Slot(g, g.stored)] = e]
        /\ a.index = g.index /\ a.stored = g.stored + 1 /\ a.count = g.count
    BY <1>2
  <1>4. RingShape(a)
    <2>1. Slot(g, g.stored) \in 0 .. g.count - 1
      <3>1. g.stored \in 0 .. g.count - 1
        BY <1>1 DEF RingShape
      <3> QED
        BY <1>1, <3>1, SlotArithmetic
    <2> QED
      BY <1>1, <1>2, <2>1 DEF RingShape, Cell
  <1>5. LiveCellsHoldElements(a) /\ Contents(a) = Append(Contents(g), e)
    BY <1>1, <1>3, <1>4, WriteShape
  <1> QED
    BY <1>1, <1>3, <1>4, <1>5 DEF a

\* Taking the first element off a buffer that has one.
LEMMA ReadShape ==
  ASSUME NEW r, RingShape(r), LiveCellsHoldElements(r), r.stored # 0,
         NEW t, RingShape(t), t.count = r.count, t.stored = r.stored - 1,
         r.index + 1 < r.count => t.index = r.index + 1,
         r.index + 1 = r.count => t.index = 0,
         t.data = [r.data EXCEPT ![r.index] = Zero]
  PROVE  /\ LiveCellsHoldElements(t)
         /\ Contents(r) # <<>>
         /\ RingBuffer_peek(r) = Head(Contents(r))
         /\ RingBuffer_peek(r) \in Elem
         /\ Contents(t) = Tail(Contents(r))
  <1>1. /\ r.index \in 0 .. r.count - 1 /\ r.count \in Nat \ {0}
        /\ r.stored \in 1 .. r.count
        /\ r.data \in [0 .. r.count - 1 -> Cell]
    BY DEF RingShape
  <1>2. /\ t.index \in 0 .. r.count - 1
        /\ r.index + 1 < r.count => t.index = r.index + 1
        /\ r.index + 1 = r.count => t.index = 0
    BY <1>1
  <1>3. LiveCellsHoldElements(t)
    <2> SUFFICES ASSUME NEW i \in 0 .. r.count - 1
                 PROVE  t.data[i] \in Elem <=> i \in LiveSlots(t)
      BY <1>2 DEF LiveCellsHoldElements
    <2>1. i \in LiveSlots(r) <=>
            Behind(r.count, r.index, i) < r.stored
      BY LiveSlotArithmetic
    <2>2. i \in LiveSlots(t) <=>
            Behind(r.count, t.index, i) < r.stored - 1
      BY <1>2, LiveSlotArithmetic
    <2>3. r.data[i] \in Elem <=> i \in LiveSlots(r)
      BY DEF LiveCellsHoldElements
    <2>4. CASE i = r.index
      BY <1>1, <1>2, <2>2, <2>4, CellAssumption DEF Behind
    <2>5. CASE i # r.index
      <3>1. t.data[i] = r.data[i]
        BY <1>1, <1>2, <2>5
      <3>2. Behind(r.count, t.index, i) = Behind(r.count, r.index, i) - 1
        BY <1>1, <1>2, <2>5, NextIndex
      <3>3. Behind(r.count, r.index, i) \in Int
        BY <1>1 DEF Behind
      <3>4. i \in LiveSlots(t) <=> i \in LiveSlots(r)
        BY <1>1, <2>1, <2>2, <3>2, <3>3
      <3> QED
        BY <2>3, <3>1, <3>4
    <2> QED
      BY <2>4, <2>5
  <1>4. Slot(r, 0) = r.index
    <2>1. 0 \in 0 .. r.count - 1
      BY <1>1
    <2> QED
      BY <1>1, <2>1, SlotArithmetic DEF Turn
  <1>5. \A k \in 0 .. r.stored - 2 : t.data[Slot(t, k)] = r.data[Slot(r, k + 1)]
    <2> TAKE k \in 0 .. r.stored - 2
    <2>1. k \in 0 .. r.count - 1 /\ k + 1 \in 0 .. r.count - 1 /\ k + 1 < r.count
      BY <1>1
    <2>2. /\ Slot(r, k + 1) \in 0 .. r.count - 1
          /\ Slot(r, k + 1) = Turn(r.count, r.index + (k + 1))
      BY <2>1, SlotArithmetic
    <2>3. Slot(t, k) = Turn(r.count, t.index + k)
      BY <2>1, SlotArithmetic
    <2>4. Turn(r.count, t.index + k) = Turn(r.count, r.index + (k + 1))
      BY <1>1, <1>2, <2>1, NextIndex
    <2>5. Slot(r, k + 1) # r.index
      BY <1>1, <2>1, <2>2 DEF Turn
    <2> QED
      BY <1>1, <1>2, <2>2, <2>3, <2>4, <2>5
  <1>6. /\ Contents(r) \in Seq(Elem) /\ Len(Contents(r)) = r.stored
        /\ \A k \in 0 .. r.stored - 1 :
             r.data[Slot(r, k)] \in Elem /\ Contents(r)[k + 1] = r.data[Slot(r, k)]
    BY ContentsType
  <1>7. /\ Contents(r) # <<>> /\ RingBuffer_peek(r) = Head(Contents(r))
        /\ RingBuffer_peek(r) \in Elem
    <2>1. r.data[r.index] \in Elem /\ Contents(r)[1] = r.data[r.index]
      BY <1>1, <1>4, <1>6
    <2> QED
      BY <1>1, <1>6, <2>1 DEF RingBuffer_peek
  <1>8. Contents(t) = Tail(Contents(r))
    <2>1. /\ Contents(t) \in Seq(Elem) /\ Len(Contents(t)) = r.stored - 1
          /\ \A k \in 0 .. t.stored - 1 : Contents(t)[k + 1] = t.data[Slot(t, k)]
      BY <1>2, <1>3, ContentsType
    <2>2. \A k \in 1 .. r.stored - 1 : Contents(t)[k] = Contents(r)[k + 1]
      <3> TAKE k \in 1 .. r.stored - 1
      <3>1. /\ k - 1 \in 0 .. r.stored - 2 /\ (k - 1) + 1 = k
            /\ k \in 0 .. r.stored - 1 /\ k - 1 \in 0 .. t.stored - 1
        BY <1>1, <1>2
      <3> QED
        BY <1>5, <1>6, <2>1, <3>1
    <2> QED
      BY <1>1, <1>6, <2>1, <2>2
  <1> QED
    BY <1>3, <1>7, <1>8

\* retrieve takes the first element off, and what it copies out is that element.
LEMMA RetrieveShape ==
  ASSUME NEW r, RingShape(r), LiveCellsHoldElements(r), r.stored # 0
  PROVE  LET t == RingBuffer_retrieve(r)
         IN  /\ RingShape(t) /\ LiveCellsHoldElements(t)
             /\ t.stored = r.stored - 1
             /\ Contents(r) # <<>>
             /\ RingBuffer_peek(r) = Head(Contents(r))
             /\ RingBuffer_peek(r) \in Elem
             /\ Contents(t) = Tail(Contents(r))
  <1> DEFINE t == RingBuffer_retrieve(r)
             next == (r.index + 1) % r.count
  <1>1. /\ r.index \in 0 .. r.count - 1 /\ r.count \in Nat \ {0}
        /\ r.stored \in 1 .. r.count
        /\ r.data \in [0 .. r.count - 1 -> Cell]
    BY DEF RingShape
  <1>2. /\ t.index = next /\ t.stored = r.stored - 1 /\ t.count = r.count
        /\ t.data = [r.data EXCEPT ![r.index] = Zero]
    BY DEF RingBuffer_retrieve
  <1>3. next = IF r.index + 1 < r.count THEN r.index + 1 ELSE 0
    <2>1. CASE r.count = 1
      BY <1>1, <2>1
    <2>2. CASE r.count # 1
      <3>1. 1 \in 0 .. r.count - 1
        BY <1>1, <2>2
      <3>2. next = Turn(r.count, r.index + 1)
        BY <1>1, <3>1, IndexArithmetic, Zenon
      <3> HIDE DEF next
      <3> QED
        BY <1>1, <3>2 DEF Turn
    <2> QED
      BY <2>1, <2>2
  <1>4. RingShape(t)
    <2> HIDE DEF next
    <2>1. next \in Nat /\ next < r.count
      BY <1>1, <1>3
    <2>2. t = [data   |-> [r.data EXCEPT ![r.index] = Zero],
               index  |-> next, stored |-> r.stored - 1, count |-> r.count]
      BY DEF RingBuffer_retrieve, next
    <2> HIDE DEF t
    <2> QED
      BY <1>1, <2>1, <2>2 DEF RingShape, Cell
  <1> HIDE DEF t, next
  <1>5. /\ LiveCellsHoldElements(t)
        /\ Contents(r) # <<>>
        /\ RingBuffer_peek(r) = Head(Contents(r))
        /\ RingBuffer_peek(r) \in Elem
        /\ Contents(t) = Tail(Contents(r))
    <2>1. /\ r.index + 1 < r.count => t.index = r.index + 1
          /\ r.index + 1 = r.count => t.index = 0
      BY <1>1, <1>2, <1>3
    <2> QED
      BY <1>2, <1>4, <2>1, ReadShape
  <1> QED
    BY <1>2, <1>4, <1>5 DEF t
=============================================================================
