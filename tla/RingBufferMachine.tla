------------------------- MODULE RingBufferMachine -------------------------
(***************************************************************************)
(* One ring buffer and the calls of its interface, in any order, from      *)
(* RingBuffer_make to RingBuffer_destroy and again: all of them but a      *)
(* direct RingBuffer_grow, which only append calls.                        *)
(***************************************************************************)
EXTENDS RingBuffer

CONSTANTS InitialCounts, \* the arguments given to make
          MaxCount       \* bound: append grows the array only up to MaxCount cells

ASSUME BoundsAssumption == InitialCounts \subseteq Nat /\ MaxCount \in Nat

VARIABLES rngb,   \* the buffer
          result  \* <<v>> when the last call returned true with *result = v

vars == <<rngb, result>>

Init == rngb = RingBuffer_destroyed /\ result = <<>>

MakeCall(n) == /\ ~IsAllocated(rngb)
               /\ rngb' = RingBuffer_make(n)
               /\ result' = <<>>

AppendCall(e) == /\ IsAllocated(rngb)
                 /\ rngb.stored = rngb.count => rngb.count * GROW_RATE <= MaxCount
                 /\ rngb' = RingBuffer_append(rngb, e)
                 /\ result' = <<>>

RetrieveCall ==
  /\ IsAllocated(rngb)
  /\ \/ rngb.stored = 0 /\ result' = <<>> /\ UNCHANGED rngb
     \/ /\ rngb.stored # 0
        /\ result' = <<RingBuffer_peek(rngb)>>
        /\ rngb' = RingBuffer_retrieve(rngb)

PeekCall == /\ IsAllocated(rngb)
            /\ result' = IF rngb.stored = 0 THEN <<>> ELSE <<RingBuffer_peek(rngb)>>
            /\ UNCHANGED rngb

DestroyCall == /\ IsAllocated(rngb)
               /\ rngb' = RingBuffer_destroyed
               /\ result' = <<>>

Next == \/ \E n \in InitialCounts : MakeCall(n)
        \/ \E e \in Elem : AppendCall(e)
        \/ RetrieveCall
        \/ PeekCall
        \/ DestroyCall

Spec == Init /\ [][Next]_vars

-----------------------------------------------------------------------------
\* Type invariant: the buffer is freed or has the shape of an allocated one, and
\* a call never returns an uninitialized or cleared cell as an element.
TypeOK == /\ rngb = RingBuffer_destroyed \/ RingShape(rngb)
          /\ result \in {<<>>} \cup {<<e>> : e \in Elem}

\* The memset calls in retrieve and grow leave no element behind in a cell that is
\* no longer live, and the copy in grow loses none that is.
NoStaleCell == IsAllocated(rngb) => LiveCellsHoldElements(rngb)

Inv == TypeOK /\ NoStaleCell

\* Through any sequence of calls, growing at any index included, the buffer is a
\* first-in first-out queue: nothing lost, duplicated or reordered.
AbstractQueue == INSTANCE Fifo WITH queue <- Contents(rngb), out <- result

IsFifo == AbstractQueue!Spec
=============================================================================
