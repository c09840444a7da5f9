-------------------------- MODULE MiniVectorMachine --------------------------
(***************************************************************************)
(* One vector and the calls of its interface in any order, but insert.     *)
(***************************************************************************)
EXTENDS MiniVector, SequencesExt

CONSTANTS Item,
          VectorCounts,  \* the arguments given to make
          MaxCapacity    \* bound: the array grows only up to this

ASSUME VectorBounds == /\ VectorCounts \subseteq Nat /\ MaxCapacity \in Nat
                       /\ Garbage \notin Item

VARIABLES vec,
          vec_result  \* <<v>> when the last call was get and *result = v

vecVars == <<vec, vec_result>>

VectorInit == vec = Vector_destroyed /\ vec_result = <<>>

\* Positions a caller may ask for: the stored ones and the first that is not.
Index == 0 .. vec.count

HasSpace == vec.capacity * VECTOR_GROW_RATE <= MaxCapacity

MayGrow == vec.count = vec.capacity => HasSpace

VectorMakeCall(n) == ~IsMade(vec) /\ vec' = Vector_make(n) /\ vec_result' = <<>>

VectorDestroyCall == IsMade(vec) /\ vec' = Vector_destroyed /\ vec_result' = <<>>

VectorGrowCall == IsMade(vec) /\ HasSpace /\ vec' = Vector_grow(vec) /\ vec_result' = <<>>

VectorGetCall(i) ==
  /\ IsMade(vec)
  /\ vec_result' = IF InRange(vec, i) THEN <<vec.data[i]>> ELSE <<>>
  /\ UNCHANGED vec

VectorSetCall(i, e) == IsMade(vec) /\ vec' = Vector_set(vec, i, e) /\ vec_result' = <<>>

VectorAppendCall(e) == /\ IsMade(vec) /\ MayGrow
                       /\ vec' = Vector_append(vec, e) /\ vec_result' = <<>>

VectorRemoveCall(i) == IsMade(vec) /\ vec' = Vector_remove(vec, i) /\ vec_result' = <<>>

VectorNext ==
  \/ \E n \in VectorCounts : VectorMakeCall(n)
  \/ VectorDestroyCall
  \/ VectorGrowCall
  \/ \E i \in Index : \/ VectorGetCall(i)
                     \/ VectorRemoveCall(i)
                     \/ \E e \in Item : VectorSetCall(i, e)
  \/ \E e \in Item : VectorAppendCall(e)

VectorSpec == VectorInit /\ [][VectorNext]_vecVars

-----------------------------------------------------------------------------
\* Type invariant: the vector is freed, or every stored cell of its array holds an
\* element; get never returns uninitialized memory.
VectorTypeOK == /\ vec = Vector_destroyed \/ VectorShape(vec, Item)
                /\ vec_result \in {<<>>} \cup {<<e>> : e \in Item}

\* Through any calls, growing and removing at any position, the vector is a list.
AbstractList == INSTANCE List WITH Elem <- Item, list <- Items(vec), out <- vec_result

IsList == AbstractList!Spec
=============================================================================
