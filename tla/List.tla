-------------------------------- MODULE List --------------------------------
(***************************************************************************)
(* What a vector promises its user: a list with positions from 0, in which *)
(* a call at a position that is not there changes nothing.  `out' is what  *)
(* the last call returned, <<>> when it returned false or returns nothing. *)
(***************************************************************************)
EXTENDS Sequences, Integers

CONSTANT Elem

VARIABLES list, out

Init == list = <<>> /\ out = <<>>

Positions == 0 .. Len(list) - 1

AppendTo(e) == list' = Append(list, e) /\ out' = <<>>

Replace(i, e) == i \in Positions /\ list' = [list EXCEPT ![i + 1] = e] /\ out' = <<>>

RemoveAt(i) == /\ i \in Positions
               /\ list' = SubSeq(list, 1, i) \o SubSeq(list, i + 2, Len(list))
               /\ out' = <<>>

ReadAt(i) == i \in Positions /\ out' = <<list[i + 1]>> /\ UNCHANGED list

NoSuchPosition == out' = <<>> /\ UNCHANGED list

Clear == list' = <<>> /\ out' = <<>>

Next == \/ \E e \in Elem : AppendTo(e) \/ \E i \in Positions : Replace(i, e)
        \/ \E i \in Positions : RemoveAt(i) \/ ReadAt(i)
        \/ NoSuchPosition
        \/ Clear

Spec == Init /\ [][Next]_<<list, out>>
=============================================================================
