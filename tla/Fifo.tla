-------------------------------- MODULE Fifo --------------------------------
(***************************************************************************)
(* What a ring buffer promises its user: an unbounded first-in first-out   *)
(* queue.  `out' is what the last call returned, <<>> when it returned     *)
(* false or returns nothing.                                               *)
(***************************************************************************)
EXTENDS Sequences

CONSTANT Elem

VARIABLES queue, out

First == IF queue = <<>> THEN <<>> ELSE <<Head(queue)>>

Init == queue = <<>> /\ out = <<>>

Put(e) == queue' = Append(queue, e) /\ out' = <<>>

Get == /\ out' = First
       /\ queue' = IF queue = <<>> THEN <<>> ELSE Tail(queue)

Peek == out' = First /\ UNCHANGED queue

Clear == queue' = <<>> /\ out' = <<>>

Next == (\E e \in Elem : Put(e)) \/ Get \/ Peek \/ Clear

Spec == Init /\ [][Next]_<<queue, out>>
=============================================================================
