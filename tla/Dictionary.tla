----------------------------- MODULE Dictionary -----------------------------
(***************************************************************************)
(* What a map promises its user: at most one value per key.  `out' is what *)
(* the last call returned: its Boolean, with the value for a get.          *)
(***************************************************************************)
CONSTANTS Key, Value

VARIABLES dict, out

Init == dict = [k \in {} |-> k] /\ out = <<>>

Stored == DOMAIN dict

With(k, v) == [x \in Stored \cup {k} |-> IF x = k THEN v ELSE dict[x]]

Set(k, v) == dict' = With(k, v) /\ out' = <<>>

Replace(k, v) == /\ dict' = IF k \in Stored THEN With(k, v) ELSE dict
                 /\ out' = <<k \in Stored>>

Get(k) == /\ out' = IF k \in Stored THEN <<TRUE, dict[k]>> ELSE <<FALSE>>
          /\ UNCHANGED dict

Remove(k) == /\ dict' = [x \in Stored \ {k} |-> dict[x]]
             /\ out' = <<k \in Stored>>

Clear == dict' = [k \in {} |-> k] /\ out' = <<>>

Next == \/ \E k \in Key, v \in Value : Set(k, v) \/ Replace(k, v)
        \/ \E k \in Key : Get(k) \/ Remove(k)
        \/ Clear

Spec == Init /\ [][Next]_<<dict, out>>
=============================================================================
