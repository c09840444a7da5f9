------------------------------ MODULE MCServer ------------------------------
(* Small instances of Server.                                              *)
EXTENDS Server, TLC

MCSymmetry == Permutations(Elem) \cup Permutations(Workers) \cup Permutations(Fds)
=============================================================================
