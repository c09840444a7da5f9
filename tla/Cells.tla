-------------------------------- MODULE Cells --------------------------------
(* What the arrays of the data structures share.                            *)

CONSTANT Garbage   \* a cell that malloc or realloc left uninitialized
=============================================================================
