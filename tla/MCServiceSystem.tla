--------------------------- MODULE MCServiceSystem ---------------------------
(* A small instance of ServiceSystem for TLC. *)
EXTENDS ServiceSystem, TLC

CONSTANTS r1, r2, n1, t1

Symmetry == Permutations(Requests)
=============================================================================
