----------------------------- MODULE MCViewSync -----------------------------
(* Small instances of ViewSync for TLC. *)
EXTENDS ViewSync

CONSTANTS w1, w2, c1, c2, c3
=============================================================================
