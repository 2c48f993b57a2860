--------------------------- MODULE MCListingSweep ---------------------------
(* Small instances of ListingSweep for TLC. *)
EXTENDS ListingSweep
=============================================================================
