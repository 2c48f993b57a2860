--------------------------- MODULE MCUserAccounts ---------------------------
(* Small instances of UserAccounts for TLC. *)
EXTENDS UserAccounts

CONSTANTS r1, r2, e1, e2, advanced
=============================================================================
