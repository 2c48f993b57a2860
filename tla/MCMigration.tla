----------------------------- MODULE MCMigration -----------------------------
(* A small instance of Migration for TLC. *)
EXTENDS Migration

CONSTANTS m1, m2, a1, basic, advanced, admin
=============================================================================
