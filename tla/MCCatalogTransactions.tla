----------------------- MODULE MCCatalogTransactions -----------------------
(* Small instances of CatalogTransactions for TLC. *)
EXTENDS CatalogTransactions

CONSTANTS r1, r2, r3, n1, n2, t1, t2
=============================================================================
