-------------------------- MODULE MCServiceCatalog --------------------------
(* Small instances of ServiceCatalog for TLC. *)
EXTENDS ServiceCatalog, TLC

CONSTANTS r1, r2, r3, n1, n2, d1, t1, t2, i1

\* Requests, names and tags are interchangeable.
Symmetry == Permutations(Requests) \cup Permutations(Names) \cup Permutations(Tags)

ServiceWork == {"addService", "updateService", "deleteService"}
VersionWork == {"addService", "deleteService", "addServiceVersion", "deleteServiceVersion"}
=============================================================================
