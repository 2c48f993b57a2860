\* Two requests of any kind on services that come and go.
CONSTANTS
  r1 = r1  r2 = r2  r3 = r3  n1 = n1  n2 = n2  d1 = d1  t1 = t1  t2 = t2  i1 = i1
  Requests = {r1, r2}
  Names = {n1, n2}
  Descriptions = {}
  Tags = {t1, t2}
  Infos = {}
  Empty = Empty
  Null = Null
  MaxServiceId = 2
  MaxDrift = 1
  Workload = {"getService", "addService", "updateService", "deleteService", "getServiceVersion",
              "addServiceVersion", "updateServiceVersion", "deleteServiceVersion"}
SYMMETRY Symmetry
SPECIFICATION Spec
INVARIANTS TypeOK NamesUnique NoOrphanVersions CountNeverOverstates
PROPERTIES DeletedStaysDeleted CountDriftsOnlyByRacedDelete ImplementsCatalogue
