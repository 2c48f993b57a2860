\* Two requests that delete the same version.
CONSTANTS
  r1 = r1  r2 = r2  r3 = r3  n1 = n1  n2 = n2  d1 = d1  t1 = t1  t2 = t2  i1 = i1
  Requests = {r1, r2}
  Names = {n1}
  Descriptions = {d1}
  Tags = {t1}
  Infos = {}
  Empty = Empty
  Null = Null
  MaxServiceId = 1
  MaxDrift = 1
  Workload = {"addService", "addServiceVersion", "deleteServiceVersion"}
SPECIFICATION Spec
INVARIANT VersionCountExact
