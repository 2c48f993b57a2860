\* Two requests with everything they can do to one service, statement by statement.
CONSTANTS
  r1 = r1  r2 = r2  r3 = r3  n1 = n1  n2 = n2  t1 = t1  t2 = t2
  Requests = {r1, r2}
  Names = {n1, n2}
  Descriptions = {}
  Tags = {t1}
  Infos = {}
  Empty = Empty
  Null = Null
  MaxServiceId = 1
  MaxDrift = 1
  MaxOpenConn = 2
  Workload = {"getService", "addService", "updateService", "deleteService", "addServiceVersion",
              "updateServiceVersion", "deleteServiceVersion"}
SPECIFICATION FairTxSpec
INVARIANTS DeadlockOnlyAtConstraint NobodyWaitsInVain
PROPERTIES ImplementsServiceCatalog RequestsEnd
