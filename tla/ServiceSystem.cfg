\* Two requests on one name and one tag, with the goroutine and the process; the update of a
\* version, which signals nothing, is left to the proof.
CONSTANTS
  r1 = r1  r2 = r2  n1 = n1  t1 = t1
  Requests = {r1, r2}
  Names = {n1}
  Descriptions = {}
  Tags = {t1}
  Infos = {}
  Empty = Empty
  Null = Null
  MaxServiceId = 1
  MaxDrift = 1
  Workload = {"addService", "deleteService", "addServiceVersion", "deleteServiceVersion"}
SYMMETRY Symmetry
SPECIFICATION SystemSpec
PROPERTIES ImplementsViewSync StaleUnnoticedOnlyByRace
