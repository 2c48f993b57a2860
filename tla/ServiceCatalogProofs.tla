------------------------ MODULE ServiceCatalogProofs ------------------------
(***************************************************************************)
(* Theorems about ServiceCatalog, for any set of requests, names, tags and *)
(* any workload.                                                           *)
(***************************************************************************)
EXTENDS ServiceCatalog, FiniteSetTheorems, TLAPS

ReqType == InFlight \cup {Idle(s) : s \in Statuses}

----------------------------------------------------------------------------
(* Requests: what a request in flight carries, and how it moves on.        *)

LEMMA InFlightRequest ==
  ASSUME req \in [Requests -> ReqType], NEW r \in Requests, req[r].pc # "idle"
  PROVE  /\ req[r] \in InFlight
         /\ req[r].call \in Calls
         /\ WellFormed(req[r].call)
         /\ req[r].status = "none"
<1>1. req[r] \in ReqType
  OBVIOUS
<1>2. \A s \in Statuses : Idle(s).pc = "idle"
  BY DEF Idle
<1>3. req[r] \in InFlight
  BY <1>1, <1>2 DEF ReqType
<1> QED
  BY <1>3 DEF InFlight

LEMMA IdleType == ASSUME NEW s \in Statuses PROVE Idle(s) \in ReqType
BY DEF ReqType

LEMMA AnswerType ==
  ASSUME req \in [Requests -> ReqType], NEW r \in Requests, NEW s \in Statuses, Answer(r, s)
  PROVE  req' \in [Requests -> ReqType]
<1>1. Idle(s) \in ReqType
  BY IdleType
<1> QED
  BY <1>1 DEF Answer

LEMMA GotoType ==
  ASSUME req \in [Requests -> ReqType], NEW r \in Requests, req[r].pc # "idle",
         NEW pc \in PCs \ {"idle"}, Goto(r, pc)
  PROVE  req' \in [Requests -> ReqType]
<1>1. req[r] \in InFlight
  BY InFlightRequest
<1>2. [req[r] EXCEPT !.pc = pc] \in InFlight
  BY <1>1 DEF InFlight
<1>3. req' = [req EXCEPT ![r] = [req[r] EXCEPT !.pc = pc]]
  BY DEF Goto
<1> QED
  BY <1>2, <1>3 DEF ReqType

LEMMA CommittedType ==
  ASSUME req \in [Requests -> ReqType], NEW r \in Requests, req[r].pc # "idle", Committed(r)
  PROVE  req' \in [Requests -> ReqType]
<1>1. CASE Goto(r, "signal")
  BY <1>1, GotoType DEF PCs
<1>2. CASE Answer(r, "internal")
  BY <1>2, AnswerType DEF Statuses
<1> QED
  BY <1>1, <1>2 DEF Committed

\* The parameters of the calls, by operation.
LEMMA CallParameters ==
  ASSUME NEW call \in Calls, WellFormed(call)
  PROVE  /\ call.op \in Operations
         /\ call.op \in {"addService", "updateService"}
              => call.name \in Names /\ call.text \in Descriptions \cup {Empty}
         /\ call.op # "addService" => call.id \in Ids
         /\ call.op \in {"getServiceVersion", "addServiceVersion", "updateServiceVersion",
                         "deleteServiceVersion"}
              => call.tag \in Tags
         /\ call.op \in {"addServiceVersion", "updateServiceVersion"}
              => call.text \in Infos \cup {Empty}
         /\ call.op = "addService" => call.id = Null
BY EmptyAssumption
   DEF Calls, GetServiceCalls, AddServiceCalls, UpdateServiceCalls, DeleteServiceCalls,
       GetServiceVersionCalls, AddServiceVersionCalls, UpdateServiceVersionCalls, DeleteServiceVersionCalls,
       Call, WellFormed, Operations
----------------------------------------------------------------------------
(* Rows: what a write makes of one.                                        *)

LEMMA AddToCountRow ==
  ASSUME NEW row \in ServiceRow \cup {Null}, NEW n \in Int
  PROVE  /\ AddToCount(row, n) \in ServiceRow \cup {Null}
         /\ AddToCount(row, n) = Null <=> row = Null
         /\ row # Null => /\ AddToCount(row, n).versionCount = row.versionCount + n
                          /\ AddToCount(row, n).name = row.name
<1>1. CASE row = Null
  BY <1>1 DEF AddToCount
<1>2. CASE row # Null
  <2>1. AddToCount(row, n) = [row EXCEPT !.versionCount = row.versionCount + n]
    BY <1>2 DEF AddToCount
  <2>2. AddToCount(row, n) \in ServiceRow
    BY <1>2, <2>1 DEF ServiceRow
  <2>3. /\ AddToCount(row, n).versionCount = row.versionCount + n
        /\ AddToCount(row, n).name = row.name
    BY <1>2, <2>1 DEF ServiceRow
  <2> QED
    BY <1>2, <2>2, <2>3, NullAssumption
<1> QED
  BY <1>1, <1>2

LEMMA UpdatedServiceRow ==
  ASSUME NEW row \in ServiceRow \cup {Null}, NEW call,
         call.name \in Names, call.text \in Descriptions \cup {Empty}
  PROVE  /\ UpdatedService(row, call) \in ServiceRow \cup {Null}
         /\ UpdatedService(row, call) = Null <=> row = Null
         /\ row # Null => /\ UpdatedService(row, call).versionCount = row.versionCount
                          /\ UpdatedService(row, call).name = call.name
<1>1. CASE row = Null
  BY <1>1 DEF UpdatedService
<1>2. CASE row # Null
  <2> DEFINE d == UpdatedField(row.description, call.text)
  <2>1. d \in Descriptions \cup {Empty}
    BY <1>2 DEF UpdatedField, ServiceRow
  <2>2. UpdatedService(row, call) = [row EXCEPT !.name = call.name, !.description = d]
    BY <1>2 DEF UpdatedService
  <2> HIDE DEF d
  <2>3. UpdatedService(row, call) =
          [name |-> call.name, description |-> d, versionCount |-> row.versionCount]
    BY <1>2, <2>2 DEF ServiceRow
  <2>4. UpdatedService(row, call) \in ServiceRow
    BY <1>2, <2>1, <2>3 DEF ServiceRow
  <2> QED
    BY <1>2, <2>3, <2>4, NullAssumption
<1> QED
  BY <1>1, <1>2

LEMMA UpdatedVersionInfo ==
  ASSUME NEW old \in Infos \cup {Empty, Null}, NEW info \in Infos \cup {Empty}
  PROVE  /\ UpdatedVersion(old, info) \in Infos \cup {Empty, Null}
         /\ UpdatedVersion(old, info) = Null <=> old = Null
BY NullAssumption DEF UpdatedVersion, UpdatedField

LEMMA NewServiceRow ==
  ASSUME NEW name \in Names, NEW text \in Descriptions \cup {Empty}
  PROVE  [name |-> name, description |-> text, versionCount |-> 0] \in ServiceRow
BY DEF ServiceRow

----------------------------------------------------------------------------
(* Types.                                                                  *)

LEMMA InitType == Init => TypeOK
<1> SUFFICES ASSUME Init PROVE TypeOK
  OBVIOUS
<1>1. req \in [Requests -> ReqType]
  BY IdleType DEF Init, Statuses
<1>2. service \in [Ids -> ServiceRow \cup {Null}]
  BY DEF Init
<1>3. version \in [Ids -> [Tags -> Infos \cup {Empty, Null}]]
  BY DEF Init
<1>4. nextId \in 1..(MaxServiceId + 1)
  BY BoundAssumption, 1 \in 1..(MaxServiceId + 1) DEF Init
<1>5. toRefreshViews \in BOOLEAN
  BY DEF Init
<1> QED
  BY <1>1, <1>2, <1>3, <1>4, <1>5 DEF TypeOK, ReqType

LEMMA ReceiveType == ASSUME TypeOK, NEW r \in Requests, Receive(r) PROVE TypeOK'
<1>1. PICK call \in Calls :
        IF WellFormed(call)
          THEN req' = [req EXCEPT ![r] = [call |-> call, pc |-> FirstStep[call.op],
                                          status |-> "none"]]
          ELSE Answer(r, "badRequest")
  BY DEF Receive
<1>2. req \in [Requests -> ReqType]
  BY DEF TypeOK, ReqType
<1>3. ASSUME WellFormed(call) PROVE req' \in [Requests -> ReqType]
  <2> DEFINE new == [call |-> call, pc |-> FirstStep[call.op], status |-> "none"]
  <2>1. call.op \in Operations
    BY <1>3, CallParameters
  <2>2. FirstStep[call.op] \in PCs \ {"idle"}
    BY <2>1 DEF FirstStep, PCs
  <2>3. new \in InFlight
    BY <1>3, <2>2 DEF InFlight
  <2>4. req' = [req EXCEPT ![r] = new]
    BY <1>1, <1>3
  <2> HIDE DEF new
  <2> QED
    BY <1>2, <2>3, <2>4 DEF ReqType
<1>4. ASSUME ~WellFormed(call) PROVE req' \in [Requests -> ReqType]
  BY <1>1, <1>2, <1>4, AnswerType DEF Statuses
<1>5. req' \in [Requests -> ReqType]
  BY <1>3, <1>4
<1> QED
  BY <1>5 DEF Receive, tables, TypeOK, ReqType

LEMMA CheckType ==
  ASSUME TypeOK, NEW r \in Requests,
         \/ CheckServiceExists(r) \/ CheckName(r) \/ CheckVersionExists(r) \/ Read(r)
         \/ DeleteFindsNothing(r) \/ DBError(r)
  PROVE  TypeOK'
<1>1. req \in [Requests -> ReqType] /\ req[r].pc # "idle"
  BY DEF TypeOK, ReqType, At, Running, CheckServiceExists, CheckName, CheckVersionExists,
         Read, DeleteFindsNothing, DBError
<1>2. req[r].call \in Calls /\ req[r].call.op \in Operations
  BY <1>1, InFlightRequest, CallParameters
<1>3. AfterServiceExists[req[r].call.op] \in PCs \ {"idle"}
  BY <1>2 DEF AfterServiceExists, PCs
<1>4. \/ \E pc \in PCs \ {"idle"} : Goto(r, pc)
      \/ \E st \in Statuses : Answer(r, st)
  BY <1>3 DEF CheckServiceExists, CheckName, CheckVersionExists, Read,
              DeleteFindsNothing, DBError, PCs, Statuses
<1>5. req' \in [Requests -> ReqType]
  BY <1>1, <1>4, GotoType, AnswerType
<1> QED
  BY <1>5 DEF TypeOK, ReqType, tables, CheckServiceExists, CheckName, CheckVersionExists,
              Read, DeleteFindsNothing, DBError

\* What a request that writes carries.
LEMMA WritingRequest ==
  ASSUME TypeOK, NEW r \in Requests, NEW op \in Operations, Running(r, op)
  PROVE  /\ req \in [Requests -> ReqType]
         /\ req[r].pc # "idle"
         /\ req[r].call \in Calls
         /\ WellFormed(req[r].call)
         /\ req[r].call.op = op
<1>1. req \in [Requests -> ReqType] /\ req[r].pc # "idle"
  BY DEF TypeOK, ReqType, Running, At
<1> QED
  BY <1>1, InFlightRequest DEF Running

LEMMA CreateServiceType == ASSUME TypeOK, NEW r \in Requests, CreateService(r) PROVE TypeOK'
<1>1. Running(r, "addService") /\ "addService" \in Operations
  BY DEF CreateService, Operations
<1>2. req[r].call.name \in Names /\ req[r].call.text \in Descriptions \cup {Empty}
  BY <1>1, WritingRequest, CallParameters
<1>3. req' \in [Requests -> ReqType]
  BY <1>1, WritingRequest, AnswerType, CommittedType DEF CreateService, Statuses
<1>4. service' \in [Ids -> ServiceRow \cup {Null}]
  BY <1>2, NewServiceRow DEF CreateService, TypeOK
<1>5. nextId' \in 1..(MaxServiceId + 1)
  BY BoundAssumption DEF CreateService, Ids
<1> QED
  BY <1>3, <1>4, <1>5 DEF CreateService, TypeOK, ReqType

LEMMA UpdateServiceType == ASSUME TypeOK, NEW r \in Requests, UpdateService(r) PROVE TypeOK'
<1>1. Running(r, "updateService") /\ "updateService" \in Operations
  BY DEF UpdateService, Operations
<1> DEFINE call == req[r].call
<1>2. call.name \in Names /\ call.text \in Descriptions \cup {Empty} /\ call.id \in Ids
  BY <1>1, WritingRequest, CallParameters
<1>3. req' \in [Requests -> ReqType]
  BY <1>1, WritingRequest, AnswerType, CommittedType DEF UpdateService, Statuses
<1>4. service' \in [Ids -> ServiceRow \cup {Null}]
  <2>1. UpdatedService(service[call.id], call) \in ServiceRow \cup {Null}
    BY <1>2, UpdatedServiceRow DEF TypeOK
  <2> QED
    BY <1>2, <2>1 DEF UpdateService, TypeOK
<1> QED
  BY <1>3, <1>4 DEF UpdateService, TypeOK, ReqType

LEMMA DeleteServiceType == ASSUME TypeOK, NEW r \in Requests, DeleteService(r) PROVE TypeOK'
<1>1. Running(r, "deleteService") /\ "deleteService" \in Operations
  BY DEF DeleteService, Operations
<1>2. req' \in [Requests -> ReqType]
  BY <1>1, WritingRequest, CommittedType DEF DeleteService
<1> QED
  BY <1>2 DEF DeleteService, TypeOK, ReqType

LEMMA CreateServiceVersionType ==
  ASSUME TypeOK, NEW r \in Requests, CreateServiceVersion(r) PROVE TypeOK'
<1>1. Running(r, "addServiceVersion") /\ "addServiceVersion" \in Operations
  BY DEF CreateServiceVersion, Operations
<1> DEFINE call == req[r].call
<1>2. call.id \in Ids /\ call.tag \in Tags /\ call.text \in Infos \cup {Empty}
  BY <1>1, WritingRequest, CallParameters
<1>3. req' \in [Requests -> ReqType]
  BY <1>1, WritingRequest, AnswerType, CommittedType DEF CreateServiceVersion, Statuses
<1>4. /\ service' \in [Ids -> ServiceRow \cup {Null}]
      /\ version' \in [Ids -> [Tags -> Infos \cup {Empty, Null}]]
  <2>1. service[call.id] \in ServiceRow \cup {Null} /\ 1 \in Int
    BY <1>2 DEF TypeOK
  <2>2. InsertedCount(service[call.id]) \in ServiceRow \cup {Null}
    BY <2>1, AddToCountRow DEF InsertedCount
  <2> QED
    BY <1>2, <2>2, SMTT(30) DEF CreateServiceVersion, TypeOK
<1> QED
  BY <1>3, <1>4 DEF CreateServiceVersion, TypeOK, ReqType

LEMMA UpdateServiceVersionType ==
  ASSUME TypeOK, NEW r \in Requests, UpdateServiceVersion(r) PROVE TypeOK'
<1>1. Running(r, "updateServiceVersion") /\ "updateServiceVersion" \in Operations
  BY DEF UpdateServiceVersion, Operations
<1> DEFINE call == req[r].call
<1>2. call.id \in Ids /\ call.tag \in Tags /\ call.text \in Infos \cup {Empty}
  BY <1>1, WritingRequest, CallParameters
<1>3. req' \in [Requests -> ReqType]
  BY <1>1, WritingRequest, AnswerType DEF UpdateServiceVersion, Statuses
<1>4. version' \in [Ids -> [Tags -> Infos \cup {Empty, Null}]]
  <2>1. UpdatedVersion(version[call.id][call.tag], call.text) \in Infos \cup {Empty, Null}
    BY <1>2, UpdatedVersionInfo DEF TypeOK
  <2> QED
    BY <1>2, <2>1 DEF UpdateServiceVersion, TypeOK
<1> QED
  BY <1>3, <1>4 DEF UpdateServiceVersion, TypeOK, ReqType

LEMMA DeleteServiceVersionType ==
  ASSUME TypeOK, NEW r \in Requests, DeleteServiceVersion(r) PROVE TypeOK'
<1>1. Running(r, "deleteServiceVersion") /\ "deleteServiceVersion" \in Operations
  BY DEF DeleteServiceVersion, Operations
<1> DEFINE call == req[r].call
<1>2. call.id \in Ids /\ call.tag \in Tags
  BY <1>1, WritingRequest, CallParameters
<1>3. req' \in [Requests -> ReqType]
  BY <1>1, WritingRequest, CommittedType DEF DeleteServiceVersion
<1>4. service' \in [Ids -> ServiceRow \cup {Null}]
  <2>1. DeletedCount(service[call.id]) \in ServiceRow \cup {Null}
    BY <1>2, AddToCountRow DEF TypeOK, DeletedCount
  <2> QED
    BY <1>2, <2>1 DEF DeleteServiceVersion, TypeOK
<1>5. version' \in [Ids -> [Tags -> Infos \cup {Empty, Null}]]
  BY <1>2 DEF DeleteServiceVersion, TypeOK
<1> QED
  BY <1>3, <1>4, <1>5 DEF DeleteServiceVersion, TypeOK, ReqType

LEMMA SubtractOnlyType == ASSUME TypeOK, NEW r \in Requests, SubtractOnly(r) PROVE TypeOK'
<1>1. req \in [Requests -> ReqType] /\ req[r].pc # "idle"
  BY DEF TypeOK, ReqType, SubtractOnly, At
<1>2. req' \in [Requests -> ReqType]
  BY <1>1, CommittedType DEF SubtractOnly
<1>3. service' \in [Ids -> ServiceRow \cup {Null}]
  <2>1. \A i \in Ids : DeletedCount(service[i]) \in ServiceRow \cup {Null}
    <3>1. \A i \in Ids : service[i] \in ServiceRow \cup {Null}
      BY DEF TypeOK
    <3> QED
      BY <3>1, AddToCountRow, -1 \in Int DEF DeletedCount
  <2> QED
    BY <2>1 DEF SubtractOnly, TypeOK
<1> QED
  BY <1>2, <1>3 DEF SubtractOnly, TypeOK, ReqType

LEMMA SignalType == ASSUME TypeOK, NEW r \in Requests, Signal(r) PROVE TypeOK'
<1>1. req' \in [Requests -> ReqType]
  BY AnswerType DEF Signal, TypeOK, ReqType, Statuses
<1> QED
  BY <1>1 DEF Signal, TypeOK, ReqType, tables

LEMMA CrashType == ASSUME TypeOK, Crash PROVE TypeOK'
<1>1. req' \in [Requests -> ReqType]
  BY IdleType DEF Crash, Statuses
<1> QED
  BY <1>1 DEF Crash, TypeOK, ReqType, tables

LEMMA NextType == TypeOK /\ [Next]_vars => TypeOK'
<1> SUFFICES ASSUME TypeOK, [Next]_vars PROVE TypeOK'
  OBVIOUS
<1>1. ASSUME NEW r \in Requests, Receive(r) PROVE TypeOK'
  BY <1>1, ReceiveType
<1>2. ASSUME NEW r \in Requests, Step(r) PROVE TypeOK'
  BY <1>2, CheckType, CreateServiceType, UpdateServiceType, DeleteServiceType,
     CreateServiceVersionType, UpdateServiceVersionType, DeleteServiceVersionType,
     SubtractOnlyType, SignalType DEF Step, Write
<1>3. CASE ViewsRefreshed
  BY <1>3 DEF ViewsRefreshed, TypeOK, tables
<1>4. CASE Crash
  BY <1>4, CrashType
<1>5. CASE UNCHANGED vars
  BY <1>5 DEF vars, TypeOK
<1> QED
  BY <1>1, <1>2, <1>3, <1>4, <1>5 DEF Next

\* Rows, requests and the sequence keep their types: no handler writes an empty
\* name or tag, whatever its client sent.
THEOREM TypeCorrect == Spec => []TypeOK
<1>1. Init => TypeOK
  BY InitType
<1>2. TypeOK /\ [Next]_vars => TypeOK'
  BY NextType
<1> QED
  BY <1>1, <1>2, PTL DEF Spec

----------------------------------------------------------------------------
(* Counts and versions.                                                    *)
(*                                                                         *)
(* The inductive invariant says that an id the sequence has yet to hand out*)
(* has no row, so that a new service starts with no versions; the rest     *)
(* follows from what one write does to one service.                        *)

FreshIds == \A i \in Ids : i >= nextId => service[i] = Null

IInv == TypeOK /\ FreshIds /\ NoOrphanVersions /\ CountNeverOverstates

\* The DELETE of r found the version of service i already deleted.
RacedDelete(r, i) == At(r, "subtract") /\ req[r].call.id = i

\* What a write of request r does to service i: the service is not there after it,
\* or has just been created, or its count and its versions change by the same number,
\* or a raced delete subtracts one for nothing.
Effect(r, i) ==
  \/ service'[i] = Null /\ VersionsOf(i)' = {}
  \/ /\ service[i] = Null /\ service'[i] # Null
     /\ i = nextId /\ nextId' = nextId + 1
     /\ service'[i].versionCount = 0 /\ VersionsOf(i)' = {}
  \/ /\ service[i] # Null /\ service'[i] # Null
     /\ service'[i].versionCount + Cardinality(VersionsOf(i))
          = service[i].versionCount + Cardinality(VersionsOf(i)')
  \/ /\ service[i] # Null /\ service'[i] # Null
     /\ RacedDelete(r, i)
     /\ service'[i].versionCount = service[i].versionCount - 1
     /\ VersionsOf(i)' = VersionsOf(i)

LEMMA VersionsOfFinite ==
  ASSUME NEW i \in Ids
  PROVE  IsFiniteSet(VersionsOf(i)) /\ Cardinality(VersionsOf(i)) \in Nat
<1>1. IsFiniteSet(VersionsOf(i))
  BY TagsAssumption, FS_Subset DEF VersionsOf
<1> QED
  BY <1>1, FS_CardinalityType

LEMMA OneLess ==
  ASSUME NEW V, IsFiniteSet(V), NEW t \in V
  PROVE  Cardinality(V \ {t}) = Cardinality(V) - 1
BY FS_RemoveElement

\* A write that leaves a row and its versions as they are.
LEMMA UntouchedEffect ==
  ASSUME IInv, NEW r, NEW i \in Ids,
         service'[i] = service[i] \/ (/\ service[i] # Null /\ service'[i] # Null
                                      /\ service'[i].versionCount = service[i].versionCount),
         VersionsOf(i)' = VersionsOf(i)
  PROVE  Effect(r, i)
<1>1. CASE service[i] = Null
  BY <1>1 DEF Effect, IInv, NoOrphanVersions
<1>2. CASE service[i] # Null
  BY <1>2 DEF Effect
<1> QED
  BY <1>1, <1>2

LEMMA CreateServiceEffect ==
  ASSUME IInv, NEW r \in Requests, CreateService(r), NEW i \in Ids PROVE Effect(r, i)
<1>1. VersionsOf(i)' = VersionsOf(i)
  BY DEF CreateService, VersionsOf
<1>2. CASE service'[i] = service[i]
  BY <1>1, <1>2, UntouchedEffect
<1>3. CASE service'[i] # service[i]
  <2>1. /\ i = nextId
        /\ service'[i] = [name |-> req[r].call.name, description |-> req[r].call.text,
                          versionCount |-> 0]
    BY <1>3 DEF CreateService, IInv, TypeOK
  <2>2. service[i] = Null
    BY <2>1 DEF IInv, FreshIds, Ids
  <2>3. service'[i] # Null
    BY <1>3, <2>2
  <2>4. service'[i].versionCount = 0
    BY <2>1
  <2>5. VersionsOf(i)' = {}
    BY <1>1, <2>2 DEF IInv, NoOrphanVersions
  <2>6. nextId' = nextId + 1
    BY DEF CreateService
  <2> QED
    BY <2>1, <2>2, <2>3, <2>4, <2>5, <2>6 DEF Effect
<1> QED
  BY <1>2, <1>3

LEMMA UpdateServiceEffect ==
  ASSUME IInv, NEW r \in Requests, UpdateService(r), NEW i \in Ids PROVE Effect(r, i)
<1>1. Running(r, "updateService") /\ "updateService" \in Operations /\ TypeOK
  BY DEF UpdateService, Operations, IInv
<1> DEFINE call == req[r].call
<1>2. call.name \in Names /\ call.text \in Descriptions \cup {Empty} /\ call.id \in Ids
  BY <1>1, WritingRequest, CallParameters
<1>3. VersionsOf(i)' = VersionsOf(i)
  BY DEF UpdateService, VersionsOf
<1>4. CASE service'[i] = service[i]
  BY <1>3, <1>4, UntouchedEffect
<1>5. CASE service'[i] # service[i]
  <2>1. i = call.id /\ service'[i] = UpdatedService(service[i], call)
    BY <1>1, <1>2, <1>5 DEF UpdateService, TypeOK
  <2>2. service[i] \in ServiceRow \cup {Null}
    BY <1>1 DEF TypeOK
  <2>3. /\ service'[i] = Null <=> service[i] = Null
        /\ service[i] # Null => service'[i].versionCount = service[i].versionCount
    BY <1>2, <2>1, <2>2, UpdatedServiceRow
  <2> QED
    BY <1>3, <1>5, <2>3, UntouchedEffect
<1> QED
  BY <1>4, <1>5

LEMMA DeleteServiceEffect ==
  ASSUME IInv, NEW r \in Requests, DeleteService(r), NEW i \in Ids PROVE Effect(r, i)
<1>1. CASE i = req[r].call.id
  <2>1. service'[i] = Null /\ version'[i] = [t \in Tags |-> Null]
    BY <1>1 DEF DeleteService, IInv, TypeOK
  <2> QED
    BY <2>1 DEF Effect, VersionsOf
<1>2. CASE i # req[r].call.id
  <2>1. service'[i] = service[i] /\ version'[i] = version[i]
    BY <1>2 DEF DeleteService, IInv, TypeOK
  <2>2. VersionsOf(i)' = VersionsOf(i)
    BY <2>1 DEF VersionsOf
  <2> QED
    BY <2>1, <2>2, UntouchedEffect
<1> QED
  BY <1>1, <1>2

LEMMA CreateServiceVersionEffect ==
  ASSUME IInv, NEW r \in Requests, CreateServiceVersion(r), NEW i \in Ids
  PROVE  Effect(r, i)
<1>1. Running(r, "addServiceVersion") /\ "addServiceVersion" \in Operations /\ TypeOK
  BY DEF CreateServiceVersion, Operations, IInv
<1> DEFINE call == req[r].call
<1>2. call.id \in Ids /\ call.tag \in Tags /\ call.text \in Infos \cup {Empty}
  BY <1>1, WritingRequest, CallParameters
<1>3. CASE service'[i] = service[i] /\ version'[i] = version[i]
  <2>1. VersionsOf(i)' = VersionsOf(i)
    BY <1>3 DEF VersionsOf
  <2> QED
    BY <1>3, <2>1, UntouchedEffect
<1>4. CASE ~(service'[i] = service[i] /\ version'[i] = version[i])
  <2>1. /\ i = call.id
        /\ version[i][call.tag] = Null
        /\ service[i] # Null
        /\ version' = [version EXCEPT ![i][call.tag] = call.text]
        /\ service' = [service EXCEPT ![i] = InsertedCount(service[i])]
    BY <1>1, <1>2, <1>4 DEF CreateServiceVersion, ForeignKeyViolated, TypeOK
  <2>2. VersionsOf(i)' = VersionsOf(i) \cup {call.tag}
    <3>1. version'[i] = [version[i] EXCEPT ![call.tag] = call.text]
      BY <1>1, <2>1 DEF TypeOK
    <3>2. call.text # Null
      BY <1>2, NullAssumption
    <3> QED
      BY <1>1, <1>2, <3>1, <3>2 DEF VersionsOf, TypeOK
  <2>3. call.tag \notin VersionsOf(i)
    BY <2>1 DEF VersionsOf
  <2>4. Cardinality(VersionsOf(i)') = Cardinality(VersionsOf(i)) + 1
    BY <2>2, <2>3, VersionsOfFinite, FS_AddElement
  <2>5. service[i] \in ServiceRow \cup {Null} /\ 1 \in Int
    BY <1>1 DEF TypeOK
  <2>6. service'[i] # Null /\ service'[i].versionCount = service[i].versionCount + 1
    BY <1>1, <2>1, <2>5, AddToCountRow DEF InsertedCount, TypeOK
  <2>7. service[i].versionCount \in Int /\ Cardinality(VersionsOf(i)) \in Int
    BY <2>1, <2>5, VersionsOfFinite DEF ServiceRow
  <2>8. service'[i].versionCount + Cardinality(VersionsOf(i))
          = service[i].versionCount + Cardinality(VersionsOf(i)')
    BY <2>4, <2>6, <2>7
  <2> QED
    BY <2>1, <2>6, <2>8 DEF Effect
<1> QED
  BY <1>3, <1>4

LEMMA UpdateServiceVersionEffect ==
  ASSUME IInv, NEW r \in Requests, UpdateServiceVersion(r), NEW i \in Ids
  PROVE  Effect(r, i)
<1>1. Running(r, "updateServiceVersion") /\ "updateServiceVersion" \in Operations /\ TypeOK
  BY DEF UpdateServiceVersion, Operations, IInv
<1> DEFINE call == req[r].call
<1>2. call.id \in Ids /\ call.tag \in Tags /\ call.text \in Infos \cup {Empty}
  BY <1>1, WritingRequest, CallParameters
<1>3. ASSUME NEW t \in Tags PROVE version'[i][t] = Null <=> version[i][t] = Null
  <2>1. version[call.id][call.tag] \in Infos \cup {Empty, Null}
    BY <1>1, <1>2 DEF TypeOK
  <2>2. UpdatedVersion(version[call.id][call.tag], call.text) = Null
          <=> version[call.id][call.tag] = Null
    BY <1>2, <2>1, UpdatedVersionInfo
  <2> QED
    BY <1>1, <1>2, <2>2 DEF UpdateServiceVersion, TypeOK
<1>4. VersionsOf(i)' = VersionsOf(i)
  BY <1>3 DEF VersionsOf
<1>5. service'[i] = service[i]
  BY DEF UpdateServiceVersion
<1> QED
  BY <1>4, <1>5, UntouchedEffect

LEMMA DeleteServiceVersionEffect ==
  ASSUME IInv, NEW r \in Requests, DeleteServiceVersion(r), NEW i \in Ids
  PROVE  Effect(r, i)
<1>1. Running(r, "deleteServiceVersion") /\ "deleteServiceVersion" \in Operations /\ TypeOK
  BY DEF DeleteServiceVersion, Operations, IInv
<1> DEFINE call == req[r].call
<1>2. call.id \in Ids /\ call.tag \in Tags
  BY <1>1, WritingRequest, CallParameters
<1>3. CASE i # call.id
  <2>1. service'[i] = service[i] /\ version'[i] = version[i]
    BY <1>1, <1>3 DEF DeleteServiceVersion, TypeOK
  <2>2. VersionsOf(i)' = VersionsOf(i)
    BY <2>1 DEF VersionsOf
  <2> QED
    BY <2>1, <2>2, UntouchedEffect
<1>4. CASE i = call.id
  <2>1. VersionsOf(i)' = VersionsOf(i) \ {call.tag}
    BY <1>1, <1>2, <1>4 DEF DeleteServiceVersion, VersionsOf, TypeOK
  <2>2. service'[i] = DeletedCount(service[i])
    BY <1>1, <1>4 DEF DeleteServiceVersion, TypeOK
  <2>3. service[i] \in ServiceRow \cup {Null} /\ -1 \in Int
    BY <1>1 DEF TypeOK
  <2>4. CASE service[i] = Null
    <3>1. service'[i] = Null
      BY <2>2, <2>3, <2>4, AddToCountRow DEF DeletedCount
    <3>2. VersionsOf(i) = {}
      BY <2>4 DEF IInv, NoOrphanVersions
    <3>3. VersionsOf(i)' = {}
      BY <2>1, <3>2
    <3> QED
      BY <3>1, <3>3 DEF Effect
  <2>5. CASE service[i] # Null
    <3>1. service'[i] # Null /\ service'[i].versionCount = service[i].versionCount + (-1)
      BY <2>2, <2>3, <2>5, AddToCountRow DEF DeletedCount
    <3>2. /\ service[i].versionCount \in Int
          /\ Cardinality(VersionsOf(i)) \in Int
          /\ service'[i].versionCount = service[i].versionCount - 1
      BY <2>3, <2>5, <3>1, VersionsOfFinite DEF ServiceRow
    <3>3. call.tag \in VersionsOf(i)
      BY <1>2, <1>4 DEF DeleteServiceVersion, VersionsOf
    <3> DEFINE V == VersionsOf(i)
    <3>4. IsFiniteSet(V) /\ call.tag \in V
      BY <3>3, VersionsOfFinite
    <3> HIDE DEF V
    <3>5. Cardinality(V \ {call.tag}) = Cardinality(V) - 1
      BY <3>4, OneLess
    <3>6. Cardinality(VersionsOf(i)') = Cardinality(VersionsOf(i)) - 1
      BY <2>1, <3>5 DEF V
    <3>7. service'[i].versionCount + Cardinality(VersionsOf(i))
            = service[i].versionCount + Cardinality(VersionsOf(i)')
      BY <3>2, <3>6
    <3> QED
      BY <2>5, <3>1, <3>7 DEF Effect
  <2> QED
    BY <2>4, <2>5
<1> QED
  BY <1>3, <1>4

LEMMA SubtractOnlyEffect ==
  ASSUME IInv, NEW r \in Requests, SubtractOnly(r), NEW i \in Ids PROVE Effect(r, i)
<1>1. VersionsOf(i)' = VersionsOf(i)
  BY DEF SubtractOnly, VersionsOf
<1>2. service[i] \in ServiceRow \cup {Null} /\ -1 \in Int
  BY DEF IInv, TypeOK
<1>3. CASE i # req[r].call.id \/ service[i] = Null
  <2>1. AddToCount(Null, -1) = Null
    BY DEF AddToCount
  <2>2. service' = [service EXCEPT ![req[r].call.id] = AddToCount(@, -1)]
    BY DEF SubtractOnly, DeletedCount
  <2>3. service'[i] = service[i]
    BY <1>3, <2>1, <2>2 DEF IInv, TypeOK
  <2> QED
    BY <1>1, <2>3, UntouchedEffect
<1>4. CASE i = req[r].call.id /\ service[i] # Null
  <2>1. service'[i] = AddToCount(service[i], -1)
    BY <1>4 DEF SubtractOnly, DeletedCount, IInv, TypeOK
  <2>2. service'[i] # Null /\ service'[i].versionCount = service[i].versionCount + (-1)
    BY <1>2, <1>4, <2>1, AddToCountRow
  <2>3. service'[i].versionCount = service[i].versionCount - 1
    BY <1>2, <1>4, <2>2 DEF ServiceRow
  <2>4. RacedDelete(r, i)
    BY <1>4 DEF RacedDelete, SubtractOnly
  <2> QED
    BY <1>1, <1>4, <2>2, <2>3, <2>4 DEF Effect
<1> QED
  BY <1>3, <1>4

LEMMA WriteEffect ==
  ASSUME IInv, NEW r \in Requests, Write(r), NEW i \in Ids PROVE Effect(r, i)
BY CreateServiceEffect, UpdateServiceEffect, DeleteServiceEffect, CreateServiceVersionEffect,
   UpdateServiceVersionEffect, DeleteServiceVersionEffect, SubtractOnlyEffect DEF Write

\* Only a write changes the tables.
LEMMA OnlyWritesChangeTables ==
  ASSUME [Next]_vars PROVE UNCHANGED tables \/ \E r \in Requests : Write(r)
<1>1. ASSUME NEW r \in Requests, Receive(r) \/ Step(r), ~Write(r) PROVE UNCHANGED tables
  <2>1. CASE Receive(r)
    BY <2>1 DEF Receive
  <2>2. CASE CheckServiceExists(r) \/ CheckName(r) \/ CheckVersionExists(r) \/ Read(r)
    BY <2>2 DEF CheckServiceExists, CheckName, CheckVersionExists, Read
  <2>3. CASE DeleteFindsNothing(r) \/ Signal(r) \/ DBError(r)
    BY <2>3 DEF DeleteFindsNothing, Signal, DBError
  <2> QED
    BY <1>1, <2>1, <2>2, <2>3 DEF Step
<1>2. CASE ViewsRefreshed \/ Crash \/ UNCHANGED vars
  BY <1>2 DEF ViewsRefreshed, Crash, vars, tables
<1> QED
  BY <1>1, <1>2 DEF Next

\* Where a write is and where it leads.
Moved(r) == /\ At(r, "write") \/ At(r, "subtract")
            /\ Committed(r) \/ (service' = service /\ \E st \in Statuses : Answer(r, st))
            /\ nextId' = nextId \/ nextId' = nextId + 1
            /\ toRefreshViews' = toRefreshViews

LEMMA WriteMoves == ASSUME NEW r \in Requests, Write(r) PROVE Moved(r)
<1>1. CASE CreateService(r)
  BY <1>1 DEF Moved, CreateService, Running, Statuses
<1>2. CASE UpdateService(r)
  BY <1>2 DEF Moved, UpdateService, Running, Statuses
<1>3. CASE DeleteService(r)
  BY <1>3 DEF Moved, DeleteService, Running
<1>4. CASE CreateServiceVersion(r)
  BY <1>4 DEF Moved, CreateServiceVersion, Running, Statuses
<1>5. CASE UpdateServiceVersion(r)
  BY <1>5 DEF Moved, UpdateServiceVersion, Running, Statuses
<1>6. CASE DeleteServiceVersion(r)
  BY <1>6 DEF Moved, DeleteServiceVersion, Running
<1>7. CASE SubtractOnly(r)
  BY <1>7 DEF Moved, SubtractOnly
<1> QED
  BY <1>1, <1>2, <1>3, <1>4, <1>5, <1>6, <1>7 DEF Write

LEMMA InitIInv == Init => IInv
<1> SUFFICES ASSUME Init PROVE IInv
  OBVIOUS
<1>1. \A i \in Ids : service[i] = Null /\ VersionsOf(i) = {}
  BY DEF Init, VersionsOf
<1> QED
  BY <1>1, InitType DEF IInv, FreshIds, NoOrphanVersions, CountNeverOverstates

LEMMA NextIInv == IInv /\ [Next]_vars => IInv'
<1> SUFFICES ASSUME IInv, [Next]_vars PROVE IInv'
  OBVIOUS
<1>1. TypeOK'
  BY NextType DEF IInv
<1>2. CASE UNCHANGED tables
  <2>1. \A i \in Ids : service'[i] = service[i] /\ VersionsOf(i)' = VersionsOf(i)
    BY <1>2 DEF tables, VersionsOf
  <2> QED
    BY <1>1, <1>2, <2>1 DEF IInv, FreshIds, NoOrphanVersions, CountNeverOverstates, tables
<1>3. ASSUME NEW r \in Requests, Write(r) PROVE IInv'
  <2>1. \A i \in Ids : Effect(r, i)
    BY <1>3, WriteEffect
  <2>2. FreshIds'
    <3>1. nextId \in Int /\ nextId' \in Int /\ nextId' >= nextId
      <4>1. nextId' = nextId \/ nextId' = nextId + 1
        BY <1>3, WriteMoves DEF Moved
      <4>2. nextId \in 1..(MaxServiceId + 1)
        BY <1>1 DEF IInv, TypeOK
      <4> QED
        BY <4>1, <4>2, BoundAssumption
    <3>2. SUFFICES ASSUME NEW i \in Ids, i >= nextId' PROVE service'[i] = Null
      BY DEF FreshIds
    <3>3. i \in Int
      BY DEF Ids
    <3>4. service[i] = Null
      BY <3>1, <3>2, <3>3 DEF IInv, FreshIds
    <3> QED
      BY <2>1, <3>1, <3>2, <3>3, <3>4 DEF Effect
  <2>3. NoOrphanVersions'
    BY <2>1 DEF Effect, NoOrphanVersions
  <2>4. CountNeverOverstates'
    <3>1. SUFFICES ASSUME NEW i \in Ids, service'[i] # Null
                   PROVE  service'[i].versionCount <= Cardinality(VersionsOf(i)')
      BY DEF CountNeverOverstates
    <3>2. service'[i].versionCount \in Int
      BY <1>1, <3>1 DEF TypeOK, ServiceRow
    <3>3. service[i] # Null => service[i].versionCount \in Int
      BY DEF IInv, TypeOK, ServiceRow
    <3>4. Cardinality(VersionsOf(i)) \in Nat /\ Cardinality(VersionsOf(i)') \in Nat
      <4>1. VersionsOf(i)' \subseteq Tags
        BY DEF VersionsOf
      <4> QED
        BY <4>1, TagsAssumption, FS_Subset, FS_CardinalityType, VersionsOfFinite
    <3>5. service[i] # Null => service[i].versionCount <= Cardinality(VersionsOf(i))
      BY DEF IInv, CountNeverOverstates
    <3>6. VersionsOf(i)' = {} => Cardinality(VersionsOf(i)') = 0
      BY FS_EmptySet
    <3> QED
      BY <2>1, <3>1, <3>2, <3>3, <3>4, <3>5, <3>6 DEF Effect
  <2> QED
    BY <1>1, <2>2, <2>3, <2>4 DEF IInv
<1> QED
  BY <1>2, <1>3, OnlyWritesChangeTables

LEMMA WriteKeeps ==
  ASSUME IInv, NEW r \in Requests, Write(r) \/ DeleteFindsNothing(r) PROVE IInv'
<1>1. Step(r)
  BY DEF Step
<1>2. [Next]_vars
  BY <1>1 DEF Next
<1> QED
  BY <1>2, NextIInv

LEMMA Invariance == Spec => []IInv
<1>1. Init => IInv
  BY InitIInv
<1>2. IInv /\ [Next]_vars => IInv'
  BY NextIInv
<1> QED
  BY <1>1, <1>2, PTL DEF Spec

\* The precomputed count of a service is never more than its versions, however many
\* requests overlap, fail, lose their replies or die in a crash.
THEOREM CountsNeverOverstate == Spec => []CountNeverOverstates
<1>1. IInv => CountNeverOverstates
  BY DEF IInv
<1> QED
  BY <1>1, Invariance, PTL

\* Versions are never left behind by a delete of their service, nor added to a
\* service that a concurrent request deletes.
THEOREM OrphansNever == Spec => []NoOrphanVersions
<1>1. IInv => NoOrphanVersions
  BY DEF IInv
<1> QED
  BY <1>1, Invariance, PTL

\* The one way a count stops being exact, for any number of requests: a delete of a
\* version that is already gone.
THEOREM DriftConfined == Spec => CountDriftsOnlyByRacedDelete
<1> DEFINE Confined ==
      \A i \in Ids :
        (service[i] # Null /\ service'[i] # Null /\ CountExact(i) /\ ~CountExact(i)')
          => \E r \in Requests : RacedDelete(r, i)
<1>1. IInv /\ [Next]_vars => Confined
  <2> SUFFICES ASSUME IInv, [Next]_vars, NEW i \in Ids,
                      service[i] # Null, service'[i] # Null, CountExact(i), ~CountExact(i)'
               PROVE  \E r \in Requests : RacedDelete(r, i)
    OBVIOUS
  <2>1. ~UNCHANGED tables
    BY DEF tables, CountExact, VersionsOf
  <2>2. PICK r \in Requests : Write(r)
    BY <2>1, OnlyWritesChangeTables
  <2>3. Effect(r, i)
    BY <2>2, WriteEffect
  <2>4. service[i].versionCount \in Int /\ service'[i].versionCount \in Int
    BY NextType DEF IInv, TypeOK, ServiceRow
  <2>5. Cardinality(VersionsOf(i)) \in Nat /\ Cardinality(VersionsOf(i)') \in Nat
    <3>1. VersionsOf(i)' \subseteq Tags
      BY DEF VersionsOf
    <3> QED
      BY <3>1, TagsAssumption, FS_Subset, FS_CardinalityType, VersionsOfFinite
  <2>6. CountExact(i)' <=> service'[i].versionCount = Cardinality(VersionsOf(i)')
    BY DEF CountExact
  <2> QED
    BY <2>2, <2>3, <2>4, <2>5, <2>6 DEF Effect, CountExact
<1>2. IInv /\ [Next]_vars => [Confined]_vars
  BY <1>1
<1>3. [Confined]_vars <=>
      [\A i \in Ids :
         (service[i] # Null /\ service'[i] # Null /\ CountExact(i) /\ ~CountExact(i)')
           => \E r \in Requests : At(r, "subtract") /\ req[r].call.id = i]_vars
  BY DEF RacedDelete
<1> QED
  BY <1>2, <1>3, Invariance, PTL DEF Spec, CountDriftsOnlyByRacedDelete

\* An id that was handed out stays so, and its row does not come back.
LEMMA GoneStays ==
  ASSUME IInv, [Next]_vars, NEW i \in Ids, i < nextId
  PROVE  i < nextId' /\ (service[i] = Null => service'[i] = Null)
<1>1. nextId \in Int /\ i \in Int
  BY BoundAssumption DEF Ids, IInv, TypeOK
<1>2. CASE UNCHANGED tables
  BY <1>2 DEF tables
<1>3. ASSUME NEW r \in Requests, Write(r)
      PROVE  i < nextId' /\ (service[i] = Null => service'[i] = Null)
  <2>1. Effect(r, i)
    BY <1>3, WriteEffect
  <2>2. nextId' = nextId \/ nextId' = nextId + 1
    BY <1>3, WriteMoves DEF Moved
  <2> QED
    BY <1>1, <2>1, <2>2 DEF Effect
<1> QED
  BY <1>2, <1>3, OnlyWritesChangeTables

\* No request brings back a deleted service: ids are handed out once, and an update
\* that finds its row gone writes nothing.
THEOREM DeletionFinal == Spec => DeletedStaysDeleted
<1> DEFINE Final == \A i \in Ids : i < nextId /\ service[i] = Null => service'[i] = Null
<1>1. IInv /\ [Next]_vars => [Final]_vars
  BY GoneStays
<1> QED
  BY <1>1, Invariance, PTL DEF Spec, DeletedStaysDeleted

----------------------------------------------------------------------------
(* Names.                                                                  *)

\* What a write may make of the name of service i.
LEMMA WriteName ==
  ASSUME TypeOK, NEW r \in Requests, Write(r), NEW i \in Ids, service'[i] # Null
  PROVE  \/ service[i] # Null /\ service'[i].name = service[i].name
         \/ /\ ~NameTaken(service'[i].name, i)
            /\ \A j \in Ids \ {i} : service'[j] = service[j]
<1> DEFINE call == req[r].call
<1>1. CASE CreateService(r)
  <2>1. CASE service' = service
    BY <2>1
  <2>2. CASE service' # service
    <3>1. /\ ~NameTaken(call.name, Null)
          /\ nextId \in Ids
          /\ service' = [service EXCEPT ![nextId] =
                            [name |-> call.name, description |-> call.text,
                             versionCount |-> 0]]
      BY <1>1, <2>2 DEF CreateService, UniqueKeyViolated
    <3>2. CASE i = nextId
      BY <3>1, <3>2, NullAssumption DEF NameTaken, TypeOK
    <3>3. CASE i # nextId
      BY <3>1, <3>3 DEF TypeOK
    <3> QED
      BY <3>2, <3>3
  <2> QED
    BY <2>1, <2>2
<1>2. CASE UpdateService(r)
  <2>1. Running(r, "updateService") /\ "updateService" \in Operations
    BY <1>2 DEF UpdateService, Operations
  <2>2. call.name \in Names /\ call.text \in Descriptions \cup {Empty} /\ call.id \in Ids
    BY <2>1, WritingRequest, CallParameters
  <2>3. CASE service'[i] = service[i]
    BY <2>3
  <2>4. CASE service'[i] # service[i]
    <3>1. /\ i = call.id
          /\ service[i] = Null \/ ~NameTaken(call.name, i)
          /\ service' = [service EXCEPT ![i] = UpdatedService(service[i], call)]
      BY <1>2, <2>2, <2>4 DEF UpdateService, UniqueKeyViolated, TypeOK
    <3>2. service[i] \in ServiceRow \cup {Null} /\ service'[i] = UpdatedService(service[i], call)
      BY <3>1 DEF TypeOK
    <3>3. service[i] # Null /\ service'[i].name = call.name
      BY <2>2, <3>2, UpdatedServiceRow
    <3> QED
      BY <3>1, <3>3 DEF TypeOK
  <2> QED
    BY <2>3, <2>4
<1>3. CASE DeleteService(r)
  BY <1>3 DEF DeleteService, TypeOK
<1>4. ASSUME NEW n \in Int,
             \/ service' = service
             \/ service' = [service EXCEPT ![call.id] = AddToCount(@, n)]
      PROVE  service[i] # Null /\ service'[i].name = service[i].name
  <2>1. service[i] \in ServiceRow \cup {Null}
    BY DEF TypeOK
  <2>2. service'[i] = service[i] \/ service'[i] = AddToCount(service[i], n)
    BY <1>4 DEF TypeOK
  <2> QED
    BY <2>1, <2>2, AddToCountRow
<1>5. CASE CreateServiceVersion(r)
  BY <1>4, <1>5, 1 \in Int DEF CreateServiceVersion, InsertedCount
<1>6. CASE UpdateServiceVersion(r)
  BY <1>6 DEF UpdateServiceVersion
<1>7. CASE DeleteServiceVersion(r)
  BY <1>4, <1>7, -1 \in Int DEF DeleteServiceVersion, DeletedCount
<1>8. CASE SubtractOnly(r)
  BY <1>4, <1>8, -1 \in Int DEF SubtractOnly, DeletedCount
<1> QED
  BY <1>1, <1>2, <1>3, <1>5, <1>6, <1>7, <1>8 DEF Write

\* No two services ever have the same name, whatever the check of one request and
\* the write of another find in between.
THEOREM NamesStayUnique == Spec => []NamesUnique
<1>1. Init => NamesUnique
  BY DEF Init, NamesUnique
<1>2. TypeOK /\ NamesUnique /\ [Next]_vars => NamesUnique'
  <2> SUFFICES ASSUME TypeOK, NamesUnique, [Next]_vars PROVE NamesUnique'
    OBVIOUS
  <2>1. CASE UNCHANGED tables
    BY <2>1 DEF tables, NamesUnique
  <2>2. ASSUME NEW r \in Requests, Write(r) PROVE NamesUnique'
    <3> SUFFICES ASSUME NEW i \in Ids, NEW j \in Ids, i # j,
                        service'[i] # Null, service'[j] # Null
                 PROVE  service'[i].name # service'[j].name
      BY DEF NamesUnique
    <3>1. CASE service[i] # Null /\ service'[i].name = service[i].name
      <4>1. CASE service[j] # Null /\ service'[j].name = service[j].name
        BY <3>1, <4>1 DEF NamesUnique
      <4>2. CASE ~(service[j] # Null /\ service'[j].name = service[j].name)
        BY <2>2, <3>1, <4>2, WriteName DEF NameTaken
      <4> QED
        BY <4>1, <4>2
    <3>2. CASE ~(service[i] # Null /\ service'[i].name = service[i].name)
      <4>1. ~NameTaken(service'[i].name, i) /\ service'[j] = service[j]
        BY <2>2, <3>2, WriteName
      <4> QED
        BY <4>1 DEF NameTaken
    <3> QED
      BY <3>1, <3>2
  <2> QED
    BY <2>1, <2>2, OnlyWritesChangeTables
<1> QED
  BY <1>1, <1>2, TypeCorrect, PTL DEF Spec

----------------------------------------------------------------------------
(* The way of a request.                                                   *)

\* What a step makes of request q: nothing, its end, its arrival, or the step after the
\* one it is at.
Advances(q, pc) == /\ req[q].pc # "idle"
                   /\ req'[q] = [call |-> req[q].call, pc |-> pc, status |-> "none"]

Arrives(q) ==
  /\ \E call \in Calls :
       /\ WellFormed(call)
       /\ req'[q] = [call |-> call, pc |-> FirstStep[call.op], status |-> "none"]
  /\ UNCHANGED tables

Checked(q) ==
  /\ UNCHANGED tables
  /\ \/ /\ At(q, "serviceExists") /\ service[req[q].call.id] # Null
        /\ Advances(q, AfterServiceExists[req[q].call.op])
     \/ At(q, "nameTaken") /\ Advances(q, "write")
     \/ /\ At(q, "versionExists")
        /\ (version[req[q].call.id][req[q].call.tag] # Null)
             # (req[q].call.op = "addServiceVersion")
        /\ Advances(q, "write")
     \/ DeleteFindsNothing(q) /\ Advances(q, "subtract")

LEMMA RequestMoves ==
  ASSUME TypeOK, [Next]_vars, NEW q \in Requests
  PROVE  \/ req'[q] = req[q]
         \/ req'[q].pc = "idle"
         \/ Arrives(q)
         \/ Checked(q)
         \/ Write(q) /\ Advances(q, "signal")
<1>1. req \in [Requests -> ReqType]
  BY DEF TypeOK, ReqType
<1>2. ASSUME NEW r \in Requests, NEW st, Answer(r, st)
      PROVE  req'[q] = req[q] \/ req'[q].pc = "idle"
  BY <1>1, <1>2 DEF Answer, Idle
<1>3. ASSUME NEW r \in Requests, req[r].pc # "idle", NEW pc, Goto(r, pc)
      PROVE  req'[q] = req[q] \/ (r = q /\ Advances(q, pc))
  <2>1. req[r] \in InFlight
    BY <1>1, <1>3, InFlightRequest
  <2>2. [req[r] EXCEPT !.pc = pc] = [call |-> req[r].call, pc |-> pc, status |-> "none"]
    BY <2>1 DEF InFlight
  <2> QED
    BY <1>1, <1>3, <2>2 DEF Goto, Advances
<1>4. ASSUME NEW r \in Requests, Receive(r)
      PROVE  req'[q] = req[q] \/ req'[q].pc = "idle" \/ Arrives(q)
  <2>1. PICK call \in Calls :
          IF WellFormed(call)
            THEN req' = [req EXCEPT ![r] = [call |-> call, pc |-> FirstStep[call.op],
                                            status |-> "none"]]
            ELSE Answer(r, "badRequest")
    BY <1>4 DEF Receive
  <2>2. CASE ~WellFormed(call)
    BY <1>2, <2>1, <2>2
  <2>3. CASE WellFormed(call)
    <3>1. \/ req'[q] = req[q]
          \/ req'[q] = [call |-> call, pc |-> FirstStep[call.op], status |-> "none"]
      BY <1>1, <2>1, <2>3
    <3> QED
      BY <1>4, <2>3, <3>1 DEF Arrives, Receive
  <2> QED
    BY <2>2, <2>3
<1>5. ASSUME NEW r \in Requests, CheckServiceExists(r)
      PROVE  req'[q] = req[q] \/ req'[q].pc = "idle" \/ Checked(q)
  <2>1. At(r, "serviceExists") /\ req[r].pc # "idle" /\ UNCHANGED tables
    BY <1>5 DEF CheckServiceExists, At
  <2>2. CASE Answer(r, "notFound")
    BY <1>2, <2>2
  <2>3. CASE /\ service[req[r].call.id] # Null
             /\ Goto(r, AfterServiceExists[req[r].call.op])
    <3>1. req'[q] = req[q] \/ (r = q /\ Advances(q, AfterServiceExists[req[r].call.op]))
      BY <1>3, <2>1, <2>3
    <3> QED
      BY <2>1, <2>3, <3>1 DEF Checked
  <2> QED
    BY <1>5, <2>2, <2>3 DEF CheckServiceExists
<1>6. ASSUME NEW r \in Requests, CheckName(r)
      PROVE  req'[q] = req[q] \/ req'[q].pc = "idle" \/ Checked(q)
  <2>1. At(r, "nameTaken") /\ req[r].pc # "idle" /\ UNCHANGED tables
    BY <1>6 DEF CheckName, At
  <2>2. Answer(r, "conflict") \/ Goto(r, "write")
    BY <1>6 DEF CheckName
  <2> QED
    BY <1>2, <1>3, <2>1, <2>2 DEF Checked
<1>7. ASSUME NEW r \in Requests, CheckVersionExists(r)
      PROVE  req'[q] = req[q] \/ req'[q].pc = "idle" \/ Checked(q)
  <2>1. At(r, "versionExists") /\ req[r].pc # "idle" /\ UNCHANGED tables
    BY <1>7 DEF CheckVersionExists, At
  <2>2. \/ Answer(r, "conflict") \/ Answer(r, "notFound")
        \/ /\ Goto(r, "write")
           /\ (version[req[r].call.id][req[r].call.tag] # Null)
                # (req[r].call.op = "addServiceVersion")
    BY <1>7 DEF CheckVersionExists
  <2> QED
    BY <1>2, <1>3, <2>1, <2>2 DEF Checked
<1>8. ASSUME NEW r \in Requests, DeleteFindsNothing(r)
      PROVE  req'[q] = req[q] \/ Checked(q)
  <2>1. req[r].pc # "idle" /\ Goto(r, "subtract") /\ UNCHANGED tables
    BY <1>8 DEF DeleteFindsNothing, Running, At
  <2> QED
    BY <1>3, <1>8, <2>1 DEF Checked
<1>9. ASSUME NEW r \in Requests, Write(r)
      PROVE  \/ req'[q] = req[q] \/ req'[q].pc = "idle"
             \/ Write(q) /\ Advances(q, "signal")
  <2>1. req[r].pc # "idle" /\ ((\E st : Answer(r, st)) \/ Goto(r, "signal"))
    BY <1>9, WriteMoves DEF Moved, Committed, At
  <2> QED
    BY <1>2, <1>3, <1>9, <2>1
<1>10. ASSUME NEW r \in Requests, Read(r) \/ Signal(r) \/ DBError(r)
       PROVE  req'[q] = req[q] \/ req'[q].pc = "idle"
  <2>1. \E st : Answer(r, st)
    BY <1>10 DEF Read, Signal, DBError
  <2> QED
    BY <1>2, <2>1
<1>11. CASE Crash
  BY <1>11 DEF Crash, Idle
<1>12. CASE ViewsRefreshed \/ UNCHANGED vars
  BY <1>12 DEF ViewsRefreshed, vars
<1> QED
  BY <1>4, <1>5, <1>6, <1>7, <1>8, <1>9, <1>10, <1>11, <1>12 DEF Next, Step

\* The operations that come by a step.
OnPath(x) ==
  /\ x.pc = "serviceExists" => x.call.op \notin {"addService", "getService"}
  /\ x.pc = "nameTaken" => x.call.op \in {"addService", "updateService"}
  /\ x.pc = "versionExists" =>
       x.call.op \in {"addServiceVersion", "updateServiceVersion", "deleteServiceVersion"}
  /\ x.pc = "read" => x.call.op \in {"getService", "getServiceVersion"}
  /\ x.pc = "subtract" => x.call.op = "deleteServiceVersion"

OnPaths == \A r \in Requests : OnPath(req[r])

LEMMA OnPathsKept == ASSUME TypeOK, OnPaths, [Next]_vars PROVE OnPaths'
<1> SUFFICES ASSUME NEW q \in Requests PROVE OnPath(req'[q])
  BY DEF OnPaths
<1>1. req \in [Requests -> ReqType] /\ OnPath(req[q])
  BY DEF TypeOK, ReqType, OnPaths
<1>2. CASE req'[q].pc = "idle"
  BY <1>2 DEF OnPath
<1>3. CASE Arrives(q)
  <2>1. PICK call \in Calls :
          /\ WellFormed(call)
          /\ req'[q] = [call |-> call, pc |-> FirstStep[call.op], status |-> "none"]
    BY <1>3 DEF Arrives
  <2>2. call.op \in Operations
    BY <2>1, CallParameters
  <2>3. \/ FirstStep[call.op] = "read" /\ call.op = "getService"
        \/ FirstStep[call.op] = "nameTaken" /\ call.op = "addService"
        \/ FirstStep[call.op] = "serviceExists" /\ call.op \notin {"addService", "getService"}
    BY <2>2 DEF FirstStep
  <2> QED
    BY <2>1, <2>3 DEF OnPath
<1>4. CASE Checked(q)
  <2>1. CASE At(q, "serviceExists") /\ Advances(q, AfterServiceExists[req[q].call.op])
    <3>1. req[q].call.op \in Operations \ {"addService", "getService"}
      BY <1>1, <2>1, InFlightRequest, CallParameters DEF At, OnPath
    <3> QED
      BY <2>1, <3>1 DEF Advances, AfterServiceExists, OnPath, Operations
  <2>2. CASE Advances(q, "write")
    BY <2>2 DEF Advances, OnPath
  <2>3. CASE DeleteFindsNothing(q) /\ Advances(q, "subtract")
    BY <2>3 DEF Advances, OnPath, DeleteFindsNothing, Running
  <2> QED
    BY <1>4, <2>1, <2>2, <2>3 DEF Checked
<1>5. CASE Advances(q, "signal")
  BY <1>5 DEF Advances, OnPath
<1> QED
  BY <1>1, <1>2, <1>3, <1>4, <1>5, RequestMoves

----------------------------------------------------------------------------
(* The races behind the two findings.                                      *)
(*                                                                         *)
(* A count drifts, and an update of nothing is answered with success, only *)
(* if requests of one kind each overlap on the same row.  Whatever else    *)
(* overlaps, fails, loses its reply or dies in a crash does not matter.    *)

InHand(r, op) == ~At(r, "idle") /\ req[r].call.op = op

\* No two requests are deleting the same version.
DeletesApart ==
  \A r, s \in Requests :
    (/\ InHand(r, "deleteServiceVersion") /\ InHand(s, "deleteServiceVersion")
     /\ req[r].call.id = req[s].call.id /\ req[r].call.tag = req[s].call.tag)
      => r = s

\* No request is updating a service that another one is deleting.
UpdatesApart ==
  \A r, s \in Requests :
    InHand(r, "updateService") /\ InHand(s, "deleteService")
      => req[r].call.id # req[s].call.id

LEMMA VersionLost ==
  ASSUME NEW r \in Requests, Write(r), NEW i \in Ids, NEW t \in Tags, TypeOK,
         version[i][t] # Null, version'[i][t] = Null
  PROVE  \/ service'[i] = Null
         \/ /\ Running(r, "deleteServiceVersion")
            /\ req[r].call.id = i /\ req[r].call.tag = t
<1>1. version \in [Ids -> [Tags -> Infos \cup {Empty, Null}]] /\ service \in [Ids -> ServiceRow \cup {Null}]
  BY DEF TypeOK
<1>2. CASE CreateService(r) \/ SubtractOnly(r)
  BY <1>2 DEF CreateService, SubtractOnly
<1>3. CASE UpdateService(r)
  BY <1>3 DEF UpdateService
<1>4. CASE DeleteService(r)
  BY <1>1, <1>4 DEF DeleteService
<1>5. CASE CreateServiceVersion(r)
  <2>1. req[r].call.text # Null
    <3>1. Running(r, "addServiceVersion") /\ "addServiceVersion" \in Operations
      BY <1>5 DEF CreateServiceVersion, Operations
    <3> QED
      BY <3>1, WritingRequest, CallParameters, NullAssumption
  <2> QED
    BY <1>1, <1>5, <2>1 DEF CreateServiceVersion
<1>6. CASE UpdateServiceVersion(r)
  <2>1. req[r].call.text # Null
    <3>1. Running(r, "updateServiceVersion") /\ "updateServiceVersion" \in Operations
      BY <1>6 DEF UpdateServiceVersion, Operations
    <3> QED
      BY <3>1, WritingRequest, CallParameters, NullAssumption
  <2>2. \A old : old # Null => UpdatedVersion(old, req[r].call.text) # Null
    BY <2>1 DEF UpdatedVersion, UpdatedField
  <2> QED
    BY <1>1, <1>6, <2>2 DEF UpdateServiceVersion
<1>7. CASE DeleteServiceVersion(r)
  BY <1>1, <1>7 DEF DeleteServiceVersion
<1> QED
  BY <1>2, <1>3, <1>4, <1>5, <1>6, <1>7 DEF Write

LEMMA ServiceLost ==
  ASSUME NEW r \in Requests, Write(r), NEW i \in Ids, TypeOK,
         service[i] # Null, service'[i] = Null
  PROVE  Running(r, "deleteService") /\ req[r].call.id = i
<1> DEFINE call == req[r].call
<1>1. service[i] \in ServiceRow \cup {Null} /\ service \in [Ids -> ServiceRow \cup {Null}]
  BY DEF TypeOK
<1>2. CASE CreateService(r)
  <2>1. \/ service' = service
        \/ service' = [service EXCEPT ![nextId] =
                         [name |-> call.name, description |-> call.text, versionCount |-> 0]]
    BY <1>2 DEF CreateService
  <2>2. Running(r, "addService") /\ "addService" \in Operations
    BY <1>2 DEF CreateService, Operations
  <2>3. call.name \in Names /\ call.text \in Descriptions \cup {Empty}
    BY <2>2, WritingRequest, CallParameters
  <2>4. [name |-> call.name, description |-> call.text, versionCount |-> 0] # Null
    BY <2>3, NullAssumption DEF ServiceRow
  <2> QED
    BY <1>1, <2>1, <2>4
<1>3. CASE UpdateService(r)
  <2>1. Running(r, "updateService") /\ "updateService" \in Operations
    BY <1>3 DEF UpdateService, Operations
  <2>2. call.name \in Names /\ call.text \in Descriptions \cup {Empty} /\ call.id \in Ids
    BY <2>1, WritingRequest, CallParameters
  <2>3. UpdatedService(service[i], call) # Null
    BY <1>1, <2>2, UpdatedServiceRow
  <2>4. \/ service' = service
        \/ service' = [service EXCEPT ![call.id] = UpdatedService(@, call)]
    BY <1>3 DEF UpdateService
  <2> QED
    BY <1>1, <2>3, <2>4
<1>4. CASE DeleteService(r)
  BY <1>1, <1>4 DEF DeleteService
<1>5. ASSUME NEW n \in Int,
             \/ service' = service
             \/ service' = [service EXCEPT ![call.id] = AddToCount(@, n)]
      PROVE  FALSE
  <2>1. service'[i] = service[i] \/ service'[i] = AddToCount(service[i], n)
    BY <1>1, <1>5
  <2> QED
    BY <1>1, <2>1, AddToCountRow
<1>6. CASE CreateServiceVersion(r)
  BY <1>5, <1>6, 1 \in Int DEF CreateServiceVersion, InsertedCount
<1>7. CASE UpdateServiceVersion(r)
  BY <1>7 DEF UpdateServiceVersion
<1>8. CASE DeleteServiceVersion(r)
  BY <1>5, <1>8, -1 \in Int DEF DeleteServiceVersion, DeletedCount
<1>9. CASE SubtractOnly(r)
  BY <1>5, <1>9, -1 \in Int DEF SubtractOnly, DeletedCount
<1> QED
  BY <1>2, <1>3, <1>4, <1>6, <1>7, <1>8, <1>9 DEF Write

\* Where the requests that may go wrong stand.  One that deletes a version has an id that
\* was handed out, and will find the version, unless the whole service is gone.
DeleteOnTrack(q) ==
  req[q].call.op = "deleteServiceVersion" =>
    /\ req[q].pc \in {"versionExists", "write", "subtract"} => req[q].call.id < nextId
    /\ At(q, "write") => \/ service[req[q].call.id] = Null
                         \/ version[req[q].call.id][req[q].call.tag] # Null
    /\ At(q, "subtract") => service[req[q].call.id] = Null

LEMMA DeletesStayOnTrack ==
  ASSUME IInv, OnPaths, DeletesApart, \A q \in Requests : DeleteOnTrack(q), [Next]_vars
  PROVE  \A q \in Requests : DeleteOnTrack(q)'
<1> SUFFICES ASSUME NEW q \in Requests PROVE DeleteOnTrack(q)'
  OBVIOUS
<1> DEFINE call == req[q].call
<1>1. TypeOK /\ req \in [Requests -> ReqType]
  BY DEF IInv, TypeOK, ReqType
<1>2. ASSUME req[q].pc # "idle", call.op = "deleteServiceVersion"
      PROVE  call.id \in Ids /\ call.tag \in Tags
  BY <1>1, <1>2, InFlightRequest, CallParameters
<1>3. ASSUME req'[q] = req[q] PROVE DeleteOnTrack(q)'
  <2> SUFFICES ASSUME call.op = "deleteServiceVersion",
                      req[q].pc \in {"versionExists", "write", "subtract"}
               PROVE  /\ call.id < nextId'
                      /\ At(q, "write") => \/ service'[call.id] = Null
                                           \/ version'[call.id][call.tag] # Null
                      /\ At(q, "subtract") => service'[call.id] = Null
    BY <1>3 DEF DeleteOnTrack, At
  <2>1. call.id < nextId
    BY DEF DeleteOnTrack
  <2>2. call.id \in Ids /\ call.tag \in Tags
    BY <1>2
  <2>3. call.id < nextId' /\ (service[call.id] = Null => service'[call.id] = Null)
    BY <2>1, <2>2, GoneStays
  <2>4. ASSUME At(q, "write"), service[call.id] # Null, service'[call.id] # Null
        PROVE  version'[call.id][call.tag] # Null
    <3>1. version[call.id][call.tag] # Null
      BY <2>4 DEF DeleteOnTrack
    <3>2. SUFFICES ASSUME version'[call.id][call.tag] = Null PROVE FALSE
      OBVIOUS
    <3>3. PICK r \in Requests : Write(r)
      BY <3>1, <3>2, OnlyWritesChangeTables DEF tables
    <3>4. Running(r, "deleteServiceVersion") /\ req[r].call.id = call.id /\ req[r].call.tag = call.tag
      BY <1>1, <2>2, <2>4, <3>1, <3>2, <3>3, VersionLost
    <3>5. r = q
      BY <2>4, <3>4 DEF DeletesApart, InHand, Running, At
    <3>6. req'[q].pc # "write"
      <4>1. Committed(r) \/ \E st \in Statuses : Answer(r, st)
        BY <3>3, WriteMoves DEF Moved
      <4>2. req[r].pc = "write" /\ req[r] \in InFlight
        BY <1>1, <3>4, InFlightRequest DEF Running, At
      <4> QED
        BY <1>1, <3>5, <4>1, <4>2 DEF Committed, Goto, Answer, Idle, InFlight
    <3> QED
      BY <1>3, <2>4, <3>6 DEF At
  <2> QED
    BY <2>3, <2>4 DEF DeleteOnTrack
<1>4. CASE req'[q].pc = "idle"
  BY <1>4 DEF DeleteOnTrack, At
<1>5. CASE Arrives(q)
  <2>1. PICK c \in Calls :
          WellFormed(c) /\ req'[q] = [call |-> c, pc |-> FirstStep[c.op], status |-> "none"]
    BY <1>5 DEF Arrives
  <2>2. c.op \in Operations
    BY <2>1, CallParameters
  <2>3. FirstStep[c.op] \notin {"versionExists", "write", "subtract"}
    BY <2>2 DEF FirstStep
  <2> QED
    BY <2>1, <2>3 DEF DeleteOnTrack, At
<1>6. CASE Checked(q)
  <2> SUFFICES ASSUME call.op = "deleteServiceVersion" PROVE DeleteOnTrack(q)'
    BY <1>6 DEF DeleteOnTrack, Checked, Advances
  <2>1. UNCHANGED <<service, version, nextId>> /\ req[q].pc # "idle"
    BY <1>6 DEF Checked, tables, Advances
  <2>2. CASE /\ At(q, "serviceExists") /\ service[call.id] # Null
             /\ Advances(q, AfterServiceExists[call.op])
    <3>1. AfterServiceExists[call.op] = "versionExists"
      BY DEF AfterServiceExists, Operations
    <3>2. call.id < nextId
      BY <1>2, <2>1, <2>2, BoundAssumption DEF IInv, FreshIds, TypeOK, Ids
    <3> QED
      BY <2>1, <2>2, <3>1, <3>2 DEF Advances, DeleteOnTrack, At
  <2>3. CASE At(q, "nameTaken")
    BY <2>3 DEF OnPaths, OnPath, At
  <2>4. CASE /\ At(q, "versionExists")
             /\ (version[call.id][call.tag] # Null) # (call.op = "addServiceVersion")
             /\ Advances(q, "write")
    <3>1. call.id < nextId /\ version[call.id][call.tag] # Null
      BY <2>4 DEF DeleteOnTrack, At
    <3> QED
      BY <2>1, <2>4, <3>1 DEF Advances, DeleteOnTrack, At
  <2>5. CASE DeleteFindsNothing(q) /\ Advances(q, "subtract")
    <3>1. At(q, "write") /\ version[call.id][call.tag] = Null
      BY <2>5 DEF DeleteFindsNothing, Running
    <3>2. call.id < nextId /\ service[call.id] = Null
      BY <3>1 DEF DeleteOnTrack, At
    <3> QED
      BY <2>1, <2>5, <3>2 DEF Advances, DeleteOnTrack, At
  <2> QED
    BY <1>6, <2>2, <2>3, <2>4, <2>5 DEF Checked
<1>7. CASE Advances(q, "signal")
  BY <1>7 DEF Advances, DeleteOnTrack, At
<1> QED
  BY <1>1, <1>3, <1>4, <1>5, <1>6, <1>7, RequestMoves

\* The precomputed count is exact as long as no two requests delete the same version at
\* once, whatever else overlaps: that race alone makes it drift.
THEOREM ApartCountsExact == Spec /\ []DeletesApart => []VersionCountExact
<1> DEFINE AInv == VersionCountExact /\ OnPaths /\ \A q \in Requests : DeleteOnTrack(q)
<1>1. Init => AInv
  BY DEF Init, VersionCountExact, OnPaths, OnPath, DeleteOnTrack, At, Idle
<1>2. IInv /\ AInv /\ DeletesApart /\ [Next]_vars => AInv'
  <2> SUFFICES ASSUME IInv, AInv, DeletesApart, [Next]_vars PROVE VersionCountExact'
    BY DeletesStayOnTrack, OnPathsKept DEF IInv
  <2>1. CASE UNCHANGED tables
    BY <2>1 DEF tables, VersionCountExact, CountExact, VersionsOf
  <2>2. ASSUME NEW r \in Requests, Write(r) PROVE VersionCountExact'
    <3> SUFFICES ASSUME NEW i \in Ids, service'[i] # Null
                 PROVE  service'[i].versionCount = Cardinality(VersionsOf(i)')
      BY DEF VersionCountExact, CountExact
    <3>1. Effect(r, i)
      BY <2>2, WriteEffect
    <3>2. service[i] # Null => ~RacedDelete(r, i)
      BY DEF RacedDelete, DeleteOnTrack, At, OnPaths, OnPath
    <3>3. service'[i].versionCount \in Int
      BY NextType DEF IInv, TypeOK, ServiceRow
    <3>4. Cardinality(VersionsOf(i)) \in Nat /\ Cardinality(VersionsOf(i)') \in Nat
      <4>1. VersionsOf(i)' \subseteq Tags
        BY DEF VersionsOf
      <4> QED
        BY <4>1, TagsAssumption, FS_Subset, FS_CardinalityType, VersionsOfFinite
    <3>5. service[i] # Null => service[i].versionCount = Cardinality(VersionsOf(i))
      BY DEF VersionCountExact, CountExact
    <3>6. VersionsOf(i)' = {} => Cardinality(VersionsOf(i)') = 0
      BY FS_EmptySet
    <3> QED
      BY <3>1, <3>2, <3>3, <3>4, <3>5, <3>6 DEF Effect
  <2> QED
    BY <2>1, <2>2, OnlyWritesChangeTables
<1> QED
  BY <1>1, <1>2, Invariance, PTL DEF Spec

\* With one request at a time the precomputed count is exact, through crashes, failed
\* transactions and lost acknowledgements: only overlapping requests make it drift.
THEOREM SerialCountsExact ==
  ASSUME \A r, s \in Requests : r = s
  PROVE  Spec => []VersionCountExact
<1>1. DeletesApart
  BY DEF DeletesApart
<1> QED
  BY <1>1, ApartCountsExact, PTL

\* An update past its first check has its service, unless somebody deletes it.
UpdateOnTrack(q) ==
  req[q].call.op = "updateService" /\ req[q].pc \in {"nameTaken", "write"}
    => service[req[q].call.id] # Null

\* An update that is answered with success has found its service as long as no request
\* deletes that service at the same time: the missing "does not exist" needs this race.
THEOREM ApartUpdatesTruthful == Spec /\ []UpdatesApart => UpdateReportsDeletion
<1> DEFINE UInv == \A q \in Requests : UpdateOnTrack(q)
<1>1. Init => UInv
  BY DEF Init, UpdateOnTrack, Idle
<1>2. IInv /\ OnPaths /\ UInv /\ UpdatesApart /\ [Next]_vars => UInv'
  <2> SUFFICES ASSUME IInv, OnPaths, UInv, UpdatesApart, [Next]_vars, NEW q \in Requests
               PROVE  UpdateOnTrack(q)'
    OBVIOUS
  <2> DEFINE call == req[q].call
  <2>1. TypeOK /\ req \in [Requests -> ReqType]
    BY DEF IInv, TypeOK, ReqType
  <2>2. ASSUME req'[q] = req[q] PROVE UpdateOnTrack(q)'
    <3> SUFFICES ASSUME call.op = "updateService", req[q].pc \in {"nameTaken", "write"},
                        service'[call.id] = Null
                 PROVE  FALSE
      BY <2>2 DEF UpdateOnTrack
    <3>1. call.id \in Ids /\ service[call.id] # Null
      BY <2>1, InFlightRequest, CallParameters DEF UpdateOnTrack
    <3>2. PICK r \in Requests : Write(r)
      BY <3>1, OnlyWritesChangeTables DEF tables
    <3>3. Running(r, "deleteService") /\ req[r].call.id = call.id
      BY <2>1, <3>1, <3>2, ServiceLost
    <3> QED
      BY <3>3 DEF UpdatesApart, InHand, Running, At
  <2>3. CASE req'[q].pc = "idle"
    BY <2>3 DEF UpdateOnTrack
  <2>4. CASE Arrives(q)
    <3>1. PICK c \in Calls :
            WellFormed(c) /\ req'[q] = [call |-> c, pc |-> FirstStep[c.op], status |-> "none"]
      BY <2>4 DEF Arrives
    <3>2. c.op = "updateService" => FirstStep[c.op] = "serviceExists"
      BY DEF FirstStep, Operations
    <3> QED
      BY <3>1, <3>2 DEF UpdateOnTrack
  <2>5. CASE Checked(q)
    <3> SUFFICES ASSUME call.op = "updateService" PROVE UpdateOnTrack(q)'
      BY <2>5 DEF UpdateOnTrack, Checked, Advances
    <3>1. service' = service
      BY <2>5 DEF Checked, tables
    <3>2. CASE At(q, "serviceExists") /\ service[call.id] # Null /\ req'[q].call = call
      BY <3>1, <3>2 DEF UpdateOnTrack
    <3>3. CASE At(q, "nameTaken") /\ req'[q].call = call
      BY <3>1, <3>3 DEF UpdateOnTrack, At
    <3>4. ~At(q, "versionExists") /\ ~DeleteFindsNothing(q)
      BY DEF OnPaths, OnPath, At, DeleteFindsNothing, Running
    <3> QED
      BY <2>5, <3>2, <3>3, <3>4 DEF Checked, Advances
  <2>6. CASE Advances(q, "signal")
    BY <2>6 DEF Advances, UpdateOnTrack
  <2> QED
    BY <2>1, <2>2, <2>3, <2>4, <2>5, <2>6, RequestMoves
<1>3. Init => OnPaths
  BY DEF Init, OnPaths, OnPath, Idle
<1>4. IInv /\ OnPaths /\ [Next]_vars => OnPaths'
  BY OnPathsKept DEF IInv
<1> DEFINE Truthful == \A r \in Requests : Running(r, "updateService") /\ req'[r].pc = "signal"
                                             => service[req[r].call.id] # Null
<1>5. UInv => [Truthful]_vars
  BY DEF UpdateOnTrack, Running, At
<1> QED
  BY <1>1, <1>2, <1>3, <1>4, <1>5, Invariance, PTL DEF Spec, UpdateReportsDeletion

----------------------------------------------------------------------------
(* ServiceCatalog implements Catalogue.                                    *)

Entries == [i \in Ids |-> EntryOf(i)]
ClientRequests == [r \in Requests |-> RequestOf(r)]

LEMMA EntryFields ==
  ASSUME TypeOK, NEW i \in Ids
  PROVE  /\ EntryOf(i) = Null <=> service[i] = Null
         /\ service[i] # Null => /\ EntryOf(i).name = service[i].name
                                 /\ EntryOf(i).tags = VersionsOf(i)
<1>1. CASE service[i] = Null
  BY <1>1 DEF EntryOf
<1>2. CASE service[i] # Null
  <2>1. service[i].name \in Names /\ VersionsOf(i) \in SUBSET Tags
    BY <1>2 DEF TypeOK, ServiceRow, VersionsOf
  <2>2. [name |-> service[i].name, tags |-> VersionsOf(i)] \in Entry
    BY <2>1 DEF Entry
  <2> QED
    BY <1>2, <2>2, NullAssumption DEF EntryOf
<1> QED
  BY <1>1, <1>2

LEMMA TakenForClients ==
  ASSUME TypeOK, NEW name, NEW id PROVE Clients!Taken(name, id) <=> NameTaken(name, id)
<1>1. \A i \in Ids : Entries[i] = EntryOf(i)
  BY DEF Entries
<1> QED
  BY <1>1, EntryFields DEF Clients!Taken, NameTaken, Entries

LEMMA HasVersionForClients ==
  ASSUME IInv, NEW i \in Ids, NEW tag \in Tags
  PROVE  Clients!HasVersion(i, tag) <=> version[i][tag] # Null
<1>1. Clients!HasVersion(i, tag) <=> EntryOf(i) # Null /\ tag \in EntryOf(i).tags
  BY DEF Clients!HasVersion
<1>2. tag \in VersionsOf(i) <=> version[i][tag] # Null
  BY DEF VersionsOf
<1>3. service[i] = Null => version[i][tag] = Null
  BY <1>2 DEF IInv, NoOrphanVersions
<1> QED
  BY <1>1, <1>2, <1>3, EntryFields DEF IInv

\* One step of a request, as its client sees it.
LEMMA AnswerForClients ==
  ASSUME req \in [Requests -> ReqType], NEW r \in Requests, NEW st, Answer(r, st)
  PROVE  Clients!Answer(r, st)
<1>1. \A q \in Requests : req'[q] = IF q = r THEN Idle(st) ELSE req[q]
  BY DEF Answer
<1>2. /\ Idle(st).call = Null /\ Idle(st).pc = "idle" /\ Idle(st).status = st
      /\ Phase("idle") = "idle"
  BY DEF Idle, Phase
<1>3. \A q \in Requests : RequestOf(q)' = IF q = r THEN Clients!Idle(st) ELSE RequestOf(q)
  BY <1>1, <1>2 DEF RequestOf, Clients!Idle
<1>4. ClientRequests' = [ClientRequests EXCEPT ![r] = Clients!Idle(st)]
  BY <1>3 DEF ClientRequests
<1> QED
  BY <1>4 DEF Clients!Answer, ClientRequests

LEMMA GotoForClients ==
  ASSUME req \in [Requests -> ReqType], NEW r \in Requests, req[r].pc # "idle",
         NEW pc \in PCs \ {"idle"}, Goto(r, pc)
  PROVE  /\ Phase(pc) = Phase(req[r].pc) => ClientRequests' = ClientRequests
         /\ Phase(pc) = "done" => Clients!Performed(r)
<1>1. req[r] \in InFlight
  BY InFlightRequest
<1>2. \A q \in Requests : req'[q] = IF q = r THEN [req[r] EXCEPT !.pc = pc] ELSE req[q]
  BY DEF Goto
<1>3. /\ [req[r] EXCEPT !.pc = pc].call = req[r].call
      /\ [req[r] EXCEPT !.pc = pc].pc = pc
      /\ [req[r] EXCEPT !.pc = pc].status = req[r].status
  BY <1>1 DEF InFlight
<1>4. \A q \in Requests :
        RequestOf(q)' = IF q = r THEN [call |-> req[r].call, phase |-> Phase(pc),
                                       answer |-> req[r].status]
                                 ELSE RequestOf(q)
  BY <1>2, <1>3 DEF RequestOf
<1>5. ASSUME Phase(pc) = Phase(req[r].pc) PROVE ClientRequests' = ClientRequests
  <2>1. \A q \in Requests : RequestOf(q)' = RequestOf(q)
    BY <1>4, <1>5 DEF RequestOf
  <2> QED
    BY <2>1 DEF ClientRequests
<1>6. ASSUME Phase(pc) = "done" PROVE Clients!Performed(r)
  <2>1. [RequestOf(r) EXCEPT !.phase = "done"]
          = [call |-> req[r].call, phase |-> "done", answer |-> req[r].status]
    BY DEF RequestOf
  <2>2. ClientRequests' = [ClientRequests EXCEPT ![r] = [RequestOf(r) EXCEPT !.phase = "done"]]
    BY <1>4, <1>6, <2>1 DEF ClientRequests
  <2>3. ClientRequests' = [ClientRequests EXCEPT ![r].phase = "done"]
    BY <2>2 DEF ClientRequests
  <2> QED
    BY <2>3 DEF Clients!Performed, ClientRequests
<1> QED
  BY <1>5, <1>6

LEMMA CommittedForClients ==
  ASSUME req \in [Requests -> ReqType], NEW r \in Requests, req[r].pc # "idle", Committed(r)
  PROVE  Clients!Performed(r)
<1>1. CASE Goto(r, "signal")
  <2>1. "signal" \in PCs \ {"idle"} /\ Phase("signal") = "done"
    BY DEF PCs, Phase
  <2> QED
    BY <1>1, <2>1, GotoForClients
<1>2. CASE Answer(r, "internal")
  BY <1>2, AnswerForClients DEF Clients!Performed
<1> QED
  BY <1>1, <1>2 DEF Committed

\* The entries after a write.
LEMMA EntriesKept == ASSUME UNCHANGED tables PROVE Entries' = Entries
<1>1. \A i \in Ids : VersionsOf(i)' = VersionsOf(i) /\ service'[i] = service[i]
  BY DEF tables, VersionsOf
<1>2. \A i \in Ids : EntryOf(i)' = EntryOf(i)
  BY <1>1 DEF EntryOf
<1> QED
  BY <1>2 DEF Entries

LEMMA EntryKept ==
  ASSUME NEW i \in Ids, VersionsOf(i)' = VersionsOf(i),
         service[i] = Null <=> service'[i] = Null,
         service[i] # Null => service'[i].name = service[i].name
  PROVE  EntryOf(i)' = EntryOf(i)
BY DEF EntryOf

LEMMA EntriesExcept ==
  ASSUME NEW id \in Ids, \A i \in Ids \ {id} : EntryOf(i)' = EntryOf(i)
  PROVE  Entries' = [Entries EXCEPT ![id] = EntryOf(id)']
<1>1. \A i \in Ids : EntryOf(i)' = IF i = id THEN EntryOf(id)' ELSE EntryOf(i)
  OBVIOUS
<1> QED
  BY <1>1 DEF Entries

LEMMA ChangeForClients ==
  ASSUME NEW id \in Ids, \A i \in Ids \ {id} : EntryOf(i)' = EntryOf(i), nextId' = nextId,
         NEW new, EntryOf(id) = Null => EntryOf(id)' = Null,
         EntryOf(id) # Null => EntryOf(id)' = new
  PROVE  Clients!Change(id, new)
<1>1. Entries' = [Entries EXCEPT ![id] = EntryOf(id)']
  BY EntriesExcept
<1>2. Entries[id] = EntryOf(id)
  BY DEF Entries
<1>3. Entries = [i \in Ids |-> Entries[i]]
  BY DEF Entries
<1>4. CASE EntryOf(id) = Null
  <2>1. EntryOf(id)' = Entries[id]
    BY <1>2, <1>4
  <2>2. Entries' = Entries
    BY <1>1, <1>3, <2>1
  <2> QED
    BY <1>2, <1>4, <2>2 DEF Clients!Change, Entries
<1>5. CASE EntryOf(id) # Null
  <2>1. Entries' = [Entries EXCEPT ![id] = new]
    BY <1>1, <1>5
  <2> QED
    BY <1>2, <1>5, <2>1 DEF Clients!Change, Entries
<1> QED
  BY <1>4, <1>5


\* The steps of an open request: it takes effect, or is refused.
LEMMA PerformForClients ==
  ASSUME NEW r \in Requests, Phase(req[r].pc) = "open",
         Clients!Effect(req[r].call), Clients!Performed(r)
  PROVE  Clients!Next
<1>1. Clients!Perform(r)
  BY DEF Clients!Perform, RequestOf
<1> QED
  BY <1>1 DEF Clients!Next

LEMMA RefuseForClients ==
  ASSUME req \in [Requests -> ReqType], NEW r \in Requests, Phase(req[r].pc) = "open",
         Entries' = Entries, nextId' \in {nextId, nextId + 1},
         \/ Answer(r, "conflict") /\ Clients!Conflicts(req[r].call)
         \/ Answer(r, "notFound") /\ Clients!NotFound(req[r].call)
         \/ Answer(r, "internal")
  PROVE  Clients!Next
<1>1. \/ Clients!Answer(r, "conflict") /\ Clients!Conflicts(req[r].call)
      \/ Clients!Answer(r, "notFound") /\ Clients!NotFound(req[r].call)
      \/ Clients!Answer(r, "internal")
  BY AnswerForClients
<1>2. Clients!Refuse(r)
  BY <1>1 DEF Clients!Refuse, RequestOf, Entries
<1> QED
  BY <1>2 DEF Clients!Next

LEMMA ReceiveForClients ==
  ASSUME TypeOK, NEW r \in Requests, Receive(r) PROVE Clients!Next
<1>1. Entries' = Entries /\ nextId' = nextId
  BY EntriesKept DEF Receive, tables
<1>2. req \in [Requests -> ReqType] /\ req[r].pc = "idle" /\ Phase("idle") = "idle"
  BY DEF TypeOK, ReqType, Receive, At, Phase
<1>3. PICK call \in Calls :
        IF WellFormed(call)
          THEN req' = [req EXCEPT ![r] = [call |-> call, pc |-> FirstStep[call.op],
                                          status |-> "none"]]
          ELSE Answer(r, "badRequest")
  BY DEF Receive
<1>4. CASE ~WellFormed(call)
  <2>1. Clients!Answer(r, "badRequest")
    BY <1>2, <1>3, <1>4, AnswerForClients
  <2>2. Clients!Ask(r)
    BY <1>1, <1>2, <2>1 DEF Clients!Ask, RequestOf, Entries
  <2> QED
    BY <2>2 DEF Clients!Next
<1>5. CASE WellFormed(call)
  <2>1. Phase(FirstStep[call.op]) = "open"
    <3>1. call.op \in Operations
      BY <1>5, CallParameters
    <3>2. FirstStep[call.op] \in {"read", "nameTaken", "serviceExists"}
      BY <3>1 DEF FirstStep
    <3> QED
      BY <3>2 DEF Phase
  <2>2. \A q \in Requests :
          req'[q] = IF q = r THEN [call |-> call, pc |-> FirstStep[call.op], status |-> "none"]
                             ELSE req[q]
    BY <1>2, <1>3, <1>5
  <2>3. \A q \in Requests :
          RequestOf(q)' = IF q = r THEN [call |-> call, phase |-> "open", answer |-> "none"]
                                   ELSE RequestOf(q)
    BY <2>1, <2>2 DEF RequestOf
  <2>4. ClientRequests' = [ClientRequests EXCEPT ![r] = [call |-> call, phase |-> "open",
                                                        answer |-> "none"]]
    BY <2>3 DEF ClientRequests
  <2>5. call \in {c \in Calls : WellFormed(c)} /\ ClientRequests'[r].call = call
    BY <1>5, <2>4 DEF ClientRequests
  <2>6. Clients!Ask(r)
    BY <1>1, <1>2, <2>4, <2>5 DEF Clients!Ask, RequestOf, Entries, ClientRequests
  <2> QED
    BY <2>6 DEF Clients!Next
<1> QED
  BY <1>4, <1>5

\* A check refuses a request for what is so at that moment, or changes nothing.
LEMMA CheckForClients ==
  ASSUME IInv, OnPaths, NEW r \in Requests,
         CheckServiceExists(r) \/ CheckName(r) \/ CheckVersionExists(r)
  PROVE  Clients!Next \/ UNCHANGED <<Entries, nextId, ClientRequests>>
<1> DEFINE call == req[r].call
<1>1. Entries' = Entries /\ nextId' = nextId
  BY EntriesKept DEF CheckServiceExists, CheckName, CheckVersionExists, tables
<1>2. /\ TypeOK /\ req \in [Requests -> ReqType]
      /\ req[r].pc \in {"serviceExists", "nameTaken", "versionExists"}
  BY DEF IInv, TypeOK, ReqType, CheckServiceExists, CheckName, CheckVersionExists, At
<1>3. /\ req[r].pc # "idle" /\ Phase(req[r].pc) = "open"
      /\ \A pc \in {"nameTaken", "versionExists", "read", "write"} :
           pc \in PCs \ {"idle"} /\ Phase(pc) = "open"
  BY <1>2 DEF Phase, PCs
<1>4. call \in Calls /\ WellFormed(call)
  BY <1>2, <1>3, InFlightRequest
<1>5. call.op \in Operations
  BY <1>4, CallParameters
<1>6. ASSUME NEW pc \in {"nameTaken", "versionExists", "read", "write"}, Goto(r, pc)
      PROVE  UNCHANGED <<Entries, nextId, ClientRequests>>
  BY <1>1, <1>2, <1>3, <1>6, GotoForClients
<1>7. CASE CheckServiceExists(r)
  <2>1. CASE service[call.id] # Null
    <3>1. AfterServiceExists[call.op] \in {"nameTaken", "versionExists", "read", "write"}
      BY <1>5 DEF AfterServiceExists
    <3> QED
      BY <1>6, <1>7, <2>1, <3>1 DEF CheckServiceExists
  <2>2. CASE service[call.id] = Null
    <3>1. Answer(r, "notFound") /\ call.op # "addService" /\ call.id \in Ids
      BY <1>4, <1>7, <2>2, CallParameters DEF CheckServiceExists, At, OnPaths, OnPath
    <3>2. Entries[call.id] = Null
      BY <1>2, <2>2, <3>1, EntryFields DEF Entries
    <3>3. Clients!NotFound(call)
      BY <3>1, <3>2 DEF Clients!NotFound, Entries
    <3> QED
      BY <1>1, <1>2, <1>3, <3>1, <3>3, RefuseForClients
  <2> QED
    BY <2>1, <2>2
<1>8. CASE CheckName(r)
  <2>1. CASE NameTaken(call.name, call.id)
    <3>1. call.op \in {"addService", "updateService"}
      BY <1>8 DEF CheckName, At, OnPaths, OnPath
    <3>2. Clients!Conflicts(call)
      BY <1>2, <2>1, <3>1, TakenForClients DEF Clients!Conflicts
    <3> QED
      BY <1>1, <1>2, <1>3, <1>8, <2>1, <3>2, RefuseForClients DEF CheckName
  <2>2. CASE ~NameTaken(call.name, call.id)
    BY <1>6, <1>8, <2>2 DEF CheckName
  <2> QED
    BY <2>1, <2>2
<1>9. CASE CheckVersionExists(r)
  <2>1. /\ call.op \in {"addServiceVersion", "updateServiceVersion", "deleteServiceVersion"}
        /\ call.id \in Ids /\ call.tag \in Tags
    BY <1>4, <1>9, CallParameters DEF CheckVersionExists, At, OnPaths, OnPath
  <2>2. Clients!HasVersion(call.id, call.tag) <=> version[call.id][call.tag] # Null
    BY <2>1, HasVersionForClients
  <2>3. CASE Goto(r, "write")
    BY <1>6, <2>3
  <2>4. CASE /\ Answer(r, "conflict") /\ call.op = "addServiceVersion"
             /\ version[call.id][call.tag] # Null
    <3>1. Clients!Conflicts(call)
      BY <2>2, <2>4 DEF Clients!Conflicts
    <3> QED
      BY <1>1, <1>2, <1>3, <2>4, <3>1, RefuseForClients
  <2>5. CASE /\ Answer(r, "notFound") /\ call.op # "addServiceVersion"
             /\ version[call.id][call.tag] = Null
    <3>1. Clients!NotFound(call)
      BY <2>1, <2>2, <2>5 DEF Clients!NotFound
    <3> QED
      BY <1>1, <1>2, <1>3, <2>5, <3>1, RefuseForClients
  <2> QED
    BY <1>9, <2>3, <2>4, <2>5 DEF CheckVersionExists
<1> QED
  BY <1>7, <1>8, <1>9

\* A read takes effect when it finds its row, and is refused when it does not.
LEMMA ReadForClients ==
  ASSUME IInv, OnPaths, NEW r \in Requests, Read(r) PROVE Clients!Next
<1> DEFINE call == req[r].call
<1>1. Entries' = Entries /\ nextId' = nextId
  BY EntriesKept DEF Read, tables
<1>2. /\ TypeOK /\ req \in [Requests -> ReqType]
      /\ req[r].pc = "read" /\ Phase(req[r].pc) = "open"
  BY DEF IInv, TypeOK, ReqType, Read, At, Phase
<1>3. call \in Calls /\ WellFormed(call) /\ call.op \in {"getService", "getServiceVersion"}
  BY <1>2, InFlightRequest DEF OnPaths, OnPath
<1>4. /\ call.id \in Ids /\ Entries[call.id] = EntryOf(call.id)
      /\ EntryOf(call.id) = Null <=> service[call.id] = Null
  BY <1>2, <1>3, CallParameters, EntryFields DEF Entries
<1>5. call.op = "getServiceVersion"
        => (Clients!HasVersion(call.id, call.tag) <=> version[call.id][call.tag] # Null)
  BY <1>3, <1>4, CallParameters, HasVersionForClients
<1>6. CASE Found(call)
  <2>1. Clients!Performed(r)
    BY <1>2, <1>6, AnswerForClients DEF Read, Clients!Performed
  <2>2. Clients!Effect(call)
    BY <1>1, <1>3, <1>4, <1>5, <1>6
    DEF Found, Clients!Effect, Clients!GetService, Clients!GetServiceVersion, Entries
  <2> QED
    BY <1>2, <2>1, <2>2, PerformForClients
<1>7. CASE ~Found(call)
  <2>1. Clients!NotFound(call)
    BY <1>3, <1>4, <1>5, <1>7 DEF Found, Clients!NotFound, Entries
  <2> QED
    BY <1>1, <1>2, <1>7, <2>1, RefuseForClients DEF Read
<1> QED
  BY <1>6, <1>7


----------------------------------------------------------------------------
(* The writes, as the clients see them.                                    *)

LEMMA CreateServiceForClients ==
  ASSUME IInv, NEW r \in Requests, CreateService(r) PROVE Clients!Next
<1> DEFINE call == req[r].call
<1>1. Running(r, "addService") /\ "addService" \in Operations /\ TypeOK
  BY DEF CreateService, Operations, IInv
<1>2. /\ req \in [Requests -> ReqType] /\ req[r].pc # "idle" /\ Phase(req[r].pc) = "open"
      /\ call \in Calls /\ WellFormed(call) /\ call.op = "addService"
  BY <1>1, WritingRequest DEF Running, At, Phase
<1>3. call.id = Null /\ call.name \in Names /\ call.text \in Descriptions \cup {Empty}
  BY <1>2, CallParameters
<1>4. nextId \in Ids /\ nextId' = nextId + 1 /\ nextId \in Nat
  BY BoundAssumption DEF CreateService, Ids
<1>5. CASE NameTaken(call.name, Null) /\ Answer(r, "conflict") /\ UNCHANGED service
  <2>1. UNCHANGED <<service, version>>
    BY <1>5 DEF CreateService
  <2>2. Entries' = Entries
    <3>1. \A i \in Ids : VersionsOf(i)' = VersionsOf(i) /\ service'[i] = service[i]
      BY <2>1 DEF VersionsOf
    <3>2. \A i \in Ids : EntryOf(i)' = EntryOf(i)
      BY <3>1 DEF EntryOf
    <3> QED
      BY <3>2 DEF Entries
  <2>3. Clients!Conflicts(call)
    BY <1>1, <1>2, <1>3, <1>5, TakenForClients DEF Clients!Conflicts
  <2> QED
    BY <1>2, <1>4, <1>5, <2>2, <2>3, RefuseForClients
<1>6. CASE /\ ~NameTaken(call.name, Null)
           /\ service' = [service EXCEPT ![nextId] =
                            [name |-> call.name, description |-> call.text,
                             versionCount |-> 0]]
           /\ Committed(r)
  <2> DEFINE row == [name |-> call.name, description |-> call.text, versionCount |-> 0]
  <2>1. row # Null /\ row.name = call.name
    BY <1>3, NewServiceRow, NullAssumption
  <2>2. \A i \in Ids : VersionsOf(i)' = VersionsOf(i)
    BY DEF CreateService, VersionsOf
  <2>3. service[nextId] = Null /\ VersionsOf(nextId) = {}
    BY <1>4 DEF IInv, FreshIds, NoOrphanVersions
  <2>4. /\ service'[nextId] = row
        /\ \A i \in Ids \ {nextId} : service'[i] = service[i]
    BY <1>1, <1>4, <1>6 DEF TypeOK
  <2> HIDE DEF row
  <2>5. PICK id \in Ids : id = nextId
    BY <1>4
  <2>6. /\ EntryOf(id)' = [name |-> call.name, tags |-> {}]
        /\ \A i \in Ids \ {id} : EntryOf(i)' = EntryOf(i)
    BY <2>1, <2>2, <2>3, <2>4, <2>5 DEF EntryOf
  <2>7. Entries' = [Entries EXCEPT ![nextId] = [name |-> call.name, tags |-> {}]]
    BY <2>5, <2>6, EntriesExcept
  <2>8. ~Clients!Taken(call.name, Null)
    BY <1>1, <1>6, TakenForClients
  <2>9. Clients!AddService(call)
    BY <1>4, <2>7, <2>8 DEF Clients!AddService, Entries
  <2>10. Clients!Effect(call)
    BY <1>2, <2>9 DEF Clients!Effect
  <2> QED
    BY <1>2, <1>6, <2>10, CommittedForClients, PerformForClients
<1> QED
  BY <1>5, <1>6 DEF CreateService, UniqueKeyViolated

LEMMA UpdateServiceForClients ==
  ASSUME IInv, NEW r \in Requests, UpdateService(r) PROVE Clients!Next
<1> DEFINE call == req[r].call
           row == UpdatedService(service[call.id], call)
<1>1. Running(r, "updateService") /\ "updateService" \in Operations /\ TypeOK
  BY DEF UpdateService, Operations, IInv
<1>2. /\ req \in [Requests -> ReqType] /\ req[r].pc # "idle" /\ Phase(req[r].pc) = "open"
      /\ call \in Calls /\ WellFormed(call) /\ call.op = "updateService"
  BY <1>1, WritingRequest DEF Running, At, Phase
<1>3. call.id \in Ids /\ call.name \in Names /\ call.text \in Descriptions \cup {Empty}
  BY <1>2, CallParameters
<1>4. UNCHANGED <<version, nextId>> /\ \A i \in Ids : VersionsOf(i)' = VersionsOf(i)
  BY DEF UpdateService, VersionsOf
<1>5. CASE /\ service[call.id] # Null /\ NameTaken(call.name, call.id)
           /\ Answer(r, "conflict") /\ UNCHANGED service
  <2>1. Entries' = Entries
    BY <1>4, <1>5, EntriesKept DEF tables
  <2>2. Clients!Conflicts(call)
    BY <1>1, <1>2, <1>5, TakenForClients DEF Clients!Conflicts
  <2> QED
    BY <1>2, <1>4, <1>5, <2>1, <2>2, RefuseForClients
<1>6. CASE /\ service[call.id] = Null \/ ~NameTaken(call.name, call.id)
           /\ service' = [service EXCEPT ![call.id] = row]
           /\ Committed(r)
  <2>1. service[call.id] \in ServiceRow \cup {Null}
    BY <1>1, <1>3 DEF TypeOK
  <2>2. /\ row = Null <=> service[call.id] = Null
        /\ service[call.id] # Null => row.name = call.name
    BY <1>3, <2>1, UpdatedServiceRow
  <2> HIDE DEF row
  <2>3. service'[call.id] = row /\ \A i \in Ids \ {call.id} : service'[i] = service[i]
    BY <1>1, <1>3, <1>6 DEF TypeOK
  <2> PICK id \in Ids : id = call.id
    BY <1>3
  <2>4. \A i \in Ids \ {id} : EntryOf(i)' = EntryOf(i)
    BY <1>4, <2>3 DEF EntryOf
  <2>5. EntryOf(call.id) = Null <=> service[call.id] = Null
    BY <1>1, <1>3, EntryFields
  <2> DEFINE new == [name |-> call.name, tags |-> Entries[call.id].tags]
  <2>6. service[call.id] # Null => Entries[call.id].tags = VersionsOf(call.id)
    BY <1>1, <1>3, EntryFields DEF Entries
  <2>7. /\ EntryOf(id) = Null => EntryOf(id)' = Null
        /\ EntryOf(id) # Null => EntryOf(id)' = new
    BY <1>3, <1>4, <2>2, <2>3, <2>5, <2>6 DEF EntryOf
  <2> HIDE DEF new
  <2>8. Clients!Change(id, new)
    BY <1>4, <2>4, <2>7, ChangeForClients
  <2>9. Entries[call.id] = Null \/ ~Clients!Taken(call.name, call.id)
    BY <1>1, <1>3, <1>6, <2>5, TakenForClients DEF Entries
  <2>10. Clients!UpdateService(call)
    BY <2>8, <2>9 DEF Clients!UpdateService, Entries, new
  <2>11. Clients!Effect(call)
    BY <1>2, <2>10 DEF Clients!Effect
  <2> QED
    BY <1>2, <1>6, <2>11, CommittedForClients, PerformForClients
<1> QED
  BY <1>5, <1>6 DEF UpdateService, UniqueKeyViolated

LEMMA DeleteServiceForClients ==
  ASSUME IInv, NEW r \in Requests, DeleteService(r) PROVE Clients!Next
<1> DEFINE call == req[r].call
<1>1. Running(r, "deleteService") /\ "deleteService" \in Operations /\ TypeOK
  BY DEF DeleteService, Operations, IInv
<1>2. /\ req \in [Requests -> ReqType] /\ req[r].pc # "idle" /\ Phase(req[r].pc) = "open"
      /\ call \in Calls /\ WellFormed(call) /\ call.op = "deleteService"
  BY <1>1, WritingRequest DEF Running, At, Phase
<1>3. call.id \in Ids
  BY <1>2, CallParameters
<1>4. /\ nextId' = nextId /\ Committed(r)
      /\ service'[call.id] = Null
      /\ \A i \in Ids \ {call.id} : service'[i] = service[i] /\ version'[i] = version[i]
  BY <1>1, <1>3 DEF DeleteService, TypeOK
<1> PICK id \in Ids : id = call.id
  BY <1>3
<1>5. \A i \in Ids \ {id} : EntryOf(i)' = EntryOf(i)
  BY <1>4, SMTT(30) DEF EntryOf, VersionsOf
<1>6. EntryOf(id)' = Null
  BY <1>4 DEF EntryOf
<1>7. Clients!Change(id, Null)
  BY <1>4, <1>5, <1>6, ChangeForClients
<1>8. Clients!Effect(call)
  BY <1>2, <1>7 DEF Clients!Effect, Clients!DeleteService
<1> QED
  BY <1>2, <1>4, <1>8, CommittedForClients, PerformForClients

\* A step that changes the tags of one service to a given set.
LEMMA TagsForClients ==
  ASSUME IInv, IInv', NEW id \in Ids, nextId' = nextId, NEW tags,
         \A i \in Ids \ {id} : service'[i] = service[i] /\ version'[i] = version[i],
         service[id] = Null <=> service'[id] = Null,
         service[id] # Null => /\ service'[id].name = service[id].name
                               /\ VersionsOf(id)' = tags
  PROVE  Clients!Change(id, [name |-> Entries[id].name, tags |-> tags])
<1> DEFINE new == [name |-> Entries[id].name, tags |-> tags]
<1>1. \A i \in Ids \ {id} : EntryOf(i)' = EntryOf(i)
  BY DEF EntryOf, VersionsOf
<1>2. /\ EntryOf(id) = Null <=> service[id] = Null
      /\ service[id] # Null => Entries[id].name = service[id].name
  BY EntryFields DEF IInv, Entries
<1>3. /\ EntryOf(id) = Null => EntryOf(id)' = Null
      /\ EntryOf(id) # Null => EntryOf(id)' = new
  BY <1>2 DEF EntryOf
<1> HIDE DEF new
<1>4. Clients!Change(id, new)
  BY <1>1, <1>3, ChangeForClients
<1> QED
  BY <1>4 DEF new


LEMMA CreateServiceVersionForClients ==
  ASSUME IInv, NEW r \in Requests, CreateServiceVersion(r) PROVE Clients!Next
<1> DEFINE call == req[r].call
<1>1. Running(r, "addServiceVersion") /\ "addServiceVersion" \in Operations /\ TypeOK
  BY DEF CreateServiceVersion, Operations, IInv
<1>2. /\ req \in [Requests -> ReqType] /\ req[r].pc # "idle" /\ Phase(req[r].pc) = "open"
      /\ call \in Calls /\ WellFormed(call) /\ call.op = "addServiceVersion"
  BY <1>1, WritingRequest DEF Running, At, Phase
<1>3. call.id \in Ids /\ call.tag \in Tags /\ call.text \in Infos \cup {Empty}
  BY <1>2, CallParameters
<1>4. nextId' = nextId
  BY DEF CreateServiceVersion
<1> PICK id \in Ids : id = call.id
  BY <1>3
<1> PICK tag \in Tags : tag = call.tag
  BY <1>3
<1>5. Clients!HasVersion(id, tag) <=> version[id][tag] # Null
  BY HasVersionForClients
<1>6. CASE UNCHANGED <<service, version>>
  <2>1. Entries' = Entries
    BY <1>4, <1>6, EntriesKept DEF tables
  <2>2. \/ Answer(r, "internal")
        \/ Answer(r, "conflict") /\ Clients!HasVersion(id, tag)
        \/ version[id][tag] = Null /\ version'[id][tag] = call.text
    BY <1>1, <1>5 DEF CreateServiceVersion, TypeOK
  <2>3. call.text # Null
    BY <1>3, NullAssumption
  <2>4. Clients!HasVersion(id, tag) => Clients!Conflicts(call)
    BY <1>2 DEF Clients!Conflicts
  <2> QED
    BY <1>2, <1>4, <1>6, <2>1, <2>2, <2>3, <2>4, RefuseForClients
<1>7. CASE /\ version[id][tag] = Null /\ service[id] # Null
           /\ version' = [version EXCEPT ![id][tag] = call.text]
           /\ service' = [service EXCEPT ![id] = AddToCount(@, 1)]
           /\ Committed(r)
  <2>1. service[id] \in ServiceRow \cup {Null} /\ 1 \in Int
    BY <1>1 DEF TypeOK
  <2>2. /\ service'[id] = AddToCount(service[id], 1)
        /\ \A i \in Ids \ {id} : service'[i] = service[i] /\ version'[i] = version[i]
    BY <1>1, <1>7 DEF TypeOK
  <2>3. service'[id] # Null /\ service'[id].name = service[id].name
    BY <1>7, <2>1, <2>2, AddToCountRow
  <2>4. VersionsOf(id)' = VersionsOf(id) \cup {tag}
    BY <1>1, <1>3, <1>7, NullAssumption DEF VersionsOf, TypeOK
  <2>5. Entries[id].tags = VersionsOf(id) /\ Entries[id] # Null
    BY <1>1, <1>7, EntryFields DEF Entries
  <2> DEFINE tags == Entries[id].tags \cup {tag}
  <2>6. VersionsOf(id)' = tags
    BY <2>4, <2>5
  <2>7. IInv'
    <3>1. Write(r)
      BY ZenonT(40) DEF Write
    <3> QED
      BY <3>1, WriteKeeps
  <2> HIDE DEF tags
  <2>8. Clients!Change(id, [name |-> Entries[id].name, tags |-> tags])
    BY <1>4, <1>7, <2>2, <2>3, <2>6, <2>7, TagsForClients, SMTT(30)
  <2>9. Clients!AddServiceVersion(call)
    BY <1>5, <1>7, <2>5, <2>8 DEF Clients!AddServiceVersion, Entries, tags
  <2>10. Clients!Effect(call)
    BY <1>2, <2>9 DEF Clients!Effect
  <2> QED
    BY <1>2, <1>7, <2>10, CommittedForClients, PerformForClients
<1> QED
  BY <1>6, <1>7 DEF CreateServiceVersion, ForeignKeyViolated, InsertedCount

LEMMA UpdateServiceVersionForClients ==
  ASSUME IInv, NEW r \in Requests, UpdateServiceVersion(r) PROVE Clients!Next
<1> DEFINE call == req[r].call
<1>1. Running(r, "updateServiceVersion") /\ "updateServiceVersion" \in Operations /\ TypeOK
  BY DEF UpdateServiceVersion, Operations, IInv
<1>2. /\ req \in [Requests -> ReqType] /\ req[r].pc # "idle" /\ Phase(req[r].pc) = "open"
      /\ call \in Calls /\ WellFormed(call) /\ call.op = "updateServiceVersion"
  BY <1>1, WritingRequest DEF Running, At, Phase
<1>3. call.id \in Ids /\ call.tag \in Tags /\ call.text \in Infos \cup {Empty}
  BY <1>2, CallParameters
<1>4. /\ UNCHANGED <<service, nextId>>
      /\ version' = [version EXCEPT ![call.id][call.tag] = UpdatedVersion(@, call.text)]
      /\ Answer(r, "ok") \/ Answer(r, "internal")
  BY DEF UpdateServiceVersion
<1>5. \A i \in Ids : VersionsOf(i)' = VersionsOf(i)
  BY <1>1, <1>3, <1>4, UpdatedVersionInfo DEF VersionsOf, TypeOK
<1>6. \A i \in Ids : EntryOf(i)' = EntryOf(i)
  BY <1>4, <1>5 DEF EntryOf
<1>7. Entries' = Entries
  BY <1>6 DEF Entries
<1>8. Clients!Effect(call)
  BY <1>2, <1>4, <1>7 DEF Clients!Effect, Clients!UpdateServiceVersion, Entries
<1>9. Clients!Performed(r)
  BY <1>2, <1>4, AnswerForClients DEF Clients!Performed
<1> QED
  BY <1>2, <1>8, <1>9, PerformForClients

LEMMA DeleteServiceVersionForClients ==
  ASSUME IInv, NEW r \in Requests, DeleteServiceVersion(r) \/ DeleteFindsNothing(r)
  PROVE  Clients!Next
<1> DEFINE call == req[r].call
<1>1. Running(r, "deleteServiceVersion") /\ "deleteServiceVersion" \in Operations /\ TypeOK
  BY DEF DeleteServiceVersion, DeleteFindsNothing, Operations, IInv
<1>2. /\ req \in [Requests -> ReqType] /\ req[r].pc # "idle" /\ Phase(req[r].pc) = "open"
      /\ call \in Calls /\ WellFormed(call) /\ call.op = "deleteServiceVersion"
  BY <1>1, WritingRequest DEF Running, At, Phase
<1>3. call.id \in Ids /\ call.tag \in Tags
  BY <1>2, CallParameters
<1> PICK id \in Ids : id = call.id
  BY <1>3
<1> PICK tag \in Tags : tag = call.tag
  BY <1>3
<1>4. nextId' = nextId
  BY DEF DeleteServiceVersion, DeleteFindsNothing, tables
<1>5. IInv'
  <2>1. Write(r) \/ DeleteFindsNothing(r)
    BY DEF Write
  <2> QED
    BY <2>1, WriteKeeps
<1> DEFINE tags == Entries[id].tags \ {tag}
<1>6. service[id] # Null => Entries[id].tags = VersionsOf(id)
  BY <1>1, EntryFields DEF Entries
<1>7. Clients!Change(id, [name |-> Entries[id].name, tags |-> tags]) /\ Clients!Performed(r)
  <2>1. CASE DeleteServiceVersion(r)
    <3>1. /\ version' = [version EXCEPT ![id][tag] = Null]
          /\ service' = [service EXCEPT ![id] = AddToCount(@, -1)]
          /\ Committed(r)
      BY <2>1 DEF DeleteServiceVersion, DeletedCount
    <3>2. service[id] \in ServiceRow \cup {Null} /\ -1 \in Int
      BY <1>1 DEF TypeOK
    <3>3. /\ service'[id] = AddToCount(service[id], -1)
          /\ \A i \in Ids \ {id} : service'[i] = service[i] /\ version'[i] = version[i]
      BY <1>1, <3>1 DEF TypeOK
    <3>4. /\ service[id] = Null <=> service'[id] = Null
          /\ service[id] # Null => service'[id].name = service[id].name
      BY ZenonT(60), <3>2, <3>3, AddToCountRow
    <3>5. VersionsOf(id)' = VersionsOf(id) \ {tag}
      BY <1>1, <3>1 DEF VersionsOf, TypeOK
    <3>6. service[id] # Null => VersionsOf(id)' = tags
      BY <1>6, <3>5
    <3> HIDE DEF tags
    <3>7. Clients!Change(id, [name |-> Entries[id].name, tags |-> tags])
      BY <1>4, <1>5, <3>3, <3>4, <3>6, TagsForClients
    <3> QED
      BY <1>2, <3>1, <3>7, CommittedForClients
  <2>2. CASE DeleteFindsNothing(r)
    <3>1. version[id][tag] = Null /\ UNCHANGED tables /\ Goto(r, "subtract")
      BY <2>2 DEF DeleteFindsNothing
    <3>2. VersionsOf(id)' = VersionsOf(id) /\ tag \notin VersionsOf(id)
      BY <3>1 DEF VersionsOf, tables
    <3>3. service[id] # Null => VersionsOf(id)' = tags
      BY <1>6, <3>2
    <3> HIDE DEF tags
    <3>4. Clients!Change(id, [name |-> Entries[id].name, tags |-> tags])
      BY <1>4, <1>5, <3>1, <3>3, TagsForClients DEF tables
    <3>5. "subtract" \in PCs \ {"idle"} /\ Phase("subtract") = "done"
      BY DEF PCs, Phase
    <3> QED
      BY <1>2, <3>1, <3>4, <3>5, GotoForClients
  <2> QED
    BY <2>1, <2>2
<1>8. Clients!Effect(call)
  BY <1>2, <1>7 DEF Clients!Effect, Clients!DeleteServiceVersion, Entries
<1> QED
  BY <1>2, <1>7, <1>8, PerformForClients

\* After its effect a request is answered; a raced delete has its effect behind it.
LEMMA ReplyForClients ==
  ASSUME TypeOK, NEW r \in Requests, Phase(req[r].pc) = "done",
         Entries' = Entries, nextId' = nextId, Answer(r, "ok") \/ Answer(r, "internal")
  PROVE  Clients!Next
<1>1. Clients!Answer(r, "ok") \/ Clients!Answer(r, "internal")
  BY AnswerForClients DEF TypeOK, ReqType
<1>2. Clients!Reply(r)
  BY <1>1 DEF Clients!Reply, RequestOf, Entries
<1> QED
  BY <1>2 DEF Clients!Next

LEMMA SubtractOnlyForClients ==
  ASSUME TypeOK, NEW r \in Requests, SubtractOnly(r)
  PROVE  Clients!Next \/ UNCHANGED <<Entries, nextId, ClientRequests>>
<1>1. /\ req \in [Requests -> ReqType] /\ req[r].pc = "subtract"
      /\ Phase("subtract") = "done" /\ Phase("signal") = "done"
      /\ "signal" \in PCs \ {"idle"}
  BY DEF TypeOK, ReqType, SubtractOnly, At, Phase, PCs
<1>2. nextId' = nextId /\ Committed(r)
  BY DEF SubtractOnly
<1>3. Entries' = Entries
  <2> SUFFICES ASSUME NEW i \in Ids PROVE EntryOf(i)' = EntryOf(i)
    BY DEF Entries
  <2>1. service[i] \in ServiceRow \cup {Null} /\ -1 \in Int
    BY DEF TypeOK
  <2>2. VersionsOf(i)' = VersionsOf(i)
    BY DEF SubtractOnly, VersionsOf
  <2>3. service'[i] = service[i] \/ service'[i] = AddToCount(service[i], -1)
    BY DEF SubtractOnly, DeletedCount, TypeOK
  <2> QED
    BY <2>1, <2>2, <2>3, AddToCountRow, EntryKept
<1>4. CASE Goto(r, "signal")
  BY <1>1, <1>2, <1>3, <1>4, GotoForClients
<1>5. CASE Answer(r, "internal")
  BY <1>1, <1>2, <1>3, <1>5, ReplyForClients
<1> QED
  BY <1>2, <1>4, <1>5 DEF Committed

LEMMA SignalForClients ==
  ASSUME TypeOK, NEW r \in Requests, Signal(r) \/ DBError(r) PROVE Clients!Next
<1>1. Entries' = Entries /\ nextId' = nextId
  BY EntriesKept DEF Signal, DBError, tables
<1>2. req \in [Requests -> ReqType]
  BY DEF TypeOK, ReqType
<1>3. CASE Signal(r)
  <2>1. Phase(req[r].pc) = "done" /\ Answer(r, "ok")
    BY <1>3 DEF Signal, At, Phase
  <2> QED
    BY <1>1, <2>1, ReplyForClients
<1>4. CASE DBError(r)
  <2>1. Phase(req[r].pc) \in {"open", "done"} /\ Answer(r, "internal")
    BY <1>4 DEF DBError, Phase
  <2> QED
    BY <1>1, <1>2, <2>1, RefuseForClients, ReplyForClients
<1> QED
  BY <1>3, <1>4

LEMMA CrashForClients == ASSUME TypeOK, Crash PROVE Clients!Next
<1>1. Entries' = Entries /\ nextId' = nextId
  BY EntriesKept DEF Crash, tables
<1>2. /\ Idle("none").call = Null /\ Idle("none").pc = "idle" /\ Idle("none").status = "none"
      /\ Phase("idle") = "idle"
  BY DEF Idle, Phase
<1>3. \A q \in Requests : RequestOf(q)' = Clients!Idle("none")
  BY <1>2 DEF Crash, RequestOf, Clients!Idle
<1>4. Clients!Crash
  BY <1>1, <1>3 DEF Clients!Crash, Entries
<1> QED
  BY <1>4 DEF Clients!Next

LEMMA InitForClients == Init => Clients!Init
<1> SUFFICES ASSUME Init PROVE Clients!Init
  OBVIOUS
<1>1. \A i \in Ids : EntryOf(i) = Null
  BY DEF Init, EntryOf
<1>2. /\ Idle("none").call = Null /\ Idle("none").pc = "idle" /\ Idle("none").status = "none"
      /\ Phase("idle") = "idle"
  BY DEF Idle, Phase
<1>3. \A q \in Requests : RequestOf(q) = Clients!Idle("none")
  BY <1>2 DEF Init, RequestOf, Clients!Idle
<1> QED
  BY <1>1, <1>3 DEF Init, Clients!Init

LEMMA StepForClients ==
  ASSUME IInv, OnPaths, [Next]_vars
  PROVE  Clients!Next \/ UNCHANGED <<Entries, nextId, ClientRequests>>
<1>1. TypeOK
  BY DEF IInv
<1>2. ASSUME NEW r \in Requests, Receive(r) \/ Step(r)
      PROVE  Clients!Next \/ UNCHANGED <<Entries, nextId, ClientRequests>>
  <2>1. CASE Receive(r)
    BY <1>1, <2>1, ReceiveForClients
  <2>2. CASE CheckServiceExists(r) \/ CheckName(r) \/ CheckVersionExists(r)
    BY <2>2, CheckForClients
  <2>3. CASE Write(r) \/ DeleteFindsNothing(r)
    BY <1>1, <2>3, CreateServiceForClients, UpdateServiceForClients, DeleteServiceForClients,
       CreateServiceVersionForClients, UpdateServiceVersionForClients,
       DeleteServiceVersionForClients, SubtractOnlyForClients DEF Write
  <2>4. CASE Read(r)
    BY <2>4, ReadForClients
  <2>5. CASE Signal(r) \/ DBError(r)
    BY <1>1, <2>5, SignalForClients
  <2> QED
    BY <1>2, <2>1, <2>2, <2>3, <2>4, <2>5 DEF Step
<1>3. CASE ViewsRefreshed \/ UNCHANGED vars
  <2>1. UNCHANGED tables /\ req' = req
    BY <1>3 DEF ViewsRefreshed, vars, tables
  <2>2. ClientRequests' = ClientRequests
    BY <2>1 DEF ClientRequests, RequestOf
  <2> QED
    BY <2>1, <2>2, EntriesKept DEF tables
<1> QED
  BY <1>1, <1>2, <1>3, CrashForClients DEF Next

\* To its clients the catalogue is one map that requests read and change one at a time,
\* each once, whatever statements of theirs overlap, fail or lose their replies.
THEOREM CatalogueImplemented == Spec => ImplementsCatalogue
<1>1. Init => OnPaths
  BY DEF Init, Idle, OnPaths, OnPath
<1>2. IInv /\ OnPaths /\ [Next]_vars => OnPaths'
  BY OnPathsKept DEF IInv
<1>3. Init => Clients!Init
  BY InitForClients
<1>4. IInv /\ OnPaths /\ [Next]_vars => [Clients!Next]_(Clients!vars)
  BY StepForClients DEF Clients!vars, Entries, ClientRequests
<1> QED
  BY <1>1, <1>2, <1>3, <1>4, Invariance, PTL DEF Spec, ImplementsCatalogue, Clients!Spec

=============================================================================
