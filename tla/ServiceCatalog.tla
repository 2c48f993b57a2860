--------------------------- MODULE ServiceCatalog ---------------------------
(***************************************************************************)
(* The catalogue of services and versions: the request handlers of         *)
(* internal/components/service/handlers.go and the operations they call in *)
(* operations.go, over the tables "service" and "version" of Postgres.     *)
(*                                                                         *)
(* A handler runs several database statements one after the other, and     *)
(* nothing but the database is shared with the other handlers, so a request*)
(* takes one step per statement (or per transaction), and the steps of     *)
(* different requests interleave.  The flag toRefreshViews is raised in a  *)
(* step of its own after the commit.                                       *)
(*                                                                         *)
(* What the database does (unique and foreign keys, an UPDATE or a DELETE  *)
(* that matches no row and reports no error, fields skipped because they   *)
(* hold a zero value) is what gorm and Postgres do with those calls.       *)
(***************************************************************************)
EXTENDS Integers, FiniteSets

CONSTANTS Requests,      \* the requests that may be in flight at once
          Names,         \* non-empty service names
          Descriptions,  \* non-empty descriptions
          Tags,          \* non-empty version tags
          Infos,         \* non-empty version infos
          Empty,         \* the empty string
          Null,          \* no row, no value
          Workload,      \* the operations clients call
          MaxServiceId,  \* bound: ids the sequence of "service" hands out
          MaxDrift       \* bound: how far below zero a version count may go

Operations == {"getService", "addService", "updateService", "deleteService",
               "getServiceVersion", "addServiceVersion", "updateServiceVersion",
               "deleteServiceVersion"}

Ids == 1..MaxServiceId

ServiceRow == [name : Names, description : Descriptions \cup {Empty},
               versionCount : Int]

\* What clients see of a service.
Entry == [name : Names, tags : SUBSET Tags]

ASSUME BoundAssumption == MaxServiceId \in Nat \ {0} /\ MaxDrift \in Nat
ASSUME WorkloadAssumption == Workload \subseteq Operations
ASSUME TagsAssumption == IsFiniteSet(Tags)
ASSUME EmptyAssumption == Empty \notin Names \cup Tags
ASSUME NullAssumption == /\ Null \notin ServiceRow /\ Null \notin Entry
                         /\ Null \notin Infos \cup {Empty}
                         /\ Null \notin Ids

(***************************************************************************)
(* What a client may ask for.  The name and the tag may be empty; an       *)
(* unused parameter is Null.                                               *)
(***************************************************************************)
Call(op, ids, names, texts, tags) ==
  [op : {op}, id : ids, name : names, text : texts, tag : tags]

GetServiceCalls ==
  Call("getService", Ids, {Null}, {Null}, {Null})
AddServiceCalls ==
  Call("addService", {Null}, Names \cup {Empty}, Descriptions \cup {Empty}, {Null})
UpdateServiceCalls ==
  Call("updateService", Ids, Names \cup {Empty}, Descriptions \cup {Empty}, {Null})
DeleteServiceCalls ==
  Call("deleteService", Ids, {Null}, {Null}, {Null})
GetServiceVersionCalls ==
  Call("getServiceVersion", Ids, {Null}, {Null}, Tags)
AddServiceVersionCalls ==
  Call("addServiceVersion", Ids, {Null}, Infos \cup {Empty}, Tags \cup {Empty})
UpdateServiceVersionCalls ==
  Call("updateServiceVersion", Ids, {Null}, Infos \cup {Empty}, Tags)
DeleteServiceVersionCalls ==
  Call("deleteServiceVersion", Ids, {Null}, {Null}, Tags)

Calls == UNION { GetServiceCalls, AddServiceCalls, UpdateServiceCalls, DeleteServiceCalls,
                 GetServiceVersionCalls, AddServiceVersionCalls,
                 UpdateServiceVersionCalls, DeleteServiceVersionCalls }

FaultyWellFormed(call) == TRUE
\* The handlers refuse an empty name or tag.
WellFormed(call) == call.name # Empty /\ call.tag # Empty

VARIABLES service,         \* table "service": a row for each id, or Null
          version,         \* table "version": an info for each (id, tag), or Null
          nextId,          \* the sequence of service.id
          req,             \* the requests: what was asked, the next step, the answer
          toRefreshViews   \* operations.toRefreshViews

tables == <<service, version, nextId>>
vars == <<service, version, nextId, req, toRefreshViews>>

PCs == {"idle", "serviceExists", "nameTaken", "versionExists", "read", "write",
        "subtract", "signal"}
Statuses == {"none", "ok", "badRequest", "notFound", "conflict", "internal"}

Idle(status) == [call |-> Null, pc |-> "idle", status |-> status]
InFlight == [call : {c \in Calls : WellFormed(c)}, pc : PCs \ {"idle"}, status : {"none"}]

Init == /\ service = [i \in Ids |-> Null]
        /\ version = [i \in Ids |-> [t \in Tags |-> Null]]
        /\ nextId = 1
        /\ req = [r \in Requests |-> Idle("none")]
        /\ toRefreshViews = FALSE

At(r, pc) == req[r].pc = pc
Running(r, op) == At(r, "write") /\ req[r].call.op = op

Goto(r, pc) == req' = [req EXCEPT ![r].pc = pc]
Answer(r, status) == req' = [req EXCEPT ![r] = Idle(status)]

----------------------------------------------------------------------------
(* Queries over the tables. *)

\* Some service other than id has this name; a new service passes id = Null.
NameTaken(name, id) ==
  \E i \in Ids \ {id} : service[i] # Null /\ service[i].name = name

VersionsOf(i) == {t \in Tags : version[i][t] # Null}
CountExact(i) == service[i].versionCount = Cardinality(VersionsOf(i))

----------------------------------------------------------------------------
(* Faulty variants: what a plausible slip in the code would turn the       *)
(* definitions below into.  No specification uses them; each is put in the *)
(* place of the definition it is named after to see a property fail.       *)

FaultyUniqueKeyViolated(name, id) == FALSE
FaultyForeignKeyViolated(id) == FALSE
FaultyInsertedCount(row) == row
FaultyDeletedCount(row) == row
FaultyUpdatedService(row, call) ==
  [name |-> call.name, description |-> call.text, versionCount |-> 0]

----------------------------------------------------------------------------
(* The constraints of the tables, and what a write makes of a row.         *)

\* service.name is unique.
UniqueKeyViolated(name, id) == NameTaken(name, id)

\* version.service_id references service.id.
ForeignKeyViolated(id) == service[id] = Null

AddToCount(row, n) == IF row = Null THEN Null ELSE [row EXCEPT !.versionCount = @ + n]
InsertedCount(row) == AddToCount(row, 1)
DeletedCount(row) == AddToCount(row, -1)

\* Updates(struct) writes no field that holds its zero value, and an UPDATE of a
\* row that is gone changes nothing and reports no error.
UpdatedField(old, new) == IF new = Empty THEN old ELSE new
UpdatedService(row, call) ==
  IF row = Null
    THEN Null
    ELSE [row EXCEPT !.name = call.name,
                     !.description = UpdatedField(row.description, call.text)]
UpdatedVersion(old, info) == IF old = Null THEN Null ELSE UpdatedField(old, info)

----------------------------------------------------------------------------
(* The steps of a handler before it writes.                                *)

FirstStep == [op \in Operations |-> CASE op = "getService" -> "read"
                                      [] op = "addService" -> "nameTaken"
                                      [] OTHER -> "serviceExists"]

AfterServiceExists ==
  [op \in Operations |-> CASE op = "updateService" -> "nameTaken"
                           [] op = "deleteService" -> "write"
                           [] op = "getServiceVersion" -> "read"
                           [] OTHER -> "versionExists"]

\* A request arrives; the handler rejects an empty name or tag by itself.
Receive(r) ==
  /\ At(r, "idle")
  /\ \E call \in Calls :
       /\ call.op \in Workload
       /\ IF WellFormed(call)
            THEN req' = [req EXCEPT ![r] = [call |-> call, pc |-> FirstStep[call.op],
                                            status |-> "none"]]
            ELSE Answer(r, "badRequest")
  /\ UNCHANGED <<tables, toRefreshViews>>

CheckServiceExists(r) ==
  /\ At(r, "serviceExists")
  /\ IF service[req[r].call.id] # Null
       THEN Goto(r, AfterServiceExists[req[r].call.op])
       ELSE Answer(r, "notFound")
  /\ UNCHANGED <<tables, toRefreshViews>>

CheckName(r) ==
  /\ At(r, "nameTaken")
  /\ IF NameTaken(req[r].call.name, req[r].call.id)
       THEN Answer(r, "conflict")
       ELSE Goto(r, "write")
  /\ UNCHANGED <<tables, toRefreshViews>>

CheckVersionExists(r) ==
  /\ At(r, "versionExists")
  /\ LET exists == version[req[r].call.id][req[r].call.tag] # Null
         adding == req[r].call.op = "addServiceVersion"
     IN  \/ exists # adding /\ Goto(r, "write")
         \/ exists /\ adding /\ Answer(r, "conflict")
         \/ ~exists /\ ~adding /\ Answer(r, "notFound")
  /\ UNCHANGED <<tables, toRefreshViews>>

\* The row is read in one statement; that of a version whatever the service is by now.
Found(call) == IF call.op = "getService" THEN service[call.id] # Null
                                         ELSE version[call.id][call.tag] # Null
Read(r) ==
  /\ At(r, "read")
  /\ Answer(r, IF Found(req[r].call) THEN "ok" ELSE "notFound")
  /\ UNCHANGED <<tables, toRefreshViews>>

----------------------------------------------------------------------------
(* The writes.  The effect of a write is on the tables whether its         *)
(* acknowledgement reaches the handler or not: a commit whose reply is lost*)
(* is answered with an internal error and raises no flag.                  *)

\* (A faulty variant that runs the transaction again when its reply is lost.)
FaultyCommitted(r) == Goto(r, "signal") \/ Goto(r, "write")
Committed(r) == Goto(r, "signal") \/ Answer(r, "internal")

\* The bound on the drift of a count.
CountMayDrop(i) == service[i] # Null => service[i].versionCount > -MaxDrift

\* INSERT: a duplicate name is refused by the unique key, and uses up an id.
CreateService(r) ==
  /\ Running(r, "addService")
  /\ nextId \in Ids
  /\ nextId' = nextId + 1
  /\ \/ /\ NameTaken(req[r].call.name, Null)
        /\ Answer(r, "conflict")
        /\ UNCHANGED service
     \/ /\ ~UniqueKeyViolated(req[r].call.name, Null)
        /\ service' = [service EXCEPT ![nextId] =
                         [name |-> req[r].call.name, description |-> req[r].call.text,
                          versionCount |-> 0]]
        /\ Committed(r)
  /\ UNCHANGED <<version, toRefreshViews>>

\* UPDATE ... WHERE id: the unique key can refuse it only if there is a row to change.
UpdateService(r) ==
  /\ Running(r, "updateService")
  /\ LET call == req[r].call
         refused == service[call.id] # Null /\ UniqueKeyViolated(call.name, call.id)
     IN  \/ refused /\ Answer(r, "conflict") /\ UNCHANGED service
         \/ /\ ~refused
            /\ service' = [service EXCEPT ![call.id] = UpdatedService(@, call)]
            /\ Committed(r)
  /\ UNCHANGED <<version, nextId, toRefreshViews>>

\* One transaction deletes the versions and then the service; a service that is
\* gone is deleted once more, with no error.
DeleteService(r) ==
  /\ Running(r, "deleteService")
  /\ version' = [version EXCEPT ![req[r].call.id] = [t \in Tags |-> Null]]
  /\ service' = [service EXCEPT ![req[r].call.id] = Null]
  /\ Committed(r)
  /\ UNCHANGED <<nextId, toRefreshViews>>

\* One transaction inserts the version (unique on service and tag, foreign key
\* to the service) and adds one to the count of the service.
CreateServiceVersion(r) ==
  /\ Running(r, "addServiceVersion")
  /\ LET call == req[r].call
         duplicate == version[call.id][call.tag] # Null
     IN  \/ /\ duplicate
            /\ Answer(r, "conflict")
            /\ UNCHANGED <<service, version>>
         \/ /\ ~duplicate /\ ForeignKeyViolated(call.id)
            /\ Answer(r, "internal")
            /\ UNCHANGED <<service, version>>
         \/ /\ ~duplicate /\ ~ForeignKeyViolated(call.id)
            /\ version' = [version EXCEPT ![call.id][call.tag] = call.text]
            /\ service' = [service EXCEPT ![call.id] = InsertedCount(@)]
            /\ Committed(r)
  /\ UNCHANGED <<nextId, toRefreshViews>>

\* UPDATE of the info, of no row at all if the version is gone; no flag is raised.
UpdateServiceVersion(r) ==
  /\ Running(r, "updateServiceVersion")
  /\ LET call == req[r].call
     IN  version' = [version EXCEPT ![call.id][call.tag] = UpdatedVersion(@, call.text)]
  /\ Answer(r, "ok") \/ Answer(r, "internal")
  /\ UNCHANGED <<service, nextId, toRefreshViews>>

\* One transaction deletes the version and subtracts one from the count.
DeleteServiceVersion(r) ==
  /\ Running(r, "deleteServiceVersion")
  /\ LET call == req[r].call
     IN  /\ version[call.id][call.tag] # Null
         /\ CountMayDrop(call.id)
         /\ version' = [version EXCEPT ![call.id][call.tag] = Null]
         /\ service' = [service EXCEPT ![call.id] = DeletedCount(@)]
  /\ Committed(r)
  /\ UNCHANGED <<nextId, toRefreshViews>>

\* Its DELETE finds the version gone, which is no error.  It holds no row, so the
\* version may come back before the transaction goes on,
DeleteFindsNothing(r) ==
  /\ Running(r, "deleteServiceVersion")
  /\ version[req[r].call.id][req[r].call.tag] = Null
  /\ Goto(r, "subtract")
  /\ UNCHANGED <<tables, toRefreshViews>>

\* and subtracts one all the same.
SubtractOnly(r) ==
  /\ At(r, "subtract")
  /\ CountMayDrop(req[r].call.id)
  /\ service' = [service EXCEPT ![req[r].call.id] = DeletedCount(@)]
  /\ Committed(r)
  /\ UNCHANGED <<version, nextId, toRefreshViews>>

Write(r) == \/ CreateService(r) \/ UpdateService(r) \/ DeleteService(r)
            \/ CreateServiceVersion(r) \/ UpdateServiceVersion(r)
            \/ DeleteServiceVersion(r) \/ SubtractOnly(r)

\* (A faulty variant that forgets the flag.)
FaultySignal(r) ==
  /\ At(r, "signal")
  /\ Answer(r, "ok")
  /\ UNCHANGED <<tables, toRefreshViews>>

\* After the commit: the flag is raised under the mutex, then the answer is sent.
Signal(r) ==
  /\ At(r, "signal")
  /\ toRefreshViews' = TRUE
  /\ Answer(r, "ok")
  /\ UNCHANGED tables

\* A statement fails (or its transaction is rolled back) and changes nothing.
DBError(r) ==
  /\ req[r].pc \notin {"idle", "signal"}
  /\ Answer(r, "internal")
  /\ UNCHANGED <<tables, toRefreshViews>>

\* The view goroutine (module ViewSync) takes the flag down.
ViewsRefreshed ==
  /\ toRefreshViews
  /\ toRefreshViews' = FALSE
  /\ UNCHANGED <<tables, req>>

\* The process dies and starts again: the tables survive, nothing else does.
Crash ==
  /\ req' = [r \in Requests |-> Idle("none")]
  /\ toRefreshViews' = FALSE
  /\ UNCHANGED tables

Step(r) == \/ CheckServiceExists(r) \/ CheckName(r) \/ CheckVersionExists(r) \/ Read(r)
           \/ DeleteFindsNothing(r) \/ Write(r) \/ Signal(r) \/ DBError(r)

Next == (\E r \in Requests : Receive(r) \/ Step(r)) \/ ViewsRefreshed \/ Crash

Spec == Init /\ [][Next]_vars

----------------------------------------------------------------------------
(* Properties.                                                             *)

\* Every variable has its type: rows hold a non-empty name, requests in flight
\* passed the checks of their handler.
TypeOK == /\ service \in [Ids -> ServiceRow \cup {Null}]
          /\ version \in [Ids -> [Tags -> Infos \cup {Empty, Null}]]
          /\ nextId \in 1..(MaxServiceId + 1)
          /\ req \in [Requests -> InFlight \cup {Idle(s) : s \in Statuses}]
          /\ toRefreshViews \in BOOLEAN

\* No two services have the same name, although CreateService and UpdateService
\* look for the name in one statement and write it in another.
NamesUnique ==
  \A i, j \in Ids : service[i] # Null /\ service[j] # Null /\ service[i].name = service[j].name
                      => i = j

\* A service that is not there (deleted, or never created) has no versions, although
\* addServiceVersion checks for the service well before it inserts the version.
NoOrphanVersions == \A i \in Ids : service[i] = Null => VersionsOf(i) = {}

\* The precomputed count of a service never promises more versions than there are:
\* whatever overlaps, CreateServiceVersion adds at most one for each row it inserts
\* and DeleteServiceVersion subtracts one at least for each row it deletes.
CountNeverOverstates ==
  \A i \in Ids : service[i] # Null => service[i].versionCount <= Cardinality(VersionsOf(i))

\* The precomputed count is the number of versions (models.Service: "VersionCount
\* is precomputed and maintain").
VersionCountExact == \A i \in Ids : service[i] # Null => CountExact(i)

\* The count of a service stops being exact in one way only: DeleteServiceVersion
\* commits although its DELETE found gone the version that its check had found.
CountDriftsOnlyByRacedDelete ==
  [][\A i \in Ids :
       (service[i] # Null /\ service'[i] # Null /\ CountExact(i) /\ ~CountExact(i)')
         => \E r \in Requests : At(r, "subtract") /\ req[r].call.id = i]_vars

\* A deleted service stays deleted: no update, version request or restart that
\* was under way when it was deleted brings its row back.
DeletedStaysDeleted ==
  [][\A i \in Ids : i < nextId /\ service[i] = Null => service'[i] = Null]_vars

\* The catalogue that clients see: names and tags, and requests that are open until they
\* have taken effect.  A delete of a version has once its DELETE finds the version gone.
EntryOf(i) ==
  IF service[i] = Null THEN Null ELSE [name |-> service[i].name, tags |-> VersionsOf(i)]
Phase(pc) == CASE pc = "idle" -> "idle" [] pc \in {"subtract", "signal"} -> "done"
               [] OTHER -> "open"
RequestOf(r) == [call |-> req[r].call, phase |-> Phase(req[r].pc), answer |-> req[r].status]

Clients == INSTANCE Catalogue
             WITH Calls <- {call \in Calls : WellFormed(call)},
                  entry <- [i \in Ids |-> EntryOf(i)],
                  request <- [r \in Requests |-> RequestOf(r)]

\* Although a handler checks in one statement and writes in another, every request takes
\* effect once and at one moment if it is answered with success, and not at all if it is
\* refused; and a conflict or a "does not exist" is so at the moment of the answer.
ImplementsCatalogue == Clients!Spec

\* An update answered with success found its service: UpdateService means to answer
\* "does not exist" on a concurrent deletion.
UpdateReportsDeletion ==
  [][\A r \in Requests : Running(r, "updateService") /\ req'[r].pc = "signal"
                            => service[req[r].call.id] # Null]_vars

=============================================================================
