-------------------------- MODULE CatalogTransactions --------------------------
(***************************************************************************)
(* The writes of the catalogue, statement by statement: the transactions of*)
(* DeleteService, CreateServiceVersion and DeleteServiceVersion in         *)
(* internal/components/service/operations.go, and the locks that Postgres  *)
(* gives them and the single statements (READ COMMITTED, its default).     *)
(*                                                                         *)
(* The tables of ServiceCatalog hold what is committed.  A transaction     *)
(* keeps what it has locked in tx, and changes the tables when it commits. *)
(* A statement waits until nobody else holds what it needs; the last one   *)
(* commits, since nothing is waited for after it.  That a transaction so   *)
(* made of statements is one step of ServiceCatalog, or none, is what this *)
(* module shows.                                                           *)
(*                                                                         *)
(* A transaction, or a single write (which gorm makes a transaction of its *)
(* own), has a connection of the pool from its begin to its end; a check   *)
(* has one while it runs.  The rest of the program takes its connections   *)
(* from the same pool.                                                     *)
(***************************************************************************)
EXTENDS ServiceCatalog, Sequences

CONSTANT MaxOpenConn  \* DB_MAX_OPEN_CONN, the size of the pool

ASSUME MaxOpenConnAssumption == MaxOpenConn \in Nat \ {0}

VARIABLES tx,     \* the transaction of each request: the statements that are done,
                  \* and the versions of its service that it deletes or inserts
          conns,  \* the requests that have begun a transaction: each has a connection
          others  \* connections in use by listings, users and the refresh of the view

pool == <<conns, others>>
txVars == <<vars, tx, pool>>

NoTx == [done |-> 0, rows |-> {}]

TxInit == Init /\ tx = [r \in Requests |-> NoTx] /\ conns = {} /\ others = 0

----------------------------------------------------------------------------
(* The pool.                                                               *)

Free == Cardinality(conns) + others < MaxOpenConn

\* (A faulty variant: the statements in a transaction use ops.db in place of tx.)
FaultyConnected(r) == r \in conns /\ Free
\* The statements of a transaction use its connection.
Connected(r) == r \in conns

\* The rest of the program takes a connection, and gives it back: it never waits for a
\* second one, nor for a lock of this module.
OthersTake == Free /\ others' = others + 1 /\ UNCHANGED <<vars, tx, conns>>
OthersReturn == others > 0 /\ others' = others - 1 /\ UNCHANGED <<vars, tx, conns>>

----------------------------------------------------------------------------
(* The statements.  One that may have to wait at two points counts as two: *)
(* an UPDATE of a service locks its row, then enters its name in the unique*)
(* index; the DELETE of the versions fixes its rows when it starts, then   *)
(* locks them; the DELETE of a service locks its row, then looks for       *)
(* versions that still refer to it (the constraint has NO ACTION).         *)

StatementsOf(op) ==
  CASE op = "addService"           -> <<"insertService">>
    [] op = "updateService"        -> <<"updateRow", "enterName">>
    [] op = "deleteService"        -> <<"readVersions", "deleteVersions", "deleteRow",
                                        "checkReferences">>
    [] op = "addServiceVersion"    -> <<"insertVersion", "addOne">>
    [] op = "updateServiceVersion" -> <<"updateVersion">>
    [] op = "deleteServiceVersion" -> <<"deleteVersion", "subtractOne">>
    [] OTHER                       -> <<"read">>

\* (A faulty variant: the row of the service first.)
FaultyStatements(r) ==
  IF req[r].call.op = "deleteService"
    THEN <<"deleteRow", "readVersions", "deleteVersions", "checkReferences">>
    ELSE StatementsOf(req[r].call.op)
Statements(r) == StatementsOf(req[r].call.op)

InTx(r) == tx[r].done > 0
Writing(r) == At(r, "write") \/ At(r, "subtract")
NextStatement(r) == Statements(r)[tx[r].done + 1]
Done(r, s) == \E k \in 1..tx[r].done : Statements(r)[k] = s

----------------------------------------------------------------------------
(* Locks.                                                                  *)

\* Modes that exclude each other: FOR KEY SHARE of a foreign key, FOR NO KEY UPDATE of
\* an UPDATE, FOR UPDATE of a DELETE or an UPDATE of a column with a unique index.
Conflicting == {{"keyShare", "update"}, {"noKeyUpdate", "update"},
                {"noKeyUpdate"}, {"update"}}

Renames(r) == service[req[r].call.id].name # req[r].call.name
UpdateMode(r) == IF Renames(r) THEN "update" ELSE "noKeyUpdate"

\* The lock that r holds on the row of its service.
RowHeld(r) == CASE Done(r, "insertVersion") -> "keyShare"
                [] Done(r, "updateRow")     -> UpdateMode(r)
                [] Done(r, "deleteRow")     -> "update"
                [] OTHER                    -> "none"

\* The lock that the next statement of r needs on it.
RowWanted(r) ==
  LET next == NextStatement(r)
  IN  CASE next = "insertVersion"             -> "keyShare"
        [] next \in {"addOne", "subtractOne"} -> "noKeyUpdate"
        [] next = "updateRow"                 -> UpdateMode(r)
        [] next = "deleteRow"                 -> "update"
        [] OTHER                              -> "none"

\* The versions of its service that r has deleted or inserted,
VersionsHeld(r) ==
  IF NextStatement(r) = "deleteVersions" THEN {} ELSE tx[r].rows

FaultyReferences(r) == {}
\* those that still refer to the service it has deleted,
References(r) == VersionsOf(req[r].call.id) \ tx[r].rows

\* and those its next statement changes, or looks for in a unique or a foreign key.
VersionsWanted(r) ==
  LET next == NextStatement(r)
      there == VersionsOf(req[r].call.id)
  IN  CASE next = "insertVersion"                      -> {req[r].call.tag}
        [] next \in {"deleteVersion", "updateVersion"} -> there \cap {req[r].call.tag}
        [] next = "deleteVersions"                     -> there \cap tx[r].rows
        [] next = "checkReferences"                    -> References(r)
        [] OTHER                                       -> {}

\* r enters its name in the index, and q is changing or deleting the row that has it.
AwaitsName(r, q) ==
  /\ \/ NextStatement(r) = "insertService"
     \/ NextStatement(r) = "enterName" /\ Renames(r)
  /\ Done(q, "updateRow") \/ Done(q, "deleteRow")
  /\ service[req[q].call.id] # Null
  /\ service[req[q].call.id].name = req[r].call.name

AwaitsRow(r, q) ==
  /\ req[r].call.id = req[q].call.id
  /\ \/ VersionsWanted(r) \cap VersionsHeld(q) # {}
     \/ /\ req[r].call.id \in Ids
        /\ service[req[r].call.id] # Null
        /\ {RowWanted(r), RowHeld(q)} \in Conflicting

\* The requests whose transactions r waits for.
Blockers(r) == {q \in Requests \ {r} : InTx(q) /\ (AwaitsName(r, q) \/ AwaitsRow(r, q))}

Ready(r, s) ==
  /\ Writing(r) /\ Connected(r) /\ UNCHANGED others
  /\ NextStatement(r) = s /\ Blockers(r) = {}

\* The statement is done; the transaction holds these versions and goes on.
Proceed(r, rows) == /\ tx' = [tx EXCEPT ![r] = [done |-> @.done + 1, rows |-> rows]]
                    /\ UNCHANGED conns
\* It is over, and its connection goes back to the pool.
Ends(r) == tx' = [tx EXCEPT ![r] = NoTx] /\ conns' = conns \ {r}

\* A statement is refused, and the transaction rolled back.
Refused(r, status) == Answer(r, status) /\ Ends(r)

----------------------------------------------------------------------------
(* Single statements.                                                      *)

InsertService(r) == Ready(r, "insertService") /\ CreateService(r) /\ Ends(r)

UpdateRow(r) ==
  /\ Ready(r, "updateRow")
  /\ \/ service[req[r].call.id] # Null /\ Proceed(r, {}) /\ UNCHANGED req
     \/ service[req[r].call.id] = Null /\ Ends(r) /\ Committed(r)
  /\ UNCHANGED <<tables, toRefreshViews>>

EnterName(r) == Ready(r, "enterName") /\ UpdateService(r) /\ Ends(r)

UpdateVersion(r) == Ready(r, "updateVersion") /\ UpdateServiceVersion(r) /\ Ends(r)

----------------------------------------------------------------------------
(* The transaction of DeleteService.                                       *)

ReadVersions(r) ==
  /\ Ready(r, "readVersions")
  /\ Proceed(r, VersionsOf(req[r].call.id))
  /\ UNCHANGED vars

\* A version that another transaction has deleted meanwhile is skipped.
DeleteVersions(r) ==
  /\ Ready(r, "deleteVersions")
  /\ Proceed(r, tx[r].rows \cap VersionsOf(req[r].call.id))
  /\ UNCHANGED vars

DeleteRow(r) ==
  /\ Ready(r, "deleteRow")
  /\ Proceed(r, tx[r].rows)
  /\ UNCHANGED vars

\* A version added since the first DELETE read its rows still refers to the service:
\* the second is refused.
CheckReferences(r) ==
  /\ Ready(r, "checkReferences")
  /\ \/ /\ References(r) = {}
        /\ version' = [version EXCEPT ![req[r].call.id] =
                         [t \in Tags |-> IF t \in tx[r].rows THEN Null ELSE @[t]]]
        /\ service' = [service EXCEPT ![req[r].call.id] = Null]
        /\ Committed(r)
        /\ Ends(r)
     \/ /\ References(r) # {}
        /\ Refused(r, "internal")
        /\ UNCHANGED <<service, version>>
  /\ UNCHANGED <<nextId, toRefreshViews>>

----------------------------------------------------------------------------
(* The transactions of CreateServiceVersion and DeleteServiceVersion.      *)

InsertVersion(r) ==
  /\ Ready(r, "insertVersion")
  /\ LET call == req[r].call
         duplicate == version[call.id][call.tag] # Null
     IN  \/ duplicate /\ Refused(r, "conflict")
         \/ ~duplicate /\ ForeignKeyViolated(call.id) /\ Refused(r, "internal")
         \/ /\ ~duplicate /\ ~ForeignKeyViolated(call.id)
            /\ Proceed(r, {call.tag})
            /\ UNCHANGED req
  /\ UNCHANGED <<tables, toRefreshViews>>

AddOne(r) ==
  /\ Ready(r, "addOne")
  /\ LET call == req[r].call
     IN  /\ version' = [version EXCEPT ![call.id][call.tag] = call.text]
         /\ service' = [service EXCEPT ![call.id] = InsertedCount(@)]
  /\ Committed(r)
  /\ Ends(r)
  /\ UNCHANGED <<nextId, toRefreshViews>>

DeleteVersion(r) ==
  /\ Ready(r, "deleteVersion")
  /\ \/ /\ req[r].call.tag \in VersionsOf(req[r].call.id)
        /\ Proceed(r, {req[r].call.tag})
        /\ UNCHANGED vars
     \/ DeleteFindsNothing(r) /\ Proceed(r, {})

SubtractOne(r) ==
  /\ Ready(r, "subtractOne")
  /\ LET i == req[r].call.id
     IN  /\ CountMayDrop(i)
         /\ version' = [version EXCEPT ![i] =
                          [t \in Tags |-> IF t \in tx[r].rows THEN Null ELSE @[t]]]
         /\ service' = [service EXCEPT ![i] = DeletedCount(@)]
  /\ Committed(r)
  /\ Ends(r)
  /\ UNCHANGED <<nextId, toRefreshViews>>

\* BEGIN, as soon as there is a connection.
Begin(r) == /\ Writing(r) /\ r \notin conns /\ Free
            /\ conns' = conns \cup {r}
            /\ UNCHANGED <<vars, tx, others>>

Statement(r) ==
  \/ InsertService(r) \/ UpdateRow(r) \/ EnterName(r) \/ UpdateVersion(r)
  \/ ReadVersions(r) \/ DeleteVersions(r) \/ DeleteRow(r) \/ CheckReferences(r)
  \/ InsertVersion(r) \/ AddOne(r) \/ DeleteVersion(r) \/ SubtractOne(r)

----------------------------------------------------------------------------
(* The rest of a request, as in ServiceCatalog.                            *)

OutsideTx(r) ==
  /\ \/ Signal(r)
     \/ Free /\ (CheckServiceExists(r) \/ CheckName(r) \/ CheckVersionExists(r) \/ Read(r))
  /\ UNCHANGED <<tx, pool>>

\* A statement fails, loses its connection or is the victim of a deadlock.
Rollback(r) == DBError(r) /\ Ends(r) /\ UNCHANGED others

TxStep(r) == OutsideTx(r) \/ Begin(r) \/ Statement(r) \/ Rollback(r)

\* The database rolls back what the process had not committed.
TxCrash == Crash /\ tx' = [r \in Requests |-> NoTx] /\ conns' = {} /\ others' = 0

TxNext == \/ \E r \in Requests : (Receive(r) /\ UNCHANGED <<tx, pool>>) \/ TxStep(r)
          \/ ViewsRefreshed /\ UNCHANGED <<tx, pool>>
          \/ OthersTake \/ OthersReturn
          \/ TxCrash

TxSpec == TxInit /\ [][TxNext]_txVars

\* Requests each of which waits for another of them.
Deadlock(D) == D # {} /\ \A r \in D : Writing(r) /\ Blockers(r) \cap D # {}
Deadlocked(r) == \E D \in SUBSET Requests : r \in D /\ Deadlock(D)

\* A bound keeps r from writing.
OutOfBounds(r) == \/ Running(r, "addService") /\ nextId \notin Ids
                  \/ /\ Writing(r) /\ NextStatement(r) = "subtractOne"
                     /\ ~CountMayDrop(req[r].call.id)

\* A handler goes on, a connection and the locks of a statement are got in the end (they
\* are queued for), the rest of the program gives its connections back, and the database
\* breaks a deadlock after deadlock_timeout.  (What a bound stops fails.)
TxFairness ==
  /\ WF_txVars(OthersReturn)
  /\ \A r \in Requests : /\ SF_txVars(OutsideTx(r) \/ Begin(r) \/ Statement(r))
                         /\ SF_txVars((Deadlocked(r) \/ OutOfBounds(r)) /\ Rollback(r))

FairTxSpec == TxSpec /\ TxFairness

----------------------------------------------------------------------------
(* Properties.                                                             *)

\* A transaction, made of statements among which those of others fall, is one step of
\* the catalogue or none: its locks and constraints leave nothing half done, lost or
\* seen twice.
ImplementsServiceCatalog == Spec

\* Row locks alone never deadlock: every transaction takes the versions before the row
\* of the service.  Requests wait for each other at a constraint, in two ways only.  A
\* DeleteService looks for versions that refer to its service, and another deletion holds
\* one and wants the row: it was added after the DELETE of the versions had read them.
\* Or renames go round, each with a row whose name the next one enters.
DeadlockOnlyAtConstraint ==
  \A D \in SUBSET Requests :
    Deadlock(D) =>
      \/ \E r, q \in D : /\ NextStatement(r) = "checkReferences"
                        /\ NextStatement(q) \in {"deleteRow", "subtractOne"}
                        /\ Deadlock({r, q})
      \/ Deadlock({r \in D : NextStatement(r) = "enterName"})

\* Nobody waits in vain for a lock or for the pool: when transactions are open, or the pool
\* is used up by nobody else, one of those who have a connection can go on, or they all
\* wait for each other's locks, which the database sees and breaks.
NobodyWaitsInVain ==
  conns # {} \/ (~Free /\ others = 0) =>
    \/ \E r \in conns : Connected(r) /\ Blockers(r) = {}
    \/ Deadlock(conns)

\* Every request is answered, whatever it waits for: a lock or a connection is never kept
\* by a transaction that is over, a deadlock is broken, and at the limit of the pool those
\* who have its connections never wait for one more.
RequestsEnd == \A r \in Requests : ~At(r, "idle") ~> At(r, "idle")

=============================================================================
