---------------------- MODULE CatalogTransactionsProofs ----------------------
(***************************************************************************)
(* Theorems about CatalogTransactions, for any number of requests: its     *)
(* transactions are the single steps of ServiceCatalog, and its deadlocks  *)
(* are at constraints.                                                     *)
(***************************************************************************)
EXTENDS CatalogTransactions, ServiceCatalogProofs

----------------------------------------------------------------------------
(* The inductive invariant: how far each transaction may be, what the locks*)
(* of one transaction keep true, and what two transactions never hold      *)
(* together.                                                               *)

Inserting(r) == InTx(r) /\ At(r, "write") /\ req[r].call.op = "addServiceVersion"
Deleting(r) == InTx(r) /\ At(r, "write") /\ req[r].call.op = "deleteServiceVersion"
Dropping(r) == tx[r].done = 3

Held(r) ==
  IF InTx(r) /\ ~(req[r].call.op = "deleteService" /\ tx[r].done = 1)
    THEN tx[r].rows
    ELSE {}

Progress(r) ==
  /\ At(r, "subtract") => InTx(r)
  /\ ~InTx(r) => tx[r].rows = {}
  /\ InTx(r) =>
       \/ At(r, "write") /\ req[r].call.op = "updateService" /\ tx[r].done = 1
       \/ At(r, "write") /\ req[r].call.op = "deleteService" /\ tx[r].done \in 1..3
       \/ /\ At(r, "write") /\ req[r].call.op = "addServiceVersion"
          /\ tx[r].done = 1 /\ tx[r].rows = {req[r].call.tag}
       \/ /\ At(r, "write") /\ req[r].call.op = "deleteServiceVersion"
          /\ tx[r].done = 1 /\ tx[r].rows = {req[r].call.tag}
       \/ /\ At(r, "subtract") /\ req[r].call.op = "deleteServiceVersion"
          /\ tx[r].done = 1 /\ tx[r].rows = {}

Stands(r) ==
  /\ Inserting(r) => /\ service[req[r].call.id] # Null
                     /\ version[req[r].call.id][req[r].call.tag] = Null
  /\ Deleting(r) => version[req[r].call.id][req[r].call.tag] # Null

Apart(r, q) ==
  InTx(r) /\ InTx(q) /\ req[r].call.id = req[q].call.id =>
    /\ ~(Inserting(r) /\ Dropping(q))
    /\ Held(r) \cap Held(q) = {}

TxType == tx \in [Requests -> [done : Nat, rows : SUBSET Tags]]

TxInv == /\ TypeOK
         /\ TxType
         /\ \A r \in Requests : Progress(r) /\ Stands(r)
         /\ \A r, q \in Requests : r # q => Apart(r, q)

----------------------------------------------------------------------------
(* Statements: which one comes next.                                       *)

IsAt(r, op, done, s) ==
  req[r].call.op = op /\ tx[r].done = done /\ NextStatement(r) = s

LEMMA NextStatementCases ==
  ASSUME TypeOK, TxType, NEW r \in Requests, Progress(r), Writing(r)
  PROVE  \/ IsAt(r, "addService", 0, "insertService")
         \/ IsAt(r, "updateService", 0, "updateRow")
         \/ IsAt(r, "updateService", 1, "enterName")
         \/ IsAt(r, "deleteService", 0, "readVersions")
         \/ IsAt(r, "deleteService", 1, "deleteVersions")
         \/ IsAt(r, "deleteService", 2, "deleteRow")
         \/ IsAt(r, "deleteService", 3, "checkReferences")
         \/ IsAt(r, "addServiceVersion", 0, "insertVersion")
         \/ IsAt(r, "addServiceVersion", 1, "addOne")
         \/ IsAt(r, "updateServiceVersion", 0, "updateVersion")
         \/ IsAt(r, "deleteServiceVersion", 0, "deleteVersion")
         \/ IsAt(r, "deleteServiceVersion", 1, "subtractOne")
         \/ tx[r].done = 0 /\ NextStatement(r) = "read"
<1>1. req[r].call \in Calls /\ WellFormed(req[r].call)
  BY InFlightRequest DEF TypeOK, ReqType, Writing, At
<1>2. req[r].call.op \in Operations
  BY <1>1, CallParameters
<1>3. tx[r].done \in Nat
  BY DEF TxType
<1>4. tx[r].done = 0 \/ InTx(r)
  BY <1>3 DEF InTx
<1>5. CASE tx[r].done = 0
  <2>1. NextStatement(r) = StatementsOf(req[r].call.op)[1]
    BY <1>5 DEF NextStatement, Statements
  <2> QED
    BY <1>2, <1>5, <2>1 DEF Operations, StatementsOf, IsAt
<1>6. CASE InTx(r)
  <2>1. tx[r].done \in {1, 2, 3}
    BY <1>6 DEF Progress
  <2>2. NextStatement(r) = StatementsOf(req[r].call.op)[tx[r].done + 1]
    BY DEF NextStatement, Statements
  <2>3. CASE req[r].call.op = "updateService" /\ tx[r].done = 1
    <3>1. StatementsOf(req[r].call.op)[2] = "enterName"
      BY <2>3 DEF StatementsOf
    <3> QED
      BY <2>2, <2>3, <3>1 DEF IsAt
  <2>4. CASE req[r].call.op = "deleteService"
    <3>1. StatementsOf(req[r].call.op)
            = <<"readVersions", "deleteVersions", "deleteRow", "checkReferences">>
      BY <2>4 DEF StatementsOf
    <3> QED
      BY <2>1, <2>2, <2>4, <3>1 DEF IsAt
  <2>5. CASE req[r].call.op = "addServiceVersion" /\ tx[r].done = 1
    <3>1. StatementsOf(req[r].call.op)[2] = "addOne"
      BY <2>5 DEF StatementsOf
    <3> QED
      BY <2>2, <2>5, <3>1 DEF IsAt
  <2>6. CASE req[r].call.op = "deleteServiceVersion" /\ tx[r].done = 1
    <3>1. StatementsOf(req[r].call.op)[2] = "subtractOne"
      BY <2>6 DEF StatementsOf
    <3> QED
      BY <2>2, <2>6, <3>1 DEF IsAt
  <2> QED
    BY <1>6, <2>3, <2>4, <2>5, <2>6 DEF Progress
<1> QED
  BY <1>4, <1>5, <1>6

LEMMA DoneCases ==
  ASSUME TypeOK, TxType, NEW r \in Requests, Progress(r), InTx(r)
  PROVE  /\ Writing(r)
         /\ Done(r, "insertVersion") <=> Inserting(r)
         /\ Done(r, "updateRow") <=> req[r].call.op = "updateService"
         /\ Done(r, "deleteRow") <=> Dropping(r)
         /\ Dropping(r) => req[r].call.op = "deleteService"
<1> DEFINE S == StatementsOf(req[r].call.op)
<1>1. Writing(r)
  BY DEF Progress, Writing
<1>2. \A s : Done(r, s) <=> \E k \in 1..tx[r].done : S[k] = s
  BY DEF Done, Statements
<1>3. CASE tx[r].done = 1
  <2>1. \A s : Done(r, s) <=> S[1] = s
    BY <1>2, <1>3
  <2> QED
    BY <1>1, <1>3, <2>1 DEF Progress, StatementsOf, Inserting, Dropping
<1>4. CASE tx[r].done \in {2, 3} /\ req[r].call.op = "deleteService"
  <2>1. S = <<"readVersions", "deleteVersions", "deleteRow", "checkReferences">>
    BY <1>4 DEF StatementsOf
  <2> HIDE DEF S
  <2>2. CASE tx[r].done = 2
    <3>1. \A s : Done(r, s) <=> S[1] = s \/ S[2] = s
      BY <1>2, <2>2
    <3> QED
      BY <1>1, <1>4, <2>1, <2>2, <3>1 DEF Inserting, Dropping
  <2>3. CASE tx[r].done = 3
    <3>1. \A s : Done(r, s) <=> S[1] = s \/ S[2] = s \/ S[3] = s
      BY <1>2, <2>3
    <3> QED
      BY <1>1, <1>4, <2>1, <2>3, <3>1 DEF Inserting, Dropping
  <2> QED
    BY <1>4, <2>2, <2>3
<1> QED
  BY <1>3, <1>4 DEF Progress

----------------------------------------------------------------------------
(* The frame of a step: the other transactions.                            *)

LEMMA OthersKeep ==
  ASSUME NEW q \in Requests, req'[q] = req[q], tx'[q] = tx[q]
  PROVE  /\ Progress(q)' <=> Progress(q)
         /\ InTx(q)' <=> InTx(q)
         /\ Inserting(q)' <=> Inserting(q)
         /\ Deleting(q)' <=> Deleting(q)
         /\ Dropping(q)' <=> Dropping(q)
         /\ Held(q)' = Held(q)
<1>1. InTx(q)' <=> InTx(q)
  BY DEF InTx
<1>2. At(q, "write")' <=> At(q, "write")
  BY DEF At
<1>3. At(q, "subtract")' <=> At(q, "subtract")
  BY DEF At
<1>4. Held(q)' = Held(q)
  BY <1>1 DEF Held
<1> QED
  BY <1>1, <1>2, <1>3, <1>4 DEF Progress, Inserting, Deleting, Dropping

\* r is through with its transaction.
LEMMA EndedTxKeeps ==
  ASSUME TxInv, TypeOK', NEW r \in Requests, tx' = [tx EXCEPT ![r] = NoTx], req'[r].pc # "subtract",
         \A q \in Requests \ {r} : req'[q] = req[q] /\ Stands(q)'
  PROVE  TxInv'
<1>1. TxType'
  BY DEF TxInv, TxType, NoTx
<1>2. tx'[r] = NoTx /\ \A q \in Requests \ {r} : tx'[q] = tx[q]
  BY DEF TxInv, TxType
<1>3. ~InTx(r)' /\ tx'[r].rows = {}
  BY <1>2 DEF InTx, NoTx
<1>4. Progress(r)' /\ Stands(r)'
  BY <1>3 DEF Progress, Stands, Inserting, Deleting, At
<1>5. \A q \in Requests \ {r} : Progress(q)'
  BY <1>2, OthersKeep DEF TxInv
<1>6. ASSUME NEW q \in Requests, NEW p \in Requests, q # p PROVE Apart(q, p)'
  <2>1. CASE q = r \/ p = r
    BY <1>3, <2>1 DEF Apart
  <2>2. CASE q # r /\ p # r
    BY <1>2, <1>6, <2>2, OthersKeep DEF TxInv, Apart
  <2> QED
    BY <2>1, <2>2
<1> QED
  BY <1>1, <1>4, <1>5, <1>6 DEF TxInv

LEMMA EndedKeeps ==
  ASSUME TxInv, TypeOK', NEW r \in Requests, Ends(r), req'[r].pc # "subtract",
         \A q \in Requests \ {r} : req'[q] = req[q] /\ Stands(q)'
  PROVE  TxInv'
BY EndedTxKeeps DEF Ends

\* r goes on with its transaction, over tables that have not changed.
LEMMA ProceededKeeps ==
  ASSUME TxInv, TypeOK', NEW r \in Requests, NEW rows \in SUBSET Tags, Proceed(r, rows),
         UNCHANGED tables, \A q \in Requests \ {r} : req'[q] = req[q],
         Progress(r)', Stands(r)',
         \A q \in Requests \ {r} :
           InTx(q) /\ req[q].call.id = req'[r].call.id =>
             /\ ~(Inserting(r)' /\ Dropping(q))
             /\ ~(Inserting(q) /\ Dropping(r)')
             /\ Held(r)' \cap Held(q) = {}
  PROVE  TxInv'
<1>1. TxType'
  BY DEF TxInv, TxType, Proceed
<1>2. \A q \in Requests \ {r} : tx'[q] = tx[q]
  BY DEF TxInv, TxType, Proceed
<1>3. \A q \in Requests \ {r} : Progress(q)'
  BY <1>2, OthersKeep DEF TxInv
<1>4. \A q \in Requests \ {r} : Stands(q)'
  BY <1>2, OthersKeep DEF TxInv, Stands, tables
<1>5. ASSUME NEW q \in Requests, NEW p \in Requests, q # p PROVE Apart(q, p)'
  <2>1. CASE q = r
    BY <1>2, <1>5, <2>1, OthersKeep DEF Apart
  <2>2. CASE p = r
    BY <1>2, <1>5, <2>2, OthersKeep DEF Apart
  <2>3. CASE q # r /\ p # r
    BY <1>2, <1>5, <2>3, OthersKeep DEF TxInv, Apart
  <2> QED
    BY <2>1, <2>2, <2>3
<1> QED
  BY <1>1, <1>3, <1>4, <1>5 DEF TxInv

\* What goes on outside of a transaction.
LEMMA OutsideKeeps ==
  ASSUME TxInv, TypeOK', NEW r \in Requests, ~InTx(r), req'[r].pc # "subtract",
         \A q \in Requests \ {r} : req'[q] = req[q],
         UNCHANGED tx, \A q \in Requests \ {r} : Stands(q)'
  PROVE  TxInv'
<1>1. tx[r] = NoTx
  <2>1. tx[r] \in [done : Nat, rows : SUBSET Tags]
    BY DEF TxInv, TxType
  <2>2. tx[r].done = 0 /\ tx[r].rows = {}
    BY <2>1 DEF TxInv, Progress, InTx
  <2> QED
    BY <2>1, <2>2 DEF NoTx
<1>2. tx' = [tx EXCEPT ![r] = NoTx]
  BY <1>1 DEF TxInv, TxType
<1> QED
  BY <1>2, EndedTxKeeps

\* What a write does to the table of versions or of services leaves the transactions
\* of others standing, if it leaves the services there and each version there or not.
LEMMA TablesStand ==
  ASSUME TxInv, NEW r \in Requests, \A q \in Requests \ {r} : req'[q] = req[q] /\ tx'[q] = tx[q],
         \A i \in Ids : service[i] # Null => service'[i] # Null,
         \A i \in Ids, t \in Tags : version'[i][t] = Null <=> version[i][t] = Null
  PROVE  \A q \in Requests \ {r} : Stands(q)'
<1> SUFFICES ASSUME NEW q \in Requests \ {r} PROVE Stands(q)'
  OBVIOUS
<1>1. Stands(q) /\ (Inserting(q)' <=> Inserting(q)) /\ (Deleting(q)' <=> Deleting(q))
  BY OthersKeep DEF TxInv
<1>2. Inserting(q) \/ Deleting(q) => req[q].call.id \in Ids /\ req[q].call.tag \in Tags
  BY InFlightRequest, CallParameters DEF TxInv, TypeOK, ReqType, Inserting, Deleting, At
<1> QED
  BY <1>1, <1>2 DEF Stands

\* How the request of a write moves.
LEMMA Moves ==
  ASSUME TxInv, NEW r \in Requests, ~At(r, "idle"),
         \/ Committed(r)
         \/ \E st \in Statuses : Answer(r, st)
         \/ \E pc \in PCs \ {"subtract"} : Goto(r, pc)
  PROVE  /\ req'[r].pc # "subtract"
         /\ \A q \in Requests \ {r} : req'[q] = req[q]
<1>1. req \in [Requests -> ReqType] /\ req[r].pc # "idle"
  BY DEF TxInv, TypeOK, ReqType, At
<1>2. req[r] \in InFlight
  BY <1>1, InFlightRequest
<1>3. CASE \E st \in Statuses : Answer(r, st)
  BY <1>1, <1>3 DEF Answer, Idle
<1>4. CASE \E pc \in PCs \ {"subtract"} : Goto(r, pc)
  BY <1>1, <1>2, <1>4 DEF Goto, InFlight
<1> QED
  BY <1>3, <1>4 DEF Committed, Statuses, PCs

\* What the call of a write carries.
LEMMA WriteCall ==
  ASSUME TxInv, NEW r \in Requests, Writing(r)
  PROVE  /\ ~At(r, "idle")
         /\ req[r].call.op \in {"addService", "updateService"}
              => req[r].call.name \in Names /\ req[r].call.text \in Descriptions \cup {Empty}
         /\ req[r].call.op # "addService" => req[r].call.id \in Ids
         /\ req[r].call.op \in {"addServiceVersion", "updateServiceVersion",
                                "deleteServiceVersion"} => req[r].call.tag \in Tags
         /\ req[r].call.op \in {"addServiceVersion", "updateServiceVersion"}
              => req[r].call.text \in Infos \cup {Empty}
BY InFlightRequest, CallParameters DEF TxInv, TypeOK, ReqType, Writing, At

\* The statement of r that comes next, its operation, and how far it is.
LEMMA ReadyAt ==
  ASSUME TxInv, NEW r \in Requests, NEW s, Ready(r, s)
  PROVE  /\ Writing(r) /\ Blockers(r) = {}
         /\ s = "insertService" => req[r].call.op = "addService" /\ tx[r].done = 0
         /\ s = "updateRow" => req[r].call.op = "updateService" /\ tx[r].done = 0
         /\ s = "enterName" => req[r].call.op = "updateService" /\ tx[r].done = 1
         /\ s = "readVersions" => req[r].call.op = "deleteService" /\ tx[r].done = 0
         /\ s = "deleteVersions" => req[r].call.op = "deleteService" /\ tx[r].done = 1
         /\ s = "deleteRow" => req[r].call.op = "deleteService" /\ tx[r].done = 2
         /\ s = "checkReferences" => req[r].call.op = "deleteService" /\ tx[r].done = 3
         /\ s = "insertVersion" => req[r].call.op = "addServiceVersion" /\ tx[r].done = 0
         /\ s = "addOne" => req[r].call.op = "addServiceVersion" /\ tx[r].done = 1
         /\ s = "updateVersion" => req[r].call.op = "updateServiceVersion" /\ tx[r].done = 0
         /\ s = "deleteVersion" => req[r].call.op = "deleteServiceVersion" /\ tx[r].done = 0
         /\ s = "subtractOne" => req[r].call.op = "deleteServiceVersion" /\ tx[r].done = 1
<1>1. TypeOK /\ TxType /\ Progress(r) /\ Writing(r)
  BY DEF TxInv, Ready
<1>2. NextStatement(r) = s /\ Blockers(r) = {}
  BY DEF Ready
<1> QED
  BY <1>1, <1>2, NextStatementCases DEF IsAt

\* A write, or a request that fails, is a step of the catalogue.
LEMMA RequestStepsAre ==
  ASSUME NEW r \in Requests, Receive(r) \/ Step(r) PROVE [Next]_vars
BY DEF Next

----------------------------------------------------------------------------
(* The single statements.                                                  *)

LEMMA InsertServiceKeeps ==
  ASSUME TxInv, NEW r \in Requests, InsertService(r) PROVE [Next]_vars /\ TxInv'
<1>1. CreateService(r) /\ Ends(r) /\ Writing(r)
  BY ReadyAt DEF InsertService
<1>2. [Next]_vars
  BY <1>1, RequestStepsAre DEF Step, Write
<1>3. TypeOK'
  BY <1>2, NextType DEF TxInv
<1>4. req'[r].pc # "subtract" /\ \A q \in Requests \ {r} : req'[q] = req[q]
  BY <1>1, WriteCall, Moves DEF CreateService, Statuses
<1>5. \A i \in Ids : service[i] # Null => service'[i] # Null
  BY <1>1, WriteCall, ReadyAt, NewServiceRow, NullAssumption
     DEF InsertService, CreateService, TxInv, TypeOK
<1>6. version' = version
  BY <1>1 DEF CreateService
<1>7. \A q \in Requests \ {r} : tx'[q] = tx[q]
  BY <1>1 DEF Ends, TxInv, TxType
<1>8. \A q \in Requests \ {r} : Stands(q)'
  BY <1>4, <1>5, <1>6, <1>7, TablesStand
<1> QED
  BY <1>1, <1>2, <1>3, <1>4, <1>8, EndedKeeps

LEMMA UpdateRowKeeps ==
  ASSUME TxInv, NEW r \in Requests, UpdateRow(r) PROVE [Next]_vars /\ TxInv'
<1>1. /\ Writing(r) /\ req[r].call.op = "updateService" /\ tx[r].done = 0
      /\ req[r].call.id \in Ids
  BY ReadyAt, WriteCall DEF UpdateRow
<1>2. At(r, "write") /\ Running(r, "updateService")
  BY <1>1 DEF TxInv, Progress, Writing, InTx, Running
<1>3. CASE Proceed(r, {}) /\ UNCHANGED req
  <2>1. UNCHANGED vars
    BY <1>3 DEF UpdateRow, vars, tables
  <2>2. TypeOK'
    BY <2>1, NextType DEF TxInv
  <2>3. tx'[r] = [done |-> 1, rows |-> {}] /\ At(r, "write")' /\ req' = req
    BY <1>1, <1>2, <1>3 DEF Proceed, TxInv, TxType, At
  <2>4. Progress(r)' /\ Stands(r)'
    BY <1>1, <1>2, <2>3 DEF Progress, Stands, Inserting, Deleting, InTx, At
  <2>5. ~Inserting(r)' /\ ~Dropping(r)' /\ Held(r)' = {}
    BY <1>1, <2>3 DEF Inserting, Dropping, Held
  <2>6. TxInv'
    BY <1>3, <2>1, <2>2, <2>3, <2>4, <2>5, ProceededKeeps DEF vars, tables
  <2> QED
    BY <2>1, <2>6
<1>4. CASE service[req[r].call.id] = Null /\ Ends(r) /\ Committed(r)
  <2>1. UpdatedService(Null, req[r].call) = Null
    BY DEF UpdatedService
  <2>2. service' = [service EXCEPT ![req[r].call.id] = UpdatedService(@, req[r].call)]
    BY <1>1, <1>4, <2>1 DEF UpdateRow, tables, TxInv, TypeOK
  <2>3. UpdateService(r)
    BY <1>2, <1>4, <2>2 DEF UpdateService, UpdateRow, tables
  <2>4. [Next]_vars
    BY <2>3, RequestStepsAre DEF Step, Write
  <2>5. TypeOK'
    BY <2>4, NextType DEF TxInv
  <2>6. req'[r].pc # "subtract" /\ \A q \in Requests \ {r} : req'[q] = req[q]
    BY <1>1, <1>4, WriteCall, Moves
  <2>7. \A q \in Requests \ {r} : tx'[q] = tx[q]
    BY <1>4 DEF Ends, TxInv, TxType
  <2>8. \A q \in Requests \ {r} : Stands(q)'
    BY <2>6, <2>7, TablesStand DEF UpdateRow, tables
  <2> QED
    BY <1>4, <2>4, <2>5, <2>6, <2>8, EndedKeeps
<1> QED
  BY <1>3, <1>4 DEF UpdateRow

LEMMA EnterNameKeeps ==
  ASSUME TxInv, NEW r \in Requests, EnterName(r) PROVE [Next]_vars /\ TxInv'
<1>1. UpdateService(r) /\ Ends(r) /\ Writing(r) /\ req[r].call.op = "updateService"
  BY ReadyAt DEF EnterName
<1>2. [Next]_vars
  BY <1>1, RequestStepsAre DEF Step, Write
<1>3. TypeOK'
  BY <1>2, NextType DEF TxInv
<1>4. req'[r].pc # "subtract" /\ \A q \in Requests \ {r} : req'[q] = req[q]
  BY <1>1, WriteCall, Moves DEF UpdateService, Statuses
<1>5. \A i \in Ids : service[i] # Null => service'[i] # Null
  <2>1. ASSUME NEW i \in Ids, service[i] # Null PROVE UpdatedService(service[i], req[r].call) # Null
    <3>1. service[i] \in ServiceRow \cup {Null}
      BY DEF TxInv, TypeOK
    <3> QED
      BY <1>1, <2>1, <3>1, WriteCall, UpdatedServiceRow
  <2> QED
    BY <1>1, <2>1 DEF UpdateService, TxInv, TypeOK
<1>6. version' = version
  BY <1>1 DEF UpdateService
<1>7. \A q \in Requests \ {r} : tx'[q] = tx[q]
  BY <1>1 DEF Ends, TxInv, TxType
<1>8. \A q \in Requests \ {r} : Stands(q)'
  BY <1>4, <1>5, <1>6, <1>7, TablesStand
<1> QED
  BY <1>1, <1>2, <1>3, <1>4, <1>8, EndedKeeps

LEMMA UpdateVersionKeeps ==
  ASSUME TxInv, NEW r \in Requests, UpdateVersion(r) PROVE [Next]_vars /\ TxInv'
<1>1. UpdateServiceVersion(r) /\ Ends(r) /\ Writing(r)
      /\ req[r].call.op = "updateServiceVersion"
  BY ReadyAt DEF UpdateVersion
<1>2. [Next]_vars
  BY <1>1, RequestStepsAre DEF Step, Write
<1>3. TypeOK'
  BY <1>2, NextType DEF TxInv
<1>4. req'[r].pc # "subtract" /\ \A q \in Requests \ {r} : req'[q] = req[q]
  BY <1>1, WriteCall, Moves DEF UpdateServiceVersion, Statuses
<1>5. \A i \in Ids, t \in Tags : version'[i][t] = Null <=> version[i][t] = Null
  <2> DEFINE call == req[r].call
  <2>1. call.id \in Ids /\ call.tag \in Tags /\ call.text \in Infos \cup {Empty}
    BY <1>1, WriteCall
  <2>2. version[call.id][call.tag] \in Infos \cup {Empty, Null}
    BY <2>1 DEF TxInv, TypeOK
  <2>3. UpdatedVersion(version[call.id][call.tag], call.text) = Null
          <=> version[call.id][call.tag] = Null
    BY <2>1, <2>2, UpdatedVersionInfo
  <2> QED
    BY <1>1, <2>1, <2>3 DEF UpdateServiceVersion, TxInv, TypeOK
<1>6. service' = service
  BY <1>1 DEF UpdateServiceVersion
<1>7. \A q \in Requests \ {r} : tx'[q] = tx[q]
  BY <1>1 DEF Ends, TxInv, TxType
<1>8. \A q \in Requests \ {r} : Stands(q)'
  BY <1>4, <1>5, <1>6, <1>7, TablesStand
<1> QED
  BY <1>1, <1>2, <1>3, <1>4, <1>8, EndedKeeps

----------------------------------------------------------------------------
(* The transactions.                                                       *)

\* A statement that goes ahead does not conflict with another transaction.
LEMMA NotBlocked ==
  ASSUME TxInv, NEW r \in Requests, NEW s, Ready(r, s), NEW q \in Requests \ {r},
         InTx(q), req[r].call.id = req[q].call.id
  PROVE  /\ VersionsWanted(r) \cap Held(q) = {}
         /\ req[r].call.id \in Ids /\ service[req[r].call.id] # Null
              => {RowWanted(r), RowHeld(q)} \notin Conflicting
<1>1. TypeOK /\ TxType /\ Progress(q)
  BY DEF TxInv
<1>2. Writing(q)
  BY <1>1, DoneCases
<1>3. NextStatement(q) = "deleteVersions" <=> req[q].call.op = "deleteService" /\ tx[q].done = 1
  BY <1>1, <1>2, NextStatementCases DEF IsAt
<1>4. VersionsHeld(q) = Held(q)
  BY <1>3 DEF VersionsHeld, Held
<1>5. ~AwaitsRow(r, q)
  BY ReadyAt DEF Blockers
<1> QED
  BY <1>4, <1>5 DEF AwaitsRow

\* A statement that changes no table, and lets its transaction go on.
LEMMA ProceededTo ==
  ASSUME TxInv, NEW r \in Requests, NEW s, Ready(r, s), NEW rows \in SUBSET Tags,
         Proceed(r, rows), UNCHANGED vars
  PROVE  /\ [Next]_vars /\ TypeOK'
         /\ tx'[r] = [done |-> tx[r].done + 1, rows |-> rows]
         /\ req' = req /\ UNCHANGED tables
         /\ At(r, "write")' <=> At(r, "write")
         /\ tx[r].done = 0 => At(r, "write")
         /\ req[r].call.op = "deleteService" => At(r, "write")
<1>1. TypeOK'
  BY NextType DEF TxInv
<1>2. tx[r].done = 0 \/ req[r].call.op = "deleteService" => At(r, "write")
  BY DEF Ready, Writing, TxInv, Progress, InTx
<1> QED
  BY <1>1, <1>2 DEF vars, tables, Proceed, TxInv, TxType, At

LEMMA ReadVersionsKeeps ==
  ASSUME TxInv, NEW r \in Requests, ReadVersions(r) PROVE [Next]_vars /\ TxInv'
<1> DEFINE rows == VersionsOf(req[r].call.id)
<1>1. Ready(r, "readVersions") /\ Proceed(r, rows) /\ UNCHANGED vars /\ rows \in SUBSET Tags
  BY DEF ReadVersions, VersionsOf
<1>2. req[r].call.op = "deleteService" /\ tx[r].done = 0
  BY <1>1, ReadyAt
<1> HIDE DEF rows
<1>3. /\ [Next]_vars /\ TypeOK' /\ req' = req /\ UNCHANGED tables
      /\ tx'[r] = [done |-> 1, rows |-> rows] /\ At(r, "write")'
  BY <1>1, <1>2, ProceededTo
<1>4. Progress(r)' /\ Stands(r)' /\ ~Inserting(r)' /\ ~Dropping(r)' /\ Held(r)' = {}
  BY <1>2, <1>3 DEF Progress, Stands, Inserting, Deleting, Dropping, Held, InTx, At
<1> QED
  BY <1>1, <1>3, <1>4, ProceededKeeps

LEMMA DeleteVersionsKeeps ==
  ASSUME TxInv, NEW r \in Requests, DeleteVersions(r) PROVE [Next]_vars /\ TxInv'
<1> DEFINE rows == tx[r].rows \cap VersionsOf(req[r].call.id)
<1>1. Ready(r, "deleteVersions") /\ Proceed(r, rows) /\ UNCHANGED vars /\ rows \in SUBSET Tags
  BY DEF DeleteVersions, VersionsOf
<1>2. req[r].call.op = "deleteService" /\ tx[r].done = 1
  BY <1>1, ReadyAt
<1>3. VersionsWanted(r) = rows
  BY <1>1 DEF VersionsWanted, Ready
<1> HIDE DEF rows
<1>4. /\ [Next]_vars /\ TypeOK' /\ req' = req /\ UNCHANGED tables
      /\ tx'[r] = [done |-> 2, rows |-> rows] /\ At(r, "write")'
  BY <1>1, <1>2, ProceededTo
<1>5. Progress(r)' /\ Stands(r)' /\ ~Inserting(r)' /\ ~Dropping(r)' /\ Held(r)' = rows
  BY <1>2, <1>4 DEF Progress, Stands, Inserting, Deleting, Dropping, Held, InTx, At
<1>6. ASSUME NEW q \in Requests \ {r}, InTx(q), req[q].call.id = req'[r].call.id
      PROVE  Held(r)' \cap Held(q) = {}
  BY <1>1, <1>3, <1>4, <1>5, <1>6, NotBlocked
<1> QED
  BY <1>1, <1>4, <1>5, <1>6, ProceededKeeps

LEMMA DeleteRowKeeps ==
  ASSUME TxInv, NEW r \in Requests, DeleteRow(r) PROVE [Next]_vars /\ TxInv'
<1> DEFINE rows == tx[r].rows
<1>1. Ready(r, "deleteRow") /\ Proceed(r, rows) /\ UNCHANGED vars /\ rows \in SUBSET Tags
  BY DEF DeleteRow, TxInv, TxType
<1>2. req[r].call.op = "deleteService" /\ tx[r].done = 2 /\ req[r].call.id \in Ids
  BY <1>1, ReadyAt, WriteCall
<1>3. RowWanted(r) = "update"
  BY <1>1 DEF RowWanted, Ready
<1>4. InTx(r) /\ Held(r) = rows
  BY <1>2 DEF InTx, Held
<1> HIDE DEF rows
<1>5. /\ [Next]_vars /\ TypeOK' /\ req' = req /\ UNCHANGED tables
      /\ tx'[r] = [done |-> 3, rows |-> rows] /\ At(r, "write")'
  BY <1>1, <1>2, ProceededTo
<1>6. Progress(r)' /\ Stands(r)' /\ ~Inserting(r)' /\ Held(r)' = rows
  BY <1>2, <1>5 DEF Progress, Stands, Inserting, Deleting, Held, InTx, At
<1>7. ASSUME NEW q \in Requests \ {r}, InTx(q), req[q].call.id = req[r].call.id
      PROVE  ~Inserting(q) /\ rows \cap Held(q) = {}
  <2>1. rows \cap Held(q) = {}
    BY <1>4, <1>7 DEF TxInv, Apart
  <2>2. ASSUME Inserting(q) PROVE FALSE
    <3>1. service[req[r].call.id] # Null
      BY <1>7, <2>2 DEF TxInv, Stands
    <3>2. RowHeld(q) = "keyShare"
      <4>1. TypeOK /\ TxType /\ Progress(q) /\ req[q].call.op = "addServiceVersion"
        BY <2>2 DEF TxInv, Inserting
      <4>2. /\ Done(q, "insertVersion")
            /\ ~Done(q, "updateRow")
            /\ ~Done(q, "deleteRow")
        BY <1>7, <2>2, <4>1, DoneCases
      <4> QED
        BY <4>2 DEF RowHeld
    <3>3. {"update", "keyShare"} \in Conflicting
      BY DEF Conflicting
    <3> QED
      BY <1>1, <1>2, <1>3, <1>7, <3>1, <3>2, <3>3, NotBlocked
  <2> QED
    BY <2>1, <2>2
<1> QED
  BY <1>1, <1>5, <1>6, <1>7, ProceededKeeps

\* A commit changes the rows of one service; the transactions on it stand, one by one.
LEMMA OthersStand ==
  ASSUME TxInv, NEW r \in Requests, NEW i,
         \A q \in Requests \ {r} : req'[q] = req[q] /\ tx'[q] = tx[q],
         \A j \in Ids \ {i} : service'[j] = service[j] /\ version'[j] = version[j],
         \A q \in Requests \ {r} :
           req[q].call.id = i =>
             /\ Inserting(q) => service'[i] # Null /\ version'[i][req[q].call.tag] = Null
             /\ Deleting(q) => version'[i][req[q].call.tag] # Null
  PROVE  \A q \in Requests \ {r} : Stands(q)'
<1> SUFFICES ASSUME NEW q \in Requests \ {r} PROVE Stands(q)'
  OBVIOUS
<1>1. Stands(q) /\ (Inserting(q)' <=> Inserting(q)) /\ (Deleting(q)' <=> Deleting(q))
  BY OthersKeep DEF TxInv
<1>2. Inserting(q) \/ Deleting(q) => req[q].call.id \in Ids
  BY WriteCall DEF Writing, Inserting, Deleting
<1> QED
  BY <1>1, <1>2 DEF Stands

LEMMA CheckReferencesKeeps ==
  ASSUME TxInv, NEW r \in Requests, CheckReferences(r) PROVE [Next]_vars /\ TxInv'
<1> DEFINE i == req[r].call.id
<1>1. /\ Ready(r, "checkReferences") /\ Writing(r) /\ i \in Ids
      /\ req[r].call.op = "deleteService" /\ tx[r].done = 3
  BY ReadyAt, WriteCall DEF CheckReferences
<1>2. At(r, "write") /\ Running(r, "deleteService") /\ InTx(r) /\ Held(r) = tx[r].rows /\ Dropping(r)
  BY <1>1 DEF TxInv, Progress, InTx, Running, Held, Dropping
<1>3. \A q \in Requests \ {r} : tx'[q] = tx[q]
  BY DEF CheckReferences, Refused, Ends, TxInv, TxType
<1>4. CASE References(r) # {} /\ Refused(r, "internal") /\ UNCHANGED <<service, version>>
  <2>1. DBError(r)
    BY <1>2, <1>4 DEF DBError, At, Refused, CheckReferences, tables
  <2>2. [Next]_vars
    BY <2>1, RequestStepsAre DEF Step
  <2>3. TypeOK'
    BY <2>2, NextType DEF TxInv
  <2>4. req'[r].pc # "subtract" /\ \A q \in Requests \ {r} : req'[q] = req[q]
    BY <1>1, <1>4, WriteCall, Moves DEF Refused, Statuses
  <2>5. \A q \in Requests \ {r} : Stands(q)'
    BY <1>3, <1>4, <2>4, TablesStand
  <2> QED
    BY <1>4, <2>2, <2>3, <2>4, <2>5, EndedKeeps DEF Refused
<1>5. CASE /\ References(r) = {}
           /\ version' = [version EXCEPT ![i] = [t \in Tags |-> IF t \in tx[r].rows
                                                                THEN Null ELSE @[t]]]
           /\ service' = [service EXCEPT ![i] = Null]
           /\ Committed(r)
           /\ Ends(r)
  <2>1. VersionsOf(i) \subseteq tx[r].rows
    BY <1>5 DEF References
  <2>2. \A t \in Tags : t \in tx[r].rows \/ version[i][t] = Null
    BY <2>1 DEF VersionsOf
  <2>3. [t \in Tags |-> IF t \in tx[r].rows THEN Null ELSE version[i][t]] = [t \in Tags |-> Null]
    BY <2>2
  <2>4. version' = [version EXCEPT ![i] = [t \in Tags |-> Null]]
    BY <1>1, <1>5, <2>3 DEF TxInv, TypeOK
  <2>5. DeleteService(r)
    BY <1>2, <1>5, <2>4 DEF DeleteService, CheckReferences
  <2>6. [Next]_vars
    BY <2>5, RequestStepsAre DEF Step, Write
  <2>7. TypeOK'
    BY <2>6, NextType DEF TxInv
  <2>8. req'[r].pc # "subtract" /\ \A q \in Requests \ {r} : req'[q] = req[q]
    BY <1>1, <1>5, WriteCall, Moves
  <2>9. ASSUME NEW q \in Requests \ {r}, req[q].call.id = i PROVE ~Inserting(q) /\ ~Deleting(q)
    <3>1. ASSUME Inserting(q) PROVE FALSE
      BY <1>2, <2>9, <3>1 DEF TxInv, Apart, Inserting
    <3>2. ASSUME Deleting(q) PROVE FALSE
      <4>1. req[q].call.tag \in VersionsOf(i)
        BY <2>9, <3>2, WriteCall DEF TxInv, Stands, VersionsOf, Deleting, Writing
      <4>2. InTx(q) /\ req[q].call.tag \in Held(q)
        BY <3>2 DEF TxInv, Progress, Deleting, Held, At
      <4>3. Held(r) \cap Held(q) = {}
        BY <1>2, <2>9, <4>2 DEF TxInv, Apart
      <4> QED
        BY <1>2, <2>1, <4>1, <4>2, <4>3
    <3> QED
      BY <3>1, <3>2
  <2>10. \A j \in Ids \ {i} : service'[j] = service[j] /\ version'[j] = version[j]
    BY <1>5, <2>4 DEF TxInv, TypeOK
  <2> HIDE DEF i
  <2>11. \A q \in Requests \ {r} : Stands(q)'
    BY <1>3, <2>8, <2>9, <2>10, OthersStand
  <2> QED
    BY <1>5, <2>6, <2>7, <2>8, <2>11, EndedKeeps
<1> QED
  BY <1>4, <1>5 DEF CheckReferences

LEMMA InsertVersionKeeps ==
  ASSUME TxInv, NEW r \in Requests, InsertVersion(r) PROVE [Next]_vars /\ TxInv'
<1> DEFINE i == req[r].call.id
           t == req[r].call.tag
<1>1. /\ Ready(r, "insertVersion") /\ Writing(r) /\ i \in Ids /\ t \in Tags
      /\ req[r].call.op = "addServiceVersion" /\ tx[r].done = 0
  BY ReadyAt, WriteCall DEF InsertVersion
<1>2. At(r, "write") /\ Running(r, "addServiceVersion") /\ ~InTx(r)
  BY <1>1 DEF TxInv, Progress, Writing, InTx, Running
<1>3. \A q \in Requests \ {r} : tx'[q] = tx[q]
  BY DEF InsertVersion, Refused, Ends, Proceed, TxInv, TxType
<1>4. UNCHANGED tables /\ service' = service /\ version' = version
  BY DEF InsertVersion, tables
<1>5. CASE \/ version[i][t] # Null /\ Refused(r, "conflict")
           \/ version[i][t] = Null /\ ForeignKeyViolated(i) /\ Refused(r, "internal")
  <2>1. CreateServiceVersion(r)
    BY <1>2, <1>4, <1>5 DEF CreateServiceVersion, Refused, InsertVersion, tables
  <2>2. [Next]_vars
    BY <2>1, RequestStepsAre DEF Step, Write
  <2>3. TypeOK'
    BY <2>2, NextType DEF TxInv
  <2>4. req'[r].pc # "subtract" /\ \A q \in Requests \ {r} : req'[q] = req[q]
    BY <1>1, <1>5, WriteCall, Moves DEF Refused, Statuses
  <2>5. \A q \in Requests \ {r} : Stands(q)'
    BY <1>3, <1>4, <2>4, TablesStand
  <2> QED
    BY SMTT(30), <1>5, <2>2, <2>3, <2>4, <2>5, EndedKeeps DEF Refused
<1>6. CASE /\ version[i][t] = Null /\ ~ForeignKeyViolated(i)
           /\ Proceed(r, {t})
           /\ UNCHANGED req
  <2>1. UNCHANGED vars /\ {t} \in SUBSET Tags
    BY <1>1, <1>6 DEF InsertVersion, vars, tables
  <2>2. /\ [Next]_vars /\ TypeOK' /\ req' = req
        /\ tx'[r] = [done |-> 1, rows |-> {t}] /\ At(r, "write")'
    <3> DEFINE rows == {t}
    <3>1. rows \in SUBSET Tags /\ Proceed(r, rows)
      BY <2>1, <1>6
    <3> HIDE DEF rows, i, t
    <3>2. /\ [Next]_vars /\ TypeOK' /\ req' = req /\ UNCHANGED tables
          /\ tx'[r] = [done |-> 1, rows |-> rows] /\ At(r, "write")'
      BY <1>1, <2>1, <1>6, <3>1, ProceededTo
    <3> QED
      BY <3>2 DEF rows
  <2>3. Progress(r)' /\ Stands(r)' /\ ~Dropping(r)' /\ Held(r)' = {t}
    BY <1>1, <1>4, <1>6, <2>2
       DEF Progress, Stands, Inserting, Deleting, Dropping, Held, InTx, At, ForeignKeyViolated
  <2>4. VersionsWanted(r) = {t} /\ RowWanted(r) = "keyShare"
    BY <1>1 DEF VersionsWanted, RowWanted, Ready
  <2>5. ASSUME NEW q \in Requests \ {r}, InTx(q), req[q].call.id = i
        PROVE  ~Dropping(q) /\ {t} \cap Held(q) = {}
    <3>1. {t} \cap Held(q) = {}
      BY <1>1, <2>4, <2>5, NotBlocked
    <3>2. ASSUME Dropping(q) PROVE FALSE
      <4>1. TypeOK /\ TxType /\ Progress(q)
        BY DEF TxInv
      <4>2. /\ Done(q, "deleteRow")
            /\ ~Done(q, "updateRow")
            /\ ~Done(q, "insertVersion")
        BY <2>5, <3>2, <4>1, DoneCases DEF Inserting
      <4>3. RowHeld(q) = "update"
        BY <4>2 DEF RowHeld
      <4>4. {"keyShare", "update"} \in Conflicting
        BY DEF Conflicting
      <4> QED
        BY <1>1, <1>6, <2>4, <2>5, <4>3, <4>4, NotBlocked DEF ForeignKeyViolated
    <3> QED
      BY <3>1, <3>2
  <2> QED
    BY <1>4, <1>6, <2>1, <2>2, <2>3, <2>5, ProceededKeeps, SMTT(30)
<1> QED
  BY SMTT(30), <1>5, <1>6 DEF InsertVersion

LEMMA AddOneKeeps ==
  ASSUME TxInv, NEW r \in Requests, AddOne(r) PROVE [Next]_vars /\ TxInv'
<1> DEFINE i == req[r].call.id
           t == req[r].call.tag
           text == req[r].call.text
<1>1. /\ Writing(r) /\ i \in Ids /\ t \in Tags /\ text \in Infos \cup {Empty}
      /\ req[r].call.op = "addServiceVersion" /\ tx[r].done = 1
  BY ReadyAt, WriteCall DEF AddOne
<1>2. InTx(r) /\ At(r, "write") /\ Running(r, "addServiceVersion") /\ Inserting(r)
  BY <1>1 DEF TxInv, Progress, InTx, Running, Inserting
<1>3. service[i] # Null /\ version[i][t] = Null /\ Held(r) = {t}
  BY <1>1, <1>2 DEF TxInv, Stands, Progress, Held
<1>4. CreateServiceVersion(r)
  BY <1>2, <1>3 DEF CreateServiceVersion, ForeignKeyViolated, AddOne
<1>5. [Next]_vars
  BY <1>4, RequestStepsAre DEF Step, Write
<1>6. TypeOK'
  BY <1>5, NextType DEF TxInv
<1>7. Committed(r) /\ Ends(r)
  BY DEF AddOne
<1>8. req'[r].pc # "subtract" /\ \A q \in Requests \ {r} : req'[q] = req[q]
  BY <1>1, <1>7, WriteCall, Moves
<1>9. \A q \in Requests \ {r} : tx'[q] = tx[q]
  BY <1>7 DEF Ends, TxInv, TxType
<1>10. /\ version' = [version EXCEPT ![i][t] = text]
       /\ service' = [service EXCEPT ![i] = InsertedCount(@)]
       /\ service \in [Ids -> ServiceRow \cup {Null}]
       /\ version \in [Ids -> [Tags -> Infos \cup {Empty, Null}]]
  BY DEF AddOne, TxInv, TypeOK
<1>11. service'[i] # Null
  <2>1. service[i] \in ServiceRow
    BY <1>1, <1>3, <1>10
  <2>2. InsertedCount(service[i]) \in ServiceRow
    BY <2>1, AddToCountRow DEF InsertedCount
  <2> QED
    BY <1>1, <1>10, <2>2, NullAssumption
<1>12. text # Null
  BY <1>1, NullAssumption
<1> HIDE DEF i, t, text
<1>13. ASSUME NEW q \in Requests \ {r}, req[q].call.id = i
       PROVE  /\ Inserting(q) => version'[i][req[q].call.tag] = Null
              /\ Deleting(q) => version'[i][req[q].call.tag] # Null
  <2>1. ASSUME Inserting(q) PROVE version'[i][req[q].call.tag] = Null
    <3>1. InTx(q) /\ req[q].call.tag \in Held(q) /\ version[i][req[q].call.tag] = Null
      BY <1>13, <2>1 DEF TxInv, Progress, Inserting, Held, At, Stands
    <3>2. req[q].call.tag # t
      BY <1>2, <1>3, <1>13, <3>1 DEF TxInv, Apart, i
    <3> QED
      BY <1>1, <1>10, <3>1, <3>2
  <2>2. ASSUME Deleting(q) PROVE version'[i][req[q].call.tag] # Null
    <3>1. version[i][req[q].call.tag] # Null
      BY <1>13, <2>2 DEF TxInv, Stands
    <3>2. req[q].call.tag # t
      BY <1>3, <3>1
    <3> QED
      BY <1>1, <1>10, <3>1, <3>2
  <2> QED
    BY <2>1, <2>2
<1>14. \A j \in Ids \ {i} : service'[j] = service[j] /\ version'[j] = version[j]
  BY <1>10
<1>15. \A q \in Requests \ {r} : Stands(q)'
  BY <1>8, <1>9, <1>11, <1>13, <1>14, OthersStand
<1> QED
  BY <1>5, <1>6, <1>7, <1>8, <1>15, EndedKeeps

LEMMA DeleteVersionKeeps ==
  ASSUME TxInv, NEW r \in Requests, DeleteVersion(r) PROVE [Next]_vars /\ TxInv'
<1> DEFINE i == req[r].call.id
           t == req[r].call.tag
<1>1. /\ Ready(r, "deleteVersion") /\ Writing(r) /\ i \in Ids /\ t \in Tags
      /\ req[r].call.op = "deleteServiceVersion" /\ tx[r].done = 0
  BY ReadyAt, WriteCall DEF DeleteVersion
<1>2. At(r, "write")
  BY <1>1 DEF TxInv, Progress, Writing, InTx
<1>3. CASE t \in VersionsOf(i) /\ Proceed(r, {t}) /\ UNCHANGED vars
  <2>1. {t} \in SUBSET Tags
    BY <1>1
  <2>2. /\ [Next]_vars /\ TypeOK' /\ req' = req /\ UNCHANGED tables
        /\ tx'[r] = [done |-> 1, rows |-> {t}] /\ At(r, "write")'
    <3> DEFINE rows == {t}
    <3>1. rows \in SUBSET Tags /\ Proceed(r, rows)
      BY <2>1, <1>3
    <3> HIDE DEF rows, i, t
    <3>2. /\ [Next]_vars /\ TypeOK' /\ req' = req /\ UNCHANGED tables
          /\ tx'[r] = [done |-> 1, rows |-> rows] /\ At(r, "write")'
      BY <1>1, <2>1, <1>3, <3>1, ProceededTo
    <3> QED
      BY <3>2 DEF rows
  <2>3. version' = version /\ version[i][t] # Null
    BY <1>3, <2>2 DEF tables, VersionsOf
  <2>4. Progress(r)' /\ Stands(r)' /\ ~Inserting(r)' /\ ~Dropping(r)' /\ Held(r)' = {t}
    BY <1>1, <2>2, <2>3 DEF Progress, Stands, Inserting, Deleting, Dropping, Held, InTx, At
  <2>5. VersionsWanted(r) = {t}
    BY <1>1, <1>3 DEF VersionsWanted, Ready
  <2>6. ASSUME NEW q \in Requests \ {r}, InTx(q), req[q].call.id = i
        PROVE  {t} \cap Held(q) = {}
    BY <1>1, <2>5, <2>6, NotBlocked
  <2> QED
    BY <1>3, <2>1, <2>2, <2>4, <2>6, ProceededKeeps
<1>4. CASE DeleteFindsNothing(r) /\ Proceed(r, {})
  <2>1. [Next]_vars
    BY <1>4, RequestStepsAre DEF Step
  <2>2. TypeOK'
    BY <2>1, NextType DEF TxInv
  <2>3. req \in [Requests -> ReqType] /\ req[r] \in InFlight
    BY <1>2, InFlightRequest DEF TxInv, TypeOK, ReqType, At
  <2>4. /\ req'[r] = [req[r] EXCEPT !.pc = "subtract"]
        /\ \A q \in Requests \ {r} : req'[q] = req[q]
    BY <1>4, <2>3 DEF DeleteFindsNothing, Goto
  <2>5. req'[r].pc = "subtract" /\ req'[r].call = req[r].call
    BY <2>3, <2>4 DEF InFlight
  <2>6. tx'[r] = [done |-> 1, rows |-> {}]
    BY <1>1, <1>4 DEF Proceed, TxInv, TxType
  <2>7. Progress(r)' /\ Stands(r)' /\ ~Inserting(r)' /\ ~Dropping(r)' /\ Held(r)' = {}
    BY <1>1, <2>5, <2>6 DEF Progress, Stands, Inserting, Deleting, Dropping, Held, InTx, At
  <2>8. UNCHANGED tables
    BY <1>4 DEF DeleteFindsNothing, tables
  <2> QED
    BY <1>4, <2>1, <2>2, <2>4, <2>7, <2>8, ProceededKeeps
<1> QED
  BY <1>3, <1>4 DEF DeleteVersion

LEMMA SubtractOneKeeps ==
  ASSUME TxInv, NEW r \in Requests, SubtractOne(r) PROVE [Next]_vars /\ TxInv'
<1> DEFINE i == req[r].call.id
           t == req[r].call.tag
<1>1. /\ Writing(r) /\ i \in Ids /\ t \in Tags
      /\ req[r].call.op = "deleteServiceVersion" /\ tx[r].done = 1
  BY ReadyAt, WriteCall DEF SubtractOne
<1>2. InTx(r)
  BY <1>1 DEF InTx
<1>3. Committed(r) /\ Ends(r)
  BY DEF SubtractOne
<1>4. /\ version' = [version EXCEPT ![i] = [u \in Tags |-> IF u \in tx[r].rows
                                                          THEN Null ELSE @[u]]]
      /\ service' = [service EXCEPT ![i] = DeletedCount(@)]
      /\ service \in [Ids -> ServiceRow \cup {Null}]
      /\ version \in [Ids -> [Tags -> Infos \cup {Empty, Null}]]
      /\ CountMayDrop(i)
  BY DEF SubtractOne, TxInv, TypeOK
<1>5. [Next]_vars
  <2>1. CASE At(r, "write")
    <3>1. tx[r].rows = {t} /\ version[i][t] # Null
      BY <1>1, <1>2, <2>1 DEF TxInv, Progress, Stands, Deleting, At
    <3>2. version' = [version EXCEPT ![i][t] = Null]
      BY <1>1, <1>4, <3>1
    <3>3. DeleteServiceVersion(r)
      BY <1>1, <1>3, <1>4, <2>1, <3>1, <3>2 DEF DeleteServiceVersion, Running, SubtractOne
    <3> QED
      BY <3>3, RequestStepsAre DEF Step, Write
  <2>2. CASE At(r, "subtract")
    <3>1. tx[r].rows = {}
      BY <1>2, <2>2 DEF TxInv, Progress, At
    <3>2. version' = version
      BY <1>1, <1>4, <3>1
    <3>3. SubtractOnly(r)
      BY <1>3, <1>4, <2>2, <3>2 DEF SubtractOnly, SubtractOne
    <3> QED
      BY <3>3, RequestStepsAre DEF Step, Write
  <2> QED
    BY <1>1, <2>1, <2>2 DEF Writing
<1>6. TypeOK'
  BY <1>5, NextType DEF TxInv
<1>7. req'[r].pc # "subtract" /\ \A q \in Requests \ {r} : req'[q] = req[q]
  BY <1>1, <1>3, WriteCall, Moves
<1>8. \A q \in Requests \ {r} : tx'[q] = tx[q]
  BY <1>3 DEF Ends, TxInv, TxType
<1>9. service[i] # Null => service'[i] # Null
  <2> SUFFICES ASSUME service[i] # Null PROVE service'[i] # Null
    OBVIOUS
  <2>1. service[i] \in ServiceRow
    BY <1>1, <1>4
  <2>2. DeletedCount(service[i]) \in ServiceRow
    BY <2>1, AddToCountRow DEF DeletedCount
  <2> QED
    BY <1>1, <1>4, <2>2, NullAssumption
<1>10. Held(r) = tx[r].rows
  BY <1>1, <1>2 DEF Held
<1> HIDE DEF i, t
<1>11. ASSUME NEW q \in Requests \ {r}, req[q].call.id = i
       PROVE  /\ Inserting(q) => service'[i] # Null /\ version'[i][req[q].call.tag] = Null
              /\ Deleting(q) => version'[i][req[q].call.tag] # Null
  <2>1. Inserting(q) \/ Deleting(q) => req[q].call.tag \in Tags
    BY WriteCall DEF Inserting, Deleting, Writing
  <2>2. ASSUME Inserting(q) PROVE service'[i] # Null /\ version'[i][req[q].call.tag] = Null
    BY <1>1, <1>4, <1>9, <1>11, <2>1, <2>2 DEF TxInv, Stands
  <2>3. ASSUME Deleting(q) PROVE version'[i][req[q].call.tag] # Null
    <3>1. InTx(q) /\ req[q].call.tag \in Held(q) /\ version[i][req[q].call.tag] # Null
      BY <1>11, <2>3 DEF TxInv, Progress, Deleting, Held, At, Stands
    <3>2. req[q].call.tag \notin tx[r].rows
      BY <1>2, <1>10, <1>11, <3>1 DEF TxInv, Apart, i
    <3> QED
      BY <1>1, <1>4, <2>1, <2>3, <3>1, <3>2
  <2> QED
    BY <2>2, <2>3
<1>12. \A j \in Ids \ {i} : service'[j] = service[j] /\ version'[j] = version[j]
  BY <1>4
<1>13. \A q \in Requests \ {r} : Stands(q)'
  BY <1>7, <1>8, <1>11, <1>12, OthersStand
<1> QED
  BY <1>3, <1>5, <1>6, <1>7, <1>13, EndedKeeps

LEMMA StatementKeeps ==
  ASSUME TxInv, NEW r \in Requests, Statement(r) PROVE [Next]_vars /\ TxInv'
BY InsertServiceKeeps, UpdateRowKeeps, EnterNameKeeps, UpdateVersionKeeps,
   ReadVersionsKeeps, DeleteVersionsKeeps, DeleteRowKeeps, CheckReferencesKeeps,
   InsertVersionKeeps, AddOneKeeps, DeleteVersionKeeps, SubtractOneKeeps DEF Statement

----------------------------------------------------------------------------
(* The rest of a request.                                                  *)

LEMMA OutsideTxKeeps ==
  ASSUME TxInv, NEW r \in Requests, OutsideTx(r) PROVE [Next]_vars /\ TxInv'
<1>1. [Next]_vars /\ UNCHANGED tx
  BY RequestStepsAre DEF OutsideTx, Step
<1>2. TypeOK'
  BY <1>1, NextType DEF TxInv
<1>3. ~At(r, "idle") /\ ~At(r, "write") /\ ~At(r, "subtract")
  BY DEF OutsideTx, CheckServiceExists, CheckName, CheckVersionExists, Read, Signal, At
<1>4. ~InTx(r)
  BY <1>3 DEF TxInv, Progress
<1>5. UNCHANGED tables
  BY DEF OutsideTx, CheckServiceExists, CheckName, CheckVersionExists, Read, Signal
<1>6. req[r].call.op \in Operations
  BY <1>3, InFlightRequest, CallParameters DEF TxInv, TypeOK, ReqType, At
<1>7. \/ \E st \in Statuses : Answer(r, st)
      \/ \E pc \in PCs \ {"subtract"} : Goto(r, pc)
  <2>1. AfterServiceExists[req[r].call.op] \in PCs \ {"subtract"}
    BY <1>6 DEF AfterServiceExists, Operations, PCs
  <2> QED
    BY <2>1 DEF OutsideTx, CheckServiceExists, CheckName, CheckVersionExists, Read, Signal,
                Statuses, PCs
<1>8. req'[r].pc # "subtract" /\ \A q \in Requests \ {r} : req'[q] = req[q]
  BY <1>3, <1>7, Moves
<1>9. \A q \in Requests \ {r} : Stands(q)'
  BY <1>1, <1>5, <1>8, TablesStand DEF tables
<1> QED
  BY <1>1, <1>2, <1>4, <1>8, <1>9, OutsideKeeps

LEMMA ReceiveKeeps ==
  ASSUME TxInv, NEW r \in Requests, Receive(r), UNCHANGED tx PROVE [Next]_vars /\ TxInv'
<1>1. [Next]_vars
  BY RequestStepsAre
<1>2. TypeOK'
  BY <1>1, NextType DEF TxInv
<1>3. ~InTx(r)
  BY DEF Receive, At, TxInv, Progress
<1>4. UNCHANGED tables
  BY DEF Receive
<1>5. PICK call \in Calls :
        IF WellFormed(call)
          THEN req' = [req EXCEPT ![r] = [call |-> call, pc |-> FirstStep[call.op],
                                          status |-> "none"]]
          ELSE Answer(r, "badRequest")
  BY DEF Receive
<1>6. WellFormed(call) => FirstStep[call.op] # "subtract"
  <2>1. WellFormed(call) => call.op \in Operations
    BY CallParameters
  <2> QED
    BY <2>1 DEF FirstStep
<1>7. req'[r].pc # "subtract" /\ \A q \in Requests \ {r} : req'[q] = req[q]
  <2>1. req \in [Requests -> ReqType]
    BY DEF TxInv, TypeOK, ReqType
  <2> QED
    BY <1>5, <1>6, <2>1 DEF Answer, Idle
<1>8. \A q \in Requests \ {r} : Stands(q)'
  BY <1>4, <1>7, TablesStand DEF tables
<1> QED
  BY <1>1, <1>2, <1>3, <1>7, <1>8, OutsideKeeps

LEMMA RollbackKeeps ==
  ASSUME TxInv, NEW r \in Requests, Rollback(r) PROVE [Next]_vars /\ TxInv'
<1>1. DBError(r) /\ Ends(r)
  BY DEF Rollback
<1>2. [Next]_vars
  BY <1>1, RequestStepsAre DEF Step
<1>3. TypeOK'
  BY <1>2, NextType DEF TxInv
<1>4. Answer(r, "internal") /\ UNCHANGED tables /\ ~At(r, "idle")
  BY <1>1 DEF DBError, At
<1>5. req'[r].pc # "subtract" /\ \A q \in Requests \ {r} : req'[q] = req[q]
  BY <1>4, Moves DEF Statuses
<1>6. \A q \in Requests \ {r} : tx'[q] = tx[q]
  BY <1>1 DEF Ends, TxInv, TxType
<1>7. \A q \in Requests \ {r} : Stands(q)'
  BY <1>4, <1>5, <1>6, TablesStand DEF tables
<1> QED
  BY <1>1, <1>2, <1>3, <1>5, <1>7, EndedKeeps

LEMMA TxCrashKeeps == ASSUME TxInv, TxCrash PROVE [Next]_vars /\ TxInv'
<1>1. [Next]_vars
  BY DEF TxCrash, Next
<1>2. TypeOK'
  BY <1>1, NextType DEF TxInv
<1>3. \A r \in Requests : req'[r].pc = "idle" /\ tx'[r] = NoTx
  BY DEF TxCrash, Crash, Idle
<1>4. TxType' /\ \A r \in Requests : ~InTx(r)' /\ tx'[r].rows = {}
  BY <1>3 DEF TxCrash, TxType, NoTx, InTx
<1>5. \A r \in Requests : Progress(r)' /\ Stands(r)'
  BY <1>3, <1>4 DEF Progress, Stands, Inserting, Deleting, At
<1>6. \A r, q \in Requests : r # q => Apart(r, q)'
  BY <1>4 DEF Apart
<1> QED
  BY <1>1, <1>2, <1>4, <1>5, <1>6 DEF TxInv

LEMMA SameKeeps ==
  ASSUME TxInv, TypeOK', UNCHANGED <<tables, req, tx>> PROVE TxInv'
<1>1. TxType'
  BY DEF TxInv, TxType
<1>2. \A q \in Requests : Progress(q)' /\ Stands(q)'
  BY OthersKeep DEF TxInv, Stands, tables
<1>3. ASSUME NEW q \in Requests, NEW p \in Requests, q # p PROVE Apart(q, p)'
  BY <1>3, OthersKeep DEF TxInv, Apart
<1> QED
  BY <1>1, <1>2, <1>3 DEF TxInv

----------------------------------------------------------------------------
(* Every transaction is a step of the catalogue.                           *)

LEMMA InitTxInv == TxInit => TxInv
<1> SUFFICES ASSUME TxInit PROVE TxInv
  OBVIOUS
<1>1. TypeOK
  BY InitType DEF TxInit
<1>2. TxType /\ \A r \in Requests : ~InTx(r) /\ tx[r].rows = {} /\ At(r, "idle")
  BY DEF TxInit, Init, TxType, NoTx, InTx, At, Idle
<1> QED
  BY <1>1, <1>2 DEF TxInv, Progress, Stands, Apart, Inserting, Deleting, At

LEMMA NextTxInv == TxInv /\ [TxNext]_txVars => [Next]_vars /\ TxInv'
<1> SUFFICES ASSUME TxInv, [TxNext]_txVars PROVE [Next]_vars /\ TxInv'
  OBVIOUS
<1>1. ASSUME NEW r \in Requests, Receive(r) /\ UNCHANGED <<tx, pool>>
      PROVE  [Next]_vars /\ TxInv'
  BY <1>1, ReceiveKeeps
<1>2. ASSUME NEW r \in Requests, TxStep(r) PROVE [Next]_vars /\ TxInv'
  <2>1. CASE OutsideTx(r) \/ Statement(r) \/ Rollback(r)
    BY <2>1, OutsideTxKeeps, StatementKeeps, RollbackKeeps
  <2>2. CASE Begin(r)
    <3>1. UNCHANGED vars /\ UNCHANGED <<tables, req, tx>>
      BY <2>2 DEF Begin, vars, tables
    <3> QED
      BY <3>1, NextType, SameKeeps DEF TxInv
  <2> QED
    BY <1>2, <2>1, <2>2 DEF TxStep
<1>3. CASE ViewsRefreshed /\ UNCHANGED <<tx, pool>>
  <2>1. [Next]_vars /\ UNCHANGED <<tables, req, tx>>
    BY <1>3 DEF Next, ViewsRefreshed
  <2> QED
    BY <2>1, NextType, SameKeeps DEF TxInv
<1>4. CASE TxCrash
  BY <1>4, TxCrashKeeps
<1>5. CASE OthersTake \/ OthersReturn \/ UNCHANGED txVars
  <2>1. UNCHANGED vars /\ UNCHANGED <<tables, req, tx>>
    BY <1>5 DEF OthersTake, OthersReturn, txVars, vars, tables
  <2> QED
    BY <2>1, NextType, SameKeeps DEF TxInv
<1> QED
  BY <1>1, <1>2, <1>3, <1>4, <1>5 DEF TxNext

LEMMA TxInvariance == TxSpec => []TxInv
BY InitTxInv, NextTxInv, PTL DEF TxSpec

\* However the statements of the transactions interleave, what is committed is what
\* the single steps of ServiceCatalog commit.
THEOREM TransactionsImplementCatalog == TxSpec => ImplementsServiceCatalog
<1>1. TxInit => Init
  BY DEF TxInit
<1>2. TxInv /\ [TxNext]_txVars => [Next]_vars
  BY NextTxInv
<1> QED
  BY <1>1, <1>2, TxInvariance, PTL DEF TxSpec, Spec, ImplementsServiceCatalog

\* So what holds of the catalogue holds of it under its transactions.
THEOREM TransactionsKeepCatalog ==
  TxSpec => [](NamesUnique /\ NoOrphanVersions /\ CountNeverOverstates)
BY TransactionsImplementCatalog, NamesStayUnique, OrphansNever, CountsNeverOverstate, PTL
   DEF ImplementsServiceCatalog

\* And to clients it is one map that requests read and change one at a time.
THEOREM TransactionsServeClients == TxSpec => ImplementsCatalogue
BY TransactionsImplementCatalog, CatalogueImplemented, PTL DEF ImplementsServiceCatalog

----------------------------------------------------------------------------
(* Deadlocks.                                                              *)

\* What a transaction holds that is not at a constraint, and whom it can so stop.
LEMMA BlockerHolds ==
  ASSUME TxInv, NEW r \in Requests, Writing(r), NEW q \in Requests, Writing(q),
         q \in Blockers(r), NextStatement(q) \notin {"checkReferences", "enterName"}
  PROVE  /\ NextStatement(q) \in {"deleteRow", "addOne", "subtractOne"}
         /\ NextStatement(r) \notin {"addOne", "subtractOne"}
         /\ NextStatement(r) = "deleteRow" => NextStatement(q) = "addOne"
<1>1. TypeOK /\ TxType /\ Progress(r) /\ Progress(q)
  BY DEF TxInv
<1>2. InTx(q) /\ (AwaitsName(r, q) \/ AwaitsRow(r, q))
  BY DEF Blockers
<1>3. tx[q].done # 0
  BY <1>1, <1>2 DEF InTx, TxType
<1>4. \/ IsAt(q, "deleteService", 1, "deleteVersions")
      \/ IsAt(q, "deleteService", 2, "deleteRow")
      \/ IsAt(q, "addServiceVersion", 1, "addOne")
      \/ IsAt(q, "deleteServiceVersion", 1, "subtractOne")
  BY <1>1, <1>3, NextStatementCases DEF IsAt
<1>5. /\ ~Done(q, "updateRow") /\ ~Done(q, "deleteRow")
      /\ Done(q, "insertVersion") => req[q].call.op = "addServiceVersion"
  BY <1>1, <1>2, <1>4, DoneCases DEF IsAt, Dropping, Inserting
<1>6. RowHeld(q) \in {"keyShare", "none"}
      /\ (RowHeld(q) = "keyShare" => NextStatement(q) = "addOne")
  <2>1. CASE Done(q, "insertVersion")
    BY <1>4, <1>5, <2>1 DEF RowHeld, IsAt
  <2>2. CASE ~Done(q, "insertVersion")
    BY <1>5, <2>2 DEF RowHeld
  <2> QED
    BY <2>1, <2>2
<1>7. AwaitsRow(r, q)
  BY <1>2, <1>5 DEF AwaitsName
<1>8. CASE VersionsWanted(r) \cap VersionsHeld(q) # {}
  <2>1. NextStatement(q) # "deleteVersions"
    BY <1>8 DEF VersionsHeld
  <2>2. NextStatement(r) \notin {"addOne", "subtractOne", "deleteRow"}
    BY <1>8 DEF VersionsWanted
  <2> QED
    BY <1>4, <2>1, <2>2 DEF IsAt
<1>9. CASE {RowWanted(r), RowHeld(q)} \in Conflicting
  <2>1. RowHeld(q) = "keyShare" /\ RowWanted(r) = "update"
    BY <1>6, <1>9 DEF Conflicting
  <2>2. NextStatement(r) \notin {"addOne", "subtractOne"}
    BY <2>1 DEF RowWanted
  <2> QED
    BY <1>6, <2>1, <2>2
<1> QED
  BY <1>7, <1>8, <1>9 DEF AwaitsRow

LEMMA OneAtConstraint ==
  ASSUME TxInv, NEW D \in SUBSET Requests, Deadlock(D)
  PROVE  \E r \in D : NextStatement(r) \in {"checkReferences", "enterName"}
<1> SUFFICES ASSUME \A r \in D : NextStatement(r) \notin {"checkReferences", "enterName"}
             PROVE  FALSE
  OBVIOUS
<1>1. \A r \in D : \E q \in D : q \in Blockers(r) /\ Writing(r) /\ Writing(q)
  BY DEF Deadlock
<1>2. \A r \in D : NextStatement(r) \notin {"addOne", "subtractOne"}
  BY <1>1, BlockerHolds
<1>3. \A r \in D : NextStatement(r) # "deleteRow"
  BY <1>1, <1>2, BlockerHolds
<1>4. \A r \in D : FALSE
  BY <1>1, <1>2, <1>3, BlockerHolds
<1> QED
  BY <1>4 DEF Deadlock

\* Two more things that the locks keep true, of which the deadlocks depend: an update of
\* a service holds no versions, and two deletes are at the references of one service only
\* when a third has deleted it, for good.
DeletesKnown ==
  \A r \in Requests :
    At(r, "write") /\ req[r].call.op = "deleteService" => req[r].call.id < nextId

RowsTaken ==
  /\ \A r \in Requests : InTx(r) /\ req[r].call.op = "updateService" => tx[r].rows = {}
  /\ \A r, q \in Requests :
       r # q /\ Dropping(r) /\ Dropping(q) /\ req[r].call.id = req[q].call.id
         => service[req[r].call.id] = Null

\* A request comes to delete a service after it has seen its row.
LEMMA DeletesKnownKept ==
  ASSUME IInv, OnPaths, DeletesKnown, [Next]_vars PROVE DeletesKnown'
<1> SUFFICES ASSUME NEW r \in Requests, req'[r].pc = "write",
                    req'[r].call.op = "deleteService"
             PROVE  req'[r].call.id < nextId'
  BY DEF DeletesKnown, At
<1>1. TypeOK /\ FreshIds /\ OnPath(req[r])
  BY DEF IInv, OnPaths
<1>2. req[r].pc # "idle" => req[r].call \in Calls /\ WellFormed(req[r].call)
  BY <1>1, InFlightRequest DEF TypeOK, ReqType
<1>3. CASE req'[r] = req[r]
  <2>1. req[r].call.id \in Ids /\ req[r].call.id < nextId
    BY <1>2, <1>3, CallParameters DEF DeletesKnown, At
  <2> QED
    BY <1>3, <2>1, GoneStays
<1>4. CASE Arrives(r)
  <2>1. PICK call \in Calls :
          /\ WellFormed(call)
          /\ req'[r] = [call |-> call, pc |-> FirstStep[call.op], status |-> "none"]
    BY <1>4 DEF Arrives
  <2>2. call.op = "deleteService" /\ FirstStep[call.op] = "write" /\ call.op \in Operations
    BY <2>1, CallParameters
  <2> QED
    BY <2>2 DEF FirstStep
<1>5. CASE Checked(r)
  <2>1. req'[r].call = req[r].call /\ req[r].pc # "idle" /\ nextId' = nextId
    BY <1>5 DEF Checked, Advances, tables
  <2>2. At(r, "serviceExists") /\ service[req[r].call.id] # Null
    BY <1>1, <1>5, <2>1 DEF Checked, Advances, OnPath, At
  <2>3. req[r].call.id \in Ids
    BY <1>2, <2>1, CallParameters
  <2>4. nextId \in Int /\ req[r].call.id \in Int
    BY <1>1, <2>3, BoundAssumption DEF TypeOK, Ids
  <2> QED
    BY <1>1, <2>1, <2>2, <2>3, <2>4 DEF FreshIds
<1>6. req'[r].pc # "idle" /\ ~Advances(r, "signal")
  BY DEF Advances
<1> QED
  BY <1>1, <1>3, <1>4, <1>5, <1>6, RequestMoves

\* A request that writes is the one it was when it came to its write.
LEMMA CallKept ==
  ASSUME TypeOK, [Next]_vars, NEW q \in Requests, Writing(q)'
  PROVE  req'[q].call = req[q].call
<1>1. req'[q].pc \in {"write", "subtract"}
  BY DEF Writing, At
<1>2. CASE Arrives(q)
  <2>1. PICK call \in Calls :
          /\ WellFormed(call)
          /\ req'[q] = [call |-> call, pc |-> FirstStep[call.op], status |-> "none"]
    BY <1>2 DEF Arrives
  <2>2. call.op \in Operations /\ FirstStep[call.op] \in {"write", "subtract"}
    BY <1>1, <2>1, CallParameters
  <2> QED
    BY <2>2 DEF FirstStep
<1>3. CASE Checked(q)
  <2>1. \E pc : Advances(q, pc)
    BY <1>3 DEF Checked
  <2> QED
    BY <2>1 DEF Advances
<1>4. ~Advances(q, "signal") /\ req'[q].pc # "idle"
  BY <1>1 DEF Advances
<1> QED
  BY <1>2, <1>3, <1>4, RequestMoves

\* How a transaction gets further.
LEMMA TxMoves ==
  ASSUME TxInv, [TxNext]_txVars, NEW q \in Requests, InTx(q)'
  PROVE  \/ tx'[q] = tx[q]
         \/ /\ service' = service
            /\ tx'[q].done = tx[q].done + 1
            /\ \A p \in Requests \ {q} : tx'[p] = tx[p]
            /\ \/ Ready(q, "updateRow") /\ tx'[q].rows = {}
               \/ Ready(q, "deleteRow")
               \/ \E s \in {"readVersions", "deleteVersions", "insertVersion",
                            "deleteVersion"} : Ready(q, s)
<1> DEFINE Further ==
      /\ service' = service
      /\ tx'[q].done = tx[q].done + 1
      /\ \A p \in Requests \ {q} : tx'[p] = tx[p]
      /\ \/ Ready(q, "updateRow") /\ tx'[q].rows = {}
         \/ Ready(q, "deleteRow")
         \/ \E s \in {"readVersions", "deleteVersions", "insertVersion",
                      "deleteVersion"} : Ready(q, s)
<1>1. tx \in [Requests -> [done : Nat, rows : SUBSET Tags]]
  BY DEF TxInv, TxType
<1>2. ASSUME NEW r \in Requests, Ends(r) PROVE tx'[q] = tx[q]
  BY <1>1, <1>2 DEF Ends, NoTx, InTx
<1>3. ASSUME NEW r \in Requests \ {q}, NEW rows, Proceed(r, rows) PROVE tx'[q] = tx[q]
  BY <1>1, <1>3 DEF Proceed
<1>4. ASSUME NEW rows, Proceed(q, rows)
      PROVE  /\ tx'[q].done = tx[q].done + 1 /\ tx'[q].rows = rows
             /\ \A p \in Requests \ {q} : tx'[p] = tx[p]
  BY <1>1, <1>4 DEF Proceed
<1>5. ASSUME NEW r \in Requests \ {q}, Statement(r) PROVE tx'[q] = tx[q]
  <2>1. Ends(r) \/ \E rows : Proceed(r, rows)
    <3>1. CASE InsertService(r) \/ UpdateRow(r) \/ EnterName(r) \/ UpdateVersion(r)
      BY <3>1 DEF InsertService, UpdateRow, EnterName, UpdateVersion
    <3>2. CASE ReadVersions(r) \/ DeleteVersions(r) \/ DeleteRow(r) \/ CheckReferences(r)
      BY SMTT(30), <3>2 DEF ReadVersions, DeleteVersions, DeleteRow, CheckReferences, Refused
    <3>3. CASE InsertVersion(r) \/ AddOne(r) \/ DeleteVersion(r) \/ SubtractOne(r)
      BY <3>3 DEF InsertVersion, AddOne, DeleteVersion, SubtractOne, Refused
    <3> QED
      BY <1>5, <3>1, <3>2, <3>3 DEF Statement
  <2> QED
    BY <1>2, <1>3, <2>1
<1>6. ASSUME Statement(q) PROVE tx'[q] = tx[q] \/ Further
  <2>1. CASE Ends(q)
    BY <1>2, <2>1
  <2>2. CASE UpdateRow(q) /\ ~Ends(q)
    <3>1. Ready(q, "updateRow") /\ Proceed(q, {}) /\ service' = service
      BY <2>2 DEF UpdateRow, tables
    <3> QED
      BY <1>4, <3>1
  <2>3. CASE ReadVersions(q) \/ DeleteVersions(q) \/ DeleteRow(q)
    <3>1. /\ (\E rows : Proceed(q, rows)) /\ service' = service
          /\ Ready(q, "readVersions") \/ Ready(q, "deleteVersions") \/ Ready(q, "deleteRow")
      BY <2>3 DEF ReadVersions, DeleteVersions, DeleteRow, vars
    <3> QED
      BY <1>4, <3>1
  <2>4. CASE InsertVersion(q) /\ ~Ends(q)
    <3>1. Ready(q, "insertVersion") /\ (\E rows : Proceed(q, rows)) /\ service' = service
      BY <2>4 DEF InsertVersion, Refused, tables
    <3> QED
      BY <1>4, <3>1
  <2>5. CASE DeleteVersion(q)
    <3>1. Ready(q, "deleteVersion") /\ (\E rows : Proceed(q, rows)) /\ service' = service
      BY <2>5 DEF DeleteVersion, DeleteFindsNothing, vars, tables
    <3> QED
      BY <1>4, <3>1
  <2>6. CASE \/ InsertService(q) \/ EnterName(q) \/ UpdateVersion(q) \/ CheckReferences(q)
             \/ AddOne(q) \/ SubtractOne(q)
    BY <2>1, <2>6 DEF InsertService, EnterName, UpdateVersion, CheckReferences, AddOne,
                      SubtractOne, Refused
  <2> QED
    BY <1>6, <2>1, <2>2, <2>3, <2>4, <2>5, <2>6 DEF Statement
<1>7. ASSUME NEW r \in Requests, OutsideTx(r) \/ Begin(r) \/ Rollback(r) PROVE tx'[q] = tx[q]
  BY <1>2, <1>7 DEF OutsideTx, Begin, Rollback
<1>8. CASE TxCrash
  BY <1>8 DEF TxCrash, NoTx, InTx
<1>9. ASSUME NEW r \in Requests, Statement(r) PROVE tx'[q] = tx[q] \/ Further
  BY <1>5, <1>6, <1>9
<1>10. CASE UNCHANGED tx
  BY <1>10
<1> QED
  BY <1>7, <1>8, <1>9, <1>10 DEF TxNext, TxStep, OthersTake, OthersReturn, txVars

\* A delete gets the row of a service from no other that has it, unless there is no row.
LEMMA RowFree ==
  ASSUME TxInv, NEW r \in Requests, NEW q \in Requests \ {r}, Ready(r, "deleteRow"),
         Dropping(q), req[r].call.id = req[q].call.id
  PROVE  service[req[r].call.id] = Null
<1>1. TypeOK /\ TxType /\ Progress(q) /\ InTx(q)
  BY DEF TxInv, InTx, Dropping
<1>2. Done(q, "deleteRow") /\ ~Done(q, "insertVersion") /\ ~Done(q, "updateRow")
  BY <1>1, DoneCases DEF Inserting
<1>3. RowHeld(q) = "update"
  BY <1>2 DEF RowHeld
<1>4. RowWanted(r) = "update"
  <2>1. NextStatement(r) = "deleteRow"
    BY DEF Ready
  <2> QED
    BY <2>1 DEF RowWanted
<1>5. {RowWanted(r), RowHeld(q)} \in Conflicting
  BY <1>3, <1>4 DEF Conflicting
<1>6. req[r].call.id \in Ids
  BY ReadyAt, WriteCall
<1> QED
  BY <1>1, <1>5, <1>6, NotBlocked

LEMMA RowsTakenKept ==
  ASSUME TxInv, TxInv', IInv, DeletesKnown, RowsTaken, [TxNext]_txVars, [Next]_vars
  PROVE  RowsTaken'
<1>1. \A r \in Requests : InTx(r)' => Writing(r)' /\ req'[r].call = req[r].call
  <2> SUFFICES ASSUME NEW r \in Requests, InTx(r)' PROVE Writing(r)' /\ req'[r].call = req[r].call
    OBVIOUS
  <2>1. Writing(r)'
    BY DEF TxInv, Progress, Writing
  <2> QED
    BY <2>1, CallKept DEF TxInv
<1>2. ASSUME NEW r \in Requests, InTx(r)', req'[r].call.op = "updateService"
      PROVE  tx'[r].rows = {}
  <2>1. CASE tx'[r] = tx[r]
    BY <1>1, <1>2, <2>1 DEF RowsTaken, InTx
  <2>2. ASSUME NEW s, Ready(r, s), s \in {"deleteRow", "readVersions", "deleteVersions",
                                          "insertVersion", "deleteVersion"}
        PROVE  FALSE
    BY <1>1, <1>2, <2>2, ReadyAt
  <2> QED
    BY <1>2, <2>1, <2>2, TxMoves
<1>3. \A r \in Requests : Dropping(r)' => InTx(r)' /\ req'[r].call = req[r].call
  BY <1>1 DEF Dropping, InTx
<1>4. ASSUME NEW r \in Requests, Dropping(r)', tx'[r] # tx[r]
      PROVE  /\ Ready(r, "deleteRow") /\ service' = service
             /\ \A p \in Requests \ {r} : tx'[p] = tx[p]
  <2>1. tx[r].done + 1 = 3 /\ tx[r].done \in Nat
    BY <1>3, <1>4, TxMoves DEF Dropping, TxInv, TxType
  <2>2. ASSUME NEW s, Ready(r, s), s \in {"updateRow", "readVersions", "deleteVersions",
                                          "insertVersion", "deleteVersion"}
        PROVE  FALSE
    BY <2>1, <2>2, ReadyAt
  <2> QED
    BY <1>3, <1>4, <2>2, TxMoves
<1>5. ASSUME NEW r \in Requests, NEW q \in Requests \ {r}, Dropping(r)', Dropping(q)',
             req'[r].call.id = req'[q].call.id, tx'[r] # tx[r]
      PROVE  service'[req'[r].call.id] = Null
  <2>1. tx'[q] = tx[q] /\ Ready(r, "deleteRow") /\ service' = service
    BY <1>4, <1>5
  <2>2. Dropping(q) /\ req[r].call.id = req[q].call.id
    BY <1>3, <1>5, <2>1 DEF Dropping
  <2> QED
    BY <1>3, <1>5, <2>1, <2>2, RowFree
<1>6. ASSUME NEW r \in Requests, NEW q \in Requests \ {r}, Dropping(r)', Dropping(q)',
             req'[r].call.id = req'[q].call.id, tx'[r] = tx[r], tx'[q] = tx[q]
      PROVE  service'[req'[r].call.id] = Null
  <2>1. Dropping(r) /\ Dropping(q) /\ req[r].call.id = req[q].call.id
    BY <1>3, <1>6 DEF Dropping
  <2>2. service[req[r].call.id] = Null
    BY <2>1 DEF RowsTaken
  <2>3. At(r, "write") /\ req[r].call.op = "deleteService"
    BY <2>1 DEF TxInv, Progress, Dropping, InTx
  <2>4. req[r].call.id < nextId /\ req[r].call.id \in Ids
    BY <2>3, WriteCall DEF DeletesKnown, Writing
  <2> QED
    BY <1>3, <1>6, <2>2, <2>4, GoneStays
<1> QED
  BY <1>2, <1>5, <1>6 DEF RowsTaken

\* A DeleteService that waits for versions which refer to its service waits for another
\* deletion, and has the row that this one waits for.
LEMMA AtReferences ==
  ASSUME TxInv, RowsTaken, NoOrphanVersions, NEW r \in Requests, Writing(r),
         NextStatement(r) = "checkReferences", NEW q \in Requests, Writing(q), q \in Blockers(r)
  PROVE  NextStatement(q) \in {"deleteRow", "subtractOne"} /\ r \in Blockers(q)
<1>1. TypeOK /\ TxType /\ Progress(r) /\ Progress(q) /\ Apart(q, r) /\ r # q
  BY DEF TxInv, Blockers
<1>2. req[r].call.op = "deleteService" /\ Dropping(r) /\ InTx(r)
  BY <1>1, NextStatementCases DEF IsAt, Dropping, InTx
<1>3. RowHeld(r) = "update"
  <2>1. Done(r, "deleteRow") /\ ~Done(r, "insertVersion") /\ ~Done(r, "updateRow")
    BY <1>1, <1>2, DoneCases DEF Inserting
  <2> QED
    BY <2>1 DEF RowHeld
<1>4. InTx(q) /\ AwaitsRow(r, q)
  BY DEF Blockers, AwaitsName
<1>5. RowWanted(r) = "none" /\ VersionsWanted(r) = References(r)
  BY DEF RowWanted, VersionsWanted
<1>6. {RowWanted(r), RowHeld(q)} \notin Conflicting
  BY <1>5 DEF Conflicting
<1>7. PICK t \in References(r) : t \in VersionsHeld(q)
  BY <1>4, <1>5, <1>6 DEF AwaitsRow
<1>8. req[q].call.id = req[r].call.id /\ t \in tx[q].rows /\ NextStatement(q) # "deleteVersions"
  BY <1>4, <1>7 DEF AwaitsRow, VersionsHeld
<1>9. req[r].call.id \in Ids /\ service[req[r].call.id] # Null
  <2>1. req[r].call.id \in Ids
    BY <1>2, WriteCall
  <2>2. t \in Tags /\ version[req[r].call.id][t] # Null
    BY <1>7 DEF References, VersionsOf
  <2> QED
    BY <2>1, <2>2 DEF NoOrphanVersions, VersionsOf
<1>10. ~Dropping(q)
  BY <1>1, <1>2, <1>8, <1>9 DEF RowsTaken
<1>11. ~Inserting(q)
  BY <1>1, <1>2, <1>4, <1>8 DEF Apart
<1>12. req[q].call.op # "updateService"
  BY <1>4, <1>8 DEF RowsTaken
<1>13. NextStatement(q) \in {"deleteRow", "subtractOne"}
  <2>1. tx[q].done # 0
    BY <1>1, <1>4 DEF InTx, TxType
  <2>2. NextStatement(q) = "addOne" => Inserting(q)
    BY <1>1, <1>4, <2>1, NextStatementCases DEF IsAt, Inserting, Progress
  <2> QED
    BY <1>1, <1>8, <1>10, <1>11, <1>12, <2>1, <2>2, NextStatementCases DEF IsAt, Dropping
<1>14. RowWanted(q) \in {"update", "noKeyUpdate"}
  BY <1>13 DEF RowWanted
<1>15. {RowWanted(q), RowHeld(r)} \in Conflicting
  BY <1>3, <1>14 DEF Conflicting
<1>16. AwaitsRow(q, r)
  BY <1>8, <1>9, <1>15 DEF AwaitsRow
<1> QED
  BY <1>1, <1>2, <1>13, <1>16 DEF Blockers

\* A rename that waits for its name waits for another rename, or a DeleteService.
LEMMA AtName ==
  ASSUME TxInv, NEW r \in Requests, NextStatement(r) = "enterName", NEW q \in Requests,
         q \in Blockers(r)
  PROVE  NextStatement(q) \in {"enterName", "checkReferences"}
<1>1. TypeOK /\ TxType /\ Progress(q) /\ InTx(q)
  BY DEF TxInv, Blockers
<1>2. RowWanted(r) = "none" /\ VersionsWanted(r) = {}
  BY DEF RowWanted, VersionsWanted
<1>3. ~AwaitsRow(r, q)
  BY <1>2 DEF AwaitsRow, Conflicting
<1>4. Done(q, "updateRow") \/ Done(q, "deleteRow")
  BY <1>3 DEF Blockers, AwaitsName
<1>5. Writing(q) /\ (req[q].call.op = "updateService" \/ Dropping(q))
  BY <1>1, <1>4, DoneCases
<1>6. tx[q].done # 0
  BY <1>1 DEF InTx, TxType
<1> QED
  BY <1>1, <1>5, <1>6, NextStatementCases DEF IsAt, Dropping

LEMMA DeadlockShapes ==
  TxInv /\ RowsTaken /\ NoOrphanVersions => DeadlockOnlyAtConstraint
<1> SUFFICES ASSUME TxInv, RowsTaken, NoOrphanVersions, NEW D \in SUBSET Requests, Deadlock(D)
             PROVE  \/ \E r, q \in D : /\ NextStatement(r) = "checkReferences"
                                       /\ NextStatement(q) \in {"deleteRow", "subtractOne"}
                                       /\ Deadlock({r, q})
                    \/ Deadlock({r \in D : NextStatement(r) = "enterName"})
  BY DEF DeadlockOnlyAtConstraint
<1>1. \A r \in D : Writing(r) /\ \E q \in D : q \in Blockers(r)
  BY DEF Deadlock
<1>2. ASSUME NEW r \in D, NextStatement(r) = "checkReferences"
      PROVE  \E q \in D : /\ NextStatement(q) \in {"deleteRow", "subtractOne"}
                          /\ Deadlock({r, q})
  <2>1. PICK q \in D : q \in Blockers(r)
    BY <1>1
  <2>2. NextStatement(q) \in {"deleteRow", "subtractOne"} /\ r \in Blockers(q)
    BY <1>1, <1>2, <2>1, AtReferences
  <2>3. Deadlock({r, q})
    BY <1>1, <2>1, <2>2 DEF Deadlock
  <2> QED
    BY <2>2, <2>3
<1>3. ASSUME \A r \in D : NextStatement(r) # "checkReferences"
      PROVE  Deadlock({r \in D : NextStatement(r) = "enterName"})
  <2> DEFINE E == {r \in D : NextStatement(r) = "enterName"}
  <2>1. E # {}
    BY <1>3, OneAtConstraint
  <2>2. ASSUME NEW r \in E PROVE Writing(r) /\ Blockers(r) \cap E # {}
    <3>1. PICK q \in D : q \in Blockers(r)
      BY <1>1
    <3>2. NextStatement(q) = "enterName"
      BY <1>3, <3>1, AtName
    <3> QED
      BY <1>1, <3>1, <3>2
  <2> QED
    BY <2>1, <2>2 DEF Deadlock
<1> QED
  BY <1>2, <1>3

\* The row locks of the transactions never deadlock by themselves, and adding versions or
\* changing them never takes part in a deadlock: whatever requests wait for each other, two
\* of them are deletions at the references of one service, or renames go round.
THEOREM DeadlocksAtConstraints == TxSpec => []DeadlockOnlyAtConstraint
<1>1. TxInit => OnPaths /\ DeletesKnown /\ RowsTaken
  BY DEF TxInit, Init, OnPaths, OnPath, DeletesKnown, RowsTaken, At, Idle, NoTx, InTx, Dropping
<1>2. TxSpec => [](IInv /\ NoOrphanVersions)
  BY TransactionsImplementCatalog, Invariance, PTL DEF ImplementsServiceCatalog, IInv
<1>3. IInv /\ OnPaths /\ [Next]_vars => OnPaths'
  BY OnPathsKept DEF IInv
<1>4. (/\ TxInv /\ TxInv' /\ IInv /\ OnPaths /\ DeletesKnown /\ RowsTaken
       /\ [TxNext]_txVars /\ [Next]_vars)
        => DeletesKnown' /\ RowsTaken'
  BY DeletesKnownKept, RowsTakenKept
<1> QED
  BY <1>1, <1>2, <1>3, <1>4, TxInvariance, NextTxInv, DeadlockShapes, PTL DEF TxSpec

----------------------------------------------------------------------------
(* The pool.                                                               *)

LockersConnected == \A r \in Requests : InTx(r) => r \in conns

LEMMA NextLockersConnected ==
  TxInv /\ LockersConnected /\ [TxNext]_txVars => LockersConnected'
<1> SUFFICES ASSUME TxInv, LockersConnected, [TxNext]_txVars, NEW q \in Requests, InTx(q)'
             PROVE  q \in conns'
  BY DEF LockersConnected
<1>1. tx \in [Requests -> [done : Nat, rows : SUBSET Tags]]
  BY DEF TxInv, TxType
<1>2. CASE UNCHANGED tx /\ conns \subseteq conns'
  BY <1>2 DEF LockersConnected, InTx
<1>3. ASSUME NEW r \in Requests, NEW rows, Connected(r), Proceed(r, rows) PROVE q \in conns'
  <2>1. CASE q = r
    BY <1>3, <2>1 DEF Connected, Proceed
  <2>2. CASE q # r
    BY <1>1, <1>3, <2>2 DEF Proceed, LockersConnected, InTx
  <2> QED
    BY <2>1, <2>2
<1>4. ASSUME NEW r \in Requests, Ends(r) PROVE q \in conns'
  <2>1. q # r
    BY <1>1, <1>4 DEF Ends, InTx, NoTx
  <2> QED
    BY <1>1, <1>4, <2>1 DEF Ends, LockersConnected, InTx
<1>5. ASSUME NEW r \in Requests, Statement(r) PROVE q \in conns'
  <2>1. Connected(r) /\ (Ends(r) \/ \E rows : Proceed(r, rows))
    <3>1. CASE InsertService(r) \/ UpdateRow(r) \/ EnterName(r) \/ UpdateVersion(r)
      BY <3>1 DEF InsertService, UpdateRow, EnterName, UpdateVersion, Ready
    <3>2. CASE ReadVersions(r) \/ DeleteVersions(r) \/ DeleteRow(r) \/ CheckReferences(r)
      BY SMTT(30), <3>2 DEF ReadVersions, DeleteVersions, DeleteRow, CheckReferences,
                       Ready, Refused
    <3>3. CASE InsertVersion(r) \/ AddOne(r) \/ DeleteVersion(r) \/ SubtractOne(r)
      BY <3>3 DEF InsertVersion, AddOne, DeleteVersion, SubtractOne, Ready, Refused
    <3> QED
      BY <1>5, <3>1, <3>2, <3>3 DEF Statement
  <2>2. CASE Ends(r)
    BY <1>4, <2>2
  <2>3. CASE \E rows : Proceed(r, rows)
    BY <1>3, <2>1, <2>3
  <2> QED
    BY <2>1, <2>2, <2>3
<1>6. ASSUME NEW r \in Requests, TxStep(r) PROVE q \in conns'
  <2>1. CASE OutsideTx(r) \/ Begin(r)
    <3>1. UNCHANGED tx /\ conns \subseteq conns'
      BY <2>1 DEF OutsideTx, Begin, pool
    <3> QED
      BY <1>2, <3>1
  <2>2. CASE Statement(r)
    BY <1>5, <2>2
  <2>3. CASE Rollback(r)
    BY <1>4, <2>3 DEF Rollback
  <2> QED
    BY <1>6, <2>1, <2>2, <2>3 DEF TxStep
<1>7. CASE TxCrash
  BY <1>7 DEF TxCrash, InTx, NoTx
<1> QED
  BY <1>2, <1>6, <1>7 DEF TxNext, OthersTake, OthersReturn, txVars, pool

\* Whoever makes another request wait for a lock has a connection: those who wait for one
\* at the limit of the pool hold nothing, so that no deadlock runs through the pool, where
\* the database could not see it.
THEOREM NoDeadlockThroughPool ==
  TxSpec => [](\A r, q \in Requests : q \in Blockers(r) => q \in conns)
<1>1. TxInit => LockersConnected
  BY DEF TxInit, LockersConnected, InTx, NoTx
<1>2. LockersConnected => \A r, q \in Requests : q \in Blockers(r) => q \in conns
  BY DEF LockersConnected, Blockers
<1> QED
  BY <1>1, <1>2, TxInvariance, NextLockersConnected, PTL DEF TxSpec

\* Who has a connection is writing, and whoever holds a lock has one.
PoolInv == LockersConnected /\ conns \subseteq {r \in Requests : Writing(r)} /\ others \in Nat

\* A statement leaves its request at its write, or ends its transaction.
LEMMA StatementMoves ==
  ASSUME TxInv, NEW r \in Requests, Statement(r)
  PROVE  /\ r \in conns
         /\ UNCHANGED others
         /\ \A q \in Requests \ {r} : req'[q] = req[q]
         /\ \/ conns' = conns \ {r}
            \/ conns' = conns /\ (req'[r] = req[r] \/ req'[r].pc = "subtract")
<1>1. req \in [Requests -> ReqType]
  BY DEF TxInv, TypeOK, ReqType
<1>2. ASSUME NEW s, Ready(r, s) PROVE r \in conns /\ UNCHANGED others
  BY <1>2 DEF Ready, Connected
<1>3. ASSUME NEW st, Answer(r, st) PROVE \A q \in Requests \ {r} : req'[q] = req[q]
  BY <1>1, <1>3 DEF Answer
<1>4. ASSUME NEW pc, Goto(r, pc) PROVE \A q \in Requests \ {r} : req'[q] = req[q]
  BY <1>1, <1>4 DEF Goto
<1>5. Committed(r) => \A q \in Requests \ {r} : req'[q] = req[q]
  BY <1>3, <1>4 DEF Committed
<1>6. CASE InsertService(r) \/ EnterName(r) \/ UpdateVersion(r)
  BY <1>2, <1>3, <1>5, <1>6 DEF InsertService, EnterName, UpdateVersion, CreateService,
     UpdateService, UpdateServiceVersion, Ends
<1>7. CASE UpdateRow(r)
  BY <1>2, <1>5, <1>7 DEF UpdateRow, Ends, Proceed
<1>8. CASE ReadVersions(r) \/ DeleteVersions(r) \/ DeleteRow(r)
  BY <1>2, <1>8 DEF ReadVersions, DeleteVersions, DeleteRow, Proceed, vars
<1>9. CASE CheckReferences(r) \/ AddOne(r) \/ SubtractOne(r)
  BY <1>2, <1>3, <1>5, <1>9 DEF CheckReferences, AddOne, SubtractOne, Refused, Ends
<1>10. CASE InsertVersion(r)
  BY <1>2, <1>3, <1>10 DEF InsertVersion, Refused, Ends, Proceed
<1>11. CASE DeleteVersion(r)
  <2>1. CASE UNCHANGED vars
    BY <1>2, <1>11, <2>1 DEF DeleteVersion, Proceed, vars
  <2>2. CASE DeleteFindsNothing(r)
    <3>1. req'[r].pc = "subtract"
      <4>1. req[r] \in InFlight
        BY <1>1, <2>2, InFlightRequest DEF DeleteFindsNothing, Running, At
      <4> QED
        BY <1>1, <2>2, <4>1 DEF DeleteFindsNothing, Goto, InFlight
    <3> QED
      BY <1>2, <1>4, <1>11, <2>2, <3>1 DEF DeleteVersion, DeleteFindsNothing, Proceed
  <2> QED
    BY <1>11, <2>1, <2>2 DEF DeleteVersion
<1> QED
  BY <1>6, <1>7, <1>8, <1>9, <1>10, <1>11 DEF Statement

LEMMA NextPoolInv == TxInv /\ PoolInv /\ [TxNext]_txVars => PoolInv'
<1> SUFFICES ASSUME TxInv, PoolInv, [TxNext]_txVars
             PROVE  (conns' \subseteq {r \in Requests : Writing(r)'}) /\ others' \in Nat
  BY NextLockersConnected DEF PoolInv
<1>1. /\ req \in [Requests -> ReqType] /\ others \in Nat
      /\ \A q \in conns : q \in Requests /\ req[q].pc \in {"write", "subtract"}
  BY DEF TxInv, TypeOK, ReqType, PoolInv, Writing, At
<1> SUFFICES (\A q \in conns' : q \in Requests /\ req'[q].pc \in {"write", "subtract"})
               /\ others' \in Nat
  BY DEF Writing, At
<1>2. CASE UNCHANGED req /\ UNCHANGED conns /\ others' \in Nat
  BY <1>1, <1>2
<1>3. CASE OthersTake \/ OthersReturn
  <2>1. others' \in Nat
    BY <1>1, <1>3 DEF OthersTake, OthersReturn
  <2> QED
    BY <1>2, <1>3, <2>1 DEF OthersTake, OthersReturn, vars
<1>4. CASE ViewsRefreshed /\ UNCHANGED <<tx, pool>>
  BY <1>1, <1>2, <1>4 DEF ViewsRefreshed, pool
<1>5. CASE TxCrash
  BY <1>5 DEF TxCrash
<1>6. ASSUME NEW r \in Requests, r \notin conns, UNCHANGED pool,
             \A q \in Requests \ {r} : req'[q] = req[q]
      PROVE  (\A q \in conns' : q \in Requests /\ req'[q].pc \in {"write", "subtract"})
               /\ others' \in Nat
  BY <1>1, <1>6 DEF pool
<1>7. ASSUME NEW r \in Requests, Receive(r), UNCHANGED <<tx, pool>>
      PROVE  (\A q \in conns' : q \in Requests /\ req'[q].pc \in {"write", "subtract"})
               /\ others' \in Nat
  <2>1. r \notin conns /\ \A q \in Requests \ {r} : req'[q] = req[q]
    BY <1>1, <1>7 DEF Receive, At, Answer
  <2> QED
    BY <1>6, <1>7, <2>1
<1>8. ASSUME NEW r \in Requests, OutsideTx(r)
      PROVE  (\A q \in conns' : q \in Requests /\ req'[q].pc \in {"write", "subtract"})
               /\ others' \in Nat
  <2>1. r \notin conns /\ \A q \in Requests \ {r} : req'[q] = req[q]
    BY <1>1, <1>8 DEF OutsideTx, Signal, CheckServiceExists, CheckName, CheckVersionExists,
       Read, At, Answer, Goto
  <2>2. UNCHANGED pool
    BY <1>8 DEF OutsideTx
  <2> QED
    BY <1>6, <2>1, <2>2
<1>9. ASSUME NEW r \in Requests, Begin(r)
      PROVE  (\A q \in conns' : q \in Requests /\ req'[q].pc \in {"write", "subtract"})
               /\ others' \in Nat
  BY <1>1, <1>9 DEF Begin, Writing, At, vars
<1>10. ASSUME NEW r \in Requests, Statement(r)
      PROVE  (\A q \in conns' : q \in Requests /\ req'[q].pc \in {"write", "subtract"})
               /\ others' \in Nat
  BY <1>1, <1>10, StatementMoves
<1>11. ASSUME NEW r \in Requests, Rollback(r)
      PROVE  (\A q \in conns' : q \in Requests /\ req'[q].pc \in {"write", "subtract"})
               /\ others' \in Nat
  BY <1>1, <1>11 DEF Rollback, DBError, Answer, Ends
<1>12. CASE UNCHANGED txVars
  BY <1>1, <1>2, <1>12 DEF txVars, vars, pool
<1> QED
  BY <1>3, <1>4, <1>5, <1>7, <1>8, <1>9, <1>10, <1>11, <1>12 DEF TxNext, TxStep

\* At any size of the pool and for any number of requests: whenever somebody waits for a
\* lock or for a connection, somebody who has one can go on, the rest of the program will
\* give one back, or those who have them are in a deadlock of locks alone.
THEOREM WaitingEnds == TxSpec => []NobodyWaitsInVain
<1>1. TxInit => PoolInv
  BY DEF TxInit, PoolInv, LockersConnected, InTx, NoTx
<1>2. PoolInv => NobodyWaitsInVain
  <2> SUFFICES ASSUME PoolInv, conns # {} \/ (~Free /\ others = 0),
                      \A r \in conns : Blockers(r) # {}
               PROVE  Deadlock(conns)
    BY DEF NobodyWaitsInVain, Connected
  <2>1. conns # {}
    <3> SUFFICES ASSUME conns = {}, others = 0 PROVE Free
      OBVIOUS
    <3>1. Cardinality(conns) = 0
      BY FS_EmptySet
    <3> QED
      BY <3>1, MaxOpenConnAssumption DEF Free
  <2>2. \A r \in conns : Writing(r)
    BY DEF PoolInv
  <2>3. \A r \in conns : Blockers(r) \cap conns # {}
    BY DEF PoolInv, LockersConnected, Blockers
  <2> QED
    BY <2>1, <2>2, <2>3 DEF Deadlock
<1> QED
  BY <1>1, <1>2, TxInvariance, NextPoolInv, PTL DEF TxSpec
=============================================================================
