------------------------- MODULE ServiceSystemProofs -------------------------
(***************************************************************************)
(* The composed system implements its two parts: the catalogue of          *)
(* ServiceCatalog, and the view protocol of ViewSync under the mapping of  *)
(* ServiceSystem.  What is proved of either part holds of the system.      *)
(***************************************************************************)
EXTENDS ServiceSystem, ServiceCatalogProofs

LEMMA SystemStepIsCatalogStep == [SystemNext]_systemVars => [Next]_vars
BY DEF SystemNext, RequestStep, SyncStep, SyncClearsFlag, SyncGivesUp, ContextCancelled,
       ProcessEnds, Restart, systemVars, Next

\* Seen through its tables, its requests and its flag, the system is the catalogue.
THEOREM SystemImplementsCatalog == SystemSpec => Spec
<1>1. SystemInit => Init
  BY DEF SystemInit
<1> QED
  BY <1>1, SystemStepIsCatalogStep, PTL DEF SystemSpec, Spec

\* The counts of the composed system never overstate the versions either.
THEOREM SystemCountsNeverOverstate == SystemSpec => []CountNeverOverstates
BY SystemImplementsCatalog, CountsNeverOverstate, PTL

\* With the view goroutine beside them and the process coming and going, the requests
\* keep the promise of the catalogue to its clients.
THEOREM SystemServesClients == SystemSpec => ImplementsCatalogue
BY SystemImplementsCatalog, CatalogueImplemented, PTL

----------------------------------------------------------------------------
(* The steps of a request, as ViewSync sees them.                          *)

WriterMap == [r \in Requests |-> Writer(r)]

\* A request that moves without coming from or going to its signal is not seen.
LEMMA HiddenMove ==
  ASSUME req \in [Requests -> ReqType], NEW r \in Requests, req[r].pc # "signal",
         \/ \E st \in Statuses : Answer(r, st)
         \/ \E pc \in PCs \ {"idle", "signal"} : Goto(r, pc) /\ req[r].pc # "idle"
  PROVE  WriterMap' = WriterMap
<1>1. req'[r].pc # "signal" /\ \A s \in Requests \ {r} : req'[s] = req[s]
  <2>1. CASE \E st \in Statuses : Answer(r, st)
    BY <2>1 DEF Answer, Idle
  <2>2. ASSUME NEW pc \in PCs \ {"idle", "signal"}, Goto(r, pc), req[r].pc # "idle"
        PROVE  req'[r].pc # "signal" /\ \A s \in Requests \ {r} : req'[s] = req[s]
    <3>1. req[r] \in InFlight
      BY <2>2, InFlightRequest
    <3> QED
      BY <2>2, <3>1 DEF Goto, InFlight
  <2> QED
    BY <2>1, <2>2
<1> QED
  BY <1>1 DEF WriterMap, Writer, At

LEMMA AnsweredInSignal ==
  ASSUME req \in [Requests -> ReqType], NEW r \in Requests, At(r, "signal"), Answer(r, "ok")
  PROVE  WriterMap[r] = "committed" /\ WriterMap' = [WriterMap EXCEPT ![r] = "idle"]
BY DEF WriterMap, Writer, At, Answer, Idle

LEMMA CommittedMove ==
  ASSUME req \in [Requests -> ReqType], NEW r \in Requests, req[r].pc # "idle",
         req[r].pc # "signal", Committed(r)
  PROVE  /\ WriterMap[r] = "idle"
         /\ \/ WriterMap' = [WriterMap EXCEPT ![r] = "committed"]
            \/ WriterMap' = WriterMap
<1>1. WriterMap[r] = "idle"
  BY DEF WriterMap, Writer, At
<1>2. CASE Goto(r, "signal")
  <2>1. req[r] \in InFlight
    BY InFlightRequest DEF At
  <2>2. req'[r].pc = "signal" /\ \A s \in Requests \ {r} : req'[s] = req[s]
    BY <1>2, <2>1 DEF Goto, InFlight
  <2> QED
    BY <1>1, <2>2 DEF WriterMap, Writer, At
<1>3. CASE Answer(r, "internal")
  BY <1>1, <1>3, HiddenMove DEF Statuses, At
<1> QED
  BY <1>1, <1>2, <1>3 DEF Committed

\* A write is a commit, a commit that goes unacknowledged, or no change to the table.
LEMMA WriteImplements ==
  ASSUME TypeOK, TypeOK', NEW r \in Requests, Write(r), sync.pc # "down", UNCHANGED viewVars
  PROVE  [View!Next]_(View!vars)
<1>1. /\ req \in [Requests -> ReqType] /\ (At(r, "write") \/ At(r, "subtract"))
      /\ service' \in [Ids -> ServiceRow \cup {Null}]
      /\ toRefreshViews' = toRefreshViews
  BY WriteMoves DEF TypeOK, ReqType, Moved
<1>2. Committed(r) \/ (service' = service /\ \E st \in Statuses : Answer(r, st))
  BY WriteMoves DEF Moved
<1>3. CASE WriterMap[r] = "idle" /\ WriterMap' = [WriterMap EXCEPT ![r] = "committed"]
  <2>1. View!Commit(r)
    BY <1>1, <1>3 DEF View!Commit, WriterMap, viewVars
  <2> QED
    BY <2>1 DEF View!Next
<1>4. CASE WriterMap' = WriterMap
  <2>1. View!CommitUnacknowledged
    BY <1>1, <1>4 DEF View!CommitUnacknowledged, WriterMap, viewVars
  <2> QED
    BY <2>1 DEF View!Next
<1>5. req[r].pc # "signal" /\ req[r].pc # "idle"
  BY <1>1 DEF At
<1>6. req \in [Requests -> ReqType]
  BY <1>1
<1> QED
  BY <1>2, <1>3, <1>4, <1>5, <1>6, CommittedMove, HiddenMove

LEMMA SignalImplements ==
  ASSUME TypeOK, NEW r \in Requests, Signal(r), UNCHANGED viewVars
  PROVE  [View!Next]_(View!vars)
<1>1. WriterMap[r] = "committed" /\ WriterMap' = [WriterMap EXCEPT ![r] = "idle"]
  BY AnsweredInSignal DEF Signal, TypeOK, ReqType
<1>2. View!Signal(r)
  BY <1>1 DEF View!Signal, WriterMap, Signal, tables, viewVars
<1> QED
  BY <1>2 DEF View!Next

\* The checks of a request, and its failures before it writes, are hidden.
LEMMA CheckImplements ==
  ASSUME TypeOK, NEW r \in Requests, UNCHANGED viewVars,
         \/ Receive(r) \/ CheckServiceExists(r) \/ CheckName(r) \/ CheckVersionExists(r)
         \/ Read(r) \/ DeleteFindsNothing(r) \/ DBError(r)
  PROVE  UNCHANGED View!vars
<1>1. req \in [Requests -> ReqType]
  BY DEF TypeOK, ReqType
<1>2. WriterMap' = WriterMap
  <2>1. CASE Receive(r)
    <3>1. PICK call \in Calls :
            IF WellFormed(call)
              THEN req' = [req EXCEPT ![r] = [call |-> call, pc |-> FirstStep[call.op],
                                              status |-> "none"]]
              ELSE Answer(r, "badRequest")
      BY <2>1 DEF Receive
    <3>2. CASE ~WellFormed(call)
      BY <1>1, <2>1, <3>1, <3>2, HiddenMove DEF Receive, At, Statuses
    <3>3. CASE WellFormed(call)
      <4>1. req'[r].pc = FirstStep[call.op] /\ call.op \in Operations
        BY <1>1, <3>1, <3>3, CallParameters
      <4>2. req'[r].pc # "signal" /\ \A s \in Requests \ {r} : req'[s] = req[s]
        BY <1>1, <3>1, <3>3, <4>1 DEF FirstStep
      <4> QED
        BY <2>1, <4>2 DEF Receive, WriterMap, Writer, At
    <3> QED
      BY <3>2, <3>3
  <2>2. CASE \/ CheckServiceExists(r) \/ CheckName(r) \/ CheckVersionExists(r)
             \/ Read(r) \/ DeleteFindsNothing(r) \/ DBError(r)
    <3>1. req[r].pc # "signal" /\ req[r].pc # "idle"
      BY <2>2 DEF CheckServiceExists, CheckName, CheckVersionExists, Read,
                  DeleteFindsNothing, DBError, Running, At
    <3>2. req[r].call.op \in Operations
      BY <1>1, <3>1, InFlightRequest, CallParameters
    <3>3. AfterServiceExists[req[r].call.op] \in PCs \ {"idle", "signal"}
      BY <3>2 DEF AfterServiceExists, PCs
    <3>4. \/ \E pc \in PCs \ {"idle", "signal"} : Goto(r, pc)
          \/ \E st \in Statuses : Answer(r, st)
      BY <2>2, <3>3 DEF CheckServiceExists, CheckName, CheckVersionExists, Read,
                        DeleteFindsNothing, DBError, PCs, Statuses
    <3> QED
      BY <1>1, <3>1, <3>4, HiddenMove
  <2> QED
    BY <2>1, <2>2
<1>3. UNCHANGED <<service, toRefreshViews>>
  BY DEF Receive, CheckServiceExists, CheckName, CheckVersionExists, Read,
         DeleteFindsNothing, DBError, tables
<1> QED
  BY <1>2, <1>3 DEF View!vars, WriterMap, viewVars

LEMMA SystemStepImplements ==
  TypeOK /\ [SystemNext]_systemVars => [View!Next]_(View!vars)
<1> SUFFICES ASSUME TypeOK, [SystemNext]_systemVars PROVE [View!Next]_(View!vars)
  OBVIOUS
<1>1. TypeOK'
  BY SystemStepIsCatalogStep, NextType
<1>2. CASE RequestStep
  BY <1>1, <1>2, WriteImplements, SignalImplements, CheckImplements DEF RequestStep, Step
<1>3. CASE SyncStep
  BY <1>3 DEF SyncStep, View!Next, View!RefreshEnds
<1>4. CASE SyncClearsFlag
  BY <1>4 DEF SyncClearsFlag, View!Next
<1>5. CASE SyncGivesUp
  BY <1>5 DEF SyncGivesUp, View!Next, View!RefreshEnds
<1>6. CASE ContextCancelled
  BY <1>6 DEF ContextCancelled, View!Next
<1>7. CASE ProcessEnds
  BY <1>7 DEF ProcessEnds, View!Next
<1>8. CASE Restart
  BY <1>8 DEF Restart, View!Next
<1>9. CASE UNCHANGED systemVars
  <2>1. WriterMap' = WriterMap
    BY <1>9 DEF systemVars, vars, WriterMap, Writer, At
  <2> QED
    BY <1>9, <2>1 DEF systemVars, vars, viewVars, View!vars, WriterMap
<1> QED
  BY <1>2, <1>3, <1>4, <1>5, <1>6, <1>7, <1>8, <1>9 DEF SystemNext

\* The composed system implements the view protocol: each request is a writer that
\* commits before it signals, so that what ViewSync says of lost coverage holds here.
THEOREM SystemImplementsViewSync == SystemSpec => ImplementsViewSync
<1>1. SystemInit => View!Init
  <2> SUFFICES ASSUME SystemInit PROVE View!Init
    OBVIOUS
  <2>1. WriterMap = [r \in Requests |-> "idle"]
    BY DEF SystemInit, Init, WriterMap, Writer, At, Idle
  <2>2. service = [i \in Ids |-> Null] /\ view = service
    BY DEF SystemInit, Init
  <2>3. view \in [Ids -> ServiceRow \cup {Null}]
    BY <2>2
  <2> QED
    BY <2>1, <2>2, <2>3 DEF SystemInit, Init, View!Init, View!FirstStep, WriterMap
<1>2. SystemSpec => []TypeOK
  BY SystemImplementsCatalog, TypeCorrect, PTL
<1> QED
  BY <1>1, <1>2, SystemStepImplements, PTL
     DEF SystemSpec, ImplementsViewSync, View!Spec

----------------------------------------------------------------------------
(* What is proved of ViewSync, said of the system.                         *)

\* ViewSync with its theorems, under the mapping of View.
Sync == INSTANCE ViewSyncProofs WITH
          table <- service,
          writer <- [r \in Requests |-> Writer(r)],
          Writers <- Requests,
          Contents <- [Ids -> ServiceRow \cup {Null}],
          InitialContent <- [i \in Ids |-> Null],
          RepliesLost <- TRUE

LEMMA SyncIsView ==
  /\ View!Init => Sync!Init
  /\ [View!Next]_(View!vars) => [Sync!Next]_(Sync!vars)
  /\ (View!Covered <=> Sync!Covered) /\ (View!Covered' <=> Sync!Covered')
  /\ View!ClearFlag <=> Sync!ClearFlag
  /\ View!CommitUnacknowledged <=> Sync!CommitUnacknowledged
<1>1. View!Init => Sync!Init
  BY DEF View!Init, Sync!Init, View!Refresh, Sync!Refresh
<1>2. View!vars = Sync!vars /\ View!vars' = Sync!vars'
  BY DEF View!vars, Sync!vars
<1>3. View!Next => Sync!Next
  <2>1. /\ \A w \in Requests : View!Commit(w) <=> Sync!Commit(w)
        /\ \A w \in Requests : View!Signal(w) <=> Sync!Signal(w)
        /\ View!CommitUnacknowledged <=> Sync!CommitUnacknowledged
    BY DEF View!Commit, Sync!Commit, View!Signal, Sync!Signal, View!CommitUnacknowledged,
           Sync!CommitUnacknowledged
  <2>2. /\ View!RefreshBegins <=> Sync!RefreshBegins
        /\ View!RefreshSucceeds <=> Sync!RefreshSucceeds
        /\ View!RefreshFails <=> Sync!RefreshFails
        /\ View!GivesUp <=> Sync!GivesUp
    BY DEF View!RefreshBegins, Sync!RefreshBegins, View!RefreshSucceeds, Sync!RefreshSucceeds,
           View!RefreshFails, Sync!RefreshFails, View!GivesUp, Sync!GivesUp, View!Goto,
           Sync!Goto, View!RetriesLeft, Sync!RetriesLeft, View!MaxAttempts, Sync!MaxAttempts
  <2>3. /\ View!ScheduledTick <=> Sync!ScheduledTick
        /\ View!RequestTick <=> Sync!RequestTick
        /\ View!ClearFlag <=> Sync!ClearFlag
        /\ View!Return <=> Sync!Return
    BY DEF View!ScheduledTick, Sync!ScheduledTick, View!RequestTick, Sync!RequestTick,
           View!ClearFlag, Sync!ClearFlag, View!Return, Sync!Return, View!Goto, Sync!Goto,
           View!Refresh, Sync!Refresh
  <2>4. /\ View!CancelContext <=> Sync!CancelContext
        /\ View!ProcessEnds <=> Sync!ProcessEnds
        /\ View!Restart <=> Sync!Restart
    BY DEF View!CancelContext, Sync!CancelContext, View!ProcessEnds, Sync!ProcessEnds,
           View!Restart, Sync!Restart, View!Goto, Sync!Goto, View!FirstStep, Sync!FirstStep,
           View!Refresh, Sync!Refresh
  <2> QED
    BY <2>1, <2>2, <2>3, <2>4 DEF View!Next, Sync!Next, View!RefreshEnds, Sync!RefreshEnds
<1>4. (View!Covered <=> Sync!Covered) /\ (View!Covered' <=> Sync!Covered')
  BY DEF View!Covered, Sync!Covered, View!Up, Sync!Up
<1>5. View!ClearFlag <=> Sync!ClearFlag
  BY DEF View!ClearFlag, Sync!ClearFlag, View!Goto, Sync!Goto
<1>6. View!CommitUnacknowledged <=> Sync!CommitUnacknowledged
  BY DEF View!CommitUnacknowledged, Sync!CommitUnacknowledged
<1> QED
  BY <1>1, <1>2, <1>3, <1>4, <1>5, <1>6

\* What ViewSync assumes of the contents of its table.
LEMMA EmptyTableIsContent == Sync!InitialContentAssumption /\ Sync!RepliesLostAssumption
BY DEF Sync!InitialContentAssumption, Sync!RepliesLostAssumption

LEMMA SyncInvariant == SystemSpec => []Sync!IInv
BY SystemImplementsViewSync, SyncIsView, EmptyTableIsContent, Sync!Invariance, PTL
   DEF ImplementsViewSync, View!Spec, Sync!Spec

\* The flag is taken down by the goroutine only, after a refresh.
LEMMA ClearFlagIsSyncs ==
  ASSUME Sync!IInv, [SystemNext]_systemVars, View!ClearFlag
  PROVE  SyncClearsFlag
<1>1. sync \in Sync!Sync /\ sync.pc = "clear" /\ sync' = [sync EXCEPT !.pc = "select"]
  BY DEF Sync!IInv, Sync!TypeOK, View!ClearFlag, View!Goto
<1>2. sync'.pc = "select"
  BY <1>1 DEF Sync!Sync
<1>3. sync' # sync
  BY <1>1, <1>2
<1>4. ~RequestStep /\ ~ContextCancelled /\ ~UNCHANGED systemVars
  BY <1>3 DEF RequestStep, ContextCancelled, View!CancelContext, viewVars, systemVars
<1>5. ~SyncStep
  BY <1>1 DEF SyncStep, View!RefreshBegins, View!RefreshSucceeds, View!RefreshFails,
              View!ScheduledTick, View!RequestTick, View!Return
<1>6. ~SyncGivesUp /\ ~Restart
  BY <1>1 DEF SyncGivesUp, View!GivesUp, Restart, View!Restart
<1>7. ~ProcessEnds
  <2>1. SUFFICES ASSUME ProcessEnds PROVE FALSE
    OBVIOUS
  <2>2. sync' = [sync EXCEPT !.pc = "down"]
    BY <2>1 DEF ProcessEnds, View!ProcessEnds, View!Goto
  <2>3. sync'.pc = "down"
    BY <1>1, <2>2 DEF Sync!Sync
  <2> QED
    BY <1>2, <2>3
<1> QED
  BY <1>4, <1>5, <1>6, <1>7 DEF SystemNext

\* The table changes in the write of a request only.
LEMMA TableChangesInWrite ==
  ASSUME [SystemNext]_systemVars, service' # service
  PROVE  \E r \in Requests : Write(r)
<1>1. RequestStep
  BY DEF SystemNext, SyncStep, SyncClearsFlag, SyncGivesUp, ContextCancelled, ProcessEnds,
         Restart, systemVars, vars, ViewsRefreshed, Crash, tables
<1>2. PICK r \in Requests : Receive(r) \/ Step(r)
  BY <1>1 DEF RequestStep
<1>3. Write(r)
  BY <1>2 DEF Receive, Step, CheckServiceExists, CheckName, CheckVersionExists, Read,
              DeleteFindsNothing, DBError, Signal, tables
<1> QED
  BY <1>3

\* A write that changes the table and leaves no signal behind has failed: its request
\* answers that the server is in error.
LEMMA UnacknowledgedFails ==
  ASSUME TypeOK, [SystemNext]_systemVars, View!CommitUnacknowledged, service' # service
  PROVE  \E r \in Requests : Answer(r, "internal")
<1>1. PICK r \in Requests : Write(r)
  BY TableChangesInWrite
<1>2. Committed(r) /\ req[r].pc # "signal" /\ req[r].pc # "idle"
  BY <1>1, WriteMoves DEF Moved, At
<1>3. ~Goto(r, "signal")
  <2>1. SUFFICES ASSUME Goto(r, "signal") PROVE FALSE
    OBVIOUS
  <2>2. req[r] \in InFlight
    BY <1>2, InFlightRequest DEF TypeOK, ReqType
  <2>3. req'[r].pc = "signal"
    BY <2>1, <2>2 DEF Goto, InFlight, TypeOK, ReqType
  <2>4. WriterMap[r] = "idle" /\ WriterMap'[r] = "committed"
    BY <1>2, <2>3 DEF WriterMap, Writer, At
  <2>5. WriterMap' = WriterMap
    BY DEF View!CommitUnacknowledged, WriterMap
  <2> QED
    BY <2>4, <2>5
<1> QED
  BY <1>2, <1>3 DEF Committed

\* For any number of requests and any catalogue: the composed system loses sight of a
\* stale view in the two races only.  In the first the flag is taken down over a signal that
\* came while the refresh ran, in the second a write takes effect whose request reports
\* an internal error.
THEOREM SystemStaleConfined == SystemSpec => StaleUnnoticedOnlyByRace
<1>1. SystemSpec => []TypeOK
  BY SystemImplementsCatalog, TypeCorrect, PTL
<1>2. ASSUME TypeOK, Sync!IInv, [SystemNext]_systemVars, View!Covered, ~View!Covered'
      PROVE  SyncClearsFlag \/ (service' # service /\ \E r \in Requests : Answer(r, "internal"))
  <2>1. [Sync!Next]_(Sync!vars) /\ Sync!Covered /\ ~Sync!Covered'
    BY <1>2, SystemStepImplements, SyncIsView
  <2>2. View!ClearFlag \/ View!CommitUnacknowledged
    BY <1>2, <2>1, Sync!CoverageKept, EmptyTableIsContent, SyncIsView
  <2>3. CASE View!ClearFlag
    BY <1>2, <2>3, ClearFlagIsSyncs
  <2>4. CASE View!CommitUnacknowledged
    <3>1. service' # service
      BY <1>2, <2>4 DEF View!CommitUnacknowledged, View!Covered, View!Up
    <3> QED
      BY <1>2, <2>4, <3>1, UnacknowledgedFails
  <2> QED
    BY <2>2, <2>3, <2>4
<1> QED
  BY <1>1, <1>2, SyncInvariant, PTL DEF SystemSpec, StaleUnnoticedOnlyByRace
=============================================================================
