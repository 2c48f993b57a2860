---------------------------- MODULE ServiceSystem ----------------------------
(***************************************************************************)
(* The service component at work: the requests of ServiceCatalog and the   *)
(* goroutine of ViewSync, in one process, over one database.               *)
(*                                                                         *)
(* They share the table "service", which the requests write and the refresh*)
(* reads, and the flag toRefreshViews, which the requests raise and the    *)
(* goroutine takes down, each under the mutex of operations.  A request    *)
(* between its commit and its signal is a writer of ViewSync that has      *)
(* committed.                                                              *)
(***************************************************************************)
EXTENDS ServiceCatalog

VARIABLES view, snapshot, sync, ctxDone

viewVars == <<view, snapshot, sync, ctxDone>>
systemVars == <<vars, viewVars>>

\* What is left to do of the request r, as ViewSync sees it.
Writer(r) == IF At(r, "signal") THEN "committed" ELSE "idle"

View == INSTANCE ViewSync WITH
          table <- service,
          writer <- [r \in Requests |-> Writer(r)],
          Writers <- Requests,
          Contents <- [Ids -> ServiceRow \cup {Null}],
          InitialContent <- [i \in Ids |-> Null],
          RepliesLost <- TRUE

\* The database has just been migrated: the view was made from the empty table.
SystemInit ==
  /\ Init
  /\ view = service
  /\ snapshot = view
  /\ sync = View!FirstStep
  /\ ctxDone = FALSE

\* Requests are served as long as the process is there, while the goroutine
\* starts and after it has returned as well.
RequestStep ==
  /\ sync.pc # "down"
  /\ \E r \in Requests : Receive(r) \/ Step(r)
  /\ UNCHANGED viewVars

SyncStep ==
  /\ UNCHANGED vars
  /\ \/ View!RefreshBegins \/ View!RefreshSucceeds \/ View!RefreshFails
     \/ View!ScheduledTick \/ View!RequestTick \/ View!Return

SyncClearsFlag == ViewsRefreshed /\ View!ClearFlag

\* log.Fatalf of the goroutine takes the requests down with it.
SyncGivesUp == Crash /\ View!GivesUp

ContextCancelled == UNCHANGED vars /\ View!CancelContext
ProcessEnds == Crash /\ View!ProcessEnds
Restart == UNCHANGED vars /\ View!Restart

SystemNext == \/ RequestStep
              \/ SyncStep \/ SyncClearsFlag \/ SyncGivesUp
              \/ ContextCancelled \/ ProcessEnds \/ Restart

SystemSpec == SystemInit /\ [][SystemNext]_systemVars

----------------------------------------------------------------------------
(* Properties.                                                             *)

\* The system keeps the promise of the view goroutine: seen through the table, the
\* flag and the requests between commit and signal, every step of a request is a
\* commit, a commit with a lost reply, a signal, or nothing at all.
ImplementsViewSync == View!Spec

\* The system loses sight of a stale view in two ways only: the goroutine takes the flag
\* down over the signal of a request, or the reply to the write of a request gets lost.
\* No handler that forgets or hurries its signal, no failed refresh, no end of the process
\* and no restart at any moment of a request leaves a stale view without a refresh coming.
StaleUnnoticedOnlyByRace ==
  [][View!Covered /\ ~View!Covered' =>
       \/ SyncClearsFlag
       \/ service' # service /\ \E r \in Requests : Answer(r, "internal")]_systemVars

=============================================================================
