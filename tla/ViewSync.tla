------------------------------ MODULE ViewSync ------------------------------
(***************************************************************************)
(* SyncDataWithSortedViews of internal/components/service/operations.go:   *)
(* the goroutine that refreshes the materialized view name_sorted_service, *)
(* and the requests that change the table the view is made of.             *)
(*                                                                         *)
(* The goroutine refreshes once when it starts, then waits in a select for *)
(* the end of the context, a tick of the 30 minute ticker, or a tick of the*)
(* 2 second ticker, on which it looks at the flag toRefreshViews.  A writer*)
(* commits to the table first and raises the flag afterwards, so commits   *)
(* and flags fall anywhere between the steps of a refresh.                 *)
(*                                                                         *)
(* REFRESH MATERIALIZED VIEW reads the table as of the moment the statement*)
(* starts and replaces the view when it commits: two steps, joined by      *)
(* snapshot.                                                               *)
(***************************************************************************)
EXTENDS Naturals

CONSTANTS Writers,     \* requests that may be writing the table at once
          Contents,    \* contents of the table
          InitialContent,
          RepliesLost  \* whether the reply to a commit may be lost

ASSUME InitialContentAssumption == InitialContent \in Contents
ASSUME RepliesLostAssumption == RepliesLost \in BOOLEAN

VARIABLES table,           \* table "service"
          view,            \* materialized view name_sorted_service
          snapshot,        \* what the refresh under way, or the last one, has read
          writer,          \* what each request has left to do
          toRefreshViews,  \* operations.toRefreshViews
          sync,            \* the goroutine: next step, reason and attempts of a refresh
          ctxDone          \* the context of the process is cancelled

vars == <<table, view, snapshot, writer, toRefreshViews, sync, ctxDone>>

MaxAttempts == 3

Sync == [pc : {"refresh", "refreshing", "select", "clear", "returned", "down"},
         reason : {"initial", "scheduled", "requested"},
         attempts : 0..(MaxAttempts - 1)]

Refresh(reason) == [pc |-> "refresh", reason |-> reason, attempts |-> 0]
Goto(pc) == sync' = [sync EXCEPT !.pc = pc]

\* The goroutine is at work: it has not returned and its process is there.
Up == sync.pc \notin {"returned", "down"}

Init == /\ table = InitialContent
        /\ view \in Contents
        /\ snapshot = view
        /\ writer = [w \in Writers |-> "idle"]
        /\ toRefreshViews = FALSE
        /\ sync = Refresh("initial")
        /\ ctxDone = FALSE

----------------------------------------------------------------------------
(* The writers.                                                            *)

\* A write commits and its request learns of it.
Commit(w) ==
  /\ sync.pc # "down"
  /\ writer[w] = "idle"
  /\ table' \in Contents
  /\ writer' = [writer EXCEPT ![w] = "committed"]
  /\ UNCHANGED <<view, snapshot, toRefreshViews, sync, ctxDone>>

\* A write commits, its acknowledgement is lost: the request fails, raising no flag.
CommitUnacknowledged ==
  /\ RepliesLost
  /\ sync.pc # "down"
  /\ table' \in Contents
  /\ UNCHANGED <<view, snapshot, writer, toRefreshViews, sync, ctxDone>>

Signal(w) ==
  /\ writer[w] = "committed"
  /\ toRefreshViews' = TRUE
  /\ writer' = [writer EXCEPT ![w] = "idle"]
  /\ UNCHANGED <<table, view, snapshot, sync, ctxDone>>

----------------------------------------------------------------------------
(* The goroutine.                                                          *)

RefreshBegins ==
  /\ sync.pc = "refresh"
  /\ snapshot' = table
  /\ Goto("refreshing")
  /\ UNCHANGED <<table, view, writer, toRefreshViews, ctxDone>>

RefreshSucceeds ==
  /\ sync.pc = "refreshing"
  /\ view' = snapshot
  /\ Goto(IF sync.reason = "requested" THEN "clear" ELSE "select")
  /\ UNCHANGED <<table, snapshot, writer, toRefreshViews, ctxDone>>

FaultyRetriesLeft == sync.attempts <= MaxAttempts - 1
RetriesLeft == sync.attempts < MaxAttempts - 1

\* The statement fails, or takes effect and its reply is lost.  A requested refresh
\* is left for the next tick, the others are tried again after a pause.
RefreshFails ==
  /\ sync.pc = "refreshing"
  /\ view' \in {view, snapshot}
  /\ \/ sync.reason = "requested" /\ Goto("select")
     \/ /\ sync.reason # "requested"
        /\ RetriesLeft
        /\ sync' = [sync EXCEPT !.pc = "refresh", !.attempts = @ + 1]
  /\ UNCHANGED <<table, snapshot, writer, toRefreshViews, ctxDone>>

\* The last attempt of an initial or a scheduled refresh fails: log.Fatalf.
GivesUp ==
  /\ sync.pc = "refreshing"
  /\ sync.reason # "requested"
  /\ ~RetriesLeft
  /\ view' \in {view, snapshot}
  /\ writer' = [w \in Writers |-> "idle"]
  /\ toRefreshViews' = FALSE
  /\ Goto("down")
  /\ UNCHANGED <<table, snapshot, ctxDone>>

\* (A faulty variant that looks at the flag first.)
FaultyScheduledTick ==
  /\ sync.pc = "select"
  /\ toRefreshViews
  /\ sync' = Refresh("scheduled")
  /\ UNCHANGED <<table, view, snapshot, writer, toRefreshViews, ctxDone>>

ScheduledTick ==
  /\ sync.pc = "select"
  /\ sync' = Refresh("scheduled")
  /\ UNCHANGED <<table, view, snapshot, writer, toRefreshViews, ctxDone>>

\* A tick that finds the flag down does nothing.
RequestTick ==
  /\ sync.pc = "select"
  /\ toRefreshViews
  /\ sync' = Refresh("requested")
  /\ UNCHANGED <<table, view, snapshot, writer, toRefreshViews, ctxDone>>

ClearFlag ==
  /\ sync.pc = "clear"
  /\ toRefreshViews' = FALSE
  /\ Goto("select")
  /\ UNCHANGED <<table, view, snapshot, writer, ctxDone>>

\* (A faulty variant that waits for the flag to be down.)
FaultyReturn ==
  /\ sync.pc = "select"
  /\ ctxDone /\ ~toRefreshViews
  /\ Goto("returned")
  /\ UNCHANGED <<table, view, snapshot, writer, toRefreshViews, ctxDone>>

Return ==
  /\ sync.pc = "select"
  /\ ctxDone
  /\ Goto("returned")
  /\ UNCHANGED <<table, view, snapshot, writer, toRefreshViews, ctxDone>>

----------------------------------------------------------------------------
(* The process.                                                            *)

CancelContext ==
  /\ sync.pc # "down"
  /\ ctxDone' = TRUE
  /\ UNCHANGED <<table, view, snapshot, writer, toRefreshViews, sync>>

\* The process exits or is killed, at any point of a request or a refresh.
ProcessEnds ==
  /\ sync.pc # "down"
  /\ writer' = [w \in Writers |-> "idle"]
  /\ toRefreshViews' = FALSE
  /\ Goto("down")
  /\ UNCHANGED <<table, view, snapshot, ctxDone>>

\* (A faulty variant that goes straight to the select.)
FaultyFirstStep == [Refresh("initial") EXCEPT !.pc = "select"]
\* The goroutine starts with a refresh.
FirstStep == Refresh("initial")

Restart ==
  /\ sync.pc = "down"
  /\ sync' = FirstStep
  /\ ctxDone' = FALSE
  /\ UNCHANGED <<table, view, snapshot, writer, toRefreshViews>>

RefreshEnds == RefreshSucceeds \/ RefreshFails \/ GivesUp

Next == \/ \E w \in Writers : Commit(w) \/ Signal(w)
        \/ CommitUnacknowledged
        \/ RefreshBegins \/ RefreshEnds \/ ScheduledTick \/ RequestTick
        \/ ClearFlag \/ Return
        \/ CancelContext \/ ProcessEnds \/ Restart

Spec == Init /\ [][Next]_vars

\* A goroutine that can run runs, and a statement sent to the database ends one
\* way or the other.  A select picks among its ready cases at random, so a ticker
\* or a done context that is ready again and again is not passed over for ever.
Fairness == /\ WF_vars(RefreshBegins)
            /\ WF_vars(RefreshEnds)
            /\ WF_vars(ClearFlag)
            /\ SF_vars(ScheduledTick)
            /\ SF_vars(Return)

FairSpec == Spec /\ Fairness

\* The goroutine as the rest of the process sees it.
Seen == IF sync.pc = "down" THEN "none"
        ELSE IF sync.pc \in {"refresh", "refreshing", "clear"} THEN "working"
        ELSE sync.pc

Goroutine == INSTANCE ViewGoroutine WITH view <- Seen

----------------------------------------------------------------------------
(* Properties.                                                             *)

\* Every variable has its type, and the counter of attempts stays below three.
TypeOK == /\ table \in Contents /\ view \in Contents /\ snapshot \in Contents
          /\ writer \in [Writers -> {"idle", "committed"}]
          /\ toRefreshViews \in BOOLEAN
          /\ sync \in Sync
          /\ ctxDone \in BOOLEAN

\* A stale view will be refreshed without waiting for the scheduled sync: a flag is
\* raised or about to be, or a refresh is coming that reads the table as it is.
Covered == \/ toRefreshViews
           \/ \E w \in Writers : writer[w] = "committed"
           \/ ~Up
           \/ sync.pc = "refresh"
           \/ (sync.pc = "refreshing" /\ snapshot = table)
           \/ (sync.pc = "select" /\ view = table)

\* Staleness goes unnoticed until the next scheduled sync in two ways only: the flag
\* is taken down over a signal that came during the refresh, or the acknowledgement
\* of a commit is lost.  A failed refresh, a restart or a tick never causes it.
CoverageLostOnlyByRace ==
  [][Covered /\ ~Covered' => ClearFlag \/ CommitUnacknowledged]_vars

\* The flag is taken down only over a view that shows every signalled change
\* (SyncDataWithSortedViews: "If any change, it will refresh").
SignalNeverLost == [][ClearFlag => Covered']_vars

\* Whatever races, fails or crashes, the view gets to show what the table holds,
\* unless the table changes again or the goroutine stops first ("for eventual
\* consistency, in case of system failure").
ViewCatchesUp ==
  \A c \in Contents : table = c ~> view = c \/ table # c \/ ~Up

\* To the rest of the process the goroutine is the one that Lifecycle is built on: each of
\* its statements is a step of that goroutine or hidden from it, in every failure, retry
\* and restart.
ImplementsGoroutine == Goroutine!Spec

\* It keeps the promises by which the process ends: no refresh is attempted for ever, and
\* a done context is not passed over for ever, whatever fails and however often it ticks.
GoroutineIsFair == Goroutine!Fairness

\* Once the context is cancelled the goroutine returns, so that wg.Wait of main ends,
\* however often the tickers are ready as well.
ShutdownCompletes == ctxDone ~> ~Up

=============================================================================
