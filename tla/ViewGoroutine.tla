---------------------------- MODULE ViewGoroutine ----------------------------
(***************************************************************************)
(* The goroutine of SyncDataWithSortedViews as the rest of its process sees*)
(* it: at work on a refresh, at its select, returned, or not there.        *)
(* Lifecycle is built on this; ViewSync, which has the refreshes and their *)
(* attempts, implements it.                                                *)
(***************************************************************************)

VARIABLES view,    \* where the goroutine is
          ctxDone  \* the context of its process is cancelled

goroutine == <<view, ctxDone>>

\* The initial refresh comes before the first select.
Starts == view = "none" /\ view' = "working" /\ ctxDone' = FALSE

\* A refresh ends, with all its attempts.
WorkEnds == view = "working" /\ view' = "select" /\ UNCHANGED ctxDone

Tick == view = "select" /\ view' = "working" /\ UNCHANGED ctxDone

Returns == view = "select" /\ ctxDone /\ view' = "returned" /\ UNCHANGED ctxDone

\* log.Fatalf after the last attempt of a refresh takes the process down.
GivesUp == view = "working" /\ view' = "none" /\ UNCHANGED ctxDone

Cancel == view # "none" /\ ctxDone' = TRUE /\ UNCHANGED view

ProcessEnds == view # "none" /\ view' = "none" /\ UNCHANGED ctxDone

Init == view \in {"none", "working"} /\ ctxDone = FALSE

Next == Starts \/ WorkEnds \/ Tick \/ Returns \/ GivesUp \/ Cancel \/ ProcessEnds

Spec == Init /\ [][Next]_goroutine

\* No refresh goes on for ever, and a context that is done is not passed over for ever.
Fairness == WF_goroutine(WorkEnds \/ GivesUp) /\ SF_goroutine(Returns)

=============================================================================
