--------------------------- MODULE ViewSyncProofs ---------------------------
(* Theorems about ViewSync, for any writers and any contents of the table. *)
EXTENDS ViewSync, TLAPS

\* A requested refresh runs, and its success is recorded, with the flag raised: the
\* writers only raise it, and the goroutine that takes it down is busy.
RequestHoldsFlag ==
  /\ sync.pc \in {"refresh", "refreshing"} /\ sync.reason = "requested" => toRefreshViews
  /\ sync.pc = "clear" => toRefreshViews

IInv == TypeOK /\ RequestHoldsFlag

LEMMA RefreshFields ==
  ASSUME NEW reason \in {"initial", "scheduled", "requested"}
  PROVE  /\ Refresh(reason) \in Sync
         /\ Refresh(reason).pc = "refresh"
         /\ Refresh(reason).reason = reason
<1> DEFINE R == [pc |-> "refresh", reason |-> reason, attempts |-> 0]
<1>1. R \in Sync
  BY DEF Sync, MaxAttempts
<1>2. R.pc = "refresh" /\ R.reason = reason
  OBVIOUS
<1> QED
  BY <1>1, <1>2 DEF Refresh

LEMMA InitIInv == Init => IInv
<1> SUFFICES ASSUME Init PROVE IInv
  OBVIOUS
<1>1. TypeOK
  BY RefreshFields, InitialContentAssumption DEF Init, TypeOK
<1>2. RequestHoldsFlag
  BY RefreshFields DEF Init, RequestHoldsFlag
<1> QED
  BY <1>1, <1>2 DEF IInv

LEMMA NextIInv == IInv /\ [Next]_vars => IInv'
<1> SUFFICES ASSUME IInv, [Next]_vars PROVE IInv'
  OBVIOUS
<1> USE DEF IInv, TypeOK, RequestHoldsFlag
<1>1. ASSUME NEW w \in Writers, Commit(w) PROVE IInv'
  BY <1>1 DEF Commit
<1>2. ASSUME NEW w \in Writers, Signal(w) PROVE IInv'
  BY <1>2 DEF Signal
<1>3. CASE CommitUnacknowledged
  BY <1>3 DEF CommitUnacknowledged
<1>4. CASE RefreshBegins
  BY <1>4 DEF RefreshBegins, Goto, Sync, MaxAttempts
<1>5. CASE RefreshSucceeds
  BY <1>5 DEF RefreshSucceeds, Goto, Sync, MaxAttempts
<1>6. CASE RefreshFails
  <2>1. sync' \in Sync
    <3>1. CASE sync.reason = "requested" /\ Goto("select")
      BY <3>1 DEF Goto, Sync
    <3>2. CASE /\ sync.attempts < MaxAttempts - 1
               /\ sync' = [sync EXCEPT !.pc = "refresh", !.attempts = @ + 1]
      <4>1. sync.attempts \in 0..2 /\ sync.attempts + 1 \in 0..2
        BY <3>2 DEF Sync, MaxAttempts
      <4>2. sync' = [pc |-> "refresh", reason |-> sync.reason,
                     attempts |-> sync.attempts + 1]
        BY <3>2 DEF Sync
      <4>3. sync.reason \in {"initial", "scheduled", "requested"}
        BY DEF Sync
      <4> QED
        BY <4>1, <4>2, <4>3 DEF Sync, MaxAttempts
    <3> QED
      BY <1>6, <3>1, <3>2 DEF RefreshFails, RetriesLeft
  <2>2. TypeOK'
    BY <1>6, <2>1 DEF RefreshFails
  <2>3. RequestHoldsFlag'
    BY <1>6 DEF RefreshFails, Goto, Sync
  <2> QED
    BY <2>2, <2>3
<1>7. CASE GivesUp
  BY <1>7 DEF GivesUp, Goto, Sync, MaxAttempts
<1>8. CASE ScheduledTick
  BY <1>8, RefreshFields DEF ScheduledTick
<1>9. CASE RequestTick
  BY <1>9, RefreshFields DEF RequestTick
<1>10. CASE ClearFlag
  BY <1>10 DEF ClearFlag, Goto, Sync, MaxAttempts
<1>11. CASE Return
  BY <1>11 DEF Return, Goto, Sync, MaxAttempts
<1>12. CASE CancelContext
  BY <1>12 DEF CancelContext
<1>13. CASE ProcessEnds
  BY <1>13 DEF ProcessEnds, Goto, Sync, MaxAttempts
<1>14. CASE Restart
  BY <1>14, RefreshFields DEF Restart, FirstStep
<1>15. CASE UNCHANGED vars
  BY <1>15 DEF vars
<1> QED
  BY <1>1, <1>2, <1>3, <1>4, <1>5, <1>6, <1>7, <1>8, <1>9, <1>10, <1>11, <1>12,
     <1>13, <1>14, <1>15 DEF Next, RefreshEnds

LEMMA Invariance == Spec => []IInv
<1>1. Init => IInv
  BY InitIInv
<1>2. IInv /\ [Next]_vars => IInv'
  BY NextIInv
<1> QED
  BY <1>1, <1>2, PTL DEF Spec

\* Every variable of the view goroutine keeps its type, and a refresh is never
\* attempted a fourth time.
THEOREM TypeCorrect == Spec => []TypeOK
<1>1. IInv => TypeOK
  BY DEF IInv
<1> QED
  BY <1>1, Invariance, PTL

----------------------------------------------------------------------------
(* Coverage: the actions other than the two that race keep a stale view    *)
(* covered.                                                                *)

LEMMA CoverageKept ==
  IInv /\ [Next]_vars => (Covered /\ ~Covered' => ClearFlag \/ CommitUnacknowledged)
<1> SUFFICES ASSUME IInv, [Next]_vars, Covered, ~ClearFlag, ~CommitUnacknowledged
             PROVE  Covered'
  OBVIOUS
<1> USE DEF IInv, TypeOK, RequestHoldsFlag, Covered, Up
<1>1. ASSUME NEW w \in Writers, Commit(w) PROVE Covered'
  BY <1>1 DEF Commit
<1>2. ASSUME NEW w \in Writers, Signal(w) PROVE Covered'
  BY <1>2 DEF Signal
<1>3. CASE RefreshBegins
  BY <1>3 DEF RefreshBegins, Goto, Sync
<1>4. CASE RefreshSucceeds
  BY <1>4 DEF RefreshSucceeds, Goto, Sync
<1>5. CASE RefreshFails
  BY <1>5 DEF RefreshFails, Goto, Sync
<1>6. CASE GivesUp
  BY <1>6 DEF GivesUp, Goto, Sync
<1>7. CASE ScheduledTick
  BY <1>7, RefreshFields DEF ScheduledTick
<1>8. CASE RequestTick
  BY <1>8, RefreshFields DEF RequestTick
<1>9. CASE Return
  BY <1>9 DEF Return, Goto, Sync
<1>10. CASE CancelContext
  BY <1>10 DEF CancelContext
<1>11. CASE ProcessEnds
  BY <1>11 DEF ProcessEnds, Goto, Sync
<1>12. CASE Restart
  BY <1>12, RefreshFields DEF Restart, FirstStep
<1>13. CASE UNCHANGED vars
  BY <1>13 DEF vars
<1> QED
  BY <1>1, <1>2, <1>3, <1>4, <1>5, <1>6, <1>7, <1>8, <1>9, <1>10, <1>11, <1>12,
     <1>13 DEF Next, RefreshEnds

\* For any number of writers: a stale view loses its coming refresh only when the
\* goroutine takes the flag down, or a commit's acknowledgement is lost.
THEOREM CoverageLossConfined == Spec => CoverageLostOnlyByRace
<1>1. IInv /\ [Next]_vars
        => [Covered /\ ~Covered' => ClearFlag \/ CommitUnacknowledged]_vars
  BY CoverageKept
<1> QED
  BY <1>1, Invariance, PTL DEF Spec, CoverageLostOnlyByRace

----------------------------------------------------------------------------
(* The race behind the finding.                                            *)

\* A requested refresh has read the table, and the flag is not taken down yet.
Unrecorded == sync.reason = "requested" /\ sync.pc \in {"refreshing", "clear"}

\* No change is signalled in that time.
SignalsApart == [][(\E w \in Writers : Signal(w)) => ~Unrecorded]_vars

Unsignalled == \E w \in Writers : writer[w] = "committed"

\* What was committed since a requested refresh has read the table is not signalled yet.
Noticed ==
  /\ Unrecorded /\ sync.pc = "refreshing" => snapshot = table \/ Unsignalled
  /\ sync.pc = "clear" => Unrecorded /\ (view = table \/ Unsignalled)

LEMMA NextNoticed ==
  ASSUME ~RepliesLost, IInv, Noticed, [Next]_vars,
         (\E w \in Writers : Signal(w)) => ~Unrecorded
  PROVE  Noticed'
<1> USE DEF IInv, TypeOK, RequestHoldsFlag, Noticed, Unrecorded, Unsignalled
<1>1. ASSUME NEW w \in Writers, Commit(w) PROVE Noticed'
  BY <1>1 DEF Commit
<1>2. ASSUME NEW w \in Writers, Signal(w) PROVE Noticed'
  BY <1>2 DEF Signal
<1>3. ~CommitUnacknowledged
  BY DEF CommitUnacknowledged
<1>4. CASE RefreshBegins
  BY <1>4 DEF RefreshBegins, Goto, Sync
<1>5. CASE RefreshSucceeds
  BY <1>5 DEF RefreshSucceeds, Goto, Sync
<1>6. CASE RefreshFails
  BY <1>6 DEF RefreshFails, Goto, Sync
<1>7. CASE GivesUp
  BY <1>7 DEF GivesUp, Goto, Sync
<1>8. CASE ScheduledTick \/ RequestTick
  BY <1>8, RefreshFields DEF ScheduledTick, RequestTick
<1>9. CASE ClearFlag
  BY <1>9 DEF ClearFlag, Goto, Sync
<1>10. CASE Return
  BY <1>10 DEF Return, Goto, Sync
<1>11. CASE CancelContext
  BY <1>11 DEF CancelContext
<1>12. CASE ProcessEnds
  BY <1>12 DEF ProcessEnds, Goto, Sync
<1>13. CASE Restart
  BY <1>13, RefreshFields DEF Restart, FirstStep
<1>14. CASE UNCHANGED vars
  BY <1>14 DEF vars
<1> QED
  BY <1>1, <1>2, <1>3, <1>4, <1>5, <1>6, <1>7, <1>8, <1>9, <1>10, <1>11, <1>12, <1>13,
     <1>14 DEF Next, RefreshEnds

LEMMA ClearedCovered ==
  ASSUME IInv, Noticed, ClearFlag
  PROVE  Covered'
<1>1. sync'.pc = "select" /\ UNCHANGED <<table, view, writer>>
  BY DEF ClearFlag, Goto, IInv, TypeOK, Sync
<1>2. view = table \/ Unsignalled
  BY DEF Noticed, ClearFlag
<1> QED
  BY <1>1, <1>2 DEF Covered, Unsignalled

\* If no reply is lost and nothing is signalled between the read and the record of a
\* requested refresh, a stale view always has a refresh coming and no signal is lost: the
\* race that view_sync_lost_signal shows is the only one there is.
THEOREM ApartSignalsSeen ==
  ASSUME ~RepliesLost
  PROVE  Spec /\ SignalsApart => []Covered /\ SignalNeverLost
<1>1. Init => Noticed /\ Covered
  BY RefreshFields DEF Init, Noticed, Unrecorded, Covered
<1>2. IInv /\ Noticed /\ [Next]_vars /\ [(\E w \in Writers : Signal(w)) => ~Unrecorded]_vars
        => Noticed'
  <2>1. CASE UNCHANGED vars
    BY <2>1 DEF vars, Noticed, Unrecorded, Unsignalled
  <2> QED
    BY <2>1, NextNoticed
<1>3. IInv /\ Noticed /\ Covered /\ [Next]_vars => Covered'
  BY CoverageKept, ClearedCovered DEF CommitUnacknowledged
<1>4. IInv /\ Noticed => [ClearFlag => Covered']_vars
  BY ClearedCovered
<1> QED
  BY <1>1, <1>2, <1>3, <1>4, Invariance, PTL DEF Spec, SignalsApart, SignalNeverLost

----------------------------------------------------------------------------
(* The goroutine as the rest of its process sees it.                       *)

LEMMA GoroutineSteps == IInv /\ [Next]_vars => [Goroutine!Next]_(Goroutine!goroutine)
<1> SUFFICES ASSUME IInv, [Next]_vars
             PROVE  Goroutine!Next \/ (Seen' = Seen /\ ctxDone' = ctxDone)
  BY DEF Goroutine!goroutine
<1>0. sync \in Sync
  BY DEF IInv, TypeOK
<1> USE <1>0 DEF Seen, Sync
<1>1. ASSUME NEW w \in Writers, Commit(w) \/ Signal(w)
      PROVE  Seen' = Seen /\ ctxDone' = ctxDone
  BY <1>1 DEF Commit, Signal
<1>2. CASE CommitUnacknowledged
  BY <1>2 DEF CommitUnacknowledged
<1>3. CASE RefreshBegins
  BY <1>3 DEF RefreshBegins, Goto
<1>4. CASE RefreshSucceeds
  <2>1. Seen = "working" /\ Seen' \in {"working", "select"} /\ ctxDone' = ctxDone
    BY <1>4 DEF RefreshSucceeds, Goto
  <2> QED
    BY <2>1 DEF Goroutine!Next, Goroutine!WorkEnds
<1>5. CASE RefreshFails
  <2>1. Seen = "working" /\ Seen' \in {"working", "select"} /\ ctxDone' = ctxDone
    BY <1>5 DEF RefreshFails, Goto
  <2> QED
    BY <2>1 DEF Goroutine!Next, Goroutine!WorkEnds
<1>6. CASE GivesUp
  BY <1>6 DEF GivesUp, Goto, Goroutine!Next, Goroutine!GivesUp
<1>7. CASE ScheduledTick \/ RequestTick
  BY <1>7, RefreshFields DEF ScheduledTick, RequestTick, Goroutine!Next, Goroutine!Tick
<1>8. CASE ClearFlag
  BY <1>8 DEF ClearFlag, Goto, Goroutine!Next, Goroutine!WorkEnds
<1>9. CASE Return
  BY <1>9 DEF Return, Goto, Goroutine!Next, Goroutine!Returns
<1>10. CASE CancelContext
  BY <1>10 DEF CancelContext, Goroutine!Next, Goroutine!Cancel
<1>11. CASE ProcessEnds
  BY <1>11 DEF ProcessEnds, Goto, Goroutine!Next, Goroutine!ProcessEnds
<1>12. CASE Restart
  BY <1>12, RefreshFields DEF Restart, FirstStep, Goroutine!Next, Goroutine!Starts
<1>13. CASE UNCHANGED vars
  BY <1>13 DEF vars
<1> QED
  BY <1>1, <1>2, <1>3, <1>4, <1>5, <1>6, <1>7, <1>8, <1>9, <1>10, <1>11, <1>12,
     <1>13 DEF Next, RefreshEnds

\* Through every attempt, tick, failure and restart, the goroutine is the one that the
\* process of Lifecycle is built on.
THEOREM GoroutineImplemented == Spec => ImplementsGoroutine
<1>1. Init => Goroutine!Init
  BY RefreshFields DEF Init, Goroutine!Init, Seen
<1>2. IInv /\ [Next]_vars => [Goroutine!Next]_(Goroutine!goroutine)
  BY GoroutineSteps
<1> QED
  BY <1>1, <1>2, Invariance, PTL DEF Spec, ImplementsGoroutine, Goroutine!Spec
=============================================================================
