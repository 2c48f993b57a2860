--------------------------- MODULE LifecycleProofs ---------------------------
(* Theorems about Lifecycle, for any number of connections. *)
EXTENDS Lifecycle, Integers, TLAPS

\* The wait group counts the goroutines that have started and not yet returned, until
\* log.Fatalf ends them all.
ViewLives == view \in {"working", "select"}
ListenerLives == listener \in {"starting", "binding", "serving", "failing"}

WaitGroupCounts ==
  main # "failed" =>
    wg = (IF ViewLives THEN 1 ELSE 0) + (IF ListenerLives THEN 1 ELSE 0)

\* main starts the goroutines in order, and has started both when it gets to wait.
StartOrder == /\ main = "newHandlers" => view = "none"
              /\ main \in {"newHandlers", "listen"} => listener = "none"
              /\ view = "none" => main \in {"newHandlers", "failed"}
              /\ listener = "none" => main \in {"newHandlers", "listen", "failed"}

\* main stops the goroutines on its way to the wait, unless the listener has returned by
\* itself, which is what an error in the channel says; it sends one error only.
StopOrder == /\ main \in {"shutdown", "wait"} => ctxDone
             /\ main = "wait" => inShutdown \/ listener = "returned"
             /\ serverError => listener = "returned"

IInv == TypeOK /\ WaitGroupCounts /\ StartOrder /\ StopOrder /\ ExitAfterGoroutines

LEMMA InitIInv == Init => IInv
<1> SUFFICES ASSUME Init PROVE IInv
  OBVIOUS
<1>1. TypeOK
  <2>1. conn \in [Connections -> {"closed", "open", "running", "cut"}]
    BY DEF Init
  <2>2. ctxDone \in BOOLEAN /\ inShutdown \in BOOLEAN /\ stop \in BOOLEAN
          /\ serverError \in BOOLEAN
    BY DEF Init
  <2>3. wg \in 0..2
    BY DEF Init
  <2>4. /\ main \in {"newHandlers", "listen", "select", "shutdown", "wait",
                     "exited", "failed"}
        /\ listener \in {"none", "starting", "binding", "serving", "failing", "returned"}
        /\ view \in {"none", "working", "select", "returned"}
    BY DEF Init
  <2> QED
    BY <2>1, <2>2, <2>3, <2>4 DEF TypeOK
<1>2. WaitGroupCounts
  BY DEF Init, WaitGroupCounts, ViewLives, ListenerLives
<1>3. StartOrder /\ StopOrder /\ ExitAfterGoroutines
  BY DEF Init, StartOrder, StopOrder, ExitAfterGoroutines
<1> QED
  BY <1>1, <1>2, <1>3 DEF IInv

\* What the invariant says without the connections, of which the counts know nothing.
Control == /\ main \in {"newHandlers", "listen", "select", "shutdown", "wait",
                        "exited", "failed"}
           /\ listener \in {"none", "starting", "binding", "serving", "failing", "returned"}
           /\ view \in {"none", "working", "select", "returned"}
           /\ ctxDone \in BOOLEAN /\ stop \in BOOLEAN
           /\ serverError \in BOOLEAN /\ inShutdown \in BOOLEAN
           /\ wg \in 0..2

Connected == conn \in [Connections -> {"closed", "open", "running", "cut"}]

LEMMA TypeParts == TypeOK <=> Control /\ Connected
BY DEF TypeOK, Control, Connected

LEMMA NextIInv == IInv /\ [Next]_vars => IInv'
<1> SUFFICES ASSUME IInv, [Next]_vars
             PROVE  /\ Control' /\ Connected'
                    /\ WaitGroupCounts' /\ StartOrder' /\ StopOrder' /\ ExitAfterGoroutines'
  BY DEF IInv, TypeOK, Control, Connected
<1> Control /\ Connected
  BY TypeParts DEF IInv
<1> USE DEF IInv, Control, Connected, WaitGroupCounts, ViewLives, ListenerLives,
            StartOrder, StopOrder, ExitAfterGoroutines, Alive
<1>1. CASE NewHandlers
  <2>1. /\ main = "newHandlers" /\ view = "none" /\ listener = "none" /\ wg = 0
        /\ main' = "listen" /\ view' = "working" /\ wg' = 1 /\ ctxDone' = FALSE
        /\ UNCHANGED <<stop, serverError, listener, inShutdown, conn>>
    BY <1>1 DEF NewHandlers, Counted, Goroutine!Starts
  <2>2. Connected'
    BY <2>1
  <2>3. wg' \in 0..2
    BY <2>1
  <2>4. Control'
    BY <2>1, <2>3
  <2> QED
    BY <2>1, <2>2, <2>4
<1>2. CASE StartAPIServer
  BY <1>2 DEF StartAPIServer, Counted
<1>3. CASE SelectServerError
  BY <1>3 DEF SelectServerError, Goroutine!Cancel
<1>4. CASE SelectStop
  BY <1>4 DEF SelectStop, Goroutine!Cancel
<1>5. CASE ShutdownBegins
  BY <1>5 DEF ShutdownBegins
<1>6. CASE ShutdownReturns
  <2>1. Connected'
    BY <1>6 DEF ShutdownReturns
  <2> QED
    BY <1>6, <2>1 DEF ShutdownReturns
<1>7. CASE Exit
  <2>1. Connected'
    BY <1>7 DEF Exit, CutOff
  <2> QED
    BY <1>7, <2>1 DEF Exit
<1>8. CASE ListenerBinds
  BY <1>8 DEF ListenerBinds
<1>9. CASE ListenerServes
  BY <1>9 DEF ListenerServes
<1>10. CASE ListenerFails
  BY <1>10 DEF ListenerFails
<1>11. CASE ListenerSendsError
  BY <1>11 DEF ListenerSendsError
<1>12. CASE ListenerCloses
  BY <1>12 DEF ListenerCloses
<1>13. CASE ViewWorkEnds
  BY <1>13 DEF ViewWorkEnds, Goroutine!WorkEnds
<1>14. CASE ViewTick
  BY <1>14 DEF ViewTick, Goroutine!Tick
<1>15. CASE ViewReturns
  BY <1>15 DEF ViewReturns, Goroutine!Returns
<1>16. CASE ViewGivesUp
  <2>1. Connected'
    BY <1>16 DEF ViewGivesUp, CutOff, Goroutine!GivesUp
  <2> QED
    BY <1>16, <2>1 DEF ViewGivesUp, Goroutine!GivesUp
<1>17. CASE OSSignal
  BY <1>17 DEF OSSignal
<1>18. ASSUME NEW c \in Connections, Connect(c) \/ RequestArrives(c) \/ RequestAnswered(c)
       PROVE  /\ Control' /\ Connected'
              /\ WaitGroupCounts' /\ StartOrder' /\ StopOrder' /\ ExitAfterGoroutines'
  <2>1. Connected'
    BY <1>18 DEF Connect, RequestArrives, RequestAnswered
  <2> QED
    BY <1>18, <2>1 DEF Connect, RequestArrives, RequestAnswered
<1>19. CASE UNCHANGED vars
  BY <1>19 DEF vars
<1> QED
  BY <1>1, <1>2, <1>3, <1>4, <1>5, <1>6, <1>7, <1>8, <1>9, <1>10, <1>11, <1>12, <1>13,
     <1>14, <1>15, <1>16, <1>17, <1>18, <1>19 DEF Next, Main, Listener

LEMMA Invariance == Spec => []IInv
<1>1. IInv /\ [Next]_vars => IInv'
  BY NextIInv
<1> QED
  BY <1>1, InitIInv, PTL DEF Spec

\* The wait group never goes below zero, however the goroutines end.
THEOREM TypeCorrect == Spec => []TypeOK
<1>1. IInv => TypeOK
  BY DEF IInv
<1> QED
  BY <1>1, Invariance, PTL

\* main returns only after both goroutines have.
THEOREM ExitIsLast == Spec => []ExitAfterGoroutines
<1>1. IInv => ExitAfterGoroutines
  BY DEF IInv
<1> QED
  BY <1>1, Invariance, PTL

\* Whatever made it stop, main waits only for goroutines that have been told to end, and
\* none of them hangs on a channel that main has left.
THEOREM WaitsNotInVain == Spec => []WaitNeverInVain
<1>1. IInv => WaitNeverInVain
  <2> SUFFICES ASSUME IInv, main = "wait" PROVE WaitNeverInVain
    BY DEF WaitNeverInVain
  <2>1. view # "none" /\ listener # "none"
    BY DEF IInv, StartOrder
  <2>2. wg # 0 => view # "returned" \/ listener # "returned"
    BY DEF IInv, WaitGroupCounts, ViewLives, ListenerLives
  <2>3. listener = "failing" => RoomForError
    BY DEF IInv, StopOrder, RoomForError
  <2> QED
    BY <2>1, <2>2, <2>3 DEF IInv, StopOrder, WaitNeverInVain
<1> QED
  BY <1>1, Invariance, PTL
=============================================================================
