------------------------------ MODULE Lifecycle ------------------------------
(***************************************************************************)
(* The process, from the start of its goroutines to its end: main of       *)
(* cmd/main.go, the listener goroutine of cmd/api/api.go, the goroutine    *)
(* that refreshes the view, and the requests being served.                 *)
(*                                                                         *)
(* main waits in a select for a signal of the operating system (channel    *)
(* stop) or the error of the listener (channel serverError), cancels the   *)
(* runtime context, shuts the server down if it was a signal, and waits for*)
(* the wait group of the two goroutines.  Both channels hold one value.    *)
(* A request is in no wait group: it ends with the process.                *)
(*                                                                         *)
(* The view goroutine is the one of ViewGoroutine, of which ViewSync says  *)
(* what it does between its selects.                                       *)
(***************************************************************************)
EXTENDS Naturals

CONSTANT Connections  \* connections that clients may hold at once

VARIABLES main,          \* where main is
          ctxDone,       \* runtimeContext is cancelled
          stop,          \* a signal waits in the channel stop
          serverError,   \* an error waits in the channel serverError
          listener,      \* the goroutine of ListenAndServe
          inShutdown,    \* Shutdown was called on the server
          view,          \* the goroutine of SyncDataWithSortedViews
          wg,            \* the counter of the wait group
          conn           \* the connections: closed, open, with a request running,
                         \* or cut off from it by the exit

Goroutine == INSTANCE ViewGoroutine

vars == <<main, ctxDone, stop, serverError, listener, inShutdown, view, wg, conn>>

Init == /\ main = "newHandlers"
        /\ ctxDone = FALSE
        /\ stop = FALSE
        /\ serverError = FALSE
        /\ listener = "none"
        /\ inShutdown = FALSE
        /\ view = "none"
        /\ wg = 0
        /\ conn = [c \in Connections |-> "closed"]

Alive == main \notin {"exited", "failed"}

\* The end of the process cuts off the requests that are running.
CutOff == conn' = [c \in Connections |-> IF conn[c] = "running" THEN "cut" ELSE conn[c]]

----------------------------------------------------------------------------
(* Faulty variants, none of which a specification uses.                    *)

\* A channel of no capacity: the send waits until main receives.
FaultyRoomForError == main = "select"
\* A goroutine that nobody counted.
FaultyCounted == 0

----------------------------------------------------------------------------
(* main.                                                                   *)

\* What a goroutine adds to the wait group before it starts.
Counted == 1

\* The view goroutine starts with the handlers of the services.
NewHandlers ==
  /\ main = "newHandlers"
  /\ wg' = wg + Counted
  /\ Goroutine!Starts
  /\ main' = "listen"
  /\ UNCHANGED <<stop, serverError, listener, inShutdown, conn>>

StartAPIServer ==
  /\ main = "listen"
  /\ wg' = wg + Counted
  /\ listener' = "starting"
  /\ main' = "select"
  /\ UNCHANGED <<ctxDone, stop, serverError, inShutdown, view, conn>>

\* The listener has failed: no Shutdown.
SelectServerError ==
  /\ main = "select"
  /\ serverError
  /\ serverError' = FALSE
  /\ Goroutine!Cancel
  /\ main' = "wait"
  /\ UNCHANGED <<stop, listener, inShutdown, wg, conn>>

SelectStop ==
  /\ main = "select"
  /\ stop
  /\ stop' = FALSE
  /\ Goroutine!Cancel
  /\ main' = "shutdown"
  /\ UNCHANGED <<serverError, listener, inShutdown, wg, conn>>

\* Shutdown closes the listener and refuses new connections.
ShutdownBegins ==
  /\ main = "shutdown"
  /\ ~inShutdown
  /\ inShutdown' = TRUE
  /\ UNCHANGED <<main, ctxDone, stop, serverError, listener, view, wg, conn>>

\* It closes idle connections, not those just opened, and polls: it returns once none
\* is left, or with an error as soon as its context, the runtime context, is done.
ShutdownReturns ==
  /\ main = "shutdown"
  /\ inShutdown
  /\ \E idle \in SUBSET {c \in Connections : conn[c] = "open"} :
       /\ ctxDone \/ \A c \in Connections \ idle : conn[c] = "closed"
       /\ conn' = [c \in Connections |-> IF c \in idle THEN "closed" ELSE conn[c]]
  /\ main' = "wait"
  /\ UNCHANGED <<ctxDone, stop, serverError, listener, inShutdown, view, wg>>

\* (A faulty variant that does not wait.)
FaultyExit ==
  /\ main = "wait"
  /\ main' = "exited"
  /\ CutOff
  /\ UNCHANGED <<ctxDone, stop, serverError, listener, inShutdown, view, wg>>

\* wg.Wait is over and main returns, cutting off what still runs.
Exit ==
  /\ main = "wait"
  /\ wg = 0
  /\ main' = "exited"
  /\ CutOff
  /\ UNCHANGED <<ctxDone, stop, serverError, listener, inShutdown, view, wg>>

----------------------------------------------------------------------------
(* The listener goroutine.                                                 *)

\* ListenAndServe looks for a Shutdown before it binds its port.
ListenerBinds ==
  /\ Alive
  /\ listener = "starting"
  /\ ~inShutdown
  /\ listener' = "binding"
  /\ UNCHANGED <<main, ctxDone, stop, serverError, inShutdown, view, wg, conn>>

ListenerServes ==
  /\ Alive
  /\ listener = "binding"
  /\ ~inShutdown
  /\ listener' = "serving"
  /\ UNCHANGED <<main, ctxDone, stop, serverError, inShutdown, view, wg, conn>>

\* The port is taken, or Accept fails other than by the Shutdown.
ListenerFails ==
  /\ Alive
  /\ \/ listener = "binding"
     \/ listener = "serving" /\ ~inShutdown
  /\ listener' = "failing"
  /\ UNCHANGED <<main, ctxDone, stop, serverError, inShutdown, view, wg, conn>>

\* serverError holds one error.
RoomForError == ~serverError

ListenerSendsError ==
  /\ Alive
  /\ listener = "failing"
  /\ RoomForError
  /\ serverError' = TRUE
  /\ listener' = "returned"
  /\ wg' = wg - 1
  /\ UNCHANGED <<main, ctxDone, stop, inShutdown, view, conn>>

\* ErrServerClosed is not sent.
ListenerCloses ==
  /\ Alive
  /\ listener \in {"starting", "binding", "serving"}
  /\ inShutdown
  /\ listener' = "returned"
  /\ wg' = wg - 1
  /\ UNCHANGED <<main, ctxDone, stop, serverError, inShutdown, view, conn>>

----------------------------------------------------------------------------
(* The view goroutine.                                                     *)

ViewWorkEnds ==
  /\ Alive
  /\ Goroutine!WorkEnds
  /\ UNCHANGED <<main, stop, serverError, listener, inShutdown, wg, conn>>

ViewTick ==
  /\ Alive
  /\ Goroutine!Tick
  /\ UNCHANGED <<main, stop, serverError, listener, inShutdown, wg, conn>>

ViewReturns ==
  /\ Alive
  /\ Goroutine!Returns
  /\ wg' = wg - 1
  /\ UNCHANGED <<main, stop, serverError, listener, inShutdown, conn>>

\* log.Fatalf after the last attempt of a refresh.
ViewGivesUp ==
  /\ Alive
  /\ Goroutine!GivesUp
  /\ main' = "failed"
  /\ CutOff
  /\ UNCHANGED <<stop, serverError, listener, inShutdown, wg>>

----------------------------------------------------------------------------
(* The world.                                                              *)

\* SIGINT or SIGTERM once main has asked for them; one waits, more are dropped.
OSSignal ==
  /\ Alive
  /\ stop' = TRUE
  /\ UNCHANGED <<main, ctxDone, serverError, listener, inShutdown, view, wg, conn>>

Connect(c) ==
  /\ Alive
  /\ listener = "serving" /\ ~inShutdown
  /\ conn[c] = "closed"
  /\ conn' = [conn EXCEPT ![c] = "open"]
  /\ UNCHANGED <<main, ctxDone, stop, serverError, listener, inShutdown, view, wg>>

\* A request comes in over an open connection, whoever has stopped meanwhile.
RequestArrives(c) ==
  /\ Alive
  /\ conn[c] = "open"
  /\ conn' = [conn EXCEPT ![c] = "running"]
  /\ UNCHANGED <<main, ctxDone, stop, serverError, listener, inShutdown, view, wg>>

\* A request is answered; a connection is kept except in a Shutdown.
RequestAnswered(c) ==
  /\ Alive
  /\ conn[c] = "running"
  /\ \E next \in {"open", "closed"} :
       /\ inShutdown => next = "closed"
       /\ conn' = [conn EXCEPT ![c] = next]
  /\ UNCHANGED <<main, ctxDone, stop, serverError, listener, inShutdown, view, wg>>

Listener == ListenerBinds \/ ListenerServes \/ ListenerFails \/ ListenerSendsError
              \/ ListenerCloses

Main == \/ NewHandlers \/ StartAPIServer \/ SelectServerError \/ SelectStop
        \/ ShutdownBegins \/ ShutdownReturns \/ Exit

Next == \/ Main
        \/ Listener
        \/ ViewWorkEnds \/ ViewTick \/ ViewReturns \/ ViewGivesUp
        \/ OSSignal
        \/ \E c \in Connections : Connect(c) \/ RequestArrives(c) \/ RequestAnswered(c)

Spec == Init /\ [][Next]_vars

\* Goroutines that can run do run, a refresh ends one way or the other (three
\* attempts, each a statement), a closed listener returns, and a select whose done
\* context is ready again and again picks it.  Nothing obliges a request to end.
Fairness == /\ WF_vars(Main)
            /\ WF_vars(ListenerSendsError \/ ListenerCloses)
            /\ WF_vars(ViewWorkEnds \/ ViewGivesUp)
            /\ SF_vars(ViewReturns)

FairSpec == Spec /\ Fairness

----------------------------------------------------------------------------
(* Properties.                                                             *)

\* Every variable has its type, and the counter of the wait group never goes below
\* zero, at which Done would panic.
TypeOK == /\ main \in {"newHandlers", "listen", "select", "shutdown", "wait",
                       "exited", "failed"}
          /\ listener \in {"none", "starting", "binding", "serving", "failing", "returned"}
          /\ view \in {"none", "working", "select", "returned"}
          /\ ctxDone \in BOOLEAN /\ inShutdown \in BOOLEAN
          /\ stop \in BOOLEAN /\ serverError \in BOOLEAN
          /\ wg \in 0..2
          /\ conn \in [Connections -> {"closed", "open", "running", "cut"}]

\* A process that exits in order has seen both of its goroutines return: no refresh
\* is interrupted by the exit of main, whatever made it stop.
ExitAfterGoroutines ==
  main = "exited" => view = "returned" /\ listener = "returned"

\* main never waits for a goroutine that was not told to end or cannot: at wg.Wait, a
\* counter above zero has a goroutine behind it, the view goroutine has its context
\* cancelled, and the listener its Shutdown, or an error and room to send it.
WaitNeverInVain ==
  main = "wait" =>
    /\ wg # 0 => view # "returned" \/ listener # "returned"
    /\ view # "returned" => ctxDone
    /\ listener # "returned" => inShutdown \/ listener = "failing"
    /\ listener = "failing" => RoomForError

\* A signal or the failure of the listener ends the process, whatever the requests
\* and the view goroutine are doing, whichever comes first, at any point of a start:
\* it never stays up without its listener.
StopEndsProcess == stop \/ listener \in {"failing", "returned"} ~> ~Alive

\* A shutdown is graceful: main goes on to its end only when no request is being
\* served ("shutting down gracefully", "Api server graceful shutdown").
ShutdownIsGraceful ==
  [][ShutdownReturns => \A c \in Connections : conn[c] # "running"]_vars

=============================================================================
