------------------------------ MODULE UIProcess ------------------------------
(***************************************************************************)
(* The background half of montray-ui as a whole (runtime.rs): the network  *)
(* tasks, the event loop that receives from them, the notification         *)
(* dispatcher, and how all of them stop.                                   *)
(*                                                                         *)
(* What the event loop computes is UIRuntime's subject.  Here it takes     *)
(* events and enqueues notifications.                                      *)
(***************************************************************************)
EXTENDS UINetwork, NotificationDispatcher

VARIABLE pump    \* the event loop: "loop", "drain", "flush" or "stopped"

vars == <<netVars, noticeVars, pump>>

Init ==
    /\ NetInit
    /\ DispatcherInit
    /\ pump = "loop"

\* RuntimeHandle::shutdown, or the handle is dropped.
RequestShutdown ==
    /\ ~shutdown
    /\ shutdown' = TRUE
    /\ UNCHANGED <<tunneled, probed, events, connVars, tunVars, noticeVars, pump>>

Receive ==
    /\ events # <<>>
    /\ events' = Tail(events)

PumpUnchanged == UNCHANGED <<tunneled, probed, shutdown, connVars, tunVars>>

\* An event, and the notification it may give.
HandleEvent ==
    /\ pump = "loop"
    /\ Receive
    /\ enqueue_inner \/ UNCHANGED noticeVars
    /\ UNCHANGED pump /\ PumpUnchanged

\* A command or a tick, and the notification it may give.
HandleOther ==
    /\ pump = "loop"
    /\ enqueue_inner
    /\ UNCHANGED <<events, pump>> /\ PumpUnchanged

LeaveLoop ==
    /\ pump = "loop" /\ shutdown
    /\ pump' = "drain"
    /\ UNCHANGED <<events, noticeVars>> /\ PumpUnchanged

\* Mutant of DrainEvent: nothing is received any more.
DrainNothing ==
    /\ pump = "drain" /\ Receive
    /\ FALSE
    /\ UNCHANGED <<pump, noticeVars>> /\ PumpUnchanged

\* Events that arrive while the tasks stop are discarded.
DrainEvent ==
    /\ pump = "drain"
    /\ Receive
    /\ UNCHANGED <<pump, noticeVars>> /\ PumpUnchanged

TaskDone(s) == IF s \in tunneled THEN tun[s] = "done" ELSE Finished(s)

\* The last task has been joined; the dispatcher is told to stop.
JoinTasks ==
    /\ pump = "drain"
    /\ \A s \in Servers : TaskDone(s)
    /\ pump' = "flush"
    /\ CloseQueue
    /\ UNCHANGED events /\ PumpUnchanged

Stop ==
    /\ pump = "flush"
    /\ AwaitWorker
    /\ pump' = "stopped"
    /\ UNCHANGED events /\ PumpUnchanged

Pump == HandleEvent \/ HandleOther \/ LeaveLoop \/ DrainEvent \/ JoinTasks \/ Stop

Network(s) == NetStep(s) /\ UNCHANGED <<noticeVars, pump>>

Dispatcher == WorkerStep /\ UNCHANGED <<netVars, pump>>

Next == RequestShutdown \/ Pump \/ Dispatcher \/ \E s \in Servers : Network(s)

Spec == Init /\ [][Next]_vars

(***************************************************************************)
(* A task or a thread that can run runs; select! picks at random, so that  *)
(* a stop signal is noticed by a loop that comes back to it again and      *)
(* again; and a killed process dies.  Nothing is assumed of the desktop's  *)
(* notification service, nor of a process that has not been killed.        *)
(***************************************************************************)
Fairness ==
    /\ WF_vars(HandleEvent) /\ WF_vars(LeaveLoop) /\ WF_vars(DrainEvent)
    /\ WF_vars(JoinTasks) /\ WF_vars(Stop)
    /\ \A s \in Servers :
           /\ WF_vars(ConnectionStep(s) /\ UNCHANGED <<noticeVars, pump>>)
           /\ SF_vars(StopConnection(s) /\ UNCHANGED <<noticeVars, pump>>)
           /\ WF_vars(SupervisorStep(s) /\ UNCHANGED <<noticeVars, pump>>)
           /\ WF_vars(child[s] = "killed" /\ ChildExits(s) /\ UNCHANGED <<noticeVars, pump>>)

FairSpec == Spec /\ Fairness

\* In addition, a process that closes its outputs before it is ready exits.
TidySpec ==
    FairSpec /\ \A s \in Servers :
        WF_vars(tun[s] = "reap" /\ ChildExits(s) /\ UNCHANGED <<noticeVars, pump>>)

-----------------------------------------------------------------------------
(* The order of events that the reducer relies on.                         *)

ByConnection(s, done) ==
    CASE conn[s] \in {"read", "frame", "settleRead", "lostRead"} -> "online"
      [] conn[s] = "done" -> done
      [] OTHER -> "up"

Link(s) ==
    CASE tun[s] \in {"none", "serve", "joinStopped"} -> ByConnection(s, "stopped")
      [] tun[s] = "joinFailed" -> ByConnection(s, "broken")
      [] tun[s] \in {"drain", "report"} -> "broken"
      [] tun[s] \in {"start", "probe", "reap", "ready", "restart"} -> "down"
      [] OTHER -> "stopped"

L == INSTANCE ServerLink WITH
         link <- [s \in Servers |-> Link(s)], clock <- 0,
         Items <- {"item"}, Severities <- {"error"}, Errors <- {"error"}

\* The connection loops and tunnel supervisors send each server's events in the order
\* ServerLink promises the reducer: nothing of a socket before its Connected, nothing
\* of a connection before TunnelReady or after the tunnel broke.
LinkRefinement == L!LinkSpec

-----------------------------------------------------------------------------
\* Every variable keeps its type, and every channel its bound.
TypeOK ==
    /\ tunneled \in SUBSET Servers /\ probed \in SUBSET tunneled
    /\ shutdown \in BOOLEAN /\ pump \in {"loop", "drain", "flush", "stopped"}
    /\ Len(events) =< EventCap /\ \A i \in DOMAIN events : events[i] \in L!Event
    /\ conn \in [Servers -> ConnStates] /\ tun \in [Servers -> TunStates]
    /\ socket \in [Servers -> {0, 1}] /\ stop \in [Servers -> BOOLEAN]
    /\ child \in [Servers -> {"none", "running", "killed", "exited", "reaped"}]
    /\ quiet \in [Servers -> BOOLEAN] /\ marked \in [Servers -> BOOLEAN]
    /\ helper \in [Servers -> {"none", "group", "detached"}]
    /\ Len(notices) =< NoticeCap /\ sender \in {"open", "closed"}
    /\ worker \in {"recv", "push", "stopped", "dead"} /\ accepted \in 0..MaxNotices
    /\ outcome \in {"none", "Stopped", "Detached"}

\* "Ownership is intentionally hierarchical" (tunnel.rs): whenever a supervisor is
\* between two generations or has returned, the process is reaped, nothing is left in
\* its process group (on Unix; elsewhere the code knows no group and kills only the
\* process itself), and its connection loop has returned.
NoLeakedProcess ==
    \A s \in tunneled : tun[s] \in {"start", "drain", "report", "restart", "drainStopped", "done"} =>
        /\ child[s] \in {"none", "reaped"}
        /\ helper[s] # "group"
        /\ conn[s] \in {"off", "done", "ended"}

\* The event loop goes on to the notifications, and the process ends, only after every
\* connection and every tunnel is gone.
NothingOutlivesTheUI ==
    pump \in {"flush", "stopped"} =>
        \A s \in Servers : TaskDone(s) /\ child[s] \in {"none", "reaped"}

\* "Accepted notifications are delivered in reducer order" (notification.rs): what is
\* delivered and what waits are the accepted ones, in order and without a gap, unless
\* the worker died.
AcceptedInOrder ==
    LET all == [i \in 1..accepted |-> i]
    IN  IF worker = "dead" THEN delivered = SubSeq(all, 1, Len(delivered))
                           ELSE delivered \o notices = all

\* A shutdown that does not time out has shown every accepted notification.
StoppedMeansDelivered ==
    outcome = "Stopped" /\ worker # "dead" => Len(delivered) = accepted

\* Shutdown completes: whatever the sockets, the tunnels and the desktop are doing,
\* with the events channel full or not.
ShutdownCompletes == shutdown ~> pump = "stopped"
=============================================================================
