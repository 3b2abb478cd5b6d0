------------------------------ MODULE UINetwork ------------------------------
(***************************************************************************)
(* montray-ui's network tasks, one per server: the connection loop         *)
(* (network/client.rs) and, around it for a tunneled server, the           *)
(* supervisor of the tunnel's process (network/tunnel.rs).                 *)
(*                                                                         *)
(* Times are not told apart: a deadline or a delay may end at any moment.  *)
(* Nor are the contents of messages and errors.  The receiver of the       *)
(* events channel outlives the tasks, so a send never fails.               *)
(***************************************************************************)
EXTENDS Naturals, Sequences

CONSTANTS
    Servers,
    EventCap    \* capacity of the events channel (64)

VARIABLES
    tunneled,   \* configuration: the servers reached through a tunnel,
    probed,     \* and those whose tunnel has a readiness probe
    shutdown,   \* the runtime's shutdown watch
    events,     \* the events channel
    conn,       \* per server: the connection loop
    socket,     \* per server: 0 or 1, flips with every reported WebSocket (history)
    stop,       \* per server: the watch through which a supervisor stops its loop
    tun,        \* per server: the supervisor
    child,      \* per server: the tunnel's process
    quiet,      \* per server: it has closed its outputs before it was ready
    marked,     \* per server: its output contained the marker before it was ready
    helper      \* per server: a process it has started, which holds its outputs
                \* open: "none", in its process "group" or "detached" from it

connVars == <<conn, socket>>
procVars == <<child, quiet, marked, helper>>
tunVars == <<stop, tun, procVars>>
netVars == <<tunneled, probed, shutdown, events, connVars, tunVars>>

\* Where a connection loop and a supervisor may be.
ConnStates ==
    {"off", "setup", "unprepared", "ended", "dial", "settleDial", "lostDial", "connected",
     "read", "frame", "settleRead", "lostRead", "delay", "done"}
TunStates ==
    {"none", "start", "probe", "reap", "ready", "serve", "joinFailed", "joinStopped",
     "kill", "reapKilled", "drain", "drainStopped", "report", "restart", "done"}

NetInit ==
    /\ tunneled \in SUBSET Servers
    /\ probed \in SUBSET tunneled
    /\ shutdown = FALSE
    /\ events = <<>>
    /\ conn = [s \in Servers |-> IF s \in tunneled THEN "off" ELSE "setup"]
    /\ socket = [s \in Servers |-> 0]
    /\ stop = [s \in Servers |-> FALSE]
    /\ tun = [s \in Servers |-> IF s \in tunneled THEN "start" ELSE "none"]
    /\ child = [s \in Servers |-> "none"]
    /\ quiet = [s \in Servers |-> FALSE]
    /\ marked = [s \in Servers |-> FALSE]
    /\ helper = [s \in Servers |-> "none"]

Send(e) ==
    /\ Len(events) < EventCap
    /\ events' = Append(events, e)

\* Events, with one error text and one message content for all.
Plain(type, s) == [type |-> type, server |-> s, at |-> 0]
Failure(type, s) == [type |-> type, server |-> s, error |-> "error", at |-> 0]
Opened(s) == [type |-> "Connected", server |-> s, socket |-> 1 - socket[s], at |-> 0]
Beat(s) == [type |-> "Heartbeat", server |-> s, socket |-> socket[s], at |-> 0]
News(s) == [type |-> "Notification", server |-> s, total |-> [i \in {} |-> "error"],
            added |-> {}, removed |-> {}, at |-> 0]

-----------------------------------------------------------------------------
(* The connection loop.                                                    *)

\* What the loop's shutdown receiver sees.
Stopping(s) == IF s \in tunneled THEN stop[s] ELSE shutdown

Finished(s) == conn[s] \in {"done", "ended"}

Go(s, from, to) ==
    /\ conn[s] = from
    /\ conn' = [conn EXCEPT ![s] = to]

NetUnchanged == UNCHANGED <<tunneled, probed, shutdown, tunVars>>

\* ConnectionSetup::for_server and request: the token and the certificates.
Prepare(s) ==
    /\ Go(s, "setup", "dial") \/ Go(s, "setup", "unprepared")
    /\ UNCHANGED <<events, socket>> /\ NetUnchanged

\* The loop reports that it cannot run, and returns.
ReportUnprepared(s) ==
    /\ Go(s, "unprepared", "ended")
    /\ Send(Failure("Disconnected", s))
    /\ UNCHANGED socket /\ NetUnchanged

\* The attempt succeeds, or fails or times out.  A tunneled loop then waits a
\* moment for its tunnel to be blamed.
Dial(s) ==
    /\ \/ Go(s, "dial", "connected")
       \/ Go(s, "dial", IF s \in tunneled THEN "settleDial" ELSE "lostDial")
    /\ UNCHANGED <<events, socket>> /\ NetUnchanged

ReportConnected(s) ==
    /\ Go(s, "connected", "read")
    /\ socket' = [socket EXCEPT ![s] = 1 - @]
    /\ Send(Opened(s))
    /\ NetUnchanged

\* A frame: the heartbeat, a message, or the end of the socket: silence for too
\* long, closed, an error, a message that is too long or cannot be decoded.
\* Other frames, and messages of other kinds, are ignored.
Read(s) ==
    /\ \/ Go(s, "read", "frame")
       \/ Go(s, "read", IF s \in tunneled THEN "settleRead" ELSE "lostRead")
    /\ UNCHANGED <<events, socket>> /\ NetUnchanged

ReportFrame(s) ==
    /\ Go(s, "frame", "read")
    /\ Send(Beat(s)) \/ Send(News(s))
    /\ UNCHANGED socket /\ NetUnchanged

tunnel_stopped(s) ==
    /\ IF stop[s] THEN Go(s, "settleDial", "done") \/ Go(s, "settleRead", "done")
                  ELSE Go(s, "settleDial", "lostDial") \/ Go(s, "settleRead", "lostRead")
    /\ UNCHANGED <<events, socket>> /\ NetUnchanged

\* Reported, and on to the next attempt after a delay: 1 s more each time, at
\* most 10 s, never 0.
ReportLost(s) ==
    /\ Go(s, "lostDial", "delay") \/ Go(s, "lostRead", "delay")
    /\ Send(Failure("Disconnected", s))
    /\ UNCHANGED socket /\ NetUnchanged

Redial(s) ==
    /\ Go(s, "delay", "dial")
    /\ UNCHANGED <<events, socket>> /\ NetUnchanged

\* shutdown.changed(): looked at while the loop sleeps, dials or reads, and not
\* while it waits for room in the events channel.
StopConnection(s) ==
    /\ Stopping(s)
    /\ Go(s, "delay", "done") \/ Go(s, "dial", "done") \/ Go(s, "read", "done")
    /\ UNCHANGED <<events, socket>> /\ NetUnchanged

ConnectionStep(s) ==
    \/ Prepare(s) \/ ReportUnprepared(s) \/ Dial(s) \/ ReportConnected(s)
    \/ Read(s) \/ ReportFrame(s) \/ tunnel_stopped(s) \/ ReportLost(s) \/ Redial(s)
    \/ StopConnection(s)

-----------------------------------------------------------------------------
(* The tunnel's process, and what it may do at any time (external).        *)

\* No process holds the outputs: both readers have reached their end.
Eof(s) == (child[s] \in {"exited", "reaped"} \/ quiet[s]) /\ helper[s] = "none"

ProcessUnchanged == UNCHANGED <<tunneled, probed, shutdown, events, connVars, stop, tun>>

\* It, or what it has started, writes the readiness marker, or closes its outputs.
\* Neither is of interest once the tunnel is ready.
ChildMarks(s) ==
    /\ tun[s] = "probe"
    /\ (child[s] = "running" /\ ~quiet[s]) \/ helper[s] # "none"
    /\ ~marked[s]
    /\ marked' = [marked EXCEPT ![s] = TRUE]
    /\ UNCHANGED <<child, quiet, helper>> /\ ProcessUnchanged

ChildCloses(s) ==
    /\ tun[s] = "probe" /\ child[s] = "running" /\ ~quiet[s]
    /\ quiet' = [quiet EXCEPT ![s] = TRUE]
    /\ UNCHANGED <<child, marked, helper>> /\ ProcessUnchanged

ChildForks(s) ==
    /\ child[s] = "running" /\ ~quiet[s] /\ helper[s] = "none"
    /\ \E h \in {"group", "detached"} : helper' = [helper EXCEPT ![s] = h]
    /\ UNCHANGED <<child, quiet, marked>> /\ ProcessUnchanged

HelperExits(s) ==
    /\ helper[s] # "none"
    /\ helper' = [helper EXCEPT ![s] = "none"]
    /\ UNCHANGED <<child, quiet, marked>> /\ ProcessUnchanged

\* By itself, or because it was killed.
ChildExits(s) ==
    /\ child[s] \in {"running", "killed"}
    /\ child' = [child EXCEPT ![s] = "exited"]
    /\ UNCHANGED <<quiet, marked, helper>> /\ ProcessUnchanged

ProcessStep(s) ==
    ChildMarks(s) \/ ChildCloses(s) \/ ChildForks(s) \/ HelperExits(s) \/ ChildExits(s)

-----------------------------------------------------------------------------
(* The supervisor: one generation of the process after the other.          *)

Supervise(s, from, to) ==
    /\ tun[s] = from
    /\ tun' = [tun EXCEPT ![s] = to]

TunUnchanged == UNCHANGED <<tunneled, probed, shutdown>>

StartGeneration(s) ==
    /\ ~shutdown
    /\ Supervise(s, "start", IF s \in probed THEN "probe" ELSE "ready")
    /\ child' = [child EXCEPT ![s] = "running"]
    /\ quiet' = [quiet EXCEPT ![s] = FALSE]
    /\ marked' = [marked EXCEPT ![s] = FALSE]
    /\ helper' = [helper EXCEPT ![s] = "none"]
    /\ UNCHANGED <<events, connVars, stop>> /\ TunUnchanged

\* The command cannot be started, or shutdown is noticed first.
CannotStart(s) ==
    /\ IF shutdown THEN Supervise(s, "start", "done") ELSE Supervise(s, "start", "report")
    /\ UNCHANGED <<events, connVars, stop, procVars>> /\ TunUnchanged

\* child.wait() returns.
Reaped(s) ==
    /\ child[s] = "exited"
    /\ child' = [child EXCEPT ![s] = "reaped"]

\* Mutant of KilledGroup: only the process itself is killed.
GroupSurvives(s) == helper

\* terminate_process_group, then start_kill: the process and what it has
\* started in its group.
KilledGroup(s) == [helper EXCEPT ![s] = IF @ = "group" THEN "none" ELSE @]

\* Before the tunnel is ready: the marker, the end of the outputs, the end of the
\* process, or shutdown.  Once the outputs have ended, only the end of the process
\* is waited for.
BeforeReady(s) ==
    /\ \/ /\ marked[s]
          /\ Supervise(s, "probe", "ready")
          /\ marked' = [marked EXCEPT ![s] = FALSE]
          /\ quiet' = [quiet EXCEPT ![s] = FALSE]
          /\ UNCHANGED <<child, helper>>
       \/ /\ Eof(s) /\ ~marked[s]
          /\ Supervise(s, "probe", "reap")
          /\ UNCHANGED procVars
       \/ /\ Supervise(s, "probe", "drain") \/ Supervise(s, "reap", "drain")
          /\ Reaped(s)
          /\ helper' = KilledGroup(s)
          /\ UNCHANGED <<quiet, marked>>
       \/ /\ shutdown
          /\ Supervise(s, "probe", "kill")
          /\ UNCHANGED procVars
    /\ UNCHANGED <<events, connVars, stop>> /\ TunUnchanged

\* Report readiness and start the connection loop.
ReportReady(s) ==
    /\ Supervise(s, "ready", "serve")
    /\ Send(Plain("TunnelReady", s))
    /\ conn' = [conn EXCEPT ![s] = "setup"]
    /\ stop' = [stop EXCEPT ![s] = FALSE]
    /\ UNCHANGED <<socket, procVars>> /\ TunUnchanged

\* While it is ready: the process ends, the connection loop returns, or shutdown.
\* Either way the loop is told to stop.
WhileReady(s) ==
    /\ \/ /\ Supervise(s, "serve", "joinFailed")
          /\ Reaped(s)
       \/ /\ Finished(s)
          /\ Supervise(s, "serve", "kill")
          /\ UNCHANGED child
       \/ /\ shutdown
          /\ Supervise(s, "serve", "joinStopped")
          /\ UNCHANGED child
    /\ stop' = [stop EXCEPT ![s] = TRUE]
    /\ UNCHANGED <<events, connVars, quiet, marked, helper>> /\ TunUnchanged

\* Mutant of JoinAfterFailure: the failure is handled before the loop has returned.
FailWithoutJoining(s) ==
    /\ Supervise(s, "joinFailed", "drain")
    /\ helper' = KilledGroup(s)
    /\ UNCHANGED <<events, connVars, stop, child, quiet, marked>> /\ TunUnchanged

\* connection.await after the end of the process.
JoinAfterFailure(s) ==
    /\ Finished(s)
    /\ Supervise(s, "joinFailed", "drain")
    /\ conn' = [conn EXCEPT ![s] = "off"]
    /\ stop' = [stop EXCEPT ![s] = FALSE]
    /\ helper' = KilledGroup(s)
    /\ UNCHANGED <<events, socket, child, quiet, marked>> /\ TunUnchanged

\* connection.await during shutdown.
JoinAfterShutdown(s) ==
    /\ Finished(s)
    /\ Supervise(s, "joinStopped", "kill")
    /\ UNCHANGED <<events, connVars, stop, procVars>> /\ TunUnchanged

\* stop_generation: kill, reap, drain, return.
stop_child(s) ==
    /\ Supervise(s, "kill", "reapKilled")
    /\ child' = [child EXCEPT ![s] = IF @ = "running" THEN "killed" ELSE @]
    /\ helper' = KilledGroup(s)
    /\ UNCHANGED <<events, connVars, stop, quiet, marked>> /\ TunUnchanged

ReapKilled(s) ==
    /\ Supervise(s, "reapKilled", "drainStopped")
    /\ Reaped(s)
    /\ UNCHANGED <<events, connVars, stop, quiet, marked, helper>> /\ TunUnchanged

\* drain_output_readers: until the outputs end, but no longer than a second.
Drain(s) ==
    /\ Supervise(s, "drain", "report") \/ Supervise(s, "drainStopped", "done")
    /\ UNCHANGED <<events, connVars, stop, procVars>> /\ TunUnchanged

send_tunnel_failure(s) ==
    /\ Supervise(s, "report", "restart")
    /\ Send(Failure("TunnelFailed", s))
    /\ UNCHANGED <<connVars, stop, procVars>> /\ TunUnchanged

wait_to_restart(s) ==
    /\ Supervise(s, "restart", "start") \/ (shutdown /\ Supervise(s, "restart", "done"))
    /\ UNCHANGED <<events, connVars, stop, procVars>> /\ TunUnchanged

SupervisorStep(s) ==
    \/ StartGeneration(s) \/ CannotStart(s) \/ BeforeReady(s) \/ ReportReady(s)
    \/ WhileReady(s) \/ JoinAfterFailure(s) \/ JoinAfterShutdown(s)
    \/ stop_child(s) \/ ReapKilled(s) \/ Drain(s)
    \/ send_tunnel_failure(s) \/ wait_to_restart(s)

NetStep(s) == ConnectionStep(s) \/ SupervisorStep(s) \/ ProcessStep(s)
=============================================================================
