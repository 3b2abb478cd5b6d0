--------------------------- MODULE UIProcessProofs ---------------------------
(***************************************************************************)
(* Proofs about UIProcess, for any servers and any channel capacities.     *)
(*                                                                         *)
(* ServerInv relates a server's connection loop, supervisor and process.   *)
(* It is kept server by server: a step of one server leaves the others     *)
(* alone (OtherServer).                                                    *)
(***************************************************************************)
EXTENDS UIProcess, TLAPS

ChildStates == {"none", "running", "killed", "exited", "reaped"}
HelperStates == {"none", "group", "detached"}

NetTypes ==
    /\ tunneled \subseteq Servers
    /\ conn \in [Servers -> ConnStates]
    /\ tun \in [Servers -> TunStates]
    /\ stop \in [Servers -> BOOLEAN]
    /\ child \in [Servers -> ChildStates]
    /\ helper \in [Servers -> HelperStates]

\* The supervisor has no connection loop yet, or it has joined it after a failure.
Alone == {"start", "probe", "reap", "ready", "drain", "report", "restart"}
\* The supervisor is about to return.
Ending == {"kill", "reapKilled", "drainStopped", "done"}
\* Its process is gone.
Between == {"start", "drain", "report", "restart", "drainStopped", "done"}

\* The connection loop of a tunneled server.
ConnInv(s) ==
    /\ tun[s] # "none"
    /\ tun[s] \in Alone => conn[s] = "off"
    /\ tun[s] \in Ending => conn[s] \in {"off", "done", "ended"}
    /\ tun[s] = "serve" => conn[s] \notin {"off", "done"} /\ ~stop[s]
    /\ tun[s] \in {"joinFailed", "joinStopped"} => conn[s] # "off"

\* The process of a tunneled server.
ProcInv(s) ==
    /\ tun[s] \in Between => child[s] \in {"none", "reaped"} /\ helper[s] # "group"
    /\ tun[s] \in {"probe", "reap", "ready", "serve", "joinStopped", "kill"} =>
           child[s] \in {"running", "exited"}
    /\ tun[s] = "joinFailed" => child[s] = "reaped"
    /\ tun[s] = "reapKilled" => child[s] \in {"killed", "exited"} /\ helper[s] # "group"

ServerInv(s) ==
    IF s \in tunneled
    THEN ConnInv(s) /\ ProcInv(s)
    ELSE tun[s] = "none" /\ conn[s] # "off" /\ child[s] = "none" /\ helper[s] = "none"

NetInv == NetTypes /\ \A s \in Servers : ServerInv(s)

\* The part of the state that ServerInv looks at.
serverVars == <<tunneled, conn, tun, stop, child, helper>>

\* Nothing of server t changes.
Same(t) ==
    /\ tunneled' = tunneled
    /\ conn'[t] = conn[t] /\ tun'[t] = tun[t] /\ stop'[t] = stop[t]
    /\ child'[t] = child[t] /\ helper'[t] = helper[t]

\* A step of s alone.
OnlyAt(s) == \A t \in Servers \ {s} : Same(t)

\* ServerInv looks at the state of its server only.
LEMMA SameKeeps == ASSUME NEW t, ServerInv(t), Same(t) PROVE ServerInv(t)'
  BY DEF ServerInv, ConnInv, ProcInv, Same

\* A step of server s is a step of s alone.
LEMMA OneServer ==
  ASSUME NetInv, NEW s \in Servers, NetTypes', ServerInv(s)',
         OnlyAt(s)
  PROVE  NetInv'
  BY SameKeeps DEF NetInv, OnlyAt

\* Before anything has started.
LEMMA NetInitially == NetInit => NetInv
<1> SUFFICES ASSUME NetInit PROVE NetInv
  OBVIOUS
<1>1. NetTypes
  BY DEF NetInit, NetTypes, ConnStates, TunStates, ChildStates, HelperStates
<1>2. ASSUME NEW s \in Servers PROVE ServerInv(s)
  BY DEF NetInit, ServerInv, ConnInv, ProcInv, Alone, Ending, Between
<1> QED
  BY <1>1, <1>2 DEF NetInv

-----------------------------------------------------------------------------
(* The connection loop *)

\* What a step of the loop of s does: it was running, it does not turn itself
\* off, and it is done only when told.
LoopMoves(s) ==
    /\ conn[s] \notin {"off", "done", "ended"}
    /\ conn'[s] \in ConnStates \ {"off"}
    /\ conn'[s] = "done" => s \notin tunneled \/ stop[s]
    /\ conn' = [conn EXCEPT ![s] = conn'[s]]

\* A move of the connection loop.
LEMMA GoMoves ==
  ASSUME NEW s \in Servers, NEW from, NEW to, NetTypes, Go(s, from, to)
  PROVE  conn[s] = from /\ conn'[s] = to /\ conn' = [conn EXCEPT ![s] = conn'[s]]
  BY DEF Go, NetTypes

\* What the steps of a connection loop change.
LEMMA ConnectionMoves ==
  ASSUME NEW s \in Servers, NetTypes, ConnectionStep(s)
  PROVE  /\ LoopMoves(s)
         /\ UNCHANGED <<tunneled, probed, shutdown, stop, tun, child, quiet, marked, helper>>
<1>1. UNCHANGED <<tunneled, probed, shutdown, stop, tun, child, quiet, marked, helper>>
  BY DEF ConnectionStep, Prepare, ReportUnprepared, Dial, ReportConnected, Read,
         ReportFrame, tunnel_stopped, ReportLost, Redial, StopConnection, NetUnchanged,
         tunVars, procVars
<1> USE GoMoves DEF LoopMoves, ConnStates
<1>2. ASSUME Prepare(s) PROVE LoopMoves(s)
  BY <1>2 DEF Prepare
<1>3. ASSUME ReportUnprepared(s) PROVE LoopMoves(s)
  BY <1>3 DEF ReportUnprepared
<1>4. ASSUME Dial(s) PROVE LoopMoves(s)
  BY <1>4 DEF Dial
<1>5. ASSUME ReportConnected(s) PROVE LoopMoves(s)
  BY <1>5 DEF ReportConnected
<1>6. ASSUME Read(s) PROVE LoopMoves(s)
  BY <1>6 DEF Read
<1>7. ASSUME ReportFrame(s) PROVE LoopMoves(s)
  BY <1>7 DEF ReportFrame
<1>8. ASSUME tunnel_stopped(s) PROVE LoopMoves(s)
  BY <1>8 DEF tunnel_stopped
<1>9. ASSUME ReportLost(s) PROVE LoopMoves(s)
  BY <1>9 DEF ReportLost
<1>10. ASSUME Redial(s) PROVE LoopMoves(s)
  BY <1>10 DEF Redial
<1>11. ASSUME StopConnection(s) PROVE LoopMoves(s)
  BY <1>11 DEF StopConnection, Stopping
<1> QED
  BY <1>1, <1>2, <1>3, <1>4, <1>5, <1>6, <1>7, <1>8, <1>9, <1>10, <1>11
  DEF ConnectionStep

\* The connection loop keeps the invariant.
LEMMA ConnectionKeeps ==
  ASSUME NetInv, NEW s \in Servers, ConnectionStep(s)
  PROVE  NetInv'
<1>1. LoopMoves(s)
  BY ConnectionMoves DEF NetInv
<1>2. UNCHANGED <<tunneled, stop, tun, child, helper>>
  BY ConnectionMoves DEF NetInv
<1>3. NetTypes'
  BY <1>1, <1>2 DEF NetInv, NetTypes, LoopMoves
<1>4. ServerInv(s)
  BY <1>1 DEF NetInv, NetTypes, LoopMoves
<1>5. ServerInv(s)'
  BY <1>1, <1>2, <1>4 DEF ServerInv, ConnInv, ProcInv, LoopMoves, Alone, Ending
<1>6. OnlyAt(s)
  BY <1>1, <1>2 DEF NetInv, NetTypes, LoopMoves, Same, OnlyAt
<1> QED
  BY <1>3, <1>5, <1>6, OneServer

-----------------------------------------------------------------------------
(* The supervisor and the process *)

\* A step of s that changes the other servers in nothing.
Local(s) ==
    /\ tunneled' = tunneled
    /\ conn' = [conn EXCEPT ![s] = conn'[s]]
    /\ tun' = [tun EXCEPT ![s] = tun'[s]]
    /\ stop' = [stop EXCEPT ![s] = stop'[s]]
    /\ child' = [child EXCEPT ![s] = child'[s]]
    /\ helper' = [helper EXCEPT ![s] = helper'[s]]

\* The new values at s have their types.
TypedAt(s) ==
    /\ conn'[s] \in ConnStates
    /\ tun'[s] \in TunStates
    /\ stop'[s] \in BOOLEAN
    /\ child'[s] \in ChildStates
    /\ helper'[s] \in HelperStates

\* A step of one server needs to keep its own part of the invariant only.
LEMMA LocalKeeps ==
  ASSUME NetInv, NEW s \in Servers, Local(s), TypedAt(s), ServerInv(s)'
  PROVE  NetInv'
<1>1. NetTypes'
  BY DEF NetInv, NetTypes, Local, TypedAt
<1>2. OnlyAt(s)
  BY DEF NetInv, NetTypes, Local, Same, OnlyAt
<1> QED
  BY <1>1, <1>2, OneServer

\* A move of the supervisor.
LEMMA SuperviseMoves ==
  ASSUME NEW s \in Servers, NEW from, NEW to, NetTypes, Supervise(s, from, to)
  PROVE  tun[s] = from /\ tun'[s] = to /\ tun' = [tun EXCEPT ![s] = tun'[s]]
  BY DEF Supervise, NetTypes

\* A supervisor runs only for a tunneled server.
LEMMA SupervisedIsTunneled ==
  ASSUME NetInv, NEW s \in Servers, tun[s] # "none"
  PROVE  s \in tunneled /\ ConnInv(s) /\ ProcInv(s)
  BY DEF NetInv, ServerInv

\* The steps of the supervisor and of its process keep the invariant: a generation starts ...
LEMMA StartGenerationKeeps ==
  ASSUME NetInv, NEW s \in Servers, StartGeneration(s)
  PROVE  NetInv'
<1> USE DEF StartGeneration, TunUnchanged, connVars, procVars
<1>1. /\ NetTypes
      /\ tun[s] \in TunStates /\ child[s] \in ChildStates
      /\ conn[s] \in ConnStates /\ helper[s] \in HelperStates /\ stop[s] \in BOOLEAN
  BY DEF NetInv, NetTypes
<1>2. Local(s)
  BY <1>1, SuperviseMoves DEF NetTypes, Local
<1>3. TypedAt(s)
  BY <1>1, SuperviseMoves DEF NetTypes, TypedAt, ConnStates, TunStates, ChildStates, HelperStates
<1>4. tun[s] # "none" /\ tun'[s] # "none"
  BY <1>1, SuperviseMoves
<1>5. s \in tunneled' /\ ConnInv(s) /\ ProcInv(s)
  BY <1>2, <1>4, SupervisedIsTunneled DEF Local
<1>6. ConnInv(s)'
  BY <1>1, <1>5, SuperviseMoves DEF NetTypes, ConnInv, Alone, Ending
<1>7. ProcInv(s)'
  BY <1>1, <1>5, SuperviseMoves DEF NetTypes, ProcInv, Between
<1> QED
  BY <1>2, <1>3, <1>5, <1>6, <1>7, LocalKeeps DEF ServerInv

\* ... or cannot start ...
LEMMA CannotStartKeeps ==
  ASSUME NetInv, NEW s \in Servers, CannotStart(s)
  PROVE  NetInv'
<1> USE DEF CannotStart, TunUnchanged, connVars, procVars
<1>1. /\ NetTypes
      /\ tun[s] \in TunStates /\ child[s] \in ChildStates
      /\ conn[s] \in ConnStates /\ helper[s] \in HelperStates /\ stop[s] \in BOOLEAN
  BY DEF NetInv, NetTypes
<1>2. Local(s)
  BY <1>1, SuperviseMoves DEF NetTypes, Local
<1>3. TypedAt(s)
  BY <1>1, SuperviseMoves DEF NetTypes, TypedAt, ConnStates, TunStates, ChildStates, HelperStates
<1>4. tun[s] # "none" /\ tun'[s] # "none"
  BY <1>1, SuperviseMoves
<1>5. s \in tunneled' /\ ConnInv(s) /\ ProcInv(s)
  BY <1>2, <1>4, SupervisedIsTunneled DEF Local
<1>6. ConnInv(s)'
  BY <1>1, <1>5, SuperviseMoves DEF NetTypes, ConnInv, Alone, Ending
<1>7. ProcInv(s)'
  BY <1>1, <1>5, SuperviseMoves DEF NetTypes, ProcInv, Between
<1> QED
  BY <1>2, <1>3, <1>5, <1>6, <1>7, LocalKeeps DEF ServerInv

\* ... its process runs, is probed, and ends or is told to stop ...
LEMMA BeforeReadyKeeps ==
  ASSUME NetInv, NEW s \in Servers, BeforeReady(s)
  PROVE  NetInv'
<1> USE DEF BeforeReady, Reaped, KilledGroup, TunUnchanged, connVars, procVars
<1>1. /\ NetTypes
      /\ tun[s] \in TunStates /\ child[s] \in ChildStates
      /\ conn[s] \in ConnStates /\ helper[s] \in HelperStates /\ stop[s] \in BOOLEAN
  BY DEF NetInv, NetTypes
<1>2. Local(s)
  BY <1>1, SuperviseMoves DEF NetTypes, Local
<1>3. TypedAt(s)
  BY <1>1, SuperviseMoves DEF NetTypes, TypedAt, ConnStates, TunStates, ChildStates, HelperStates
<1>4. tun[s] # "none" /\ tun'[s] # "none"
  BY <1>1, SuperviseMoves
<1>5. s \in tunneled' /\ ConnInv(s) /\ ProcInv(s)
  BY <1>2, <1>4, SupervisedIsTunneled DEF Local
<1>6. ConnInv(s)'
  BY <1>1, <1>5, SuperviseMoves DEF NetTypes, ConnInv, Alone, Ending
<1>7. ProcInv(s)'
  BY <1>1, <1>5, SuperviseMoves DEF NetTypes, ProcInv, Between
<1> QED
  BY <1>2, <1>3, <1>5, <1>6, <1>7, LocalKeeps DEF ServerInv

\* ... it is ready and its connection loop starts ...
LEMMA ReportReadyKeeps ==
  ASSUME NetInv, NEW s \in Servers, ReportReady(s)
  PROVE  NetInv'
<1> USE DEF ReportReady, TunUnchanged, connVars, procVars
<1>1. /\ NetTypes
      /\ tun[s] \in TunStates /\ child[s] \in ChildStates
      /\ conn[s] \in ConnStates /\ helper[s] \in HelperStates /\ stop[s] \in BOOLEAN
  BY DEF NetInv, NetTypes
<1>2. Local(s)
  BY <1>1, SuperviseMoves DEF NetTypes, Local
<1>3. TypedAt(s)
  BY <1>1, SuperviseMoves DEF NetTypes, TypedAt, ConnStates, TunStates, ChildStates, HelperStates
<1>4. tun[s] # "none" /\ tun'[s] # "none"
  BY <1>1, SuperviseMoves
<1>5. s \in tunneled' /\ ConnInv(s) /\ ProcInv(s)
  BY <1>2, <1>4, SupervisedIsTunneled DEF Local
<1>6. ConnInv(s)'
  BY <1>1, <1>5, SuperviseMoves DEF NetTypes, ConnInv, Alone, Ending
<1>7. ProcInv(s)'
  BY <1>1, <1>5, SuperviseMoves DEF NetTypes, ProcInv, Between
<1> QED
  BY <1>2, <1>3, <1>5, <1>6, <1>7, LocalKeeps DEF ServerInv

\* ... it ends or is told to stop ...
LEMMA WhileReadyKeeps ==
  ASSUME NetInv, NEW s \in Servers, WhileReady(s)
  PROVE  NetInv'
<1> USE DEF WhileReady, Reaped, Finished, TunUnchanged, connVars, procVars
<1>1. /\ NetTypes
      /\ tun[s] \in TunStates /\ child[s] \in ChildStates
      /\ conn[s] \in ConnStates /\ helper[s] \in HelperStates /\ stop[s] \in BOOLEAN
  BY DEF NetInv, NetTypes
<1>2. Local(s)
  BY <1>1, SuperviseMoves DEF NetTypes, Local
<1>3. TypedAt(s)
  BY <1>1, SuperviseMoves DEF NetTypes, TypedAt, ConnStates, TunStates, ChildStates, HelperStates
<1>4. tun[s] # "none" /\ tun'[s] # "none"
  BY <1>1, SuperviseMoves
<1>5. s \in tunneled' /\ ConnInv(s) /\ ProcInv(s)
  BY <1>2, <1>4, SupervisedIsTunneled DEF Local
<1>6. ConnInv(s)'
  BY <1>1, <1>5, SuperviseMoves DEF NetTypes, ConnInv, Alone, Ending
<1>7. ProcInv(s)'
  BY <1>1, <1>5, SuperviseMoves DEF NetTypes, ProcInv, Between
<1> QED
  BY <1>2, <1>3, <1>5, <1>6, <1>7, LocalKeeps DEF ServerInv

\* ... and its connection loop is joined ...
LEMMA JoinAfterFailureKeeps ==
  ASSUME NetInv, NEW s \in Servers, JoinAfterFailure(s)
  PROVE  NetInv'
<1> USE DEF JoinAfterFailure, KilledGroup, TunUnchanged, connVars, procVars
<1>1. /\ NetTypes
      /\ tun[s] \in TunStates /\ child[s] \in ChildStates
      /\ conn[s] \in ConnStates /\ helper[s] \in HelperStates /\ stop[s] \in BOOLEAN
  BY DEF NetInv, NetTypes
<1>2. Local(s)
  BY <1>1, SuperviseMoves DEF NetTypes, Local
<1>3. TypedAt(s)
  BY <1>1, SuperviseMoves DEF NetTypes, TypedAt, ConnStates, TunStates, ChildStates, HelperStates
<1>4. tun[s] # "none" /\ tun'[s] # "none"
  BY <1>1, SuperviseMoves
<1>5. s \in tunneled' /\ ConnInv(s) /\ ProcInv(s)
  BY <1>2, <1>4, SupervisedIsTunneled DEF Local
<1>6. ConnInv(s)'
  BY <1>1, <1>5, SuperviseMoves DEF NetTypes, ConnInv, Alone, Ending
<1>7. ProcInv(s)'
  BY <1>1, <1>5, SuperviseMoves DEF NetTypes, ProcInv, Between
<1> QED
  BY <1>2, <1>3, <1>5, <1>6, <1>7, LocalKeeps DEF ServerInv

\* ... in both cases ...
LEMMA JoinAfterShutdownKeeps ==
  ASSUME NetInv, NEW s \in Servers, JoinAfterShutdown(s)
  PROVE  NetInv'
<1> USE DEF JoinAfterShutdown, Finished, TunUnchanged, connVars, procVars
<1>1. /\ NetTypes
      /\ tun[s] \in TunStates /\ child[s] \in ChildStates
      /\ conn[s] \in ConnStates /\ helper[s] \in HelperStates /\ stop[s] \in BOOLEAN
  BY DEF NetInv, NetTypes
<1>2. Local(s)
  BY <1>1, SuperviseMoves DEF NetTypes, Local
<1>3. TypedAt(s)
  BY <1>1, SuperviseMoves DEF NetTypes, TypedAt, ConnStates, TunStates, ChildStates, HelperStates
<1>4. tun[s] # "none" /\ tun'[s] # "none"
  BY <1>1, SuperviseMoves
<1>5. s \in tunneled' /\ ConnInv(s) /\ ProcInv(s)
  BY <1>2, <1>4, SupervisedIsTunneled DEF Local
<1>6. ConnInv(s)'
  BY <1>1, <1>5, SuperviseMoves DEF NetTypes, ConnInv, Alone, Ending
<1>7. ProcInv(s)'
  BY <1>1, <1>5, SuperviseMoves DEF NetTypes, ProcInv, Between
<1> QED
  BY <1>2, <1>3, <1>5, <1>6, <1>7, LocalKeeps DEF ServerInv

\* ... its group is killed ...
LEMMA stop_childKeeps ==
  ASSUME NetInv, NEW s \in Servers, stop_child(s)
  PROVE  NetInv'
<1> USE DEF stop_child, KilledGroup, TunUnchanged, connVars, procVars
<1>1. /\ NetTypes
      /\ tun[s] \in TunStates /\ child[s] \in ChildStates
      /\ conn[s] \in ConnStates /\ helper[s] \in HelperStates /\ stop[s] \in BOOLEAN
  BY DEF NetInv, NetTypes
<1>2. Local(s)
  BY <1>1, SuperviseMoves DEF NetTypes, Local
<1>3. TypedAt(s)
  BY <1>1, SuperviseMoves DEF NetTypes, TypedAt, ConnStates, TunStates, ChildStates, HelperStates
<1>4. tun[s] # "none" /\ tun'[s] # "none"
  BY <1>1, SuperviseMoves
<1>5. s \in tunneled' /\ ConnInv(s) /\ ProcInv(s)
  BY <1>2, <1>4, SupervisedIsTunneled DEF Local
<1>6. ConnInv(s)'
  BY <1>1, <1>5, SuperviseMoves DEF NetTypes, ConnInv, Alone, Ending
<1>7. ProcInv(s)'
  BY <1>1, <1>5, SuperviseMoves DEF NetTypes, ProcInv, Between
<1> QED
  BY <1>2, <1>3, <1>5, <1>6, <1>7, LocalKeeps DEF ServerInv

\* ... and reaped ...
LEMMA ReapKilledKeeps ==
  ASSUME NetInv, NEW s \in Servers, ReapKilled(s)
  PROVE  NetInv'
<1> USE DEF ReapKilled, Reaped, TunUnchanged, connVars, procVars
<1>1. /\ NetTypes
      /\ tun[s] \in TunStates /\ child[s] \in ChildStates
      /\ conn[s] \in ConnStates /\ helper[s] \in HelperStates /\ stop[s] \in BOOLEAN
  BY DEF NetInv, NetTypes
<1>2. Local(s)
  BY <1>1, SuperviseMoves DEF NetTypes, Local
<1>3. TypedAt(s)
  BY <1>1, SuperviseMoves DEF NetTypes, TypedAt, ConnStates, TunStates, ChildStates, HelperStates
<1>4. tun[s] # "none" /\ tun'[s] # "none"
  BY <1>1, SuperviseMoves
<1>5. s \in tunneled' /\ ConnInv(s) /\ ProcInv(s)
  BY <1>2, <1>4, SupervisedIsTunneled DEF Local
<1>6. ConnInv(s)'
  BY <1>1, <1>5, SuperviseMoves DEF NetTypes, ConnInv, Alone, Ending
<1>7. ProcInv(s)'
  BY <1>1, <1>5, SuperviseMoves DEF NetTypes, ProcInv, Between
<1> QED
  BY <1>2, <1>3, <1>5, <1>6, <1>7, LocalKeeps DEF ServerInv

\* ... its output is read to the end ...
LEMMA DrainKeeps ==
  ASSUME NetInv, NEW s \in Servers, Drain(s)
  PROVE  NetInv'
<1> USE DEF Drain, TunUnchanged, connVars, procVars
<1>1. /\ NetTypes
      /\ tun[s] \in TunStates /\ child[s] \in ChildStates
      /\ conn[s] \in ConnStates /\ helper[s] \in HelperStates /\ stop[s] \in BOOLEAN
  BY DEF NetInv, NetTypes
<1>2. Local(s)
  BY <1>1, SuperviseMoves DEF NetTypes, Local
<1>3. TypedAt(s)
  BY <1>1, SuperviseMoves DEF NetTypes, TypedAt, ConnStates, TunStates, ChildStates, HelperStates
<1>4. tun[s] # "none" /\ tun'[s] # "none"
  BY <1>1, SuperviseMoves
<1>5. s \in tunneled' /\ ConnInv(s) /\ ProcInv(s)
  BY <1>2, <1>4, SupervisedIsTunneled DEF Local
<1>6. ConnInv(s)'
  BY <1>1, <1>5, SuperviseMoves DEF NetTypes, ConnInv, Alone, Ending
<1>7. ProcInv(s)'
  BY <1>1, <1>5, SuperviseMoves DEF NetTypes, ProcInv, Between
<1> QED
  BY <1>2, <1>3, <1>5, <1>6, <1>7, LocalKeeps DEF ServerInv

\* ... the failure is reported ...
LEMMA send_tunnel_failureKeeps ==
  ASSUME NetInv, NEW s \in Servers, send_tunnel_failure(s)
  PROVE  NetInv'
<1> USE DEF send_tunnel_failure, TunUnchanged, connVars, procVars
<1>1. /\ NetTypes
      /\ tun[s] \in TunStates /\ child[s] \in ChildStates
      /\ conn[s] \in ConnStates /\ helper[s] \in HelperStates /\ stop[s] \in BOOLEAN
  BY DEF NetInv, NetTypes
<1>2. Local(s)
  BY <1>1, SuperviseMoves DEF NetTypes, Local
<1>3. TypedAt(s)
  BY <1>1, SuperviseMoves DEF NetTypes, TypedAt, ConnStates, TunStates, ChildStates, HelperStates
<1>4. tun[s] # "none" /\ tun'[s] # "none"
  BY <1>1, SuperviseMoves
<1>5. s \in tunneled' /\ ConnInv(s) /\ ProcInv(s)
  BY <1>2, <1>4, SupervisedIsTunneled DEF Local
<1>6. ConnInv(s)'
  BY <1>1, <1>5, SuperviseMoves DEF NetTypes, ConnInv, Alone, Ending
<1>7. ProcInv(s)'
  BY <1>1, <1>5, SuperviseMoves DEF NetTypes, ProcInv, Between
<1> QED
  BY <1>2, <1>3, <1>5, <1>6, <1>7, LocalKeeps DEF ServerInv

\* ... and the next generation waits.
LEMMA wait_to_restartKeeps ==
  ASSUME NetInv, NEW s \in Servers, wait_to_restart(s)
  PROVE  NetInv'
<1> USE DEF wait_to_restart, TunUnchanged, connVars, procVars
<1>1. /\ NetTypes
      /\ tun[s] \in TunStates /\ child[s] \in ChildStates
      /\ conn[s] \in ConnStates /\ helper[s] \in HelperStates /\ stop[s] \in BOOLEAN
  BY DEF NetInv, NetTypes
<1>2. Local(s)
  BY <1>1, SuperviseMoves DEF NetTypes, Local
<1>3. TypedAt(s)
  BY <1>1, SuperviseMoves DEF NetTypes, TypedAt, ConnStates, TunStates, ChildStates, HelperStates
<1>4. tun[s] # "none" /\ tun'[s] # "none"
  BY <1>1, SuperviseMoves
<1>5. s \in tunneled' /\ ConnInv(s) /\ ProcInv(s)
  BY <1>2, <1>4, SupervisedIsTunneled DEF Local
<1>6. ConnInv(s)'
  BY <1>1, <1>5, SuperviseMoves DEF NetTypes, ConnInv, Alone, Ending
<1>7. ProcInv(s)'
  BY <1>1, <1>5, SuperviseMoves DEF NetTypes, ProcInv, Between
<1> QED
  BY <1>2, <1>3, <1>5, <1>6, <1>7, LocalKeeps DEF ServerInv

\* The process prints its marker ...
LEMMA ChildMarksKeeps ==
  ASSUME NetInv, NEW s \in Servers, ChildMarks(s)
  PROVE  NetInv'
<1> USE DEF ChildMarks, ProcessUnchanged, connVars, procVars
<1>1. /\ NetTypes
      /\ tun[s] \in TunStates /\ child[s] \in ChildStates
      /\ conn[s] \in ConnStates /\ helper[s] \in HelperStates /\ stop[s] \in BOOLEAN
  BY DEF NetInv, NetTypes
<1>2. Local(s)
  BY <1>1 DEF NetTypes, Local
<1>3. TypedAt(s)
  BY <1>1 DEF NetTypes, TypedAt, ConnStates, TunStates, ChildStates, HelperStates
<1>4. ServerInv(s)
  BY DEF NetInv
<1>5. ServerInv(s)'
  BY <1>1, <1>4 DEF NetTypes, ServerInv, ConnInv, ProcInv, Between, ChildStates
<1> QED
  BY <1>2, <1>3, <1>5, LocalKeeps

\* ... closes its output ...
LEMMA ChildClosesKeeps ==
  ASSUME NetInv, NEW s \in Servers, ChildCloses(s)
  PROVE  NetInv'
<1> USE DEF ChildCloses, ProcessUnchanged, connVars, procVars
<1>1. /\ NetTypes
      /\ tun[s] \in TunStates /\ child[s] \in ChildStates
      /\ conn[s] \in ConnStates /\ helper[s] \in HelperStates /\ stop[s] \in BOOLEAN
  BY DEF NetInv, NetTypes
<1>2. Local(s)
  BY <1>1 DEF NetTypes, Local
<1>3. TypedAt(s)
  BY <1>1 DEF NetTypes, TypedAt, ConnStates, TunStates, ChildStates, HelperStates
<1>4. ServerInv(s)
  BY DEF NetInv
<1>5. ServerInv(s)'
  BY <1>1, <1>4 DEF NetTypes, ServerInv, ConnInv, ProcInv, Between, ChildStates
<1> QED
  BY <1>2, <1>3, <1>5, LocalKeeps

\* ... starts a helper ...
LEMMA ChildForksKeeps ==
  ASSUME NetInv, NEW s \in Servers, ChildForks(s)
  PROVE  NetInv'
<1> USE DEF ChildForks, ProcessUnchanged, connVars, procVars
<1>1. /\ NetTypes
      /\ tun[s] \in TunStates /\ child[s] \in ChildStates
      /\ conn[s] \in ConnStates /\ helper[s] \in HelperStates /\ stop[s] \in BOOLEAN
  BY DEF NetInv, NetTypes
<1>2. Local(s)
  BY <1>1 DEF NetTypes, Local
<1>3. TypedAt(s)
  BY <1>1 DEF NetTypes, TypedAt, ConnStates, TunStates, ChildStates, HelperStates
<1>4. ServerInv(s)
  BY DEF NetInv
<1>5. ServerInv(s)'
  BY <1>1, <1>4 DEF NetTypes, ServerInv, ConnInv, ProcInv, Between, ChildStates
<1> QED
  BY <1>2, <1>3, <1>5, LocalKeeps

\* ... which exits ...
LEMMA HelperExitsKeeps ==
  ASSUME NetInv, NEW s \in Servers, HelperExits(s)
  PROVE  NetInv'
<1> USE DEF HelperExits, ProcessUnchanged, connVars, procVars
<1>1. /\ NetTypes
      /\ tun[s] \in TunStates /\ child[s] \in ChildStates
      /\ conn[s] \in ConnStates /\ helper[s] \in HelperStates /\ stop[s] \in BOOLEAN
  BY DEF NetInv, NetTypes
<1>2. Local(s)
  BY <1>1 DEF NetTypes, Local
<1>3. TypedAt(s)
  BY <1>1 DEF NetTypes, TypedAt, ConnStates, TunStates, ChildStates, HelperStates
<1>4. ServerInv(s)
  BY DEF NetInv
<1>5. ServerInv(s)'
  BY <1>1, <1>4 DEF NetTypes, ServerInv, ConnInv, ProcInv, Between, ChildStates
<1> QED
  BY <1>2, <1>3, <1>5, LocalKeeps

\* ... or exits itself.
LEMMA ChildExitsKeeps ==
  ASSUME NetInv, NEW s \in Servers, ChildExits(s)
  PROVE  NetInv'
<1> USE DEF ChildExits, ProcessUnchanged, connVars, procVars
<1>1. /\ NetTypes
      /\ tun[s] \in TunStates /\ child[s] \in ChildStates
      /\ conn[s] \in ConnStates /\ helper[s] \in HelperStates /\ stop[s] \in BOOLEAN
  BY DEF NetInv, NetTypes
<1>2. Local(s)
  BY <1>1 DEF NetTypes, Local
<1>3. TypedAt(s)
  BY <1>1 DEF NetTypes, TypedAt, ConnStates, TunStates, ChildStates, HelperStates
<1>4. ServerInv(s)
  BY DEF NetInv
<1>5. ServerInv(s)'
  BY <1>1, <1>4 DEF NetTypes, ServerInv, ConnInv, ProcInv, Between, ChildStates
<1> QED
  BY <1>2, <1>3, <1>5, LocalKeeps

\* All steps of a server keep the invariant.
LEMMA NetworkKeeps ==
  ASSUME NetInv, NEW s \in Servers, NetStep(s)
  PROVE  NetInv'
<1>1. CASE ConnectionStep(s)
  BY <1>1, ConnectionKeeps
<1>2. CASE SupervisorStep(s)
  BY <1>2, StartGenerationKeeps, CannotStartKeeps, BeforeReadyKeeps, ReportReadyKeeps,
     WhileReadyKeeps, JoinAfterFailureKeeps, JoinAfterShutdownKeeps, stop_childKeeps,
     ReapKilledKeeps, DrainKeeps, send_tunnel_failureKeeps, wait_to_restartKeeps
  DEF SupervisorStep
<1>3. CASE ProcessStep(s)
  BY <1>3, ChildMarksKeeps, ChildClosesKeeps, ChildForksKeeps, HelperExitsKeeps,
     ChildExitsKeeps
  DEF ProcessStep
<1> QED
  BY <1>1, <1>2, <1>3 DEF NetStep

\* A step of the event loop, of the dispatcher or of nobody.
Elsewhere ==
    UNCHANGED <<tunneled, probed, connVars, tunVars>>

\* So do the steps of the others.
LEMMA ElsewhereKeeps == NetInv /\ Elsewhere => NetInv'
  BY DEF NetInv, NetTypes, ServerInv, ConnInv, ProcInv, Elsewhere, connVars, tunVars, procVars

\* Every step is one of a server's or leaves the servers alone.
LEMMA StepIsLocalOrElsewhere ==
  ASSUME [Next]_vars
  PROVE  Elsewhere \/ \E s \in Servers : Network(s)
<1>1. ASSUME RequestShutdown PROVE Elsewhere
  BY <1>1 DEF RequestShutdown, Elsewhere
<1>2. ASSUME Pump PROVE Elsewhere
  BY <1>2 DEF Pump, HandleEvent, HandleOther, LeaveLoop, DrainEvent, JoinTasks, Stop,
              PumpUnchanged, Elsewhere
<1>3. ASSUME Dispatcher \/ UNCHANGED vars PROVE Elsewhere
  BY <1>3 DEF Dispatcher, vars, netVars, Elsewhere
<1> QED
  BY <1>1, <1>2, <1>3 DEF Next

\* The invariant holds throughout.
LEMMA NetInvHolds == Spec => []NetInv
<1>1. Init => NetInv
  BY NetInitially DEF Init
<1>2. NetInv /\ [Next]_vars => NetInv'
  BY StepIsLocalOrElsewhere, NetworkKeeps, ElsewhereKeeps DEF Network
<1> QED
  BY <1>1, <1>2, PTL DEF Spec

\* Between two generations and after its return, a supervisor leaves no process, no
\* process group and no connection loop behind (tunnel.rs, run_with_spec).
THEOREM ProcessesAreOwned == Spec => []NoLeakedProcess
<1>1. NetInv => NoLeakedProcess
  BY DEF NetInv, NetTypes, ServerInv, ConnInv, ProcInv, NoLeakedProcess, Alone, Ending, Between
<1> QED
  BY <1>1, NetInvHolds, PTL

-----------------------------------------------------------------------------
(* Shutdown *)

\* A step of a supervisor that has not returned concerns its server only.
LEMMA SupervisorFrame ==
  ASSUME NetInv, NEW s \in Servers, SupervisorStep(s)
  PROVE  tunneled' = tunneled /\ tun[s] \notin {"none", "done"} /\ Local(s)
<1>1. NetTypes
  BY DEF NetInv
<1> DEFINE Frame == tunneled' = tunneled /\ tun[s] \notin {"none", "done"} /\ Local(s)
<1>2. ASSUME StartGeneration(s) \/ CannotStart(s) PROVE Frame
  BY <1>1, <1>2, SuperviseMoves
  DEF StartGeneration, CannotStart, connVars, procVars, TunUnchanged, NetTypes, Local
<1>3. ASSUME BeforeReady(s) PROVE Frame
  BY <1>1, <1>3, SuperviseMoves
  DEF BeforeReady, connVars, procVars, TunUnchanged, NetTypes, Local,
      Reaped, KilledGroup
<1>4. ASSUME ReportReady(s) PROVE Frame
  BY <1>1, <1>4, SuperviseMoves
  DEF ReportReady, connVars, procVars, TunUnchanged, NetTypes, Local
<1>5. ASSUME WhileReady(s) PROVE Frame
  BY <1>1, <1>5, SuperviseMoves
  DEF WhileReady, connVars, procVars, TunUnchanged, NetTypes, Local,
      Reaped
<1>6. ASSUME JoinAfterFailure(s) PROVE Frame
  BY <1>1, <1>6, SuperviseMoves
  DEF JoinAfterFailure, connVars, procVars, TunUnchanged, NetTypes, Local,
      KilledGroup
<1>7. ASSUME JoinAfterShutdown(s) \/ Drain(s) PROVE Frame
  BY <1>1, <1>7, SuperviseMoves
  DEF JoinAfterShutdown, Drain, connVars, procVars, TunUnchanged, NetTypes, Local
<1>8. ASSUME stop_child(s) \/ ReapKilled(s) PROVE Frame
  BY <1>1, <1>8, SuperviseMoves
  DEF stop_child, ReapKilled, connVars, procVars, TunUnchanged, NetTypes, Local,
      Reaped, KilledGroup
<1>9. ASSUME send_tunnel_failure(s) \/ wait_to_restart(s) PROVE Frame
  BY <1>1, <1>9, SuperviseMoves
  DEF send_tunnel_failure, wait_to_restart, connVars, procVars, TunUnchanged, NetTypes, Local
<1> QED
  BY <1>2, <1>3, <1>4, <1>5, <1>6, <1>7, <1>8, <1>9 DEF SupervisorStep

\* A task that is done takes no step, and its process is gone.
LEMMA DoneIsStable ==
  ASSUME NetInv, NEW s \in Servers, TaskDone(s), NEW t \in Servers, NetStep(t)
  PROVE  TaskDone(s)'
<1>1. NetTypes /\ ServerInv(s)
  BY DEF NetInv
<1>2. CASE ConnectionStep(t)
  <2>1. LoopMoves(t) /\ UNCHANGED <<tunneled, tun>>
    BY <1>1, <1>2, ConnectionMoves
  <2> QED
    BY <1>1, <2>1 DEF TaskDone, Finished, LoopMoves, NetTypes, ServerInv
<1>3. CASE SupervisorStep(t)
  <2>1. tunneled' = tunneled /\ tun[t] \notin {"none", "done"} /\ Local(t)
    BY <1>3, SupervisorFrame
  <2>2. CASE s = t
    BY <1>1, <2>1, <2>2 DEF TaskDone, ServerInv
  <2>3. CASE s # t
    BY <1>1, <2>1, <2>3 DEF TaskDone, Finished, NetTypes, Local
  <2> QED
    BY <2>2, <2>3
<1>4. CASE ProcessStep(t)
  BY <1>4 DEF ProcessStep, ChildMarks, ChildCloses, ChildForks, HelperExits, ChildExits,
              ProcessUnchanged, connVars, TaskDone, Finished
<1> QED
  BY <1>2, <1>3, <1>4 DEF NetStep

AllDone == pump \in {"flush", "stopped"} => \A s \in Servers : TaskDone(s)

\* The event loop ends after all servers.
LEMMA AllDoneHolds == Spec => []AllDone
<1>1. Init => AllDone
  BY DEF Init, AllDone
<1>2. NetInv /\ AllDone /\ [Next]_vars => AllDone'
  <2> SUFFICES ASSUME NetInv, AllDone, [Next]_vars PROVE AllDone'
    OBVIOUS
  <2>1. CASE \E s \in Servers : Network(s)
    BY <2>1, DoneIsStable DEF Network, AllDone
  <2>2. ASSUME Elsewhere PROVE \A s \in Servers : TaskDone(s)' = TaskDone(s)
    BY <2>2 DEF Elsewhere, connVars, tunVars, TaskDone, Finished
  <2>3. CASE Pump
    <3>1. Elsewhere
      BY <2>3 DEF Pump, HandleEvent, HandleOther, LeaveLoop, DrainEvent, JoinTasks, Stop,
                  PumpUnchanged, Elsewhere
    <3> QED
      BY <2>2, <2>3, <3>1 DEF Pump, HandleEvent, HandleOther, LeaveLoop, DrainEvent,
                              JoinTasks, Stop, AllDone
  <2>4. CASE RequestShutdown \/ Dispatcher \/ UNCHANGED vars
    <3>1. Elsewhere /\ pump' = pump
      BY <2>4 DEF RequestShutdown, Dispatcher, vars, netVars, Elsewhere
    <3> QED
      BY <2>2, <3>1 DEF AllDone
  <2> QED
    BY <2>1, <2>3, <2>4 DEF Next
<1> QED
  BY <1>1, <1>2, NetInvHolds, PTL DEF Spec

\* Once the event loop turns to the notifications, every connection and tunnel task
\* has returned, and every tunnel's process is reaped (runtime.rs, run_async).
THEOREM NothingIsLeftBehind == Spec => []NothingOutlivesTheUI
<1>1. NetInv /\ AllDone => NothingOutlivesTheUI
  BY Zenon DEF NetInv, AllDone, NothingOutlivesTheUI, TaskDone, ServerInv, ProcInv, Between
<1> QED
  BY <1>1, NetInvHolds, AllDoneHolds, PTL

-----------------------------------------------------------------------------
(* UIProcess implements ServerLink. *)

Links == [s \in Servers |-> Link(s)]

\* A step of s moves the link of s and no other.
LEMMA OneLink ==
  ASSUME NEW s \in Servers, OnlyAt(s)
  PROVE  /\ Links' = [Links EXCEPT ![s] = Link(s)']
         /\ Links[s] = Link(s)
         /\ Link(s)' = Link(s) => Links' = Links
<1>1. ASSUME NEW t \in Servers \ {s} PROVE Link(t)' = Link(t)
  <2>1. Same(t)
    BY DEF OnlyAt
  <2> QED
    BY <2>1 DEF Link, ByConnection, Same
<1> DEFINE F(t) == Link(t)
           G(t) == Link(t)'
<1>2. Links = [t \in Servers |-> F(t)] /\ Links' = [t \in Servers |-> G(t)]
  BY DEF Links
<1>3. \A t \in Servers \ {s} : G(t) = F(t)
  BY <1>1
<1>4. F(s) = Link(s) /\ G(s) = Link(s)'
  OBVIOUS
<1> HIDE DEF F, G
<1> QED
  BY <1>2, <1>3, <1>4

\* The link of a server whose connection loop runs.
LEMMA Online ==
  ASSUME NetInv, NEW s \in Servers, conn[s] \notin {"off", "done", "ended"}
  PROVE  /\ tun[s] \in {"none", "serve", "joinFailed", "joinStopped"}
         /\ conn[s] \in {"read", "frame", "settleRead", "lostRead"} => Link(s) = "online"
         /\ conn[s] \notin {"read", "frame", "settleRead", "lostRead"} => Link(s) = "up"
<1>1. ServerInv(s) /\ tun[s] \in TunStates
  BY DEF NetInv, NetTypes
<1>2. tun[s] \in {"none", "serve", "joinFailed", "joinStopped"}
  BY <1>1 DEF ServerInv, ConnInv, Alone, Ending, TunStates
<1> QED
  BY <1>2 DEF Link, ByConnection

\* What the abstract link does in a step, or nothing.
LinkStep == L!LinkNext \/ UNCHANGED <<tunneled, Links, socket, events>>

\* The steps of ServerLink: a connection is opened ...
LEMMA ConnectedRefines ==
  ASSUME NEW s \in Servers, OnlyAt(s), tunneled' = tunneled,
         Link(s) = "up",
         Link(s)' = "online",
         socket' = [socket EXCEPT ![s] = 1 - @],
         Send(Opened(s))
  PROVE  LinkStep
<1>1. Links' = [Links EXCEPT ![s] = Link(s)'] /\ Links[s] = Link(s)
  BY OneLink
<1>2. L!Connected(s)
  BY <1>1 DEF L!Connected, L!Move, L!Send, Send, Opened, Links
<1> QED
  BY <1>2, Zenon DEF LinkStep, L!LinkNext

\* ... or lost ...
LEMMA DisconnectedRefines ==
  ASSUME NEW s \in Servers, OnlyAt(s), tunneled' = tunneled,
         Link(s) \in {"up", "online"},
         Link(s)' = "up",
         socket' = socket,
         Send(Failure("Disconnected", s))
  PROVE  LinkStep
<1>1. Links' = [Links EXCEPT ![s] = Link(s)'] /\ Links[s] = Link(s)
  BY OneLink
<1>2. L!Disconnected(s, "error")
  BY <1>1 DEF L!Disconnected, L!Move, L!Send, Send, Failure, Links
<1> QED
  BY <1>2, Zenon DEF LinkStep, L!LinkNext

\* ... a tunnel is ready ...
LEMMA TunnelReadyRefines ==
  ASSUME NEW s \in Servers, OnlyAt(s), tunneled' = tunneled,
         s \in tunneled,
         Link(s) = "down",
         Link(s)' = "up",
         socket' = socket,
         Send(Plain("TunnelReady", s))
  PROVE  LinkStep
<1>1. Links' = [Links EXCEPT ![s] = Link(s)'] /\ Links[s] = Link(s)
  BY OneLink
<1>2. L!TunnelReady(s)
  BY <1>1 DEF L!TunnelReady, L!Move, L!Send, Send, Plain, Links
<1> QED
  BY <1>2, Zenon DEF LinkStep, L!LinkNext

\* ... its failure is reported ...
LEMMA TunnelFailedRefines ==
  ASSUME NEW s \in Servers, OnlyAt(s), tunneled' = tunneled,
         s \in tunneled,
         Link(s) = "broken",
         Link(s)' = "down",
         socket' = socket,
         Send(Failure("TunnelFailed", s))
  PROVE  LinkStep
<1>1. Links' = [Links EXCEPT ![s] = Link(s)'] /\ Links[s] = Link(s)
  BY OneLink
<1>2. L!TunnelFailed(s, "error")
  BY <1>1 DEF L!TunnelFailed, L!Move, L!Send, Send, Failure, Links
<1> QED
  BY <1>2, Zenon DEF LinkStep, L!LinkNext

\* ... after it broke ...
LEMMA TunnelBreaksRefines ==
  ASSUME NEW s \in Servers, OnlyAt(s), tunneled' = tunneled,
         s \in tunneled,
         Link(s) \in {"down", "up", "online"},
         Link(s)' = "broken",
         UNCHANGED <<events, socket>>
  PROVE  LinkStep
<1>1. Links' = [Links EXCEPT ![s] = Link(s)'] /\ Links[s] = Link(s)
  BY OneLink
<1>2. L!TunnelBreaks(s)
  BY <1>1 DEF L!TunnelBreaks, L!Move, Links
<1> QED
  BY <1>2, Zenon DEF LinkStep, L!LinkNext

\* ... the server is stopped ...
LEMMA StoppedRefines ==
  ASSUME NEW s \in Servers, OnlyAt(s), tunneled' = tunneled,
         Link(s) \in {"down", "up", "online", "broken"},
         Link(s)' = "stopped",
         UNCHANGED <<events, socket>>
  PROVE  LinkStep
<1>1. Links' = [Links EXCEPT ![s] = Link(s)'] /\ Links[s] = Link(s)
  BY OneLink
<1>2. L!Stopped(s)
  BY <1>1 DEF L!Stopped, L!Move, L!LinkStates, Links
<1> QED
  BY <1>2, Zenon DEF LinkStep, L!LinkNext

\* ... or nothing that ServerLink sees happens.
LEMMA StutterRefines ==
  ASSUME NEW s \in Servers, OnlyAt(s), tunneled' = tunneled, Link(s)' = Link(s),
         UNCHANGED <<events, socket>>
  PROVE  LinkStep
  BY OneLink DEF LinkStep

\* The messages of a WebSocket, on a link that is online.
LEMMA FramesRefine ==
  ASSUME NEW s \in Servers, Link(s) = "online", UNCHANGED <<tunneled, Links, socket>>,
         Send(Beat(s)) \/ Send(News(s))
  PROVE  L!LinkNext
<1>1. Links[s] = "online"
  BY DEF Links
<1>2. CASE Send(Beat(s))
  <2>1. L!Heartbeat(s)
    BY <1>1, <1>2 DEF L!Heartbeat, L!Send, Send, Beat, Links
  <2> QED
    BY <2>1 DEF L!LinkNext
<1>3. CASE Send(News(s))
  <2> DEFINE total == [i \in {} |-> "error"]
  <2>1. L!Notification(s, total, {}, {})
    BY <1>1, <1>3 DEF L!Notification, L!Send, Send, News, Links
  <2>2. total \in L!Reports
    <3>1. total \in [{} -> {"error"}]
      OBVIOUS
    <3> QED
      BY <3>1 DEF L!Reports
  <2> QED
    BY <2>1, <2>2 DEF L!LinkNext
<1> QED
  BY <1>2, <1>3

\* Where a step of the connection loop takes its link.
LEMMA LoopLink ==
  ASSUME NetInv, NEW s \in Servers, LoopMoves(s), tun' = tun
  PROVE  /\ conn'[s] \in {"read", "frame", "settleRead", "lostRead"} => Link(s)' = "online"
         /\ conn'[s] = "done" /\ tun[s] = "joinFailed" => Link(s)' = "broken"
         /\ conn'[s] = "done" /\ tun[s] # "joinFailed" => Link(s)' = "stopped"
         /\ conn'[s] \notin {"read", "frame", "settleRead", "lostRead", "done"} => Link(s)' = "up"
  BY Online DEF LoopMoves, Link, ByConnection

\* The loop returns because it was told to.
LEMMA LoopEndRefines ==
  ASSUME NetInv, NEW s \in Servers, LoopMoves(s), conn'[s] = "done",
         OnlyAt(s), tunneled' = tunneled, tun' = tun, UNCHANGED <<events, socket>>
  PROVE  LinkStep
<1>1. Link(s) \in {"up", "online"}
  BY Online DEF LoopMoves
<1>2. CASE tun[s] = "joinFailed"
  <2>1. s \in tunneled
    BY <1>2, SupervisedIsTunneled
  <2>2. Link(s)' = "broken"
    BY <1>2, LoopLink
  <2> QED
    BY <1>1, <2>1, <2>2, TunnelBreaksRefines
<1>3. CASE tun[s] # "joinFailed"
  <2>1. Link(s)' = "stopped"
    BY <1>3, LoopLink
  <2> QED
    BY <1>1, <2>1, StoppedRefines
<1> QED
  BY <1>2, <1>3

\* The loop goes on and sends nothing.
LEMMA LoopStutters ==
  ASSUME NetInv, NEW s \in Servers, LoopMoves(s), conn'[s] # "done",
         conn[s] \in {"read", "frame", "settleRead", "lostRead"}
             <=> conn'[s] \in {"read", "frame", "settleRead", "lostRead"},
         tun' = tun
  PROVE  Link(s)' = Link(s)
<1>1. conn[s] \notin {"off", "done", "ended"}
  BY DEF LoopMoves
<1> QED
  BY <1>1, Online, LoopLink

\* Every step of a connection loop is one of these.
LEMMA ConnectionRefines ==
  ASSUME NetInv, NEW s \in Servers, ConnectionStep(s)
  PROVE  LinkStep
<1>1. /\ LoopMoves(s)
      /\ UNCHANGED <<tunneled, stop, tun, child, helper>>
      /\ NetTypes
  BY ConnectionMoves DEF NetInv
<1>2. OnlyAt(s)
  BY <1>1 DEF NetTypes, LoopMoves, Same, OnlyAt
<1>3. ASSUME Prepare(s) \/ Redial(s) PROVE LinkStep
  <2>1. /\ UNCHANGED <<events, socket>>
        /\ conn'[s] # "done"
        /\ conn[s] \notin {"read", "frame", "settleRead", "lostRead"}
        /\ conn'[s] \notin {"read", "frame", "settleRead", "lostRead"}
    BY <1>1, <1>3, GoMoves DEF Prepare, Redial
  <2> QED
    BY <1>1, <1>2, <2>1, LoopStutters, StutterRefines
<1>4. ASSUME Dial(s) PROVE LinkStep
  <2>1. /\ UNCHANGED <<events, socket>>
        /\ conn'[s] # "done"
        /\ conn[s] \notin {"read", "frame", "settleRead", "lostRead"}
        /\ conn'[s] \notin {"read", "frame", "settleRead", "lostRead"}
    BY <1>1, <1>4, GoMoves DEF Dial
  <2> QED
    BY <1>1, <1>2, <2>1, LoopStutters, StutterRefines
<1>5. ASSUME Read(s) PROVE LinkStep
  <2>1. /\ UNCHANGED <<events, socket>>
        /\ conn'[s] # "done"
        /\ conn[s] \in {"read", "frame", "settleRead", "lostRead"}
        /\ conn'[s] \in {"read", "frame", "settleRead", "lostRead"}
    BY <1>1, <1>5, GoMoves DEF Read
  <2> QED
    BY <1>1, <1>2, <2>1, LoopStutters, StutterRefines
<1>6. ASSUME ReportUnprepared(s) PROVE LinkStep
  <2>1. /\ socket' = socket /\ Send(Failure("Disconnected", s))
        /\ conn[s] = "unprepared" /\ conn'[s] = "ended"
    BY <1>1, <1>6, GoMoves DEF ReportUnprepared
  <2>2. Link(s) = "up" /\ Link(s)' = "up"
    BY <1>1, <2>1, Online, LoopLink
  <2> QED
    BY <1>1, <1>2, <2>1, <2>2, DisconnectedRefines
<1>7. ASSUME ReportConnected(s) PROVE LinkStep
  <2>1. /\ socket' = [socket EXCEPT ![s] = 1 - @] /\ Send(Opened(s))
        /\ conn[s] = "connected" /\ conn'[s] = "read"
    BY SMTT(30), <1>1, <1>7, GoMoves DEF ReportConnected
  <2>2. Link(s) = "up" /\ Link(s)' = "online"
    BY <1>1, <2>1, Online, LoopLink
  <2> QED
    BY <1>1, <1>2, <2>1, <2>2, ConnectedRefines, Zenon
<1>8. ASSUME ReportFrame(s) PROVE LinkStep
  <2>1. /\ socket' = socket /\ (Send(Beat(s)) \/ Send(News(s)))
        /\ conn[s] = "frame" /\ conn'[s] = "read"
    BY <1>1, <1>8, GoMoves DEF ReportFrame
  <2>2. Link(s) = "online" /\ Links' = Links
    BY <1>1, <1>2, <2>1, Online, LoopStutters, OneLink
  <2> QED
    BY <1>1, <2>1, <2>2, FramesRefine DEF LinkStep
<1>9. ASSUME ReportLost(s) PROVE LinkStep
  <2>1. /\ socket' = socket /\ Send(Failure("Disconnected", s))
        /\ conn[s] \in {"lostDial", "lostRead"} /\ conn'[s] = "delay"
    BY <1>1, <1>9, GoMoves DEF ReportLost
  <2>2. Link(s) \in {"up", "online"} /\ Link(s)' = "up"
    BY <1>1, <2>1, Online, LoopLink
  <2> QED
    BY <1>1, <1>2, <2>1, <2>2, DisconnectedRefines
<1>10. ASSUME tunnel_stopped(s) PROVE LinkStep
  <2>1. /\ UNCHANGED <<events, socket>>
        /\ \/ conn'[s] = "done"
           \/ conn[s] = "settleDial" /\ conn'[s] = "lostDial"
           \/ conn[s] = "settleRead" /\ conn'[s] = "lostRead"
    BY <1>1, <1>10, GoMoves DEF tunnel_stopped
  <2>2. CASE conn'[s] = "done"
    BY <1>1, <1>2, <2>1, <2>2, LoopEndRefines
  <2>3. CASE conn'[s] # "done"
    <3>1. Link(s)' = Link(s)
      BY <1>1, <2>1, <2>3, LoopStutters
    <3> QED
      BY <1>1, <1>2, <2>1, <3>1, StutterRefines
  <2> QED
    BY <2>2, <2>3
<1>11. ASSUME StopConnection(s) PROVE LinkStep
  <2>1. UNCHANGED <<events, socket>> /\ conn'[s] = "done"
    BY <1>1, <1>11, GoMoves DEF StopConnection
  <2> QED
    BY <1>1, <1>2, <2>1, LoopEndRefines
<1> QED
  BY <1>3, <1>4, <1>5, <1>6, <1>7, <1>8, <1>9, <1>10, <1>11 DEF ConnectionStep

\* The link of a server whose supervisor does not run a connection loop.
LEMMA TunLink ==
  ASSUME NEW s
  PROVE  /\ tun[s] \in {"start", "probe", "reap", "ready", "restart"} => Link(s) = "down"
         /\ tun[s] \in {"drain", "report"} => Link(s) = "broken"
         /\ tun[s] \in Ending => Link(s) = "stopped"
  BY DEF Link, Ending

\* The link while the supervisor has no connection loop.
LEMMA TunLinkNext ==
  ASSUME NEW s
  PROVE  /\ tun'[s] \in {"start", "probe", "reap", "ready", "restart"} => Link(s)' = "down"
         /\ tun'[s] \in {"drain", "report"} => Link(s)' = "broken"
         /\ tun'[s] \in Ending => Link(s)' = "stopped"
  BY DEF Link, Ending

\* Every step of a supervisor is one of the steps of ServerLink.
LEMMA SupervisorRefines ==
  ASSUME NetInv, NEW s \in Servers, SupervisorStep(s)
  PROVE  LinkStep
<1>1. NetTypes
  BY DEF NetInv
<1>2. tunneled' = tunneled /\ tun[s] \notin {"none", "done"} /\ Local(s)
  BY SupervisorFrame
<1>3. s \in tunneled /\ ConnInv(s)
  BY <1>2, SupervisedIsTunneled
<1>4. Local(s) /\ tunneled' = tunneled
  BY <1>2
<1>5. OnlyAt(s)
  BY <1>1, <1>4 DEF NetTypes, Local, Same, OnlyAt
<1> DEFINE Silent == UNCHANGED <<events, socket>>
<1>6. ASSUME Silent, Link(s)' = Link(s) PROVE LinkStep
  BY <1>4, <1>5, <1>6, StutterRefines
<1>7. ASSUME Silent, Link(s) \in {"down", "up", "online"}, Link(s)' = "broken" PROVE LinkStep
  BY <1>4, <1>3, <1>5, <1>7, TunnelBreaksRefines
<1>8. ASSUME Silent, Link(s) \in {"down", "up", "online", "broken"}, Link(s)' = "stopped"
      PROVE  LinkStep
  BY <1>4, <1>5, <1>8, StoppedRefines
<1>9. ASSUME StartGeneration(s) PROVE LinkStep
  <2>1. Silent /\ tun[s] = "start" /\ tun'[s] \in {"probe", "ready"}
    BY <1>1, <1>9, SuperviseMoves DEF StartGeneration, connVars
  <2> QED
    BY <2>1, <1>6, TunLink, TunLinkNext
<1>10. ASSUME CannotStart(s) PROVE LinkStep
  <2>1. Silent /\ tun[s] = "start" /\ tun'[s] \in {"done", "report"}
    BY <1>1, <1>10, SuperviseMoves DEF CannotStart, connVars
  <2> QED
    BY <2>1, <1>7, <1>8, TunLink, TunLinkNext DEF Ending
<1>11. ASSUME BeforeReady(s) PROVE LinkStep
  <2>1. Silent /\ tun[s] \in {"probe", "reap"} /\ tun'[s] \in {"ready", "reap", "drain", "kill"}
    BY <1>1, <1>11, SuperviseMoves DEF BeforeReady, connVars
  <2> QED
    BY <2>1, <1>6, <1>7, <1>8, TunLink, TunLinkNext DEF Ending
<1>12. ASSUME ReportReady(s) PROVE LinkStep
  <2>1. /\ socket' = socket /\ Send(Plain("TunnelReady", s))
        /\ tun[s] = "ready" /\ tun'[s] = "serve" /\ conn'[s] = "setup"
    BY <1>1, <1>12, SuperviseMoves DEF ReportReady, NetTypes
  <2>2. Link(s) = "down" /\ Link(s)' = "up"
    BY <2>1, TunLink DEF Link, ByConnection
  <2> QED
    BY <1>4, <1>3, <1>5, <2>1, <2>2, TunnelReadyRefines
<1>13. ASSUME WhileReady(s) PROVE LinkStep
  <2>1. /\ Silent /\ conn' = conn /\ tun[s] = "serve"
        /\ tun'[s] \in {"joinFailed", "joinStopped", "kill"}
        /\ tun'[s] = "kill" => Finished(s)
    BY <1>1, <1>13, SuperviseMoves DEF WhileReady, connVars
  <2>2. conn[s] # "done"
    BY <1>3, <2>1 DEF ConnInv
  <2>3. CASE tun'[s] = "kill"
    <3>1. Link(s) = "up"
      BY <2>1, <2>2, <2>3 DEF Link, ByConnection, Finished
    <3> QED
      BY <2>1, <2>3, <3>1, <1>8, TunLinkNext DEF Ending
  <2>4. CASE tun'[s] # "kill"
    <3>1. Link(s)' = Link(s)
      BY <2>1, <2>2, <2>4 DEF Link, ByConnection
    <3> QED
      BY <2>1, <3>1, <1>6
  <2> QED
    BY <2>3, <2>4
<1>14. ASSUME JoinAfterFailure(s) PROVE LinkStep
  <2>1. Silent /\ tun[s] = "joinFailed" /\ tun'[s] = "drain" /\ Finished(s)
    BY <1>1, <1>14, SuperviseMoves DEF JoinAfterFailure
  <2>2. Link(s) \in {"up", "broken"}
    BY <2>1 DEF Link, ByConnection, Finished
  <2> QED
    BY <2>1, <2>2, <1>6, <1>7, TunLinkNext
<1>15. ASSUME JoinAfterShutdown(s) PROVE LinkStep
  <2>1. Silent /\ tun[s] = "joinStopped" /\ tun'[s] = "kill" /\ Finished(s)
    BY <1>1, <1>15, SuperviseMoves DEF JoinAfterShutdown, connVars
  <2>2. Link(s) \in {"up", "stopped"}
    BY <2>1 DEF Link, ByConnection, Finished
  <2> QED
    BY <2>1, <2>2, <1>6, <1>8, TunLinkNext DEF Ending
<1>16. ASSUME stop_child(s) \/ ReapKilled(s) PROVE LinkStep
  <2>1. Silent /\ tun[s] \in Ending /\ tun'[s] \in Ending
    BY <1>1, <1>16, SuperviseMoves DEF stop_child, ReapKilled, connVars, Ending
  <2> QED
    BY <2>1, <1>6, TunLink, TunLinkNext
<1>17. ASSUME Drain(s) PROVE LinkStep
  <2>1. /\ Silent
        /\ \/ tun[s] = "drain" /\ tun'[s] = "report"
           \/ tun[s] = "drainStopped" /\ tun'[s] = "done"
    BY <1>1, <1>17, SuperviseMoves DEF Drain, connVars
  <2> QED
    BY <2>1, <1>6, TunLink, TunLinkNext DEF Ending
<1>18. ASSUME send_tunnel_failure(s) PROVE LinkStep
  <2>1. /\ socket' = socket /\ Send(Failure("TunnelFailed", s))
        /\ tun[s] = "report" /\ tun'[s] = "restart"
    BY <1>1, <1>18, SuperviseMoves DEF send_tunnel_failure, connVars
  <2>2. Link(s) = "broken" /\ Link(s)' = "down"
    BY <2>1, TunLink, TunLinkNext
  <2> QED
    BY <1>4, <1>3, <1>5, <2>1, <2>2, TunnelFailedRefines
<1>19. ASSUME wait_to_restart(s) PROVE LinkStep
  <2>1. Silent /\ tun[s] = "restart" /\ tun'[s] \in {"start", "done"}
    BY <1>1, <1>19, SuperviseMoves DEF wait_to_restart, connVars
  <2> QED
    BY <2>1, <1>6, <1>8, TunLink, TunLinkNext DEF Ending
<1> QED
  BY <1>9, <1>10, <1>11, <1>12, <1>13, <1>14, <1>15, <1>16, <1>17, <1>18, <1>19
  DEF SupervisorStep

\* Links change only with the supervisors and the connection loops.
LEMMA LinksUnchanged ==
  ASSUME UNCHANGED <<tunneled, conn, tun>>
  PROVE  Links' = Links
<1>1. ASSUME NEW s \in Servers PROVE Link(s)' = Link(s)
  BY DEF Link, ByConnection
<1> QED
  BY <1>1 DEF Links

\* The event loop receives, or does nothing to the links.
LEMMA ElsewhereRefines ==
  ASSUME [Next]_vars, ~\E s \in Servers : Network(s)
  PROVE  L!Receive \/ UNCHANGED <<tunneled, Links, socket, events>>
<1>1. Elsewhere
  BY StepIsLocalOrElsewhere
<1>2. UNCHANGED <<tunneled, Links, socket>>
  BY <1>1, LinksUnchanged DEF Elsewhere, connVars, tunVars
<1>3. ASSUME Receive PROVE L!Receive
  BY <1>2, <1>3 DEF Receive, L!Receive, Links
<1>4. ASSUME Pump PROVE Receive \/ events' = events
  BY <1>4 DEF Pump, HandleEvent, HandleOther, LeaveLoop, DrainEvent, JoinTasks, Stop
<1>5. ASSUME RequestShutdown \/ Dispatcher \/ UNCHANGED vars PROVE events' = events
  BY <1>5 DEF RequestShutdown, Dispatcher, vars, netVars
<1> QED
  BY <1>2, <1>3, <1>4, <1>5 DEF Next

\* The network tasks implement ServerLink: the reducer gets each server's events in
\* the promised order, for any number of servers, whatever the interleaving of
\* connection loops, supervisors, processes and shutdown (client.rs, tunnel.rs).
THEOREM NetworkRefinesLink == Spec => LinkRefinement
<1>1. Init => L!LinkInit
  <2> SUFFICES ASSUME Init PROVE L!LinkInit
    OBVIOUS
  <2>1. ASSUME NEW s \in Servers
        PROVE  Link(s) = IF s \in tunneled THEN "down" ELSE "up"
    BY DEF Init, NetInit, Link, ByConnection
  <2> QED
    BY <2>1 DEF Init, NetInit, L!LinkInit, L!NewLinks
<1>2. NetInv /\ [Next]_vars => [L!LinkNext \/ (L!Receive /\ UNCHANGED 0)]_(L!linkVars)
  <2> SUFFICES ASSUME NetInv, [Next]_vars
               PROVE  [L!LinkNext \/ (L!Receive /\ UNCHANGED 0)]_(L!linkVars)
    OBVIOUS
  <2>1. ASSUME NEW s \in Servers, NetStep(s)
        PROVE  LinkStep
    <3>1. ASSUME ProcessStep(s) PROVE UNCHANGED <<tunneled, conn, tun, socket, events>>
      BY <3>1 DEF ProcessStep, ChildMarks, ChildCloses, ChildForks, HelperExits,
                  ChildExits, ProcessUnchanged, connVars
    <3> QED
      BY <2>1, <3>1, ConnectionRefines, SupervisorRefines, LinksUnchanged
      DEF NetStep, LinkStep
  <2> QED
    BY <2>1, ElsewhereRefines DEF Network, LinkStep, L!linkVars, Links
<1> QED
  BY <1>1, <1>2, NetInvHolds, PTL DEF Spec, LinkRefinement, L!LinkSpec

-----------------------------------------------------------------------------
(* The notification dispatcher, for any capacity and any number of         *)
(* notifications.  The inductive invariant says where every accepted       *)
(* notification is: the first ones were delivered, the others wait, each   *)
(* at its place.                                                           *)

NoticeInv ==
    /\ notices \in Seq(Nat) /\ delivered \in Seq(Nat) /\ accepted \in Nat
    /\ Len(delivered) =< accepted
    /\ \A i \in 1..Len(delivered) : delivered[i] = i
    /\ worker # "dead" =>
           /\ Len(delivered) + Len(notices) = accepted
           /\ \A i \in 1..Len(notices) : notices[i] = Len(delivered) + i
    /\ worker = "stopped" => notices = <<>> /\ sender = "closed"
    /\ outcome = "Stopped" => worker \in {"stopped", "dead"}

\* Nothing was accepted.
LEMMA NoticeInitially == Init => NoticeInv
  BY DEF Init, DispatcherInit, NoticeInv

\* try_send
LEMMA EnqueueKeeps == NoticeInv /\ enqueue_inner => NoticeInv'
<1> SUFFICES ASSUME NoticeInv, enqueue_inner PROVE NoticeInv'
  OBVIOUS
<1>1. CASE worker # "dead" /\ sender = "open" /\ Accept(notices)
  <2>1. /\ notices' = Append(notices, accepted + 1) /\ accepted' = accepted + 1
        /\ UNCHANGED <<sender, worker, delivered, outcome>>
        /\ notices \in Seq(Nat) /\ accepted + 1 \in Nat
    BY <1>1 DEF Accept, NoticeInv
  <2>2. /\ notices' \in Seq(Nat)
        /\ Len(notices') = Len(notices) + 1
        /\ \A i \in 1..Len(notices) : notices'[i] = notices[i]
        /\ notices'[Len(notices) + 1] = accepted + 1
    BY <2>1
  <2>3. /\ Len(delivered) + Len(notices) = accepted
        /\ \A i \in 1..Len(notices) : notices[i] = Len(delivered) + i
        /\ Len(delivered) \in Nat /\ Len(notices) \in Nat
        /\ worker # "stopped"
    BY <1>1 DEF NoticeInv
  <2>4. Len(delivered) + Len(notices') = accepted'
    BY <2>1, <2>2, <2>3
  <2>5. ASSUME NEW i \in 1..Len(notices') PROVE notices'[i] = Len(delivered) + i
    <3>1. CASE i \in 1..Len(notices)
      BY <2>2, <2>3, <3>1
    <3>2. CASE i = Len(notices) + 1
      BY <2>1, <2>2, <2>3, <3>2
    <3> QED
      BY <2>2, <2>3, <3>1, <3>2
  <2> QED
    BY <2>1, <2>2, <2>3, <2>4, <2>5 DEF NoticeInv
<1>2. CASE UNCHANGED noticeVars
  BY <1>2 DEF noticeVars, NoticeInv
<1>3. CASE sender' = "closed" /\ UNCHANGED <<notices, worker, accepted, delivered, outcome>>
  BY <1>3 DEF NoticeInv
<1> QED
  BY <1>1, <1>2, <1>3 DEF enqueue_inner

\* The worker takes the oldest notification.
LEMMA TakeKeeps == NoticeInv /\ WorkerTakes => NoticeInv'
<1> SUFFICES ASSUME NoticeInv, WorkerTakes PROVE NoticeInv'
  OBVIOUS
<1>1. /\ worker = "recv" /\ notices # <<>> /\ worker' = "push"
      /\ notices' = Tail(notices) /\ delivered' = Append(delivered, Head(notices))
      /\ UNCHANGED <<sender, accepted, outcome>>
      /\ notices \in Seq(Nat) /\ delivered \in Seq(Nat)
  BY DEF WorkerTakes, NoticeInv
<1>2. /\ Head(notices) \in Nat
      /\ notices' \in Seq(Nat)
      /\ Len(notices') = Len(notices) - 1
      /\ \A i \in 1..Len(notices') : notices'[i] = notices[i + 1]
  BY <1>1
<1>3. /\ delivered' \in Seq(Nat)
      /\ Len(delivered') = Len(delivered) + 1
      /\ \A i \in 1..Len(delivered) : delivered'[i] = delivered[i]
      /\ delivered'[Len(delivered) + 1] = Head(notices)
  BY <1>1, <1>2
<1>4. /\ Len(delivered) \in Nat /\ Len(notices) \in Nat /\ accepted \in Nat
      /\ Len(notices) > 0
      /\ Len(delivered) + Len(notices) = accepted
      /\ \A i \in 1..Len(notices) : notices[i] = Len(delivered) + i
      /\ \A i \in 1..Len(delivered) : delivered[i] = i
  BY <1>1 DEF NoticeInv
<1>5. Head(notices) = Len(delivered) + 1
  BY <1>1, <1>4
<1>6. ASSUME NEW i \in 1..Len(delivered') PROVE delivered'[i] = i
  <2>1. CASE i \in 1..Len(delivered)
    BY <1>3, <1>4, <2>1
  <2>2. CASE i = Len(delivered) + 1
    BY <1>3, <1>5, <2>2
  <2> QED
    BY <1>3, <1>4, <2>1, <2>2
<1>7. Len(delivered') + Len(notices') = accepted
  <2>1. (Len(delivered) + 1) + (Len(notices) - 1) = accepted
    BY <1>4
  <2> QED
    BY <1>2, <1>3, <2>1
<1>10. ASSUME NEW i \in 1..Len(notices') PROVE notices'[i] = Len(delivered') + i
  <2>1. i + 1 \in 1..Len(notices) /\ notices'[i] = notices[i + 1]
    BY <1>2, <1>4
  <2>2. notices[i + 1] = Len(delivered) + (i + 1)
    BY <1>4, <2>1
  <2> QED
    BY <1>3, <1>4, <2>1, <2>2
<1>8. Len(delivered') =< accepted
  BY <1>3, <1>4
<1>9. outcome # "Stopped"
  BY <1>1 DEF NoticeInv
<1> QED
  BY <1>1, <1>2, <1>3, <1>4, <1>6, <1>7, <1>8, <1>9, <1>10 DEF NoticeInv

\* The worker and shutdown.
LEMMA OtherWorkKeeps ==
  NoticeInv /\ (WorkerReturns \/ WorkerPanics \/ WorkerStops \/ CloseQueue \/ AwaitWorker)
      => NoticeInv'
<1>1. NoticeInv /\ WorkerReturns => NoticeInv'
  BY DEF NoticeInv, WorkerReturns
<1>2. NoticeInv /\ WorkerPanics => NoticeInv'
  BY DEF NoticeInv, WorkerPanics
<1>3. NoticeInv /\ WorkerStops => NoticeInv'
  BY DEF NoticeInv, WorkerStops
<1>4. NoticeInv /\ CloseQueue => NoticeInv'
  BY DEF NoticeInv, CloseQueue
<1>5. NoticeInv /\ AwaitWorker => NoticeInv'
  BY DEF NoticeInv, AwaitWorker
<1> QED
  BY <1>1, <1>2, <1>3, <1>4, <1>5

\* The invariant of the dispatcher holds throughout.
LEMMA NoticeInvHolds == Spec => []NoticeInv
<1>1. NoticeInv /\ [Next]_vars => NoticeInv'
  <2> SUFFICES ASSUME NoticeInv, [Next]_vars PROVE NoticeInv'
    OBVIOUS
  <2>1. ASSUME UNCHANGED noticeVars PROVE NoticeInv'
    BY <2>1 DEF noticeVars, NoticeInv
  <2>2. ASSUME Pump PROVE NoticeInv'
    BY <2>1, <2>2, EnqueueKeeps, OtherWorkKeeps
    DEF Pump, HandleEvent, HandleOther, LeaveLoop, DrainEvent, JoinTasks, Stop
  <2>3. ASSUME Dispatcher PROVE NoticeInv'
    BY <2>3, TakeKeeps, OtherWorkKeeps DEF Dispatcher, WorkerStep
  <2>4. ASSUME RequestShutdown \/ (\E s \in Servers : Network(s)) \/ UNCHANGED vars
        PROVE  UNCHANGED noticeVars
    BY <2>4 DEF RequestShutdown, Network, vars
  <2> QED
    BY <2>1, <2>2, <2>3, <2>4 DEF Next
<1> QED
  BY <1>1, NoticeInitially, PTL DEF Spec

\* A sequence is determined by its length and its elements.
LEMMA SameElements ==
  ASSUME NEW q \in Seq(Nat), NEW n \in Nat, Len(q) = n, \A i \in 1..n : q[i] = i
  PROVE  q = [i \in 1..n |-> i]
  OBVIOUS

\* Accepted notifications are delivered in the order they were accepted, without a
\* gap, as long as the worker lives; a shutdown that was not cut short has delivered
\* them all (notification.rs, enqueue_inner and shutdown_with_timeout).
THEOREM NotificationsInOrder == Spec => [](AcceptedInOrder /\ StoppedMeansDelivered)
<1>1. ASSUME NoticeInv PROVE AcceptedInOrder
  <2> DEFINE all == [i \in 1..accepted |-> i]
  <2>1. /\ notices \in Seq(Nat) /\ delivered \in Seq(Nat) /\ accepted \in Nat
        /\ Len(delivered) \in Nat /\ Len(notices) \in Nat
        /\ Len(delivered) =< accepted
        /\ \A i \in 1..Len(delivered) : delivered[i] = i
    BY <1>1 DEF NoticeInv
  <2>2. ASSUME worker # "dead" PROVE delivered \o notices = all
    <3>1. /\ Len(delivered) + Len(notices) = accepted
          /\ \A i \in 1..Len(notices) : notices[i] = Len(delivered) + i
      BY <1>1, <2>2 DEF NoticeInv
    <3>2. /\ delivered \o notices \in Seq(Nat)
          /\ Len(delivered \o notices) = accepted
          /\ \A i \in 1..accepted : (delivered \o notices)[i] =
                 IF i <= Len(delivered) THEN delivered[i] ELSE notices[i - Len(delivered)]
      BY <2>1, <3>1
    <3>3. \A i \in 1..accepted : (delivered \o notices)[i] = i
      BY <2>1, <3>1, <3>2
    <3> QED
      BY Zenon, <2>1, <3>2, <3>3, SameElements
  <2>3. delivered = SubSeq(all, 1, Len(delivered))
    <3>1. delivered = [i \in 1..Len(delivered) |-> i]
      BY <2>1, SameElements
    <3>2. all \in Seq(Nat) /\ Len(all) = accepted
      BY <2>1
    <3>3. SubSeq(all, 1, Len(delivered)) = [i \in 1..Len(delivered) |-> all[i]]
      BY <2>1, <3>2
    <3> QED
      BY <2>1, <3>1, <3>3
  <2> QED
    BY <2>2, <2>3 DEF AcceptedInOrder
<1>2. NoticeInv => StoppedMeansDelivered
  BY DEF NoticeInv, StoppedMeansDelivered
<1> QED
  BY <1>1, <1>2, NoticeInvHolds, PTL
=============================================================================
