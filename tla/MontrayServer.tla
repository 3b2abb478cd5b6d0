---------------------------- MODULE MontrayServer ----------------------------
(***************************************************************************)
(* The server end to end: collectors, core, items board, file loggers and  *)
(* the webserver with its websocket clients.                               *)
(***************************************************************************)
EXTENDS FileLogger, Webserver

CONSTANT Healthy   \* the connections whose peer keeps reading

ASSUME ServerAssumption ==
    /\ Web \notin Loggers
    /\ Healthy \subseteq Conns

logVars == <<coreVars, fileVars>>
pushVars == <<coreVars, webVars>>
vars == <<coreVars, fileVars, webVars>>

Init == CoreInit /\ LoggerInit /\ WebInit

Next ==
    \/ CoreNext /\ UNCHANGED <<fileVars, webVars>>
    \/ (\E m \in Loggers : LoggerStep(m)) /\ UNCHANGED webVars
    \/ WebNext /\ UNCHANGED fileVars
    \/ closePc = "closed" /\ UNCHANGED vars   \* the process exits

(***************************************************************************)
(* Fairness: goroutines that can run do run.  Peers connect, disconnect    *)
(* and stop reading as they like, except that a healthy peer reads; a      *)
(* closed socket makes reads and writes fail.                              *)
(***************************************************************************)
Fairness ==
    /\ CoreFairness
    /\ \A m \in Loggers : WF_logVars(LoggerStep(m))
    /\ WF_pushVars(FanStep)
    /\ WF_pushVars(ServeReturns /\ webPc = "done")
    /\ \A c \in Conns :
        /\ WF_pushVars(Subscribe(c) \/ Reject(c))
        /\ WF_pushVars(CancelAndClose(c))
        /\ WF_pushVars(TxLocal(c))
        /\ WF_pushVars((RxEnd(c) \/ TxFail(c)) /\ conn[c] = "closed")
    /\ \A c \in Healthy : WF_pushVars(TxWrite(c))

Spec == Init /\ [][Next]_vars

FairSpec == Spec /\ Fairness

-----------------------------------------------------------------------------
TypeOK ==
    /\ CoreTypeOK
    /\ WebTypeOK
    /\ logFile \in [Loggers -> LogContent]
    /\ written \in [Loggers -> SUBSET ItemKey]

\* What a notification tells a peer.
MessageOf(n) == [time |-> n.time, total |-> n.total]

LastOf(s) == s[Len(s)]

(***************************************************************************)
(* The newest message on its way to subscriber c: still with the core, in  *)
(* the messenger's channel, in the fan-out, in the subscriber's queue, or  *)
(* in its send loop; otherwise what was written last.  A subscriber that   *)
(* has not read its snapshot yet will read the board.                      *)
(***************************************************************************)
Newest(c) ==
    IF sendState[Web] # "none" THEN MessageOf(notif)
    ELSE IF notifCh[Web] # <<>> THEN MessageOf(LastOf(notifCh[Web]))
    ELSE IF webPc = "fanout" /\ c \in fanTodo THEN MessageOf(fanNotif)
    ELSE IF queue[c] # <<>> THEN MessageOf(LastOf(queue[c]))
    ELSE IF txPc[c] \in {"snapshot", "write"} THEN txMsg[c]
    ELSE IF txPc[c] = "loop" THEN view[c]
    ELSE board

\* "No updates can be missed" (core.go): whatever the order of subscribing,
\* reading the board and fanning out, the newest message on its way to a
\* subscriber is what the board shows.  Until shutdown.
NewestIsBoard == ~shutdown => \A c \in subs : Newest(c) = board

\* Nothing is on its way to subscriber c.
Quiet(c) ==
    /\ runPc = "recv"
    /\ notifCh[Web] = <<>>
    /\ webPc = "recv"
    /\ queue[c] = <<>>
    /\ txPc[c] = "loop"

\* The consequence a peer sees: a subscriber to which nothing is on its way
\* has the tracker's incidents, exactly.
NoMissedUpdate ==
    ~shutdown => \A c \in subs : Quiet(c) => view[c].total = tracker.itemsNotOK

\* A peer that keeps reading is brought up to date again and again, whatever
\* the other peers do, unless it is disconnected or the server shuts down:
\* a peer that stopped reading holds up nobody but itself.
HealthyPeerCatchesUp ==
    \A c \in Healthy : []<>(c \notin subs \/ shutdown \/ view[c] = board)
=============================================================================
