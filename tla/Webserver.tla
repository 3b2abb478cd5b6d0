------------------------------ MODULE Webserver ------------------------------
(***************************************************************************)
(* backend/messengers/webserver: fan-out of the core's notifications to    *)
(* websocket subscribers.                                                  *)
(*                                                                         *)
(* The run goroutine copies every notification into the bounded queue of   *)
(* each subscriber and evicts a subscriber whose queue is full.  Every     *)
(* connection has a receive and a send loop; the send loop starts with a   *)
(* snapshot of the items board, read after the subscription was made.      *)
(* A connection is named by its subscription ID, which is never reused.    *)
(***************************************************************************)
EXTENDS Core

CONSTANTS
    Web,        \* this messenger
    Conns,      \* subscription IDs
    QueueCap,   \* websocketSubscriptionQueueSize (64)
    MayFail     \* whether the listener may fail by itself

ASSUME WebAssumption ==
    /\ Web \in Messengers
    /\ QueueCap \in Nat \ {0}
    /\ MayFail \in BOOLEAN

VARIABLES
    subs,       \* the keys of subs and wsConns, which subsMtx keeps equal
    closing,    \* admission is closed
    webPc,      \* run goroutine: "recv", "fanout", "closing" or "done"
    serve,      \* serve goroutine: "serving", "failed" or "closed"
    fanNotif,   \* the notification being fanned out
    fanTodo,    \* subscribers of the snapshot not yet served (or closed)
    conn,       \* per connection: "none", "accepted", "open" or "closed"
    removedBy,  \* who removed the connection from subs but has yet to close it
    rxPc,       \* receive loop: "off", "read" or "done"
    txPc,       \* send loop: "off", "get", "snapshot", "loop", "write" or "done"
    queue,      \* per connection: its notification queue
    txMsg,      \* the message the send loop is writing
    view        \* the last total written to the peer (time 0: none yet)

subVars == <<subs, closing, conn, removedBy>>
fanVars == <<webPc, serve, fanNotif, fanTodo>>
txVars == <<txPc, txMsg, view>>
webVars == <<subVars, fanVars, rxPc, txVars, queue>>

\* What a snapshot or an update tells the peer.
Message == [time : Nat, total : IncidentMap]

NoMessage == [time |-> 0, total |-> EmptyMap]

WebInit ==
    /\ subs = {}
    /\ closing = FALSE
    /\ webPc = "recv"
    /\ serve = "serving"
    /\ fanNotif = NoNotification
    /\ fanTodo = {}
    /\ conn = [c \in Conns |-> "none"]
    /\ removedBy = [c \in Conns |-> "nobody"]
    /\ rxPc = [c \in Conns |-> "off"]
    /\ txPc = [c \in Conns |-> "off"]
    /\ queue = [c \in Conns |-> <<>>]
    /\ txMsg = [c \in Conns |-> NoMessage]
    /\ view = [c \in Conns |-> NoMessage]

-----------------------------------------------------------------------------
(***************************************************************************)
(* unsubscribe: the caller that finds the entry removes it under subsMtx   *)
(* and later, outside the lock, cancels the context and closes the socket. *)
(***************************************************************************)
Unsubscribe(c, caller) ==
    /\ subs' = subs \ {c}
    /\ removedBy' = IF c \in subs THEN [removedBy EXCEPT ![c] = caller] ELSE removedBy
    /\ UNCHANGED <<closing, conn>>

\* Mutant of CancelAndClose: the socket stays open.
CancelOnly(c) ==
    /\ removedBy[c] # "nobody"
    /\ removedBy' = [removedBy EXCEPT ![c] = "nobody"]
    /\ UNCHANGED <<subs, closing, conn, fanVars, rxPc, txVars, queue, coreVars>>

CancelAndClose(c) ==
    /\ removedBy[c] # "nobody"
    /\ removedBy' = [removedBy EXCEPT ![c] = "nobody"]
    /\ conn' = [conn EXCEPT ![c] = "closed"]
    /\ UNCHANGED <<subs, closing, fanVars, rxPc, txVars, queue, coreVars>>

\* The run goroutine does nothing else while it is inside unsubscribe.
RunIsFree == \A c \in Conns : removedBy[c] # "run"

-----------------------------------------------------------------------------
(* wsConnect.                                                              *)

\* Serve accepts a request and starts its handler.
Accept(c) ==
    /\ conn[c] = "none"
    /\ serve = "serving"
    /\ conn' = [conn EXCEPT ![c] = "accepted"]
    /\ UNCHANGED <<subs, closing, removedBy, fanVars, rxPc, txVars, queue, coreVars>>

\* Mutant of Subscribe: closing is not looked at.
SubscribeAlways(c) ==
    /\ conn[c] = "accepted"
    /\ subs' = subs \cup {c}
    /\ conn' = [conn EXCEPT ![c] = "open"]
    /\ rxPc' = [rxPc EXCEPT ![c] = "read"]
    /\ txPc' = [txPc EXCEPT ![c] = "get"]
    /\ UNCHANGED <<closing, removedBy, fanVars, txMsg, view, queue, coreVars>>

\* The handler upgrades, subscribe succeeds and both loops are started.
Subscribe(c) ==
    /\ conn[c] = "accepted"
    /\ ~closing
    /\ subs' = subs \cup {c}
    /\ conn' = [conn EXCEPT ![c] = "open"]
    /\ rxPc' = [rxPc EXCEPT ![c] = "read"]
    /\ txPc' = [txPc EXCEPT ![c] = "get"]
    /\ UNCHANGED <<closing, removedBy, fanVars, txMsg, view, queue, coreVars>>

\* The upgrade fails, or subscribe finds admission closed: the connection is
\* closed without ever having been registered.
Reject(c) ==
    /\ conn[c] = "accepted"
    /\ conn' = [conn EXCEPT ![c] = "closed"]
    /\ UNCHANGED <<subs, closing, removedBy, fanVars, rxPc, txVars, queue, coreVars>>

\* The receive loop ends: the peer went away, sent data (a protocol
\* violation), or the socket was closed here.
RxEnd(c) ==
    /\ rxPc[c] = "read"
    /\ rxPc' = [rxPc EXCEPT ![c] = "done"]
    /\ Unsubscribe(c, "rx")
    /\ UNCHANGED <<fanVars, txVars, queue, coreVars>>

-----------------------------------------------------------------------------
(* wsTxLoop.                                                               *)

\* initialItems := ItemsBoard.Get()
TxGet(c) ==
    /\ txPc[c] = "get"
    /\ txPc' = [txPc EXCEPT ![c] = "snapshot"]
    /\ txMsg' = [txMsg EXCEPT ![c] = board]
    /\ UNCHANGED <<subVars, fanVars, rxPc, view, queue, coreVars>>

\* WriteJSON of the snapshot or of an update succeeds.  It may take as long
\* as the peer likes, and fails once the socket is closed.
TxWrite(c) ==
    /\ txPc[c] \in {"snapshot", "write"}
    /\ conn[c] = "open"
    /\ view' = [view EXCEPT ![c] = txMsg[c]]
    /\ txMsg' = [txMsg EXCEPT ![c] = NoMessage]
    /\ txPc' = [txPc EXCEPT ![c] = "loop"]
    /\ UNCHANGED <<subVars, fanVars, rxPc, queue, coreVars>>

\* The loop returns; nobody will read the queue again, so it is forgotten
\* together with what the peer has seen.
TxReturn(c) ==
    /\ txPc' = [txPc EXCEPT ![c] = "done"]
    /\ txMsg' = [txMsg EXCEPT ![c] = NoMessage]
    /\ view' = [view EXCEPT ![c] = NoMessage]
    /\ queue' = [queue EXCEPT ![c] = <<>>]
    /\ Unsubscribe(c, "tx")
    /\ UNCHANGED <<fanVars, rxPc, coreVars>>

\* A write error ends the loop (at "loop": the heartbeat's write).
TxFail(c) ==
    /\ txPc[c] \in {"snapshot", "loop", "write"}
    /\ TxReturn(c)

\* select: a notification is ready.
TxTake(c) ==
    /\ txPc[c] = "loop"
    /\ queue[c] # <<>>
    /\ LET n == Head(queue[c])
       IN  txMsg' = [txMsg EXCEPT ![c] = [time |-> n.time, total |-> n.total]]
    /\ queue' = [queue EXCEPT ![c] = Tail(@)]
    /\ txPc' = [txPc EXCEPT ![c] = "write"]
    /\ UNCHANGED <<subVars, fanVars, rxPc, view, coreVars>>

\* select: the context is done; the deferred unsubscribe finds no entry.
TxCancelled(c) ==
    /\ txPc[c] = "loop"
    /\ conn[c] = "closed"
    /\ TxReturn(c)

-----------------------------------------------------------------------------
(* run.                                                                    *)

\* Take a notification and snapshot the subscriptions under subsMtx.
FanReceive ==
    /\ webPc = "recv"
    /\ notifCh[Web] # <<>>
    /\ fanNotif' = Head(notifCh[Web])
    /\ fanTodo' = subs
    /\ webPc' = "fanout"
    /\ notifCh' = [notifCh EXCEPT ![Web] = Tail(@)]
    /\ UNCHANGED <<subVars, serve, rxPc, txVars, queue,
                   collVars, runVars, closeVars, updCh, updClosed, notifClosed, tornDown>>

\* Mutants of FanSend: wait for room in the queue, with a full queue first
\* in the order of iteration; or skip a full queue.
FanSendBlocks(c) ==
    /\ webPc = "fanout"
    /\ RunIsFree
    /\ c \in fanTodo
    /\ \A d \in fanTodo : Len(queue[d]) < QueueCap
    /\ fanTodo' = fanTodo \ {c}
    /\ queue' = [queue EXCEPT ![c] = Append(@, fanNotif)]
    /\ UNCHANGED <<webPc, serve, fanNotif, subVars, rxPc, txVars, coreVars>>

FanSendDrops(c) ==
    /\ webPc = "fanout"
    /\ RunIsFree
    /\ c \in fanTodo
    /\ fanTodo' = fanTodo \ {c}
    /\ queue' = [queue EXCEPT ![c] = IF Len(@) < QueueCap THEN Append(@, fanNotif) ELSE @]
    /\ UNCHANGED <<webPc, serve, fanNotif, subVars, rxPc, txVars, coreVars>>

\* One subscriber of the snapshot, in any order (Go map iteration): skip a
\* cancelled one, enqueue without blocking, or evict.
FanSend(c) ==
    /\ webPc = "fanout"
    /\ RunIsFree
    /\ c \in fanTodo
    /\ fanTodo' = fanTodo \ {c}
    /\ \/ /\ conn[c] = "closed"
          /\ UNCHANGED <<queue, subVars>>
       \/ /\ conn[c] # "closed"
          /\ Len(queue[c]) < QueueCap
          /\ queue' = [queue EXCEPT ![c] = Append(@, fanNotif)]
          /\ UNCHANGED subVars
       \/ /\ conn[c] # "closed"
          /\ Len(queue[c]) >= QueueCap
          /\ Unsubscribe(c, "run")
          /\ UNCHANGED queue
    /\ UNCHANGED <<webPc, serve, fanNotif, rxPc, txVars, coreVars>>

FanDone ==
    /\ webPc = "fanout"
    /\ RunIsFree
    /\ fanTodo = {}
    /\ webPc' = "recv"
    /\ fanNotif' = NoNotification
    /\ UNCHANGED <<subVars, serve, fanTodo, rxPc, txVars, queue, coreVars>>

\* The channel is closed and drained: close admission and snapshot the
\* connections in one critical section.
CloseAdmission ==
    /\ webPc = "recv"
    /\ notifCh[Web] = <<>>
    /\ Web \in notifClosed
    /\ closing' = TRUE
    /\ fanTodo' = subs
    /\ webPc' = "closing"
    /\ UNCHANGED <<subs, conn, removedBy, serve, fanNotif, rxPc, txVars, queue, coreVars>>

CloseConnection(c) ==
    /\ webPc = "closing"
    /\ RunIsFree
    /\ c \in fanTodo
    /\ fanTodo' = fanTodo \ {c}
    /\ Unsubscribe(c, "run")
    /\ UNCHANGED <<webPc, serve, fanNotif, rxPc, txVars, queue, coreVars>>

\* server.Close()
ServerClose ==
    /\ webPc = "closing"
    /\ RunIsFree
    /\ fanTodo = {}
    /\ webPc' = "done"
    /\ UNCHANGED <<subVars, serve, fanNotif, fanTodo, rxPc, txVars, queue, coreVars>>

\* Serve returns, because of server.Close or of a listener failure at any
\* time, and the serve goroutine closes TornDown.
ServeReturns ==
    /\ serve = "serving"
    /\ webPc = "done" \/ MayFail
    /\ serve' = IF webPc = "done" THEN "closed" ELSE "failed"
    /\ tornDown' = tornDown \cup {Web}
    /\ UNCHANGED <<subVars, webPc, fanNotif, fanTodo, rxPc, txVars, queue,
                   collVars, runVars, closeVars, chanVars>>

-----------------------------------------------------------------------------
FanStep ==
    \/ FanReceive
    \/ \E c \in Conns : FanSend(c)
    \/ FanDone
    \/ CloseAdmission
    \/ \E c \in Conns : CloseConnection(c)
    \/ ServerClose

\* The steps of a send loop that the peer cannot hold up.
TxLocal(c) == TxGet(c) \/ TxTake(c) \/ TxCancelled(c)

WebNext ==
    \/ FanStep
    \/ ServeReturns
    \/ \E c \in Conns :
        \/ Accept(c) \/ Subscribe(c) \/ Reject(c)
        \/ RxEnd(c) \/ CancelAndClose(c)
        \/ TxLocal(c) \/ TxWrite(c) \/ TxFail(c)

-----------------------------------------------------------------------------
WebTypeOK ==
    /\ subs \subseteq Conns
    /\ closing \in BOOLEAN
    /\ webPc \in {"recv", "fanout", "closing", "done"}
    /\ serve \in {"serving", "failed", "closed"}
    /\ fanNotif \in Notification
    /\ fanTodo \subseteq Conns
    /\ conn \in [Conns -> {"none", "accepted", "open", "closed"}]
    /\ removedBy \in [Conns -> {"nobody", "run", "rx", "tx"}]
    /\ rxPc \in [Conns -> {"off", "read", "done"}]
    /\ txPc \in [Conns -> {"off", "get", "snapshot", "loop", "write", "done"}]
    /\ queue \in [Conns -> Seq(Notification)]
    /\ txMsg \in [Conns -> Message]
    /\ view \in [Conns -> Message]

\* A connection can leave the subscriptions only towards being closed, and
\* none slips past shutdown: when run has finished, an open connection is one
\* whose own receive or send loop removed it and is about to close it.
NoConnectionEscapesShutdown ==
    /\ \A c \in Conns :
          conn[c] = "open" <=> (c \in subs \/ removedBy[c] # "nobody")
    /\ webPc = "done" =>
          \A c \in Conns : conn[c] = "open" => removedBy[c] \in {"rx", "tx"}

\* Closing the server closes every connection and ends both of its loops,
\* also when the peer reads nothing.
ConnectionsEnd ==
    \A c \in Conns :
        (webPc = "done") ~>
            /\ conn[c] \in {"none", "closed"}
            /\ rxPc[c] \in {"off", "done"}
            /\ txPc[c] \in {"off", "done"}
=============================================================================
