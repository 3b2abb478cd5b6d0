-------------------------------- MODULE Core --------------------------------
(***************************************************************************)
(* backend/core: the collectors feed updCh, the run goroutine feeds every  *)
(* update to the tracker, publishes the new total on the items board and   *)
(* then hands the notification to every messenger in parallel; Close tears *)
(* the whole pipeline down from the collectors to the messengers.          *)
(*                                                                         *)
(* A collector is modelled by what core.go relies on: one goroutine that   *)
(* prepares an update, sends it in a select with its teardown, and has     *)
(* stopped when Close returns (systemd and exec both have this shape).     *)
(* What a messenger does with its channel is left to the modules that      *)
(* extend this one (FileLogger, Webserver).                                *)
(***************************************************************************)
EXTENDS StatesTracker, Sequences

CONSTANTS
    NumCollectors,   \* collectors in configuration order: 1..NumCollectors
    NumMessengers,   \* messengers in configuration order: 1..NumMessengers
    UpdCap,          \* capacity of updCh (16)
    NotifCap,        \* capacity of every notificationsChan (32)
    Updates,         \* the updates a collector may report
    MaxUpdates,      \* bound: updates prepared by all collectors together
    MayClose         \* whether Close is ever called

\* An update carries either an error or the observed items.
Update == [err : BOOLEAN, items : ItemMap]

ErrorUpdate == [err |-> TRUE, items |-> EmptyMap]

ItemsUpdate(items) == [err |-> FALSE, items |-> items]

ASSUME CoreAssumption ==
    /\ NumCollectors \in Nat
    /\ NumMessengers \in Nat
    /\ UpdCap \in Nat \ {0}
    /\ NotifCap \in Nat \ {0}
    /\ Updates \subseteq Update
    /\ MaxUpdates \in Nat
    /\ MayClose \in BOOLEAN

Collectors == 1..NumCollectors

Messengers == 1..NumMessengers

VARIABLES
    prepared,    \* number of updates prepared so far, bounded by MaxUpdates
    coll,        \* per collector: "idle", "sending" or "stopped"
    collUpd,     \* the update a sending collector holds
    teardown,    \* collectors whose teardown channel is closed
    updCh,       \* the updates channel
    updClosed,   \* updCh has been closed
    tracker,     \* the core's ItemStatesTracker
    clock,       \* the time of the last feed; every feed gets a later one
    board,       \* the items board: the total and the time it was computed
    runPc,       \* run goroutine: "recv", "publish", "send" or "done"
    notif,       \* the notification being delivered
    sendState,   \* per messenger goroutine: "none", "start" or "send"
    notifCh,     \* per messenger: its notifications channel
    notifClosed, \* messengers whose notifications channel is closed
    tornDown,    \* messengers whose TornDown channel is closed
    shutdown,    \* the core's shutdown channel is closed
    closePc,     \* Close: "open", "collectors", "run", "messengers" or "closed"
    closeIdx     \* the collector or messenger Close is working on

collVars == <<prepared, coll, collUpd, teardown>>
runVars == <<tracker, clock, board, runPc, notif, sendState>>
closeVars == <<shutdown, closePc, closeIdx>>
chanVars == <<updCh, updClosed, notifCh, notifClosed>>
coreVars == <<collVars, runVars, closeVars, chanVars, tornDown>>

Notification ==
    [time : Nat, total : IncidentMap, added : IncidentMap, removed : IncidentMap,
     updated : IncidentMap, okItems : SUBSET ItemKey]

NoNotification ==
    [time |-> 0, total |-> EmptyMap, added |-> EmptyMap, removed |-> EmptyMap,
     updated |-> EmptyMap, okItems |-> {}]

CoreInit ==
    /\ prepared = 0
    /\ coll = [c \in Collectors |-> "idle"]
    /\ collUpd = [c \in Collectors |-> ErrorUpdate]
    /\ teardown = {}
    /\ updCh = <<>>
    /\ updClosed = FALSE
    /\ tracker = NewItemStatesTracker
    /\ clock = 0
    /\ board = [time |-> 0, total |-> EmptyMap]
    /\ runPc = "recv"
    /\ notif = NoNotification
    /\ sendState = [m \in Messengers |-> "none"]
    /\ notifCh = [m \in Messengers |-> <<>>]
    /\ notifClosed = {}
    /\ tornDown = {}
    /\ shutdown = FALSE
    /\ closePc = "open"
    /\ closeIdx = 1

-----------------------------------------------------------------------------
(* Collectors.                                                             *)

\* The collector goroutine has observed something and is about to send it.
CollectorPrepare(c) ==
    /\ coll[c] = "idle"
    /\ prepared < MaxUpdates
    /\ \E upd \in Updates : collUpd' = [collUpd EXCEPT ![c] = upd]
    /\ coll' = [coll EXCEPT ![c] = "sending"]
    /\ prepared' = prepared + 1
    /\ UNCHANGED <<teardown, runVars, closeVars, chanVars, tornDown>>

\* select: UpdatesChan <- upd.  Go panics when the channel is closed, which
\* the action does not rule out: see NoSendOnClosedChannel.
CollectorSend(c) ==
    /\ coll[c] = "sending"
    /\ Len(updCh) < UpdCap
    /\ updCh' = Append(updCh, collUpd[c])
    /\ coll' = [coll EXCEPT ![c] = "idle"]
    /\ collUpd' = [collUpd EXCEPT ![c] = ErrorUpdate]
    /\ UNCHANGED <<prepared, teardown, updClosed, notifCh, notifClosed,
                   runVars, closeVars, tornDown>>

\* Mutant of CollectorStop: break leaves the select, not the loop.
CollectorStopBreaks(c) ==
    /\ c \in teardown
    /\ coll[c] # "stopped"
    /\ coll' = [coll EXCEPT ![c] = "idle"]
    /\ collUpd' = [collUpd EXCEPT ![c] = ErrorUpdate]
    /\ UNCHANGED <<prepared, teardown, runVars, closeVars, chanVars, tornDown>>

\* The goroutine notices teardown, in the select or before its next one.
CollectorStop(c) ==
    /\ c \in teardown
    /\ coll[c] # "stopped"
    /\ coll' = [coll EXCEPT ![c] = "stopped"]
    /\ collUpd' = [collUpd EXCEPT ![c] = ErrorUpdate]
    /\ UNCHANGED <<prepared, teardown, runVars, closeVars, chanVars, tornDown>>

-----------------------------------------------------------------------------
(* The run goroutine.                                                      *)

\* An error update is logged and dropped.
RunError ==
    /\ runPc = "recv"
    /\ updCh # <<>>
    /\ Head(updCh).err
    /\ updCh' = Tail(updCh)
    /\ UNCHANGED <<collVars, runVars, closeVars, tornDown,
                   updClosed, notifCh, notifClosed>>

\* Feed an update to the tracker; without a notification, take the next one.
RunFeed ==
    /\ runPc = "recv"
    /\ updCh # <<>>
    /\ ~Head(updCh).err
    /\ LET items == Head(updCh).items
           now   == clock + 1
       IN  /\ tracker' = TrackerAfter(tracker, items, now)
           /\ clock' = now
           /\ IF HasChanges(tracker.itemsNotOK, items)
              THEN /\ notif' = NotificationOf(tracker, items, now)
                   /\ runPc' = "publish"
              ELSE UNCHANGED <<notif, runPc>>
    /\ updCh' = Tail(updCh)
    /\ UNCHANGED <<collVars, board, sendState, closeVars, tornDown,
                   updClosed, notifCh, notifClosed>>

\* ib.Set(Total), then one sender goroutine per messenger is started.
RunPublish ==
    /\ runPc = "publish"
    /\ board' = [time |-> notif.time, total |-> notif.total]
    /\ sendState' = [m \in Messengers |-> "start"]
    /\ runPc' = "send"
    /\ UNCHANGED <<collVars, tracker, clock, notif, closeVars, chanVars, tornDown>>

\* A sender's first select: give up when shutdown is already closed.
SenderStart(m) ==
    /\ sendState[m] = "start"
    /\ sendState' = [sendState EXCEPT ![m] = IF shutdown THEN "none" ELSE "send"]
    /\ UNCHANGED <<collVars, tracker, clock, board, runPc, notif,
                   closeVars, chanVars, tornDown>>

\* The second and third select: deliver when there is room ...
SenderDeliver(m) ==
    /\ sendState[m] = "send"
    /\ Len(notifCh[m]) < NotifCap
    /\ notifCh' = [notifCh EXCEPT ![m] = Append(@, notif)]
    /\ sendState' = [sendState EXCEPT ![m] = "none"]
    /\ UNCHANGED <<collVars, tracker, clock, board, runPc, notif,
                   closeVars, updCh, updClosed, notifClosed, tornDown>>

\* ... or drop the notification because of shutdown.
SenderDrop(m) ==
    /\ sendState[m] = "send"
    /\ shutdown
    /\ sendState' = [sendState EXCEPT ![m] = "none"]
    /\ UNCHANGED <<collVars, tracker, clock, board, runPc, notif,
                   closeVars, chanVars, tornDown>>

\* wg.Wait() returned: every sender is done.
RunSent ==
    /\ runPc = "send"
    /\ \A m \in Messengers : sendState[m] = "none"
    /\ runPc' = "recv"
    /\ notif' = NoNotification
    /\ UNCHANGED <<collVars, tracker, clock, board, sendState,
                   closeVars, chanVars, tornDown>>

\* updCh is closed and drained: close(torndown).
RunDone ==
    /\ runPc = "recv"
    /\ updCh = <<>>
    /\ updClosed
    /\ runPc' = "done"
    /\ UNCHANGED <<collVars, tracker, clock, board, notif, sendState,
                   closeVars, chanVars, tornDown>>

-----------------------------------------------------------------------------
(* Close, guarded by closeOnce.                                            *)

CloseBegin ==
    /\ MayClose
    /\ closePc = "open"
    /\ closePc' = "collectors"
    /\ UNCHANGED <<collVars, runVars, shutdown, closeIdx, chanVars, tornDown>>

\* coll.Close() closes the teardown channel of one collector ...
CloseCollector ==
    /\ closePc = "collectors"
    /\ closeIdx <= NumCollectors
    /\ closeIdx \notin teardown
    /\ teardown' = teardown \cup {closeIdx}
    /\ UNCHANGED <<prepared, coll, collUpd, runVars, closeVars, chanVars, tornDown>>

\* ... and waits for its goroutine before the next one.
CollectorClosed ==
    /\ closePc = "collectors"
    /\ closeIdx \in teardown
    /\ coll[closeIdx] = "stopped"
    /\ closeIdx' = closeIdx + 1
    /\ UNCHANGED <<collVars, runVars, shutdown, closePc, chanVars, tornDown>>

\* Mutant of CloseShutdown: it does not wait for the collectors.
CloseShutdownEarly ==
    /\ closePc = "collectors"
    /\ ~shutdown
    /\ shutdown' = TRUE
    /\ UNCHANGED <<collVars, runVars, closePc, closeIdx, chanVars, tornDown>>

\* close(shutdown)
CloseShutdown ==
    /\ closePc = "collectors"
    /\ closeIdx > NumCollectors
    /\ ~shutdown
    /\ shutdown' = TRUE
    /\ UNCHANGED <<collVars, runVars, closePc, closeIdx, chanVars, tornDown>>

\* close(updCh), then wait for the run goroutine.
CloseUpdCh ==
    /\ closePc = "collectors"
    /\ shutdown
    /\ updClosed' = TRUE
    /\ closePc' = "run"
    /\ UNCHANGED <<collVars, runVars, shutdown, closeIdx,
                   updCh, notifCh, notifClosed, tornDown>>

CloseRunDone ==
    /\ closePc = "run"
    /\ runPc = "done"
    /\ closePc' = "messengers"
    /\ closeIdx' = 1
    /\ UNCHANGED <<collVars, runVars, shutdown, chanVars, tornDown>>

\* close(notificationsChan) of one messenger ...
CloseMessenger ==
    /\ closePc = "messengers"
    /\ closeIdx <= NumMessengers
    /\ closeIdx \notin notifClosed
    /\ notifClosed' = notifClosed \cup {closeIdx}
    /\ UNCHANGED <<collVars, runVars, closeVars, updCh, updClosed, notifCh, tornDown>>

\* ... and wait for it before the next one.
MessengerClosed ==
    /\ closePc = "messengers"
    /\ closeIdx \in notifClosed
    /\ closeIdx \in tornDown
    /\ closeIdx' = closeIdx + 1
    /\ UNCHANGED <<collVars, runVars, shutdown, closePc, chanVars, tornDown>>

CloseReturn ==
    /\ closePc = "messengers"
    /\ closeIdx > NumMessengers
    /\ closePc' = "closed"
    /\ UNCHANGED <<collVars, runVars, shutdown, closeIdx, chanVars, tornDown>>

-----------------------------------------------------------------------------
RunStep ==
    \/ RunError
    \/ RunFeed
    \/ RunPublish
    \/ RunSent
    \/ RunDone

SenderStep(m) ==
    \/ SenderStart(m)
    \/ SenderDeliver(m)
    \/ SenderDrop(m)

\* Everything Close does once it has been called.
CloseStep ==
    \/ CloseCollector
    \/ CollectorClosed
    \/ CloseShutdown
    \/ CloseUpdCh
    \/ CloseRunDone
    \/ CloseMessenger
    \/ MessengerClosed
    \/ CloseReturn

CoreNext ==
    \/ \E c \in Collectors :
            CollectorPrepare(c) \/ CollectorSend(c) \/ CollectorStop(c)
    \/ RunStep
    \/ \E m \in Messengers : SenderStep(m)
    \/ CloseBegin
    \/ CloseStep

\* Goroutines that can run do run.  Nothing obliges a collector to observe
\* anything or an operator to call Close.
CoreFairness ==
    /\ \A c \in Collectors : WF_coreVars(CollectorSend(c) \/ CollectorStop(c))
    /\ WF_coreVars(RunStep)
    /\ \A m \in Messengers : WF_coreVars(SenderStep(m))
    /\ WF_coreVars(CloseStep)

-----------------------------------------------------------------------------
CoreTypeOK ==
    /\ prepared \in 0..MaxUpdates
    /\ coll \in [Collectors -> {"idle", "sending", "stopped"}]
    /\ collUpd \in [Collectors -> Update]
    /\ teardown \subseteq Collectors
    /\ updCh \in Seq(Update)
    /\ updClosed \in BOOLEAN
    /\ tracker \in [itemsOK : SUBSET ItemKey, itemsNotOK : IncidentMap]
    /\ clock \in Nat
    /\ board \in [time : Nat, total : IncidentMap]
    /\ runPc \in {"recv", "publish", "send", "done"}
    /\ notif \in Notification
    /\ sendState \in [Messengers -> {"none", "start", "send"}]
    /\ notifCh \in [Messengers -> Seq(Notification)]
    /\ notifClosed \subseteq Messengers
    /\ tornDown \subseteq Messengers
    /\ shutdown \in BOOLEAN
    /\ closePc \in {"open", "collectors", "run", "messengers", "closed"}
    /\ closeIdx \in Nat \ {0}

\* Close never closes a channel somebody can still send on: once updCh is
\* closed every collector goroutine has stopped, and once a notifications
\* channel is closed the run goroutine and its senders have ended.  A send on
\* a closed channel would panic the server during shutdown.
NoSendOnClosedChannel ==
    /\ updClosed => \A c \in Collectors : coll[c] = "stopped"
    /\ notifClosed # {} =>
            /\ runPc = "done"
            /\ \A m \in Messengers : sendState[m] = "none"

\* The tracker's two maps stay disjoint, and a board that is not about to be
\* replaced shows exactly the tracker's incidents (core.go publishes on the
\* board before it does anything else with a notification).
BoardMatchesTracker ==
    /\ tracker.itemsOK \cap Keys(tracker.itemsNotOK) = {}
    /\ runPc # "publish" => board.total = tracker.itemsNotOK

\* Close returns: no order of blocked sends, full channels and messengers
\* still draining can hold it up once it has been called.
CloseTerminates == (closePc = "collectors") ~> (closePc = "closed")

\* Every notification run takes from FeedItems describes exactly the change
\* of the tracker's incidents, and FeedItems is silent only when there is none.
DeltasAreExact ==
    [][tracker' # tracker =>
        IF runPc' = "publish"
        THEN /\ DeltaIsExact(tracker.itemsNotOK, notif')
             /\ notif'.total = tracker'.itemsNotOK
        ELSE tracker'.itemsNotOK = tracker.itemsNotOK]_tracker
=============================================================================
