----------------------------- MODULE ServerProofs -----------------------------
(***************************************************************************)
(* No update can be missed: for every number of collectors, messengers and *)
(* connections, every channel capacity and every update.                   *)
(***************************************************************************)
EXTENDS MontrayServer, TLAPS

\* The first element of a sequence.
LEMMA HeadType ==
    ASSUME NEW S, NEW q \in Seq(S), q # <<>>
    PROVE  Head(q) \in S
OBVIOUS

-----------------------------------------------------------------------------
(* What FeedItems computes, for every set of keys and conditions, every    *)
(* tracker and every update.                                               *)

\* The deltas and the new map of incidents are maps of incidents again.
LEMMA DeltaTypes ==
    ASSUME NEW old \in IncidentMap, NEW items \in ItemMap, NEW now \in Nat
    PROVE  /\ RemovedBy(old, items) \in IncidentMap
           /\ AddedBy(old, items, now) \in IncidentMap
           /\ UpdatedBy(old, items) \in IncidentMap
           /\ NotOKAfter(old, items, now) \in IncidentMap
<1>1. RemovedBy(old, items) \in IncidentMap
  BY DEF RemovedBy, IncidentMap
<1>2. AddedBy(old, items, now) \in IncidentMap
  BY DEF AddedBy, ReportedNotOK, IncidentMap, ItemWContext
<1>3. UpdatedBy(old, items) \in IncidentMap
  <2>1. ASSUME NEW k \in ItemKey, k \in ReportedNotOK(items), old[k] # Absent
        PROVE  [item |-> items[k], startedAt |-> old[k].startedAt] \in ItemWContext
    BY <2>1 DEF ReportedNotOK, IncidentMap, ItemWContext
  <2>. QED  BY <2>1 DEF UpdatedBy, IncidentMap
<1>4. NotOKAfter(old, items, now) \in IncidentMap
  BY <1>2, <1>3 DEF NotOKAfter, IncidentMap
<1>. QED  BY <1>1, <1>2, <1>3, <1>4

\* Feeding keeps the tr well-typed.
LEMMA TrackerType ==
    ASSUME NEW tr \in [itemsOK : SUBSET ItemKey, itemsNotOK : IncidentMap],
           NEW items \in ItemMap, NEW now \in Nat
    PROVE  TrackerAfter(tr, items, now)
                \in [itemsOK : SUBSET ItemKey, itemsNotOK : IncidentMap]
BY DeltaTypes DEF TrackerAfter, ReportedOK, ReportedNotOK

\* What each key's entry becomes.
LEMMA EntryAfter ==
    ASSUME NEW old \in IncidentMap, NEW items \in ItemMap, NEW now \in Nat,
           NEW k \in ItemKey
    PROVE  /\ items[k] = OK => NotOKAfter(old, items, now)[k] = Absent
           /\ items[k] = Absent => NotOKAfter(old, items, now)[k] = old[k]
           /\ items[k] \in NonOK /\ old[k] = Absent =>
                NotOKAfter(old, items, now)[k] = [item |-> items[k], startedAt |-> now]
           /\ items[k] \in NonOK /\ old[k] # Absent =>
                NotOKAfter(old, items, now)[k] =
                    [item |-> items[k], startedAt |-> old[k].startedAt]
<1>1. ASSUME NEW x \in NonOK, NEW t \in Nat
      PROVE  [item |-> x, startedAt |-> t] # Absent
  BY <1>1, ItemAssumption DEF ItemWContext
<1>2. old[k] # Absent => /\ old[k] \in ItemWContext
                         /\ old[k].startedAt \in Nat
                         /\ old[k] = [item |-> old[k].item, startedAt |-> old[k].startedAt]
  BY DEF IncidentMap, ItemWContext
<1>. QED
  BY <1>1, <1>2, ItemAssumption
     DEF NotOKAfter, AddedBy, UpdatedBy, ReportedOK, ReportedNotOK, ItemMap, Item

\* FeedItems stays silent only when the incidents did not change.
LEMMA SilentMeansUnchanged ==
    ASSUME NEW old \in IncidentMap, NEW items \in ItemMap, NEW now \in Nat,
           ~HasChanges(old, items)
    PROVE  NotOKAfter(old, items, now) = old
<1>1. ASSUME NEW k \in ItemKey PROVE NotOKAfter(old, items, now)[k] = old[k]
  <2>. DEFINE entry == NotOKAfter(old, items, now)[k]
  <2>0. /\ items[k] = OK => entry = Absent
        /\ items[k] = Absent => entry = old[k]
        /\ items[k] \in NonOK /\ old[k] = Absent =>
                entry = [item |-> items[k], startedAt |-> now]
        /\ items[k] \in NonOK /\ old[k] # Absent =>
                entry = [item |-> items[k], startedAt |-> old[k].startedAt]
    BY EntryAfter
  <2>. HIDE DEF entry
  <2>. SUFFICES entry = old[k]
    BY DEF entry
  <2>1. CASE items[k] = OK
    <3>1. RemovedBy(old, items)[k] = old[k]
      BY <2>1 DEF RemovedBy, ReportedOK
    <3>2. old[k] = Absent
      BY <3>1 DEF HasChanges, Keys
    <3>. QED  BY <2>0, <2>1, <3>2
  <2>2. CASE items[k] = Absent
    BY <2>0, <2>2
  <2>3. CASE items[k] \in NonOK
    <3>1. old[k] # Absent
      <4>1. SUFFICES ASSUME old[k] = Absent PROVE FALSE
        OBVIOUS
      <4>2. AddedBy(old, items, 0)[k] = [item |-> items[k], startedAt |-> 0]
        BY <2>3, <4>1 DEF AddedBy, ReportedNotOK
      <4>3. AddedBy(old, items, 0)[k] # Absent
        BY <4>2, <2>3, ItemAssumption DEF ItemWContext
      <4>. QED  BY <4>3 DEF HasChanges, Keys
    <3>2. old[k] = [item |-> old[k].item, startedAt |-> old[k].startedAt]
          /\ old[k].startedAt \in Nat
      BY <3>1 DEF IncidentMap, ItemWContext
    <3>3. old[k].item = items[k]
      <4>1. SUFFICES ASSUME old[k].item # items[k] PROVE FALSE
        OBVIOUS
      <4>2. UpdatedBy(old, items)[k] = [item |-> items[k], startedAt |-> old[k].startedAt]
        BY <2>3, <3>1, <4>1 DEF UpdatedBy, ReportedNotOK
      <4>3. UpdatedBy(old, items)[k] # Absent
        BY <4>2, <2>3, <3>2, ItemAssumption DEF ItemWContext
      <4>. QED  BY <4>3 DEF HasChanges, Keys
    <3>4. entry = [item |-> items[k], startedAt |-> old[k].startedAt]
      BY <2>0, <2>3, <3>1
    <3>. QED  BY <3>2, <3>3, <3>4
  <2>. QED  BY <2>1, <2>2, <2>3 DEF ItemMap, Item
<1>2. NotOKAfter(old, items, now) \in IncidentMap
  BY DeltaTypes
<1>. QED  BY <1>1, <1>2 DEF IncidentMap

\* What the deltas of each key are.
LEMMA DeltaEntries ==
    ASSUME NEW old \in IncidentMap, NEW items \in ItemMap, NEW now \in Nat,
           NEW k \in ItemKey
    PROVE  /\ RemovedBy(old, items)[k] = IF items[k] = OK THEN old[k] ELSE Absent
           /\ AddedBy(old, items, now)[k] =
                IF items[k] \in NonOK /\ old[k] = Absent
                THEN [item |-> items[k], startedAt |-> now] ELSE Absent
           /\ UpdatedBy(old, items)[k] =
                IF items[k] \in NonOK /\ old[k] # Absent /\ old[k].item # items[k]
                THEN [item |-> items[k], startedAt |-> old[k].startedAt] ELSE Absent
BY DEF RemovedBy, AddedBy, UpdatedBy, ReportedOK, ReportedNotOK

\* The deltas FeedItems publishes are exact, whatever the tr and the
\* update: a client that applies them ends with the published total, and
\* replacing an incident's item never restarts the incident.
THEOREM FeedItemsDeltaIsExact ==
    ASSUME NEW tr \in [itemsOK : SUBSET ItemKey, itemsNotOK : IncidentMap],
           NEW items \in ItemMap, NEW now \in Nat
    PROVE  DeltaIsExact(tr.itemsNotOK, NotificationOf(tr, items, now))
<1>. DEFINE old == tr.itemsNotOK
            n == NotificationOf(tr, items, now)
<1>1. old \in IncidentMap
  OBVIOUS
<1>2. /\ n.time = now
      /\ n.total = NotOKAfter(old, items, now)
      /\ n.added = AddedBy(old, items, now)
      /\ n.removed = RemovedBy(old, items)
      /\ n.updated = UpdatedBy(old, items)
  BY DEF NotificationOf
<1>. HIDE DEF old, n
<1>3. ASSUME NEW k \in ItemKey
      PROVE  /\ n.added[k] # Absent <=> n.total[k] # Absent /\ old[k] = Absent
             /\ n.removed[k] # Absent <=> n.total[k] = Absent /\ old[k] # Absent
             /\ n.updated[k] # Absent <=>
                    /\ n.total[k] # Absent
                    /\ old[k] # Absent
                    /\ old[k].item # n.total[k].item
             /\ n.added[k] # Absent =>
                    n.total[k] = n.added[k] /\ n.added[k].startedAt = now
             /\ n.removed[k] # Absent => n.removed[k] = old[k]
             /\ n.updated[k] # Absent => n.total[k] = n.updated[k]
             /\ n.total[k] # Absent /\ old[k] # Absent =>
                    n.total[k].startedAt = old[k].startedAt
  <2>1. ASSUME NEW x \in NonOK, NEW t \in Nat
        PROVE  [item |-> x, startedAt |-> t] # Absent
    BY <2>1, ItemAssumption DEF ItemWContext
  <2>2. old[k] # Absent => old[k].startedAt \in Nat
    BY <1>1 DEF IncidentMap, ItemWContext
  <2>3. /\ n.removed[k] = IF items[k] = OK THEN old[k] ELSE Absent
        /\ n.added[k] = IF items[k] \in NonOK /\ old[k] = Absent
                        THEN [item |-> items[k], startedAt |-> now] ELSE Absent
        /\ n.updated[k] = IF items[k] \in NonOK /\ old[k] # Absent /\ old[k].item # items[k]
                          THEN [item |-> items[k], startedAt |-> old[k].startedAt]
                          ELSE Absent
    BY <1>1, <1>2, DeltaEntries
  <2>. DEFINE new == NotOKAfter(old, items, now)[k]
  <2>a. n.total[k] = new
    BY <1>2
  <2>b. /\ items[k] = OK => new = Absent
        /\ items[k] = Absent => new = old[k]
        /\ items[k] \in NonOK /\ old[k] = Absent =>
              new = [item |-> items[k], startedAt |-> now]
        /\ items[k] \in NonOK /\ old[k] # Absent =>
              new = [item |-> items[k], startedAt |-> old[k].startedAt]
    BY <1>1, EntryAfter
  <2>. HIDE DEF new
  <2>4. CASE items[k] \notin NonOK
    <3>1. n.added[k] = Absent /\ n.updated[k] = Absent
      BY <2>3, <2>4
    <3>2. CASE items[k] = OK
      <4>1. n.total[k] = Absent
        BY <2>a, <2>b, <3>2
      <4>. QED  BY <2>3, <3>1, <3>2, <4>1
    <3>3. CASE items[k] = Absent
      <4>1. n.total[k] = old[k]
        BY SMTT(20), <2>a, <2>b, <3>3
      <4>2. n.removed[k] = Absent
        BY <2>3, <3>3, ItemAssumption
      <4>. QED  BY <3>1, <4>1, <4>2
    <3>. QED  BY <2>4, <3>2, <3>3 DEF ItemMap, Item
  <2>5. CASE items[k] \in NonOK
    <3>1. n.removed[k] = Absent
      BY <2>3, <2>5, ItemAssumption
    <3>2. CASE old[k] = Absent
      <4>1. n.total[k] = [item |-> items[k], startedAt |-> now]
        BY <2>a, <2>b, <2>5, <3>2
      <4>2. n.added[k] = n.total[k] /\ n.updated[k] = Absent
        BY <2>3, <2>5, <3>2, <4>1
      <4>3. n.total[k] # Absent
        BY <2>1, <2>5, <4>1
      <4>. QED  BY <3>1, <3>2, <4>1, <4>2, <4>3
    <3>3. CASE old[k] # Absent
      <4>1. n.total[k] = [item |-> items[k], startedAt |-> old[k].startedAt]
        BY <2>a, <2>b, <2>5, <3>3
      <4>2. n.total[k] # Absent
        BY <2>1, <2>2, <2>5, <3>3, <4>1
      <4>3. /\ n.added[k] = Absent
            /\ n.updated[k] = IF old[k].item # n.total[k].item THEN n.total[k] ELSE Absent
        BY <2>3, <2>5, <3>3, <4>1
      <4>. QED  BY <3>1, <3>3, <4>1, <4>2, <4>3
    <3>. QED  BY <3>2, <3>3
  <2>. QED  BY <2>4, <2>5
<1>4. DeltaIsExact(old, n)
  BY <1>2, <1>3 DEF DeltaIsExact, Keys
<1>. QED  BY <1>4 DEF old, n

\* No item is both healthy and an incident: FeedItems keeps the tr's two
\* maps disjoint.
LEMMA FeedKeepsDisjoint ==
    ASSUME NEW tr \in [itemsOK : SUBSET ItemKey, itemsNotOK : IncidentMap],
           NEW items \in ItemMap, NEW now \in Nat,
           tr.itemsOK \cap Keys(tr.itemsNotOK) = {}
    PROVE  TrackerAfter(tr, items, now).itemsOK
                \cap Keys(TrackerAfter(tr, items, now).itemsNotOK) = {}
<1>. DEFINE old == tr.itemsNotOK
            new == NotOKAfter(old, items, now)
            ok  == (tr.itemsOK \ ReportedNotOK(items)) \cup ReportedOK(items)
<1>1. /\ TrackerAfter(tr, items, now).itemsOK = ok
      /\ TrackerAfter(tr, items, now).itemsNotOK = new
  BY DEF TrackerAfter
<1>a. old \in IncidentMap /\ tr.itemsOK \cap Keys(old) = {}
  OBVIOUS
<1>. HIDE DEF old
<1>2. ASSUME NEW k \in ItemKey, k \in ok PROVE new[k] = Absent
  <2>2. /\ items[k] = OK => NotOKAfter(old, items, now)[k] = Absent
        /\ items[k] = Absent => NotOKAfter(old, items, now)[k] = old[k]
        /\ items[k] \in NonOK /\ old[k] = Absent =>
              NotOKAfter(old, items, now)[k] = [item |-> items[k], startedAt |-> now]
        /\ items[k] \in NonOK /\ old[k] # Absent =>
              NotOKAfter(old, items, now)[k] =
                  [item |-> items[k], startedAt |-> old[k].startedAt]
    BY <1>a, EntryAfter
  <2>3. CASE items[k] = OK
    BY <2>2, <2>3
  <2>4. CASE items[k] # OK
    <3>1. k \in tr.itemsOK /\ items[k] \notin NonOK
      BY <1>2, <2>4 DEF ReportedOK, ReportedNotOK
    <3>2. items[k] = Absent
      BY <2>4, <3>1 DEF ItemMap, Item
    <3>3. old[k] = Absent
      BY <1>a, <3>1 DEF Keys
    <3>. QED  BY <2>2, <3>2, <3>3
  <2>. QED  BY <2>3, <2>4
<1>. QED  BY <1>1, <1>2 DEF Keys

USE DEF Collectors, Messengers

-----------------------------------------------------------------------------
(* Type correctness.                                                       *)

\* FeedItems returns a notification.
LEMMA NotificationType ==
    ASSUME NEW t \in [itemsOK : SUBSET ItemKey, itemsNotOK : IncidentMap],
           NEW items \in ItemMap, NEW now \in Nat
    PROVE  NotificationOf(t, items, now) \in Notification
BY Zenon, DeltaTypes, TrackerType DEF NotificationOf, Notification

\* Replacing one value of a function keeps its type.
LEMMA ExceptType ==
    ASSUME NEW D, NEW S, NEW f \in [D -> S], NEW x \in S, NEW d
    PROVE  [f EXCEPT ![d] = x] \in [D -> S]
BY Zenon

\* The empty values are well-typed.
LEMMA EmptyTypes ==
    /\ EmptyMap \in IncidentMap
    /\ NoNotification \in Notification
    /\ NoMessage \in Message
    /\ ErrorUpdate \in Update
BY DEF EmptyMap, IncidentMap, NoNotification, Notification, NoMessage, Message,
       ErrorUpdate, Update, ItemMap

\* What a peer is told about a notification is a message.
LEMMA MessageType ==
    ASSUME NEW n \in Notification
    PROVE  MessageOf(n) \in Message
BY DEF MessageOf, Notification, Message

\* The system starts in a well-typed state.
LEMMA InitTypeOK == Init => TypeOK
<1>. SUFFICES ASSUME Init PROVE TypeOK
  OBVIOUS
<1>. USE EmptyTypes
<1>1. CoreTypeOK
  <2>1. updCh \in Seq(Update) /\ notifCh \in [Messengers -> Seq(Notification)]
    BY DEF Init, CoreInit
  <2>2. tracker \in [itemsOK : SUBSET ItemKey, itemsNotOK : IncidentMap]
    BY DEF Init, CoreInit, NewItemStatesTracker
  <2>3. board \in [time : Nat, total : IncidentMap]
    BY DEF Init, CoreInit
  <2>4. prepared \in 0..MaxUpdates /\ clock \in Nat /\ closeIdx \in Nat \ {0}
    BY CoreAssumption DEF Init, CoreInit
  <2>5. /\ coll \in [Collectors -> {"idle", "sending", "stopped"}]
        /\ collUpd \in [Collectors -> Update]
        /\ sendState \in [Messengers -> {"none", "start", "send"}]
    BY DEF Init, CoreInit
  <2>6. /\ updClosed \in BOOLEAN /\ shutdown \in BOOLEAN
        /\ teardown = {} /\ notifClosed = {} /\ tornDown = {}
        /\ runPc = "recv" /\ closePc = "open" /\ notif = NoNotification
    BY Zenon DEF Init, CoreInit
  <2>. QED  BY <2>1, <2>2, <2>3, <2>4, <2>5, <2>6 DEF CoreTypeOK
<1>2. WebTypeOK
  <2>1. queue \in [Conns -> Seq(Notification)]
    BY DEF Init, WebInit
  <2>. QED  BY Zenon, <2>1 DEF Init, WebInit, WebTypeOK
<1>3. logFile \in [Loggers -> LogContent] /\ written \in [Loggers -> SUBSET ItemKey]
  BY LoggerAssumption DEF Init, LoggerInit
<1>. QED  BY <1>1, <1>2, <1>3 DEF TypeOK

\* Every step of the core keeps its state well-typed.
LEMMA CoreStepTypeOK == CoreTypeOK /\ CoreNext => CoreTypeOK'
<1>. SUFFICES ASSUME CoreTypeOK, CoreNext PROVE CoreTypeOK'
  OBVIOUS
<1>. USE CoreAssumption, EmptyTypes
     DEF CoreTypeOK, collVars, runVars, closeVars, chanVars, coreVars
<1>1. ASSUME NEW c \in Collectors, CollectorPrepare(c) PROVE CoreTypeOK'
  BY <1>1 DEF CollectorPrepare
<1>2. ASSUME NEW c \in Collectors, CollectorSend(c) PROVE CoreTypeOK'
  BY <1>2 DEF CollectorSend
<1>3. ASSUME NEW c \in Collectors, CollectorStop(c) PROVE CoreTypeOK'
  BY Zenon, <1>3 DEF CollectorStop
<1>4. CASE RunError
  BY <1>4 DEF RunError
<1>5. CASE RunFeed
  <2>. DEFINE items == Head(updCh).items
  <2>0. updCh \in Seq(Update) /\ updCh # <<>>
    BY <1>5 DEF RunFeed
  <2>1. items \in ItemMap /\ Tail(updCh) \in Seq(Update)
    <3>1. Head(updCh) \in Update /\ Tail(updCh) \in Seq(Update)
      BY <2>0
    <3>. QED  BY <3>1 DEF Update
  <2>2. clock + 1 \in Nat
    OBVIOUS
  <2>. HIDE DEF items
  <2>3. /\ TrackerAfter(tracker, items, clock + 1)
                \in [itemsOK : SUBSET ItemKey, itemsNotOK : IncidentMap]
        /\ NotificationOf(tracker, items, clock + 1) \in Notification
    BY Zenon, <2>1, <2>2, TrackerType, NotificationType
  <2>4. /\ tracker' = TrackerAfter(tracker, items, clock + 1)
        /\ clock' = clock + 1
        /\ \/ /\ notif' = NotificationOf(tracker, items, clock + 1)
              /\ runPc' = "publish"
           \/ UNCHANGED <<notif, runPc>>
        /\ updCh' = Tail(updCh)
    BY <1>5 DEF RunFeed, items
  <2>5. UNCHANGED <<collVars, board, sendState, closeVars, tornDown,
                   updClosed, notifCh, notifClosed>>
    BY <1>5 DEF RunFeed
  <2>. QED  BY Zenon, <2>1, <2>2, <2>3, <2>4, <2>5
<1>6. CASE RunPublish
  <2>1. [time |-> notif.time, total |-> notif.total] \in [time : Nat, total : IncidentMap]
    BY DEF Notification
  <2>. QED  BY Zenon, <1>6, <2>1 DEF RunPublish
<1>7. ASSUME NEW m \in Messengers, SenderStart(m) PROVE CoreTypeOK'
  BY Zenon, <1>7 DEF SenderStart
<1>8. ASSUME NEW m \in Messengers, SenderDeliver(m) PROVE CoreTypeOK'
  <2>1. notifCh[m] \in Seq(Notification) /\ notif \in Notification
    BY Zenon
  <2>2. Append(notifCh[m], notif) \in Seq(Notification)
    BY <2>1
  <2>3. notifCh' \in [Messengers -> Seq(Notification)]
    BY Zenon, <1>8, <2>2, ExceptType DEF SenderDeliver
  <2>. QED  BY Zenon, <1>8, <2>3 DEF SenderDeliver
<1>9. ASSUME NEW m \in Messengers, SenderDrop(m) PROVE CoreTypeOK'
  BY SMTT(20), <1>9 DEF SenderDrop
<1>10. CASE RunSent
  BY Zenon, <1>10 DEF RunSent
<1>11. CASE RunDone
  BY Zenon, <1>11 DEF RunDone
<1>12. CASE CloseBegin
  BY Zenon, <1>12 DEF CloseBegin
<1>13. CASE CloseCollector
  BY <1>13 DEF CloseCollector
<1>14. CASE CollectorClosed
  BY <1>14 DEF CollectorClosed
<1>15. CASE CloseShutdown
  BY <1>15 DEF CloseShutdown
<1>16. CASE CloseUpdCh
  BY <1>16 DEF CloseUpdCh
<1>17. CASE CloseRunDone
  BY <1>17 DEF CloseRunDone
<1>18. CASE CloseMessenger
  <2>1. closeIdx \in Messengers
    BY <1>18 DEF CloseMessenger
  <2>. QED  BY SMTT(20), <1>18, <2>1 DEF CloseMessenger
<1>19. CASE MessengerClosed
  BY <1>19 DEF MessengerClosed
<1>20. CASE CloseReturn
  BY <1>20 DEF CloseReturn
<1>. QED
  BY Zenon, <1>1, <1>2, <1>3, <1>4, <1>5, <1>6, <1>7, <1>8, <1>9, <1>10, <1>11, <1>12,
     <1>13, <1>14, <1>15, <1>16, <1>17, <1>18, <1>19, <1>20
     DEF CoreNext, RunStep, SenderStep, CloseStep

\* A step that leaves the core alone keeps its state well-typed.
LEMMA CoreTypeFrame == CoreTypeOK /\ UNCHANGED coreVars => CoreTypeOK'
BY DEF CoreTypeOK, coreVars, collVars, runVars, closeVars, chanVars

\* So does a step that leaves the webserver alone.
LEMMA WebTypeFrame == WebTypeOK /\ UNCHANGED webVars => WebTypeOK'
BY DEF WebTypeOK, webVars, subVars, fanVars, txVars

\* Every step of a file logger keeps the state well-typed.
LEMMA LoggerStepTypeOK ==
    ASSUME TypeOK, NEW m \in Loggers, LoggerStep(m), UNCHANGED webVars
    PROVE  TypeOK'
<1>. USE LoggerAssumption
<1>1. m \in Messengers
  OBVIOUS
<1>2. WebTypeOK'
  BY WebTypeFrame DEF TypeOK
<1>3. CASE LoggerWrite(m)
  <2>. DEFINE n == Head(notifCh[m])
  <2>1. n \in Notification /\ Tail(notifCh[m]) \in Seq(Notification)
    <3>1. notifCh[m] \in Seq(Notification) /\ notifCh[m] # <<>>
      BY Zenon, <1>1, <1>3 DEF LoggerWrite, TypeOK, CoreTypeOK
    <3>. QED  BY <3>1
  <2>2. AppendLines(logFile[m], n) \in LogContent
    <3>1. /\ n.added \in IncidentMap /\ n.updated \in IncidentMap
          /\ logFile[m] \in LogContent
      BY Zenon, <2>1 DEF Notification, TypeOK
    <3>2. ASSUME NEW k \in ItemKey
          PROVE  /\ n.added[k] # Absent => n.added[k].item \in NonOK
                 /\ n.updated[k] # Absent => n.updated[k].item \in NonOK
      BY Zenon, <3>1 DEF IncidentMap, ItemWContext
    <3>. HIDE DEF n
    <3>. QED  BY <3>1, <3>2 DEF AppendLines, LogContent
  <2>3. CoreTypeOK'
    BY Zenon, <1>1, <1>3, <2>1 DEF LoggerWrite, TypeOK, CoreTypeOK,
            collVars, runVars, closeVars
  <2>4. logFile' \in [Loggers -> LogContent]
    BY Zenon, <1>3, <2>2 DEF LoggerWrite, TypeOK
  <2>5. written' \in [Loggers -> SUBSET ItemKey]
    <3>1. Keys(n.removed) \cup Keys(n.added) \cup Keys(n.updated) \subseteq ItemKey
      BY Zenon DEF Keys
    <3>2. /\ written \in [Loggers -> SUBSET ItemKey]
          /\ written' = [written EXCEPT ![m] =
                @ \cup Keys(n.removed) \cup Keys(n.added) \cup Keys(n.updated)]
      BY Zenon, <1>3 DEF LoggerWrite, TypeOK
    <3>. HIDE DEF n
    <3>. QED  BY <3>1, <3>2
  <2>. QED  BY Zenon, <1>2, <2>3, <2>4, <2>5 DEF TypeOK
<1>4. CASE LoggerTearDown(m)
  <2>1. CoreTypeOK'
    BY <1>1, <1>4 DEF LoggerTearDown, TypeOK, CoreTypeOK,
            collVars, runVars, closeVars, chanVars
  <2>. QED  BY <1>2, <1>4, <2>1 DEF LoggerTearDown, fileVars, TypeOK
<1>. QED  BY <1>3, <1>4 DEF LoggerStep

\* unsubscribe keeps the subscriptions well-typed.
LEMMA UnsubscribeType ==
    ASSUME WebTypeOK, NEW c \in Conns, NEW w \in {"run", "rx", "tx"}, Unsubscribe(c, w)
    PROVE  /\ subs' \subseteq Conns
           /\ removedBy' \in [Conns -> {"nobody", "run", "rx", "tx"}]
           /\ UNCHANGED <<closing, conn>>
BY DEF WebTypeOK, Unsubscribe

\* A send loop that returns leaves a well-typed state.
LEMMA TxReturnType ==
    ASSUME WebTypeOK, NEW c \in Conns, TxReturn(c)
    PROVE  WebTypeOK'
<1>1. /\ subs' \subseteq Conns
      /\ removedBy' \in [Conns -> {"nobody", "run", "rx", "tx"}]
      /\ UNCHANGED <<closing, conn>>
  BY UnsubscribeType DEF TxReturn
<1>2. queue' \in [Conns -> Seq(Notification)]
  <2>1. queue \in [Conns -> Seq(Notification)] /\ <<>> \in Seq(Notification)
    BY DEF WebTypeOK
  <2>. QED  BY <2>1, ExceptType DEF TxReturn
<1>3. txMsg' \in [Conns -> Message] /\ view' \in [Conns -> Message]
  <2>1. txMsg \in [Conns -> Message] /\ view \in [Conns -> Message]
    BY DEF WebTypeOK
  <2>. QED  BY <2>1, EmptyTypes, ExceptType DEF TxReturn
<1>4. txPc' \in [Conns -> {"off", "get", "snapshot", "loop", "write", "done"}]
  BY DEF WebTypeOK, TxReturn
<1>5. UNCHANGED <<webPc, serve, fanNotif, fanTodo, rxPc>>
  BY DEF TxReturn, fanVars
<1>. QED  BY <1>1, <1>2, <1>3, <1>4, <1>5 DEF WebTypeOK

\* Every step of the webserver keeps the state well-typed.
LEMMA WebStepTypeOK ==
    ASSUME TypeOK, WebNext
    PROVE  CoreTypeOK' /\ WebTypeOK'
<1>0. CoreTypeOK /\ WebTypeOK
  BY DEF TypeOK
<1>1. CASE FanReceive
  <2>1. notifCh[Web] \in Seq(Notification) /\ notifCh[Web] # <<>>
    BY <1>0, <1>1, WebAssumption DEF FanReceive, CoreTypeOK
  <2>2. Head(notifCh[Web]) \in Notification /\ Tail(notifCh[Web]) \in Seq(Notification)
    BY <2>1
  <2>3. notifCh' \in [Messengers -> Seq(Notification)]
    BY Zenon, <1>0, <1>1, <2>2 DEF FanReceive, CoreTypeOK
  <2>4. CoreTypeOK'
    BY Zenon, <1>0, <1>1, <2>3 DEF FanReceive, CoreTypeOK, collVars, runVars, closeVars
  <2>5. WebTypeOK'
    BY <1>0, <1>1, <2>2 DEF FanReceive, WebTypeOK, subVars, txVars
  <2>. QED  BY <2>4, <2>5
<1>2. ASSUME NEW c \in Conns, FanSend(c) PROVE WebTypeOK'
  <2>1. queue' \in [Conns -> Seq(Notification)]
    <3>1. queue \in [Conns -> Seq(Notification)] /\ fanNotif \in Notification
      BY <1>0 DEF WebTypeOK
    <3>2. Append(queue[c], fanNotif) \in Seq(Notification)
      BY <3>1
    <3>3. queue' \in {queue, [queue EXCEPT ![c] = Append(queue[c], fanNotif)]}
      BY <1>2 DEF FanSend
    <3>4. [queue EXCEPT ![c] = Append(queue[c], fanNotif)] \in [Conns -> Seq(Notification)]
      BY <3>1, <3>2, ExceptType
    <3>. QED  BY Zenon, <3>1, <3>3, <3>4
  <2>2. /\ subs' \subseteq Conns /\ UNCHANGED <<closing, conn>>
        /\ removedBy' \in [Conns -> {"nobody", "run", "rx", "tx"}]
    <3>1. CASE UNCHANGED subVars
      BY <1>0, <3>1 DEF WebTypeOK, subVars
    <3>2. CASE Unsubscribe(c, "run")
      BY <1>0, <3>2, UnsubscribeType
    <3>. QED  BY <1>2, <3>1, <3>2 DEF FanSend
  <2>3. fanTodo' \subseteq Conns /\ UNCHANGED <<webPc, serve, fanNotif, rxPc, txVars>>
    BY <1>0, <1>2 DEF FanSend, WebTypeOK
  <2>. QED  BY <1>0, <2>1, <2>2, <2>3 DEF WebTypeOK, txVars
<1>3. ASSUME FanDone PROVE WebTypeOK'
  <2>1. /\ webPc' = "recv" /\ fanNotif' = NoNotification
        /\ UNCHANGED <<subVars, serve, fanTodo, rxPc, txVars, queue>>
    BY <1>3 DEF FanDone
  <2>. QED  BY <1>0, <2>1, EmptyTypes DEF WebTypeOK, subVars, txVars
<1>4. ASSUME CloseAdmission PROVE WebTypeOK'
  <2>1. /\ closing' = TRUE /\ fanTodo' = subs /\ webPc' = "closing"
        /\ UNCHANGED <<subs, conn, removedBy, serve, fanNotif, rxPc, txVars, queue>>
    BY <1>4 DEF CloseAdmission
  <2>. QED  BY Zenon, <1>0, <2>1 DEF WebTypeOK, txVars
<1>5. ASSUME NEW c \in Conns, CloseConnection(c) PROVE WebTypeOK'
  <2>1. /\ subs' \subseteq Conns /\ UNCHANGED <<closing, conn>>
        /\ removedBy' \in [Conns -> {"nobody", "run", "rx", "tx"}]
    BY Zenon, <1>0, <1>5, UnsubscribeType DEF CloseConnection
  <2>. QED  BY <1>0, <1>5, <2>1 DEF CloseConnection, WebTypeOK, txVars
<1>6. ASSUME ServerClose PROVE WebTypeOK'
  <2>1. /\ webPc' = "done"
        /\ UNCHANGED <<subVars, serve, fanNotif, fanTodo, rxPc, txVars, queue>>
    BY Zenon, <1>6 DEF ServerClose
  <2>. QED  BY <1>0, <2>1 DEF WebTypeOK, subVars, txVars
<1>7. CASE ServeReturns
  <2>1. CoreTypeOK'
    BY <1>0, <1>7, WebAssumption DEF ServeReturns, CoreTypeOK, collVars, runVars,
       closeVars, chanVars
  <2>2. WebTypeOK'
    BY <1>0, <1>7 DEF ServeReturns, WebTypeOK, subVars, txVars
  <2>. QED  BY <2>1, <2>2
<1>8. ASSUME NEW c \in Conns, Accept(c) PROVE WebTypeOK'
  BY Zenon, <1>0, <1>8 DEF Accept, WebTypeOK, fanVars, txVars
<1>9. ASSUME NEW c \in Conns, Subscribe(c) PROVE WebTypeOK'
  BY <1>0, <1>9 DEF Subscribe, WebTypeOK, fanVars
<1>10. ASSUME NEW c \in Conns, Reject(c) PROVE WebTypeOK'
  BY Zenon, <1>0, <1>10 DEF Reject, WebTypeOK, fanVars, txVars
<1>11. ASSUME NEW c \in Conns, RxEnd(c) PROVE WebTypeOK'
  <2>1. /\ subs' \subseteq Conns /\ UNCHANGED <<closing, conn>>
        /\ removedBy' \in [Conns -> {"nobody", "run", "rx", "tx"}]
    BY <1>0, <1>11, UnsubscribeType DEF RxEnd
  <2>. QED  BY Zenon, <1>0, <1>11, <2>1 DEF RxEnd, WebTypeOK, fanVars, txVars
<1>12. ASSUME NEW c \in Conns, CancelAndClose(c) PROVE WebTypeOK'
  BY <1>0, <1>12 DEF CancelAndClose, WebTypeOK, fanVars, txVars
<1>13. ASSUME NEW c \in Conns, TxGet(c) PROVE WebTypeOK'
  <2>1. txMsg' \in [Conns -> Message]
    <3>1. board \in Message /\ txMsg \in [Conns -> Message]
      BY <1>0 DEF CoreTypeOK, WebTypeOK, Message
    <3>. QED  BY <1>13, <3>1, ExceptType DEF TxGet
  <2>. QED  BY <1>0, <1>13, <2>1 DEF TxGet, WebTypeOK, subVars, fanVars
<1>14. ASSUME NEW c \in Conns, TxTake(c) PROVE WebTypeOK'
  <2>0. queue \in [Conns -> Seq(Notification)] /\ txMsg \in [Conns -> Message]
    BY <1>0 DEF WebTypeOK
  <2>1. queue[c] \in Seq(Notification) /\ queue[c] # <<>>
    BY <1>14, <2>0 DEF TxTake
  <2>2. Head(queue[c]) \in Notification /\ Tail(queue[c]) \in Seq(Notification)
    BY <2>1
  <2>3. MessageOf(Head(queue[c])) \in Message
    BY ZenonT(40), <2>2, MessageType
  <2>4. txMsg' \in [Conns -> Message]
    BY Zenon, <1>14, <2>0, <2>3, ExceptType DEF TxTake, MessageOf
  <2>5. queue' \in [Conns -> Seq(Notification)]
    BY SMTT(20), <1>14, <2>0, <2>2, ExceptType DEF TxTake
  <2>. QED  BY <1>0, <1>14, <2>4, <2>5 DEF TxTake, WebTypeOK, subVars, fanVars
<1>15. ASSUME NEW c \in Conns, TxCancelled(c) \/ TxFail(c) PROVE WebTypeOK'
  BY Zenon, <1>0, <1>15, TxReturnType DEF TxCancelled, TxFail
<1>16. ASSUME NEW c \in Conns, TxWrite(c) PROVE WebTypeOK'
  <2>1. txMsg' \in [Conns -> Message] /\ view' \in [Conns -> Message]
    <3>1. /\ txMsg \in [Conns -> Message] /\ view \in [Conns -> Message]
          /\ txMsg[c] \in Message
      BY <1>0 DEF WebTypeOK
    <3>. QED  BY Zenon, <1>16, <3>1, EmptyTypes, ExceptType DEF TxWrite
  <2>. QED  BY Zenon, <1>0, <1>16, <2>1 DEF TxWrite, WebTypeOK, subVars, fanVars
<1>17. ASSUME ~FanReceive, ~ServeReturns PROVE UNCHANGED coreVars /\ WebTypeOK'
  <2>1. UNCHANGED coreVars
    BY Zenon, <1>17 DEF WebNext, FanStep, TxLocal, FanSend, FanDone, CloseAdmission,
            CloseConnection, ServerClose, Accept, Subscribe, Reject, RxEnd,
            CancelAndClose, TxGet, TxTake, TxCancelled, TxFail, TxReturn, TxWrite
  <2>2. WebTypeOK'
    BY <1>2, <1>3, <1>4, <1>5, <1>6, <1>8, <1>9, <1>10, <1>11, <1>12, <1>13,
       <1>14, <1>15, <1>16, <1>17 DEF WebNext, FanStep, TxLocal
  <2>. QED  BY Zenon, <2>1, <2>2
<1>. QED  BY <1>0, <1>1, <1>7, <1>17, CoreTypeFrame

\* Type correctness of the whole server is inductive.
LEMMA NextTypeOK == TypeOK /\ [Next]_vars => TypeOK'
<1>. SUFFICES ASSUME TypeOK, [Next]_vars PROVE TypeOK'
  OBVIOUS
<1>1. CASE CoreNext /\ UNCHANGED <<fileVars, webVars>>
  <2>1. CoreTypeOK'
    BY <1>1, CoreStepTypeOK DEF TypeOK
  <2>. QED
    BY <1>1, <2>1, WebTypeFrame DEF TypeOK, fileVars
<1>2. CASE (\E m \in Loggers : LoggerStep(m)) /\ UNCHANGED webVars
  BY <1>2, LoggerStepTypeOK
<1>3. CASE WebNext /\ UNCHANGED fileVars
  BY <1>3, WebStepTypeOK DEF TypeOK, fileVars
<1>4. CASE UNCHANGED vars
  BY <1>4, CoreTypeFrame, WebTypeFrame DEF TypeOK, vars, fileVars
<1>. QED  BY <1>1, <1>2, <1>3, <1>4 DEF Next

\* The server stays well-typed.
THEOREM TypeCorrect == Spec => []TypeOK
BY InitTypeOK, NextTypeOK, PTL DEF Spec

-----------------------------------------------------------------------------
(***************************************************************************)
(* The inductive invariant.                                                *)
(***************************************************************************)

\* The run goroutine: what the tracker, the pending notification and the
\* board have to do with each other at each of its steps.
RunInv ==
    /\ \A m \in Messengers : sendState[m] # "none" => runPc = "send"
    /\ runPc = "send" => MessageOf(notif) = board
    /\ runPc = "publish" => notif.total = tracker.itemsNotOK
    /\ BoardMatchesTracker

\* The order of Close: who has stopped at each of its steps.
CloseInv ==
    /\ closePc = "open" => closeIdx = 1 /\ ~shutdown /\ ~updClosed
    /\ closePc = "collectors" =>
            /\ \A c \in Collectors : c < closeIdx => coll[c] = "stopped"
            /\ shutdown => closeIdx > NumCollectors
            /\ ~updClosed
    /\ closePc \in {"run", "messengers", "closed"} =>
            shutdown /\ \A c \in Collectors : coll[c] = "stopped"
    /\ closePc \in {"messengers", "closed"} => runPc = "done"
    /\ notifClosed # {} => closePc \in {"messengers", "closed"}

\* The life of a connection.
ConnInv ==
    /\ \A c \in subs :
            conn[c] = "open" /\ txPc[c] \in {"get", "snapshot", "loop", "write"}
    /\ \A c \in Conns : removedBy[c] # "nobody" => conn[c] = "open" /\ c \notin subs
    /\ \A c \in Conns : conn[c] = "open" => c \in subs \/ removedBy[c] # "nobody"
    /\ \A c \in Conns : conn[c] \in {"none", "accepted"} =>
            c \notin fanTodo /\ queue[c] = <<>>

\* The end of the run goroutine of the webserver.
WebCloseInv ==
    /\ closing <=> webPc \in {"closing", "done"}
    /\ webPc = "closing" => subs \subseteq fanTodo
    /\ webPc = "done" => subs = {} /\ RunIsFree

\* The newest message in the messenger's channel is the board's.
ChannelInv ==
    ~shutdown /\ sendState[Web] = "none" /\ notifCh[Web] # <<>> =>
        MessageOf(LastOf(notifCh[Web])) = board

DeliveryInv == ChannelInv /\ NewestIsBoard

IInv == TypeOK /\ RunInv /\ CloseInv /\ ConnInv /\ WebCloseInv /\ DeliveryInv

\* The inductive invariant holds when the server starts.
LEMMA InitIInv == Init => IInv
<1>. SUFFICES ASSUME Init PROVE IInv
  OBVIOUS
<1>1. TypeOK
  BY Zenon, InitTypeOK
<1>2. RunInv
  BY DEF Init, CoreInit, RunInv, BoardMatchesTracker, NewItemStatesTracker
<1>3. CloseInv
  BY DEF Init, CoreInit, CloseInv
<1>4. ConnInv
  BY DEF Init, WebInit, ConnInv
<1>5. WebCloseInv
  BY Zenon DEF Init, WebInit, WebCloseInv
<1>6. DeliveryInv
  BY Zenon, WebAssumption DEF Init, CoreInit, WebInit, DeliveryInv, ChannelInv, NewestIsBoard
<1>. QED  BY <1>1, <1>2, <1>3, <1>4, <1>5, <1>6 DEF IInv

\* What a file logger leaves alone.
LEMMA LoggerFrame ==
    ASSUME NEW m \in Loggers, LoggerStep(m)
    PROVE  /\ UNCHANGED <<collVars, runVars, closeVars, updCh, updClosed, notifClosed>>
           /\ notifCh'[Web] = notifCh[Web] \/ notifCh \notin [Messengers -> Seq(Notification)]
BY Zenon, ServerAssumption, WebAssumption, LoggerAssumption
   DEF LoggerStep, LoggerWrite, LoggerTearDown, chanVars

\* What the webserver leaves alone.
LEMMA WebFrame ==
    ASSUME WebNext
    PROVE  UNCHANGED <<collVars, runVars, closeVars, updCh, updClosed, notifClosed>>
BY Zenon DEF WebNext, FanStep, FanReceive, FanSend, FanDone, CloseAdmission, CloseConnection,
       ServerClose, ServeReturns, Accept, Subscribe, Reject, RxEnd, CancelAndClose,
       TxLocal, TxGet, TxTake, TxCancelled, TxWrite, TxFail, TxReturn,
       coreVars, chanVars

-----------------------------------------------------------------------------
\* Only the run goroutine and its senders touch what RunInv is about.
LEMMA RunInvStep ==
    ASSUME TypeOK, RunInv, [Next]_vars
    PROVE  RunInv'
<1>1. ASSUME UNCHANGED runVars PROVE RunInv'
  BY Zenon, <1>1 DEF RunInv, BoardMatchesTracker, runVars
<1>2. CASE RunFeed
  <2>. DEFINE items == Head(updCh).items
              old == tracker.itemsNotOK
  <2>1. items \in ItemMap
    <3>1. updCh \in Seq(Update) /\ updCh # <<>>
      BY <1>2 DEF RunFeed, TypeOK, CoreTypeOK
    <3>2. Head(updCh) \in Update
      BY <3>1
    <3>. QED  BY Zenon, <3>2 DEF Update
  <2>2. /\ tracker \in [itemsOK : SUBSET ItemKey, itemsNotOK : IncidentMap]
        /\ old \in IncidentMap /\ clock + 1 \in Nat
    BY DEF TypeOK, CoreTypeOK
  <2>3. /\ runPc = "recv"
        /\ tracker' = TrackerAfter(tracker, items, clock + 1)
        /\ UNCHANGED <<board, sendState>>
        /\ \/ /\ notif' = NotificationOf(tracker, items, clock + 1)
              /\ runPc' = "publish"
           \/ /\ ~HasChanges(old, items)
              /\ UNCHANGED <<notif, runPc>>
    BY Zenon, <1>2 DEF RunFeed
  <2>. HIDE DEF items
  <2>4. tracker'.itemsOK \cap Keys(tracker'.itemsNotOK) = {}
    BY Zenon, <2>1, <2>2, <2>3, FeedKeepsDisjoint DEF RunInv, BoardMatchesTracker
  <2>5. tracker'.itemsNotOK = NotOKAfter(old, items, clock + 1)
    BY Zenon, <2>3 DEF TrackerAfter
  <2>6. CASE /\ notif' = NotificationOf(tracker, items, clock + 1)
             /\ runPc' = "publish"
    <3>1. notif'.total = tracker'.itemsNotOK
      BY Zenon, <2>5, <2>6 DEF NotificationOf
    <3>2. Keys(tracker.itemsNotOK)' = Keys(tracker'.itemsNotOK)
      BY ZenonT(40) DEF Keys
    <3>. QED  BY Zenon, <2>3, <2>4, <2>6, <3>1, <3>2 DEF RunInv, BoardMatchesTracker
  <2>7. CASE ~HasChanges(old, items) /\ UNCHANGED <<notif, runPc>>
    <3>1. tracker'.itemsNotOK = old
      BY Zenon, <2>1, <2>2, <2>5, <2>7, SilentMeansUnchanged
    <3>. QED  BY Zenon, <2>3, <2>4, <2>7, <3>1 DEF RunInv, BoardMatchesTracker
  <2>. QED  BY <2>3, <2>6, <2>7
<1>3. CASE RunPublish
  BY Zenon, <1>3 DEF RunPublish, RunInv, BoardMatchesTracker, MessageOf
<1>4. ASSUME NEW m \in Messengers, SenderStep(m) PROVE RunInv'
  BY Zenon, <1>4 DEF SenderStep, SenderStart, SenderDeliver, SenderDrop, TypeOK, CoreTypeOK,
          RunInv, BoardMatchesTracker
<1>5. CASE RunSent
  BY Zenon, <1>5 DEF RunSent, RunInv, BoardMatchesTracker
<1>6. CASE RunDone
  BY ZenonT(40), <1>6 DEF RunDone, RunInv, BoardMatchesTracker
<1>7. CASE CoreNext
  BY Zenon, <1>1, <1>2, <1>3, <1>4, <1>5, <1>6, <1>7
     DEF CoreNext, RunStep, RunError, CollectorPrepare, CollectorSend, CollectorStop,
         CloseBegin, CloseStep, CloseCollector, CollectorClosed, CloseShutdown,
         CloseUpdCh, CloseRunDone, CloseMessenger, MessengerClosed, CloseReturn
<1>8. CASE \E m \in Loggers : LoggerStep(m)
  BY <1>1, <1>8, LoggerFrame
<1>9. CASE WebNext
  BY <1>1, <1>9, WebFrame
<1>10. CASE UNCHANGED vars
  BY Zenon, <1>1, <1>10 DEF vars, coreVars
<1>. QED  BY <1>7, <1>8, <1>9, <1>10 DEF Next

\* Close waits for each part before it closes the channel that part sends on.
LEMMA CloseInvStep ==
    ASSUME TypeOK, CloseInv, [Next]_vars
    PROVE  CloseInv'
<1>. USE CoreAssumption DEF CloseInv
<1>1. ASSUME UNCHANGED <<coll, runPc, closeVars, updClosed, notifClosed>> PROVE CloseInv'
  BY Zenon, <1>1 DEF closeVars
<1>2. ASSUME NEW c \in Collectors,
             CollectorPrepare(c) \/ CollectorSend(c) \/ CollectorStop(c)
      PROVE  CloseInv'
  <2>1. UNCHANGED <<runPc, closePc, closeIdx, shutdown, updClosed, notifClosed>>
    BY <1>2 DEF CollectorPrepare, CollectorSend, CollectorStop, runVars, closeVars, chanVars
  <2>2. ASSUME NEW d \in Collectors, coll[d] = "stopped" PROVE coll'[d] = "stopped"
    <3>1. coll \in [Collectors -> {"idle", "sending", "stopped"}]
      BY Zenon DEF TypeOK, CoreTypeOK
    <3>2. CASE CollectorPrepare(c)
      BY Zenon, <2>2, <3>1, <3>2 DEF CollectorPrepare
    <3>3. CASE CollectorSend(c)
      BY <2>2, <3>1, <3>3 DEF CollectorSend
    <3>4. CASE CollectorStop(c)
      BY Zenon, <2>2, <3>1, <3>4 DEF CollectorStop
    <3>. QED  BY Zenon, <1>2, <3>2, <3>3, <3>4
  <2>. QED  BY ZenonT(40), <2>1, <2>2
<1>3. CASE RunStep
  <2>1. UNCHANGED <<coll, closePc, closeIdx, shutdown, updClosed, notifClosed>>
    BY Zenon, <1>3 DEF RunStep, RunError, RunFeed, RunPublish, RunSent, RunDone,
            collVars, closeVars, chanVars
  <2>2. runPc = "done" => runPc' = "done"
    BY Zenon, <1>3 DEF RunStep, RunError, RunFeed, RunPublish, RunSent, RunDone
  <2>. QED  BY Zenon, <2>1, <2>2
<1>4. ASSUME NEW m \in Messengers, SenderStep(m) PROVE CloseInv'
  BY Zenon, <1>1, <1>4 DEF SenderStep, SenderStart, SenderDeliver, SenderDrop, collVars,
     chanVars
<1>5. CASE CloseBegin
  BY <1>5 DEF CloseBegin, collVars, runVars, chanVars
<1>6. CASE CloseCollector
  BY Zenon, <1>6 DEF CloseCollector, runVars, closeVars, chanVars
<1>7. CASE CollectorClosed
  <2>1. ASSUME NEW c \in Collectors, c < closeIdx + 1 PROVE coll[c] = "stopped"
    BY <1>7, <2>1 DEF CollectorClosed, TypeOK, CoreTypeOK
  <2>2. shutdown => closeIdx + 1 > NumCollectors
    BY <1>7 DEF CollectorClosed, TypeOK, CoreTypeOK
  <2>. QED  BY Zenon, <1>7, <2>1, <2>2 DEF CollectorClosed, collVars, runVars, chanVars
<1>8. CASE CloseShutdown
  BY Zenon, <1>8 DEF CloseShutdown, collVars, runVars, chanVars
<1>9. CASE CloseUpdCh
  <2>1. ASSUME NEW c \in Collectors PROVE coll[c] = "stopped"
    <3>1. closeIdx > NumCollectors /\ closePc = "collectors"
      BY Zenon, <1>9 DEF CloseUpdCh
    <3>2. closeIdx \in Nat
      BY Zenon DEF TypeOK, CoreTypeOK
    <3>. QED  BY <3>1, <3>2
  <2>. QED  BY <1>9, <2>1 DEF CloseUpdCh, collVars, runVars
<1>10. CASE CloseRunDone
  BY Zenon, <1>10 DEF CloseRunDone, collVars, runVars, chanVars
<1>11. CASE CloseMessenger
  BY Zenon, <1>11 DEF CloseMessenger, collVars, runVars, closeVars
<1>12. CASE MessengerClosed
  BY Zenon, <1>12 DEF MessengerClosed, collVars, runVars, chanVars
<1>13. CASE CloseReturn
  BY Zenon, <1>13 DEF CloseReturn, collVars, runVars, chanVars
<1>14. CASE CoreNext
  BY Zenon, <1>2, <1>3, <1>4, <1>5, <1>6, <1>7, <1>8, <1>9, <1>10, <1>11, <1>12, <1>13, <1>14
     DEF CoreNext, CloseStep
<1>15. CASE \E m \in Loggers : LoggerStep(m)
  BY Zenon, <1>1, <1>15, LoggerFrame DEF collVars, runVars
<1>16. CASE WebNext
  BY Zenon, <1>1, <1>16, WebFrame DEF collVars, runVars
<1>17. CASE UNCHANGED vars
  BY <1>1, <1>17 DEF vars, coreVars, collVars, runVars, chanVars
<1>. QED  BY Zenon, <1>14, <1>15, <1>16, <1>17 DEF Next

\* Only the webserver touches the connections.
LEMMA WebOnly ==
    ASSUME [Next]_vars
    PROVE  WebNext \/ UNCHANGED webVars
BY Zenon DEF Next, vars

\* A connection is registered, then removed by one caller, then closed by it.
LEMMA ConnInvStep ==
    ASSUME TypeOK, ConnInv, [Next]_vars
    PROVE  ConnInv'
<1>. USE DEF ConnInv, TypeOK, WebTypeOK, subVars, fanVars, txVars, webVars, Unsubscribe
<1>1. CASE UNCHANGED webVars
  BY Zenon, <1>1
<1>2. CASE FanReceive
  BY Zenon, <1>2 DEF FanReceive
<1>3. ASSUME NEW c \in Conns, FanSend(c) PROVE ConnInv'
  <2>1. /\ c \in fanTodo /\ fanTodo' = fanTodo \ {c}
        /\ UNCHANGED <<conn, txPc>>
        /\ conn[c] \notin {"none", "accepted"}
    BY Zenon, <1>3 DEF FanSend
  <2>2. CASE /\ UNCHANGED subVars
             /\ UNCHANGED queue \/ queue' = [queue EXCEPT ![c] = Append(@, fanNotif)]
    BY <2>1, <2>2
  <2>3. CASE conn[c] # "closed" /\ Unsubscribe(c, "run") /\ UNCHANGED queue
    BY <2>1, <2>3
  <2>. QED  BY Zenon, <1>3, <2>2, <2>3 DEF FanSend
<1>4. CASE FanDone
  BY Zenon, <1>4 DEF FanDone
<1>5. CASE CloseAdmission
  BY Zenon, <1>5 DEF CloseAdmission
<1>6. ASSUME NEW c \in Conns, CloseConnection(c) PROVE ConnInv'
  BY <1>6 DEF CloseConnection
<1>7. CASE ServerClose
  BY Zenon, <1>7 DEF ServerClose
<1>8. CASE ServeReturns
  BY Zenon, <1>8 DEF ServeReturns
<1>9. ASSUME NEW c \in Conns, Accept(c) PROVE ConnInv'
  BY <1>9 DEF Accept
<1>10. ASSUME NEW c \in Conns, Subscribe(c) PROVE ConnInv'
  BY SMTT(30), <1>10 DEF Subscribe
<1>11. ASSUME NEW c \in Conns, Reject(c) PROVE ConnInv'
  BY SMTT(20), <1>11 DEF Reject
<1>12. ASSUME NEW c \in Conns, RxEnd(c) PROVE ConnInv'
  BY ZenonT(40), <1>12 DEF RxEnd
<1>13. ASSUME NEW c \in Conns, CancelAndClose(c) PROVE ConnInv'
  BY SMTT(20), <1>13 DEF CancelAndClose
<1>14. ASSUME NEW c \in Conns, TxGet(c) PROVE ConnInv'
  BY Zenon, <1>14 DEF TxGet
<1>15. ASSUME NEW c \in Conns, TxTake(c) PROVE ConnInv'
  BY ZenonT(40), <1>15 DEF TxTake
<1>16. ASSUME NEW c \in Conns, TxReturn(c), txPc[c] \in {"snapshot", "loop", "write"}
       PROVE  ConnInv'
  <2>1. /\ subs' = subs \ {c} /\ UNCHANGED <<conn, fanTodo>>
        /\ txPc' = [txPc EXCEPT ![c] = "done"]
        /\ queue' = [queue EXCEPT ![c] = <<>>]
        /\ removedBy' = IF c \in subs THEN [removedBy EXCEPT ![c] = "tx"] ELSE removedBy
    BY Zenon, <1>16 DEF TxReturn
  <2>. QED  BY <2>1
<1>17. ASSUME NEW c \in Conns, TxWrite(c) PROVE ConnInv'
  BY Zenon, <1>17 DEF TxWrite
<1>18. ASSUME NEW c \in Conns, TxCancelled(c) \/ TxFail(c) PROVE ConnInv'
  BY Zenon, <1>16, <1>18 DEF TxCancelled, TxFail
<1>. QED
  BY Zenon, <1>1, <1>2, <1>3, <1>4, <1>5, <1>6, <1>7, <1>8, <1>9, <1>10, <1>11, <1>12,
     <1>13, <1>14, <1>15, <1>16, <1>17, <1>18, WebOnly
     DEF WebNext, FanStep, TxLocal

\* Admission is closed before the connections to close are listed.
LEMMA WebCloseInvStep ==
    ASSUME TypeOK, ConnInv, WebCloseInv, [Next]_vars
    PROVE  WebCloseInv'
<1>. USE DEF WebCloseInv, ConnInv, RunIsFree, TypeOK, WebTypeOK, subVars, fanVars,
        txVars, webVars, Unsubscribe
<1>1. CASE UNCHANGED webVars
  BY Zenon, <1>1
<1>2. CASE FanReceive
  BY Zenon, <1>2 DEF FanReceive
<1>3. ASSUME NEW c \in Conns, FanSend(c) PROVE WebCloseInv'
  <2>1. webPc = "fanout" /\ UNCHANGED <<webPc, closing>>
    BY Zenon, <1>3 DEF FanSend
  <2>. QED  BY Zenon, <2>1
<1>4. CASE FanDone
  BY Zenon, <1>4 DEF FanDone
<1>5. CASE CloseAdmission
  BY Zenon, <1>5 DEF CloseAdmission
<1>6. ASSUME NEW c \in Conns, CloseConnection(c) PROVE WebCloseInv'
  BY Zenon, <1>6 DEF CloseConnection
<1>7. CASE ServerClose
  BY Zenon, <1>7 DEF ServerClose
<1>8. CASE ServeReturns
  BY Zenon, <1>8 DEF ServeReturns
<1>9. ASSUME NEW c \in Conns, Accept(c) PROVE WebCloseInv'
  BY Zenon, <1>9 DEF Accept
<1>10. ASSUME NEW c \in Conns, Subscribe(c) PROVE WebCloseInv'
  BY Zenon, <1>10 DEF Subscribe
<1>11. ASSUME NEW c \in Conns, Reject(c) PROVE WebCloseInv'
  BY Zenon, <1>11 DEF Reject
<1>12. ASSUME NEW c \in Conns, RxEnd(c) PROVE WebCloseInv'
  BY Zenon, <1>12 DEF RxEnd
<1>13. ASSUME NEW c \in Conns, CancelAndClose(c) PROVE WebCloseInv'
  BY <1>13 DEF CancelAndClose
<1>14. ASSUME NEW c \in Conns, TxGet(c) PROVE WebCloseInv'
  BY Zenon, <1>14 DEF TxGet
<1>15. ASSUME NEW c \in Conns, TxTake(c) PROVE WebCloseInv'
  BY Zenon, <1>15 DEF TxTake
<1>16. ASSUME NEW c \in Conns, TxCancelled(c) PROVE WebCloseInv'
  BY Zenon, <1>16 DEF TxCancelled, TxReturn
<1>17. ASSUME NEW c \in Conns, TxWrite(c) PROVE WebCloseInv'
  BY Zenon, <1>17 DEF TxWrite
<1>18. ASSUME NEW c \in Conns, TxFail(c) PROVE WebCloseInv'
  BY <1>18 DEF TxFail, TxReturn
<1>. QED
  BY Zenon, <1>1, <1>2, <1>3, <1>4, <1>5, <1>6, <1>7, <1>8, <1>9, <1>10, <1>11, <1>12,
     <1>13, <1>14, <1>15, <1>16, <1>17, <1>18, WebOnly
     DEF WebNext, FanStep, TxLocal

-----------------------------------------------------------------------------
(***************************************************************************)
(* Delivery.  The newest message moves along: from the core's senders to   *)
(* the channel, the fan-out, the queue and the send loop; a new subscriber *)
(* starts with the board.                                                  *)
(***************************************************************************)

\* Nothing that the newest message depends on changed.
DeliveryState == <<shutdown, sendState[Web], notif, board, notifCh[Web], subs,
                   webPc, fanTodo, fanNotif, queue, txPc, txMsg, view>>

\* An appended message is the last one.
LEMMA AppendLast ==
    ASSUME NEW S, NEW s \in Seq(S), NEW e \in S
    PROVE  Append(s, e) # <<>> /\ LastOf(Append(s, e)) = e
<1>1. Len(s) \in Nat
  OBVIOUS
<1>2. Len(Append(s, e)) = Len(s) + 1 /\ Append(s, e)[Len(s) + 1] = e
  BY <1>1
<1>3. Append(s, e) # <<>>
  BY <1>1
<1>. QED  BY Zenon, <1>2, <1>3 DEF LastOf

\* Steps that change nothing on the way to the peers.
LEMMA DeliveryStutter ==
    ASSUME DeliveryInv, UNCHANGED DeliveryState
    PROVE  DeliveryInv'
<1>1. ChannelInv'
  BY Zenon DEF DeliveryInv, ChannelInv, DeliveryState, LastOf, MessageOf
<1>2. subs' = subs /\ board' = board /\ shutdown' = shutdown
  BY Zenon DEF DeliveryState
<1>3. ASSUME NEW c PROVE Newest(c)' = Newest(c)
  BY Zenon DEF Newest, DeliveryState, LastOf, MessageOf
<1>. QED  BY Zenon, <1>1, <1>2, <1>3 DEF DeliveryInv, NewestIsBoard

\* Steps of the core.
LEMMA DeliveryCore ==
    ASSUME IInv, CoreNext, UNCHANGED webVars
    PROVE  DeliveryInv'
<1>. USE WebAssumption
<1>0. UNCHANGED <<subs, webPc, fanTodo, fanNotif, queue, txPc, txMsg, view>>
  BY Zenon DEF webVars, subVars, fanVars, txVars
<1>1. ASSUME UNCHANGED <<shutdown, sendState, notif, board, notifCh>> PROVE DeliveryInv'
  BY Zenon, <1>0, <1>1, DeliveryStutter DEF IInv, DeliveryState
<1>2. CASE RunFeed
  <2>1. sendState[Web] = "none"
    BY Zenon, <1>2 DEF RunFeed, IInv, RunInv, TypeOK, CoreTypeOK
  <2>2. UNCHANGED <<shutdown, sendState, board, notifCh>>
    BY Zenon, <1>2 DEF RunFeed, closeVars
  <2>. QED
    BY Zenon, <1>0, <2>1, <2>2 DEF IInv, DeliveryInv, ChannelInv, NewestIsBoard, Newest,
            LastOf, MessageOf
<1>3. CASE RunPublish
  <2>1. sendState'[Web] = "start" /\ board' = MessageOf(notif) /\ notif' = notif
    BY Zenon, <1>3 DEF RunPublish, MessageOf
  <2>. QED
    BY Zenon, <2>1 DEF DeliveryInv, ChannelInv, NewestIsBoard, Newest, MessageOf
<1>4. ASSUME NEW m \in Messengers, SenderStart(m) PROVE DeliveryInv'
  <2>1. UNCHANGED <<shutdown, notif, board, notifCh>>
    BY Zenon, <1>4 DEF SenderStart, closeVars, chanVars
  <2>2. ~shutdown => (sendState'[Web] = "none" <=> sendState[Web] = "none")
    BY <1>4 DEF SenderStart, IInv, TypeOK, CoreTypeOK
  <2>. QED
    BY Zenon, <1>0, <2>1, <2>2 DEF IInv, DeliveryInv, ChannelInv, NewestIsBoard, Newest,
            LastOf, MessageOf
<1>5. ASSUME NEW m \in Messengers, SenderDeliver(m) PROVE DeliveryInv'
  <2>1. UNCHANGED <<shutdown, notif, board>>
    BY Zenon, <1>5 DEF SenderDeliver, closeVars
  <2>2. CASE m # Web
    <3>1. UNCHANGED <<sendState[Web], notifCh[Web]>>
      BY Zenon, <1>5, <2>2 DEF SenderDeliver, IInv, TypeOK, CoreTypeOK
    <3>. QED
      BY Zenon, <1>0, <2>1, <3>1, DeliveryStutter DEF IInv, DeliveryState
  <2>3. CASE m = Web
    <3>1. notifCh[Web] \in Seq(Notification) /\ notif \in Notification
      BY Zenon DEF IInv, TypeOK, CoreTypeOK
    <3>2. notifCh'[Web] = Append(notifCh[Web], notif) /\ sendState'[Web] = "none"
      BY Zenon, <1>5, <2>3 DEF SenderDeliver, IInv, TypeOK, CoreTypeOK
    <3>3. notifCh'[Web] # <<>> /\ LastOf(notifCh'[Web]) = notif
      BY ZenonT(40), <3>1, <3>2, AppendLast
    <3>4. MessageOf(notif) = board
      BY Zenon, <1>5, <2>3 DEF SenderDeliver, IInv, RunInv
    <3>. QED
      BY Zenon, <2>1, <3>2, <3>3, <3>4 DEF DeliveryInv, ChannelInv, NewestIsBoard, Newest,
              LastOf, MessageOf
  <2>. QED  BY Zenon, <2>2, <2>3
<1>6. ASSUME NEW m \in Messengers, SenderDrop(m) PROVE DeliveryInv'
  BY Zenon, <1>6 DEF SenderDrop, closeVars, DeliveryInv, ChannelInv, NewestIsBoard
<1>7. CASE RunSent
  <2>1. sendState[Web] = "none" /\ UNCHANGED <<shutdown, sendState, board, notifCh>>
    BY Zenon, <1>7 DEF RunSent, closeVars, chanVars
  <2>. QED
    BY Zenon, <1>0, <2>1 DEF IInv, DeliveryInv, ChannelInv, NewestIsBoard, Newest,
            LastOf, MessageOf
<1>8. CASE CloseShutdown
  BY <1>8 DEF CloseShutdown, DeliveryInv, ChannelInv, NewestIsBoard
<1>. QED
  BY Zenon, <1>1, <1>2, <1>3, <1>4, <1>5, <1>6, <1>7, <1>8
     DEF CoreNext, RunStep, SenderStep, RunError, RunDone, CollectorPrepare, CollectorSend,
         CollectorStop, CloseBegin, CloseStep, CloseCollector, CollectorClosed, CloseUpdCh,
         CloseRunDone, CloseMessenger, MessengerClosed, CloseReturn,
         runVars, closeVars, chanVars

\* Facts about sequences the queues need.
LEMMA HeadTailLast ==
    ASSUME NEW S, NEW s \in Seq(S), s # <<>>
    PROVE  /\ Tail(s) = <<>> => LastOf(s) = Head(s)
           /\ Tail(s) # <<>> => LastOf(Tail(s)) = LastOf(s)
<1>1. Len(s) \in Nat /\ Len(s) > 0
  OBVIOUS
<1>2. Head(s) = s[1]
  BY <1>1
<1>3. Tail(s) \in Seq(S) /\ Len(Tail(s)) = Len(s) - 1
  BY <1>1
<1>4. Tail(s) = <<>> => Len(s) = 1
  <2>1. \A t \in Seq(S) : t = <<>> => Len(t) = 0
    OBVIOUS
  <2>. DEFINE t == Tail(s)
  <2>2. t \in Seq(S) /\ Len(t) = Len(s) - 1
    BY <1>3
  <2>. HIDE DEF t
  <2>3. t = <<>> => Len(s) = 1
    BY <1>1, <2>1, <2>2
  <2>. QED  BY <2>3 DEF t
<1>5. ASSUME Tail(s) # <<>> PROVE Tail(s)[Len(s) - 1] = s[Len(s)]
  <2>1. Len(s) - 1 \in 1..Len(Tail(s))
    BY <1>1, <1>3, <1>5
  <2>. QED  BY <1>1, <1>3, <2>1
<1>6. Tail(s) # <<>> => LastOf(Tail(s)) = LastOf(s)
  BY <1>3, <1>5 DEF LastOf
<1>7. Tail(s) = <<>> => LastOf(s) = Head(s)
  BY <1>2, <1>4 DEF LastOf
<1>. QED  BY <1>6, <1>7

\* Steps of the webserver.
LEMMA DeliveryWeb ==
    ASSUME IInv, WebNext
    PROVE  DeliveryInv'
<1>. USE WebAssumption
<1>0. UNCHANGED <<shutdown, sendState, notif, board>>
  BY WebFrame DEF closeVars, runVars
<1>1. ASSUME UNCHANGED DeliveryState PROVE DeliveryInv'
  BY Zenon, <1>1, DeliveryStutter DEF IInv
<1>2. ASSUME UNCHANGED <<notifCh, webPc, fanTodo, fanNotif, queue, txPc, txMsg, view>>,
             subs' \subseteq subs
      PROVE  DeliveryInv'
  BY Zenon, <1>0, <1>2 DEF IInv, DeliveryInv, ChannelInv, NewestIsBoard, Newest, LastOf,
     MessageOf
<1>3. CASE FanReceive
  <2>. DEFINE ch == notifCh[Web]
  <2>1. ch \in Seq(Notification) /\ ch # <<>>
    BY Zenon, <1>3 DEF FanReceive, IInv, TypeOK, CoreTypeOK
  <2>2. /\ webPc = "recv" /\ webPc' = "fanout"
        /\ fanNotif' = Head(ch) /\ fanTodo' = subs
        /\ UNCHANGED <<subs, queue, txPc, txMsg, view>>
    BY Zenon, <1>3 DEF FanReceive, subVars, txVars
  <2>3. notifCh'[Web] = Tail(ch)
    BY Zenon, <1>3 DEF FanReceive, IInv, TypeOK, CoreTypeOK
  <2>4. /\ Tail(ch) = <<>> => LastOf(ch) = Head(ch)
        /\ Tail(ch) # <<>> => LastOf(Tail(ch)) = LastOf(ch)
    BY Zenon, <2>1, HeadTailLast
  <2>5. ~shutdown /\ sendState[Web] = "none" => MessageOf(LastOf(ch)) = board
    BY ZenonT(40), <2>1 DEF IInv, DeliveryInv, ChannelInv
  <2>. HIDE DEF ch
  <2>6. ChannelInv'
    BY <1>0, <2>3, <2>4, <2>5 DEF ChannelInv, MessageOf, LastOf
  <2>7. ASSUME ~shutdown, NEW c \in subs PROVE Newest(c)' = board
    <3>1. CASE sendState[Web] # "none"
      BY Zenon, <1>0, <2>7, <3>1 DEF Newest, MessageOf, IInv, DeliveryInv, NewestIsBoard
    <3>2. CASE sendState[Web] = "none" /\ Tail(ch) # <<>>
      BY Zenon, <1>0, <2>3, <2>4, <2>5, <2>7, <3>2 DEF Newest, MessageOf, LastOf
    <3>3. CASE sendState[Web] = "none" /\ Tail(ch) = <<>>
      BY Zenon, <1>0, <2>2, <2>3, <2>4, <2>5, <2>7, <3>3 DEF Newest, MessageOf, LastOf
    <3>. QED  BY Zenon, <3>1, <3>2, <3>3
  <2>. QED  BY Zenon, <1>0, <2>2, <2>6, <2>7 DEF DeliveryInv, NewestIsBoard
<1>4. ASSUME NEW c \in Conns, FanSend(c) PROVE DeliveryInv'
  <2>1. /\ webPc = "fanout" /\ c \in fanTodo /\ fanTodo' = fanTodo \ {c}
        /\ UNCHANGED <<notifCh, webPc, fanNotif, txPc, txMsg, view>>
    BY Zenon, <1>4 DEF FanSend, coreVars, chanVars, txVars
  <2>2. ChannelInv'
    BY ZenonT(40), <1>0, <2>1 DEF IInv, DeliveryInv, ChannelInv, MessageOf, LastOf
  <2>3. CASE UNCHANGED queue /\ c \notin subs' /\ subs' \subseteq subs
    BY Zenon, <1>0, <2>1, <2>2, <2>3 DEF IInv, DeliveryInv, NewestIsBoard, Newest, LastOf, MessageOf
  <2>4. CASE queue' = [queue EXCEPT ![c] = Append(@, fanNotif)] /\ UNCHANGED subs
    <3>1. queue \in [Conns -> Seq(Notification)] /\ fanNotif \in Notification
      BY DEF IInv, TypeOK, WebTypeOK
    <3>2. queue'[c] # <<>> /\ LastOf(queue'[c]) = fanNotif
      BY <2>4, <3>1, AppendLast
    <3>3. ASSUME ~shutdown, NEW d \in subs PROVE Newest(d)' = board
      <4>1. Newest(d) = board
        BY Zenon, <3>3 DEF IInv, DeliveryInv, NewestIsBoard
      <4>2. CASE d = c
        BY Zenon, <1>0, <2>1, <3>2, <4>1, <4>2 DEF Newest, MessageOf, LastOf
      <4>3. CASE d # c
        <5>1. d \in Conns /\ queue'[d] = queue[d]
          BY Zenon, <2>4, <3>1, <3>3, <4>3 DEF IInv, TypeOK, WebTypeOK
        <5>. QED  BY Zenon, <1>0, <2>1, <4>1, <4>3, <5>1 DEF Newest, MessageOf, LastOf
      <4>. QED  BY <4>2, <4>3
    <3>. QED  BY Zenon, <1>0, <2>2, <2>4, <3>3 DEF DeliveryInv, NewestIsBoard
  <2>5. conn[c] = "closed" => c \notin subs
    BY Zenon DEF IInv, ConnInv
  <2>. QED  BY Zenon, <1>4, <2>3, <2>4, <2>5 DEF FanSend, Unsubscribe, subVars
<1>5. CASE FanDone
  <2>1. webPc = "fanout" /\ fanTodo = {} /\ webPc' = "recv"
        /\ UNCHANGED <<notifCh, subs, fanTodo, queue, txPc, txMsg, view>>
    BY Zenon, <1>5 DEF FanDone, coreVars, chanVars, txVars, subVars
  <2>. QED
    BY Zenon, <1>0, <2>1 DEF IInv, DeliveryInv, ChannelInv, NewestIsBoard, Newest, LastOf,
       MessageOf
<1>6. ASSUME webPc \in {"recv", "closing"}, webPc' \in {"closing", "done"},
             UNCHANGED <<notifCh, queue, txPc, txMsg, view>>, subs' \subseteq subs
      PROVE  DeliveryInv'
  BY Zenon, <1>0, <1>6 DEF IInv, DeliveryInv, ChannelInv, NewestIsBoard, Newest, LastOf,
     MessageOf
<1>7. CASE CloseAdmission
  BY Zenon, <1>6, <1>7 DEF CloseAdmission, coreVars, chanVars, txVars, subVars
<1>8. ASSUME NEW c \in Conns, CloseConnection(c) PROVE DeliveryInv'
  BY Zenon, <1>6, <1>8 DEF CloseConnection, Unsubscribe, coreVars, chanVars, txVars
<1>9. CASE ServerClose
  BY Zenon, <1>6, <1>9 DEF ServerClose, coreVars, chanVars, txVars, subVars
<1>10. ASSUME NEW c \in Conns, Subscribe(c) PROVE DeliveryInv'
  <2>1. /\ subs' = subs \cup {c} /\ txPc'[c] = "get"
        /\ \A d \in subs : txPc'[d] = txPc[d]
        /\ UNCHANGED <<notifCh, webPc, fanTodo, fanNotif, queue, txMsg, view>>
    BY Zenon, <1>10 DEF Subscribe, coreVars, chanVars, fanVars, IInv, TypeOK, WebTypeOK,
       ConnInv
  <2>2. c \notin fanTodo /\ queue[c] = <<>>
    BY Zenon, <1>10 DEF Subscribe, IInv, ConnInv
  <2>3. sendState[Web] # "none" => MessageOf(notif) = board
    BY Zenon DEF IInv, RunInv
  <2>4. ~shutdown => Newest(c)' = board
    BY Zenon, <1>0, <2>1, <2>2, <2>3 DEF Newest, IInv, DeliveryInv, ChannelInv, MessageOf,
       LastOf
  <2>5. ASSUME ~shutdown, NEW d \in subs PROVE Newest(d)' = board
    BY Zenon, <1>0, <2>1, <2>5 DEF Newest, IInv, DeliveryInv, NewestIsBoard, MessageOf, LastOf
  <2>6. ChannelInv'
    BY Zenon, <1>0, <2>1 DEF IInv, DeliveryInv, ChannelInv, MessageOf, LastOf
  <2>. QED  BY Zenon, <1>0, <2>1, <2>4, <2>5, <2>6 DEF DeliveryInv, NewestIsBoard
<1>11. ASSUME NEW c \in Conns, RxEnd(c) PROVE DeliveryInv'
  BY Zenon, <1>2, <1>11 DEF RxEnd, Unsubscribe, coreVars, chanVars, fanVars, txVars
<1>12. ASSUME NEW c \in Conns, TxGet(c) \/ TxTake(c) \/ TxWrite(c) PROVE DeliveryInv'
  <2>1. /\ \A d \in Conns \ {c} : UNCHANGED <<queue[d], txPc[d], txMsg[d], view[d]>>
        /\ UNCHANGED <<notifCh, subs, webPc, fanTodo, fanNotif>>
    BY ZenonT(40), <1>12 DEF TxGet, TxTake, TxWrite, coreVars, chanVars, fanVars, subVars,
            IInv, TypeOK, WebTypeOK
  <2>2. ASSUME ~shutdown, NEW d \in subs, d # c PROVE Newest(d)' = board
    <3>1. d \in Conns \ {c} /\ Newest(d) = board
      BY Zenon, <2>2 DEF IInv, TypeOK, WebTypeOK, DeliveryInv, NewestIsBoard
    <3>. QED  BY Zenon, <1>0, <2>1, <3>1 DEF Newest, MessageOf, LastOf
  <2>3. ASSUME ~shutdown, c \in subs PROVE Newest(c)' = board
    <3>0. Newest(c) = board
      BY Zenon, <2>3 DEF IInv, DeliveryInv, NewestIsBoard
    <3>1. CASE TxGet(c)
      <4>1. /\ txPc[c] = "get" /\ txPc'[c] = "snapshot" /\ txMsg'[c] = board
            /\ queue'[c] = queue[c]
        BY Zenon, <3>1 DEF TxGet, IInv, TypeOK, WebTypeOK
      <4>. QED  BY Zenon, <1>0, <2>1, <3>0, <4>1 DEF Newest, MessageOf, LastOf
    <3>2. CASE TxTake(c)
      <4>1. queue[c] \in Seq(Notification) /\ queue[c] # <<>>
        BY Zenon, <3>2 DEF TxTake, IInv, TypeOK, WebTypeOK
      <4>2. /\ txPc'[c] = "write" /\ txMsg'[c] = MessageOf(Head(queue[c]))
            /\ queue'[c] = Tail(queue[c])
        BY Zenon, <3>2 DEF TxTake, IInv, TypeOK, WebTypeOK, MessageOf
      <4>3. /\ Tail(queue[c]) = <<>> => LastOf(queue[c]) = Head(queue[c])
            /\ Tail(queue[c]) # <<>> => LastOf(Tail(queue[c])) = LastOf(queue[c])
        BY Zenon, <4>1, HeadTailLast
      <4>. QED  BY Zenon, <1>0, <2>1, <3>0, <4>1, <4>2, <4>3 DEF Newest, MessageOf, LastOf
    <3>3. CASE TxWrite(c)
      <4>1. /\ txPc[c] \in {"snapshot", "write"} /\ txPc'[c] = "loop"
            /\ view'[c] = txMsg[c] /\ queue'[c] = queue[c]
        BY Zenon, <3>3 DEF TxWrite, IInv, TypeOK, WebTypeOK
      <4>. QED  BY Zenon, <1>0, <2>1, <3>0, <4>1 DEF Newest, MessageOf, LastOf
    <3>. QED  BY <1>12, <3>1, <3>2, <3>3
  <2>4. ChannelInv'
    BY Zenon, <1>0, <2>1 DEF IInv, DeliveryInv, ChannelInv, MessageOf, LastOf
  <2>. QED  BY Zenon, <1>0, <2>1, <2>2, <2>3, <2>4 DEF DeliveryInv, NewestIsBoard
<1>13. ASSUME NEW c \in Conns, TxReturn(c) PROVE DeliveryInv'
  <2>1. /\ \A d \in Conns \ {c} : UNCHANGED <<queue[d], txPc[d], txMsg[d], view[d]>>
        /\ UNCHANGED <<notifCh, webPc, fanTodo, fanNotif>>
        /\ subs' = subs \ {c}
    BY Zenon, <1>13 DEF TxReturn, Unsubscribe, coreVars, chanVars, fanVars, IInv, TypeOK,
       WebTypeOK
  <2>2. ASSUME ~shutdown, NEW d \in subs' PROVE Newest(d)' = board
    <3>1. d \in Conns \ {c} /\ Newest(d) = board
      BY Zenon, <2>1, <2>2 DEF IInv, TypeOK, WebTypeOK, DeliveryInv, NewestIsBoard
    <3>. QED  BY Zenon, <1>0, <2>1, <3>1 DEF Newest, MessageOf, LastOf
  <2>3. ChannelInv'
    BY Zenon, <1>0, <2>1 DEF IInv, DeliveryInv, ChannelInv, MessageOf, LastOf
  <2>. QED  BY Zenon, <1>0, <2>2, <2>3 DEF DeliveryInv, NewestIsBoard
<1>14. ASSUME NEW c \in Conns, Accept(c) \/ Reject(c) \/ CancelAndClose(c)
       PROVE  DeliveryInv'
  BY Zenon, <1>2, <1>14 DEF Accept, Reject, CancelAndClose, coreVars, chanVars, fanVars, txVars
<1>15. CASE ServeReturns
  BY <1>2, <1>15 DEF ServeReturns, chanVars, subVars, txVars
<1>. QED
  BY Zenon, <1>3, <1>4, <1>5, <1>7, <1>8, <1>9, <1>10, <1>11, <1>12, <1>13, <1>14, <1>15
     DEF WebNext, FanStep, TxLocal, TxFail, TxCancelled

-----------------------------------------------------------------------------
(* The theorems.                                                           *)

\* Every step of the server keeps the inductive invariant.
LEMMA NextIInv == IInv /\ [Next]_vars => IInv'
<1>. SUFFICES ASSUME IInv, [Next]_vars PROVE IInv'
  OBVIOUS
<1>1. TypeOK'
  BY NextTypeOK DEF IInv
<1>2. RunInv'
  BY RunInvStep DEF IInv
<1>3. CloseInv'
  BY CloseInvStep DEF IInv
<1>4. ConnInv'
  BY ConnInvStep DEF IInv
<1>5. WebCloseInv'
  BY WebCloseInvStep DEF IInv
<1>6. DeliveryInv'
  <2>1. CASE CoreNext /\ UNCHANGED <<fileVars, webVars>>
    BY Zenon, <2>1, DeliveryCore
  <2>2. CASE (\E m \in Loggers : LoggerStep(m)) /\ UNCHANGED webVars
    BY Zenon, <2>2, LoggerFrame, DeliveryStutter DEF IInv, TypeOK, CoreTypeOK, DeliveryState,
            runVars, closeVars, webVars, subVars, fanVars, txVars
  <2>3. CASE WebNext
    BY <2>3, DeliveryWeb
  <2>4. CASE UNCHANGED vars
    BY Zenon, <2>4, DeliveryStutter DEF IInv, DeliveryState, vars, coreVars, runVars,
       closeVars,
            chanVars, webVars, subVars, fanVars, txVars
  <2>. QED  BY <2>1, <2>2, <2>3, <2>4 DEF Next
<1>. QED  BY <1>1, <1>2, <1>3, <1>4, <1>5, <1>6 DEF IInv

\* The inductive invariant holds throughout: it ties run, Close, the
\* connections and the messages on their way to one another.
THEOREM InvariantHolds == Spec => []IInv
BY InitIInv, NextIInv, PTL DEF Spec

\* No update can be missed (the comment in core.go's run): for any number of
\* connections and messengers, any queue sizes and any interleaving of
\* subscribing, publishing and fanning out, the newest message on its way to
\* a subscriber is the one on the items board.
THEOREM NewestMessageIsBoard == Spec => []NewestIsBoard
<1>1. IInv => NewestIsBoard
  BY Zenon DEF IInv, DeliveryInv
<1>. QED  BY <1>1, InvariantHolds, PTL

\* A subscriber to which nothing is on its way has the tracker's incidents.
THEOREM SubscribersAreCurrent == Spec => []NoMissedUpdate
<1>1. IInv => NoMissedUpdate
  <2>. SUFFICES ASSUME IInv, ~shutdown, NEW c \in subs, Quiet(c)
                PROVE  view[c].total = tracker.itemsNotOK
    BY Zenon DEF NoMissedUpdate
  <2>1. sendState[Web] = "none"
    BY Zenon, WebAssumption DEF Quiet, IInv, RunInv, TypeOK, CoreTypeOK
  <2>2. Newest(c) = view[c]
    BY Zenon, <2>1 DEF Quiet, Newest
  <2>3. Newest(c) = board
    BY ZenonT(40) DEF IInv, DeliveryInv, NewestIsBoard
  <2>4. board.total = tracker.itemsNotOK
    BY DEF Quiet, IInv, RunInv, BoardMatchesTracker
  <2>. QED  BY Zenon, <2>2, <2>3, <2>4
<1>. QED  BY <1>1, InvariantHolds, PTL

\* The board is the tracker's incidents, except while a notification is about
\* to be published.
THEOREM BoardIsCurrent == Spec => []BoardMatchesTracker
<1>1. IInv => BoardMatchesTracker
  BY DEF IInv, RunInv
<1>. QED  BY <1>1, InvariantHolds, PTL

\* Close never closes a channel that somebody can still send on.
THEOREM CloseIsOrdered == Spec => []NoSendOnClosedChannel
<1>1. IInv => NoSendOnClosedChannel
  <2>. SUFFICES ASSUME IInv PROVE NoSendOnClosedChannel
    BY Zenon
  <2>1. updClosed => \A c \in Collectors : coll[c] = "stopped"
    BY DEF IInv, CloseInv, TypeOK, CoreTypeOK
  <2>2. notifClosed # {} => runPc = "done"
    BY Zenon DEF IInv, CloseInv
  <2>3. runPc = "done" => \A m \in Messengers : sendState[m] = "none"
    BY Zenon DEF IInv, RunInv
  <2>. QED  BY <2>1, <2>2, <2>3 DEF NoSendOnClosedChannel
<1>. QED  BY <1>1, InvariantHolds, PTL

\* No connection escapes the shutdown of the webserver.
THEOREM ShutdownIsComplete == Spec => []NoConnectionEscapesShutdown
<1>1. IInv => NoConnectionEscapesShutdown
  BY DEF IInv, ConnInv, WebCloseInv, RunIsFree, TypeOK, WebTypeOK,
         NoConnectionEscapesShutdown
<1>. QED  BY <1>1, InvariantHolds, PTL

\* What a step that feeds the tracker does, and what DeltasAreExact says of one step.
FeedStep ==
    IF runPc' = "publish"
    THEN /\ DeltaIsExact(tracker.itemsNotOK, notif')
         /\ notif'.total = tracker'.itemsNotOK
    ELSE tracker'.itemsNotOK = tracker.itemsNotOK

DeltaStep == tracker' # tracker => FeedStep

\* What one step of the run goroutine tells is the difference it made to the incidents.
LEMMA FeedIsExact ==
    ASSUME TypeOK, RunFeed
    PROVE  FeedStep
<1>. DEFINE items == Head(updCh).items
            old == tracker.itemsNotOK
<1>1. items \in ItemMap
  <2>1. updCh \in Seq(Update) /\ updCh # <<>>
    BY DEF RunFeed, TypeOK, CoreTypeOK
  <2>2. Head(updCh) \in Update
    BY <2>1
  <2>. QED  BY Zenon, <2>2 DEF Update
<1>2. /\ tracker \in [itemsOK : SUBSET ItemKey, itemsNotOK : IncidentMap]
      /\ old \in IncidentMap /\ clock + 1 \in Nat
  <2>1. /\ tracker \in [itemsOK : SUBSET ItemKey, itemsNotOK : IncidentMap]
        /\ clock \in Nat
    BY Zenon DEF TypeOK, CoreTypeOK
  <2>2. old \in IncidentMap
    BY Zenon, <2>1
  <2>3. clock + 1 \in Nat
    BY <2>1
  <2>. QED  BY Zenon, <2>1, <2>2, <2>3
<1>3. /\ runPc = "recv"
      /\ tracker' = TrackerAfter(tracker, items, clock + 1)
      /\ \/ /\ notif' = NotificationOf(tracker, items, clock + 1)
            /\ runPc' = "publish"
         \/ /\ ~HasChanges(old, items)
            /\ UNCHANGED <<notif, runPc>>
  BY Zenon DEF RunFeed
<1>. HIDE DEF items
<1>4. tracker'.itemsNotOK = NotOKAfter(old, items, clock + 1)
  BY Zenon, <1>3 DEF TrackerAfter
<1>5. CASE /\ notif' = NotificationOf(tracker, items, clock + 1)
           /\ runPc' = "publish"
  <2>1. notif'.total = tracker'.itemsNotOK
    BY Zenon, <1>4, <1>5 DEF NotificationOf
  <2>2. DeltaIsExact(tracker.itemsNotOK, notif')
    BY Zenon, <1>1, <1>2, <1>5, FeedItemsDeltaIsExact
  <2>. QED  BY Zenon, <1>5, <2>1, <2>2 DEF FeedStep
<1>6. CASE ~HasChanges(old, items) /\ UNCHANGED <<notif, runPc>>
  <2>1. tracker'.itemsNotOK = old
    BY <1>1, <1>2, <1>4, <1>6, SilentMeansUnchanged
  <2>. QED  BY Zenon, <1>3, <1>6, <2>1 DEF FeedStep
<1>. QED  BY <1>3, <1>5, <1>6

\* Every notification describes exactly the change of the tracker's incidents, and
\* FeedItems is silent only when there is none: at every step of the whole server.
THEOREM NotificationsAreExact == Spec => DeltasAreExact
<1>1. ASSUME TypeOK, [Next]_vars PROVE [DeltaStep]_tracker
  <2>1. CASE CoreNext
    <3>1. RunFeed \/ UNCHANGED tracker
      BY Zenon, <2>1
         DEF CoreNext, RunStep, RunError, RunPublish, RunSent, RunDone, SenderStep,
             SenderStart, SenderDeliver, SenderDrop, CollectorPrepare, CollectorSend,
             CollectorStop, CloseBegin, CloseStep, CloseCollector, CollectorClosed,
             CloseShutdown, CloseUpdCh, CloseRunDone, CloseMessenger, MessengerClosed,
             CloseReturn, runVars
    <3>. QED  BY Zenon, <1>1, <3>1, FeedIsExact DEF DeltaStep
  <2>2. CASE \E m \in Loggers : LoggerStep(m)
    BY <2>2, LoggerFrame DEF runVars
  <2>3. CASE WebNext
    BY <2>3, WebFrame DEF runVars
  <2>4. CASE UNCHANGED vars
    BY <2>4 DEF vars, coreVars, runVars
  <2>. QED  BY <1>1, <2>1, <2>2, <2>3, <2>4 DEF Next
<1>2. Spec => [][DeltaStep]_tracker
  BY <1>1, TypeCorrect, PTL DEF Spec
<1>. QED  BY <1>2 DEF DeltasAreExact, DeltaStep, FeedStep

-----------------------------------------------------------------------------
(***************************************************************************)
(* The log file.  The invariant is a chain: the lines this run has         *)
(* written, the notifications in the logger's channel and the one that is  *)
(* about to be sent follow one another, each with exactly the lines that   *)
(* lead to its total.                                                      *)
(***************************************************************************)

\* A total as the lines of the file show it.
Logged(total) ==
    [k \in ItemKey |-> IF total[k] = Absent THEN Absent ELSE total[k].item]

\* The incidents that the lines of this run leave ongoing.
OwnLines(m) == [k \in ItemKey |-> IF k \in written[m] THEN logFile[m][k] ELSE Absent]

\* Every line of n makes sense after log, and together they lead to its total.
Follows(log, n) ==
    /\ AppendLines(log, n) = Logged(n.total)
    /\ \A k \in Keys(n.added) : log[k] = Absent
    /\ \A k \in Keys(n.removed) : log[k] = n.removed[k].item
    /\ \A k \in Keys(n.updated) : log[k] \notin {Absent, n.updated[k].item}

Chain(log, ch) ==
    /\ ch # <<>> => Follows(log, Head(ch))
    /\ \A i \in 1..Len(ch) : i < Len(ch) => Follows(Logged(ch[i].total), ch[i + 1])

\* The file once everything in the channel is written.
End(log, ch) == IF ch = <<>> THEN log ELSE Logged(LastOf(ch).total)

\* A notification is still to be sent to m: once the sender has passed its
\* first select it may be delivered even during shutdown, but no later one is.
ToBeSent(m) ==
    \/ sendState[m] = "send"
    \/ ~shutdown /\ (sendState[m] = "start" \/ runPc = "publish")

LogOK(m) ==
    /\ Chain(OwnLines(m), notifCh[m])
    /\ ToBeSent(m) => Follows(End(OwnLines(m), notifCh[m]), notif)
    /\ ~shutdown /\ ~ToBeSent(m) =>
           End(OwnLines(m), notifCh[m]) = Logged(tracker.itemsNotOK)

LogInv == \A m \in Loggers : LogOK(m)

\* Exact deltas are lines that make sense.
LEMMA ExactFollows ==
    ASSUME NEW old \in IncidentMap, NEW n \in Notification, DeltaIsExact(old, n)
    PROVE  Follows(Logged(old), n)
<1>. DEFINE log == Logged(old)
<1>0. /\ n.total \in IncidentMap /\ n.added \in IncidentMap
      /\ n.removed \in IncidentMap /\ n.updated \in IncidentMap
  BY DEF Notification
<1>1. ASSUME NEW k \in ItemKey
      PROVE  log[k] = IF old[k] = Absent THEN Absent ELSE old[k].item
  BY Zenon DEF Logged
<1>2. ASSUME NEW k \in ItemKey
      PROVE  Logged(n.total)[k] = IF n.total[k] = Absent THEN Absent ELSE n.total[k].item
  BY Zenon DEF Logged
<1>3. ASSUME NEW k \in ItemKey
      PROVE  /\ n.added[k] # Absent <=> n.total[k] # Absent /\ old[k] = Absent
             /\ n.removed[k] # Absent <=> n.total[k] = Absent /\ old[k] # Absent
             /\ n.updated[k] # Absent <=> /\ n.total[k] # Absent
                                          /\ old[k] # Absent
                                          /\ old[k].item # n.total[k].item
             /\ n.added[k] # Absent => n.total[k] = n.added[k]
             /\ n.removed[k] # Absent => n.removed[k] = old[k]
             /\ n.updated[k] # Absent => n.total[k] = n.updated[k]
  <2>1. \A im : k \in Keys(im) <=> im[k] # Absent
    BY Zenon DEF Keys
  <2>2. /\ k \in Keys(n.added) <=> k \in Keys(n.total) /\ k \notin Keys(old)
        /\ k \in Keys(n.removed) <=> k \notin Keys(n.total) /\ k \in Keys(old)
    BY Zenon DEF DeltaIsExact
  <2>3. k \in Keys(n.updated) <=> /\ k \in Keys(old)
                                 /\ k \in Keys(n.total)
                                 /\ old[k].item # n.total[k].item
    BY Zenon DEF DeltaIsExact
  <2>4. /\ k \in Keys(n.added) => n.total[k] = n.added[k]
        /\ k \in Keys(n.removed) => n.removed[k] = old[k]
        /\ k \in Keys(n.updated) => n.total[k] = n.updated[k]
    BY Zenon DEF DeltaIsExact
  <2>. QED  BY Zenon, <2>1, <2>2, <2>3, <2>4
<1>4. ASSUME NEW k \in ItemKey, old[k] # Absent PROVE old[k].item # Absent
  BY <1>4, ItemAssumption DEF IncidentMap, ItemWContext
<1>. HIDE DEF log
<1>5. ASSUME NEW k \in ItemKey
      PROVE  AppendLines(log, n)[k] = Logged(n.total)[k]
  <2>1. AppendLines(log, n)[k] = IF n.updated[k] # Absent THEN n.updated[k].item
                                 ELSE IF n.added[k] # Absent THEN n.added[k].item
                                 ELSE IF n.removed[k] # Absent THEN Absent
                                 ELSE log[k]
    BY Zenon DEF AppendLines
  <2>2. CASE n.total[k] = Absent
    BY Zenon, <1>1, <1>2, <1>3, <2>1, <2>2
  <2>3. CASE n.total[k] # Absent
    BY Zenon, <1>1, <1>2, <1>3, <2>1, <2>3
  <2>. QED  BY Zenon, <2>2, <2>3
<1>6. AppendLines(log, n) = Logged(n.total)
  BY Zenon, <1>5 DEF AppendLines, Logged
<1>7. \A k \in Keys(n.added) : log[k] = Absent
  BY Zenon, <1>1, <1>3 DEF Keys
<1>8. \A k \in Keys(n.removed) : log[k] = n.removed[k].item
  BY Zenon, <1>1, <1>3 DEF Keys
<1>9. \A k \in Keys(n.updated) : log[k] \notin {Absent, n.updated[k].item}
  BY Zenon, <1>1, <1>3, <1>4 DEF Keys
<1>10. Follows(log, n)
  BY Zenon, <1>6, <1>7, <1>8, <1>9 DEF Follows
<1>. QED  BY Zenon, <1>10 DEF log

\* Delivering a notification extends the chain.
LEMMA ChainAppend ==
    ASSUME NEW ch \in Seq(Notification), NEW n \in Notification, NEW log,
           Chain(log, ch), Follows(End(log, ch), n)
    PROVE  /\ Chain(log, Append(ch, n))
           /\ End(log, Append(ch, n)) = Logged(n.total)
<1>. DEFINE new == Append(ch, n)
<1>1. /\ new \in Seq(Notification) /\ new # <<>> /\ Len(ch) \in Nat
      /\ Len(new) = Len(ch) + 1 /\ new[Len(ch) + 1] = n
      /\ \A i \in 1..Len(ch) : new[i] = ch[i]
      /\ Head(new) = new[1]
  OBVIOUS
<1>2. LastOf(new) = n
  BY Zenon, AppendLast
<1>. HIDE DEF new
<1>3. End(log, new) = Logged(n.total)
  BY Zenon, <1>1, <1>2 DEF End
<1>4. CASE ch = <<>>
  <2>1. Len(ch) = 0 /\ Follows(log, n)
    BY <1>4 DEF End
  <2>. QED  BY <1>1, <1>3, <2>1 DEF Chain, new
<1>5. CASE ch # <<>>
  <2>1. Len(ch) > 0 /\ Head(ch) = ch[1] /\ Head(new) = ch[1]
    BY <1>1, <1>5
  <2>2. Follows(log, Head(new))
    BY Zenon, <1>5, <2>1 DEF Chain
  <2>3. Follows(Logged(ch[Len(ch)].total), n)
    BY Zenon, <1>5 DEF End, LastOf
  <2>4. ASSUME NEW i \in 1..Len(new), i < Len(new)
        PROVE  Follows(Logged(new[i].total), new[i + 1])
    <3>1. i \in 1..Len(ch) /\ new[i] = ch[i]
      BY <1>1, <2>4
    <3>2. CASE i = Len(ch)
      BY <1>1, <2>3, <3>1, <3>2
    <3>3. CASE i # Len(ch)
      <4>1. i < Len(ch) /\ i + 1 \in 1..Len(ch)
        BY <1>1, <3>1, <3>3
      <4>2. Follows(Logged(ch[i].total), ch[i + 1])
        BY Zenon, <3>1, <4>1 DEF Chain
      <4>. QED  BY Zenon, <1>1, <3>1, <4>1, <4>2
    <3>. QED  BY Zenon, <3>2, <3>3
  <2>5. Chain(log, new)
    BY Zenon, <2>2, <2>4 DEF Chain
  <2>. QED  BY Zenon, <1>3, <2>5 DEF new
<1>. QED  BY Zenon, <1>4, <1>5

\* Writing the lines of the oldest notification keeps the chain and its end.
LEMMA ChainWrite ==
    ASSUME NEW ch \in Seq(Notification), NEW log, ch # <<>>, Chain(log, ch)
    PROVE  /\ Chain(AppendLines(log, Head(ch)), Tail(ch))
           /\ End(AppendLines(log, Head(ch)), Tail(ch)) = End(log, ch)
<1>. DEFINE rest == Tail(ch)
            new == AppendLines(log, Head(ch))
<1>1. /\ rest \in Seq(Notification) /\ Len(ch) \in Nat /\ Len(ch) > 0
      /\ Len(rest) = Len(ch) - 1 /\ Head(ch) = ch[1]
      /\ \A i \in 1..Len(rest) : rest[i] = ch[i + 1]
      /\ rest # <<>> => Len(rest) > 0 /\ Head(rest) = rest[1]
  OBVIOUS
<1>2. new = Logged(ch[1].total)
  BY Zenon, <1>1 DEF Chain, Follows
<1>3. /\ rest = <<>> => LastOf(ch) = Head(ch)
      /\ rest # <<>> => LastOf(rest) = LastOf(ch)
  BY Zenon, HeadTailLast
<1>. HIDE DEF rest, new
<1>4. End(new, rest) = End(log, ch)
  BY Zenon, <1>1, <1>2, <1>3 DEF End
<1>5. rest # <<>> => Follows(new, Head(rest))
  <2>. SUFFICES ASSUME rest # <<>> PROVE Follows(new, Head(rest))
    OBVIOUS
  <2>1. 1 \in 1..Len(ch) /\ 1 < Len(ch) /\ 1 \in 1..Len(rest)
    BY <1>1
  <2>2. Follows(Logged(ch[1].total), ch[1 + 1])
    BY Zenon, <2>1 DEF Chain
  <2>. QED  BY Zenon, <1>1, <1>2, <2>1, <2>2
<1>6. ASSUME NEW i \in 1..Len(rest), i < Len(rest)
      PROVE  Follows(Logged(rest[i].total), rest[i + 1])
  <2>1. i + 1 \in 1..Len(ch) /\ i + 1 < Len(ch) /\ i + 1 \in 1..Len(rest)
    BY <1>1, <1>6
  <2>2. Follows(Logged(ch[i + 1].total), ch[(i + 1) + 1])
    BY Zenon, <2>1 DEF Chain
  <2>. QED  BY Zenon, <1>1, <2>1, <2>2
<1>7. Chain(new, rest)
  BY Zenon, <1>5, <1>6 DEF Chain
<1>. QED  BY Zenon, <1>4, <1>7 DEF rest, new

\* What LogOK(m) looks at.
LogState(m) ==
    <<logFile[m], written[m], notifCh[m], sendState[m], runPc, notif, tracker, shutdown>>

\* LogOK looks at the state of its logger only.
LEMMA LogStutter ==
    ASSUME NEW m, LogOK(m), UNCHANGED LogState(m)
    PROVE  LogOK(m)'
BY Zenon DEF LogOK, LogState, ToBeSent, OwnLines

\* Steps that write nothing and send nothing, for one logger: whether something is
\* to be sent may change only when it is sent or dropped.
LEMMA LogKept ==
    ASSUME NEW m, LogOK(m), UNCHANGED <<OwnLines(m), notifCh[m], tracker>>,
           ToBeSent(m)' => ToBeSent(m) /\ notif' = notif,
           ~shutdown' /\ ~ToBeSent(m)' => ~shutdown /\ ~ToBeSent(m)
    PROVE  LogOK(m)'
<1>. DEFINE end == End(OwnLines(m), notifCh[m])
<1>1. end' = end
  BY Zenon
<1>2. /\ Chain(OwnLines(m), notifCh[m])
      /\ ToBeSent(m) => Follows(end, notif)
      /\ ~shutdown /\ ~ToBeSent(m) => end = Logged(tracker.itemsNotOK)
  BY Zenon DEF LogOK
<1>3. Chain(OwnLines(m), notifCh[m])'
  BY Zenon, <1>2
<1>. HIDE DEF end
<1>4. ToBeSent(m)' => Follows(end, notif)'
  BY Zenon, <1>1, <1>2
<1>5. ~shutdown' /\ ~ToBeSent(m)' => (end = Logged(tracker.itemsNotOK))'
  BY Zenon, <1>1, <1>2
<1>. QED  BY Zenon, <1>3, <1>4, <1>5 DEF LogOK, end

\* Steps of the core.
LEMMA LogCore ==
    ASSUME IInv, LogInv, CoreNext, UNCHANGED fileVars, NEW m \in Loggers
    PROVE  LogOK(m)'
<1>. UNCHANGED <<OwnLines(m), logFile[m], written[m]>>
  BY Zenon DEF OwnLines, fileVars
<1>0. TypeOK /\ CoreTypeOK /\ LogOK(m) /\ m \in Messengers
  BY Zenon, LoggerAssumption DEF IInv, TypeOK, LogInv
<1>1. ASSUME UNCHANGED LogState(m) PROVE LogOK(m)'
  BY Zenon, <1>0, <1>1, LogStutter
<1>2. CASE RunFeed
  <2>1. /\ runPc = "recv" /\ UNCHANGED <<notifCh, sendState, shutdown>>
        /\ \/ runPc' = "publish"
           \/ UNCHANGED <<notif, runPc>>
    BY Zenon, <1>2 DEF RunFeed, closeVars
  <2>2. \A k \in Messengers : sendState[k] = "none"
    BY Zenon, <2>1 DEF IInv, RunInv
  <2>3. tracker.itemsNotOK \in IncidentMap /\ notif' \in Notification
    <3>1. CoreTypeOK'
      BY Zenon, <1>0, CoreStepTypeOK
    <3>. QED  BY Zenon, <1>0, <3>1 DEF CoreTypeOK
  <2>4. FeedStep
    BY Zenon, <1>0, <1>2, FeedIsExact
  <2>. DEFINE end == End(OwnLines(m), notifCh[m])
  <2>5. /\ Chain(OwnLines(m), notifCh[m])
        /\ ~shutdown => end = Logged(tracker.itemsNotOK)
        /\ sendState[m] = "none"
    BY Zenon, <1>0, <2>1, <2>2 DEF LogOK, ToBeSent
  <2>6. UNCHANGED <<OwnLines(m), notifCh[m], sendState[m], shutdown, end>>
    BY Zenon, <2>1
  <2>. HIDE DEF end
  <2>7. ASSUME runPc' = "publish", ~shutdown PROVE Follows(end, notif')
    BY Zenon, <2>3, <2>4, <2>5, <2>7, ExactFollows DEF FeedStep
  <2>8. ASSUME runPc' # "publish", ~shutdown PROVE end = Logged(tracker'.itemsNotOK)
    BY Zenon, <2>4, <2>5, <2>8 DEF FeedStep
  <2>9. ToBeSent(m)' => ~shutdown /\ runPc' = "publish"
    BY Zenon, <2>5, <2>6 DEF ToBeSent
  <2>10. ~shutdown' /\ ~ToBeSent(m)' => ~shutdown /\ runPc' # "publish"
    BY Zenon, <2>5, <2>6 DEF ToBeSent
  <2>11. end' = End(OwnLines(m), notifCh[m])' /\ end' = end
    BY Zenon, <2>6 DEF end
  <2>12. Chain(OwnLines(m), notifCh[m])'
    BY Zenon, <2>5, <2>6
  <2>. QED  BY Zenon, <2>7, <2>8, <2>9, <2>10, <2>11, <2>12 DEF LogOK
<1>3. CASE RunPublish
  <2>1. /\ runPc = "publish" /\ runPc' = "send" /\ sendState'[m] = "start"
        /\ UNCHANGED <<notifCh, tracker, notif, shutdown>>
    BY Zenon, <1>0, <1>3 DEF RunPublish, closeVars, chanVars
  <2>2. sendState[m] = "none"
    BY Zenon, <1>0, <2>1 DEF IInv, RunInv
  <2>3. ToBeSent(m)' <=> ToBeSent(m)
    BY Zenon, <2>1, <2>2 DEF ToBeSent
  <2>. QED  BY Zenon, <1>0, <2>1, <2>3, LogKept
<1>4. ASSUME NEW d \in Messengers, SenderStart(d) PROVE LogOK(m)'
  <2>1. /\ sendState[d] = "start" /\ UNCHANGED <<notifCh, tracker, notif, runPc, shutdown>>
        /\ sendState' = [sendState EXCEPT ![d] = IF shutdown THEN "none" ELSE "send"]
    BY Zenon, <1>4 DEF SenderStart, closeVars, chanVars
  <2>2. runPc = "send"
    BY Zenon, <2>1 DEF IInv, RunInv
  <2>3. sendState'[m] = IF d = m THEN IF shutdown THEN "none" ELSE "send" ELSE sendState[m]
    BY Zenon, <1>0, <2>1 DEF CoreTypeOK
  <2>4. ToBeSent(m)' <=> ToBeSent(m)
    BY <2>1, <2>2, <2>3 DEF ToBeSent
  <2>. QED  BY Zenon, <1>0, <2>1, <2>4, LogKept
<1>5. ASSUME NEW d \in Messengers, SenderDeliver(d) PROVE LogOK(m)'
  <2>1. /\ sendState[d] = "send" /\ UNCHANGED <<tracker, notif, runPc, shutdown>>
        /\ sendState' = [sendState EXCEPT ![d] = "none"]
        /\ notifCh' = [notifCh EXCEPT ![d] = Append(@, notif)]
    BY Zenon, <1>5 DEF SenderDeliver, closeVars
  <2>2. CASE d # m
    <3>1. UNCHANGED LogState(m)
      BY Zenon, <1>0, <2>1, <2>2 DEF CoreTypeOK, LogState
    <3>. QED  BY Zenon, <1>1, <3>1
  <2>3. CASE d = m
    <3>1. /\ sendState'[m] = "none" /\ notifCh'[m] = Append(notifCh[m], notif)
          /\ notifCh[m] \in Seq(Notification) /\ notif \in Notification
      BY Zenon, <1>0, <2>1, <2>3 DEF CoreTypeOK
    <3>2. runPc = "send" /\ notif.total = tracker.itemsNotOK
      <4>1. runPc = "send" /\ MessageOf(notif) = board /\ board.total = tracker.itemsNotOK
        BY Zenon, <2>1 DEF IInv, RunInv, BoardMatchesTracker
      <4>2. MessageOf(notif).total = notif.total
        BY DEF MessageOf
      <4>. QED  BY Zenon, <4>1, <4>2
    <3>3. /\ Chain(OwnLines(m), notifCh[m])
          /\ Follows(End(OwnLines(m), notifCh[m]), notif)
      BY Zenon, <1>0, <2>1, <2>3 DEF LogOK, ToBeSent
    <3>4. /\ Chain(OwnLines(m), notifCh'[m])
          /\ End(OwnLines(m), notifCh'[m]) = Logged(notif.total)
      BY Zenon, <3>1, <3>3, ChainAppend
    <3>5. ~ToBeSent(m)'
      BY Zenon, <2>1, <3>1, <3>2 DEF ToBeSent
    <3>. QED  BY Zenon, <2>1, <3>2, <3>4, <3>5 DEF LogOK
  <2>. QED  BY Zenon, <2>2, <2>3
<1>6. ASSUME NEW d \in Messengers, SenderDrop(d) PROVE LogOK(m)'
  <2>1. /\ shutdown /\ UNCHANGED <<notifCh, tracker, notif, runPc, shutdown>>
        /\ sendState' = [sendState EXCEPT ![d] = "none"]
    BY Zenon, <1>6 DEF SenderDrop, closeVars, chanVars
  <2>2. sendState'[m] \in {"none", sendState[m]}
    BY Zenon, <1>0, <2>1 DEF CoreTypeOK
  <2>3. ToBeSent(m)' => ToBeSent(m)
    BY Zenon, <2>1, <2>2 DEF ToBeSent
  <2>. QED  BY Zenon, <1>0, <2>1, <2>3, LogKept
<1>7. CASE RunSent
  <2>1. /\ runPc = "send" /\ runPc' = "recv" /\ sendState[m] = "none" /\ sendState'[m] = "none"
        /\ UNCHANGED <<notifCh, tracker, shutdown>>
    BY Zenon, <1>0, <1>7 DEF RunSent, closeVars, chanVars
  <2>2. ~ToBeSent(m) /\ ~ToBeSent(m)'
    BY Zenon, <2>1 DEF ToBeSent
  <2>. QED  BY Zenon, <1>0, <2>1, <2>2, LogKept
<1>8. CASE RunDone
  <2>1. /\ runPc = "recv" /\ runPc' = "done"
        /\ UNCHANGED <<notifCh, tracker, notif, sendState, shutdown>>
    BY Zenon, <1>8 DEF RunDone, closeVars, chanVars
  <2>2. ToBeSent(m)' <=> ToBeSent(m)
    BY Zenon, <2>1 DEF ToBeSent
  <2>. QED  BY Zenon, <1>0, <2>1, <2>2, LogKept
<1>9. CASE CloseShutdown
  <2>1. shutdown' /\ UNCHANGED <<notifCh, tracker, notif, runPc, sendState>>
    BY Zenon, <1>9 DEF CloseShutdown, runVars, chanVars
  <2>2. ToBeSent(m)' => ToBeSent(m)
    BY Zenon, <2>1 DEF ToBeSent
  <2>. QED  BY Zenon, <1>0, <2>1, <2>2, LogKept
<1>10. ASSUME \/ \E c \in Collectors : CollectorPrepare(c) \/ CollectorSend(c) \/ CollectorStop(c)
              \/ RunError \/ CloseBegin \/ CloseCollector \/ CollectorClosed \/ CloseUpdCh
              \/ CloseRunDone \/ CloseMessenger \/ MessengerClosed \/ CloseReturn
       PROVE  UNCHANGED LogState(m)
  BY Zenon, <1>10
     DEF CollectorPrepare, CollectorSend, CollectorStop, RunError, CloseBegin, CloseCollector,
         CollectorClosed, CloseUpdCh, CloseRunDone, CloseMessenger, MessengerClosed,
         CloseReturn, runVars, closeVars, chanVars, LogState
<1>. QED
  BY Zenon, <1>1, <1>2, <1>3, <1>4, <1>5, <1>6, <1>7, <1>8, <1>9, <1>10
     DEF CoreNext, RunStep, SenderStep, CloseStep

\* The lines of a notification have the same effect on the lines of this run as
\* on the whole file.
LEMMA OwnWrite ==
    ASSUME TypeOK, NEW m \in Loggers, LoggerWrite(m)
    PROVE  OwnLines(m)' = AppendLines(OwnLines(m), Head(notifCh[m]))
<1>. DEFINE n == Head(notifCh[m])
            lines == Keys(n.removed) \cup Keys(n.added) \cup Keys(n.updated)
<1>1. /\ logFile'[m] = AppendLines(logFile[m], n)
      /\ written'[m] = written[m] \cup lines
  BY Zenon DEF LoggerWrite, TypeOK
<1>2. ASSUME NEW k \in ItemKey
      PROVE  k \in lines <=> n.removed[k] # Absent \/ n.added[k] # Absent \/ n.updated[k] # Absent
  BY Zenon DEF Keys
<1>. HIDE DEF n, lines
<1>3. ASSUME NEW k \in ItemKey
      PROVE  /\ logFile'[m][k] = IF n.updated[k] # Absent THEN n.updated[k].item
                                 ELSE IF n.added[k] # Absent THEN n.added[k].item
                                 ELSE IF n.removed[k] # Absent THEN Absent
                                 ELSE logFile[m][k]
             /\ AppendLines(OwnLines(m), n)[k] =
                    IF n.updated[k] # Absent THEN n.updated[k].item
                    ELSE IF n.added[k] # Absent THEN n.added[k].item
                    ELSE IF n.removed[k] # Absent THEN Absent
                    ELSE OwnLines(m)[k]
  BY Zenon, <1>1 DEF AppendLines
<1>4. ASSUME NEW k \in ItemKey
      PROVE  /\ OwnLines(m)[k] = IF k \in written[m] THEN logFile[m][k] ELSE Absent
             /\ OwnLines(m)'[k] = IF k \in written'[m] THEN logFile'[m][k] ELSE Absent
  BY Zenon DEF OwnLines
<1>5. ASSUME NEW k \in ItemKey PROVE OwnLines(m)'[k] = AppendLines(OwnLines(m), n)[k]
  <2>1. CASE k \in lines
    BY Zenon, <1>1, <1>2, <1>3, <1>4, <2>1
  <2>2. CASE k \notin lines
    BY Zenon, <1>1, <1>2, <1>3, <1>4, <2>2
  <2>. QED  BY Zenon, <2>1, <2>2
<1>6. OwnLines(m)' = AppendLines(OwnLines(m), n)
  BY Zenon, <1>5 DEF OwnLines, AppendLines
<1>. QED  BY Zenon, <1>6 DEF n

\* Every step of the server keeps the chain of every logger.
LEMMA LogStep ==
    ASSUME IInv, LogInv, [Next]_vars
    PROVE  LogInv'
<1>. SUFFICES ASSUME NEW m \in Loggers PROVE LogOK(m)'
  BY Zenon DEF LogInv
<1>0. CoreTypeOK /\ LogOK(m) /\ m \in Messengers
  BY Zenon, LoggerAssumption DEF IInv, TypeOK, LogInv
<1>1. CASE CoreNext /\ UNCHANGED <<fileVars, webVars>>
  BY Zenon, <1>1, LogCore
<1>2. ASSUME NEW d \in Loggers, LoggerWrite(d) PROVE LogOK(m)'
  <2>1. /\ UNCHANGED <<runVars, closeVars>> /\ notifCh[d] # <<>>
        /\ \A l \in Loggers \ {d} : UNCHANGED <<logFile[l], written[l]>>
        /\ notifCh' = [notifCh EXCEPT ![d] = Tail(@)]
    BY Zenon, <1>2 DEF LoggerWrite, IInv, TypeOK
  <2>2. UNCHANGED <<sendState, runPc, notif, tracker, shutdown>>
    BY Zenon, <2>1 DEF runVars, closeVars
  <2>4. CASE d # m
    <3>1. UNCHANGED LogState(m)
      BY Zenon, <1>0, <2>1, <2>2, <2>4 DEF CoreTypeOK, LogState
    <3>. QED  BY Zenon, <1>0, <3>1, LogStutter
  <2>5. CASE d = m
    <3>1. /\ OwnLines(m)' = AppendLines(OwnLines(m), Head(notifCh[m]))
          /\ notifCh'[m] = Tail(notifCh[m]) /\ notifCh[m] \in Seq(Notification)
      BY Zenon, <1>0, <1>2, <2>1, <2>5, OwnWrite DEF CoreTypeOK, IInv
    <3>2. Chain(OwnLines(m), notifCh[m])
      BY Zenon, <1>0 DEF LogOK
    <3>3. /\ Chain(OwnLines(m), notifCh[m])'
          /\ End(OwnLines(m), notifCh[m])' = End(OwnLines(m), notifCh[m])
      BY Zenon, <2>1, <2>5, <3>1, <3>2, ChainWrite
    <3>4. ToBeSent(m)' <=> ToBeSent(m)
      BY Zenon, <2>2 DEF ToBeSent
    <3>. QED  BY Zenon, <1>0, <2>2, <3>3, <3>4 DEF LogOK
  <2>. QED  BY Zenon, <2>4, <2>5
<1>3. ASSUME NEW d \in Loggers, LoggerTearDown(d) PROVE UNCHANGED LogState(m)
  BY Zenon, <1>3 DEF LoggerTearDown, runVars, closeVars, chanVars, fileVars, LogState
<1>4. CASE WebNext /\ UNCHANGED fileVars
  <2>1. UNCHANGED <<sendState, runPc, notif, tracker, shutdown>>
    BY Zenon, <1>4, WebFrame DEF runVars, closeVars
  <2>2. \/ UNCHANGED notifCh
        \/ notifCh' = [notifCh EXCEPT ![Web] = Tail(@)]
    BY Zenon, <1>4
       DEF WebNext, FanStep, FanReceive, FanSend, FanDone, CloseAdmission, CloseConnection,
           ServerClose, ServeReturns, Accept, Subscribe, Reject, RxEnd, CancelAndClose,
           TxLocal, TxGet, TxTake, TxCancelled, TxWrite, TxFail, TxReturn,
           coreVars, chanVars
  <2>3. notifCh'[m] = notifCh[m]
    BY Zenon, <1>0, <2>2, ServerAssumption DEF CoreTypeOK
  <2>. QED  BY Zenon, <1>0, <1>4, <2>1, <2>3, LogStutter DEF LogState, fileVars
<1>5. CASE UNCHANGED vars
  BY Zenon, <1>0, <1>5, LogStutter
     DEF vars, coreVars, runVars, closeVars, chanVars, fileVars, LogState
<1>. QED
  BY Zenon, <1>0, <1>1, <1>2, <1>3, <1>4, <1>5, LogStutter DEF Next, LoggerStep

\* This run has logged nothing and nothing is on its way.
LEMMA LogInit == Init => LogInv
<1>. SUFFICES ASSUME Init, NEW m \in Loggers PROVE LogOK(m)
  BY Zenon DEF LogInv
<1>1. /\ written[m] = {} /\ notifCh[m] = <<>> /\ sendState[m] = "none"
      /\ runPc = "recv" /\ tracker.itemsNotOK = EmptyMap
  BY LoggerAssumption DEF Init, CoreInit, LoggerInit, NewItemStatesTracker
<1>2. Chain(EmptyMap, <<>>)
  <2>1. \A i \in 1..Len(<<>>) : FALSE
    OBVIOUS
  <2>. QED  BY Zenon, <2>1 DEF Chain
<1>3. EmptyMap = Logged(EmptyMap)
  BY Zenon DEF EmptyMap, Logged
<1>4. ~ToBeSent(m)
  BY Zenon, <1>1 DEF ToBeSent
<1>5. OwnLines(m) = EmptyMap
  BY Zenon, <1>1 DEF OwnLines, EmptyMap
<1>. QED  BY Zenon, <1>1, <1>2, <1>3, <1>4, <1>5 DEF LogOK, End

\* The log invariant holds throughout.
LEMMA LogInvHolds == Spec => []LogInv
BY LogInit, LogStep, InvariantHolds, PTL DEF Spec

\* The log file tells the board, whatever earlier runs left in it: when a logger has
\* written all that was handed to it and nothing is on its way, replaying its file
\* gives the incidents on the board and no other this run has written about, for any
\* number of loggers, any capacity and any updates (filelogger.go, New and run).
THEOREM LogFollowsBoard == Spec => []LogMatchesBoard
<1>1. IInv /\ LogInv => LogMatchesBoard
  <2>. SUFFICES ASSUME IInv, LogInv, NEW m \in Loggers, ~shutdown, runPc = "recv",
                       notifCh[m] = <<>>, NEW k \in ItemKey
                PROVE  IF board.total[k] = Absent THEN k \in written[m] => logFile[m][k] = Absent
                       ELSE logFile[m][k] = board.total[k].item
    BY Zenon DEF LogMatchesBoard
  <2>1. ~ToBeSent(m)
    BY Zenon, LoggerAssumption DEF IInv, RunInv, ToBeSent
  <2>2. OwnLines(m) = Logged(tracker.itemsNotOK)
    BY Zenon, <2>1 DEF LogInv, LogOK, End
  <2>3. board.total = tracker.itemsNotOK
    BY Zenon DEF IInv, RunInv, BoardMatchesTracker
  <2>4. OwnLines(m)[k] = IF k \in written[m] THEN logFile[m][k] ELSE Absent
    BY Zenon DEF OwnLines
  <2>5. OwnLines(m)[k] = IF board.total[k] = Absent THEN Absent ELSE board.total[k].item
    BY Zenon, <2>2, <2>3 DEF Logged
  <2>6. board.total[k] # Absent => board.total[k].item # Absent
    <3>1. board.total \in IncidentMap
      BY Zenon, <2>3 DEF IInv, TypeOK, CoreTypeOK
    <3>. QED  BY <3>1, ItemAssumption DEF IncidentMap, ItemWContext
  <2>. QED  BY Zenon, <2>4, <2>5, <2>6
<1>. QED  BY <1>1, InvariantHolds, LogInvHolds, PTL

\* What LinesAreTransitions says of one step.
LineStep ==
    \A m \in Loggers : LoggerWrite(m) =>
        LET n == Head(notifCh[m]) IN
        /\ \A k \in Keys(n.added) : k \in written[m] => logFile[m][k] = Absent
        /\ \A k \in Keys(n.removed) :
               k \in written[m] /\ logFile[m][k] = n.removed[k].item
        /\ \A k \in Keys(n.updated) :
               k \in written[m] /\ logFile[m][k] \notin {Absent, n.updated[k].item}

\* Every line makes sense after those this run has written, also one that is written
\* alone and the last ones written during shutdown: a notification that is dropped is
\* the last one of its logger (filelogger.go, run; core.go, run).
THEOREM LinesTellTransitions == Spec => LinesAreTransitions
<1>1. IInv /\ LogInv => LineStep
  <2>. SUFFICES ASSUME IInv, LogInv, NEW m \in Loggers, LoggerWrite(m)
                PROVE  LET n == Head(notifCh[m]) IN
                       /\ \A k \in Keys(n.added) : k \in written[m] => logFile[m][k] = Absent
                       /\ \A k \in Keys(n.removed) :
                              k \in written[m] /\ logFile[m][k] = n.removed[k].item
                       /\ \A k \in Keys(n.updated) : /\ k \in written[m]
                                                    /\ logFile[m][k] \notin {Absent, n.updated[k].item}
    BY Zenon DEF LineStep
  <2>. DEFINE n == Head(notifCh[m])
  <2>1. Follows(OwnLines(m), n)
    BY Zenon DEF LogInv, LogOK, Chain, LoggerWrite
  <2>2. \A k \in ItemKey :
            OwnLines(m)[k] = IF k \in written[m] THEN logFile[m][k] ELSE Absent
    BY Zenon DEF OwnLines
  <2>3. Keys(n.added) \cup Keys(n.removed) \cup Keys(n.updated) \subseteq ItemKey
    BY Zenon DEF Keys
  <2>4. ASSUME NEW k \in Keys(n.removed) PROVE n.removed[k].item # Absent
    <3>1. n \in Notification
      <4>1. notifCh[m] \in Seq(Notification) /\ notifCh[m] # <<>>
        BY Zenon, LoggerAssumption DEF LoggerWrite, IInv, TypeOK, CoreTypeOK
      <4>. QED  BY Zenon, <4>1, HeadType
    <3>2. n.removed \in IncidentMap /\ k \in ItemKey /\ n.removed[k] # Absent
      BY Zenon, <2>4, <3>1 DEF Notification, Keys
    <3>. HIDE DEF n
    <3>. QED  BY <3>2, ItemAssumption DEF IncidentMap, ItemWContext
  <2>. HIDE DEF n
  <2>5. /\ \A k \in Keys(n.added) : k \in written[m] => logFile[m][k] = Absent
        /\ \A k \in Keys(n.removed) :
               k \in written[m] /\ logFile[m][k] = n.removed[k].item
        /\ \A k \in Keys(n.updated) :
               k \in written[m] /\ logFile[m][k] \notin {Absent, n.updated[k].item}
    BY Zenon, <2>1, <2>2, <2>3, <2>4 DEF Follows
  <2>. QED  BY Zenon, <2>5 DEF n
<1>2. Spec => [][LineStep]_<<coreVars, fileVars>>
  BY <1>1, InvariantHolds, LogInvHolds, PTL
<1>. QED  BY <1>2 DEF LinesAreTransitions, LineStep
=============================================================================
