---------------------------- MODULE StatesTracker ----------------------------
(***************************************************************************)
(* The incident bookkeeping of statestracker/item_states_tracker.go, as    *)
(* pure operators.  Both the server core (backend/core) and the legacy     *)
(* client's combiner (wsclient/combiner.go) own a tracker.                 *)
(*                                                                         *)
(* An item's non-OK (state, details) pair is one element of NonOK.  The    *)
(* tracker never looks at the details of an OK item, so every OK item is   *)
(* the value OK.  A Go map keyed by ItemKey is a function on ItemKey that  *)
(* is Absent where the map has no entry; the sorted slices made from such  *)
(* maps are the same functions.                                            *)
(***************************************************************************)
EXTENDS Naturals

CONSTANTS ItemKey, NonOK, OK, Absent

\* ItemWContext: the item and the time at which its incident started.
ItemWContext == [item : NonOK, startedAt : Nat]

ASSUME ItemAssumption ==
    /\ OK \notin NonOK
    /\ Absent \notin NonOK \cup {OK}
    /\ Absent \notin ItemWContext

Item == NonOK \cup {OK}

IncidentMap == [ItemKey -> ItemWContext \cup {Absent}]

\* One collector update: the items observed since the previous one.
ItemMap == [ItemKey -> Item \cup {Absent}]

EmptyMap == [k \in ItemKey |-> Absent]

\* The keys a map has entries for.
Keys(map) == {k \in ItemKey : map[k] # Absent}

NewItemStatesTracker == [itemsOK |-> {}, itemsNotOK |-> EmptyMap]

-----------------------------------------------------------------------------
(***************************************************************************)
(* FeedItems.  newItems has one item per key, so the iteration order of    *)
(* the Go map does not matter.  old is the tracker's itemsNotOK.  One      *)
(* reading of the clock, now, stands for those of one call.                *)
(***************************************************************************)
ReportedOK(items) == {k \in ItemKey : items[k] = OK}

ReportedNotOK(items) == {k \in ItemKey : items[k] \in NonOK}

\* An OK report ends the incident, which is published with its last value.
RemovedBy(old, items) ==
    [k \in ItemKey |-> IF k \in ReportedOK(items) THEN old[k] ELSE Absent]

\* A non-OK report of a key without an incident starts one now.
AddedBy(old, items, now) ==
    [k \in ItemKey |->
        IF k \in ReportedNotOK(items) /\ old[k] = Absent
        THEN [item |-> items[k], startedAt |-> now]
        ELSE Absent]

\* Mutant of UpdatedBy: the items are not compared.
UpdatedAlways(old, items) ==
    [k \in ItemKey |->
        IF k \in ReportedNotOK(items) /\ old[k] # Absent
        THEN [item |-> items[k], startedAt |-> old[k].startedAt]
        ELSE Absent]

\* A different non-OK report replaces the item and keeps the start time.
UpdatedBy(old, items) ==
    [k \in ItemKey |->
        IF k \in ReportedNotOK(items) /\ old[k] # Absent /\ old[k].item # items[k]
        THEN [item |-> items[k], startedAt |-> old[k].startedAt]
        ELSE Absent]

\* itemsNotOK once the update has been fed.
NotOKAfter(old, items, now) ==
    LET added   == AddedBy(old, items, now)
        updated == UpdatedBy(old, items)
    IN  [k \in ItemKey |->
            IF k \in ReportedOK(items) THEN Absent
            ELSE IF added[k] # Absent THEN added[k]
            ELSE IF updated[k] # Absent THEN updated[k]
            ELSE old[k]]

\* The tracker once the update has been fed.
TrackerAfter(tracker, items, now) ==
    [itemsOK    |-> (tracker.itemsOK \ ReportedNotOK(items)) \cup ReportedOK(items),
     itemsNotOK |-> NotOKAfter(tracker.itemsNotOK, items, now)]

\* FeedItems returns nil when it recorded no delta.
HasChanges(old, items) ==
    \/ Keys(RemovedBy(old, items)) # {}
    \/ Keys(AddedBy(old, items, 0)) # {}
    \/ Keys(UpdatedBy(old, items)) # {}

\* itemsMapToSortedSlice copies every item, so a notification is a value
\* that later calls of FeedItems cannot change.  NumItemsOK is the size of
\* okItems.
NotificationOf(tracker, items, now) ==
    LET old == tracker.itemsNotOK
    IN  [time    |-> now,
         total   |-> NotOKAfter(old, items, now),
         added   |-> AddedBy(old, items, now),
         removed |-> RemovedBy(old, items),
         updated |-> UpdatedBy(old, items),
         okItems |-> TrackerAfter(tracker, items, now).itemsOK]

-----------------------------------------------------------------------------
\* A notification's deltas say exactly how the incidents changed from old to
\* its total: added and removed are the keys that appeared and disappeared,
\* updated are the keys whose item changed, every other incident is as it
\* was, and an incident keeps its start time for as long as it lasts.
DeltaIsExact(old, n) ==
    /\ Keys(n.added) = Keys(n.total) \ Keys(old)
    /\ Keys(n.removed) = Keys(old) \ Keys(n.total)
    /\ Keys(n.updated) = {k \in Keys(old) \cap Keys(n.total) :
                            old[k].item # n.total[k].item}
    /\ \A k \in Keys(n.added) : n.total[k] = n.added[k]
    /\ \A k \in Keys(n.removed) : n.removed[k] = old[k]
    /\ \A k \in Keys(n.updated) : n.total[k] = n.updated[k]
    /\ \A k \in Keys(old) \cap Keys(n.total) :
            n.total[k].startedAt = old[k].startedAt
=============================================================================
