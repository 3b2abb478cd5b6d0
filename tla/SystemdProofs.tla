---------------------------- MODULE SystemdProofs ----------------------------
(***************************************************************************)
(* The systemd collector, for any rules, policies, capacities and times.   *)
(* Timers: a message that is current belongs to a timer that has run out,  *)
(* and the time a timer has run is time the unit was seen in recovery.     *)
(* Items: whatever is the newest item of a unit on its way to the core     *)
(* says what the collector knows of the unit.                              *)
(***************************************************************************)
EXTENDS SystemdCollector, WellFoundedInduction, TLAPS

-----------------------------------------------------------------------------
(* The inductive invariant.                                                *)

ProviderUpdate == [err : BOOLEAN, units : [Unit -> UnitState \cup {None}]]

Types ==
    /\ providerCh \in Seq(ProviderUpdate)
    /\ provider \in {"running", "done"}
    /\ emitted \in [Unit -> UnitState \cup {None}]
    /\ firstUpdate \in BOOLEAN
    /\ incident \in [Unit -> IncidentType \cup {None}]
    /\ pending \in [Unit -> PendingType \cup {None}]
    /\ nextGeneration \in Nat
    /\ outUpd \in UpdateType
    /\ callbacks \subseteq ReadyType
    /\ readyCh \in Seq(ReadyType)
    /\ updCh \in Seq(UpdateType)
    /\ published \in UpdateType
    /\ recovered \in [Unit -> (0..MaxAfter) \cup {None}]

\* An incident keeps the policy of the condition that opened it.
PolicyInv ==
    opened = [u \in Unit |-> IF incident[u] = None THEN None ELSE incident[u].resolve]

\* A running timer belongs to an incident that is recovering, and has run no longer than
\* the recovery has lasted.
Timed(u) ==
    /\ incident[u] # None /\ incident[u].resolve # None
    /\ incident[u].deferred = pending[u].details
    /\ pending[u].generation <= nextGeneration
    /\ recovered[u] # None /\ recovered[u] + pending[u].left >= incident[u].resolve.after

\* The message of a timer: if it is current, the timer has run out.
Due(ready) ==
    /\ ready.generation <= nextGeneration
    /\ pending[ready.key] # None /\ pending[ready.key].generation = ready.generation =>
           pending[ready.key].left = 0

TimerInv ==
    /\ \A u \in Unit : pending[u] # None => Timed(u)
    /\ \A ready \in callbacks : Due(ready)
    /\ \A i \in 1..Len(readyCh) : Due(readyCh[i])

\* item is the newest item of u that has been sent or is about to be.
Newest(u, item) ==
    \/ outUpd[u] # None /\ item = outUpd[u]
    \/ /\ outUpd[u] = None
       /\ \E i \in 1..Len(updCh) :
             /\ updCh[i][u] # None /\ item = updCh[i][u]
             /\ \A j \in (i + 1)..Len(updCh) : updCh[j][u] = None
    \/ /\ outUpd[u] = None
       /\ \A i \in 1..Len(updCh) : updCh[i][u] = None
       /\ item = published[u]

\* No update that waits in q mentions u.
Unmentioned(q, u) == \A i \in 1..Len(q) : q[i].units[u] = None

\* item says what the collector knows of u.
Says(u, item) ==
    /\ incident[u] # None <=> item # None /\ item.state # OK
    /\ incident[u] # None => item.state = incident[u].state
    /\ incident[u] # None /\ incident[u].deferred # None => item.details = incident[u].deferred
    /\ firstUpdate => item = None
    /\ ~firstUpdate /\ u \in NamedUnits /\ RuleHits(u) # {} => item # None
    /\ Unmentioned(providerCh, u) /\ emitted[u] # None /\ RuleHits(u) # {} =>
           item # None /\ item.details = emitted[u]

\* The last mention of u that waits is what was emitted last.
LastMention(u) ==
    \A i \in 1..Len(providerCh) :
        /\ providerCh[i].units[u] # None
        /\ \A j \in (i + 1)..Len(providerCh) : providerCh[j].units[u] = None
        => providerCh[i].units[u] = emitted[u]

OpenInv ==
    /\ provider = "running" /\ ~shuttingDown /\ runPc \in {"select", "send"}
    /\ runPc = "select" => outUpd = NoItems
    /\ \A i \in 1..Len(providerCh) : providerCh[i].err => providerCh[i].units = NoItems
    /\ \A u \in Unit : LastMention(u)
    /\ \A u \in Unit : \A item \in ItemType \cup {None} : Newest(u, item) => Says(u, item)

SystemdInv == Types /\ PolicyInv /\ TimerInv /\ (closePc = "open" => OpenInv)

-----------------------------------------------------------------------------
(* Rules and items.                                                        *)

\* A nonempty set of naturals has a least element.
LEMMA LeastExists ==
  ASSUME NEW S, S \subseteq Nat, S # {}
  PROVE  \E x \in S : \A y \in S : x <= y
<1> DEFINE R == OpToRel(<, Nat)
<1>1. IsWellFoundedOn(R, Nat)
  BY Zenon, NatLessThanWellFounded
<1>2. \A x, y \in Nat : x < y => <<x, y>> \in R
  BY DEF OpToRel
<1> HIDE DEF R
<1>3. PICK x \in S : \A y \in S : ~(<<y, x>> \in R)
  BY Zenon, <1>1, WFMin
<1>4. \A y \in S : ~(y < x)
  BY Zenon, <1>2, <1>3
<1> QED
  BY <1>3, <1>4

\* The first position of a set of positions is one of them.
LEMMA FirstIsMember ==
  ASSUME NEW n \in Nat, NEW S, S \subseteq 1..n, S # {}
  PROVE  First(S) \in S
<1>1. S \subseteq Nat
  OBVIOUS
<1>2. \E x \in S : \A y \in S : x <= y
  BY ZenonT(30), <1>1, LeastExists
<1> QED
  BY Zenon, <1>2 DEF First

\* What getItemFromUnit returns for a unit that has a rule.
LEMMA ItemOfUnit ==
  ASSUME NEW u \in Unit, NEW s \in UnitState, RuleHits(u) # {}
  PROVE  getItemFromUnit(u, s) \in RuledItem /\ getItemFromUnit(u, s).details = s
<1> DEFINE r == First(RuleHits(u))
           conditions == UnitRules[r].conditions
           hits == ConditionHits(conditions, s)
<1>1. r \in DOMAIN UnitRules
  <2>1. RuleHits(u) \subseteq DOMAIN UnitRules
    BY DEF RuleHits
  <2>2. Len(UnitRules) \in Nat /\ DOMAIN UnitRules = 1..Len(UnitRules)
    BY SystemdAssumption
  <2> QED
    BY <2>1, <2>2, FirstIsMember
<1> HIDE DEF r
<1>2. DOMAIN conditions = 1..Len(conditions) /\ Len(conditions) \in Nat
  BY <1>1, SystemdAssumption
<1>3. CASE hits = {}
  <2>1. getItemFromUnit(u, s) = [state |-> Error, details |-> s, resolve |-> None]
    BY <1>3 DEF getItemFromUnit, r
  <2> QED
    BY <2>1 DEF RuledItem, ItemState
<1>4. CASE hits # {}
  <2> DEFINE c == conditions[First(hits)]
  <2>1. hits \subseteq DOMAIN conditions
    BY DEF ConditionHits
  <2>2. First(hits) \in DOMAIN conditions
    <3> HIDE DEF hits, conditions
    <3> QED
      BY <1>2, <1>4, <2>1, FirstIsMember
  <2>3. c \in Conditions
    BY <1>1, <2>2 DEF Conditions
  <2>4. getItemFromUnit(u, s) = [state |-> c.result, details |-> s, resolve |-> c.resolve]
    BY <1>4 DEF getItemFromUnit, r
  <2> HIDE DEF c
  <2>5. c.result \in ItemState /\ c.resolve \in Policy \cup {None}
    BY <2>3, SystemdAssumption DEF ItemState
  <2> QED
    BY <2>4, <2>5 DEF RuledItem
<1> QED
  BY <1>3, <1>4

-----------------------------------------------------------------------------
(* What an update does to the entries of one unit that is in state s.      *)

Untouched(u) ==
    UNCHANGED <<incident[u], pending[u], recovered[u]>> /\ outUpd'[u] = None

\* A non-OK item.
Worsens(u, s) ==
    \E state \in ItemState \ {OK}, resolve \in Policy \cup {None} :
        /\ incident'[u] = [resolve |-> resolve, state |-> state, deferred |-> None]
        /\ resolve = IF incident[u] = None THEN getItemFromUnit(u, s).resolve
                     ELSE incident[u].resolve
        /\ pending'[u] = None
        /\ outUpd'[u] = Item(state, s)

\* An OK item without a policy to wait for.
Recovers(u, s) ==
    /\ incident[u] = None \/ incident[u].resolve = None
    /\ incident'[u] = None /\ pending'[u] = None
    /\ outUpd'[u] = Item(OK, s)

\* An OK item of an incident with a policy.
Defers(u, s) ==
    /\ incident[u] # None /\ incident[u].resolve # None
    /\ incident'[u] = [incident[u] EXCEPT !.deferred = s]
    /\ outUpd'[u] = IF incident[u].deferred = s THEN None ELSE Item(incident[u].state, s)
    /\ \/ pending'[u] = None
       \/ /\ pending'[u] = IF pending[u] # None THEN [pending[u] EXCEPT !.details = s]
                           ELSE [details |-> s, generation |-> nextGeneration + 1,
                                 left |-> incident[u].resolve.after, fired |-> FALSE]
          /\ recovered'[u] = IF recovered[u] = None THEN 0 ELSE recovered[u]

Changes(u, s) == Worsens(u, s) \/ Recovers(u, s) \/ Defers(u, s)

\* The units of the update that is handled.
Handled == Completed(Head(providerCh).units)

\* A channel after a send that may have been given up.
LEMMA MaybeAppended ==
    ASSUME NEW S, NEW q \in Seq(S), NEW x \in S, NEW r \in {q, Append(q, x)}
    PROVE  /\ r \in Seq(S)
           /\ \A i \in 1..Len(r) : r[i] = x \/ (i \in 1..Len(q) /\ r[i] = q[i])
<1>1. CASE r = q
  BY <1>1
<1>2. CASE r = Append(q, x)
  BY <1>2
<1> QED
  BY Zenon, <1>1, <1>2

\* The update at the head of the channel is well-typed.
LEMMA HeadUpdate ==
  ASSUME Types, providerCh # <<>>
  PROVE  /\ Head(providerCh) \in ProviderUpdate /\ Tail(providerCh) \in Seq(ProviderUpdate)
         /\ Head(providerCh).units \in [Unit -> UnitState \cup {None}]
         /\ Handled \in [Unit -> UnitState \cup {None}]
<1>1. Head(providerCh) \in ProviderUpdate /\ Tail(providerCh) \in Seq(ProviderUpdate)
  BY DEF Types
<1>2. Head(providerCh).units \in [Unit -> UnitState \cup {None}]
  BY <1>1 DEF ProviderUpdate
<1> QED
  BY <1>1, <1>2, SystemdAssumption DEF Handled, Completed

\* What one update of the provider changes at a unit: nothing where it says nothing of it
\* or no rule matches.
LEMMA UnitChanges ==
  ASSUME Types, PolicyInv, RunUnits, NEW u \in Unit
  PROVE  /\ Handled[u] = None \/ RuleHits(u) = {} => Untouched(u)
         /\ Handled[u] # None /\ RuleHits(u) # {} => Changes(u, Handled[u])
<1> DEFINE s == Handled[u]
           e(v) == IF Handled[v] = None THEN Entry(incident[v], pending[v], None)
                   ELSE UnitEntry(v, Handled[v])
<1>1. /\ incident'[u] = e(u).incident /\ pending'[u] = e(u).pending /\ outUpd'[u] = e(u).item
      /\ recovered'[u] = IF Handled[u] = None \/ RuleHits(u) = {} THEN recovered[u]
                         ELSE RecoveredAfter(u, Handled[u])
  BY Zenon DEF RunUnits, Handled, Send
<1>2. providerCh # <<>> /\ s \in UnitState \cup {None}
  BY Zenon, HeadUpdate DEF RunUnits
<1>3. CASE s = None
  BY <1>1, <1>3 DEF Entry, Untouched
<1>4. CASE s # None /\ RuleHits(u) = {}
  <2>1. getItemFromUnit(u, s) = None
    BY <1>4 DEF getItemFromUnit
  <2> QED
    BY <1>1, <1>4, <2>1 DEF UnitEntry, Entry, Untouched
<1>5. CASE s # None /\ RuleHits(u) # {}
  <2> DEFINE item == getItemFromUnit(u, s)
  <2>1. /\ item \in RuledItem /\ item.details = s /\ s \in UnitState /\ item # None
        /\ e(u) = UnitEntry(u, s)
    BY <1>2, <1>5, ItemOfUnit, NoneAssumption
  <2>2. item.state \in ItemState /\ item.resolve \in Policy \cup {None}
    BY <2>1 DEF RuledItem
  <2>3. incident[u] \in IncidentType \cup {None}
    BY DEF Types
  <2>4. CASE item.state # OK
    <3>1. e(u) = NotOKEntry(u, item)
      BY Zenon, <2>1, <2>4 DEF UnitEntry
    <3> DEFINE resolve == IF incident[u] = None THEN item.resolve ELSE incident[u].resolve
    <3>2. resolve \in Policy \cup {None}
      BY <2>2, <2>3 DEF IncidentType
    <3>3. /\ e(u).incident = [resolve |-> resolve, state |-> item.state, deferred |-> None]
          /\ e(u).pending = None /\ e(u).item = Item(item.state, s)
      BY <2>1, <3>1 DEF NotOKEntry, Entry
    <3> HIDE DEF resolve, item, e, s
    <3>4. Worsens(u, s)
      BY Zenon, <1>1, <2>2, <2>4, <3>2, <3>3 DEF Worsens, resolve, item
    <3> QED
      BY Zenon, <1>5, <3>4 DEF Changes, s
  <2>5. CASE item.state = OK /\ (incident[u] = None \/ incident[u].resolve = None)
    <3>1. e(u) = Entry(None, None, Item(OK, s))
      BY Zenon, <2>1, <2>5 DEF UnitEntry
    <3>2. e(u).incident = None /\ e(u).pending = None /\ e(u).item = Item(OK, s)
      BY <3>1 DEF Entry
    <3>3. Recovers(u, s)
      BY Zenon, <1>1, <2>5, <3>2 DEF Recovers
    <3> QED
      BY Zenon, <1>5, <3>3 DEF Changes
  <2>6. CASE item.state = OK /\ incident[u] # None /\ incident[u].resolve # None
    <3>1. e(u) = DeferredEntry(u, s)
      BY Zenon, <2>1, <2>6 DEF UnitEntry
    <3> HIDE DEF e
    <3>2. /\ e(u).incident = [incident[u] EXCEPT !.deferred = s]
          /\ e(u).item = IF incident[u].deferred = s THEN None ELSE Item(incident[u].state, s)
          /\ e(u).pending = IF s \notin incident[u].resolve.states THEN None
                            ELSE IF pending[u] # None THEN [pending[u] EXCEPT !.details = s]
                            ELSE [details |-> s, generation |-> nextGeneration + 1,
                                  left |-> incident[u].resolve.after, fired |-> FALSE]
      <4>1. CASE s \notin incident[u].resolve.states
        BY <3>1, <4>1 DEF DeferredEntry, Entry
      <4>2. CASE s \in incident[u].resolve.states /\ pending[u] # None
        BY <3>1, <4>2 DEF DeferredEntry, Entry
      <4>3. CASE s \in incident[u].resolve.states /\ pending[u] = None
        BY <3>1, <4>3 DEF DeferredEntry, Entry
      <4> QED
        BY Zenon, <4>1, <4>2, <4>3
    <3>3. s \in incident[u].resolve.states =>
              recovered'[u] = IF recovered[u] = None THEN 0 ELSE recovered[u]
      <4>1. opened[u] = incident[u].resolve
        BY Zenon, <2>6 DEF PolicyInv
      <4> QED
        BY Zenon, <1>1, <1>5, <2>6, <4>1 DEF RecoveredAfter
    <3> HIDE DEF s
    <3>4. Defers(u, s)
      BY Zenon, <1>1, <2>6, <3>2, <3>3 DEF Defers
    <3> QED
      BY Zenon, <1>5, <3>4 DEF Changes, s
  <2> QED
    BY Zenon, <2>4, <2>5, <2>6
<1> QED
  BY Zenon, <1>3, <1>4, <1>5

\* The rest of what an update changes.
LEMMA UpdateHandled ==
  ASSUME Types, RunUnits
  PROVE  /\ runPc = "select" /\ providerCh # <<>> /\ ~Head(providerCh).err
         /\ providerCh' = Tail(providerCh) /\ firstUpdate' = FALSE
         /\ UNCHANGED <<emits, provider, emitted, shuttingDown, callbacks, readyCh, updCh,
                        published, closePc>>
         /\ incident' = [v \in Unit |-> incident'[v]]
         /\ pending' = [v \in Unit |-> pending'[v]]
         /\ recovered' = [v \in Unit |-> recovered'[v]]
         /\ outUpd' = [v \in Unit |-> outUpd'[v]]
         /\ nextGeneration' \in {nextGeneration, nextGeneration + 1}
         /\ \A u \in Unit : pending[u] = None /\ pending'[u] # None =>
                nextGeneration' = nextGeneration + 1
         /\ runPc' = IF outUpd' = NoItems THEN "select" ELSE "send"
<1> DEFINE entries == [u \in Unit |->
                          IF Handled[u] = None THEN Entry(incident[u], pending[u], None)
                          ELSE UnitEntry(u, Handled[u])]
<1>1. /\ runPc = "select" /\ providerCh # <<>> /\ ~Head(providerCh).err
      /\ providerCh' = Tail(providerCh) /\ firstUpdate' = FALSE
      /\ UNCHANGED <<emits, provider, emitted, shuttingDown, callbacks, readyCh, updCh,
                     published, closePc>>
  BY Zenon DEF RunUnits, chanVars
<1>2. /\ incident' = [u \in Unit |-> entries[u].incident]
      /\ pending' = [u \in Unit |-> entries[u].pending]
      /\ recovered' = [u \in Unit |-> IF Handled[u] = None \/ RuleHits(u) = {} THEN recovered[u]
                                      ELSE RecoveredAfter(u, Handled[u])]
      /\ nextGeneration' = IF \E u \in Unit : pending[u] = None /\ entries[u].pending # None
                           THEN nextGeneration + 1 ELSE nextGeneration
      /\ Send([u \in Unit |-> entries[u].item])
  BY Zenon DEF RunUnits, Handled
<1> HIDE DEF entries
<1>3. /\ outUpd' = [u \in Unit |-> entries[u].item]
      /\ runPc' = IF outUpd' = NoItems THEN "select" ELSE "send"
  BY Zenon, <1>2 DEF Send
<1>4. \A u \in Unit : pending'[u] = entries[u].pending
  BY Zenon, <1>2
<1>5. /\ nextGeneration' \in {nextGeneration, nextGeneration + 1}
      /\ \A u \in Unit : pending[u] = None /\ pending'[u] # None =>
             nextGeneration' = nextGeneration + 1
  BY ZenonT(30), <1>2, <1>4
<1>6. /\ incident' = [v \in Unit |-> incident'[v]] /\ pending' = [v \in Unit |-> pending'[v]]
      /\ recovered' = [v \in Unit |-> recovered'[v]] /\ outUpd' = [v \in Unit |-> outUpd'[v]]
  BY <1>2, <1>3
<1> QED
  BY Zenon, <1>1, <1>3, <1>5, <1>6

-----------------------------------------------------------------------------
(* Types and timers.                                                       *)

\* The types of a unit's entries after an update.
LEMMA UnitTypes ==
  ASSUME Types, PolicyInv, RunUnits, NEW u \in Unit
  PROVE  /\ incident'[u] \in IncidentType \cup {None}
         /\ pending'[u] \in PendingType \cup {None}
         /\ outUpd'[u] \in ItemType \cup {None}
         /\ recovered'[u] \in (0..MaxAfter) \cup {None}
<1> DEFINE s == Handled[u]
<1>1. /\ incident[u] \in IncidentType \cup {None} /\ pending[u] \in PendingType \cup {None}
      /\ recovered[u] \in (0..MaxAfter) \cup {None} /\ nextGeneration \in Nat
      /\ providerCh # <<>>
  BY Zenon DEF Types, RunUnits
<1>2. s \in UnitState \cup {None}
  BY <1>1, HeadUpdate
<1>3. recovered'[u] \in (0..MaxAfter) \cup {None}
  <2>1. recovered'[u] \in {recovered[u], 0, None}
    BY Zenon DEF RunUnits, RecoveredAfter, Handled
  <2> QED
    BY <1>1, <2>1, SystemdAssumption
<1>4. CASE Handled[u] = None \/ RuleHits(u) = {}
  BY <1>1, <1>3, <1>4, UnitChanges DEF Untouched
<1>5. CASE s # None /\ RuleHits(u) # {}
  <2>1. Changes(u, s) /\ s \in UnitState
    BY Zenon, <1>2, <1>5, UnitChanges
  <2> HIDE DEF s
  <2>2. CASE Worsens(u, s)
    BY <1>3, <2>1, <2>2 DEF Worsens, IncidentType, ItemType, Item
  <2>3. CASE Recovers(u, s)
    BY <1>3, <2>1, <2>3 DEF Recovers, ItemType, Item, ItemState
  <2>4. CASE Defers(u, s)
    <3>1. incident[u] \in IncidentType /\ incident[u].state \in ItemState
          /\ incident[u].resolve \in Policy
      BY <1>1, <2>4 DEF Defers, IncidentType
    <3>2. incident'[u] \in IncidentType
      BY <2>1, <2>4, <3>1 DEF Defers, IncidentType
    <3>3. outUpd'[u] \in ItemType \cup {None}
      BY <2>1, <2>4, <3>1 DEF Defers, ItemType, Item
    <3>4. pending'[u] \in PendingType \cup {None}
      <4>1. incident[u].resolve.after \in 0..MaxAfter
        BY <3>1, SystemdAssumption DEF Policy
      <4>2. [details |-> s, generation |-> nextGeneration + 1,
             left |-> incident[u].resolve.after, fired |-> FALSE] \in PendingType
        BY <1>1, <2>1, <4>1 DEF PendingType
      <4>3. pending[u] # None => [pending[u] EXCEPT !.details = s] \in PendingType
        BY <1>1, <2>1 DEF PendingType
      <4> QED
        BY Zenon, <2>4, <4>2, <4>3 DEF Defers
    <3> QED
      BY Zenon, <1>3, <3>2, <3>3, <3>4
  <2> QED
    BY Zenon, <2>1, <2>2, <2>3, <2>4 DEF Changes
<1> QED
  BY ZenonT(30), <1>4, <1>5

\* The collector's variables keep their types when it handles an update.
LEMMA UnitsKeepTypes ==
  ASSUME Types, PolicyInv, RunUnits
  PROVE  Types'
<1>1. /\ incident' \in [Unit -> IncidentType \cup {None}]
      /\ pending' \in [Unit -> PendingType \cup {None}]
      /\ outUpd' \in [Unit -> ItemType \cup {None}]
      /\ recovered' \in [Unit -> (0..MaxAfter) \cup {None}]
  BY Zenon, UnitTypes, UpdateHandled
<1>2. /\ providerCh' \in Seq(ProviderUpdate) /\ firstUpdate' \in BOOLEAN /\ nextGeneration' \in Nat
      /\ UNCHANGED <<provider, emitted, callbacks, readyCh, updCh, published>>
  <2>1. nextGeneration \in Nat
    BY Zenon DEF Types
  <2>2. nextGeneration' \in {nextGeneration, nextGeneration + 1}
    BY Zenon, UpdateHandled
  <2>3. nextGeneration' \in Nat
    BY <2>1, <2>2
  <2> QED
    BY Zenon, <2>3, UpdateHandled, HeadUpdate
<1> QED
  BY Zenon, <1>1, <1>2 DEF Types, UpdateType

\* A timer that an update starts is newer than every message on its way.
LEMMA UnitsKeepTimers ==
  ASSUME Types, PolicyInv, TimerInv, RunUnits
  PROVE  TimerInv'
<1>1. nextGeneration \in Nat /\ nextGeneration' \in {nextGeneration, nextGeneration + 1}
  BY Zenon, UpdateHandled DEF Types
<1>2. ASSUME NEW u \in Unit, pending'[u] # None
      PROVE  /\ Timed(u)'
             /\ \/ /\ pending[u] # None /\ pending'[u].generation = pending[u].generation
                   /\ pending'[u].left = pending[u].left
                \/ pending'[u].generation > nextGeneration
  <2> DEFINE s == Handled[u]
  <2>1. /\ incident[u] \in IncidentType \cup {None} /\ pending[u] \in PendingType \cup {None}
        /\ recovered[u] \in (0..MaxAfter) \cup {None}
        /\ pending[u] # None => Timed(u)
    BY DEF Types, TimerInv
  <2>2. CASE s = None \/ RuleHits(u) = {}
    <3>1. Untouched(u)
      BY Zenon, <2>2, UnitChanges
    <3>2. Timed(u) /\ pending[u] # None
      BY <1>2, <2>1, <3>1 DEF Untouched
    <3>3. pending[u].generation \in Nat
      BY <2>1, <3>2 DEF PendingType
    <3> QED
      BY <1>1, <3>1, <3>2, <3>3 DEF Untouched, Timed
  <2>3. CASE s # None /\ RuleHits(u) # {}
    <3>1. Changes(u, s) /\ s # None
      BY Zenon, <2>3, UnitChanges
    <3> HIDE DEF s
    <3>2. Defers(u, s)
      BY Zenon, <1>2, <3>1 DEF Changes, Worsens, Recovers
    <3>3. /\ incident[u] \in IncidentType /\ incident[u].resolve \in Policy
          /\ incident[u].resolve.after \in Nat
      BY <2>1, <3>2, SystemdAssumption DEF Defers, IncidentType, Policy
    <3>4. /\ incident'[u].resolve = incident[u].resolve /\ incident'[u].deferred = s
          /\ incident'[u] # None /\ incident'[u].resolve # None
      <4>1. incident'[u] \in IncidentType \cup {None}
        BY UnitTypes
      <4>2. s \in UnitState
        BY Zenon, <2>3, HeadUpdate DEF RunUnits, s
      <4>3. [incident[u] EXCEPT !.deferred = s] \in IncidentType
        BY <3>3, <4>2 DEF IncidentType
      <4> QED
        BY <3>2, <3>3, <4>3, NoneAssumption DEF Defers, IncidentType
    <3>5. recovered'[u] = IF recovered[u] = None THEN 0 ELSE recovered[u]
      BY Zenon, <1>2, <3>2 DEF Defers
    <3>6. CASE pending[u] # None
      <4>1. pending'[u] = [pending[u] EXCEPT !.details = s]
        BY Zenon, <1>2, <3>2, <3>6 DEF Defers
      <4>2. /\ pending'[u].details = s /\ pending'[u].generation = pending[u].generation
            /\ pending'[u].left = pending[u].left /\ pending[u].generation \in Nat
        BY <2>1, <3>6, <4>1 DEF PendingType
      <4>3. recovered'[u] = recovered[u] /\ recovered[u] # None
        BY <2>1, <3>5, <3>6 DEF Timed
      <4> QED
        BY <1>1, <2>1, <3>4, <3>6, <4>2, <4>3 DEF Timed
    <3>7. CASE pending[u] = None
      <4>1. pending'[u] = [details |-> s, generation |-> nextGeneration + 1,
                           left |-> incident[u].resolve.after, fired |-> FALSE]
        BY Zenon, <1>2, <3>2, <3>7 DEF Defers
      <4>2. nextGeneration' = nextGeneration + 1
        BY <1>2, <3>7, UpdateHandled
      <4>3. recovered'[u] \in Nat /\ recovered'[u] # None
        BY <2>1, <3>5, SystemdAssumption, NoneAssumption
      <4> QED
        BY <1>1, <3>3, <3>4, <4>1, <4>2, <4>3 DEF Timed
    <3> QED
      BY Zenon, <3>6, <3>7
  <2> QED
    BY Zenon, <2>2, <2>3
<1>3. ASSUME NEW r \in ReadyType, Due(r) PROVE Due(r)'
  <2>1. r.key \in Unit /\ r.generation \in Nat
    BY DEF ReadyType
  <2>2. r.generation <= nextGeneration'
    BY <1>1, <1>3, <2>1 DEF Due
  <2>3. ASSUME pending'[r.key] # None, pending'[r.key].generation = r.generation
        PROVE  pending'[r.key].left = 0
    <3>1. pending'[r.key].generation <= nextGeneration
      BY <1>3, <2>3 DEF Due
    <3>2. ~(r.generation > nextGeneration)
      BY <1>1, <1>3, <2>1 DEF Due
    <3> QED
      BY <1>2, <1>3, <2>1, <2>3, <3>2 DEF Due
  <2> QED
    BY Zenon, <2>2, <2>3 DEF Due
<1>4. callbacks \subseteq ReadyType /\ (\A i \in 1..Len(readyCh) : readyCh[i] \in ReadyType)
      /\ UNCHANGED <<callbacks, readyCh>>
  <2>1. callbacks \subseteq ReadyType /\ readyCh \in Seq(ReadyType)
    BY Zenon DEF Types
  <2>2. \A i \in 1..Len(readyCh) : readyCh[i] \in ReadyType
    BY <2>1
  <2> QED
    BY Zenon, <2>1, <2>2, UpdateHandled
<1> QED
  BY Zenon, <1>2, <1>3, <1>4 DEF TimerInv

\* A step that leaves the timers alone and adds no message.
LEMMA TimersAlone ==
  ASSUME TimerInv, UNCHANGED <<incident, pending, recovered, nextGeneration>>,
         callbacks' \subseteq callbacks,
         \A i \in 1..Len(readyCh') : \/ readyCh'[i] \in callbacks
                                     \/ \E j \in 1..Len(readyCh) : readyCh'[i] = readyCh[j]
  PROVE  TimerInv'
<1>1. \A u : pending'[u] # None /\ Timed(u) => Timed(u)'
  BY Zenon DEF Timed
<1>2. \A ready : Due(ready) => Due(ready)'
  BY Zenon DEF Due
<1> QED
  BY Zenon, <1>1, <1>2 DEF TimerInv

\* The messages that are left when the first one is taken.
LEMMA MessageTaken ==
  ASSUME readyCh \in Seq(ReadyType), readyCh # <<>>, readyCh' = Tail(readyCh)
  PROVE  /\ readyCh' \in Seq(ReadyType) /\ Head(readyCh) \in ReadyType
         /\ 1 \in 1..Len(readyCh) /\ Head(readyCh) = readyCh[1]
         /\ \A i \in 1..Len(readyCh') : \E j \in 1..Len(readyCh) : readyCh'[i] = readyCh[j]
<1>1. /\ readyCh' \in Seq(ReadyType) /\ Head(readyCh) \in ReadyType
      /\ 1 \in 1..Len(readyCh) /\ Head(readyCh) = readyCh[1]
  OBVIOUS
<1>2. \A i \in 1..Len(readyCh') : i + 1 \in 1..Len(readyCh) /\ readyCh'[i] = readyCh[i + 1]
  OBVIOUS
<1> QED
  BY Zenon, <1>1, <1>2

\* Time passes.
LEMMA TickStep ==
  ASSUME Types, TimerInv, Tick
  PROVE  Types' /\ TimerInv'
<1>1. /\ UNCHANGED <<providerCh, provider, emitted, firstUpdate, incident, nextGeneration, outUpd,
                     callbacks, readyCh, updCh, published>>
      /\ pending' = [u \in Unit |->
            IF pending[u] = None \/ pending[u].left = 0 THEN pending[u]
            ELSE [pending[u] EXCEPT !.left = @ - 1]]
      /\ recovered' = [u \in Unit |->
            IF recovered[u] \in {None, MaxAfter} THEN recovered[u] ELSE recovered[u] + 1]
  BY Zenon DEF Tick, chanVars
<1>2. ASSUME NEW u \in Unit
      PROVE  /\ pending[u] \in PendingType \cup {None} /\ pending'[u] \in PendingType \cup {None}
             /\ recovered[u] \in (0..MaxAfter) \cup {None}
             /\ recovered'[u] \in (0..MaxAfter) \cup {None}
             /\ pending'[u] # None => /\ pending[u] # None
                                      /\ pending'[u].details = pending[u].details
                                      /\ pending'[u].generation = pending[u].generation
                                      /\ pending[u].left = 0 => pending'[u].left = 0
                                      /\ pending'[u].left \in Nat /\ pending[u].left \in Nat
                                      /\ pending'[u].left >= pending[u].left - 1
                                      /\ pending'[u].generation \in Nat
  <2>1. pending[u] \in PendingType \cup {None} /\ recovered[u] \in (0..MaxAfter) \cup {None}
    BY Zenon DEF Types
  <2>2. recovered'[u] \in (0..MaxAfter) \cup {None}
    BY <1>1, <2>1, SystemdAssumption, NoneAssumption
  <2>3. CASE pending[u] = None \/ pending[u].left = 0
    BY <1>1, <2>1, <2>2, <2>3, SystemdAssumption DEF PendingType
  <2>4. CASE pending[u] # None /\ pending[u].left # 0
    <3>1. pending'[u] = [pending[u] EXCEPT !.left = pending[u].left - 1]
      BY <1>1, <2>4
    <3>2. pending[u] \in PendingType /\ pending[u].left - 1 \in 0..MaxAfter
      BY <2>1, <2>4, SystemdAssumption DEF PendingType
    <3>3. pending'[u] \in PendingType
      BY <3>1, <3>2 DEF PendingType
    <3>4. /\ pending'[u].details = pending[u].details
          /\ pending'[u].generation = pending[u].generation /\ pending[u].generation \in Nat
          /\ pending'[u].left = pending[u].left - 1
      BY <3>1, <3>2 DEF PendingType
    <3>5. /\ pending[u].left \in Nat /\ pending'[u].left \in Nat
          /\ pending'[u].left >= pending[u].left - 1
      BY <3>2, <3>4, SystemdAssumption DEF PendingType
    <3> QED
      BY Zenon, <2>1, <2>2, <2>4, <3>3, <3>4, <3>5
  <2> QED
    BY Zenon, <2>3, <2>4
<1>3. Types'
  <2>1. /\ pending' \in [Unit -> PendingType \cup {None}]
        /\ recovered' \in [Unit -> (0..MaxAfter) \cup {None}]
    BY Zenon, <1>1, <1>2
  <2> QED
    BY Zenon, <1>1, <2>1 DEF Types
<1>4. ASSUME NEW u \in Unit, pending'[u] # None PROVE Timed(u)'
  <2>1. Timed(u) /\ pending[u] # None
    BY Zenon, <1>2, <1>4 DEF TimerInv
  <2>2. incident[u] \in IncidentType /\ incident[u].resolve \in Policy
    BY <2>1 DEF Types, Timed, IncidentType
  <2>3. incident[u].resolve.after \in 1..MaxAfter
    BY <2>2 DEF Policy
  <2>4. recovered[u] \in 0..MaxAfter /\ recovered[u] # None
    BY <1>2, <2>1 DEF Timed
  <2>5. /\ recovered'[u] = IF recovered[u] = MaxAfter THEN MaxAfter ELSE recovered[u] + 1
        /\ recovered'[u] # None
    BY <1>1, <2>4, SystemdAssumption, NoneAssumption
  <2>6. recovered'[u] + pending'[u].left >= incident[u].resolve.after
    <3> DEFINE r == recovered[u]
               l == pending[u].left
               k == pending'[u].left
               a == incident[u].resolve.after
    <3>1. /\ l \in Nat /\ k \in Nat /\ k >= l - 1 /\ r + l >= a
          /\ r \in 0..MaxAfter /\ a \in 1..MaxAfter /\ MaxAfter \in Nat
          /\ recovered'[u] = IF r = MaxAfter THEN MaxAfter ELSE r + 1
      BY Zenon, <1>2, <1>4, <2>1, <2>3, <2>4, <2>5, SystemdAssumption DEF Timed
    <3> HIDE DEF r, l, k, a
    <3>2. recovered'[u] + k >= a
      BY <3>1
    <3> QED
      BY Zenon, <3>2 DEF k, a
  <2> QED
    BY Zenon, <1>1, <1>2, <1>4, <2>1, <2>5, <2>6 DEF Timed
<1>5. ASSUME NEW r \in ReadyType, Due(r) PROVE Due(r)'
  <2>1. r.key \in Unit
    BY DEF ReadyType
  <2> QED
    BY <1>1, <1>2, <1>5, <2>1 DEF Due
<1>6. callbacks \subseteq ReadyType /\ (\A i \in 1..Len(readyCh) : readyCh[i] \in ReadyType)
  <2>1. callbacks \subseteq ReadyType /\ readyCh \in Seq(ReadyType)
    BY Zenon DEF Types
  <2> QED
    BY <2>1
<1> QED
  BY Zenon, <1>1, <1>3, <1>4, <1>5, <1>6 DEF TimerInv

\* The timer of a unit expires.
LEMMA FireStep ==
  ASSUME Types, TimerInv, NEW u \in Unit, TimerFire(u)
  PROVE  Types' /\ TimerInv'
<1> DEFINE m == [key |-> u, generation |-> pending[u].generation]
<1>1. /\ UNCHANGED <<providerCh, provider, emitted, firstUpdate, incident, nextGeneration, outUpd,
                     readyCh, updCh, published, recovered>>
      /\ pending[u] # None /\ pending[u].left = 0
      /\ pending' = [pending EXCEPT ![u] = [pending[u] EXCEPT !.fired = TRUE]]
      /\ callbacks' = callbacks \cup {m}
  BY DEF TimerFire, providerVars
<1>2. pending \in [Unit -> PendingType \cup {None}] /\ pending[u] \in PendingType
  BY <1>1 DEF Types
<1>3. /\ pending'[u] \in PendingType /\ pending'[u].details = pending[u].details
      /\ pending'[u].generation = pending[u].generation /\ pending'[u].left = pending[u].left
  BY Zenon, <1>1, <1>2 DEF PendingType
<1>4. \A v \in Unit : v # u => pending'[v] = pending[v]
  BY <1>1, <1>2
<1>5. m \in ReadyType /\ m.key = u /\ m.generation = pending[u].generation
  BY <1>2 DEF ReadyType, PendingType
<1> HIDE DEF m
<1>6. Types'
  <2>1. pending' \in [Unit -> PendingType \cup {None}]
    BY <1>1, <1>2, <1>3, <1>4
  <2> QED
    BY Zenon, <1>1, <1>5, <2>1 DEF Types
<1>7. \A v \in Unit : pending'[v] # None => Timed(v)'
  <2> SUFFICES ASSUME NEW v \in Unit, pending'[v] # None PROVE Timed(v)'
    OBVIOUS
  <2>1. pending[v] # None /\ Timed(v)
    BY Zenon, <1>1, <1>4 DEF TimerInv
  <2>2. /\ pending'[v].details = pending[v].details
        /\ pending'[v].generation = pending[v].generation /\ pending'[v].left = pending[v].left
    BY Zenon, <1>3, <1>4
  <2> QED
    BY Zenon, <1>1, <2>1, <2>2 DEF Timed
<1>8. ASSUME NEW r \in ReadyType, Due(r) \/ r = m PROVE Due(r)'
  <2>1. r.key \in Unit
    BY DEF ReadyType
  <2>2. CASE r = m
    <3>1. Timed(u)
      BY Zenon, <1>1 DEF TimerInv
    <3> QED
      BY Zenon, <1>1, <1>3, <1>5, <2>2, <3>1 DEF Due, Timed
  <2>3. CASE Due(r) /\ r.key # u
    BY Zenon, <1>1, <1>4, <2>1, <2>3 DEF Due
  <2>4. CASE Due(r) /\ r.key = u
    BY Zenon, <1>1, <1>3, <2>1, <2>4 DEF Due
  <2> QED
    BY Zenon, <1>8, <2>2, <2>3, <2>4
<1>9. callbacks \subseteq ReadyType /\ (\A i \in 1..Len(readyCh) : readyCh[i] \in ReadyType)
  <2>1. callbacks \subseteq ReadyType /\ readyCh \in Seq(ReadyType)
    BY Zenon DEF Types
  <2> QED
    BY <2>1
<1> QED
  BY Zenon, <1>1, <1>5, <1>6, <1>7, <1>8, <1>9 DEF TimerInv

\* What the end of a recovery window changes, for the unit k of the message.
LEMMA WindowOver ==
  ASSUME Types, TimerInv, RunResolve
  PROVE  \E k \in Unit :
            /\ pending[k] # None /\ pending[k] \in PendingType /\ pending[k].left = 0 /\ Timed(k)
            /\ incident[k] \in IncidentType
            /\ pending' = [pending EXCEPT ![k] = None]
            /\ incident' = [incident EXCEPT ![k] = None]
            /\ recovered' = [recovered EXCEPT ![k] = None]
            /\ outUpd' = [NoItems EXCEPT ![k] = Item(OK, pending[k].details)]
            /\ runPc = "select" /\ runPc' \in {"select", "send"}
            /\ runPc' = "select" => outUpd' = NoItems
            /\ UNCHANGED <<providerVars, firstUpdate, shuttingDown, nextGeneration,
                           callbacks, updCh, published, closePc>>
            /\ readyCh # <<>> /\ readyCh' = Tail(readyCh)
<1> DEFINE k == Head(readyCh).key
<1>1. /\ runPc = "select" /\ readyCh # <<>> /\ IsCurrent(Head(readyCh))
      /\ pending' = [pending EXCEPT ![k] = None] /\ incident' = [incident EXCEPT ![k] = None]
      /\ recovered' = [recovered EXCEPT ![k] = None]
      /\ Send([NoItems EXCEPT ![k] = Item(OK, pending[k].details)])
      /\ readyCh' = Tail(readyCh)
      /\ UNCHANGED <<providerVars, firstUpdate, shuttingDown, nextGeneration,
                     callbacks, updCh, published, closePc>>
  BY Zenon DEF RunResolve
<1>2. readyCh \in Seq(ReadyType)
  BY Zenon DEF Types
<1>3. Head(readyCh) \in ReadyType /\ 1 \in 1..Len(readyCh) /\ Head(readyCh) = readyCh[1]
  BY <1>1, <1>2
<1>4. Due(Head(readyCh)) /\ k \in Unit
  BY <1>3 DEF TimerInv, ReadyType
<1>5. pending[k] # None /\ pending[k].left = 0 /\ Timed(k)
  BY Zenon, <1>1, <1>4 DEF IsCurrent, Due, TimerInv
<1>6. pending[k] \in PendingType /\ incident[k] \in IncidentType
  BY Zenon, <1>4, <1>5 DEF Types, Timed
<1>7. /\ outUpd' = [NoItems EXCEPT ![k] = Item(OK, pending[k].details)]
      /\ runPc' \in {"select", "send"} /\ (runPc' = "select" => outUpd' = NoItems)
  BY Zenon, <1>1 DEF Send
<1> QED
  BY Zenon, <1>1, <1>4, <1>5, <1>6, <1>7

\* The collector resolves the incidents whose timers have expired.
LEMMA ResolveStep ==
  ASSUME Types, TimerInv, RunResolve
  PROVE  Types' /\ TimerInv'
<1>1. PICK k \in Unit :
        /\ pending[k] # None /\ pending[k] \in PendingType
        /\ pending' = [pending EXCEPT ![k] = None]
        /\ incident' = [incident EXCEPT ![k] = None]
        /\ recovered' = [recovered EXCEPT ![k] = None]
        /\ outUpd' = [NoItems EXCEPT ![k] = Item(OK, pending[k].details)]
        /\ UNCHANGED <<providerVars, firstUpdate, shuttingDown, nextGeneration,
                       callbacks, updCh, published, closePc>>
        /\ readyCh # <<>> /\ readyCh' = Tail(readyCh)
  BY Zenon, WindowOver
<1>2. /\ pending \in [Unit -> PendingType \cup {None}]
      /\ incident \in [Unit -> IncidentType \cup {None}]
      /\ recovered \in [Unit -> (0..MaxAfter) \cup {None}] /\ readyCh \in Seq(ReadyType)
      /\ callbacks \subseteq ReadyType
  BY Zenon DEF Types
<1>3. /\ readyCh' \in Seq(ReadyType)
      /\ \A i \in 1..Len(readyCh') : \E j \in 1..Len(readyCh) : readyCh'[i] = readyCh[j]
  BY Zenon, <1>1, <1>2, MessageTaken
<1>4. UNCHANGED <<providerCh, provider, emitted, firstUpdate, nextGeneration, callbacks, updCh,
                  published>>
  BY Zenon, <1>1 DEF providerVars
<1>5. Types'
  <2>1. Item(OK, pending[k].details) \in ItemType
    BY <1>1 DEF Item, ItemType, ItemState, PendingType
  <2>2. outUpd' \in UpdateType
    BY <1>1, <2>1 DEF NoItems, UpdateType
  <2>3. /\ pending' \in [Unit -> PendingType \cup {None}]
        /\ incident' \in [Unit -> IncidentType \cup {None}]
        /\ recovered' \in [Unit -> (0..MaxAfter) \cup {None}]
    BY <1>1, <1>2
  <2> QED
    BY Zenon, <1>3, <1>4, <2>2, <2>3 DEF Types
<1>6. /\ \A u \in Unit : u # k => /\ pending'[u] = pending[u] /\ incident'[u] = incident[u]
                                  /\ recovered'[u] = recovered[u]
      /\ pending'[k] = None
  BY <1>1, <1>2
<1>7. \A u \in Unit : pending'[u] # None => Timed(u)'
  BY Zenon, <1>4, <1>6 DEF TimerInv, Timed
<1>8. \A r \in ReadyType : Due(r) => Due(r)'
  <2>1. \A r \in ReadyType : r.key \in Unit
    BY DEF ReadyType
  <2> QED
    BY Zenon, <1>4, <1>6, <2>1 DEF Due
<1>9. \A i \in 1..Len(readyCh) : readyCh[i] \in ReadyType
  BY <1>2
<1> QED
  BY Zenon, <1>2, <1>3, <1>4, <1>5, <1>7, <1>8, <1>9 DEF TimerInv

\* run returns: its timers are stopped.
LEMMA ReturnStep ==
  ASSUME Types, TimerInv, RunReturn
  PROVE  Types' /\ TimerInv'
<1>1. /\ pending' = [u \in Unit |-> None]
      /\ UNCHANGED <<providerCh, provider, emitted, firstUpdate, incident, nextGeneration, outUpd,
                     callbacks, readyCh, updCh, published, recovered>>
  BY Zenon DEF RunReturn, providerVars, chanVars
<1>2. pending' \in [Unit -> PendingType \cup {None}] /\ \A u \in Unit : pending'[u] = None
  BY <1>1
<1>3. Types'
  BY Zenon, <1>1, <1>2 DEF Types
<1>4. \A r \in ReadyType : Due(r) => Due(r)'
  <2>1. \A r \in ReadyType : r.key \in Unit
    BY DEF ReadyType
  <2> QED
    BY Zenon, <1>1, <1>2, <2>1 DEF Due
<1>5. callbacks \subseteq ReadyType /\ readyCh \in Seq(ReadyType)
  BY Zenon DEF Types
<1>6. \A i \in 1..Len(readyCh) : readyCh[i] \in ReadyType
  BY <1>5
<1> QED
  BY Zenon, <1>1, <1>2, <1>3, <1>4, <1>5, <1>6 DEF TimerInv

\* The steps on the channels.
LEMMA ChannelSteps ==
  ASSUME Types, TimerInv,
         \/ ProviderEmit \/ ProviderError \/ ProviderStop \/ RunDrain \/ RunError
         \/ RunStaleReady \/ RunSend \/ RunDrop \/ CallbackStep \/ CoreReceive
         \/ CloseTeardown \/ CloseProvider \/ CloseReturn \/ UNCHANGED vars
  PROVE  Types' /\ TimerInv'
<1> DEFINE Timers == <<incident, pending, recovered, nextGeneration>>
           Ready == <<callbacks, readyCh>>
           Updates == <<providerCh, provider, emitted>>
           Items == <<outUpd, updCh, published>>
<1>1. /\ providerCh \in Seq(ProviderUpdate) /\ readyCh \in Seq(ReadyType)
      /\ callbacks \subseteq ReadyType /\ updCh \in Seq(UpdateType) /\ outUpd \in UpdateType
      /\ published \in UpdateType /\ emitted \in [Unit -> UnitState \cup {None}]
  BY Zenon DEF Types
<1>2. NoItems \in UpdateType /\ NoItems \in [Unit -> UnitState \cup {None}]
  BY DEF NoItems, UpdateType
<1>3. ASSUME UNCHANGED Timers, UNCHANGED Ready PROVE TimerInv'
  BY Zenon, <1>3, TimersAlone DEF Timers, Ready
<1>4. ASSUME UNCHANGED Timers, UNCHANGED <<firstUpdate, readyCh, callbacks>>,
             /\ providerCh' \in Seq(ProviderUpdate) /\ provider' \in {"running", "done"}
             /\ emitted' \in [Unit -> UnitState \cup {None}],
             outUpd' \in UpdateType /\ updCh' \in Seq(UpdateType) /\ published' \in UpdateType
      PROVE  Types' /\ TimerInv'
  <2>1. TimerInv'
    BY Zenon, <1>3, <1>4 DEF Ready
  <2> QED
    BY Zenon, <1>4, <2>1 DEF Types, Timers
<1>5. CASE ProviderEmit
  <2>1. UNCHANGED <<Timers, Ready, Items, firstUpdate, provider>>
    BY Zenon, <1>5 DEF ProviderEmit, runVars, chanVars
  <2>2. PICK units \in [Unit -> UnitState \cup {None}] :
            /\ providerCh' = Append(providerCh, [err |-> FALSE, units |-> units])
            /\ emitted' = [u \in Unit |-> IF units[u] = None THEN emitted[u] ELSE units[u]]
    BY Zenon, <1>5 DEF ProviderEmit
  <2>3. providerCh' \in Seq(ProviderUpdate) /\ emitted' \in [Unit -> UnitState \cup {None}]
    BY <1>1, <2>2 DEF ProviderUpdate
  <2> QED
    BY Zenon, <1>1, <1>4, <2>1, <2>3 DEF Types, Items, Ready
<1>6. CASE ProviderError
  <2>1. UNCHANGED <<Timers, Ready, Items, firstUpdate, provider, emitted>>
    BY Zenon, <1>6 DEF ProviderError, runVars, chanVars
  <2>2. providerCh' = Append(providerCh, [err |-> TRUE, units |-> NoItems])
    BY Zenon, <1>6 DEF ProviderError
  <2>3. providerCh' \in Seq(ProviderUpdate)
    BY <1>1, <1>2, <2>2 DEF ProviderUpdate
  <2> QED
    BY Zenon, <1>1, <1>4, <2>1, <2>3 DEF Types, Items, Ready
<1>7. CASE ProviderStop
  <2>1. UNCHANGED <<Timers, Ready, Items, firstUpdate, providerCh, emitted>> /\ provider' = "done"
    BY Zenon, <1>7 DEF ProviderStop, runVars, chanVars
  <2> QED
    BY Zenon, <1>1, <1>4, <2>1 DEF Types, Items, Ready
<1>8. CASE RunDrain \/ RunError
  <2>1. /\ UNCHANGED <<Timers, Ready, Items, firstUpdate, provider, emitted>>
        /\ providerCh # <<>> /\ providerCh' = Tail(providerCh)
    BY Zenon, <1>8 DEF RunDrain, RunError, chanVars
  <2>2. providerCh' \in Seq(ProviderUpdate)
    BY Zenon, <2>1, HeadUpdate
  <2> QED
    BY Zenon, <1>1, <1>4, <2>1, <2>2 DEF Types, Items, Ready
<1>9. CASE RunStaleReady
  <2>1. /\ UNCHANGED <<Timers, Updates, Items, callbacks, firstUpdate>>
        /\ readyCh # <<>> /\ readyCh' = Tail(readyCh)
    BY Zenon, <1>9 DEF RunStaleReady, runVars, providerVars
  <2>2. /\ readyCh' \in Seq(ReadyType)
        /\ \A i \in 1..Len(readyCh') : \E j \in 1..Len(readyCh) : readyCh'[i] = readyCh[j]
    BY Zenon, <1>1, <2>1, MessageTaken
  <2>3. TimerInv'
    BY Zenon, <2>1, <2>2, TimersAlone DEF Timers
  <2> QED
    BY Zenon, <2>1, <2>2, <2>3 DEF Types, Timers, Items, Updates
<1>10. CASE RunSend \/ RunDrop
  <2>1. /\ UNCHANGED <<Timers, Ready, Updates, published, firstUpdate>>
        /\ outUpd' = NoItems /\ updCh' \in {updCh, Append(updCh, outUpd)}
    BY Zenon, <1>10 DEF RunSend, RunDrop, chanVars, providerVars
  <2>2. updCh' \in Seq(UpdateType)
    BY <1>1, <2>1
  <2> QED
    BY Zenon, <1>1, <1>2, <1>4, <2>1, <2>2 DEF Types, Updates, Ready
<1>11. CASE CallbackStep
  <2>1. PICK ready \in callbacks :
           /\ UNCHANGED <<Timers, Updates, Items, firstUpdate>>
           /\ callbacks' = callbacks \ {ready}
           /\ readyCh' \in {readyCh, Append(readyCh, ready)}
    BY Zenon, <1>11 DEF CallbackStep, CallbackSend, CallbackDrop, runVars, providerVars
  <2>2. readyCh \in Seq(ReadyType) /\ ready \in ReadyType
    BY Zenon, <1>1, <2>1
  <2>3. /\ readyCh' \in Seq(ReadyType)
        /\ \A i \in 1..Len(readyCh') : readyCh'[i] = ready
               \/ (i \in 1..Len(readyCh) /\ readyCh'[i] = readyCh[i])
    <3>1. readyCh' \in {readyCh, Append(readyCh, ready)}
      BY Zenon, <2>1
    <3> QED
      BY ONLY SMTT(20), <2>2, <3>1, MaybeAppended
  <2>4. TimerInv'
    BY Zenon, <2>1, <2>3, TimersAlone DEF Timers
  <2> QED
    BY Zenon, <2>1, <2>3, <2>4 DEF Types, Timers, Items, Updates
<1>12. CASE CoreReceive
  <2>1. /\ UNCHANGED <<Timers, Ready, Updates, outUpd, firstUpdate>>
        /\ published' = [u \in Unit |->
               IF Head(updCh)[u] = None THEN published[u] ELSE Head(updCh)[u]]
        /\ updCh # <<>> /\ updCh' = Tail(updCh)
    BY Zenon, <1>12 DEF CoreReceive, runVars, providerVars
  <2>2. updCh' \in Seq(UpdateType) /\ Head(updCh) \in UpdateType
    BY <1>1, <2>1
  <2>3. published' \in UpdateType
    BY <1>1, <2>1, <2>2 DEF UpdateType
  <2> QED
    BY Zenon, <1>1, <1>4, <2>1, <2>2, <2>3 DEF Types, Updates, Ready
<1>13. CASE CloseTeardown \/ CloseProvider \/ CloseReturn \/ UNCHANGED vars
  <2>1. UNCHANGED <<Timers, Ready, Updates, Items, firstUpdate>>
    BY Zenon, <1>13 DEF CloseTeardown, CloseProvider, CloseReturn, vars, providerVars, runVars,
                        chanVars
  <2> QED
    BY Zenon, <1>1, <1>4, <2>1 DEF Types, Updates, Items, Ready
<1> QED
  BY Zenon, <1>5, <1>6, <1>7, <1>8, <1>9, <1>10, <1>11, <1>12, <1>13

\* Every step keeps the types and the timer invariant.
LEMMA TimersStep ==
  ASSUME Types, PolicyInv, TimerInv, [Next]_vars
  PROVE  Types' /\ TimerInv'
<1>1. \/ RunUnits \/ Tick \/ (\E u \in Unit : TimerFire(u)) \/ RunResolve \/ RunReturn
      \/ ProviderEmit \/ ProviderError \/ ProviderStop \/ RunDrain \/ RunError
      \/ RunStaleReady \/ RunSend \/ RunDrop \/ CallbackStep \/ CoreReceive
      \/ CloseTeardown \/ CloseProvider \/ CloseReturn \/ UNCHANGED vars
  BY Zenon DEF Next, RunStep
<1> QED
  BY Zenon, <1>1, UnitsKeepTypes, UnitsKeepTimers, TickStep, FireStep, ResolveStep, ReturnStep,
     ChannelSteps

-----------------------------------------------------------------------------
(* Items on their way to the core.                                         *)

\* A nonempty set of indices of a sequence has a greatest element.
LEMMA GreatestExists ==
  ASSUME NEW n \in Nat, NEW S, S \subseteq 1..n, S # {}
  PROVE  \E x \in S : \A y \in S : y <= x
<1> DEFINE T == {n - x : x \in S}
<1>1. T \subseteq Nat /\ T # {}
  <2>1. \A x \in S : n - x \in Nat
    OBVIOUS
  <2> QED
    BY Zenon, <2>1
<1> HIDE DEF T
<1>2. PICK t \in T : \A y \in T : t <= y
  BY Zenon, <1>1, LeastExists
<1>3. PICK x \in S : t = n - x
  BY Zenon, <1>2 DEF T
<1>4. ASSUME NEW y \in S PROVE y <= x
  <2>1. n - y \in T
    BY Zenon, <1>4 DEF T
  <2>2. t <= n - y
    BY Zenon, <1>2, <2>1
  <2> QED
    BY <1>3, <2>2
<1> QED
  BY Zenon, <1>4

\* There is a newest item, possibly none.
LEMMA NewestExists ==
  ASSUME Types, NEW u \in Unit
  PROVE  \E item \in ItemType \cup {None} : Newest(u, item)
<1>1. updCh \in Seq(UpdateType) /\ outUpd \in UpdateType /\ published \in UpdateType
  BY Zenon DEF Types
<1>2. /\ Len(updCh) \in Nat /\ \A i \in 1..Len(updCh) : updCh[i][u] \in ItemType \cup {None}
      /\ outUpd[u] \in ItemType \cup {None} /\ published[u] \in ItemType \cup {None}
  BY <1>1 DEF UpdateType
<1> DEFINE S == {i \in 1..Len(updCh) : updCh[i][u] # None}
<1>3. CASE S = {}
  BY Zenon, <1>2, <1>3 DEF Newest
<1>4. CASE S # {}
  <2>1. S \subseteq 1..Len(updCh)
    OBVIOUS
  <2>2. PICK i \in S : \A j \in S : j <= i
    <3> HIDE DEF S
    <3> QED
      BY Zenon, <1>2, <1>4, <2>1, GreatestExists
  <2>3. \A j \in (i + 1)..Len(updCh) : updCh[j][u] = None
    <3> SUFFICES ASSUME NEW j \in (i + 1)..Len(updCh) PROVE updCh[j][u] = None
      OBVIOUS
    <3>1. j \in 1..Len(updCh) /\ ~(j <= i)
      BY <1>2, <2>1, <2>2
    <3> QED
      BY Zenon, <2>2, <3>1
  <2>4. i \in 1..Len(updCh) /\ updCh[i][u] # None
    BY Zenon, <2>2
  <2> QED
    BY Zenon, <1>2, <2>3, <2>4 DEF Newest
<1> QED
  BY Zenon, <1>3, <1>4

\* Sending an update does not change what is newest ...
LEMMA NewestSent ==
  ASSUME Types, NEW u \in Unit, NEW item, Newest(u, item)',
         updCh' = Append(updCh, outUpd), outUpd' = NoItems, UNCHANGED published
  PROVE  Newest(u, item)
<1>1. updCh \in Seq(UpdateType) /\ outUpd \in UpdateType /\ outUpd'[u] = None
  BY DEF Types, NoItems
<1>2. /\ Len(updCh) \in Nat /\ Len(updCh') = Len(updCh) + 1
      /\ updCh'[Len(updCh) + 1] = outUpd
      /\ \A i \in 1..Len(updCh) : updCh'[i] = updCh[i] /\ i \in 1..Len(updCh')
      /\ Len(updCh) + 1 \in 1..Len(updCh')
  BY <1>1
<1>3. CASE \A i \in 1..Len(updCh') : updCh'[i][u] = None
  BY Zenon, <1>1, <1>2, <1>3 DEF Newest
<1>4. CASE ~\A i \in 1..Len(updCh') : updCh'[i][u] = None
  <2>1. PICK i \in 1..Len(updCh') :
            /\ updCh'[i][u] # None /\ item = updCh'[i][u]
            /\ \A j \in (i + 1)..Len(updCh') : updCh'[j][u] = None
    BY Zenon, <1>1, <1>4 DEF Newest
  <2>2. CASE i = Len(updCh) + 1
    BY Zenon, <1>2, <2>1, <2>2 DEF Newest
  <2>3. CASE i \in 1..Len(updCh)
    <3>1. Len(updCh) + 1 \in (i + 1)..Len(updCh')
          /\ \A j \in (i + 1)..Len(updCh) : j \in (i + 1)..Len(updCh') /\ j \in 1..Len(updCh)
      BY <1>2, <2>3
    <3>2. outUpd[u] = None /\ \A j \in (i + 1)..Len(updCh) : updCh[j][u] = None
      BY Zenon, <1>2, <2>1, <3>1
    <3> QED
      BY Zenon, <1>2, <2>1, <2>3, <3>2 DEF Newest
  <2> QED
    BY <1>2, <2>2, <2>3
<1> QED
  BY Zenon, <1>3, <1>4

\* ... nor does receiving it.
LEMMA NewestReceived ==
  ASSUME Types, NEW u \in Unit, NEW item, Newest(u, item)', CoreReceive
  PROVE  Newest(u, item)
<1>1. /\ UNCHANGED outUpd /\ updCh # <<>> /\ updCh' = Tail(updCh)
      /\ published'[u] = IF Head(updCh)[u] = None THEN published[u] ELSE Head(updCh)[u]
  BY DEF CoreReceive, runVars
<1>2. updCh \in Seq(UpdateType)
  BY Zenon DEF Types
<1>3. /\ Len(updCh) \in Nat /\ Len(updCh) >= 1 /\ Len(updCh') = Len(updCh) - 1
      /\ 1 \in 1..Len(updCh) /\ Head(updCh) = updCh[1]
      /\ \A i \in 1..Len(updCh') : updCh'[i] = updCh[i + 1] /\ i + 1 \in 1..Len(updCh)
      /\ \A i \in 2..Len(updCh) : updCh[i] = updCh'[i - 1] /\ i - 1 \in 1..Len(updCh')
  BY <1>1, <1>2
<1>4. CASE outUpd[u] # None
  BY Zenon, <1>1, <1>4 DEF Newest
<1>5. CASE outUpd[u] = None /\ \A i \in 1..Len(updCh') : updCh'[i][u] = None
  <2>1. item = published'[u]
    BY Zenon, <1>1, <1>5 DEF Newest
  <2>2. \A i \in 2..Len(updCh) : updCh[i][u] = None
    BY Zenon, <1>3, <1>5
  <2>3. CASE updCh[1][u] = None
    <3>1. \A i \in 1..Len(updCh) : i = 1 \/ i \in 2..Len(updCh)
      BY <1>3
    <3>2. \A i \in 1..Len(updCh) : updCh[i][u] = None
      BY Zenon, <2>2, <2>3, <3>1
    <3> QED
      BY Zenon, <1>1, <1>3, <1>5, <2>1, <2>3, <3>2 DEF Newest
  <2>4. CASE updCh[1][u] # None
    <3>1. \A j \in (1 + 1)..Len(updCh) : updCh[j][u] = None
      BY <2>2
    <3>2. item = updCh[1][u]
      BY Zenon, <1>1, <1>3, <2>1, <2>4
    <3> QED
      BY Zenon, <1>3, <1>5, <2>4, <3>1, <3>2 DEF Newest
  <2> QED
    BY Zenon, <2>3, <2>4
<1>6. CASE outUpd[u] = None /\ ~\A i \in 1..Len(updCh') : updCh'[i][u] = None
  <2>1. PICK i \in 1..Len(updCh') :
            /\ updCh'[i][u] # None /\ item = updCh'[i][u]
            /\ \A j \in (i + 1)..Len(updCh') : updCh'[j][u] = None
    BY Zenon, <1>1, <1>6 DEF Newest
  <2>2. \A j \in ((i + 1) + 1)..Len(updCh) : j \in 2..Len(updCh) /\ j - 1 \in (i + 1)..Len(updCh')
    BY <1>3
  <2>3. \A j \in ((i + 1) + 1)..Len(updCh) : updCh[j][u] = None
    BY Zenon, <1>3, <2>1, <2>2
  <2> QED
    BY Zenon, <1>3, <1>6, <2>1, <2>3 DEF Newest
<1> QED
  BY Zenon, <1>4, <1>5, <1>6

\* An update that is made when none is waiting to be sent.
LEMMA NewestMade ==
  ASSUME NEW u \in Unit, NEW item, Newest(u, item)', outUpd[u] = None,
         UNCHANGED <<updCh, published>>
  PROVE  \/ outUpd'[u] # None /\ item = outUpd'[u]
         \/ outUpd'[u] = None /\ Newest(u, item)
  BY Zenon DEF Newest

-----------------------------------------------------------------------------
(* Updates on their way from the provider.                                 *)

\* The provider appends an update with these units.
LEMMA MentionsAppended ==
  ASSUME Types, NEW u \in Unit, LastMention(u),
         NEW units \in [Unit -> UnitState \cup {None}], NEW e \in BOOLEAN,
         providerCh' = Append(providerCh, [err |-> e, units |-> units]),
         emitted'[u] = IF units[u] = None THEN emitted[u] ELSE units[u]
  PROVE  /\ LastMention(u)'
         /\ Unmentioned(providerCh', u) => Unmentioned(providerCh, u) /\ emitted'[u] = emitted[u]
<1>1. providerCh \in Seq(ProviderUpdate) /\ [err |-> e, units |-> units] \in ProviderUpdate
  BY DEF Types, ProviderUpdate
<1>2. /\ Len(providerCh) \in Nat /\ Len(providerCh') = Len(providerCh) + 1
      /\ providerCh'[Len(providerCh) + 1].units = units
      /\ \A i \in 1..Len(providerCh) : providerCh'[i] = providerCh[i] /\ i \in 1..Len(providerCh')
      /\ Len(providerCh) + 1 \in 1..Len(providerCh')
  BY <1>1
<1>3. Unmentioned(providerCh', u) => Unmentioned(providerCh, u) /\ emitted'[u] = emitted[u]
  BY Zenon, <1>2 DEF Unmentioned
<1>4. ASSUME NEW i \in 1..Len(providerCh'), providerCh'[i].units[u] # None,
             \A j \in (i + 1)..Len(providerCh') : providerCh'[j].units[u] = None
      PROVE  providerCh'[i].units[u] = emitted'[u]
  <2>1. CASE i = Len(providerCh) + 1
    BY Zenon, <1>2, <1>4, <2>1
  <2>2. CASE i \in 1..Len(providerCh)
    <3>1. Len(providerCh) + 1 \in (i + 1)..Len(providerCh')
          /\ \A j \in (i + 1)..Len(providerCh) : /\ j \in (i + 1)..Len(providerCh')
                                                /\ j \in 1..Len(providerCh)
      BY <1>2, <2>2
    <3>2. units[u] = None /\ \A j \in (i + 1)..Len(providerCh) : providerCh[j].units[u] = None
      BY Zenon, <1>2, <1>4, <3>1
    <3> QED
      BY Zenon, <1>2, <1>4, <2>2, <3>2 DEF LastMention
  <2> QED
    BY <1>2, <2>1, <2>2
<1>5. LastMention(u)'
  BY Zenon, <1>4 DEF LastMention
<1> QED
  BY Zenon, <1>3, <1>5

\* run takes the first update.
LEMMA MentionsTaken ==
  ASSUME Types, NEW u \in Unit, LastMention(u), providerCh # <<>>,
         providerCh' = Tail(providerCh), UNCHANGED emitted
  PROVE  /\ LastMention(u)'
         /\ Unmentioned(providerCh', u) /\ Head(providerCh).units[u] = None =>
                Unmentioned(providerCh, u)
         /\ Unmentioned(providerCh', u) /\ Head(providerCh).units[u] # None =>
                Head(providerCh).units[u] = emitted[u]
<1>1. providerCh \in Seq(ProviderUpdate)
  BY Zenon DEF Types
<1>2. /\ Len(providerCh) \in Nat /\ Len(providerCh) >= 1 /\ Len(providerCh') = Len(providerCh) - 1
      /\ 1 \in 1..Len(providerCh) /\ Head(providerCh) = providerCh[1]
      /\ \A i \in 1..Len(providerCh') : /\ providerCh'[i] = providerCh[i + 1]
                                        /\ i + 1 \in 1..Len(providerCh)
      /\ \A i \in 2..Len(providerCh) : /\ providerCh[i] = providerCh'[i - 1]
                                       /\ i - 1 \in 1..Len(providerCh')
  BY <1>1
<1>3. ASSUME NEW i \in 1..Len(providerCh'), providerCh'[i].units[u] # None,
             \A j \in (i + 1)..Len(providerCh') : providerCh'[j].units[u] = None
      PROVE  providerCh'[i].units[u] = emitted[u]
  <2>1. \A j \in ((i + 1) + 1)..Len(providerCh) : /\ j \in 2..Len(providerCh)
                                                 /\ j - 1 \in (i + 1)..Len(providerCh')
    BY <1>2
  <2>2. \A j \in ((i + 1) + 1)..Len(providerCh) : providerCh[j].units[u] = None
    BY Zenon, <1>2, <1>3, <2>1
  <2> QED
    BY ZenonT(30), <1>2, <1>3, <2>2 DEF LastMention
<1>4. ASSUME Unmentioned(providerCh', u)
      PROVE  \A i \in 2..Len(providerCh) : providerCh[i].units[u] = None
  BY Zenon, <1>2, <1>4 DEF Unmentioned
<1>5. ASSUME Unmentioned(providerCh', u), Head(providerCh).units[u] = None
      PROVE  Unmentioned(providerCh, u)
  <2>1. \A i \in 1..Len(providerCh) : i = 1 \/ i \in 2..Len(providerCh)
    BY <1>2
  <2> QED
    BY Zenon, <1>2, <1>4, <1>5, <2>1 DEF Unmentioned
<1>6. ASSUME Unmentioned(providerCh', u), Head(providerCh).units[u] # None
      PROVE  Head(providerCh).units[u] = emitted[u]
  <2>1. \A j \in (1 + 1)..Len(providerCh) : providerCh[j].units[u] = None
    BY <1>4, <1>6
  <2> QED
    BY Zenon, <1>2, <1>6, <2>1 DEF LastMention
<1> QED
  BY Zenon, <1>3, <1>5, <1>6 DEF LastMention

\* Errors carry no units: the updates that are left keep this.
LEMMA ErrorsKept ==
  ASSUME Types, \A i \in 1..Len(providerCh) : providerCh[i].err => providerCh[i].units = NoItems,
         \/ providerCh # <<>> /\ providerCh' = Tail(providerCh)
         \/ \E units \in [Unit -> UnitState \cup {None}], e \in BOOLEAN :
               /\ e => units = NoItems
               /\ providerCh' = Append(providerCh, [err |-> e, units |-> units])
  PROVE  \A i \in 1..Len(providerCh') : providerCh'[i].err => providerCh'[i].units = NoItems
<1>1. providerCh \in Seq(ProviderUpdate)
  BY Zenon DEF Types
<1>2. CASE providerCh # <<>> /\ providerCh' = Tail(providerCh)
  <2>1. \A i \in 1..Len(providerCh') : /\ providerCh'[i] = providerCh[i + 1]
                                       /\ i + 1 \in 1..Len(providerCh)
    BY <1>1, <1>2
  <2> QED
    BY Zenon, <2>1
<1>3. ASSUME NEW units \in [Unit -> UnitState \cup {None}], NEW e \in BOOLEAN, e => units = NoItems,
             providerCh' = Append(providerCh, [err |-> e, units |-> units])
      PROVE  \A i \in 1..Len(providerCh') : providerCh'[i].err => providerCh'[i].units = NoItems
  <2> DEFINE m == [err |-> e, units |-> units]
  <2>1. m \in ProviderUpdate /\ (m.err => m.units = NoItems)
    BY <1>3 DEF ProviderUpdate
  <2> HIDE DEF m
  <2>2. providerCh' = Append(providerCh, m)
    BY Zenon, <1>3 DEF m
  <2>3. \A i \in 1..Len(providerCh') : providerCh'[i] = m
            \/ (i \in 1..Len(providerCh) /\ providerCh'[i] = providerCh[i])
    BY <1>1, <2>1, <2>2
  <2> QED
    BY Zenon, <2>1, <2>3
<1> QED
  BY Zenon, <1>2, <1>3

-----------------------------------------------------------------------------
(* What the newest item says.                                              *)

\* The state in which a unit is handled is the last one emitted, if no other waits: the
\* synthetic state of the first update is only for units never mentioned.
LEMMA HandledIsLast ==
  ASSUME Types, OpenInv, RunUnits, NEW u \in Unit, Unmentioned(providerCh', u),
         emitted[u] # None, RuleHits(u) # {}, Handled[u] # None
  PROVE  Handled[u] = emitted[u]
<1>1. LastMention(u) /\ providerCh # <<>> /\ providerCh' = Tail(providerCh) /\ UNCHANGED emitted
  BY Zenon, UpdateHandled DEF OpenInv
<1>2. Handled[u] = IF firstUpdate /\ u \in NamedUnits /\ Head(providerCh).units[u] = None
                   THEN NotSent ELSE Head(providerCh).units[u]
  BY DEF Handled, Completed
<1>3. CASE Head(providerCh).units[u] # None
  BY Zenon, <1>1, <1>2, <1>3, MentionsTaken
<1>4. CASE Head(providerCh).units[u] = None
  <2>1. Unmentioned(providerCh, u) /\ firstUpdate
    BY Zenon, <1>1, <1>2, <1>4, MentionsTaken
  <2>2. PICK item \in ItemType \cup {None} : Newest(u, item)
    BY Zenon, NewestExists
  <2>3. Says(u, item)
    BY Zenon, <2>2 DEF OpenInv
  <2> QED
    BY Zenon, <2>1, <2>3 DEF Says
<1> QED
  BY Zenon, <1>3, <1>4

\* After an update is handled, the newest item of a unit says what its incident is.
LEMMA UnitsSay ==
  ASSUME Types, PolicyInv, OpenInv, RunUnits, NEW u \in Unit, NEW item \in ItemType \cup {None},
         Newest(u, item)'
  PROVE  Says(u, item)'
<1>1. /\ runPc = "select" /\ firstUpdate' = FALSE /\ providerCh # <<>>
      /\ providerCh' = Tail(providerCh) /\ UNCHANGED <<emitted, updCh, published>>
  BY Zenon, UpdateHandled
<1>2. outUpd[u] = None
  BY <1>1 DEF OpenInv, NoItems
<1>3. \/ outUpd'[u] # None /\ item = outUpd'[u]
      \/ outUpd'[u] = None /\ Newest(u, item)
  BY Zenon, <1>1, <1>2, NewestMade
<1>4. incident[u] \in IncidentType \cup {None} /\ Handled[u] \in UnitState \cup {None}
  BY <1>1, HeadUpdate DEF Types
<1> DEFINE s == Handled[u]
<1>5. CASE s = None \/ RuleHits(u) = {}
  <2>1. Untouched(u)
    BY Zenon, <1>5, UnitChanges
  <2>2. Says(u, item) /\ incident'[u] = incident[u]
    BY Zenon, <1>3, <2>1 DEF Untouched, OpenInv
  <2>3. u \in NamedUnits /\ RuleHits(u) # {} => item # None
    <3>1. ASSUME u \in NamedUnits, RuleHits(u) # {} PROVE ~firstUpdate
      <4>1. Handled[u] = IF firstUpdate /\ u \in NamedUnits /\ Head(providerCh).units[u] = None
                         THEN NotSent ELSE Head(providerCh).units[u]
        BY DEF Handled, Completed
      <4> QED
        BY Zenon, <1>5, <3>1, <4>1, SystemdAssumption
    <3> QED
      BY Zenon, <2>2, <3>1 DEF Says
  <2>4. Unmentioned(providerCh', u) /\ emitted'[u] # None /\ RuleHits(u) # {} =>
            item # None /\ item.details = emitted'[u]
    <3> SUFFICES ASSUME Unmentioned(providerCh', u), emitted'[u] # None, RuleHits(u) # {}
                 PROVE  item # None /\ item.details = emitted'[u]
      BY Zenon
    <3>1. Head(providerCh).units[u] = None
      <4>1. Handled[u] = IF firstUpdate /\ u \in NamedUnits /\ Head(providerCh).units[u] = None
                         THEN NotSent ELSE Head(providerCh).units[u]
        BY DEF Handled, Completed
      <4> QED
        BY Zenon, <1>5, <4>1, SystemdAssumption
    <3>2. Unmentioned(providerCh, u)
      BY Zenon, <1>1, <3>1, MentionsTaken DEF OpenInv
    <3> QED
      BY Zenon, <1>1, <2>2, <3>2 DEF Says
  <2> QED
    BY Zenon, <1>1, <2>2, <2>3, <2>4 DEF Says
<1>6. CASE s # None /\ RuleHits(u) # {}
  <2>1. Changes(u, s) /\ s \in UnitState
    BY Zenon, <1>4, <1>6, UnitChanges
  <2>2. Unmentioned(providerCh', u) /\ emitted'[u] # None /\ RuleHits(u) # {} => s = emitted'[u]
    BY Zenon, <1>1, <1>6, HandledIsLast
  <2> HIDE DEF s
  <2>3. CASE Worsens(u, s)
    <3>1. PICK state \in ItemState \ {OK}, resolve \in Policy \cup {None} :
            /\ incident'[u] = [resolve |-> resolve, state |-> state, deferred |-> None]
            /\ outUpd'[u] = Item(state, s)
      BY Zenon, <2>3 DEF Worsens
    <3>2. /\ incident'[u] \in IncidentType /\ incident'[u].state = state
          /\ incident'[u].deferred = None
      BY <3>1 DEF IncidentType
    <3>3. /\ Item(state, s) \in ItemType /\ Item(state, s).state = state
          /\ Item(state, s).details = s
      BY <2>1, <3>1 DEF Item, ItemType
    <3>4. item = outUpd'[u] /\ item # None /\ incident'[u] # None /\ state # OK
      BY Zenon, <1>3, <3>1, <3>2, <3>3, NoneAssumption
    <3> QED
      BY Zenon, <1>1, <2>2, <3>1, <3>2, <3>3, <3>4 DEF Says
  <2>4. CASE Recovers(u, s)
    <3>1. incident'[u] = None /\ outUpd'[u] = Item(OK, s)
      BY Zenon, <2>4 DEF Recovers
    <3>2. Item(OK, s) \in ItemType /\ Item(OK, s).state = OK /\ Item(OK, s).details = s
      BY <2>1 DEF Item, ItemType, ItemState
    <3>3. item = outUpd'[u] /\ item # None
      BY Zenon, <1>3, <3>1, <3>2, NoneAssumption
    <3> QED
      BY Zenon, <1>1, <2>2, <3>1, <3>2, <3>3 DEF Says
  <2>5. CASE Defers(u, s)
    <3>1. /\ incident[u] \in IncidentType /\ incident'[u] = [incident[u] EXCEPT !.deferred = s]
          /\ outUpd'[u] = IF incident[u].deferred = s THEN None ELSE Item(incident[u].state, s)
      BY Zenon, <1>4, <2>5 DEF Defers
    <3>2. /\ incident'[u] \in IncidentType /\ incident'[u].state = incident[u].state
          /\ incident'[u].deferred = s /\ incident[u].state \in ItemState
          /\ incident[u].state # OK
      BY <2>1, <3>1 DEF IncidentType
    <3>3. incident'[u] # None /\ incident[u] # None /\ s # None
      BY Zenon, <1>6, <3>1, <3>2, NoneAssumption
    <3>4. item # None /\ item.state = incident[u].state /\ item.details = s
      <4>1. CASE incident[u].deferred = s
        <5>1. Says(u, item)
          BY Zenon, <1>3, <3>1, <4>1 DEF OpenInv
        <5> QED
          BY Zenon, <3>3, <4>1, <5>1 DEF Says
      <4>2. CASE incident[u].deferred # s
        <5> DEFINE i == Item(incident[u].state, s)
        <5>1. i \in ItemType /\ i.state = incident[u].state /\ i.details = s
          BY <2>1, <3>2 DEF Item, ItemType
        <5> HIDE DEF i
        <5>2. outUpd'[u] = i /\ i # None
          BY Zenon, <3>1, <4>2, <5>1, NoneAssumption DEF i
        <5> QED
          BY Zenon, <1>3, <5>1, <5>2
      <4> QED
        BY Zenon, <4>1, <4>2
    <3> QED
      BY Zenon, <1>1, <2>2, <3>2, <3>3, <3>4 DEF Says
  <2> QED
    BY Zenon, <2>1, <2>3, <2>4, <2>5 DEF Changes
<1> QED
  BY Zenon, <1>5, <1>6

\* So it does after incidents are resolved.
LEMMA ResolveSays ==
  ASSUME Types, TimerInv, OpenInv, RunResolve, NEW u \in Unit, NEW item \in ItemType \cup {None},
         Newest(u, item)'
  PROVE  Says(u, item)'
<1>1. PICK k \in Unit :
        /\ pending[k] \in PendingType /\ Timed(k) /\ incident[k] \in IncidentType
        /\ incident' = [incident EXCEPT ![k] = None]
        /\ outUpd' = [NoItems EXCEPT ![k] = Item(OK, pending[k].details)]
        /\ runPc = "select"
        /\ UNCHANGED <<providerVars, firstUpdate, shuttingDown, nextGeneration,
                       callbacks, updCh, published, closePc>>
  BY Zenon, WindowOver
<1>2. outUpd[u] = None /\ UNCHANGED <<providerCh, emitted, firstUpdate, updCh, published>>
  BY <1>1 DEF OpenInv, NoItems, providerVars
<1>3. \/ outUpd'[u] # None /\ item = outUpd'[u]
      \/ outUpd'[u] = None /\ Newest(u, item)
  BY Zenon, <1>2, NewestMade
<1>4. incident \in [Unit -> IncidentType \cup {None}]
  BY Zenon DEF Types
<1>5. CASE u # k
  <2>1. outUpd'[u] = None /\ incident'[u] = incident[u]
    BY <1>1, <1>4, <1>5 DEF NoItems
  <2>2. Says(u, item)
    BY ZenonT(30), <1>3, <2>1 DEF OpenInv
  <2> QED
    BY Zenon, <1>2, <2>1, <2>2 DEF Says
<1>6. CASE u = k
  <2> DEFINE i == Item(OK, pending[k].details)
  <2>1. i \in ItemType /\ i.state = OK /\ i.details = pending[k].details
    BY <1>1 DEF Item, ItemType, ItemState, PendingType
  <2>2. outUpd'[u] = i /\ incident'[u] = None
    BY <1>1, <1>4, <1>6 DEF NoItems
  <2> HIDE DEF i
  <2>3. item = i /\ item # None
    BY Zenon, <1>3, <2>1, <2>2, NoneAssumption
  <2>4. PICK old \in ItemType \cup {None} : Newest(u, old)
    BY Zenon, NewestExists
  <2>5. Says(u, old)
    BY Zenon, <2>4 DEF OpenInv
  <2>6. /\ incident[u] # None /\ incident[u].deferred = pending[k].details
        /\ pending[k].details # None
    BY <1>1, <1>6, SystemdAssumption DEF Timed, PendingType
  <2> QED
    BY ZenonT(30), <1>2, <2>1, <2>2, <2>3, <2>5, <2>6 DEF Says
<1> QED
  BY Zenon, <1>5, <1>6

-----------------------------------------------------------------------------
(* While the collector is open.                                            *)

\* A step after which nothing has become newer and the collector knows the same.
LEMMA SaysKept ==
  ASSUME OpenInv, UNCHANGED <<incident, firstUpdate, providerCh, emitted>>,
         NEW u \in Unit, NEW item \in ItemType \cup {None}, Newest(u, item)
  PROVE  Says(u, item)'
<1>1. Says(u, item)
  BY Zenon DEF OpenInv
<1> QED
  BY Zenon, <1>1 DEF Says

\* The steps of the provider.
LEMMA ProviderSays ==
  ASSUME Types, OpenInv, ProviderEmit \/ ProviderError
  PROVE  OpenInv'
<1>1. UNCHANGED <<provider, shuttingDown, runPc, outUpd, updCh, published, incident, firstUpdate>>
  BY Zenon DEF ProviderEmit, ProviderError, runVars, chanVars
<1>2. PICK units \in [Unit -> UnitState \cup {None}], e \in BOOLEAN :
        /\ e => units = NoItems
        /\ providerCh' = Append(providerCh, [err |-> e, units |-> units])
        /\ \A u \in Unit : emitted'[u] = IF units[u] = None THEN emitted[u] ELSE units[u]
  <2>1. CASE ProviderEmit
    <3>1. PICK units \in [Unit -> UnitState \cup {None}] :
            /\ providerCh' = Append(providerCh, [err |-> FALSE, units |-> units])
            /\ emitted' = [u \in Unit |-> IF units[u] = None THEN emitted[u] ELSE units[u]]
      BY Zenon, <2>1 DEF ProviderEmit
    <3> QED
      BY Zenon, <3>1
  <2>2. CASE ProviderError
    <3>1. /\ providerCh' = Append(providerCh, [err |-> TRUE, units |-> NoItems])
          /\ UNCHANGED emitted
      BY Zenon, <2>2 DEF ProviderError
    <3>2. NoItems \in [Unit -> UnitState \cup {None}] /\ \A u \in Unit : NoItems[u] = None
      BY DEF NoItems
    <3> QED
      BY Zenon, <3>1, <3>2
  <2> QED
    BY Zenon, <2>1, <2>2
<1>3. ASSUME NEW u \in Unit
      PROVE  /\ LastMention(u)'
             /\ Unmentioned(providerCh', u) => /\ Unmentioned(providerCh, u)
                                              /\ emitted'[u] = emitted[u]
  <2>1. LastMention(u)
    BY Zenon DEF OpenInv
  <2> QED
    BY Zenon, <1>2, <2>1, MentionsAppended
<1>4. ASSUME NEW u \in Unit, NEW item \in ItemType \cup {None}, Newest(u, item)'
      PROVE  Says(u, item)'
  <2>1. Newest(u, item)
    BY Zenon, <1>1, <1>4 DEF Newest
  <2>2. Says(u, item)
    BY Zenon, <2>1 DEF OpenInv
  <2> QED
    BY Zenon, <1>1, <1>3, <2>2 DEF Says
<1>5. \A i \in 1..Len(providerCh') : providerCh'[i].err => providerCh'[i].units = NoItems
  BY Zenon, <1>2, ErrorsKept DEF OpenInv
<1> QED
  BY Zenon, <1>1, <1>3, <1>4, <1>5 DEF OpenInv

\* An error of the provider is passed on.
LEMMA ErrorSays ==
  ASSUME Types, OpenInv, RunError
  PROVE  OpenInv'
<1>1. /\ UNCHANGED <<provider, emitted, shuttingDown, outUpd, updCh, published, incident,
                     firstUpdate>>
      /\ runPc' = "send" /\ providerCh # <<>> /\ Head(providerCh).err
      /\ providerCh' = Tail(providerCh)
  BY Zenon DEF RunError, chanVars
<1>2. \A u \in Unit : Head(providerCh).units[u] = None
  <2>1. 1 \in 1..Len(providerCh) /\ Head(providerCh) = providerCh[1]
    BY <1>1 DEF Types
  <2>2. Head(providerCh).units = NoItems
    BY Zenon, <1>1, <2>1 DEF OpenInv
  <2> QED
    BY Zenon, <2>2 DEF NoItems
<1>3. ASSUME NEW u \in Unit
      PROVE  LastMention(u)' /\ (Unmentioned(providerCh', u) => Unmentioned(providerCh, u))
  BY Zenon, <1>1, <1>2, MentionsTaken DEF OpenInv
<1>4. ASSUME NEW u \in Unit, NEW item \in ItemType \cup {None}, Newest(u, item)'
      PROVE  Says(u, item)'
  <2>1. Newest(u, item)
    BY Zenon, <1>1, <1>4 DEF Newest
  <2>2. Says(u, item)
    BY Zenon, <2>1 DEF OpenInv
  <2> QED
    BY Zenon, <1>1, <1>3, <2>2 DEF Says
<1>5. \A i \in 1..Len(providerCh') : providerCh'[i].err => providerCh'[i].units = NoItems
  BY Zenon, <1>1, ErrorsKept DEF OpenInv
<1>6. runPc' \in {"select", "send"} /\ runPc' # "select"
  BY <1>1
<1> QED
  BY Zenon, <1>1, <1>3, <1>4, <1>5, <1>6 DEF OpenInv

\* Until Close, every step keeps what the newest items say.
LEMMA OpenStep ==
  ASSUME Types, PolicyInv, TimerInv, OpenInv, closePc = "open", [Next]_vars, closePc' = "open"
  PROVE  OpenInv'
<1> DEFINE Provided == <<provider, providerCh, emitted>>
           Known == <<shuttingDown, incident, firstUpdate>>
           Items == <<outUpd, updCh, published>>
<1>1. /\ provider = "running" /\ ~shuttingDown /\ ~Teardown /\ provider # "done"
      /\ closePc # "provider"
  BY DEF OpenInv, Teardown
<1>2. ~(RunDrain \/ RunDrop \/ RunReturn \/ ProviderStop)
  BY Zenon, <1>1 DEF RunDrain, RunDrop, RunReturn, ProviderStop
<1>3. ~(CloseTeardown \/ CloseProvider \/ CloseReturn)
  BY DEF CloseTeardown, CloseProvider, CloseReturn
<1>4. \/ RunUnits \/ RunResolve \/ ProviderEmit \/ ProviderError \/ RunError
      \/ RunSend \/ CoreReceive
      \/ Tick \/ (\E u \in Unit : TimerFire(u)) \/ CallbackStep \/ RunStaleReady \/ UNCHANGED vars
  BY Zenon, <1>2, <1>3 DEF Next, RunStep
<1>5. ASSUME UNCHANGED <<Provided, Known>>, runPc' \in {"select", "send"},
             runPc' = "select" => outUpd' = NoItems,
             \A u \in Unit : \A item \in ItemType \cup {None} :
                 Newest(u, item)' => Newest(u, item)
      PROVE  OpenInv'
  <2>1. \A u \in Unit : LastMention(u)'
    BY Zenon, <1>5 DEF OpenInv, LastMention
  <2>2. \A u \in Unit : \A item \in ItemType \cup {None} : Newest(u, item)' => Says(u, item)'
    BY Zenon, <1>5, SaysKept
  <2> QED
    BY Zenon, <1>5, <2>1, <2>2 DEF OpenInv
<1>6. CASE RunUnits
  <2>1. /\ UNCHANGED <<provider, emitted, shuttingDown>> /\ providerCh # <<>>
        /\ providerCh' = Tail(providerCh)
        /\ runPc' \in {"select", "send"} /\ (runPc' = "select" => outUpd' = NoItems)
    <3>1. runPc' = IF outUpd' = NoItems THEN "select" ELSE "send"
      BY Zenon, <1>6, UpdateHandled
    <3>2. runPc' \in {"select", "send"} /\ (runPc' = "select" => outUpd' = NoItems)
      BY <3>1
    <3> QED
      BY Zenon, <1>6, <3>2, UpdateHandled
  <2>2. \A u \in Unit : LastMention(u)'
    BY Zenon, <2>1, MentionsTaken DEF OpenInv
  <2>3. \A i \in 1..Len(providerCh') : providerCh'[i].err => providerCh'[i].units = NoItems
    BY Zenon, <2>1, ErrorsKept DEF OpenInv
  <2>4. \A u \in Unit : \A item \in ItemType \cup {None} : Newest(u, item)' => Says(u, item)'
    BY Zenon, <1>6, UnitsSay
  <2> QED
    BY Zenon, <2>1, <2>2, <2>3, <2>4 DEF OpenInv
<1>7. CASE RunResolve
  <2>1. /\ UNCHANGED <<Provided, shuttingDown>> /\ runPc' \in {"select", "send"}
        /\ runPc' = "select" => outUpd' = NoItems
    BY Zenon, <1>7, WindowOver DEF providerVars
  <2>2. \A u \in Unit : \A item \in ItemType \cup {None} : Newest(u, item)' => Says(u, item)'
    BY Zenon, <1>7, ResolveSays
  <2>3. \A u \in Unit : LastMention(u)'
    BY Zenon, <2>1 DEF OpenInv, LastMention
  <2> QED
    BY Zenon, <2>1, <2>2, <2>3 DEF OpenInv
<1>8. CASE RunSend
  <2>1. /\ UNCHANGED <<Provided, Known, published>> /\ updCh' = Append(updCh, outUpd)
        /\ outUpd' = NoItems /\ runPc' = "select"
    BY Zenon, <1>8 DEF RunSend, providerVars
  <2>2. \A u \in Unit : \A item \in ItemType \cup {None} : Newest(u, item)' => Newest(u, item)
    BY Zenon, <2>1, NewestSent
  <2> QED
    BY Zenon, <1>5, <2>1, <2>2
<1>9. CASE CoreReceive
  <2>1. UNCHANGED <<Provided, Known, outUpd, runPc>>
    BY Zenon, <1>9 DEF CoreReceive, providerVars, runVars
  <2>2. \A u \in Unit : \A item \in ItemType \cup {None} : Newest(u, item)' => Newest(u, item)
    BY Zenon, <1>9, NewestReceived
  <2> QED
    BY Zenon, <1>5, <2>1, <2>2 DEF OpenInv
<1>10. CASE \/ Tick \/ (\E u \in Unit : TimerFire(u)) \/ CallbackStep \/ RunStaleReady
            \/ UNCHANGED vars
  <2>1. UNCHANGED <<Provided, Known, Items, runPc>>
    <3>1. CASE Tick
      BY Zenon, <3>1 DEF Tick, chanVars
    <3>2. CASE \E u \in Unit : TimerFire(u)
      BY Zenon, <3>2 DEF TimerFire, providerVars
    <3>3. CASE CallbackStep \/ RunStaleReady \/ UNCHANGED vars
      BY Zenon, <3>3 DEF CallbackStep, CallbackSend, CallbackDrop, RunStaleReady, vars,
                         providerVars, runVars, chanVars
    <3> QED
      BY Zenon, <1>10, <3>1, <3>2, <3>3
  <2>2. \A u \in Unit : \A item \in ItemType \cup {None} : Newest(u, item)' => Newest(u, item)
    BY Zenon, <2>1 DEF Newest
  <2> QED
    BY Zenon, <1>5, <2>1, <2>2 DEF OpenInv
<1>11. CASE ProviderEmit \/ ProviderError \/ RunError
  BY Zenon, <1>11, ProviderSays, ErrorSays
<1> QED
  BY Zenon, <1>4, <1>6, <1>7, <1>8, <1>9, <1>10, <1>11

-----------------------------------------------------------------------------
(* The theorems.                                                           *)

\* Nothing has been observed or sent.
LEMMA SystemdInit == Init => SystemdInv
<1> SUFFICES ASSUME Init PROVE SystemdInv
  OBVIOUS
<1>1. /\ providerCh = <<>> /\ provider = "running" /\ emitted = [u \in Unit |-> None]
      /\ runPc = "select" /\ firstUpdate = TRUE /\ shuttingDown = FALSE
      /\ incident = [u \in Unit |-> None] /\ pending = [u \in Unit |-> None]
      /\ nextGeneration = 0 /\ outUpd = NoItems /\ callbacks = {} /\ readyCh = <<>>
      /\ updCh = <<>> /\ published = [u \in Unit |-> None]
      /\ opened = [u \in Unit |-> None] /\ recovered = [u \in Unit |-> None]
  BY Zenon DEF Init
<1>2. Types
  BY <1>1 DEF Types, UpdateType, NoItems
<1>3. TimerInv
  BY <1>1 DEF TimerInv
<1>4. /\ \A i \in 1..Len(providerCh) : FALSE
      /\ \A i \in 1..Len(updCh) : FALSE
  BY <1>1
<1>5. \A u \in Unit : incident[u] = None /\ emitted[u] = None /\ published[u] = None
                      /\ outUpd[u] = None
  BY <1>1 DEF NoItems
<1>6. ASSUME NEW u \in Unit, NEW item, Newest(u, item) PROVE Says(u, item)
  <2>1. item = None
    BY Zenon, <1>4, <1>5, <1>6 DEF Newest
  <2> QED
    BY Zenon, <1>1, <1>5, <2>1 DEF Says
<1>7. OpenInv
  <2>1. runPc \in {"select", "send"} /\ ~shuttingDown
    BY <1>1
  <2> QED
    BY Zenon, <1>1, <1>4, <1>6, <2>1 DEF OpenInv, LastMention
<1> QED
  BY Zenon, <1>1, <1>2, <1>3, <1>5, <1>7 DEF SystemdInv, PolicyInv

\* An incident and its policy change only with an update or at the end of a recovery window.
LEMMA IncidentKept ==
  ASSUME [Next]_vars, ~RunUnits, ~RunResolve
  PROVE  UNCHANGED <<incident, opened>>
<1>1. CASE ProviderEmit \/ ProviderError \/ ProviderStop \/ RunStep
  BY Zenon, <1>1 DEF RunStep, ProviderEmit, ProviderError, ProviderStop, RunDrain, RunError,
     RunStaleReady, RunSend, RunDrop, RunReturn, runVars
<1>2. CASE Tick \/ (\E u \in Unit : TimerFire(u)) \/ CallbackStep \/ CoreReceive
  BY Zenon, <1>2 DEF Tick, TimerFire, CallbackStep, CallbackSend, CallbackDrop, CoreReceive, runVars
<1>3. CASE CloseTeardown \/ CloseProvider \/ CloseReturn \/ UNCHANGED vars
  BY Zenon, <1>3 DEF CloseTeardown, CloseProvider, CloseReturn, vars, runVars
<1> QED
  BY Zenon, <1>1, <1>2, <1>3 DEF Next

\* Every step keeps the policy of an incident that stays open.
LEMMA PolicyStep ==
  ASSUME Types, PolicyInv, [Next]_vars
  PROVE  PolicyInv'
<1>1. CASE RunUnits
  <2>1. ASSUME NEW u \in Unit
        PROVE  opened'[u] = IF incident'[u] = None THEN None ELSE incident'[u].resolve
    <3>1. /\ opened'[u] = IF Handled[u] = None THEN opened[u]
                          ELSE OpenedAfter(u, Handled[u], incident'[u])
          /\ opened[u] = IF incident[u] = None THEN None ELSE incident[u].resolve
          /\ incident[u] \in IncidentType \cup {None}
      BY Zenon, <1>1 DEF RunUnits, Handled, PolicyInv, Types
    <3>2. \/ Untouched(u) /\ (Handled[u] = None \/ incident'[u] = incident[u])
          \/ Handled[u] # None /\ Worsens(u, Handled[u])
          \/ Handled[u] # None /\ Recovers(u, Handled[u])
          \/ Handled[u] # None /\ Defers(u, Handled[u])
      BY Zenon, <1>1, UnitChanges DEF Changes, Untouched
    <3>3. CASE Untouched(u)
      BY Zenon, <3>1, <3>3 DEF Untouched, OpenedAfter
    <3>4. CASE Handled[u] # None /\ Worsens(u, Handled[u])
      <4>1. PICK resolve \in Policy \cup {None}, state \in ItemState \ {OK} :
               /\ incident'[u] = [resolve |-> resolve, state |-> state, deferred |-> None]
               /\ resolve = IF incident[u] = None THEN getItemFromUnit(u, Handled[u]).resolve
                            ELSE incident[u].resolve
        BY Zenon, <3>4 DEF Worsens
      <4>2. incident'[u] \in IncidentType /\ incident'[u].resolve = resolve
        BY <4>1 DEF IncidentType
      <4> QED
        BY Zenon, <3>1, <3>4, <4>1, <4>2, NoneAssumption DEF OpenedAfter
    <3>5. CASE Handled[u] # None /\ Recovers(u, Handled[u])
      BY Zenon, <3>1, <3>5 DEF Recovers, OpenedAfter
    <3>6. CASE Handled[u] # None /\ Defers(u, Handled[u])
      <4>1. /\ incident[u] # None /\ incident[u] \in IncidentType
            /\ incident'[u] = [incident[u] EXCEPT !.deferred = Handled[u]]
        BY Zenon, <3>1, <3>6 DEF Defers
      <4>2. incident'[u].resolve = incident[u].resolve
        BY <4>1 DEF IncidentType
      <4>3. incident'[u] # None
        <5>1. providerCh # <<>>
          BY Zenon, <1>1 DEF RunUnits
        <5>2. Handled[u] \in UnitState \cup {None}
          BY Zenon, <5>1, HeadUpdate
        <5>3. incident'[u] \in IncidentType
          BY <4>1, <5>2 DEF IncidentType
        <5> QED
          BY Zenon, <5>3, NoneAssumption
      <4> QED
        BY Zenon, <3>1, <3>6, <4>1, <4>2, <4>3 DEF OpenedAfter
    <3> QED
      BY Zenon, <3>2, <3>3, <3>4, <3>5, <3>6
  <2>2. opened' = [u \in Unit |-> opened'[u]]
    BY Zenon, <1>1 DEF RunUnits
  <2> QED
    BY Zenon, <2>1, <2>2 DEF PolicyInv
<1>2. CASE RunResolve
  <2> DEFINE k == Head(readyCh).key
  <2>1. /\ opened' = [opened EXCEPT ![k] = None]
        /\ incident' = [incident EXCEPT ![k] = None]
        /\ incident \in [Unit -> IncidentType \cup {None}]
    BY Zenon, <1>2 DEF RunResolve, Types
  <2> HIDE DEF k
  <2> QED
    BY <2>1 DEF PolicyInv
<1>3. CASE ~RunUnits /\ ~RunResolve
  BY Zenon, <1>3, IncidentKept DEF PolicyInv
<1> QED
  BY Zenon, <1>1, <1>2, <1>3

\* The inductive invariant holds throughout.
LEMMA SystemdSafety == Spec => []SystemdInv
<1>1. SystemdInv /\ [Next]_vars => SystemdInv'
  <2> SUFFICES ASSUME SystemdInv, [Next]_vars PROVE SystemdInv'
    OBVIOUS
  <2>1. Types /\ PolicyInv /\ TimerInv /\ (closePc = "open" => OpenInv)
    BY Zenon DEF SystemdInv
  <2>2. Types' /\ PolicyInv' /\ TimerInv'
    BY Zenon, <2>1, TimersStep, PolicyStep
  <2>3. ASSUME closePc' = "open" PROVE closePc = "open"
    <3>1. ~(CloseTeardown \/ CloseProvider \/ CloseReturn)
      BY <2>3 DEF CloseTeardown, CloseProvider, CloseReturn
    <3>2. UNCHANGED closePc
      BY Zenon, <3>1 DEF Next, RunStep, CallbackStep, vars, ProviderEmit, ProviderError,
         ProviderStop, RunDrain, RunError, RunUnits, RunStaleReady, RunResolve, RunSend, RunDrop,
         RunReturn, Tick, TimerFire, CallbackSend, CallbackDrop, CoreReceive
    <3> QED
      BY Zenon, <2>3, <3>2
  <2> QED
    BY Zenon, <2>1, <2>2, <2>3, OpenStep DEF SystemdInv
<1> QED
  BY <1>1, SystemdInit, PTL DEF Spec

\* Whatever the order of cancelled timers, late callbacks and updates, and whatever
\* conditions match while it lasts, an incident opened under a resolve policy ends only
\* after the unit was seen in that policy's states for all of its resolve.after
\* (systemd_collector.go, run and the generation check of resolutionReadyCh).
THEOREM RecoveryPrecedesResolution == Spec => ResolvedOnlyAfterRecovery
<1> DEFINE Step == \A u \in Unit : ResolvesByPolicy(u) =>
                      recovered[u] # None /\ recovered[u] >= opened[u].after
<1>1. SystemdInv /\ [Next]_vars => Step
  <2> SUFFICES ASSUME SystemdInv, [Next]_vars, NEW u \in Unit, ResolvesByPolicy(u)
               PROVE  recovered[u] # None /\ recovered[u] >= opened[u].after
    BY Zenon
  <2>1. Types /\ PolicyInv /\ TimerInv /\ incident[u] # None /\ incident[u].resolve # None
        /\ incident'[u] = None /\ opened[u] = incident[u].resolve
    BY Zenon DEF SystemdInv, PolicyInv, ResolvesByPolicy
  <2>2. CASE RunUnits
    <3>1. Untouched(u) \/ Worsens(u, Handled[u]) \/ Recovers(u, Handled[u])
          \/ Defers(u, Handled[u])
      BY Zenon, <2>1, <2>2, UnitChanges DEF Changes
    <3>2. ~Untouched(u) /\ ~Recovers(u, Handled[u])
      BY Zenon, <2>1 DEF Untouched, Recovers
    <3>3. ~Worsens(u, Handled[u])
      <4> SUFFICES ASSUME NEW state \in ItemState \ {OK}, NEW resolve \in Policy \cup {None},
                          incident'[u] = [resolve |-> resolve, state |-> state, deferred |-> None]
                   PROVE  FALSE
        BY Zenon DEF Worsens
      <4>1. incident'[u] \in IncidentType
        BY DEF IncidentType
      <4> QED
        BY Zenon, <2>1, <4>1, NoneAssumption
    <3>4. ~Defers(u, Handled[u])
      <4> SUFFICES ASSUME incident'[u] = [incident[u] EXCEPT !.deferred = Handled[u]]
                   PROVE  FALSE
        BY Zenon DEF Defers
      <4>1. incident[u] \in IncidentType /\ providerCh # <<>>
        BY Zenon, <2>1, <2>2 DEF Types, RunUnits
      <4>2. Handled[u] \in UnitState \cup {None}
        BY <2>1, <4>1, HeadUpdate
      <4>3. incident'[u] \in IncidentType
        BY <4>1, <4>2 DEF IncidentType
      <4> QED
        BY Zenon, <2>1, <4>3, NoneAssumption
    <3> QED
      BY Zenon, <3>1, <3>2, <3>3, <3>4
  <2>3. CASE RunResolve
    <3>1. PICK k \in Unit :
            /\ pending[k].left = 0 /\ Timed(k) /\ incident[k] \in IncidentType
            /\ incident' = [incident EXCEPT ![k] = None]
      BY Zenon, <2>1, <2>3, WindowOver
    <3>2. u = k
      BY <2>1, <3>1 DEF Types
    <3>3. recovered[k] \in (0..MaxAfter) \cup {None}
      BY Zenon, <2>1 DEF Types
    <3>4. recovered[k] # None /\ recovered[k] + 0 >= incident[k].resolve.after
      BY Zenon, <3>1 DEF Timed
    <3> QED
      BY <2>1, <3>2, <3>3, <3>4, SystemdAssumption
  <2>4. CASE ~RunUnits /\ ~RunResolve
    BY Zenon, <2>1, <2>4, IncidentKept
  <2> QED
    BY Zenon, <2>2, <2>3, <2>4
<1>2. Spec => [][Step]_vars
  BY <1>1, SystemdSafety, PTL DEF Spec
<1> QED
  BY <1>2 DEF ResolvedOnlyAfterRecovery

\* With nothing on its way, the item published for a unit is its newest.
LEMMA PublishedIsNewest ==
  ASSUME SystemdInv, runPc = "select", updCh = <<>>, ~Teardown, NEW u \in Unit
  PROVE  Says(u, published[u])
<1>1. Types /\ OpenInv
  BY Zenon DEF SystemdInv, Teardown
<1>2. outUpd[u] = None /\ published[u] \in ItemType \cup {None}
  BY <1>1 DEF OpenInv, NoItems, Types, UpdateType
<1>3. \A i \in 1..Len(updCh) : FALSE
  OBVIOUS
<1>4. Newest(u, published[u])
  BY Zenon, <1>2, <1>3 DEF Newest
<1> QED
  BY Zenon, <1>1, <1>2, <1>4 DEF OpenInv

\* When run is idle and its updates have been received, the core has exactly the
\* collector's incidents, with their severities, and the last states of the units
\* (systemd_collector.go, run, sendUpdate and getItemFromUnit).
THEOREM CoreFollowsCollector == Spec => []CoreIsUpToDate
<1>1. SystemdInv => CoreIsUpToDate
  <2> SUFFICES ASSUME SystemdInv, runPc = "select", updCh = <<>>, ~Teardown, NEW u \in Unit
               PROVE  /\ incident[u] # None <=> published[u] # None /\ published[u].state # OK
                      /\ incident[u] # None => published[u].state = incident[u].state
                      /\ (providerCh = <<>> /\ emitted[u] # None /\ RuleHits(u) # {}) =>
                             published[u] # None /\ published[u].details = emitted[u]
    BY Zenon DEF CoreIsUpToDate
  <2>1. Says(u, published[u])
    BY Zenon, PublishedIsNewest
  <2>2. providerCh = <<>> => Unmentioned(providerCh, u)
    BY DEF Unmentioned
  <2> QED
    BY Zenon, <2>1, <2>2 DEF Says
<1> QED
  BY <1>1, SystemdSafety, PTL

\* After the first update without error the core has an item for every unit that a rule
\* names, whether systemd knows it or not (systemd_collector.go, run, firstUpdate).
THEOREM NamedUnitsAppear == Spec => []NamedUnitsAreReported
<1>1. SystemdInv => NamedUnitsAreReported
  <2> SUFFICES ASSUME SystemdInv, runPc = "select", updCh = <<>>, ~Teardown, ~firstUpdate,
                      NEW u \in NamedUnits, RuleHits(u) # {}
               PROVE  published[u] # None
    BY Zenon DEF NamedUnitsAreReported
  <2>1. u \in Unit
    BY Zenon, SystemdAssumption
  <2>2. Says(u, published[u])
    BY Zenon, <2>1, PublishedIsNewest
  <2> QED
    BY Zenon, <2>2 DEF Says
<1> QED
  BY <1>1, SystemdSafety, PTL
=============================================================================
