-------------------------- MODULE SystemdCollector --------------------------
(***************************************************************************)
(* backend/collectors/systemd: the collector that turns unit states into   *)
(* items, with the delayed resolution of incidents, and its provider.      *)
(*                                                                         *)
(* A unit state stands for a pair (ActiveState, SubState).  A condition    *)
(* and a resolve policy are given by the set of unit states they match.    *)
(* The core at the other end of UpdatesChan is reduced to the last item it *)
(* has received for every key.  Time is counted in ticks, and timers count *)
(* down.                                                                   *)
(***************************************************************************)
EXTENDS Naturals, Sequences, FiniteSets

CONSTANTS
    Unit,           \* unit names, which are also the item keys
    UnitState,      \* (ActiveState, SubState) pairs
    NotSent,        \* UnitStateNotSentBySystemd, a member of UnitState
    UnitRules,      \* sequence of [units, names, conditions]
    OK, Error,      \* item states; the others come from the conditions
    None,           \* no entry, no policy, no rule
    ProviderCap,    \* capacity of providerUpdCh (16)
    ReadyCap,       \* capacity of resolutionReadyCh (16)
    UpdCap,         \* capacity of UpdatesChan (16)
    MaxEmits,       \* bound: updates the provider emits
    MaxAfter        \* bound: the largest resolve.after, in ticks

\* ConfigResolve
Policy == [after : 1..MaxAfter, states : SUBSET UnitState]

Conditions ==
    UNION {{UnitRules[i].conditions[j] : j \in DOMAIN UnitRules[i].conditions} :
            i \in DOMAIN UnitRules}

\* The unit states that count as recovery under some policy.
Recovery == UNION {c.resolve.states : c \in {d \in Conditions : d.resolve # None}}

\* The units that rules name explicitly.
NamedUnits == UNION {UnitRules[i].names : i \in DOMAIN UnitRules}

ASSUME SystemdAssumption ==
    /\ NotSent \in UnitState /\ None \notin UnitState
    /\ DOMAIN UnitRules = 1..Len(UnitRules) /\ NamedUnits \subseteq Unit
    /\ \A i \in DOMAIN UnitRules :
           DOMAIN UnitRules[i].conditions = 1..Len(UnitRules[i].conditions)
    /\ \A c \in Conditions : c.resolve = None \/ c.resolve \in Policy
    /\ {ProviderCap, ReadyCap, UpdCap} \subseteq Nat \ {0}
    /\ MaxEmits \in Nat /\ MaxAfter \in Nat

VARIABLES
    \* The provider.
    emits,          \* updates emitted so far, bounded by MaxEmits
    providerCh,     \* providerUpdCh
    provider,       \* "running" or "done" (channel closed)
    emitted,        \* per unit: the last state emitted for it
    \* The run goroutine.
    runPc,          \* "select", "send" or "done"
    firstUpdate,
    shuttingDown,
    incident,       \* per key: None or [resolve, state, deferred]
    pending,        \* per key: None or the pendingResolution
    nextGeneration,
    outUpd,         \* the update sendUpdate is sending
    \* Timers, channels and Close.
    callbacks,      \* timer callbacks blocked on resolutionReadyCh
    readyCh,        \* resolutionReadyCh
    updCh,          \* UpdatesChan
    published,      \* per key: the last item the core received
    closePc,        \* "open", "teardown", "provider" or "closed"
    \* History.
    opened,         \* per key: the policy of the condition that opened its incident
    recovered       \* per key: ticks run has seen it in recovery, or None

providerVars == <<emits, providerCh, provider, emitted>>
runVars == <<runPc, firstUpdate, shuttingDown, incident, pending, nextGeneration,
             outUpd, opened, recovered>>
chanVars == <<callbacks, readyCh, updCh, published>>
vars == <<providerVars, runVars, chanVars, closePc>>

\* c.teardown is closed.
Teardown == closePc # "open"

-----------------------------------------------------------------------------
(* getItemFromUnit: the first rule that applies, its first condition that  *)
(* matches; Error without a policy when none does.                         *)

First(S) == CHOOSE i \in S : \A j \in S : i <= j

RuleHits(u) == {i \in DOMAIN UnitRules : u \in UnitRules[i].units}

ConditionHits(conditions, s) == {i \in DOMAIN conditions : s \in conditions[i].match}

getItemFromUnit(u, s) ==
    IF RuleHits(u) = {} THEN None
    ELSE LET conditions == UnitRules[First(RuleHits(u))].conditions
             hits == ConditionHits(conditions, s)
         IN  IF hits = {} THEN [state |-> Error, details |-> s, resolve |-> None]
             ELSE LET cond == conditions[First(hits)]
                  IN  [state |-> cond.result, details |-> s, resolve |-> cond.resolve]

Item(state, details) == [state |-> state, details |-> details]

\* Mutant of Completed: no synthetic units.
CompletedNot(units) == units

\* The first update represents every named unit.
Completed(units) ==
    [u \in Unit |-> IF firstUpdate /\ u \in NamedUnits /\ units[u] = None
                    THEN NotSent ELSE units[u]]

-----------------------------------------------------------------------------
(***************************************************************************)
(* The body of the loop over the units of an update, for unit u in state   *)
(* s: the new incident and pending entries of its key, and the item to     *)
(* publish (or None).                                                      *)
(***************************************************************************)
Entry(inc, pend, item) == [incident |-> inc, pending |-> pend, item |-> item]

\* Mutant of NotOKEntry: the timer is stopped, its entry is not deleted.
NotOKEntryStopOnly(u, item) ==
    LET old == incident[u]
    IN  Entry([resolve  |-> IF old = None THEN item.resolve ELSE old.resolve,
               state    |-> item.state,
               deferred |-> None],
              IF pending[u] = None THEN None ELSE [pending[u] EXCEPT !.fired = TRUE],
              Item(item.state, item.details))

\* Mutant of NotOKEntry: the state last published while deferred is kept.
NotOKEntryKeepsDeferred(u, item) ==
    LET old == incident[u]
    IN  Entry([resolve  |-> IF old = None THEN item.resolve ELSE old.resolve,
               state    |-> item.state,
               deferred |-> IF old = None THEN None ELSE old.deferred],
              None,
              Item(item.state, item.details))

\* A non-OK item ends any recovery; the incident keeps its first policy.
NotOKEntry(u, item) ==
    LET old == incident[u]
    IN  Entry([resolve  |-> IF old = None THEN item.resolve ELSE old.resolve,
               state    |-> item.state,
               deferred |-> None],
              None,
              Item(item.state, item.details))

\* An OK item of an incident with a policy: publish a change of the unit's
\* state under the incident's severity, and run, keep or cancel the timer.
\* The timers that one update starts share a generation: generations are only
\* compared between timers of the same key.
DeferredEntry(u, s) ==
    LET old == incident[u]
        item == IF old.deferred = s THEN None ELSE Item(old.state, s)
        inc == [old EXCEPT !.deferred = s]
    IN  IF s \notin old.resolve.states THEN Entry(inc, None, item)
        ELSE IF pending[u] # None
             THEN Entry(inc, [pending[u] EXCEPT !.details = s], item)
             ELSE Entry(inc, [details    |-> s,
                              generation |-> nextGeneration + 1,
                              left       |-> old.resolve.after,
                              fired      |-> FALSE], item)

UnitEntry(u, s) ==
    LET item == getItemFromUnit(u, s)
    IN  IF item = None THEN Entry(incident[u], pending[u], None)
        ELSE IF item.state # OK THEN NotOKEntry(u, item)
        ELSE IF incident[u] = None \/ incident[u].resolve = None
             THEN Entry(None, None, Item(OK, s))
             ELSE DeferredEntry(u, s)

\* History: the policy of the condition that opened the incident of u, if any;
\* inc is the incident once u has been seen in state s.
OpenedAfter(u, s, inc) ==
    IF inc = None THEN None
    ELSE IF incident[u] = None THEN getItemFromUnit(u, s).resolve ELSE opened[u]

\* History: how long run has seen the key in recovery, whatever the timers.
RecoveredAfter(u, s) ==
    IF /\ opened[u] # None
       /\ s \in opened[u].states
       /\ getItemFromUnit(u, s).state = OK
    THEN IF recovered[u] = None THEN 0 ELSE recovered[u]
    ELSE None

NoItems == [u \in Unit |-> None]

-----------------------------------------------------------------------------
Init ==
    /\ emits = 0
    /\ providerCh = <<>>
    /\ provider = "running"
    /\ emitted = [u \in Unit |-> None]
    /\ runPc = "select"
    /\ firstUpdate = TRUE
    /\ shuttingDown = FALSE
    /\ incident = [u \in Unit |-> None]
    /\ pending = [u \in Unit |-> None]
    /\ nextGeneration = 0
    /\ outUpd = NoItems
    /\ callbacks = {}
    /\ readyCh = <<>>
    /\ updCh = <<>>
    /\ published = [u \in Unit |-> None]
    /\ closePc = "open"
    /\ opened = [u \in Unit |-> None]
    /\ recovered = [u \in Unit |-> None]

(* The provider: runSubscription.                                          *)

\* Some units changed, or are reported again as they were; a unit that went away
\* is sent as nil, which the collector reads as NotSent.
ProviderEmit ==
    /\ provider = "running"
    /\ emits < MaxEmits
    /\ Len(providerCh) < ProviderCap
    /\ \E units \in [Unit -> UnitState \cup {None}] :
        /\ providerCh' = Append(providerCh, [err |-> FALSE, units |-> units])
        /\ emitted' = [u \in Unit |-> IF units[u] = None THEN emitted[u] ELSE units[u]]
    /\ emits' = emits + 1
    /\ UNCHANGED <<provider, runVars, chanVars, closePc>>

\* The subscription failed once.
ProviderError ==
    /\ provider = "running"
    /\ emits < MaxEmits
    /\ Len(providerCh) < ProviderCap
    /\ providerCh' = Append(providerCh, [err |-> TRUE, units |-> NoItems])
    /\ emits' = emits + 1
    /\ UNCHANGED <<provider, emitted, runVars, chanVars, closePc>>

\* stop is closed: the channel and done are closed.
ProviderStop ==
    /\ closePc = "provider"
    /\ provider = "running"
    /\ provider' = "done"
    /\ UNCHANGED <<emits, providerCh, emitted, runVars, chanVars, closePc>>

-----------------------------------------------------------------------------
(* run.                                                                    *)

\* The keys of an update that carry an item are sent, unless there are none.
Send(items) ==
    /\ outUpd' = items
    /\ runPc' = IF items = NoItems THEN "select" ELSE "send"

\* After teardown provider updates are only drained.
RunDrain ==
    /\ runPc = "select"
    /\ providerCh # <<>>
    /\ shuttingDown \/ Teardown
    /\ shuttingDown' = TRUE
    /\ providerCh' = Tail(providerCh)
    /\ UNCHANGED <<emits, provider, emitted, runPc, firstUpdate, incident,
                   pending, nextGeneration, outUpd, opened, recovered, chanVars, closePc>>

\* An error is forwarded: it changes nothing in the core.
RunError ==
    /\ runPc = "select"
    /\ providerCh # <<>>
    /\ Head(providerCh).err
    /\ ~shuttingDown /\ ~Teardown
    /\ providerCh' = Tail(providerCh)
    /\ runPc' = "send"
    /\ UNCHANGED <<emits, provider, emitted, firstUpdate, shuttingDown, incident,
                   pending, nextGeneration, outUpd, opened, recovered, chanVars, closePc>>

RunUnits ==
    /\ runPc = "select"
    /\ providerCh # <<>>
    /\ ~Head(providerCh).err
    /\ ~shuttingDown /\ ~Teardown
    /\ providerCh' = Tail(providerCh)
    /\ firstUpdate' = FALSE
    /\ LET units == Completed(Head(providerCh).units)
           entries == [u \in Unit |->
                          IF units[u] = None THEN Entry(incident[u], pending[u], None)
                          ELSE UnitEntry(u, units[u])]
       IN  /\ incident' = [u \in Unit |-> entries[u].incident]
           /\ pending' = [u \in Unit |-> entries[u].pending]
           /\ opened' = [u \in Unit |->
                  IF units[u] = None THEN opened[u]
                  ELSE OpenedAfter(u, units[u], entries[u].incident)]
           /\ recovered' = [u \in Unit |->
                  IF units[u] = None \/ RuleHits(u) = {} THEN recovered[u]
                  ELSE RecoveredAfter(u, units[u])]
           /\ nextGeneration' = IF \E u \in Unit : pending[u] = None /\ entries[u].pending # None
                                THEN nextGeneration + 1 ELSE nextGeneration
           /\ Send([u \in Unit |-> entries[u].item])
    /\ UNCHANGED <<emits, provider, emitted, shuttingDown, chanVars, closePc>>

\* Mutant of IsCurrent: the generation is not compared.
IsAnyPending(ready) == pending[ready.key] # None

\* A timer's message belongs to the pending resolution of its key; one that
\* does not is stale.
IsCurrent(ready) ==
    pending[ready.key] # None /\ pending[ready.key].generation = ready.generation

RunStaleReady ==
    /\ runPc = "select"
    /\ readyCh # <<>>
    /\ ~IsCurrent(Head(readyCh))
    /\ readyCh' = Tail(readyCh)
    /\ UNCHANGED <<providerVars, runVars, callbacks, updCh, published, closePc>>

\* The recovery window is over: publish the OK item.
RunResolve ==
    /\ runPc = "select"
    /\ readyCh # <<>>
    /\ IsCurrent(Head(readyCh))
    /\ LET ready == Head(readyCh) IN
        /\ pending' = [pending EXCEPT ![ready.key] = None]
        /\ incident' = [incident EXCEPT ![ready.key] = None]
        /\ opened' = [opened EXCEPT ![ready.key] = None]
        /\ recovered' = [recovered EXCEPT ![ready.key] = None]
        /\ Send([NoItems EXCEPT ![ready.key] = Item(OK, pending[ready.key].details)])
    /\ readyCh' = Tail(readyCh)
    /\ UNCHANGED <<providerVars, firstUpdate, shuttingDown, nextGeneration,
                   callbacks, updCh, published, closePc>>

\* sendUpdate: the update goes out ...
RunSend ==
    /\ runPc = "send"
    /\ Len(updCh) < UpdCap
    /\ updCh' = Append(updCh, outUpd)
    /\ outUpd' = NoItems
    /\ runPc' = "select"
    /\ UNCHANGED <<providerVars, firstUpdate, shuttingDown, incident, pending,
                   nextGeneration, opened, recovered, callbacks, readyCh, published, closePc>>

\* Mutant of RunDrop: sendUpdate's select has no teardown case.
RunDropWhenRoom ==
    /\ runPc = "send"
    /\ Teardown
    /\ Len(updCh) < UpdCap
    /\ shuttingDown' = TRUE
    /\ outUpd' = NoItems
    /\ runPc' = "select"
    /\ UNCHANGED <<providerVars, firstUpdate, incident, pending,
                   nextGeneration, opened, recovered, chanVars, closePc>>

\* ... or is dropped because of teardown.
RunDrop ==
    /\ runPc = "send"
    /\ Teardown
    /\ shuttingDown' = TRUE
    /\ outUpd' = NoItems
    /\ runPc' = "select"
    /\ UNCHANGED <<providerVars, firstUpdate, incident, pending,
                   nextGeneration, opened, recovered, chanVars, closePc>>

\* providerUpdCh is closed and drained: stop the timers.
RunReturn ==
    /\ runPc = "select"
    /\ providerCh = <<>>
    /\ provider = "done"
    /\ runPc' = "done"
    /\ pending' = [u \in Unit |-> None]
    /\ UNCHANGED <<providerVars, firstUpdate, shuttingDown, incident, nextGeneration,
                   outUpd, opened, recovered, chanVars, closePc>>

-----------------------------------------------------------------------------
(* Timers.                                                                 *)

\* Time passes for the running timers and for the history.
Tick ==
    /\ pending' = [u \in Unit |->
            IF pending[u] = None \/ pending[u].left = 0 THEN pending[u]
            ELSE [pending[u] EXCEPT !.left = @ - 1]]
    /\ recovered' = [u \in Unit |->
            IF recovered[u] \in {None, MaxAfter} THEN recovered[u] ELSE recovered[u] + 1]
    /\ UNCHANGED <<emits, providerCh, provider, emitted, runPc, firstUpdate, shuttingDown,
                   incident, nextGeneration, outUpd, opened, chanVars, closePc>>

\* The timer of u expires: from here on Stop comes too late.
TimerFire(u) ==
    /\ pending[u] # None
    /\ pending[u].left = 0
    /\ ~pending[u].fired
    /\ pending' = [pending EXCEPT ![u].fired = TRUE]
    /\ callbacks' = callbacks \cup {[key |-> u, generation |-> pending[u].generation]}
    /\ UNCHANGED <<providerVars, runPc, firstUpdate, shuttingDown, incident, nextGeneration,
                   outUpd, opened, recovered, readyCh, updCh, published, closePc>>

\* The callback's select.
CallbackSend(ready) ==
    /\ Len(readyCh) < ReadyCap
    /\ readyCh' = Append(readyCh, ready)
    /\ callbacks' = callbacks \ {ready}
    /\ UNCHANGED <<providerVars, runVars, updCh, published, closePc>>

CallbackDrop(ready) ==
    /\ Teardown
    /\ callbacks' = callbacks \ {ready}
    /\ UNCHANGED <<providerVars, runVars, readyCh, updCh, published, closePc>>

-----------------------------------------------------------------------------
(* The core, and Close.                                                    *)

CoreReceive ==
    /\ updCh # <<>>
    /\ published' = [u \in Unit |->
            IF Head(updCh)[u] = None THEN published[u] ELSE Head(updCh)[u]]
    /\ updCh' = Tail(updCh)
    /\ UNCHANGED <<providerVars, runVars, callbacks, readyCh, closePc>>

\* close(c.teardown), then c.pr.Close(), then wait for torndown.
CloseTeardown ==
    /\ closePc = "open"
    /\ closePc' = "teardown"
    /\ UNCHANGED <<providerVars, runVars, chanVars>>

CloseProvider ==
    /\ closePc = "teardown"
    /\ closePc' = "provider"
    /\ UNCHANGED <<providerVars, runVars, chanVars>>

CloseReturn ==
    /\ closePc = "provider"
    /\ provider = "done"
    /\ runPc = "done"
    /\ closePc' = "closed"
    /\ UNCHANGED <<providerVars, runVars, chanVars>>

RunStep ==
    \/ RunDrain \/ RunError \/ RunUnits \/ RunStaleReady \/ RunResolve
    \/ RunSend \/ RunDrop \/ RunReturn

CallbackStep == \E ready \in callbacks : CallbackSend(ready) \/ CallbackDrop(ready)

Next ==
    \/ ProviderEmit \/ ProviderError \/ ProviderStop
    \/ RunStep
    \/ Tick \/ (\E u \in Unit : TimerFire(u)) \/ CallbackStep
    \/ CoreReceive
    \/ CloseTeardown \/ CloseProvider \/ CloseReturn

\* Goroutines that can run do run and time passes.  Nothing obliges the units
\* to change, the core to receive or anybody to call Close.
Fairness ==
    /\ WF_vars(RunStep) /\ WF_vars(ProviderStop)
    /\ WF_vars(Tick) /\ \A u \in Unit : WF_vars(TimerFire(u))
    /\ WF_vars(CallbackStep)
    /\ WF_vars(CloseProvider \/ CloseReturn)

Spec == Init /\ [][Next]_vars

FairSpec == Spec /\ Fairness

\* With a core that keeps receiving until Close is called.
ServedSpec == FairSpec /\ WF_vars(CoreReceive /\ closePc = "open")

-----------------------------------------------------------------------------
ItemState == {OK, Error} \cup {c.result : c \in Conditions}

ItemType == [state : ItemState, details : UnitState]

UpdateType == [Unit -> ItemType \cup {None}]

\* What getItemFromUnit returns.
RuledItem == [state : ItemState, details : UnitState, resolve : Policy \cup {None}]

IncidentType ==
    [resolve : Policy \cup {None}, state : ItemState \ {OK}, deferred : UnitState \cup {None}]

PendingType ==
    [details : UnitState, generation : Nat, left : 0..MaxAfter, fired : BOOLEAN]

ReadyType == [key : Unit, generation : Nat]

\* None is nothing else.
ASSUME NoneAssumption ==
    None \notin Nat \cup ItemType \cup RuledItem \cup IncidentType \cup PendingType

TypeOK ==
    /\ emits \in 0..MaxEmits
    /\ \A i \in DOMAIN providerCh :
          providerCh[i] \in [err : BOOLEAN, units : [Unit -> UnitState \cup {None}]]
    /\ Len(providerCh) <= ProviderCap /\ Len(readyCh) <= ReadyCap /\ Len(updCh) <= UpdCap
    /\ provider \in {"running", "done"}
    /\ emitted \in [Unit -> UnitState \cup {None}]
    /\ runPc \in {"select", "send", "done"}
    /\ {firstUpdate, shuttingDown} \subseteq BOOLEAN
    /\ incident \in [Unit -> IncidentType \cup {None}]
    /\ pending \in [Unit -> PendingType \cup {None}]
    /\ nextGeneration \in Nat
    /\ outUpd \in UpdateType
    /\ callbacks \subseteq ReadyType
    /\ \A i \in DOMAIN readyCh : readyCh[i] \in ReadyType
    /\ \A i \in DOMAIN updCh : updCh[i] \in UpdateType
    /\ published \in UpdateType
    /\ closePc \in {"open", "teardown", "provider", "closed"}

\* The incident of u, opened by a condition with a resolve policy, ends.
ResolvesByPolicy(u) ==
    /\ incident[u] # None
    /\ opened[u] # None
    /\ incident'[u] = None

\* An incident opened by a condition with a resolve policy ends only when run has
\* seen the unit in that policy's states, without interruption, for the whole of
\* its resolve.after: neither a timer callback that raced with its cancellation
\* nor a later condition with another policy, or with none, ends it sooner.
ResolvedOnlyAfterRecovery ==
    [][\A u \in Unit : ResolvesByPolicy(u) =>
          recovered[u] # None /\ recovered[u] >= opened[u].after]_vars

\* The core knows what the collector knows: with nothing on its way, a key is
\* an incident in the core exactly when it is one in the collector, with the
\* same severity, and the core's details are the unit's last state.
CoreIsUpToDate ==
    (runPc = "select" /\ updCh = <<>> /\ ~Teardown) =>
        \A u \in Unit :
            /\ incident[u] # None <=> published[u] # None /\ published[u].state # OK
            /\ incident[u] # None => published[u].state = incident[u].state
            /\ (providerCh = <<>> /\ emitted[u] # None /\ RuleHits(u) # {}) =>
                    published[u] # None /\ published[u].details = emitted[u]

\* Once an update without error has been handled, the core has an item for
\* every unit the configuration names, also when systemd never mentions it and
\* when the first thing the provider sends is an error.
NamedUnitsAreReported ==
    (runPc = "select" /\ updCh = <<>> /\ ~Teardown /\ ~firstUpdate) =>
        \A u \in NamedUnits : RuleHits(u) # {} => published[u] # None

\* A unit that stays in a state that counts as recovery has its incident
\* resolved: no cancelled, blocked or stale timer keeps it open.  (Stated for
\* configurations in which every policy has the same states.)
RecoveredUnitResolves ==
    \A u \in Unit :
        <>[](/\ closePc = "open"
             /\ emitted[u] \in Recovery
             /\ getItemFromUnit(u, emitted[u]).state = OK)
        => <>[](published[u] # None /\ published[u].state = OK)

\* Close returns even when the core receives nothing any more, the provider
\* is blocked on a full channel and timer callbacks are in flight.
CloseTerminates == (closePc = "teardown") ~> (closePc = "closed")
=============================================================================
