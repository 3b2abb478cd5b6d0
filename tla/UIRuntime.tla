------------------------------ MODULE UIRuntime ------------------------------
(***************************************************************************)
(* montray-ui's event loop (runtime.rs): the sole owner of the reducer.    *)
(* It takes network events, user commands and ticks one at a time, writes  *)
(* snoozes to the state file before it commits them, and publishes         *)
(* snapshots to the window and the tray.                                   *)
(*                                                                         *)
(* The network side is the abstract ServerLink.  A write is awaited: the   *)
(* loop takes nothing else meanwhile, so events and commands pile up in    *)
(* their channels.  The process may crash and be started again, at any     *)
(* moment, also between the write and its acknowledgement.                 *)
(***************************************************************************)
EXTENDS Reducer

CONSTANTS
    CommandCap,    \* capacity of the commands channel (32)
    SnoozeKeys,    \* the keys the user may snooze
    Durations,     \* the durations offered
    MaxTime        \* bound on the clock

ASSUME RuntimeAssumption ==
    /\ SnoozeKeys \subseteq Keys
    /\ Durations \subseteq Nat \ {0}
    /\ MaxTime \in Nat

VARIABLES
    commands,   \* the commands channel
    pump,       \* the loop: "select", "persist" (the write is running) or
                \* "written" (it is done and not yet acknowledged)
    proposal,   \* what is being written: the map and the SnoozeAction
    cooling,    \* expiry_retry_not_before lies ahead
    disk,       \* the snoozes of the state file
    view,       \* the last published snapshot
    told        \* internal incidents the user has been told of (history)

loopVars == <<commands, pump, proposal, cooling, disk, view, told>>
vars == <<linkVars, clock, stateVars, loopVars>>

Command == [op : {"Snooze"}, key : Keys, duration : Durations]
    \cup [op : {"Unsnooze", "ForgetStale"}, key : Keys]

State == [servers |-> servers, incidents |-> incidents, internal |-> internal,
          snoozed |-> snoozed]

NoSnoozes == [k \in Keys |-> Absent]

\* The loop starts with an empty reducer and the snoozes of the state file.
Init ==
    /\ LinkInit
    /\ clock = 0
    /\ servers = NewState(NoSnoozes).servers
    /\ incidents = NewState(NoSnoozes).incidents
    /\ internal = NewState(NoSnoozes).internal
    /\ snoozed = NoSnoozes
    /\ commands = <<>>
    /\ pump = "select"
    /\ proposal = Absent
    /\ cooling = FALSE
    /\ disk = NoSnoozes
    /\ view = snapshot(NewState(NoSnoozes), 0)
    /\ told = {}

-----------------------------------------------------------------------------
(* One pass of the loop.                                                   *)

Publish(yes) ==
    IF yes THEN view' = snapshot(State', clock)
           ELSE UNCHANGED view

\* History: the user is told of an incident by a notification, or has asked
\* for it to be shown again, and the incident is still there.
Tell(keys) == told' = {k \in told \cup keys : k \in InternalKeys /\ internal'[k] # Absent}

HandleEvent ==
    /\ pump = "select"
    /\ Receive
    /\ LET e == Head(events) IN
        /\ reduce(e)
        /\ Tell({n.key : n \in {x \in Notices(e) : x.kind = "error"}})
        /\ Publish(Changed(e))
    /\ UNCHANGED <<clock, commands, pump, proposal, cooling, disk>>

Propose(action, key, keys, snoozes) ==
    /\ pump' = "persist"
    /\ proposal' = [action |-> action, key |-> key, keys |-> keys, snoozes |-> snoozes]

TakeCommand(op) ==
    /\ pump = "select"
    /\ commands # <<>>
    /\ Head(commands).op = op
    /\ commands' = Tail(commands)
    /\ UNCHANGED <<linkVars, clock, cooling, disk>>

\* Mutant of HandleSnooze: committed before it is written.
HandleSnoozeEagerly ==
    /\ TakeCommand("Snooze")
    /\ LET k == Head(commands).key
           until == clock + Head(commands).duration
       IN  Propose("Set", k, {}, WithSnooze(k, until)) /\ snoozed' = WithSnooze(k, until)
    /\ UNCHANGED <<servers, incidents, internal, view, told>>

HandleSnooze ==
    /\ TakeCommand("Snooze")
    /\ LET k == Head(commands).key
           until == clock + Head(commands).duration
       IN  IF snoozed[k] = until
           THEN UNCHANGED <<pump, proposal>>
           ELSE Propose("Set", k, {}, WithSnooze(k, until))
    /\ UNCHANGED <<stateVars, view, told>>

HandleUnsnooze ==
    /\ TakeCommand("Unsnooze")
    /\ LET k == Head(commands).key
       IN  IF snoozed[k] = Absent
           THEN UNCHANGED <<pump, proposal>>
           ELSE Propose("Remove", k, {}, WithoutSnooze(k))
    /\ UNCHANGED <<stateVars, view, told>>

HandleForgetStale ==
    /\ TakeCommand("ForgetStale")
    /\ forget_stale(Head(commands).key)
    /\ Publish(incidents' # incidents)
    /\ UNCHANGED <<pump, proposal, told>>

\* The one-second tick: proposes to drop expired snoozes, unless a write that
\* failed is still cooling down.  Without a write, it only publishes.
Tick ==
    /\ pump = "select"
    /\ UNCHANGED stateVars
    /\ IF Expired(clock) # {} /\ ~cooling
       THEN /\ Propose("Expire", Absent, Expired(clock), WithoutExpired(clock))
            /\ UNCHANGED view
       ELSE /\ Publish(TRUE)
            /\ UNCHANGED <<pump, proposal>>
    /\ UNCHANGED <<linkVars, clock, commands, cooling, disk, told>>

-----------------------------------------------------------------------------
(* The write, on a blocking thread, and its acknowledgement.               *)

\* Store::update succeeds: load, replace_snoozes, save.
Write ==
    /\ pump = "persist"
    /\ disk' = proposal.snoozes
    /\ pump' = "written"
    /\ UNCHANGED <<linkVars, clock, stateVars, commands, proposal, cooling, view,
                   told>>

\* Mutant of snooze_expiry_notifications: looks among the hidden incidents.
RemindersOfHidden(st, now) ==
    {x.incident.key : x \in snapshot(st, now).snoozed} \cap proposal.keys

\* The keys of the reminders: incidents that are still there when their
\* snooze has been dropped.
snooze_expiry_notifications(st, now) ==
    {x.key : x \in snapshot(st, now).active} \cap proposal.keys

\* Commit, remind, publish.
Acknowledge ==
    /\ pump = "written"
    /\ cooling' = FALSE
    /\ snoozes_persisted(proposal.snoozes)
    /\ Tell(IF proposal.action = "Remove" THEN {proposal.key}
            ELSE snooze_expiry_notifications(State', clock))
    /\ Publish(snoozed' # snoozed \/ proposal.action = "Expire")
    /\ pump' = "select"
    /\ proposal' = Absent
    /\ UNCHANGED <<linkVars, clock, commands, disk>>

\* The write fails: the file and the state stay as they are.  The user is told,
\* unless it was an expiry; an expiry is tried again after the cooldown.
WriteFails ==
    /\ pump = "persist"
    /\ cooling' = (cooling \/ proposal.action = "Expire")
    /\ pump' = "select"
    /\ proposal' = Absent
    /\ IF proposal.action = "Expire" THEN view' = snapshot(State, clock)
                                     ELSE UNCHANGED view
    /\ UNCHANGED <<linkVars, clock, stateVars, commands, disk, told>>

\* Mutant of CooldownEnds: the deadline is never looked at again.
CooldownStays == cooling /\ UNCHANGED vars

CooldownEnds ==
    /\ cooling
    /\ cooling' = FALSE
    /\ UNCHANGED <<linkVars, clock, stateVars, commands, pump, proposal, disk, view,
                   told>>

-----------------------------------------------------------------------------
(* Everything around the loop.                                             *)

Network == LinkNext /\ UNCHANGED <<stateVars, loopVars>>

TimePasses ==
    /\ clock < MaxTime
    /\ clock' = clock + 1
    /\ UNCHANGED <<linkVars, stateVars, loopVars>>

\* A click on an incident of the published view.  try_send: a command that
\* finds the channel full is dropped.
Click ==
    /\ Len(commands) < CommandCap
    /\ \/ \E x \in view.active, d \in Durations :
            /\ x.key \in SnoozeKeys
            /\ commands' = Append(commands, [op |-> "Snooze", key |-> x.key, duration |-> d])
       \/ \E x \in view.snoozed :
            commands' = Append(commands, [op |-> "Unsnooze", key |-> x.incident.key])
       \/ \E x \in view.active :
            /\ x.stale
            /\ commands' = Append(commands, [op |-> "ForgetStale", key |-> x.key])
    /\ UNCHANGED <<linkVars, clock, stateVars, pump, proposal, cooling, disk, view,
                   told>>

\* The process ends and is started again; only the state file survives.
Crash ==
    /\ link' = NewLinks
    /\ socket' = [s \in Servers |-> 0]
    /\ events' = <<>>
    /\ servers' = NewState(disk).servers
    /\ incidents' = NewState(disk).incidents
    /\ internal' = NewState(disk).internal
    /\ snoozed' = disk
    /\ commands' = <<>>
    /\ pump' = "select"
    /\ proposal' = Absent
    /\ cooling' = FALSE
    /\ Publish(TRUE)
    /\ told' = {}
    /\ UNCHANGED <<tunneled, clock, disk>>

Next ==
    \/ Network \/ TimePasses \/ Click \/ Crash
    \/ HandleEvent \/ HandleSnooze \/ HandleUnsnooze \/ HandleForgetStale \/ Tick
    \/ Write \/ Acknowledge \/ WriteFails \/ CooldownEnds

Spec == Init /\ [][Next]_vars

(***************************************************************************)
(* Fairness: the tick and a ready event or command are chosen again and    *)
(* again (select! picks at random among what is ready), a write returns,   *)
(* and a file system does not refuse every one of the repeated attempts.   *)
(* The user and the network owe nothing.                                   *)
(***************************************************************************)
Fairness ==
    /\ SF_vars(Tick)
    /\ WF_vars(Acknowledge)
    /\ SF_vars(Write /\ proposal.action = "Expire")
    /\ WF_vars(Write \/ WriteFails)
    /\ WF_vars(CooldownEnds)

FairSpec == Spec /\ Fairness

-----------------------------------------------------------------------------
\* The channels stay within their capacity (runtime.rs), and a proposal exists only
\* while the loop awaits its write.
TypeOK ==
    /\ tunneled \subseteq Servers
    /\ link \in [Servers -> LinkStates]
    /\ socket \in [Servers -> {0, 1}]
    /\ events \in Seq(Event) /\ Len(events) <= EventCap
    /\ servers \in [Servers -> [connected : BOOLEAN, initialized : BOOLEAN,
                               heartbeat : {0, 1, Absent}]]
    /\ incidents \in [Servers -> [Items -> [state : Severities, stale : BOOLEAN] \cup {Absent}]]
    /\ internal \in [InternalKeys -> Errors \cup {Absent}]
    /\ snoozed \in [Keys -> Nat \cup {Absent}]
    /\ disk \in [Keys -> Nat \cup {Absent}]
    /\ commands \in Seq(Command) /\ Len(commands) <= CommandCap
    /\ pump \in {"select", "persist", "written"}
    /\ (proposal = Absent) = (pump = "select")
    /\ cooling \in BOOLEAN
    /\ told \subseteq InternalKeys

\* "failed writes cannot alter live behavior" (reducer.rs): the snoozes the
\* program acts on are the ones in the state file, whatever write fails and
\* whenever the process dies, except between a write and its acknowledgement.
LiveIsDurable == pump # "written" => snoozed = disk

\* The window and the tray show the state: whenever a handler changes what a
\* snapshot contains, it also asks for one to be published.
ViewIsCurrent == \E t \in 0..clock : view = snapshot(State, t)

\* "the root-cause tunnel incident is the only visible internal failure"
\* (reducer.rs): a server never has a tunnel and a connection incident.
RootCauseOnly ==
    \A s \in Servers : internal[ConnectionKey(s)] = Absent \/ internal[TunnelKey(s)] = Absent

\* Incidents shown as current come from a server that is connected; those of
\* every other server are marked stale.
FreshMeansConnected == \A s \in Servers : HasFresh(s) => servers[s].connected

\* Connected events of s that the loop has not taken yet.
Behind(s) == {i \in DOMAIN events : events[i].type = "Connected" /\ events[i].server = s}

\* "A heartbeat from the previous socket says nothing about this one"
\* (reducer.rs): the heartbeat shown for a connected server was received on
\* the socket it is connected by: the current one or, where another Connected
\* waits, the one before.
HeartbeatOfThisSocket ==
    \A s \in Servers :
        servers[s].connected /\ servers[s].heartbeat # Absent =>
            servers[s].heartbeat =
                IF Behind(s) = {} THEN socket[s]
                ELSE 1 - events[CHOOSE i \in Behind(s) : \A j \in Behind(s) : i <= j].socket

\* A notice is requested for every connection or tunnel incident that is not
\* snoozed, when it appears or when its snooze ends, also if it appeared while
\* it was snoozed and the write that ends the snooze failed at first (the
\* dispatcher may still drop it when its queue is full).
NoSilentAlert ==
    pump = "select" =>
        \A k \in InternalKeys : internal[k] # Absent /\ snoozed[k] = Absent => k \in told

\* An incident a connected server reports disappears only when that server
\* says so, or with the process: a click on a stale incident that is current
\* again by the time the click is handled dismisses nothing.
OnlyServerResolves ==
    [][\A s \in Servers, i \in Items :
        incidents[s][i] # Absent /\ ~incidents[s][i].stale /\ incidents'[s][i] = Absent =>
            \/ events # <<>> /\ Head(events).type = "Notification" /\ Head(events).server = s
            \/ ~servers'[s].initialized]_vars

\* A snooze ends: once its deadline has passed, it is removed from the state
\* file, whatever fails on the way.
SnoozesEnd ==
    \A k \in SnoozeKeys :
        (disk[k] # Absent /\ disk[k] <= clock) ~> (disk[k] = Absent \/ disk[k] > clock)
=============================================================================
