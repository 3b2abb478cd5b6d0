------------------------------- MODULE Reducer -------------------------------
(***************************************************************************)
(* montray-ui's domain state (domain/model.rs) and the pure state machine  *)
(* over it (domain/reducer.rs).  For every event there are three           *)
(* operators: the handler (what it does to the state), its Notices (the    *)
(* desktop notifications it asks for) and Changed (whether it asks for a   *)
(* new snapshot to be published).                                          *)
(*                                                                         *)
(* Events name configured servers only: the tasks that send them are       *)
(* started from the same list as the state.                                *)
(***************************************************************************)
EXTENDS ServerLink

CONSTANT Absent   \* no value

ASSUME AbsentAssumption ==
    /\ Absent \notin [state : Severities, stale : BOOLEAN]
    /\ Absent \notin Nat

VARIABLES
    servers,     \* per server: connected, initialized, and the socket of the
                 \* last heartbeat (its time is not told apart)
    incidents,   \* per server and item: Absent, or severity and staleness
    internal,    \* per internal key: Absent, or the details
    snoozed      \* per key: Absent, or the exclusive deadline

stateVars == <<servers, incidents, internal, snoozed>>

\* Incident keys: "<server>.<item>" and "internal.{connection,tunnel}.<server>".
ItemKey(s, i) == <<s, i>>
ConnectionKey(s) == <<"connection", s>>
TunnelKey(s) == <<"tunnel", s>>
InternalKeys == {ConnectionKey(s) : s \in Servers} \cup {TunnelKey(s) : s \in Servers}
Keys == InternalKeys \cup {ItemKey(s, i) : s \in Servers, i \in Items}

\* AppState::new.
NewState(snoozes) ==
    [servers |-> [s \in Servers |->
                    [connected |-> FALSE, initialized |-> FALSE, heartbeat |-> Absent]],
     incidents |-> [s \in Servers |-> [i \in Items |-> Absent]],
     internal |-> [k \in InternalKeys |-> Absent],
     snoozed |-> snoozes]

\* A deadline that has passed no longer counts, stored or not.
is_snoozed(k, now) == snoozed[k] # Absent /\ snoozed[k] > now

-----------------------------------------------------------------------------
(* The snapshot for the window and the tray.                               *)

rank(state) ==
    CASE state = "unknown" -> 0
      [] state = "ok" -> 1
      [] state = "internalError" -> 2
      [] state = "warning" -> 3
      [] state = "error" -> 4

\* The highest-ranking state of a set of incidents.
overall_state(items) ==
    LET states == {"ok"} \cup
                  {IF x.key \in InternalKeys THEN "internalError" ELSE x.state : x \in items}
    IN  CHOOSE state \in states : \A other \in states : rank(other) <= rank(state)

\* Every incident of a state, internal ones and the servers'.
AllIncidents(st) ==
    {[key |-> k, state |-> "error", details |-> st.internal[k], stale |-> FALSE] :
        k \in {x \in InternalKeys : st.internal[x] # Absent}}
    \cup {[key |-> ItemKey(p[1], p[2]), state |-> st.incidents[p[1]][p[2]].state,
           details |-> Absent, stale |-> st.incidents[p[1]][p[2]].stale] :
        p \in {x \in Servers \X Items : st.incidents[x[1]][x[2]] # Absent}}

snapshot(st, now) ==
    LET Hidden(x) == st.snoozed[x.key] # Absent /\ st.snoozed[x.key] > now
        hidden == {x \in AllIncidents(st) : Hidden(x)}
        active == AllIncidents(st) \ hidden
        unknown == {s \in Servers : ~st.servers[s].initialized}
        alerting == overall_state(active)
    IN  [servers |-> st.servers,
         active |-> active,
         snoozed |-> {[incident |-> x, until |-> st.snoozed[x.key]] : x \in hidden},
         alerting_state |-> IF alerting = "ok" /\ unknown # {} THEN "unknown" ELSE alerting,
         snoozed_state |-> IF hidden = {} THEN Absent ELSE overall_state(hidden)]

-----------------------------------------------------------------------------
(* Handlers of network events.                                             *)

StatusChanged(s, up) == ~servers[s].initialized \/ servers[s].connected # up

\* Mutant of connected: the last heartbeat is kept.
ConnectedKeepsHeartbeat(s) ==
    /\ servers' = [servers EXCEPT ![s].connected = TRUE, ![s].initialized = TRUE]
    /\ internal' = [internal EXCEPT ![ConnectionKey(s)] = Absent]
    /\ UNCHANGED <<incidents, snoozed>>

\* A heartbeat of an earlier socket says nothing about this one.
connected(s) ==
    /\ servers' = [servers EXCEPT ![s] =
            [connected |-> TRUE, initialized |-> TRUE,
             heartbeat |-> IF StatusChanged(s, TRUE) THEN Absent ELSE @.heartbeat]]
    /\ internal' = [internal EXCEPT ![ConnectionKey(s)] = Absent]
    /\ UNCHANGED <<incidents, snoozed>>

SetOffline(s) ==
    servers' = [servers EXCEPT ![s].connected = FALSE, ![s].initialized = TRUE]

\* The incidents of a server that is offline stay, as context.
MarkStale(s) ==
    incidents' = [incidents EXCEPT ![s] =
        [i \in Items |-> IF @[i] = Absent THEN Absent ELSE [@[i] EXCEPT !.stale = TRUE]]]

\* No producer sends an empty error (the branch that would remove the
\* connection incident is never taken).
disconnected(s, error) ==
    /\ SetOffline(s)
    /\ MarkStale(s)
    /\ internal' = [internal EXCEPT ![ConnectionKey(s)] = error]
    /\ UNCHANGED snoozed

tunnel_ready(s) ==
    /\ internal' = [internal EXCEPT ![TunnelKey(s)] = Absent]
    /\ UNCHANGED <<servers, incidents, snoozed>>

\* Mutant of tunnel_failed: both incidents stay.
TunnelFailedOnTop(s, error) ==
    /\ SetOffline(s)
    /\ MarkStale(s)
    /\ internal' = [internal EXCEPT ![TunnelKey(s)] = error]
    /\ UNCHANGED snoozed

\* The tunnel is the root cause: its incident replaces the connection's.
tunnel_failed(s, error) ==
    /\ SetOffline(s)
    /\ MarkStale(s)
    /\ internal' = [internal EXCEPT ![ConnectionKey(s)] = Absent, ![TunnelKey(s)] = error]
    /\ UNCHANGED snoozed

heartbeat(s, sock) ==
    /\ servers' = [servers EXCEPT ![s].heartbeat = sock]
    /\ UNCHANGED <<incidents, internal, snoozed>>

\* "total" replaces what was cached for the server.
notification(s, total) ==
    /\ incidents' = [incidents EXCEPT ![s] =
            [i \in Items |-> IF i \in DOMAIN total
                             THEN [state |-> total[i], stale |-> FALSE] ELSE Absent]]
    /\ UNCHANGED <<servers, internal, snoozed>>

reduce(e) ==
    CASE e.type = "Connected" -> connected(e.server)
      [] e.type = "Disconnected" -> disconnected(e.server, e.error)
      [] e.type = "TunnelReady" -> tunnel_ready(e.server)
      [] e.type = "TunnelFailed" -> tunnel_failed(e.server, e.error)
      [] e.type = "Heartbeat" -> heartbeat(e.server, e.socket)
      [] e.type = "Notification" -> notification(e.server, e.total)

HasFresh(s) == \E i \in Items : incidents[s][i] # Absent /\ ~incidents[s][i].stale

\* Mutant of Changed: an incident beside an unchanged status is not published.
ChangedStatus(e) ==
    CASE e.type \in {"Connected", "TunnelReady"} -> StatusChanged(e.server, TRUE)
      [] e.type \in {"Disconnected", "TunnelFailed"} -> StatusChanged(e.server, FALSE)
      [] e.type \in {"Heartbeat", "Notification"} -> TRUE

\* Transition.changed.  Two heartbeats never carry the same time.
Changed(e) ==
    LET s == e.server IN
    CASE e.type = "Connected" ->
            StatusChanged(s, TRUE) \/ internal[ConnectionKey(s)] # Absent
      [] e.type = "Disconnected" ->
            \/ StatusChanged(s, FALSE)
            \/ HasFresh(s)
            \/ internal[ConnectionKey(s)] # e.error
      [] e.type = "TunnelReady" -> internal[TunnelKey(s)] # Absent
      [] e.type = "TunnelFailed" ->
            \/ StatusChanged(s, FALSE)
            \/ HasFresh(s)
            \/ internal[ConnectionKey(s)] # Absent
            \/ internal[TunnelKey(s)] # e.error
      [] e.type \in {"Heartbeat", "Notification"} -> TRUE

\* A notice for the key, unless the key is snoozed.
Unless_snoozed(kind, k, at) == {[kind |-> n, key |-> k] : n \in IF is_snoozed(k, at) THEN {} ELSE {kind}}

\* Effect::Notify of a network event.  An internal incident is announced when
\* it appears and when it goes, a server's as the server says.
Notices(e) ==
    LET s == e.server
        Appears(k) == IF internal[k] = Absent THEN Unless_snoozed("error", k, e.at) ELSE {}
        Goes(k) == IF internal[k] # Absent THEN Unless_snoozed("OK", k, e.at) ELSE {}
    IN
    CASE e.type = "Connected" -> Goes(ConnectionKey(s))
      [] e.type = "Disconnected" -> Appears(ConnectionKey(s))
      [] e.type = "TunnelReady" -> Goes(TunnelKey(s))
      [] e.type = "TunnelFailed" -> Appears(TunnelKey(s))
      [] e.type = "Heartbeat" -> {}
      [] e.type = "Notification" ->
            UNION {Unless_snoozed("error", ItemKey(s, i), e.at) : i \in e.added}
            \cup UNION {Unless_snoozed("OK", ItemKey(s, i), e.at) : i \in e.removed}

-----------------------------------------------------------------------------
(* Commands and ticks.  The snooze map is changed in two phases: an event  *)
(* only proposes a map, and the map is committed once it is on disk.       *)

WithSnooze(k, until) == [snoozed EXCEPT ![k] = until]

WithoutSnooze(k) == [snoozed EXCEPT ![k] = Absent]

Expired(at) == {k \in Keys : snoozed[k] # Absent /\ snoozed[k] <= at}

WithoutExpired(at) == [k \in Keys |-> IF k \in Expired(at) THEN Absent ELSE snoozed[k]]

\* Event::SnoozesPersisted.
snoozes_persisted(snoozes) ==
    /\ snoozed' = snoozes
    /\ UNCHANGED <<servers, incidents, internal>>

\* Mutant of forget_stale: whatever the incident is by now.
ForgetAny(k) ==
    /\ incidents' = [s \in Servers |-> [i \in Items |->
            IF ItemKey(s, i) = k THEN Absent ELSE incidents[s][i]]]
    /\ UNCHANGED <<servers, internal, snoozed>>

\* Event::ForgetStale: dismisses an incident only while it is stale.
forget_stale(k) ==
    /\ incidents' = [s \in Servers |-> [i \in Items |->
            IF ItemKey(s, i) = k /\ incidents[s][i] # Absent /\ incidents[s][i].stale
            THEN Absent ELSE incidents[s][i]]]
    /\ UNCHANGED <<servers, internal, snoozed>>
=============================================================================
