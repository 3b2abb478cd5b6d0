----------------------------- MODULE ServerLink -----------------------------
(***************************************************************************)
(* What the network side of montray-ui promises its event loop: the order  *)
(* in which the events of one server arrive.  The reducer relies on this   *)
(* order; UINetwork shows that the connection loop and the tunnel          *)
(* supervisor keep it.                                                     *)
(*                                                                         *)
(* A link is "down" while its tunnel is not ready, "up" while there is no  *)
(* WebSocket, "online" while there is one, "broken" between the end of the *)
(* tunnel's process and the report of it, and "stopped" for good.  Events  *)
(* wait in one bounded channel, in order.                                  *)
(***************************************************************************)
EXTENDS Naturals, Sequences

CONSTANTS
    Servers,      \* the configured server IDs
    Items,        \* the items a server may report
    Severities,   \* the states of an incident
    Errors,       \* the texts of connection and tunnel errors
    EventCap      \* capacity of the events channel (64)

VARIABLES
    tunneled,   \* the servers that are reached through a tunnel (configuration)
    link,       \* per server: see above
    socket,     \* per server: 0 or 1, flips with every new WebSocket
    events,     \* the events channel
    clock       \* the wall clock

linkVars == <<tunneled, link, socket, events>>

\* The incidents of a "total" list: the reported items and their severity.
Reports == UNION {[S -> Severities] : S \in SUBSET Items}

\* RuntimeEvent; socket is history, the WebSocket that was opened or that beat.
Event ==
    [type : {"TunnelReady"}, server : Servers, at : Nat]
        \cup [type : {"Disconnected", "TunnelFailed"}, server : Servers,
              error : Errors, at : Nat]
        \cup [type : {"Connected", "Heartbeat"}, server : Servers, socket : {0, 1}, at : Nat]
        \cup [type : {"Notification"}, server : Servers, total : Reports,
              added : SUBSET Items, removed : SUBSET Items, at : Nat]

LinkStates == {"down", "up", "online", "broken", "stopped"}

\* A tunneled server dials only once its tunnel is ready.
NewLinks == [s \in Servers |-> IF s \in tunneled THEN "down" ELSE "up"]

LinkInit ==
    /\ tunneled \in SUBSET Servers
    /\ link = NewLinks
    /\ socket = [s \in Servers |-> 0]
    /\ events = <<>>

\* mpsc::Sender::send: waits while the channel is full.
Send(e) ==
    /\ Len(events) < EventCap
    /\ events' = Append(events, e)

Move(s, from, to) ==
    /\ link[s] \in from
    /\ link' = [link EXCEPT ![s] = to]

TunnelReady(s) ==
    /\ s \in tunneled
    /\ Move(s, {"down"}, "up")
    /\ Send([type |-> "TunnelReady", server |-> s, at |-> clock])
    /\ UNCHANGED <<tunneled, socket, clock>>

\* The tunnel's process cannot be started or has ended; its connection, if any,
\* sends nothing any more.
TunnelBreaks(s) ==
    /\ s \in tunneled
    /\ Move(s, {"down", "up", "online"}, "broken")
    /\ UNCHANGED <<tunneled, socket, events, clock>>

TunnelFailed(s, error) ==
    /\ s \in tunneled
    /\ Move(s, {"broken"}, "down")
    /\ Send([type |-> "TunnelFailed", server |-> s, error |-> error, at |-> clock])
    /\ UNCHANGED <<tunneled, socket, clock>>

Connected(s) ==
    /\ Move(s, {"up"}, "online")
    /\ socket' = [socket EXCEPT ![s] = 1 - @]
    /\ Send([type |-> "Connected", server |-> s, socket |-> 1 - socket[s], at |-> clock])
    /\ UNCHANGED <<tunneled, clock>>

\* An attempt fails, or the WebSocket is lost.
Disconnected(s, error) ==
    /\ Move(s, {"up", "online"}, "up")
    /\ Send([type |-> "Disconnected", server |-> s, error |-> error, at |-> clock])
    /\ UNCHANGED <<tunneled, socket, clock>>

Heartbeat(s) ==
    /\ link[s] = "online"
    /\ Send([type |-> "Heartbeat", server |-> s, socket |-> socket[s], at |-> clock])
    /\ UNCHANGED <<tunneled, link, socket, clock>>

\* added and removed are the server's own view of what changed.
Notification(s, total, added, removed) ==
    /\ link[s] = "online"
    /\ added \subseteq DOMAIN total
    /\ removed \cap DOMAIN total = {}
    /\ Send([type |-> "Notification", server |-> s, total |-> total,
             added |-> added, removed |-> removed, at |-> clock])
    /\ UNCHANGED <<tunneled, link, socket, clock>>

\* Shutdown, or a connection that cannot even be prepared.
Stopped(s) ==
    /\ Move(s, LinkStates \ {"stopped"}, "stopped")
    /\ UNCHANGED <<tunneled, socket, events, clock>>

LinkNext ==
    \E s \in Servers :
        \/ TunnelReady(s) \/ TunnelBreaks(s) \/ Connected(s)
        \/ Heartbeat(s) \/ Stopped(s)
        \/ \E error \in Errors : TunnelFailed(s, error) \/ Disconnected(s, error)
        \/ \E total \in Reports, added, removed \in SUBSET Items :
               Notification(s, total, added, removed)

\* The event loop takes the oldest event.
Receive ==
    /\ events # <<>>
    /\ events' = Tail(events)
    /\ UNCHANGED <<tunneled, link, socket>>

LinkSpec == LinkInit /\ [][LinkNext \/ (Receive /\ UNCHANGED clock)]_linkVars
=============================================================================
