--------------------------- MODULE UIRuntimeProofs ---------------------------
(***************************************************************************)
(* The event loop, for any servers, items, errors, capacities and          *)
(* durations.  What a handler may assume about an event follows from the   *)
(* order in which a link sends: After says that an event waits behind one  *)
(* that opens its phase (TunnelReady for a Disconnected, Connected for a   *)
(* Notification) with none that ends the phase in between, or that the     *)
(* reducer is in that phase already.                                       *)
(***************************************************************************)
EXTENDS UIRuntime, TLAPS

-----------------------------------------------------------------------------
(* Phases of a queue.                                                      *)

Is(e, s, types) == e.server = s /\ e.type \in types

\* In front of position i of q, server s is in the phase that starts with an event of
\* the types in from and ends with one of to; now says whether it is at the beginning.
After(q, i, s, now, from, to) ==
    \/ now /\ \A j \in 1..(i - 1) : ~Is(q[j], s, to)
    \/ \E k \in 1..(i - 1) : /\ Is(q[k], s, from)
                             /\ \A j \in (k + 1)..(i - 1) : ~Is(q[j], s, to)

\* An event at the end of the queue changes no phase before it.
LEMMA AfterAppended ==
  ASSUME NEW T, NEW q \in Seq(T), NEW e \in T, NEW s, NEW now, NEW from, NEW to,
         NEW i \in 1..(Len(q) + 1), After(q, i, s, now, from, to)
  PROVE  After(Append(q, e), i, s, now, from, to)
<1>1. \A j \in 1..(i - 1) : Append(q, e)[j] = q[j]
  OBVIOUS
<1>2. CASE now /\ \A j \in 1..(i - 1) : ~Is(q[j], s, to)
  BY <1>1, <1>2 DEF After
<1>3. CASE \E k \in 1..(i - 1) : /\ Is(q[k], s, from)
                                 /\ \A j \in (k + 1)..(i - 1) : ~Is(q[j], s, to)
  <2>1. PICK k \in 1..(i - 1) : /\ Is(q[k], s, from)
                                /\ \A j \in (k + 1)..(i - 1) : ~Is(q[j], s, to)
    BY <1>3
  <2>2. Is(Append(q, e)[k], s, from)
    BY <1>1, <2>1
  <2>3. \A j \in (k + 1)..(i - 1) : j \in 1..(i - 1)
    OBVIOUS
  <2>4. \A j \in (k + 1)..(i - 1) : ~Is(Append(q, e)[j], s, to)
    BY <1>1, <2>1, <2>3
  <2> QED
    BY <2>2, <2>4 DEF After
<1> QED
  BY Zenon, <1>2, <1>3 DEF After

\* The phase at the end of a queue to which e is added.
LEMMA PhaseAppended ==
  ASSUME NEW T, NEW q \in Seq(T), NEW e \in T, NEW s, NEW now, NEW from, NEW to,
         Is(e, s, from) \/ (~Is(e, s, to) /\ After(q, Len(q) + 1, s, now, from, to))
  PROVE  After(Append(q, e), Len(Append(q, e)) + 1, s, now, from, to)
<1> DEFINE n == Len(q) + 1
           r == Append(q, e)
<1>1. n \in Nat /\ Len(r) = n /\ r[n] = e /\ \A j \in 1..(n - 1) : r[j] = q[j]
  OBVIOUS
<1>2. CASE Is(e, s, from)
  <2>1. Is(r[n], s, from) /\ \A j \in (n + 1)..((n + 1) - 1) : ~Is(r[j], s, to)
    BY <1>1, <1>2
  <2>2. n \in 1..((n + 1) - 1)
    BY <1>1
  <2> HIDE DEF n, r
  <2> QED
    BY <1>1, <2>1, <2>2 DEF After
<1>3. CASE ~Is(e, s, to) /\ After(q, n, s, now, from, to)
  <2>1. After(r, n, s, now, from, to)
    BY <1>3, AfterAppended
  <2>2. ~Is(r[n], s, to)
    BY <1>1, <1>3
  <2> HIDE DEF n, r
  <2>3. CASE now /\ \A j \in 1..(n - 1) : ~Is(r[j], s, to)
    <3>1. \A j \in 1..((n + 1) - 1) : j \in 1..(n - 1) \/ j = n
      BY <1>1
    <3>2. \A j \in 1..((n + 1) - 1) : ~Is(r[j], s, to)
      BY <2>2, <2>3, <3>1
    <3> QED
      BY <1>1, <2>3, <3>2 DEF After
  <2>4. CASE \E k \in 1..(n - 1) : /\ Is(r[k], s, from)
                                   /\ \A j \in (k + 1)..(n - 1) : ~Is(r[j], s, to)
    <3>1. PICK k \in 1..(n - 1) : /\ Is(r[k], s, from)
                                  /\ \A j \in (k + 1)..(n - 1) : ~Is(r[j], s, to)
      BY <2>4
    <3>2. /\ k \in 1..((n + 1) - 1)
          /\ \A j \in (k + 1)..((n + 1) - 1) : j \in (k + 1)..(n - 1) \/ j = n
      BY <1>1
    <3>3. \A j \in (k + 1)..((n + 1) - 1) : ~Is(r[j], s, to)
      BY <2>2, <3>1, <3>2
    <3> QED
      BY <1>1, <3>1, <3>2, <3>3 DEF After
  <2> QED
    BY Zenon, <2>1, <2>3, <2>4 DEF After
<1> QED
  BY <1>2, <1>3

\* The head of the queue is taken; then is the phase of the reducer afterwards.
LEMMA AfterTaken ==
  ASSUME NEW T, NEW q \in Seq(T), q # <<>>, NEW s, NEW now, NEW then, NEW from, NEW to,
         Is(Head(q), s, from) => then,
         now /\ ~Is(Head(q), s, to) => then,
         NEW i \in 1..Len(q), After(q, i + 1, s, now, from, to)
  PROVE  After(Tail(q), i, s, then, from, to)
<1>1. Head(q) = q[1] /\ \A j \in 1..(Len(q) - 1) : Tail(q)[j] = q[j + 1]
  OBVIOUS
<1>2. i \in Nat /\ Len(q) \in Nat /\ i >= 1 /\ i <= Len(q) /\ (i + 1) - 1 = i
  OBVIOUS
<1>3. \A j \in 1..(i - 1) : j \in 1..(Len(q) - 1) /\ j + 1 \in 1..i /\ Tail(q)[j] = q[j + 1]
  BY <1>1, <1>2
<1>4. CASE now /\ \A j \in 1..i : ~Is(q[j], s, to)
  <2>1. then
    BY <1>1, <1>2, <1>4
  <2>2. \A j \in 1..(i - 1) : ~Is(Tail(q)[j], s, to)
    BY <1>3, <1>4
  <2> QED
    BY <2>1, <2>2 DEF After
<1>5. CASE \E k \in 1..i : Is(q[k], s, from) /\ \A j \in (k + 1)..i : ~Is(q[j], s, to)
  <2>1. PICK k \in 1..i : Is(q[k], s, from) /\ \A j \in (k + 1)..i : ~Is(q[j], s, to)
    BY <1>5
  <2>2. CASE k = 1
    <3>1. \A j \in 1..(i - 1) : j + 1 \in (k + 1)..i
      BY <1>2, <2>2
    <3>2. \A j \in 1..(i - 1) : ~Is(Tail(q)[j], s, to)
      BY Zenon, <1>3, <2>1, <3>1
    <3> QED
      BY <1>1, <2>1, <2>2, <3>2 DEF After
  <2>3. CASE k # 1
    <3>1. k - 1 \in 1..(i - 1) /\ (k - 1) + 1 = k
      BY <1>2, <2>3
    <3>2. Is(Tail(q)[k - 1], s, from)
      BY <1>3, <2>1, <3>1
    <3>3. \A j \in ((k - 1) + 1)..(i - 1) : j \in 1..(i - 1) /\ j + 1 \in (k + 1)..i
      BY <1>2, <2>3
    <3>4. \A j \in ((k - 1) + 1)..(i - 1) : ~Is(Tail(q)[j], s, to)
      BY <1>3, <2>1, <3>3
    <3> QED
      BY Zenon, <3>1, <3>2, <3>4 DEF After
  <2> QED
    BY <2>2, <2>3
<1> QED
  BY Zenon, <1>2, <1>4, <1>5 DEF After

\* Events of the types in needs wait inside the phase, and more may be added when open.
InPhase(q, s, now, from, to, needs, open) ==
    /\ \A i \in 1..Len(q) : Is(q[i], s, needs) => After(q, i, s, now, from, to)
    /\ open => After(q, Len(q) + 1, s, now, from, to)

\* Sending an event that fits keeps the phases of the queue in order.
LEMMA PhaseSent ==
  ASSUME NEW T, NEW q \in Seq(T), NEW e \in T, NEW s, NEW now, NEW from, NEW to, NEW needs,
         NEW open, NEW opened, InPhase(q, s, now, from, to, needs, open),
         Is(e, s, needs) => open,
         opened => Is(e, s, from) \/ (~Is(e, s, to) /\ open)
  PROVE  InPhase(Append(q, e), s, now, from, to, needs, opened)
<1> DEFINE r == Append(q, e)
<1>1. Len(r) = Len(q) + 1 /\ Len(q) \in Nat /\ r[Len(r)] = e
  OBVIOUS
<1>2. ASSUME NEW i \in 1..Len(r), Is(r[i], s, needs) PROVE After(r, i, s, now, from, to)
  <2>1. i \in 1..(Len(q) + 1)
    BY <1>1
  <2>2. CASE i = Len(r)
    <3>1. After(q, i, s, now, from, to)
      BY <1>1, <1>2, <2>2 DEF InPhase
    <3> QED
      BY <2>1, <3>1, AfterAppended
  <2>3. CASE i # Len(r)
    <3>1. i \in 1..Len(q) /\ r[i] = q[i]
      BY <1>1, <2>3
    <3>2. After(q, i, s, now, from, to)
      BY <1>2, <3>1 DEF InPhase
    <3> QED
      BY <2>1, <3>2, AfterAppended
  <2> QED
    BY <2>2, <2>3
<1>3. ASSUME opened PROVE After(r, Len(r) + 1, s, now, from, to)
  <2>1. Is(e, s, from) \/ (~Is(e, s, to) /\ After(q, Len(q) + 1, s, now, from, to))
    BY <1>3 DEF InPhase
  <2> QED
    BY <2>1, PhaseAppended
<1> QED
  BY <1>2, <1>3 DEF InPhase

\* So does taking the event at its head.
LEMMA PhaseTaken ==
  ASSUME NEW T, NEW q \in Seq(T), q # <<>>, NEW s, NEW now, NEW then, NEW from, NEW to,
         NEW needs, NEW open, InPhase(q, s, now, from, to, needs, open),
         Is(Head(q), s, from) => then,
         now /\ ~Is(Head(q), s, to) => then
  PROVE  InPhase(Tail(q), s, then, from, to, needs, open)
<1>1. /\ Len(q) \in Nat /\ Len(q) >= 1 /\ Len(Tail(q)) = Len(q) - 1
      /\ \A j \in 1..(Len(q) - 1) : Tail(q)[j] = q[j + 1]
  OBVIOUS
<1>2. ASSUME NEW i \in 1..Len(Tail(q)), Is(Tail(q)[i], s, needs)
      PROVE  After(Tail(q), i, s, then, from, to)
  <2>1. i + 1 \in 1..Len(q) /\ i \in 1..Len(q) /\ Tail(q)[i] = q[i + 1]
    BY <1>1
  <2>2. After(q, i + 1, s, now, from, to)
    BY <1>2, <2>1 DEF InPhase
  <2> QED
    BY <2>1, <2>2, AfterTaken
<1>3. ASSUME open PROVE After(Tail(q), Len(Tail(q)) + 1, s, then, from, to)
  <2>1. Len(Tail(q)) + 1 = Len(q) /\ Len(q) \in 1..Len(q)
    BY <1>1
  <2>2. After(q, Len(q) + 1, s, now, from, to)
    BY <1>3 DEF InPhase
  <2>3. After(Tail(q), Len(q), s, then, from, to)
    BY <2>1, <2>2, AfterTaken
  <2> QED
    BY <2>1, <2>3
<1> QED
  BY <1>2, <1>3 DEF InPhase

\* An event that needs the phase is handled in the phase.
LEMMA PhaseAtHead ==
  ASSUME NEW T, NEW q \in Seq(T), q # <<>>, NEW s, NEW now, NEW from, NEW to, NEW needs,
         NEW open, InPhase(q, s, now, from, to, needs, open), Is(Head(q), s, needs)
  PROVE  now
<1>1. 1 \in 1..Len(q) /\ q[1] = Head(q)
  OBVIOUS
<1>2. After(q, 1, s, now, from, to)
  BY <1>1 DEF InPhase
<1> QED
  BY <1>2 DEF After

\* An empty queue is in order.
LEMMA PhaseEmpty ==
  ASSUME NEW s, NEW now, NEW from, NEW to, NEW needs, NEW open, open => now
  PROVE  InPhase(<<>>, s, now, from, to, needs, open)
<1>1. Len(<<>>) = 0 /\ 1..0 = {}
  OBVIOUS
<1>2. \A i \in 1..Len(<<>>) : FALSE
  BY <1>1
<1>3. open => After(<<>>, Len(<<>>) + 1, s, now, from, to)
  BY <1>1 DEF After
<1> QED
  BY <1>2, <1>3 DEF InPhase

-----------------------------------------------------------------------------
(* The inductive invariant.                                                *)

Incident == [state : Severities, stale : BOOLEAN]

ServerState == [connected : BOOLEAN, initialized : BOOLEAN, heartbeat : {0, 1, Absent}]

Types ==
    /\ clock \in Nat
    /\ link \in [Servers -> LinkStates]
    /\ socket \in [Servers -> {0, 1}]
    /\ events \in Seq(Event)
    /\ servers \in [Servers -> ServerState]
    /\ incidents \in [Servers -> [Items -> Incident \cup {Absent}]]
    /\ internal \in [InternalKeys -> Errors \cup {Absent}]

\* A connection attempt is reported only while the tunnel is reported as working.
TunnelPhase(s) ==
    InPhase(events, s, internal[TunnelKey(s)] = Absent, {"TunnelReady"}, {"TunnelFailed"},
            {"Disconnected"}, link[s] \in {"up", "online"})

\* The messages of a server arrive only while it is reported as connected.
SocketPhase(s) ==
    InPhase(events, s, servers[s].connected, {"Connected"}, {"Disconnected", "TunnelFailed"},
            {"Notification"}, link[s] = "online")

OrderInv == Types /\ (\A s \in Servers : TunnelPhase(s) /\ SocketPhase(s))

\* A written map that is not committed yet is the one in the file.
DurableInv == LiveIsDurable /\ (pump = "written" => disk = proposal.snoozes)

\* The keys of the internal incidents.
LEMMA Keyed ==
  ASSUME NEW s \in Servers
  PROVE  ConnectionKey(s) \in InternalKeys /\ TunnelKey(s) \in InternalKeys
  BY DEF InternalKeys

\* They differ from each other and between servers.
LEMMA KeysDiffer ==
  ASSUME NEW s, NEW t
  PROVE  /\ ConnectionKey(s) # TunnelKey(t)
         /\ ConnectionKey(s) = ConnectionKey(t) => s = t
         /\ TunnelKey(s) = TunnelKey(t) => s = t
  BY DEF ConnectionKey, TunnelKey

-----------------------------------------------------------------------------
(* Steps of the links.                                                     *)

\* The link of s sends e and goes from its state to another one.
LEMMA SendKeeps ==
  ASSUME OrderInv, NEW s \in Servers, NEW e \in Event, e.server = s,
         events' = Append(events, e), NEW to \in LinkStates, link' = [link EXCEPT ![s] = to],
         socket' \in [Servers -> {0, 1}], UNCHANGED <<clock, servers, incidents, internal>>,
         e.type = "Disconnected" => link[s] \in {"up", "online"},
         to \in {"up", "online"} =>
             e.type = "TunnelReady" \/ (e.type # "TunnelFailed" /\ link[s] \in {"up", "online"}),
         e.type = "Notification" => link[s] = "online",
         to = "online" =>
             \/ e.type = "Connected"
             \/ e.type \notin {"Disconnected", "TunnelFailed"} /\ link[s] = "online"
  PROVE  OrderInv'
<1>1. Types'
  <2>1. Types /\ events' \in Seq(Event)
    BY DEF OrderInv, Types
  <2> QED
    BY <2>1 DEF Types
<1>2. events \in Seq(Event) /\ link \in [Servers -> LinkStates]
  BY DEF OrderInv, Types
<1>3. ASSUME NEW t \in Servers PROVE TunnelPhase(t)'
  <2>1. InPhase(events, t, internal[TunnelKey(t)] = Absent, {"TunnelReady"}, {"TunnelFailed"},
                {"Disconnected"}, link[t] \in {"up", "online"})
    BY DEF OrderInv, TunnelPhase
  <2>2. Is(e, t, {"Disconnected"}) => link[t] \in {"up", "online"}
    BY DEF Is
  <2>3. link'[t] \in {"up", "online"} =>
            Is(e, t, {"TunnelReady"})
            \/ (~Is(e, t, {"TunnelFailed"}) /\ link[t] \in {"up", "online"})
    BY <1>2 DEF Is
  <2>4. InPhase(Append(events, e), t, internal[TunnelKey(t)] = Absent, {"TunnelReady"},
                {"TunnelFailed"}, {"Disconnected"}, link'[t] \in {"up", "online"})
    BY Zenon, <1>2, <2>1, <2>2, <2>3, PhaseSent
  <2> QED
    BY <2>4 DEF TunnelPhase
<1>4. ASSUME NEW t \in Servers PROVE SocketPhase(t)'
  <2>1. InPhase(events, t, servers[t].connected, {"Connected"}, {"Disconnected", "TunnelFailed"},
                {"Notification"}, link[t] = "online")
    BY DEF OrderInv, SocketPhase
  <2>2. Is(e, t, {"Notification"}) => link[t] = "online"
    BY DEF Is
  <2>3. link'[t] = "online" =>
            Is(e, t, {"Connected"})
            \/ (~Is(e, t, {"Disconnected", "TunnelFailed"}) /\ link[t] = "online")
    BY <1>2 DEF Is
  <2>4. InPhase(Append(events, e), t, servers[t].connected, {"Connected"},
                {"Disconnected", "TunnelFailed"}, {"Notification"}, link'[t] = "online")
    BY Zenon, <1>2, <2>1, <2>2, <2>3, PhaseSent
  <2> QED
    BY <2>4 DEF SocketPhase
<1> QED
  BY <1>1, <1>3, <1>4 DEF OrderInv

\* The link of s goes down or stops.
LEMMA CloseKeeps ==
  ASSUME OrderInv, NEW s \in Servers, link' = [link EXCEPT ![s] = "broken"]
             \/ link' = [link EXCEPT ![s] = "stopped"],
         UNCHANGED <<clock, socket, events, servers, incidents, internal>>
  PROVE  OrderInv'
<1>1. Types'
  BY DEF OrderInv, Types, LinkStates
<1>2. ASSUME NEW t \in Servers
      PROVE  /\ link'[t] \in {"up", "online"} => link[t] \in {"up", "online"}
             /\ link'[t] = "online" => link[t] = "online"
  BY DEF OrderInv, Types
<1>3. ASSUME NEW t \in Servers PROVE TunnelPhase(t)'
  <2>1. InPhase(events, t, internal[TunnelKey(t)] = Absent, {"TunnelReady"}, {"TunnelFailed"},
                {"Disconnected"}, link[t] \in {"up", "online"})
    BY DEF OrderInv, TunnelPhase
  <2>2. InPhase(events, t, internal[TunnelKey(t)] = Absent, {"TunnelReady"}, {"TunnelFailed"},
                {"Disconnected"}, link'[t] \in {"up", "online"})
    BY <1>2, <2>1 DEF InPhase
  <2> QED
    BY <2>2 DEF TunnelPhase
<1>4. ASSUME NEW t \in Servers PROVE SocketPhase(t)'
  <2>1. InPhase(events, t, servers[t].connected, {"Connected"}, {"Disconnected", "TunnelFailed"},
                {"Notification"}, link[t] = "online")
    BY DEF OrderInv, SocketPhase
  <2>2. InPhase(events, t, servers[t].connected, {"Connected"}, {"Disconnected", "TunnelFailed"},
                {"Notification"}, link'[t] = "online")
    BY <1>2, <2>1 DEF InPhase
  <2> QED
    BY <2>2 DEF SocketPhase
<1> QED
  BY <1>1, <1>3, <1>4 DEF OrderInv

\* The network sends events in the order of ServerLink.
LEMMA NetworkKeeps ==
  ASSUME OrderInv, Network
  PROVE  OrderInv'
<1>1. LinkNext /\ UNCHANGED <<servers, incidents, internal>>
  BY DEF Network, stateVars
<1>2. PICK s \in Servers :
        \/ TunnelReady(s) \/ TunnelBreaks(s) \/ Connected(s)
        \/ Heartbeat(s) \/ Stopped(s)
        \/ \E error \in Errors : TunnelFailed(s, error) \/ Disconnected(s, error)
        \/ \E total \in Reports, added, removed \in SUBSET Items :
               Notification(s, total, added, removed)
  BY <1>1 DEF LinkNext
<1>3. clock \in Nat /\ socket \in [Servers -> {0, 1}] /\ link \in [Servers -> LinkStates]
  BY DEF OrderInv, Types
<1>4. link = [link EXCEPT ![s] = link[s]] /\ link[s] \in LinkStates
  BY Zenon, <1>3
<1>5. CASE TunnelReady(s)
  <2>1. [type |-> "TunnelReady", server |-> s, at |-> clock] \in Event
    BY <1>3 DEF Event
  <2> QED
    BY Zenon, <1>1, <1>3, <1>5, <2>1, SendKeeps DEF TunnelReady, Send, Move, LinkStates
<1>6. CASE Connected(s)
  <2>1. [type |-> "Connected", server |-> s, socket |-> 1 - socket[s], at |-> clock] \in Event
    BY <1>3 DEF Event
  <2>2. socket' \in [Servers -> {0, 1}]
    BY <1>3, <1>6 DEF Connected
  <2> QED
    BY Zenon, <1>1, <1>3, <1>6, <2>1, <2>2, SendKeeps DEF Connected, Send, Move, LinkStates
<1>7. CASE Heartbeat(s)
  <2>1. [type |-> "Heartbeat", server |-> s, socket |-> socket[s], at |-> clock] \in Event
    BY <1>3 DEF Event
  <2> QED
    BY <1>1, <1>3, <1>4, <1>7, <2>1, SendKeeps DEF Heartbeat, Send
<1>8. ASSUME NEW error \in Errors, TunnelFailed(s, error) PROVE OrderInv'
  <2>1. [type |-> "TunnelFailed", server |-> s, error |-> error, at |-> clock] \in Event
    BY <1>3 DEF Event
  <2> QED
    BY Zenon, <1>1, <1>3, <1>8, <2>1, SendKeeps DEF TunnelFailed, Send, Move, LinkStates
<1>9. ASSUME NEW error \in Errors, Disconnected(s, error) PROVE OrderInv'
  <2>1. [type |-> "Disconnected", server |-> s, error |-> error, at |-> clock] \in Event
    BY <1>3 DEF Event
  <2> QED
    BY Zenon, <1>1, <1>3, <1>9, <2>1, SendKeeps DEF Disconnected, Send, Move, LinkStates
<1>10. ASSUME NEW total \in Reports, NEW added \in SUBSET Items, NEW removed \in SUBSET Items,
              Notification(s, total, added, removed)
       PROVE  OrderInv'
  <2>1. [type |-> "Notification", server |-> s, total |-> total, added |-> added,
         removed |-> removed, at |-> clock] \in Event
    BY <1>3 DEF Event
  <2> QED
    BY <1>1, <1>3, <1>4, <1>10, <2>1, SendKeeps DEF Notification, Send
<1>11. CASE TunnelBreaks(s) \/ Stopped(s)
  BY <1>1, <1>11, CloseKeeps DEF TunnelBreaks, Stopped, Move
<1> QED
  BY <1>2, <1>5, <1>6, <1>7, <1>8, <1>9, <1>10, <1>11

-----------------------------------------------------------------------------
(* Steps of the loop.                                                      *)

\* Which event it is.
LEMMA EventKinds ==
  ASSUME NEW e \in Event
  PROVE  /\ e.server \in Servers
         /\ e.type \in {"Connected", "TunnelReady", "Disconnected", "TunnelFailed", "Heartbeat",
                        "Notification"}
         /\ e.type \in {"Disconnected", "TunnelFailed"} => e.error \in Errors
         /\ e.type = "Heartbeat" => e.socket \in {0, 1}
         /\ e.type = "Notification" => e.total \in Reports
  BY DEF Event

\* The items of a report have severities.
LEMMA Reported ==
  ASSUME NEW total \in Reports, NEW i \in DOMAIN total
  PROVE  total[i] \in Severities
  BY DEF Reports

\* What a handler does to the state of a server, seen from the links' side.
LEMMA Reduced ==
  ASSUME Types, NEW e \in Event, reduce(e)
  PROVE  /\ servers' \in [Servers -> ServerState]
         /\ incidents' \in [Servers -> [Items -> Incident \cup {Absent}]]
         /\ internal' \in [InternalKeys -> Errors \cup {Absent}]
<1>1. e.server \in Servers /\ ConnectionKey(e.server) \in InternalKeys
      /\ TunnelKey(e.server) \in InternalKeys
  BY EventKinds, Keyed
<1>2. CASE e.type = "Connected"
  <2>1. connected(e.server)
    BY <1>2 DEF reduce
  <2>2. servers[e.server] \in ServerState
    BY Zenon, <1>1 DEF Types
  <2>3. [connected |-> TRUE, initialized |-> TRUE,
         heartbeat |-> IF StatusChanged(e.server, TRUE) THEN Absent
                       ELSE servers[e.server].heartbeat] \in ServerState
    BY Zenon, <2>2 DEF ServerState
  <2>4. servers' \in [Servers -> ServerState]
    BY <1>1, <2>1, <2>3 DEF connected, Types
  <2> QED
    BY <1>1, <2>1, <2>4 DEF connected, Types
<1>3. ASSUME SetOffline(e.server), MarkStale(e.server)
      PROVE  /\ servers' \in [Servers -> ServerState]
             /\ incidents' \in [Servers -> [Items -> Incident \cup {Absent}]]
  <2>1. servers' \in [Servers -> ServerState]
    BY ZenonT(40), <1>1, <1>3 DEF SetOffline, Types, ServerState
  <2>2. \A i \in Items : incidents[e.server][i] # Absent =>
            [incidents[e.server][i] EXCEPT !.stale = TRUE] \in Incident
    <3>1. \A i \in Items : incidents[e.server][i] \in Incident \cup {Absent}
      BY <1>1 DEF Types
    <3>2. \A x \in Incident : [x EXCEPT !.stale = TRUE] \in Incident
      BY Zenon DEF Incident
    <3> QED
      BY <3>1, <3>2
  <2>3. incidents' \in [Servers -> [Items -> Incident \cup {Absent}]]
    BY <1>1, <1>3, <2>2 DEF MarkStale, Types
  <2> QED
    BY <2>1, <2>3
<1>4. CASE e.type = "Disconnected"
  <2>1. disconnected(e.server, e.error) /\ e.error \in Errors
    BY <1>4, EventKinds DEF reduce
  <2> QED
    BY <1>1, <1>3, <2>1 DEF disconnected, Types
<1>5. CASE e.type = "TunnelFailed"
  <2>1. tunnel_failed(e.server, e.error) /\ e.error \in Errors
    BY <1>5, EventKinds DEF reduce
  <2> QED
    BY Zenon, <1>1, <1>3, <2>1 DEF tunnel_failed, Types
<1>6. CASE e.type = "TunnelReady"
  BY <1>1, <1>6 DEF reduce, tunnel_ready, Types
<1>7. CASE e.type = "Heartbeat"
  <2>1. heartbeat(e.server, e.socket) /\ e.socket \in {0, 1}
    BY <1>7, EventKinds DEF reduce
  <2> QED
    BY Zenon, <1>1, <2>1 DEF heartbeat, Types, ServerState
<1>8. CASE e.type = "Notification"
  <2>1. notification(e.server, e.total) /\ e.total \in Reports
    BY <1>8, EventKinds DEF reduce
  <2>2. \A i \in DOMAIN e.total : [state |-> e.total[i], stale |-> FALSE] \in Incident
    BY <2>1, Reported DEF Incident
  <2> QED
    BY <1>1, <2>1, <2>2 DEF notification, Types
<1> QED
  BY <1>2, <1>4, <1>5, <1>6, <1>7, <1>8, EventKinds

\* The event that is handled.
LEMMA Handled ==
  ASSUME Types, HandleEvent
  PROVE  /\ events # <<>> /\ events' = Tail(events) /\ reduce(Head(events))
         /\ Head(events) \in Event /\ events' \in Seq(Event)
         /\ UNCHANGED <<clock, link, socket>>
<1>1. /\ events # <<>> /\ events' = Tail(events) /\ reduce(Head(events)) /\ events \in Seq(Event)
      /\ UNCHANGED <<clock, link, socket>>
  BY DEF HandleEvent, Receive, Types
<1>2. \A T : \A q \in Seq(T) : q # <<>> => Head(q) \in T /\ Tail(q) \in Seq(T)
  OBVIOUS
<1> QED
  BY <1>1, <1>2

\* The phases follow the events that are handled.
LEMMA ReducedPhases ==
  ASSUME Types, NEW e \in Event, reduce(e), NEW t \in Servers
  PROVE  /\ Is(e, t, {"TunnelReady"}) => internal'[TunnelKey(t)] = Absent
         /\ internal[TunnelKey(t)] = Absent /\ ~Is(e, t, {"TunnelFailed"}) =>
                internal'[TunnelKey(t)] = Absent
         /\ Is(e, t, {"Connected"}) => servers'[t].connected
         /\ servers[t].connected /\ ~Is(e, t, {"Disconnected", "TunnelFailed"}) =>
                servers'[t].connected
<1>1. e.server \in Servers /\ ConnectionKey(e.server) \in InternalKeys
      /\ TunnelKey(e.server) \in InternalKeys /\ TunnelKey(t) \in InternalKeys
  BY EventKinds, Keyed
<1>2. servers[t] \in ServerState /\ servers[e.server] \in ServerState
  BY ZenonT(40), <1>1 DEF Types
<1>3. CASE e.type = "Connected"
  <2>1. connected(e.server)
    BY <1>3 DEF reduce
  <2>2. internal'[TunnelKey(t)] = internal[TunnelKey(t)]
    BY <1>1, <2>1, KeysDiffer DEF connected, Types
  <2>3. servers[t].connected \/ e.server = t => servers'[t].connected
    BY <1>1, <2>1 DEF connected, Types
  <2> QED
    BY <1>3, <2>2, <2>3 DEF Is
<1>4. ASSUME SetOffline(e.server), t # e.server PROVE servers'[t] = servers[t]
  BY Zenon, <1>1, <1>4 DEF SetOffline, Types
<1>5. CASE e.type = "Disconnected"
  <2>1. disconnected(e.server, e.error)
    BY <1>5 DEF reduce
  <2>2. internal'[TunnelKey(t)] = internal[TunnelKey(t)]
    BY Zenon, <1>1, <2>1, KeysDiffer DEF disconnected, Types
  <2> QED
    BY <1>4, <1>5, <2>1, <2>2 DEF Is, disconnected
<1>6. CASE e.type = "TunnelFailed"
  <2>1. tunnel_failed(e.server, e.error)
    BY Zenon, <1>6 DEF reduce
  <2>2. t # e.server => internal'[TunnelKey(t)] = internal[TunnelKey(t)]
    BY Zenon, <1>1, <2>1, KeysDiffer DEF tunnel_failed, Types
  <2> QED
    BY <1>4, <1>6, <2>1, <2>2 DEF Is, tunnel_failed
<1>7. CASE e.type = "TunnelReady"
  <2>1. tunnel_ready(e.server)
    BY <1>7 DEF reduce
  <2>2. internal[TunnelKey(t)] = Absent \/ t = e.server => internal'[TunnelKey(t)] = Absent
    BY <1>1, <2>1, KeysDiffer DEF tunnel_ready, Types
  <2> QED
    BY <1>7, <2>1, <2>2 DEF Is, tunnel_ready
<1>8. CASE e.type = "Heartbeat"
  <2>1. heartbeat(e.server, e.socket)
    BY <1>8 DEF reduce
  <2>2. servers'[t].connected = servers[t].connected
    BY <1>1, <1>2, <2>1 DEF heartbeat, Types, ServerState
  <2> QED
    BY <1>8, <2>1, <2>2 DEF Is, heartbeat
<1>9. CASE e.type = "Notification"
  <2>1. UNCHANGED <<servers, internal>>
    BY <1>9 DEF reduce, notification
  <2> QED
    BY <1>9, <2>1 DEF Is
<1> QED
  BY Zenon, <1>3, <1>5, <1>6, <1>7, <1>8, <1>9, EventKinds

\* Handling an event keeps the rest of the queue in order.
LEMMA EventKeepsOrder ==
  ASSUME OrderInv, HandleEvent
  PROVE  OrderInv'
<1> DEFINE e == Head(events)
<1>1. Types /\ events \in Seq(Event)
  BY DEF OrderInv, Types
<1>2. /\ events # <<>> /\ events' = Tail(events) /\ UNCHANGED <<clock, link, socket>> /\ reduce(e)
      /\ e \in Event /\ events' \in Seq(Event)
  BY <1>1, Handled
<1>3. Types'
  BY <1>1, <1>2, Reduced DEF Types
<1>4. ASSUME NEW t \in Servers PROVE TunnelPhase(t)'
  <2>1. InPhase(events, t, internal[TunnelKey(t)] = Absent, {"TunnelReady"}, {"TunnelFailed"},
                {"Disconnected"}, link[t] \in {"up", "online"})
    BY Zenon DEF OrderInv, TunnelPhase
  <2>2. /\ Is(e, t, {"TunnelReady"}) => internal'[TunnelKey(t)] = Absent
        /\ internal[TunnelKey(t)] = Absent /\ ~Is(e, t, {"TunnelFailed"}) =>
               internal'[TunnelKey(t)] = Absent
    BY Zenon, <1>1, <1>2, ReducedPhases
  <2>3. InPhase(Tail(events), t, internal'[TunnelKey(t)] = Absent, {"TunnelReady"},
                {"TunnelFailed"}, {"Disconnected"}, link[t] \in {"up", "online"})
    BY Zenon, <1>1, <1>2, <2>1, <2>2, PhaseTaken
  <2> QED
    BY <1>2, <2>3 DEF TunnelPhase
<1>5. ASSUME NEW t \in Servers PROVE SocketPhase(t)'
  <2>1. InPhase(events, t, servers[t].connected, {"Connected"}, {"Disconnected", "TunnelFailed"},
                {"Notification"}, link[t] = "online")
    BY DEF OrderInv, SocketPhase
  <2>2. /\ Is(e, t, {"Connected"}) => servers'[t].connected
        /\ servers[t].connected /\ ~Is(e, t, {"Disconnected", "TunnelFailed"}) =>
               servers'[t].connected
    BY <1>1, <1>2, ReducedPhases
  <2>3. InPhase(Tail(events), t, servers'[t].connected, {"Connected"},
                {"Disconnected", "TunnelFailed"}, {"Notification"}, link[t] = "online")
    BY <1>1, <1>2, <2>1, <2>2, PhaseTaken
  <2> QED
    BY <1>2, <2>3 DEF SocketPhase
<1> QED
  BY <1>3, <1>4, <1>5 DEF OrderInv

\* Steps that neither send, nor take an event, nor touch an incident.
Quiet == UNCHANGED <<link, socket, events, servers, incidents, internal>>

\* The steps that touch neither incidents nor events.
LEMMA QuietSteps ==
  ASSUME \/ HandleSnooze \/ HandleUnsnooze \/ Tick \/ Write \/ Acknowledge \/ WriteFails
         \/ CooldownEnds \/ TimePasses \/ Click \/ UNCHANGED vars
  PROVE  Quiet /\ (clock' = clock \/ clock' = clock + 1)
<1>1. CASE HandleSnooze \/ HandleUnsnooze
  BY Zenon, <1>1 DEF HandleSnooze, HandleUnsnooze, TakeCommand, Quiet, linkVars, stateVars
<1>2. CASE Tick \/ Write \/ Acknowledge \/ WriteFails
  BY Zenon, <1>2 DEF Tick, Write, Acknowledge, WriteFails, snoozes_persisted, Quiet,
     linkVars, stateVars
<1>3. CASE CooldownEnds \/ TimePasses \/ Click \/ UNCHANGED vars
  BY Zenon, <1>3 DEF CooldownEnds, TimePasses, Click, Quiet, linkVars, stateVars, vars
<1> QED
  BY Zenon, <1>1, <1>2, <1>3

\* They keep the order.
LEMMA QuietKeepsOrder ==
  ASSUME OrderInv, Quiet, clock' \in Nat
  PROVE  OrderInv'
  BY DEF OrderInv, Quiet, Types, TunnelPhase, SocketPhase

\* forget_stale removes incidents, and only stale ones.
LEMMA Forgotten ==
  ASSUME Types, HandleForgetStale
  PROVE  /\ UNCHANGED <<clock, link, socket, events, servers, internal>>
         /\ incidents' \in [Servers -> [Items -> Incident \cup {Absent}]]
         /\ \A s \in Servers, i \in Items :
               \/ incidents'[s][i] = incidents[s][i]
               \/ incidents'[s][i] = Absent /\ incidents[s][i].stale
  BY DEF HandleForgetStale, TakeCommand, forget_stale, linkVars, Types

\* So does forgetting the stale incidents of a server.
LEMMA ForgetKeepsOrder ==
  ASSUME OrderInv, HandleForgetStale
  PROVE  OrderInv'
<1>1. Types
  BY DEF OrderInv
<1>2. /\ UNCHANGED <<clock, link, socket, events, servers, internal>>
      /\ incidents' \in [Servers -> [Items -> Incident \cup {Absent}]]
  BY <1>1, Forgotten
<1> QED
  BY <1>2 DEF OrderInv, Types, TunnelPhase, SocketPhase

\* A fresh process: nothing sent, nothing known.
FreshProcess ==
    /\ clock \in Nat /\ link = NewLinks /\ socket = [s \in Servers |-> 0] /\ events = <<>>
    /\ servers = NewState(NoSnoozes).servers
    /\ incidents = NewState(NoSnoozes).incidents
    /\ internal = NewState(NoSnoozes).internal

\* A process that has just started is in order.
LEMMA FreshOrder == FreshProcess => OrderInv /\ RootCauseOnly /\ FreshMeansConnected
<1> SUFFICES ASSUME FreshProcess PROVE OrderInv /\ RootCauseOnly /\ FreshMeansConnected
  OBVIOUS
<1>1. /\ servers = [s \in Servers |->
                      [connected |-> FALSE, initialized |-> FALSE, heartbeat |-> Absent]]
      /\ incidents = [s \in Servers |-> [i \in Items |-> Absent]]
      /\ internal = [k \in InternalKeys |-> Absent]
      /\ clock \in Nat /\ link = NewLinks /\ socket = [s \in Servers |-> 0] /\ events = <<>>
  BY DEF NewState, FreshProcess
<1>2. [connected |-> FALSE, initialized |-> FALSE, heartbeat |-> Absent] \in ServerState
  BY DEF ServerState
<1>3. link \in [Servers -> LinkStates] /\ \A s \in Servers : link[s] # "online"
  BY <1>1 DEF NewLinks, LinkStates
<1>4. Types
  <2>1. <<>> \in Seq(Event)
    OBVIOUS
  <2> QED
    BY <1>1, <1>2, <1>3, <2>1 DEF Types
<1>5. ASSUME NEW s \in Servers PROVE TunnelPhase(s)
  <2>1. internal[TunnelKey(s)] = Absent
    BY <1>1, Keyed
  <2> QED
    BY Zenon, <1>1, <2>1, PhaseEmpty DEF TunnelPhase
<1>6. ASSUME NEW s \in Servers PROVE SocketPhase(s)
  BY Zenon, <1>1, <1>3, PhaseEmpty DEF SocketPhase
<1>7. RootCauseOnly /\ FreshMeansConnected
  BY <1>1, Keyed DEF RootCauseOnly, FreshMeansConnected, HasFresh
<1> QED
  BY <1>4, <1>5, <1>6, <1>7 DEF OrderInv

\* The same of the next state.
LEMMA FreshOrderNext == FreshProcess' => (OrderInv /\ RootCauseOnly /\ FreshMeansConnected)'
  BY FreshOrder, PTL

\* A crash starts a fresh process.
LEMMA CrashKeeps ==
  ASSUME OrderInv, Crash
  PROVE  (OrderInv /\ RootCauseOnly /\ FreshMeansConnected)'
<1>1. clock' \in Nat
  BY DEF OrderInv, Types, Crash
<1>2. FreshProcess'
  BY Zenon, <1>1 DEF Crash, FreshProcess, NewState, NewLinks
<1> QED
  BY <1>2, FreshOrderNext

\* Handlers keep the two properties; a Disconnected finds no tunnel incident, and a
\* Notification finds its server connected.
LEMMA EventKeepsIncidents ==
  ASSUME OrderInv, RootCauseOnly, FreshMeansConnected, HandleEvent
  PROVE  RootCauseOnly' /\ FreshMeansConnected'
<1> DEFINE e == Head(events)
           s == e.server
<1>1. events # <<>> /\ reduce(e) /\ events \in Seq(Event) /\ Types
  BY Handled DEF OrderInv, Types
<1>2. e \in Event
  BY <1>1, Handled
<1>3. /\ s \in Servers /\ ConnectionKey(s) \in InternalKeys /\ TunnelKey(s) \in InternalKeys
      /\ \A t \in Servers : ConnectionKey(t) \in InternalKeys /\ TunnelKey(t) \in InternalKeys
  BY Zenon, <1>2, EventKinds, Keyed
<1>4. e.type = "Disconnected" => internal[TunnelKey(s)] = Absent
  <2>1. InPhase(events, s, internal[TunnelKey(s)] = Absent, {"TunnelReady"}, {"TunnelFailed"},
                {"Disconnected"}, link[s] \in {"up", "online"})
    BY <1>3 DEF OrderInv, TunnelPhase
  <2> QED
    BY Zenon, <1>1, <2>1, PhaseAtHead DEF Is
<1>5. e.type = "Notification" => servers[s].connected
  <2>1. InPhase(events, s, servers[s].connected, {"Connected"}, {"Disconnected", "TunnelFailed"},
                {"Notification"}, link[s] = "online")
    BY <1>3 DEF OrderInv, SocketPhase
  <2>2. e.type = "Notification" => Is(Head(events), s, {"Notification"})
    BY DEF Is
  <2> QED
    BY <1>1, <2>1, <2>2, PhaseAtHead
<1> HIDE DEF e
<1>6. ASSUME NEW t \in Servers
      PROVE  internal'[ConnectionKey(t)] = Absent \/ internal'[TunnelKey(t)] = Absent
  <2>1. internal[ConnectionKey(t)] = Absent \/ internal[TunnelKey(t)] = Absent
    BY DEF RootCauseOnly
  <2>2. CASE e.type = "Disconnected"
    BY <1>1, <1>3, <1>4, <2>1, <2>2, KeysDiffer DEF reduce, disconnected, Types
  <2>3. CASE e.type = "TunnelFailed"
    BY <1>1, <1>3, <2>1, <2>3, KeysDiffer DEF reduce, tunnel_failed, Types
  <2>4. CASE e.type = "Connected"
    BY <1>1, <1>3, <2>1, <2>4, KeysDiffer DEF reduce, connected, Types
  <2>5. CASE e.type = "TunnelReady"
    BY <1>1, <1>3, <2>1, <2>5, KeysDiffer DEF reduce, tunnel_ready, Types
  <2>6. CASE e.type \in {"Heartbeat", "Notification"}
    BY Zenon, <1>1, <2>1, <2>6 DEF reduce, heartbeat, notification
  <2> QED
    BY <1>2, <2>2, <2>3, <2>4, <2>5, <2>6, EventKinds
<1>7. ASSUME NEW t \in Servers, NEW i \in Items, incidents'[t][i] # Absent, ~incidents'[t][i].stale
      PROVE  servers'[t].connected
  <2>1. incidents[t][i] # Absent /\ ~incidents[t][i].stale => servers[t].connected
    BY DEF FreshMeansConnected, HasFresh
  <2>2. ASSUME SetOffline(s), MarkStale(s) PROVE servers'[t].connected
    <3>1. t # s
      <4>1. SUFFICES ASSUME t = s PROVE FALSE
        OBVIOUS
      <4>2. incidents[s][i] \in Incident \cup {Absent}
        BY <1>1, <1>3 DEF Types
      <4>3. incidents'[s][i] = IF incidents[s][i] = Absent THEN Absent
                               ELSE [incidents[s][i] EXCEPT !.stale = TRUE]
        BY Zenon, <1>1, <1>3, <2>2 DEF MarkStale, Types
      <4> QED
        BY <1>7, <4>1, <4>2, <4>3 DEF Incident
    <3>2. servers'[t] = servers[t] /\ incidents'[t] = incidents[t]
      BY <1>1, <1>3, <2>2, <3>1 DEF SetOffline, MarkStale, Types
    <3> QED
      BY <1>7, <2>1, <3>2
  <2>3. CASE e.type \in {"Disconnected", "TunnelFailed"}
    BY Zenon, <1>1, <2>2, <2>3 DEF reduce, disconnected, tunnel_failed
  <2>4. CASE e.type = "Connected"
    <3>1. servers[t].connected => servers'[t].connected
      BY <1>1, <1>2, <2>4, ReducedPhases DEF Is
    <3> QED
      BY <1>1, <1>7, <2>1, <2>4, <3>1 DEF reduce, connected
  <2>5. CASE e.type \in {"TunnelReady", "Heartbeat"}
    <3>1. servers[t].connected => servers'[t].connected
      BY <1>1, <1>2, <2>5, ReducedPhases DEF Is
    <3>2. incidents' = incidents
      BY Zenon, <1>1, <2>5 DEF reduce, tunnel_ready, heartbeat
    <3> QED
      BY Zenon, <1>7, <2>1, <3>1, <3>2
  <2>6. CASE e.type = "Notification"
    BY <1>1, <1>3, <1>5, <1>7, <2>1, <2>6 DEF reduce, notification, Types
  <2> QED
    BY <1>2, <2>3, <2>4, <2>5, <2>6, EventKinds
<1> QED
  BY <1>6, <1>7 DEF RootCauseOnly, FreshMeansConnected, HasFresh

LoopInv == OrderInv /\ RootCauseOnly /\ FreshMeansConnected

\* Every step keeps the invariant of the loop.
LEMMA LoopStep ==
  ASSUME LoopInv, [Next]_vars
  PROVE  LoopInv'
<1>1. OrderInv /\ RootCauseOnly /\ FreshMeansConnected /\ clock \in Nat /\ Types
  BY DEF LoopInv, OrderInv, Types
<1>2. CASE Network
  <2>1. OrderInv' /\ UNCHANGED <<servers, incidents, internal>>
    BY <1>1, <1>2, NetworkKeeps DEF Network, stateVars
  <2> QED
    BY <1>1, <2>1 DEF LoopInv, RootCauseOnly, FreshMeansConnected, HasFresh
<1>3. CASE HandleEvent
  BY <1>1, <1>3, EventKeepsOrder, EventKeepsIncidents DEF LoopInv
<1>4. CASE HandleForgetStale
  <2>1. OrderInv' /\ UNCHANGED <<servers, internal>>
    BY <1>1, <1>4, ForgetKeepsOrder, Forgotten
  <2>2. ASSUME NEW t \in Servers, NEW i \in Items, incidents'[t][i] # Absent
        PROVE  incidents'[t][i] = incidents[t][i]
    BY <1>1, <1>4, <2>2, Forgotten
  <2>3. \A t \in Servers : HasFresh(t)' => HasFresh(t)
    BY <2>2 DEF HasFresh
  <2> QED
    BY <1>1, <2>1, <2>3 DEF LoopInv, RootCauseOnly, FreshMeansConnected
<1>5. CASE Crash
  BY Zenon, <1>1, <1>5, CrashKeeps DEF LoopInv
<1>6. CASE \/ HandleSnooze \/ HandleUnsnooze \/ Tick \/ Write \/ Acknowledge \/ WriteFails
           \/ CooldownEnds \/ TimePasses \/ Click \/ UNCHANGED vars
  <2>1. Quiet /\ clock' \in Nat
    BY <1>1, <1>6, QuietSteps
  <2>2. OrderInv'
    BY <1>1, <2>1, QuietKeepsOrder
  <2> QED
    BY <1>1, <2>1, <2>2 DEF LoopInv, RootCauseOnly, FreshMeansConnected, HasFresh, Quiet
<1> QED
  BY <1>2, <1>3, <1>4, <1>5, <1>6 DEF Next

\* The invariant of the loop holds throughout.
LEMMA LoopInvariant == Spec => []LoopInv
<1>1. Init => LoopInv
  <2>1. Init => FreshProcess
    BY DEF Init, LinkInit, FreshProcess
  <2> QED
    BY <2>1, FreshOrder DEF LoopInv
<1>2. LoopInv /\ [Next]_vars => LoopInv'
  BY LoopStep
<1> QED
  BY <1>1, <1>2, PTL DEF Spec

-----------------------------------------------------------------------------
(* The theorems.                                                           *)

\* A tunnel failure replaces the connection's incident and is never joined by one
\* (reducer.rs, tunnel_failed), and incidents shown as current belong to connected
\* servers (disconnected, tunnel_failed): both rest on the order of events.
THEOREM IncidentsAreConsistent == Spec => [](RootCauseOnly /\ FreshMeansConnected)
  BY LoopInvariant, PTL DEF LoopInv

\* The snoozes the loop acts on are the ones in the state file, whatever write fails and
\* whenever the process dies (runtime.rs, run_async).
THEOREM SnoozesAreDurable == Spec => []LiveIsDurable
<1>1. Init => DurableInv
  BY DEF Init, DurableInv, LiveIsDurable
<1>2. ASSUME LoopInv, DurableInv, [Next]_vars PROVE DurableInv'
  <2>1. ASSUME UNCHANGED <<pump, proposal, disk, snoozed>> PROVE DurableInv'
    BY <1>2, <2>1 DEF DurableInv, LiveIsDurable
  <2>2. ASSUME pump = "select", pump' \in {"select", "persist"}, UNCHANGED <<disk, snoozed>>
        PROVE  DurableInv'
    BY ZenonT(40), <1>2, <2>2 DEF DurableInv, LiveIsDurable
  <2>3. CASE Network \/ TimePasses \/ Click \/ CooldownEnds \/ UNCHANGED vars
    BY <2>1, <2>3
    DEF Network, TimePasses, Click, CooldownEnds, vars, stateVars, loopVars
  <2>4. CASE HandleEvent
    <3>1. Head(events) \in Event /\ reduce(Head(events))
      BY <1>2, <2>4, Handled DEF LoopInv, OrderInv
    <3>2. snoozed' = snoozed
      BY Zenon, <3>1, EventKinds DEF reduce, connected, disconnected, tunnel_ready,
         tunnel_failed,
         heartbeat, notification
    <3> QED
      BY <2>1, <2>4, <3>2 DEF HandleEvent
  <2>5. CASE HandleSnooze
    BY <2>2, <2>5 DEF HandleSnooze, TakeCommand, Propose, stateVars
  <2>6. CASE HandleUnsnooze
    BY <2>2, <2>6 DEF HandleUnsnooze, TakeCommand, Propose, stateVars
  <2>7. CASE HandleForgetStale
    BY <2>1, <2>7 DEF HandleForgetStale, TakeCommand, forget_stale
  <2>8. CASE Tick
    BY Zenon, <2>2, <2>8 DEF Tick, Propose, stateVars
  <2>9. CASE Write \/ WriteFails
    BY <1>2, <2>9 DEF Write, WriteFails, DurableInv, LiveIsDurable, stateVars
  <2>10. CASE Acknowledge
    BY <1>2, <2>10 DEF Acknowledge, snoozes_persisted, DurableInv, LiveIsDurable
  <2>11. CASE Crash
    BY <2>11 DEF Crash, DurableInv, LiveIsDurable
  <2> QED
    BY <1>2, <2>3, <2>4, <2>5, <2>6, <2>7, <2>8, <2>9, <2>10, <2>11 DEF Next
<1> QED
  BY <1>1, <1>2, LoopInvariant, PTL DEF Spec, DurableInv

\* What a step may not do to a current incident.
ResolveStep ==
    \A s \in Servers, i \in Items :
        incidents[s][i] # Absent /\ ~incidents[s][i].stale /\ incidents'[s][i] = Absent =>
            \/ events # <<>> /\ Head(events).type = "Notification" /\ Head(events).server = s
            \/ ~servers'[s].initialized

\* Only the report of a connected server takes away one of its current incidents.
LEMMA StepResolves ==
  ASSUME LoopInv, [Next]_vars
  PROVE  ResolveStep
<1>1. Types
  BY DEF LoopInv, OrderInv
<1>2. ASSUME incidents' = incidents PROVE ResolveStep
  BY <1>2 DEF ResolveStep
<1>3. CASE HandleEvent
  <2> DEFINE e == Head(events)
  <2>1. events # <<>> /\ reduce(e)
    BY <1>1, <1>3, Handled
  <2>2. e \in Event
    BY <1>1, <1>3, Handled
  <2>3. e.server \in Servers
    BY <2>2, EventKinds
  <2> HIDE DEF e
  <2>4. CASE e.type \in {"Connected", "TunnelReady", "Heartbeat"}
    BY Zenon, <1>2, <2>1, <2>4 DEF reduce, connected, tunnel_ready, heartbeat
  <2>5. CASE e.type \in {"Disconnected", "TunnelFailed"}
    <3>1. MarkStale(e.server)
      BY Zenon, <2>1, <2>5 DEF reduce, disconnected, tunnel_failed
    <3>2. ASSUME NEW s \in Servers, NEW i \in Items, incidents[s][i] # Absent
          PROVE  incidents'[s][i] # Absent
      <4>1. incidents[s][i] \in Incident
        BY <1>1, <3>2 DEF Types
      <4>2. [incidents[s][i] EXCEPT !.stale = TRUE] \in Incident
        BY Zenon, <4>1 DEF Incident
      <4>3. incidents'[s][i] \in {incidents[s][i], [incidents[s][i] EXCEPT !.stale = TRUE]}
        BY Zenon, <1>1, <2>3, <3>1, <3>2 DEF MarkStale, Types
      <4> QED
        BY Zenon, <3>2, <4>2, <4>3, AbsentAssumption DEF Incident
    <3> QED
      BY <3>2 DEF ResolveStep
  <2>6. CASE e.type = "Notification"
    <3>1. notification(e.server, e.total)
      BY <2>1, <2>6 DEF reduce
    <3>2. \A s \in Servers : s # e.server => incidents'[s] = incidents[s]
      BY <1>1, <2>3, <3>1 DEF notification, Types
    <3> QED
      BY <2>1, <2>6, <3>2 DEF ResolveStep, e
  <2> QED
    BY <2>2, <2>4, <2>5, <2>6, EventKinds
<1>4. CASE HandleForgetStale
  BY SMTT(30), <1>1, <1>4, Forgotten DEF ResolveStep
<1>5. CASE Crash
  BY <1>5 DEF Crash, NewState, ResolveStep
<1>6. CASE Network
  BY <1>2, <1>6 DEF Network, stateVars
<1>7. CASE \/ HandleSnooze \/ HandleUnsnooze \/ Tick \/ Write \/ Acknowledge \/ WriteFails
           \/ CooldownEnds \/ TimePasses \/ Click \/ UNCHANGED vars
  BY <1>2, <1>7, QuietSteps DEF Quiet
<1> QED
  BY <1>3, <1>4, <1>5, <1>6, <1>7 DEF Next

\* A current incident disappears only when its server says so or with the process
\* (reducer.rs, ForgetStale and Notification).
THEOREM ServersResolveTheirIncidents == Spec => OnlyServerResolves
<1>1. LoopInv /\ [Next]_vars => [ResolveStep]_vars
  BY StepResolves
<1>2. Spec => [][ResolveStep]_vars
  BY <1>1, LoopInvariant, PTL DEF Spec
<1> QED
  BY <1>2 DEF OnlyServerResolves, ResolveStep

-----------------------------------------------------------------------------
(* Heartbeats and the sockets they come from.                              *)

\* Connected is reported only while the server is reported as offline.
OfflinePhase(s) ==
    InPhase(events, s, ~servers[s].connected, {"Disconnected", "TunnelFailed"}, {"Connected"},
            {"Connected"}, link[s] \in {"up", "down"})

\* Behind position i of q, the socket of s is v: the one before the next Connected, or
\* now, the one of its link, where there is no other.
SocketAt(q, s, i, v, now) ==
    \/ v = now /\ \A j \in (i + 1)..Len(q) : ~Is(q[j], s, {"Connected"})
    \/ \E j \in (i + 1)..Len(q) :
          /\ Is(q[j], s, {"Connected"}) /\ v = 1 - q[j].socket
          /\ \A k \in (i + 1)..(j - 1) : ~Is(q[k], s, {"Connected"})

HeartbeatInv(s) ==
    /\ OfflinePhase(s)
    /\ \A i \in 1..Len(events) : Is(events[i], s, {"Heartbeat"}) =>
            SocketAt(events, s, i, events[i].socket, socket[s])
    /\ servers[s].connected /\ servers[s].heartbeat # Absent =>
            SocketAt(events, s, 0, servers[s].heartbeat, socket[s])

\* Every internal incident that is not snoozed has been told, in every state of the loop,
\* and the keys that the proposed map drops are the ones that Acknowledge tells.
TellInv ==
    /\ snoozed \in [Keys -> Nat \cup {Absent}]
    /\ disk \in [Keys -> Nat \cup {Absent}]
    /\ commands \in Seq(Command)
    /\ \A k \in InternalKeys : internal[k] # Absent /\ snoozed[k] = Absent => k \in told
    /\ pump # "select" =>
        /\ proposal.snoozes \in [Keys -> Nat \cup {Absent}]
        /\ \A k \in InternalKeys : proposal.snoozes[k] = Absent /\ snoozed[k] # Absent =>
               IF proposal.action = "Remove" THEN k = proposal.key ELSE k \in proposal.keys

-----------------------------------------------------------------------------
(* What is shown.                                                          *)

\* The reducer leaves the snoozes alone.
LEMMA SnoozesKept ==
  ASSUME NEW e \in Event, reduce(e)
  PROVE  snoozed' = snoozed
  BY Zenon, EventKinds DEF reduce, connected, disconnected, tunnel_ready, tunnel_failed,
     heartbeat, notification

\* Marking the incidents of a server that has no current one changes nothing.
LEMMA NothingToMark ==
  ASSUME Types, NEW s \in Servers, MarkStale(s), ~HasFresh(s)
  PROVE  incidents' = incidents
<1>1. incidents \in [Servers -> [Items -> Incident \cup {Absent}]]
  BY DEF Types
<1>2. \A x \in Incident : x.stale => [x EXCEPT !.stale = TRUE] = x
  BY DEF Incident
<1>3. ASSUME NEW i \in Items
      PROVE  (IF incidents[s][i] = Absent THEN Absent
              ELSE [incidents[s][i] EXCEPT !.stale = TRUE]) = incidents[s][i]
  <2>1. CASE incidents[s][i] = Absent
    BY <2>1
  <2>2. CASE incidents[s][i] # Absent
    <3>1. incidents[s][i] \in Incident /\ incidents[s][i].stale
      BY <1>1, <2>2 DEF HasFresh
    <3> QED
      BY Zenon, <1>2, <2>2, <3>1
  <2> QED
    BY <2>1, <2>2
<1>4. [i \in Items |-> IF incidents[s][i] = Absent THEN Absent
                       ELSE [incidents[s][i] EXCEPT !.stale = TRUE]] = incidents[s]
  BY Zenon, <1>1, <1>3
<1>5. incidents' = [incidents EXCEPT ![s] = incidents[s]]
  BY Zenon, <1>1, <1>4 DEF MarkStale
<1> QED
  BY <1>1, <1>5

\* A server that is offline already is left as it is.
LEMMA NothingToSetOffline ==
  ASSUME Types, NEW s \in Servers, SetOffline(s), ~StatusChanged(s, FALSE)
  PROVE  servers' = servers
<1>1. servers \in [Servers -> ServerState] /\ servers[s] \in ServerState
  BY DEF Types
<1>2. servers[s].initialized = TRUE /\ servers[s].connected = FALSE
  BY Zenon, <1>1 DEF StatusChanged, ServerState
<1>3. [[servers[s] EXCEPT !.connected = FALSE] EXCEPT !.initialized = TRUE] = servers[s]
  BY Zenon, <1>1, <1>2 DEF ServerState
<1>4. servers' = [servers EXCEPT ![s] = servers[s]]
  BY Zenon, <1>1, <1>3 DEF SetOffline
<1> QED
  BY <1>1, <1>4

\* A handler that asks for no snapshot leaves what a snapshot contains alone.
LEMMA SilentHandlers ==
  ASSUME Types, NEW e \in Event, reduce(e), ~Changed(e)
  PROVE  UNCHANGED <<servers, incidents, internal>>
<1> DEFINE s == e.server
<1>1. s \in Servers /\ ConnectionKey(s) \in InternalKeys /\ TunnelKey(s) \in InternalKeys
  BY EventKinds, Keyed
<1>2. /\ servers \in [Servers -> ServerState] /\ servers[s] \in ServerState
      /\ internal \in [InternalKeys -> Errors \cup {Absent}]
  BY <1>1 DEF Types
<1> HIDE DEF s
<1>3. CASE e.type = "Connected"
  <2>1. connected(s) /\ ~StatusChanged(s, TRUE) /\ internal[ConnectionKey(s)] = Absent
    BY Zenon, <1>3 DEF reduce, Changed, s
  <2>2. servers[s].initialized = TRUE /\ servers[s].connected = TRUE
    BY Zenon, <1>2, <2>1 DEF StatusChanged, ServerState
  <2>3. [connected |-> TRUE, initialized |-> TRUE, heartbeat |-> servers[s].heartbeat] = servers[s]
    BY Zenon, <1>2, <2>2 DEF ServerState
  <2>4. servers' = [servers EXCEPT ![s] = servers[s]]
    BY Zenon, <1>1, <1>2, <2>1, <2>3 DEF connected
  <2>5. internal' = [internal EXCEPT ![ConnectionKey(s)] = internal[ConnectionKey(s)]]
    BY <2>1 DEF connected
  <2> QED
    BY <1>1, <1>2, <2>1, <2>4, <2>5 DEF connected
<1>4. CASE e.type = "Disconnected"
  <2>1. /\ disconnected(s, e.error) /\ ~StatusChanged(s, FALSE) /\ ~HasFresh(s)
        /\ internal[ConnectionKey(s)] = e.error
    BY Zenon, <1>4 DEF reduce, Changed, s
  <2>2. UNCHANGED <<servers, incidents>>
    BY Zenon, <1>1, <2>1, NothingToSetOffline, NothingToMark DEF disconnected
  <2> QED
    BY <1>1, <1>2, <2>1, <2>2 DEF disconnected
<1>5. CASE e.type = "TunnelReady"
  <2>1. tunnel_ready(s) /\ internal[TunnelKey(s)] = Absent
    BY <1>5 DEF reduce, Changed, s
  <2> QED
    BY <1>1, <1>2, <2>1 DEF tunnel_ready
<1>6. CASE e.type = "TunnelFailed"
  <2>1. /\ tunnel_failed(s, e.error) /\ ~StatusChanged(s, FALSE) /\ ~HasFresh(s)
        /\ internal[ConnectionKey(s)] = Absent /\ internal[TunnelKey(s)] = e.error
    BY Zenon, <1>6 DEF reduce, Changed, s
  <2>2. UNCHANGED <<servers, incidents>>
    BY Zenon, <1>1, <2>1, NothingToSetOffline, NothingToMark DEF tunnel_failed
  <2> QED
    BY <1>1, <1>2, <2>1, <2>2, KeysDiffer DEF tunnel_failed
<1>7. CASE e.type \in {"Heartbeat", "Notification"}
  BY Zenon, <1>7 DEF Changed
<1> QED
  BY <1>3, <1>4, <1>5, <1>6, <1>7, EventKinds

\* Every step keeps the published view current.
LEMMA ViewStep ==
  ASSUME LoopInv, ViewIsCurrent, [Next]_vars
  PROVE  ViewIsCurrent'
<1>1. Types /\ clock \in Nat
  BY DEF LoopInv, OrderInv, Types
<1>2. PICK t \in 0..clock : view = snapshot(State, t)
  BY DEF ViewIsCurrent
<1>3. ASSUME UNCHANGED <<servers, incidents, internal, snoozed, view>>,
             clock' = clock \/ clock' = clock + 1
      PROVE  ViewIsCurrent'
  <2>1. t \in 0..clock'
    BY <1>1, <1>3
  <2>2. view' = snapshot(State', t)
    BY <1>2, <1>3 DEF State
  <2> QED
    BY <2>1, <2>2 DEF ViewIsCurrent
<1>4. ASSUME view' = snapshot(State', clock), clock' = clock PROVE ViewIsCurrent'
  <2>1. clock \in 0..clock'
    BY <1>1, <1>4
  <2> QED
    BY <1>4, <2>1 DEF ViewIsCurrent
<1>5. CASE Network \/ TimePasses \/ Click \/ CooldownEnds \/ UNCHANGED vars
  <2>1. UNCHANGED <<servers, incidents, internal, snoozed, view>>
    BY Zenon, <1>5 DEF Network, TimePasses, Click, CooldownEnds, vars, stateVars, loopVars
  <2>2. clock' = clock \/ clock' = clock + 1
    <3>1. CASE Network
      BY Zenon, <3>1 DEF Network, LinkNext, TunnelReady, TunnelBreaks, Connected, Heartbeat,
         Stopped, TunnelFailed, Disconnected, Notification
    <3> QED
      BY Zenon, <1>5, <3>1 DEF TimePasses, Click, CooldownEnds, vars
  <2> QED
    BY <1>3, <2>1, <2>2
<1>6. CASE HandleEvent
  <2>1. /\ reduce(Head(events)) /\ Head(events) \in Event /\ clock' = clock
        /\ Publish(Changed(Head(events)))
    BY Zenon, <1>1, <1>6, Handled DEF HandleEvent
  <2>2. CASE Changed(Head(events))
    BY <1>4, <2>1, <2>2 DEF Publish
  <2>3. CASE ~Changed(Head(events))
    BY Zenon, <1>1, <1>3, <2>1, <2>3, SilentHandlers, SnoozesKept DEF Publish
  <2> QED
    BY <2>2, <2>3
<1>7. CASE HandleSnooze \/ HandleUnsnooze
  BY Zenon, <1>3, <1>7 DEF HandleSnooze, HandleUnsnooze, TakeCommand, stateVars
<1>8. CASE HandleForgetStale
  <2>1. /\ UNCHANGED <<clock, servers, internal, snoozed>> /\ Publish(incidents' # incidents)
    BY Zenon, <1>8 DEF HandleForgetStale, TakeCommand, forget_stale
  <2> QED
    BY Zenon, <1>3, <1>4, <2>1 DEF Publish
<1>9. CASE Tick
  BY Zenon, <1>3, <1>4, <1>9 DEF Tick, Publish, stateVars
<1>10. CASE Write
  BY Zenon, <1>3, <1>10 DEF Write, stateVars
<1>11. CASE WriteFails
  <2>1. UNCHANGED <<clock, servers, incidents, internal, snoozed>> /\ State' = State
        /\ (view' = snapshot(State, clock) \/ view' = view)
    BY Zenon, <1>11 DEF WriteFails, stateVars, State
  <2> QED
    BY Zenon, <1>3, <1>4, <2>1
<1>12. CASE Acknowledge
  <2>1. /\ UNCHANGED <<clock, servers, incidents, internal>>
        /\ Publish(snoozed' # snoozed \/ proposal.action = "Expire")
    BY Zenon, <1>12 DEF Acknowledge, snoozes_persisted
  <2> QED
    BY Zenon, <1>3, <1>4, <2>1 DEF Publish
<1>13. CASE Crash
  BY Zenon, <1>4, <1>13 DEF Crash, Publish
<1> QED
  BY Zenon, <1>5, <1>6, <1>7, <1>8, <1>9, <1>10, <1>11, <1>12, <1>13 DEF Next

\* What the window and the tray were given last is a snapshot of the state the loop is in:
\* a handler that reports "unchanged" has changed nothing they show (reducer.rs,
\* Transition.changed; runtime.rs, publish).
THEOREM ShownIsCurrent == Spec => []ViewIsCurrent
<1>1. Init => ViewIsCurrent
  <2> SUFFICES ASSUME Init PROVE ViewIsCurrent
    OBVIOUS
  <2>1. State = NewState(NoSnoozes)
    BY DEF Init, State, NewState
  <2>2. view = snapshot(State, 0) /\ clock = 0
    BY <2>1 DEF Init
  <2>3. 0 \in 0..0
    OBVIOUS
  <2> QED
    BY <2>2, <2>3 DEF ViewIsCurrent
<1>2. ASSUME LoopInv, ViewIsCurrent, [Next]_vars PROVE ViewIsCurrent'
  BY <1>2, ViewStep
<1> QED
  BY <1>1, <1>2, LoopInvariant, PTL DEF Spec

-----------------------------------------------------------------------------
(* What is told.                                                           *)

\* The notice of an internal incident that appears and is not snoozed.
LEMMA AppearsWithNotice ==
  ASSUME Types, NEW e \in Event, reduce(e), NEW k \in InternalKeys, internal[k] = Absent,
         internal'[k] # Absent, snoozed[k] = Absent
  PROVE  k \in {n.key : n \in {x \in Notices(e) : x.kind = "error"}}
<1> DEFINE s == e.server
<1>1. s \in Servers /\ ConnectionKey(s) \in InternalKeys /\ TunnelKey(s) \in InternalKeys
  BY EventKinds, Keyed
<1>2. internal \in [InternalKeys -> Errors \cup {Absent}]
  BY DEF Types
<1>3. Unless_snoozed("error", k, e.at) = {[kind |-> "error", key |-> k]}
  BY DEF Unless_snoozed, is_snoozed
<1>4. SUFFICES Notices(e) = Unless_snoozed("error", k, e.at)
  <2> DEFINE n == [kind |-> "error", key |-> k]
  <2>1. n.kind = "error" /\ n.key = k /\ n \in Unless_snoozed("error", k, e.at)
    BY <1>3
  <2> HIDE DEF n
  <2> QED
    BY Zenon, <2>1
<1> HIDE DEF s
<1>5. CASE e.type = "Disconnected"
  <2>1. disconnected(s, e.error)
    BY <1>5 DEF reduce, s
  <2>2. k = ConnectionKey(s)
    BY <1>1, <1>2, <2>1 DEF disconnected
  <2> QED
    BY Zenon, <1>5, <2>2 DEF Notices, s
<1>6. CASE e.type = "TunnelFailed"
  <2>1. tunnel_failed(s, e.error)
    BY <1>6 DEF reduce, s
  <2>2. k = TunnelKey(s)
    BY <1>1, <1>2, <2>1 DEF tunnel_failed
  <2> QED
    BY Zenon, <1>6, <2>2 DEF Notices, s
<1>7. CASE e.type = "Connected"
  BY <1>1, <1>2, <1>7 DEF reduce, connected, s
<1>8. CASE e.type = "TunnelReady"
  BY <1>1, <1>2, <1>8 DEF reduce, tunnel_ready, s
<1>9. CASE e.type \in {"Heartbeat", "Notification"}
  BY Zenon, <1>9 DEF reduce, heartbeat, notification
<1> QED
  BY <1>5, <1>6, <1>7, <1>8, <1>9, EventKinds

\* An incident without a snooze is among the active ones of a snapshot.
LEMMA UnsnoozedIsActive ==
  ASSUME NEW st, NEW now, NEW k \in InternalKeys, st.internal[k] # Absent, st.snoozed[k] = Absent
  PROVE  k \in {x.key : x \in snapshot(st, now).active}
<1> DEFINE r == [key |-> k, state |-> "error", details |-> st.internal[k], stale |-> FALSE]
           hidden == {x \in AllIncidents(st) :
                         st.snoozed[x.key] # Absent /\ st.snoozed[x.key] > now}
<1>1. r \in AllIncidents(st)
  BY Zenon DEF AllIncidents
<1>2. r.key = k
  OBVIOUS
<1>3. snapshot(st, now).active = AllIncidents(st) \ hidden
  BY Zenon DEF snapshot
<1> HIDE DEF r, hidden
<1>4. r \notin hidden
  BY <1>2 DEF hidden
<1> QED
  BY <1>1, <1>2, <1>3, <1>4

\* The keys of the shown incidents are keys.
LEMMA ShownKeys ==
  ASSUME NEW st, NEW now
  PROVE  /\ \A x \in snapshot(st, now).active : x.key \in Keys
         /\ \A x \in snapshot(st, now).snoozed : x.incident.key \in Keys
<1>1. \A x \in AllIncidents(st) : x.key \in Keys
  <2>1. SUFFICES ASSUME NEW x \in AllIncidents(st)
                 PROVE  x.key \in Keys
    BY Zenon
  <2>2. CASE \E k \in InternalKeys :
               x = [key |-> k, state |-> "error", details |-> st.internal[k], stale |-> FALSE]
    BY <2>2 DEF Keys
  <2>3. CASE \E p \in Servers \X Items :
               x = [key |-> ItemKey(p[1], p[2]), state |-> st.incidents[p[1]][p[2]].state,
                    details |-> Absent, stale |-> st.incidents[p[1]][p[2]].stale]
    <3>0. PICK p \in Servers \X Items :
            x = [key |-> ItemKey(p[1], p[2]), state |-> st.incidents[p[1]][p[2]].state,
                 details |-> Absent, stale |-> st.incidents[p[1]][p[2]].stale]
      BY Zenon, <2>3
    <3>1. x.key = ItemKey(p[1], p[2])
      BY Zenon, <3>0
    <3>2. p[1] \in Servers /\ p[2] \in Items
      OBVIOUS
    <3> QED
      BY <3>1, <3>2 DEF Keys
  <2>4. \/ x \in {[key |-> k, state |-> "error", details |-> st.internal[k], stale |-> FALSE] :
                    k \in {y \in InternalKeys : st.internal[y] # Absent}}
        \/ x \in {[key |-> ItemKey(p[1], p[2]), state |-> st.incidents[p[1]][p[2]].state,
                    details |-> Absent, stale |-> st.incidents[p[1]][p[2]].stale] :
                    p \in {y \in Servers \X Items : st.incidents[y[1]][y[2]] # Absent}}
    BY Zenon DEF AllIncidents
  <2> QED
    BY Zenon, <2>2, <2>3, <2>4
<1>2. snapshot(st, now).active \subseteq AllIncidents(st)
  BY Zenon DEF snapshot
<1>3. \A x \in snapshot(st, now).snoozed : x.incident \in AllIncidents(st)
  <2> DEFINE hidden == {y \in AllIncidents(st) :
                           st.snoozed[y.key] # Absent /\ st.snoozed[y.key] > now}
  <2>1. SUFFICES ASSUME NEW x \in snapshot(st, now).snoozed
                 PROVE  x.incident \in AllIncidents(st)
    BY Zenon
  <2>2. snapshot(st, now).snoozed
            = {[incident |-> y, until |-> st.snoozed[y.key]] : y \in hidden}
    BY Zenon DEF snapshot
  <2>3. hidden \subseteq AllIncidents(st)
    BY Zenon
  <2> HIDE DEF hidden
  <2>4. PICK y \in hidden : x = [incident |-> y, until |-> st.snoozed[y.key]]
    BY Zenon, <2>2
  <2>5. x.incident = y
    BY Zenon, <2>4
  <2> QED
    BY Zenon, <2>3, <2>5
<1> QED
  BY Zenon, <1>1, <1>2, <1>3

\* Taking a command.
LEMMA CommandTaken ==
  ASSUME NEW op, TakeCommand(op), commands \in Seq(Command)
  PROVE  /\ pump = "select" /\ commands' \in Seq(Command) /\ UNCHANGED disk
         /\ Head(commands) \in Command /\ Head(commands).op = op
<1>1. \A T : \A q \in Seq(T) : q # <<>> => Head(q) \in T /\ Tail(q) \in Seq(T)
  OBVIOUS
<1>2. pump = "select" /\ commands # <<>> /\ commands' = Tail(commands) /\ UNCHANGED disk
      /\ Head(commands).op = op
  BY Zenon DEF TakeCommand
<1> QED
  BY Zenon, <1>1, <1>2

\* The fields of a command.
LEMMA CommandFields ==
  ASSUME NEW c \in Command
  PROVE  c.key \in Keys /\ (c.op = "Snooze" => c.duration \in Durations)
  BY DEF Command

\* What a proposal must say of the keys it drops.
Drops(p) ==
    /\ p.snoozes \in [Keys -> Nat \cup {Absent}]
    /\ \A k \in InternalKeys : p.snoozes[k] = Absent /\ snoozed[k] # Absent =>
           IF p.action = "Remove" THEN k = p.key ELSE k \in p.keys

\* A proposal drops no snooze of an internal incident but the ones it names.
LEMMA Proposed ==
  ASSUME NEW action, NEW key, NEW keys, NEW snoozes \in [Keys -> Nat \cup {Absent}],
         Propose(action, key, keys, snoozes),
         \A k \in InternalKeys : snoozes[k] = Absent /\ snoozed[k] # Absent =>
             IF action = "Remove" THEN k = key ELSE k \in keys
  PROVE  pump' = "persist" /\ Drops(proposal')
<1>1. /\ pump' = "persist" /\ proposal'.action = action /\ proposal'.key = key
      /\ proposal'.keys = keys /\ proposal'.snoozes = snoozes
  BY DEF Propose
<1> QED
  BY Zenon, <1>1 DEF Drops

\* Every step keeps the alerts told or still to be told.
LEMMA TellStep ==
  ASSUME LoopInv, ViewIsCurrent, TellInv, [Next]_vars
  PROVE  TellInv'
<1>1. Types /\ clock \in Nat /\ internal \in [InternalKeys -> Errors \cup {Absent}]
  BY DEF LoopInv, OrderInv, Types
<1>2. /\ snoozed \in [Keys -> Nat \cup {Absent}]
      /\ disk \in [Keys -> Nat \cup {Absent}]
      /\ commands \in Seq(Command)
      /\ \A k \in InternalKeys : internal[k] # Absent /\ snoozed[k] = Absent => k \in told
      /\ pump # "select" => Drops(proposal)
  BY Zenon DEF TellInv, Drops
<1>3. ASSUME UNCHANGED <<snoozed, internal, told>>, disk' \in [Keys -> Nat \cup {Absent}],
             commands' \in Seq(Command), pump' # "select" => Drops(proposal')
      PROVE  TellInv'
  <2>1. pump' # "select" =>
          /\ proposal'.snoozes \in [Keys -> Nat \cup {Absent}]
          /\ \A k \in InternalKeys : proposal'.snoozes[k] = Absent /\ snoozed'[k] # Absent =>
                 IF proposal'.action = "Remove" THEN k = proposal'.key ELSE k \in proposal'.keys
    BY Zenon, <1>3 DEF Drops
  <2> QED
    BY Zenon, <1>2, <1>3, <2>1 DEF TellInv
<1>4. InternalKeys \subseteq Keys
  BY DEF Keys
<1>5. CASE Network \/ TimePasses \/ CooldownEnds \/ UNCHANGED vars
  <2>1. UNCHANGED <<snoozed, internal, told, disk, commands, pump, proposal>>
    BY Zenon, <1>5 DEF Network, TimePasses, CooldownEnds, vars, stateVars, loopVars
  <2> QED
    BY Zenon, <1>2, <1>3, <2>1
<1>6. CASE Click
  <2>1. UNCHANGED <<snoozed, internal, told, disk, pump, proposal>>
    BY Zenon, <1>6 DEF Click, stateVars
  <2>2. /\ \A x \in view.active : x.key \in Keys
        /\ \A x \in view.snoozed : x.incident.key \in Keys
    BY Zenon, ShownKeys DEF ViewIsCurrent
  <2>3. PICK c \in Command : commands' = Append(commands, c)
    <3>1. CASE \E x \in view.active, d \in Durations :
                 commands' = Append(commands, [op |-> "Snooze", key |-> x.key, duration |-> d])
      BY Zenon, <2>2, <3>1 DEF Command
    <3>2. CASE \E x \in view.snoozed :
                 commands' = Append(commands, [op |-> "Unsnooze", key |-> x.incident.key])
      BY <2>2, <3>2 DEF Command
    <3>3. CASE \E x \in view.active :
                 commands' = Append(commands, [op |-> "ForgetStale", key |-> x.key])
      BY <2>2, <3>3 DEF Command
    <3> QED
      BY Zenon, <1>6, <3>1, <3>2, <3>3 DEF Click
  <2>4. commands' \in Seq(Command)
    BY <1>2, <2>3
  <2> QED
    BY Zenon, <1>2, <1>3, <2>1, <2>4
<1>7. CASE HandleEvent
  <2> DEFINE e == Head(events)
             loud == {n.key : n \in {x \in Notices(e) : x.kind = "error"}}
  <2>1. /\ reduce(e) /\ e \in Event /\ pump = "select"
        /\ UNCHANGED <<disk, commands, pump, proposal>> /\ Tell(loud)
    BY Zenon, <1>1, <1>7, Handled DEF HandleEvent
  <2>2. snoozed' = snoozed
    BY Zenon, <2>1, SnoozesKept
  <2>3. ASSUME NEW k \in InternalKeys, internal'[k] # Absent, snoozed[k] = Absent
        PROVE  k \in told \cup loud
    BY Zenon, <1>1, <1>2, <2>1, <2>3, AppearsWithNotice
  <2> HIDE DEF e, loud
  <2>4. \A k \in InternalKeys : internal'[k] # Absent /\ snoozed'[k] = Absent => k \in told'
    BY Zenon, <2>1, <2>2, <2>3 DEF Tell
  <2> QED
    BY Zenon, <1>2, <2>1, <2>2, <2>4 DEF TellInv
<1>8. CASE HandleSnooze
  <2> DEFINE c == Head(commands)
             until == clock + c.duration
  <2>1. /\ UNCHANGED <<snoozed, internal, told, disk>> /\ commands' \in Seq(Command)
        /\ c \in Command /\ c.op = "Snooze" /\ pump = "select"
        /\ IF snoozed[c.key] = until THEN UNCHANGED <<pump, proposal>>
           ELSE Propose("Set", c.key, {}, WithSnooze(c.key, until))
    BY Zenon, <1>2, <1>8, CommandTaken DEF HandleSnooze, stateVars
  <2>2. c.key \in Keys /\ c.duration \in Nat
    BY Zenon, <2>1, CommandFields, RuntimeAssumption
  <2>3. until \in Nat /\ until # Absent
    BY <1>1, <2>2, AbsentAssumption
  <2> HIDE DEF c, until
  <2>4. /\ WithSnooze(c.key, until) \in [Keys -> Nat \cup {Absent}]
        /\ \A k \in InternalKeys : ~(WithSnooze(c.key, until)[k] = Absent /\ snoozed[k] # Absent)
    BY <1>2, <1>4, <2>2, <2>3 DEF WithSnooze
  <2>5. pump' # "select" => Drops(proposal')
    <3>1. \A k \in InternalKeys : WithSnooze(c.key, until)[k] = Absent /\ snoozed[k] # Absent =>
              IF "Set" = "Remove" THEN k = c.key ELSE k \in {}
      BY Zenon, <2>4
    <3>2. CASE Propose("Set", c.key, {}, WithSnooze(c.key, until))
      BY <2>4, <3>1, <3>2, Proposed
    <3> QED
      BY Zenon, <2>1, <3>2
  <2> QED
    BY Zenon, <1>2, <1>3, <2>1, <2>5
<1>9. CASE HandleUnsnooze
  <2> DEFINE c == Head(commands)
  <2>1. /\ UNCHANGED <<snoozed, internal, told, disk>> /\ commands' \in Seq(Command)
        /\ c \in Command /\ pump = "select"
        /\ IF snoozed[c.key] = Absent THEN UNCHANGED <<pump, proposal>>
           ELSE Propose("Remove", c.key, {}, WithoutSnooze(c.key))
    BY Zenon, <1>2, <1>9, CommandTaken DEF HandleUnsnooze, stateVars
  <2> HIDE DEF c
  <2>2. /\ WithoutSnooze(c.key) \in [Keys -> Nat \cup {Absent}]
        /\ \A k \in InternalKeys :
               WithoutSnooze(c.key)[k] = Absent /\ snoozed[k] # Absent => k = c.key
    BY Zenon, <1>2, <1>4 DEF WithoutSnooze
  <2>3. pump' # "select" => Drops(proposal')
    <3>1. \A k \in InternalKeys : WithoutSnooze(c.key)[k] = Absent /\ snoozed[k] # Absent =>
              IF "Remove" = "Remove" THEN k = c.key ELSE k \in {}
      BY Zenon, <2>2
    <3>2. CASE Propose("Remove", c.key, {}, WithoutSnooze(c.key))
      BY <2>2, <3>1, <3>2, Proposed
    <3> QED
      BY Zenon, <2>1, <3>2
  <2> QED
    BY Zenon, <1>2, <1>3, <2>1, <2>3
<1>10. CASE HandleForgetStale
  <2>1. UNCHANGED <<snoozed, internal, told, pump, proposal>> /\ TakeCommand("ForgetStale")
    BY Zenon, <1>10 DEF HandleForgetStale, forget_stale
  <2> QED
    BY Zenon, <1>2, <1>3, <2>1, CommandTaken
<1>11. CASE Tick
  <2>1. /\ pump = "select" /\ UNCHANGED <<snoozed, internal, told, disk, commands>>
        /\ \/ Propose("Expire", Absent, Expired(clock), WithoutExpired(clock))
           \/ UNCHANGED <<pump, proposal>>
    BY Zenon, <1>11 DEF Tick, stateVars
  <2>2. /\ WithoutExpired(clock) \in [Keys -> Nat \cup {Absent}]
        /\ \A k \in InternalKeys :
               WithoutExpired(clock)[k] = Absent /\ snoozed[k] # Absent => k \in Expired(clock)
    BY <1>2, <1>4 DEF WithoutExpired
  <2>3. pump' # "select" => Drops(proposal')
    <3>1. \A k \in InternalKeys : WithoutExpired(clock)[k] = Absent /\ snoozed[k] # Absent =>
              IF "Expire" = "Remove" THEN k = Absent ELSE k \in Expired(clock)
      BY <2>2
    <3>2. CASE Propose("Expire", Absent, Expired(clock), WithoutExpired(clock))
      BY ZenonT(40), <2>2, <3>1, <3>2, Proposed
    <3> QED
      BY Zenon, <2>1, <3>2
  <2> QED
    BY Zenon, <1>2, <1>3, <2>1, <2>3
<1>12. CASE Write
  <2>1. /\ pump = "persist" /\ disk' = proposal.snoozes
        /\ UNCHANGED <<snoozed, internal, told, commands, proposal>>
    BY Zenon, <1>12 DEF Write, stateVars
  <2>2. Drops(proposal)
    BY <1>2, <2>1
  <2> QED
    BY Zenon, <1>2, <1>3, <2>1, <2>2 DEF Drops
<1>13. CASE WriteFails
  <2>1. pump' = "select" /\ UNCHANGED <<snoozed, internal, told, commands, disk>>
    BY Zenon, <1>13 DEF WriteFails, stateVars
  <2> QED
    BY Zenon, <1>2, <1>3, <2>1
<1>14. CASE Acknowledge
  <2> DEFINE keys == IF proposal.action = "Remove" THEN {proposal.key}
                     ELSE snooze_expiry_notifications(State', clock)
  <2>1. /\ pump = "written" /\ snoozed' = proposal.snoozes /\ pump' = "select"
        /\ UNCHANGED <<internal, commands, disk>> /\ Tell(keys)
    BY Zenon, <1>14 DEF Acknowledge, snoozes_persisted
  <2>2. Drops(proposal)
    BY <1>2, <2>1
  <2>3. State'.internal = internal' /\ State'.snoozed = snoozed'
    BY DEF State
  <2>4. ASSUME NEW k \in InternalKeys, internal'[k] # Absent, snoozed'[k] = Absent
        PROVE  k \in told \cup keys
    <3>1. CASE snoozed[k] = Absent
      BY Zenon, <1>2, <2>1, <2>4, <3>1
    <3>2. CASE snoozed[k] # Absent /\ proposal.action = "Remove"
      BY Zenon, <2>1, <2>2, <2>4, <3>2 DEF Drops
    <3>3. CASE snoozed[k] # Absent /\ proposal.action # "Remove"
      <4>1. k \in proposal.keys
        BY Zenon, <2>1, <2>2, <2>4, <3>3 DEF Drops
      <4>2. k \in {x.key : x \in snapshot(State', clock).active}
        BY Zenon, <2>3, <2>4, UnsnoozedIsActive
      <4> QED
        BY Zenon, <3>3, <4>1, <4>2 DEF snooze_expiry_notifications
    <3> QED
      BY Zenon, <3>1, <3>2, <3>3
  <2> HIDE DEF keys
  <2>5. \A k \in InternalKeys : internal'[k] # Absent /\ snoozed'[k] = Absent => k \in told'
    BY Zenon, <2>1, <2>4 DEF Tell
  <2>6. snoozed' \in [Keys -> Nat \cup {Absent}]
    BY Zenon, <2>1, <2>2 DEF Drops
  <2> QED
    BY Zenon, <1>2, <2>1, <2>5, <2>6 DEF TellInv
<1>15. CASE Crash
  <2>1. /\ snoozed' = disk /\ disk' = disk /\ commands' = <<>> /\ pump' = "select"
        /\ internal' = [k \in InternalKeys |-> Absent]
    BY <1>15 DEF Crash, NewState
  <2>2. <<>> \in Seq(Command)
    OBVIOUS
  <2> QED
    BY Zenon, <1>2, <2>1, <2>2 DEF TellInv
<1> QED
  BY Zenon, <1>5, <1>6, <1>7, <1>8, <1>9, <1>10, <1>11, <1>12, <1>13, <1>14, <1>15 DEF Next

\* A notice is requested for every connection or tunnel incident that is not snoozed, when
\* it appears or when its snooze ends, however writes fail and whatever else is handled in
\* between (reducer.rs, notify_unless_snoozed and snooze_expiry_notifications).
THEOREM AlertsAreTold == Spec => []NoSilentAlert
<1>1. Init => TellInv
  <2> SUFFICES ASSUME Init PROVE TellInv
    OBVIOUS
  <2>1. /\ snoozed = NoSnoozes /\ disk = NoSnoozes /\ commands = <<>> /\ pump = "select"
        /\ internal = [k \in InternalKeys |-> Absent]
    BY DEF Init, NewState
  <2>2. NoSnoozes \in [Keys -> Nat \cup {Absent}] /\ <<>> \in Seq(Command)
    BY DEF NoSnoozes
  <2> QED
    BY Zenon, <2>1, <2>2 DEF TellInv
<1>2. ASSUME LoopInv, ViewIsCurrent, TellInv, [Next]_vars PROVE TellInv'
  BY <1>2, TellStep
<1>3. TellInv => NoSilentAlert
  BY Zenon DEF TellInv, NoSilentAlert
<1> QED
  BY <1>1, <1>2, <1>3, LoopInvariant, ShownIsCurrent, PTL DEF Spec

-----------------------------------------------------------------------------
(* Which socket a heartbeat is of.                                         *)

\* A Connected of the other socket, or another event, is sent.
LEMMA SocketSent ==
  ASSUME NEW T, NEW q \in Seq(T), NEW e \in T, NEW s, NEW i \in 0..Len(q), NEW v,
         NEW now \in {0, 1}, NEW next, SocketAt(q, s, i, v, now),
         Is(e, s, {"Connected"}) => e.socket = 1 - now,
         ~Is(e, s, {"Connected"}) => next = now
  PROVE  SocketAt(Append(q, e), s, i, v, next)
<1> DEFINE n == Len(q) + 1
           r == Append(q, e)
           C(x) == Is(x, s, {"Connected"})
<1>1. /\ Len(r) = n /\ r[n] = e /\ \A j \in 1..Len(q) : r[j] = q[j]
      /\ i \in Nat /\ i <= Len(q) /\ Len(q) \in Nat
  OBVIOUS
<1>2. /\ \A j \in (i + 1)..Len(q) : r[j] = q[j] /\ j \in (i + 1)..n
      /\ \A j \in (i + 1)..Len(q) : \A k \in (i + 1)..(j - 1) : k \in (i + 1)..Len(q)
      /\ \A j \in (i + 1)..n : j \in (i + 1)..Len(q) \/ j = n
      /\ n \in (i + 1)..n /\ \A k \in (i + 1)..(n - 1) : k \in (i + 1)..Len(q)
      /\ 1 - (1 - now) = now
  BY <1>1
<1> HIDE DEF n, r, C
<1>3. CASE \E j \in (i + 1)..Len(q) : /\ C(q[j]) /\ v = 1 - q[j].socket
                                     /\ \A k \in (i + 1)..(j - 1) : ~C(q[k])
  <2>1. \E j \in (i + 1)..n : /\ C(r[j]) /\ v = 1 - r[j].socket
                              /\ \A k \in (i + 1)..(j - 1) : ~C(r[k])
    BY Zenon, <1>2, <1>3
  <2> QED
    BY Zenon, <1>1, <2>1 DEF SocketAt, r, C
<1>4. CASE v = now /\ \A j \in (i + 1)..Len(q) : ~C(q[j])
  <2>1. CASE C(e)
    <3>1. C(r[n]) /\ v = 1 - r[n].socket
      BY Zenon, <1>1, <1>2, <1>4, <2>1 DEF C
    <3>2. \A k \in (i + 1)..(n - 1) : ~C(r[k])
      BY Zenon, <1>2, <1>4
    <3> QED
      BY Zenon, <1>1, <1>2, <3>1, <3>2 DEF SocketAt, r, C
  <2>2. CASE ~C(e)
    <3>1. v = next /\ \A j \in (i + 1)..n : ~C(r[j])
      BY Zenon, <1>1, <1>2, <1>4, <2>2 DEF C
    <3> QED
      BY Zenon, <1>1, <3>1 DEF SocketAt, r, C
  <2> QED
    BY Zenon, <2>1, <2>2
<1> QED
  BY Zenon, <1>3, <1>4 DEF SocketAt, C

\* Positions move up by one when the head is taken.
LEMMA SocketTaken ==
  ASSUME NEW T, NEW q \in Seq(T), q # <<>>, NEW s, NEW i \in 1..Len(q), NEW v, NEW now,
         SocketAt(q, s, i, v, now)
  PROVE  SocketAt(Tail(q), s, i - 1, v, now)
<1> DEFINE C(x) == Is(x, s, {"Connected"})
           r == Tail(q)
<1>1. /\ Len(q) \in Nat /\ Len(q) >= 1 /\ Len(r) = Len(q) - 1 /\ i \in Nat /\ i >= 1
      /\ \A j \in 1..(Len(q) - 1) : r[j] = q[j + 1]
  OBVIOUS
<1>2. /\ \A j \in ((i - 1) + 1)..Len(r) : j + 1 \in (i + 1)..Len(q) /\ r[j] = q[j + 1]
      /\ \A j \in (i + 1)..Len(q) : /\ j - 1 \in ((i - 1) + 1)..Len(r) /\ r[j - 1] = q[j]
                                  /\ \A k \in ((i - 1) + 1)..((j - 1) - 1) :
                                         k + 1 \in (i + 1)..(j - 1) /\ r[k] = q[k + 1]
  BY <1>1
<1> HIDE DEF r, C
<1>3. CASE v = now /\ \A j \in (i + 1)..Len(q) : ~C(q[j])
  <2>1. \A j \in ((i - 1) + 1)..Len(r) : ~C(r[j])
    BY Zenon, <1>2, <1>3
  <2> QED
    BY Zenon, <1>3, <2>1 DEF SocketAt, C, r
<1>4. ASSUME NEW j \in (i + 1)..Len(q), C(q[j]), v = 1 - q[j].socket,
             \A k \in (i + 1)..(j - 1) : ~C(q[k])
      PROVE  SocketAt(Tail(q), s, i - 1, v, now)
  <2>1. /\ C(r[j - 1]) /\ v = 1 - r[j - 1].socket /\ j - 1 \in ((i - 1) + 1)..Len(r)
        /\ \A k \in ((i - 1) + 1)..((j - 1) - 1) : ~C(r[k])
    BY Zenon, <1>2, <1>4
  <2> QED
    BY Zenon, <2>1 DEF SocketAt, C, r
<1> QED
  BY Zenon, <1>3, <1>4 DEF SocketAt, C

\* An event that is not a Connected changes no socket.
LEMMA SocketPassed ==
  ASSUME NEW T, NEW q \in Seq(T), q # <<>>, NEW s, NEW v, NEW now,
         ~Is(q[1], s, {"Connected"}), SocketAt(q, s, 0, v, now)
  PROVE  SocketAt(q, s, 1, v, now)
<1> DEFINE C(x) == Is(x, s, {"Connected"})
<1>1. /\ \A j \in (1 + 1)..Len(q) : j \in (0 + 1)..Len(q)
      /\ \A j \in (0 + 1)..Len(q) : j = 1 \/ j \in (1 + 1)..Len(q)
      /\ \A j : \A k \in (1 + 1)..(j - 1) : j \in (0 + 1)..Len(q) => k \in (0 + 1)..(j - 1)
  OBVIOUS
<1> HIDE DEF C
<1>2. CASE v = now /\ \A j \in (0 + 1)..Len(q) : ~C(q[j])
  BY Zenon, <1>1, <1>2 DEF SocketAt, C
<1>3. ASSUME NEW j \in (0 + 1)..Len(q), C(q[j]), v = 1 - q[j].socket,
             \A k \in (0 + 1)..(j - 1) : ~C(q[k])
      PROVE  SocketAt(q, s, 1, v, now)
  <2>1. j \in (1 + 1)..Len(q)
    BY Zenon, <1>1, <1>3 DEF C
  <2> QED
    BY Zenon, <1>1, <1>3, <2>1 DEF SocketAt, C
<1> QED
  BY Zenon, <1>2, <1>3 DEF SocketAt, C

\* The link of s sends e and goes from its state to another one.
LEMMA SendKeepsHeartbeats ==
  ASSUME Types, \A t \in Servers : HeartbeatInv(t), NEW s \in Servers, NEW e \in Event,
         e.server = s, events' = Append(events, e), NEW to \in LinkStates,
         link' = [link EXCEPT ![s] = to], UNCHANGED servers,
         socket' = IF e.type = "Connected" THEN [socket EXCEPT ![s] = 1 - @] ELSE socket,
         e.type = "Connected" => link[s] \in {"up", "down"},
         to \in {"up", "down"} =>
             \/ e.type \in {"Disconnected", "TunnelFailed"}
             \/ e.type # "Connected" /\ link[s] \in {"up", "down"},
         e.type = "Heartbeat" => e.socket = socket[s],
         e.type = "Connected" => e.socket = 1 - socket[s],
         NEW t \in Servers
  PROVE  HeartbeatInv(t)'
<1>1. /\ events \in Seq(Event) /\ link \in [Servers -> LinkStates]
      /\ socket \in [Servers -> {0, 1}] /\ socket[t] \in {0, 1} /\ Len(events) \in Nat
  BY DEF Types
<1>2. OfflinePhase(t)'
  <2>1. InPhase(events, t, ~servers[t].connected, {"Disconnected", "TunnelFailed"},
                {"Connected"}, {"Connected"}, link[t] \in {"up", "down"})
    BY Zenon DEF HeartbeatInv, OfflinePhase
  <2>2. Is(e, t, {"Connected"}) => link[t] \in {"up", "down"}
    BY DEF Is
  <2>3. link'[t] \in {"up", "down"} =>
            Is(e, t, {"Disconnected", "TunnelFailed"})
            \/ (~Is(e, t, {"Connected"}) /\ link[t] \in {"up", "down"})
    BY <1>1 DEF Is
  <2>4. InPhase(Append(events, e), t, ~servers[t].connected, {"Disconnected", "TunnelFailed"},
                {"Connected"}, {"Connected"}, link'[t] \in {"up", "down"})
    BY Zenon, <1>1, <2>1, <2>2, <2>3, PhaseSent
  <2> QED
    BY Zenon, <2>4 DEF OfflinePhase
<1>3. ASSUME NEW i \in 0..Len(events), NEW v, SocketAt(events, t, i, v, socket[t])
      PROVE  SocketAt(events', t, i, v, socket'[t])
  <2>1. /\ Is(e, t, {"Connected"}) => e.socket = 1 - socket[t]
        /\ ~Is(e, t, {"Connected"}) => socket'[t] = socket[t]
    BY <1>1 DEF Is
  <2> QED
    BY Zenon, <1>1, <1>3, <2>1, SocketSent
<1>4. /\ Len(events') = Len(events) + 1 /\ events'[Len(events) + 1] = e
      /\ \A i \in 1..Len(events) : i \in 0..Len(events) /\ events'[i] = events[i]
      /\ \A i \in 1..Len(events') : i \in 1..Len(events) \/ i = Len(events) + 1
  BY <1>1
<1>5. ASSUME NEW i \in 1..Len(events'), Is(events'[i], t, {"Heartbeat"})
      PROVE  SocketAt(events', t, i, events'[i].socket, socket'[t])
  <2>1. CASE i \in 1..Len(events)
    <3>1. i \in 0..Len(events) /\ events'[i] = events[i]
      BY Zenon, <1>4, <2>1
    <3>2. SocketAt(events, t, i, events[i].socket, socket[t])
      BY Zenon, <1>5, <2>1, <3>1 DEF HeartbeatInv
    <3> QED
      BY Zenon, <1>3, <3>1, <3>2
  <2>2. CASE i = Len(events) + 1
    <3>1. \A j \in (i + 1)..Len(events') : FALSE
      BY <1>1, <1>4, <2>2
    <3>2. e.server = t /\ e.type = "Heartbeat"
      BY <1>4, <1>5, <2>2 DEF Is
    <3>3. events'[i].socket = socket'[t]
      BY <1>4, <2>2, <3>2
    <3> QED
      BY Zenon, <3>1, <3>3 DEF SocketAt
  <2> QED
    BY Zenon, <1>4, <2>1, <2>2
<1>6. servers'[t].connected /\ servers'[t].heartbeat # Absent =>
          SocketAt(events', t, 0, servers'[t].heartbeat, socket'[t])
  <2>1. 0 \in 0..Len(events)
    BY <1>1
  <2> QED
    BY Zenon, <1>3, <2>1 DEF HeartbeatInv
<1> QED
  BY Zenon, <1>2, <1>5, <1>6 DEF HeartbeatInv

\* Sending keeps the heartbeats with their sockets.
LEMMA NetworkKeepsHeartbeats ==
  ASSUME Types, \A t \in Servers : HeartbeatInv(t), Network
  PROVE  \A t \in Servers : HeartbeatInv(t)'
<1>1. LinkNext /\ UNCHANGED servers
  BY Zenon DEF Network, stateVars
<1>2. PICK s \in Servers :
        \/ TunnelReady(s) \/ TunnelBreaks(s) \/ Connected(s)
        \/ Heartbeat(s) \/ Stopped(s)
        \/ \E error \in Errors : TunnelFailed(s, error) \/ Disconnected(s, error)
        \/ \E total \in Reports, added, removed \in SUBSET Items :
               Notification(s, total, added, removed)
  BY <1>1 DEF LinkNext
<1>3. clock \in Nat /\ socket \in [Servers -> {0, 1}] /\ link \in [Servers -> LinkStates]
  BY Zenon DEF Types
<1>4. link = [link EXCEPT ![s] = link[s]] /\ link[s] \in LinkStates
  BY Zenon, <1>3
<1> DEFINE Sent(e, to) ==
             /\ e \in Event /\ e.server = s /\ events' = Append(events, e) /\ to \in LinkStates
             /\ link' = [link EXCEPT ![s] = to]
             /\ socket' = IF e.type = "Connected" THEN [socket EXCEPT ![s] = 1 - @] ELSE socket
             /\ e.type = "Connected" => link[s] \in {"up", "down"}
             /\ to \in {"up", "down"} =>
                   \/ e.type \in {"Disconnected", "TunnelFailed"}
                   \/ e.type # "Connected" /\ link[s] \in {"up", "down"}
             /\ e.type = "Heartbeat" => e.socket = socket[s]
             /\ e.type = "Connected" => e.socket = 1 - socket[s]
<1>5. ASSUME NEW e, NEW to, Sent(e, to) PROVE \A t \in Servers : HeartbeatInv(t)'
  BY Zenon, <1>1, <1>5, SendKeepsHeartbeats
<1>6. CASE TunnelReady(s)
  <2> DEFINE e == [type |-> "TunnelReady", server |-> s, at |-> clock]
  <2>1. e \in [type : {"TunnelReady"}, server : Servers, at : Nat]
    BY <1>3
  <2>2. e \in Event
    BY Zenon, <2>1 DEF Event
  <2>3. e.type = "TunnelReady" /\ e.server = s
    OBVIOUS
  <2>4. /\ link[s] = "down" /\ socket' = socket
        /\ link' = [link EXCEPT ![s] = "up"]
        /\ events' = Append(events, e)
    BY Zenon, <1>6 DEF TunnelReady, Send, Move
  <2> HIDE DEF e
  <2>5. Sent(e, "up")
    BY <1>4, <2>2, <2>3, <2>4 DEF LinkStates
  <2> QED
    BY Zenon, <1>5, <2>5
<1>7. CASE Connected(s)
  <2> DEFINE e == [type |-> "Connected", server |-> s, socket |-> 1 - socket[s], at |-> clock]
  <2>1. e \in [type : {"Connected", "Heartbeat"}, server : Servers, socket : {0, 1}, at : Nat]
    BY <1>3
  <2>2. e \in Event
    BY Zenon, <2>1 DEF Event
  <2>3. e.type = "Connected" /\ e.server = s /\ e.socket = 1 - socket[s]
    OBVIOUS
  <2>4. /\ link[s] = "up" /\ socket' = [socket EXCEPT ![s] = 1 - @]
        /\ link' = [link EXCEPT ![s] = "online"]
        /\ events' = Append(events, e)
    BY Zenon, <1>7 DEF Connected, Send, Move
  <2> HIDE DEF e
  <2>5. Sent(e, "online")
    BY <1>4, <2>2, <2>3, <2>4 DEF LinkStates
  <2> QED
    BY Zenon, <1>5, <2>5
<1>8. CASE Heartbeat(s)
  <2> DEFINE e == [type |-> "Heartbeat", server |-> s, socket |-> socket[s], at |-> clock]
  <2>1. e \in [type : {"Connected", "Heartbeat"}, server : Servers, socket : {0, 1}, at : Nat]
    BY <1>3
  <2>2. e \in Event
    BY Zenon, <2>1 DEF Event
  <2>3. e.type = "Heartbeat" /\ e.server = s /\ e.socket = socket[s]
    OBVIOUS
  <2>4. /\ link[s] = "online" /\ link' = link /\ socket' = socket
        /\ events' = Append(events, e)
    BY Zenon, <1>8 DEF Heartbeat, Send
  <2> HIDE DEF e
  <2>5. Sent(e, link[s])
    BY <1>4, <2>2, <2>3, <2>4 DEF LinkStates
  <2> QED
    BY Zenon, <1>5, <2>5
<1>9. ASSUME NEW error \in Errors, TunnelFailed(s, error)
      PROVE  \A t \in Servers : HeartbeatInv(t)'
  <2> DEFINE e == [type |-> "TunnelFailed", server |-> s, error |-> error, at |-> clock]
  <2>1. e \in [type : {"Disconnected", "TunnelFailed"}, server : Servers,
              error : Errors, at : Nat]
    BY <1>3
  <2>2. e \in Event
    BY Zenon, <2>1 DEF Event
  <2>3. e.type = "TunnelFailed" /\ e.server = s
    OBVIOUS
  <2>4. /\ socket' = socket
        /\ link' = [link EXCEPT ![s] = "down"]
        /\ events' = Append(events, e)
    BY Zenon, <1>9 DEF TunnelFailed, Send, Move
  <2> HIDE DEF e
  <2>5. Sent(e, "down")
    BY <1>4, <2>2, <2>3, <2>4 DEF LinkStates
  <2> QED
    BY Zenon, <1>5, <2>5
<1>10. ASSUME NEW error \in Errors, Disconnected(s, error)
       PROVE  \A t \in Servers : HeartbeatInv(t)'
  <2> DEFINE e == [type |-> "Disconnected", server |-> s, error |-> error, at |-> clock]
  <2>1. e \in [type : {"Disconnected", "TunnelFailed"}, server : Servers,
              error : Errors, at : Nat]
    BY <1>3
  <2>2. e \in Event
    BY Zenon, <2>1 DEF Event
  <2>3. e.type = "Disconnected" /\ e.server = s
    OBVIOUS
  <2>4. /\ socket' = socket
        /\ link' = [link EXCEPT ![s] = "up"]
        /\ events' = Append(events, e)
    BY Zenon, <1>10 DEF Disconnected, Send, Move
  <2> HIDE DEF e
  <2>5. Sent(e, "up")
    BY <1>4, <2>2, <2>3, <2>4 DEF LinkStates
  <2> QED
    BY Zenon, <1>5, <2>5
<1>11. ASSUME NEW total \in Reports, NEW added \in SUBSET Items, NEW removed \in SUBSET Items,
              Notification(s, total, added, removed)
       PROVE  \A t \in Servers : HeartbeatInv(t)'
  <2> DEFINE e == [type |-> "Notification", server |-> s, total |-> total, added |-> added,
                   removed |-> removed, at |-> clock]
  <2>1. e \in [type : {"Notification"}, server : Servers, total : Reports,
              added : SUBSET Items, removed : SUBSET Items, at : Nat]
    BY <1>3
  <2>2. e \in Event
    BY Zenon, <2>1 DEF Event
  <2>3. e.type = "Notification" /\ e.server = s
    OBVIOUS
  <2>4. /\ link[s] = "online" /\ link' = link /\ socket' = socket
        /\ events' = Append(events, e)
    BY Zenon, <1>11 DEF Notification, Send
  <2> HIDE DEF e
  <2>5. Sent(e, link[s])
    BY <1>4, <2>2, <2>3, <2>4 DEF LinkStates
  <2> QED
    BY Zenon, <1>5, <2>5
<1>12. CASE TunnelBreaks(s) \/ Stopped(s)
  <2>1. /\ UNCHANGED <<socket, events, servers>>
        /\ \A t \in Servers : link'[t] \in {"up", "down"} => link[t] \in {"up", "down"}
    BY <1>1, <1>3, <1>12 DEF TunnelBreaks, Stopped, Move
  <2>2. ASSUME NEW t \in Servers PROVE OfflinePhase(t)'
    <3>1. InPhase(events, t, ~servers[t].connected, {"Disconnected", "TunnelFailed"},
                  {"Connected"}, {"Connected"}, link[t] \in {"up", "down"})
      BY Zenon DEF HeartbeatInv, OfflinePhase
    <3>2. InPhase(events, t, ~servers[t].connected, {"Disconnected", "TunnelFailed"},
                  {"Connected"}, {"Connected"}, link'[t] \in {"up", "down"})
      BY Zenon, <2>1, <3>1 DEF InPhase
    <3> QED
      BY Zenon, <2>1, <3>2 DEF OfflinePhase
  <2> QED
    BY Zenon, <2>1, <2>2 DEF HeartbeatInv
<1> QED
  BY Zenon, <1>2, <1>6, <1>7, <1>8, <1>9, <1>10, <1>11, <1>12

\* What a handler does to the heartbeat of a server that is connected afterwards: a
\* Connected finds the server offline, and so forgets it.
LEMMA ReducedHeartbeat ==
  ASSUME Types, NEW e \in Event, reduce(e), NEW t \in Servers,
         Is(e, t, {"Connected"}) => ~servers[t].connected,
         servers'[t].connected, servers'[t].heartbeat # Absent
  PROVE  /\ ~Is(e, t, {"Connected"})
         /\ \/ Is(e, t, {"Heartbeat"}) /\ servers'[t].heartbeat = e.socket
            \/ servers[t].connected /\ servers'[t].heartbeat = servers[t].heartbeat
<1>1. e.server \in Servers /\ servers \in [Servers -> ServerState]
  BY Zenon, EventKinds DEF Types
<1>2. servers[t] \in ServerState /\ servers[e.server] \in ServerState
  BY Zenon, <1>1
<1>3. CASE e.type = "Connected"
  <2>1. connected(e.server)
    BY <1>3 DEF reduce
  <2>2. t # e.server
    BY Zenon, <1>1, <1>3, <2>1 DEF Is, connected, StatusChanged
  <2> QED
    BY Zenon, <1>1, <2>1, <2>2 DEF Is, connected
<1>4. CASE e.type \in {"Disconnected", "TunnelFailed"}
  <2>1. SetOffline(e.server)
    BY Zenon, <1>4 DEF reduce, disconnected, tunnel_failed
  <2>2. t # e.server
    BY <1>1, <1>2, <2>1 DEF SetOffline, ServerState
  <2> QED
    BY <1>1, <2>1, <2>2 DEF Is, SetOffline
<1>5. CASE e.type = "Heartbeat"
  <2>1. heartbeat(e.server, e.socket)
    BY <1>5 DEF reduce
  <2> QED
    BY <1>1, <1>2, <1>5, <2>1 DEF Is, heartbeat, ServerState
<1>6. CASE e.type \in {"TunnelReady", "Notification"}
  <2>1. servers' = servers
    BY Zenon, <1>6 DEF reduce, tunnel_ready, notification
  <2> QED
    BY <1>6, <2>1 DEF Is
<1> QED
  BY Zenon, <1>3, <1>4, <1>5, <1>6, EventKinds

\* And to a server's connection.
LEMMA ReducedOffline ==
  ASSUME Types, NEW e \in Event, reduce(e), NEW t \in Servers
  PROVE  /\ Is(e, t, {"Disconnected", "TunnelFailed"}) => ~servers'[t].connected
         /\ ~servers[t].connected /\ ~Is(e, t, {"Connected"}) => ~servers'[t].connected
<1>1. e.server \in Servers /\ servers \in [Servers -> ServerState]
  BY Zenon, EventKinds DEF Types
<1>2. servers[t] \in ServerState /\ servers[e.server] \in ServerState
  BY Zenon, <1>1
<1>3. CASE e.type = "Connected"
  <2>1. connected(e.server)
    BY <1>3 DEF reduce
  <2> QED
    BY <1>1, <1>3, <2>1 DEF Is, connected
<1>4. CASE e.type \in {"Disconnected", "TunnelFailed"}
  <2>1. SetOffline(e.server)
    BY Zenon, <1>4 DEF reduce, disconnected, tunnel_failed
  <2> QED
    BY <1>1, <1>2, <2>1 DEF Is, SetOffline, ServerState
<1>5. CASE e.type = "Heartbeat"
  <2>1. heartbeat(e.server, e.socket)
    BY <1>5 DEF reduce
  <2> QED
    BY <1>1, <1>2, <1>5, <2>1 DEF Is, heartbeat, ServerState
<1>6. CASE e.type \in {"TunnelReady", "Notification"}
  <2>1. servers' = servers
    BY Zenon, <1>6 DEF reduce, tunnel_ready, notification
  <2> QED
    BY <1>6, <2>1 DEF Is
<1> QED
  BY <1>3, <1>4, <1>5, <1>6, EventKinds

\* Handling an event keeps them so.
LEMMA EventKeepsHeartbeats ==
  ASSUME Types, HandleEvent, NEW t \in Servers, HeartbeatInv(t)
  PROVE  HeartbeatInv(t)'
<1> DEFINE e == Head(events)
<1>1. /\ events # <<>> /\ events' = Tail(events) /\ reduce(e) /\ e \in Event
      /\ events \in Seq(Event) /\ UNCHANGED <<clock, link, socket>>
  BY Zenon, Handled DEF Types
<1>2. /\ Len(events) \in Nat /\ Len(events) >= 1 /\ Len(events') = Len(events) - 1
      /\ \A j \in 1..(Len(events) - 1) : events'[j] = events[j + 1]
      /\ e = events[1]
  BY <1>1
<1>3. InPhase(events, t, ~servers[t].connected, {"Disconnected", "TunnelFailed"},
              {"Connected"}, {"Connected"}, link[t] \in {"up", "down"})
  BY Zenon DEF HeartbeatInv, OfflinePhase
<1>4. Is(e, t, {"Connected"}) => ~servers[t].connected
  BY Zenon, <1>1, <1>3, PhaseAtHead
<1>5. OfflinePhase(t)'
  <2>1. /\ Is(e, t, {"Disconnected", "TunnelFailed"}) => ~servers'[t].connected
        /\ ~servers[t].connected /\ ~Is(e, t, {"Connected"}) => ~servers'[t].connected
    BY Zenon, <1>1, ReducedOffline
  <2>2. InPhase(Tail(events), t, ~servers'[t].connected, {"Disconnected", "TunnelFailed"},
                {"Connected"}, {"Connected"}, link[t] \in {"up", "down"})
    BY Zenon, <1>1, <1>3, <2>1, PhaseTaken
  <2> QED
    BY Zenon, <1>1, <2>2 DEF OfflinePhase
<1>6. ASSUME NEW i \in 1..Len(events), NEW v, SocketAt(events, t, i, v, socket[t])
      PROVE  SocketAt(events', t, i - 1, v, socket'[t])
  BY Zenon, <1>1, <1>6, SocketTaken
<1>7. ASSUME NEW i \in 1..Len(events'), Is(events'[i], t, {"Heartbeat"})
      PROVE  SocketAt(events', t, i, events'[i].socket, socket'[t])
  <2>1. i + 1 \in 1..Len(events) /\ (i + 1) - 1 = i /\ events'[i] = events[i + 1]
    BY <1>2
  <2>2. SocketAt(events, t, i + 1, events[i + 1].socket, socket[t])
    BY Zenon, <1>7, <2>1 DEF HeartbeatInv
  <2>3. SocketAt(events', t, (i + 1) - 1, events[i + 1].socket, socket'[t])
    BY Zenon, <1>6, <2>1, <2>2
  <2> QED
    BY Zenon, <2>1, <2>3
<1>8. ASSUME servers'[t].connected, servers'[t].heartbeat # Absent
      PROVE  SocketAt(events', t, 0, servers'[t].heartbeat, socket'[t])
  <2>1. /\ ~Is(e, t, {"Connected"})
        /\ \/ Is(e, t, {"Heartbeat"}) /\ servers'[t].heartbeat = e.socket
           \/ servers[t].connected /\ servers'[t].heartbeat = servers[t].heartbeat
    BY Zenon, <1>1, <1>4, <1>8, ReducedHeartbeat
  <2>2. 1 \in 1..Len(events) /\ 1 - 1 = 0
    BY <1>2
  <2>3. SocketAt(events, t, 1, servers'[t].heartbeat, socket[t])
    <3>1. CASE Is(e, t, {"Heartbeat"}) /\ servers'[t].heartbeat = e.socket
      BY Zenon, <1>2, <2>2, <3>1 DEF HeartbeatInv
    <3>2. CASE servers[t].connected /\ servers'[t].heartbeat = servers[t].heartbeat
      <4>1. SocketAt(events, t, 0, servers'[t].heartbeat, socket[t])
        BY Zenon, <1>8, <3>2 DEF HeartbeatInv
      <4> QED
        BY Zenon, <1>1, <1>2, <2>1, <4>1, SocketPassed
    <3> QED
      BY Zenon, <2>1, <3>1, <3>2
  <2>4. SocketAt(events', t, 1 - 1, servers'[t].heartbeat, socket'[t])
    BY Zenon, <1>6, <2>2, <2>3
  <2> QED
    BY Zenon, <2>2, <2>4
<1> QED
  BY Zenon, <1>5, <1>7, <1>8 DEF HeartbeatInv

\* A process that has just started holds no heartbeat.
LEMMA HeartbeatFresh == FreshProcess => \A t \in Servers : HeartbeatInv(t)
<1> SUFFICES ASSUME FreshProcess, NEW t \in Servers PROVE HeartbeatInv(t)
  BY Zenon
<1>1. events = <<>> /\ ~servers[t].connected
  BY DEF FreshProcess, NewState
<1>2. OfflinePhase(t)
  BY Zenon, <1>1, PhaseEmpty DEF OfflinePhase
<1>3. \A i \in 1..Len(events) : FALSE
  BY <1>1
<1> QED
  BY Zenon, <1>1, <1>2, <1>3 DEF HeartbeatInv

\* The same of the next state.
LEMMA HeartbeatFreshNext == FreshProcess' => \A t \in Servers : HeartbeatInv(t)'
<1>1. (FreshProcess => \A t \in Servers : HeartbeatInv(t))'
  BY HeartbeatFresh, PTL
<1> QED
  BY <1>1

\* Every step keeps the heartbeats with their sockets.
LEMMA HeartbeatStep ==
  ASSUME LoopInv, \A t \in Servers : HeartbeatInv(t), [Next]_vars
  PROVE  \A t \in Servers : HeartbeatInv(t)'
<1>1. Types
  BY DEF LoopInv, OrderInv
<1>2. ASSUME UNCHANGED <<link, socket, events, servers>>
      PROVE  \A t \in Servers : HeartbeatInv(t)'
  BY Zenon, <1>2 DEF HeartbeatInv, OfflinePhase
<1>3. CASE Network
  BY <1>1, <1>3, NetworkKeepsHeartbeats
<1>4. CASE HandleEvent
  BY <1>1, <1>4, EventKeepsHeartbeats
<1>5. CASE HandleForgetStale
  BY Zenon, <1>1, <1>2, <1>5, Forgotten
<1>6. CASE Crash
  <2>1. clock' \in Nat
    BY <1>1, <1>6 DEF Types, Crash
  <2>2. FreshProcess'
    BY Zenon, <1>6, <2>1 DEF Crash, FreshProcess, NewState, NewLinks
  <2> QED
    BY Zenon, <2>2, HeartbeatFreshNext
<1>7. CASE \/ HandleSnooze \/ HandleUnsnooze \/ Tick \/ Write \/ Acknowledge \/ WriteFails
           \/ CooldownEnds \/ TimePasses \/ Click \/ UNCHANGED vars
  BY Zenon, <1>2, <1>7, QuietSteps DEF Quiet
<1> QED
  BY Zenon, <1>3, <1>4, <1>5, <1>6, <1>7 DEF Next

\* The heartbeat shown for a connected server was received on the socket the server is
\* connected by, however many connections come and go while events wait (reducer.rs,
\* connected).
THEOREM HeartbeatsAreOfThisSocket == Spec => []HeartbeatOfThisSocket
<1> DEFINE Inv == \A t \in Servers : HeartbeatInv(t)
<1>1. Init => Inv
  <2>1. Init => FreshProcess
    BY DEF Init, LinkInit, FreshProcess
  <2> QED
    BY Zenon, <2>1, HeartbeatFresh
<1>2. ASSUME LoopInv, Inv, [Next]_vars PROVE Inv'
  BY <1>2, HeartbeatStep
<1>3. LoopInv /\ Inv => HeartbeatOfThisSocket
  <2> DEFINE First(s) == CHOOSE i \in Behind(s) : \A j \in Behind(s) : i <= j
  <2> SUFFICES ASSUME LoopInv, Inv, NEW s \in Servers, servers[s].connected,
                      servers[s].heartbeat # Absent
               PROVE  servers[s].heartbeat =
                          IF Behind(s) = {} THEN socket[s] ELSE 1 - events[First(s)].socket
    BY Zenon DEF HeartbeatOfThisSocket
  <2>1. events \in Seq(Event)
    BY Zenon DEF LoopInv, OrderInv, Types
  <2>2. \A j : j \in Behind(s) <=> j \in (0 + 1)..Len(events) /\ Is(events[j], s, {"Connected"})
    BY <2>1 DEF Behind, Is
  <2>3. SocketAt(events, s, 0, servers[s].heartbeat, socket[s])
    BY Zenon DEF HeartbeatInv
  <2>4. CASE /\ servers[s].heartbeat = socket[s]
             /\ \A j \in (0 + 1)..Len(events) : ~Is(events[j], s, {"Connected"})
    BY Zenon, <2>2, <2>4
  <2>5. ASSUME NEW i \in (0 + 1)..Len(events), Is(events[i], s, {"Connected"}),
               servers[s].heartbeat = 1 - events[i].socket,
               \A k \in (0 + 1)..(i - 1) : ~Is(events[k], s, {"Connected"})
        PROVE  Behind(s) # {} /\ First(s) = i
    <3>1. \A k \in (0 + 1)..Len(events) : i <= k \/ k \in (0 + 1)..(i - 1)
      BY <2>1
    <3>2. i \in Behind(s) /\ \A k \in Behind(s) : i <= k
      BY Zenon, <2>2, <2>5, <3>1
    <3>3. \A j, k \in Behind(s) : j <= k /\ k <= j => j = k
      BY <2>1, <2>2
    <3> QED
      BY Zenon, <3>2, <3>3
  <2> QED
    BY Zenon, <2>3, <2>4, <2>5 DEF SocketAt
<1> QED
  BY <1>1, <1>2, <1>3, LoopInvariant, PTL DEF Spec
=============================================================================
