---------------------------- MODULE StartupProofs ----------------------------
(***************************************************************************)
(* NewCore leaves all or nothing running, for any configuration.  The      *)
(* inductive invariant says how far each of its four loops has come, and   *)
(* that a collector ends only once its Close has been called.              *)
(***************************************************************************)
EXTENDS Startup, TLAPS

Collectors == 1..MaxCollectors
Messengers == 1..MaxMessengers

Types ==
    /\ ids \in Seq(ID) /\ Len(ids) <= MaxCollectors
    /\ messengers \in 0..MaxMessengers
    /\ pc \in {"collectors", "messengers", "undoMessengers", "undoCollectors", "started",
               "failed"}
    /\ idx \in Nat \ {0}
    /\ created \in 0..Len(ids)
    /\ coll \in [Collectors -> {"none", "idle", "sending", "stopped"}]
    /\ teardown \subseteq Collectors
    /\ mess \in [Messengers -> {"none", "running", "closing", "down"}]

\* The collectors: those created so far run until they are torn down.
CollectorsInv ==
    /\ \A c \in Collectors : coll[c] = "none" <=> c > created
    /\ \A c \in Collectors : coll[c] = "stopped" => c \in teardown
    /\ pc \in {"collectors", "messengers", "undoMessengers", "started"} => teardown = {}
    /\ \A i, j \in 1..created : ids[i] = ids[j] => i = j
    /\ pc = "collectors" => idx = created + 1
    /\ pc \in {"messengers", "started"} => created = Len(ids)
    /\ pc = "undoCollectors" => idx <= created + 1 /\ \A c \in 1..(idx - 1) : coll[c] = "stopped"
    /\ pc = "failed" => \A c \in Collectors : coll[c] \in {"none", "stopped"}

\* The messengers: those created come first, and are closed in the same order.
MessengersInv ==
    /\ pc = "collectors" => \A m \in Messengers : mess[m] = "none"
    /\ pc = "messengers" =>
        /\ idx <= messengers + 1
        /\ \A m \in Messengers : mess[m] = IF m < idx THEN "running" ELSE "none"
    /\ pc = "started" => \A m \in 1..messengers : mess[m] = "running"
    /\ pc = "undoMessengers" =>
        /\ idx <= messengers /\ mess[messengers] = "none"
        /\ \A m \in 1..(idx - 1) : mess[m] = "down"
        /\ \A m, k \in Messengers : mess[m] = "none" /\ m <= k => mess[k] = "none"
    /\ pc \in {"undoCollectors", "failed"} => \A m \in Messengers : mess[m] \in {"none", "down"}

StartInv == Types /\ CollectorsInv /\ MessengersInv

USE StartupAssumption DEF Collectors, Messengers

\* NewCore has created nothing.
LEMMA StartInit == Init => StartInv
<1> SUFFICES ASSUME Init PROVE StartInv
  OBVIOUS
<1>1. PICK n \in 0..MaxCollectors : ids \in [1..n -> ID]
  BY Zenon DEF Init
<1>2. ids \in Seq(ID) /\ Len(ids) = n
  BY <1>1
<1> QED
  BY <1>2 DEF Init, StartInv, Types, CollectorsInv, MessengersInv

\* Steps of createCollectors.
LEMMA CollectorSteps ==
  ASSUME StartInv, CreateCollector \/ CollectorFails \/ CollectorsCreated
  PROVE  StartInv'
<1> USE DEF StartInv, Types, CollectorsInv, MessengersInv
<1>1. CASE CreateCollector
  <2>1. /\ pc = "collectors" /\ idx <= Len(ids) /\ idx = created + 1
        /\ coll' = [coll EXCEPT ![idx] = "idle"] /\ created' = idx /\ idx' = idx + 1
        /\ UNCHANGED <<ids, messengers, pc, teardown, mess, buffered>>
    BY <1>1 DEF CreateCollector
  <2>2. \A i \in 1..created : ids[i] # ids[idx]
    BY <1>1, <2>1 DEF CreateCollector, Duplicate
  <2>3. \A i, j \in 1..created' : ids[i] = ids[j] => i = j
    BY <2>1, <2>2
  <2>4. Types'
    BY <2>1
  <2>5. CollectorsInv'
    BY <2>1, <2>3
  <2>6. MessengersInv'
    BY <2>1
  <2> QED
    BY Zenon, <2>4, <2>5, <2>6
<1>2. CASE CollectorFails
  BY <1>2 DEF CollectorFails
<1>3. CASE CollectorsCreated
  BY <1>3 DEF CollectorsCreated
<1> QED
  BY Zenon, <1>1, <1>2, <1>3

\* Steps of createMessengers and of its rollback.
LEMMA MessengerSteps ==
  ASSUME StartInv, CreateMessenger \/ MessengerFails \/ UndoMessenger \/ MessengersUndone
  PROVE  StartInv'
<1> USE DEF StartInv, Types, CollectorsInv, MessengersInv
<1>1. CASE CreateMessenger
  BY <1>1 DEF CreateMessenger
<1>2. CASE MessengerFails
  BY <1>2 DEF MessengerFails
<1>3. CASE UndoMessenger
  <2>1. /\ pc = "undoMessengers" /\ idx <= messengers
        /\ UNCHANGED <<ids, messengers, pc, created, coll, teardown>>
        /\ \/ mess[idx] = "running" /\ mess' = [mess EXCEPT ![idx] = "closing"] /\ idx' = idx
           \/ mess[idx] = "down" /\ idx' = idx + 1 /\ mess' = mess
    BY Zenon, <1>3 DEF UndoMessenger
  <2>2. CASE mess[idx] = "running" /\ mess' = [mess EXCEPT ![idx] = "closing"] /\ idx' = idx
    <3>1. idx \in Messengers /\ idx # messengers
      BY <2>1, <2>2
    <3>2. mess' \in [Messengers -> {"none", "running", "closing", "down"}]
      BY <2>2, <3>1
    <3>3. \A m \in Messengers : mess'[m] = "none" <=> mess[m] = "none"
      BY <2>2, <3>1
    <3>4. \A m \in Messengers : m # idx => mess'[m] = mess[m]
      BY <2>2
    <3>5. Types'
      BY <2>1, <2>2, <3>2
    <3>6. CollectorsInv'
      BY <2>1
    <3>7. MessengersInv'
      BY <2>1, <2>2, <3>1, <3>3, <3>4
    <3> QED
      BY Zenon, <3>5, <3>6, <3>7
  <2>3. CASE mess[idx] = "down" /\ idx' = idx + 1 /\ mess' = mess
    <3>1. Types'
      BY <2>1, <2>3
    <3>2. CollectorsInv'
      BY <2>1
    <3>3. MessengersInv'
      BY <2>1, <2>3
    <3> QED
      BY Zenon, <3>1, <3>2, <3>3
  <2> QED
    BY Zenon, <2>1, <2>2, <2>3
<1>4. CASE MessengersUndone
  <2>1. \A m \in Messengers : mess[m] \in {"none", "down"}
    BY <1>4 DEF MessengersUndone
  <2> QED
    BY <1>4, <2>1 DEF MessengersUndone
<1> QED
  BY Zenon, <1>1, <1>2, <1>3, <1>4

\* The rollback of the collectors, and the ends of NewCore.
LEMMA EndSteps ==
  ASSUME StartInv, UndoCollector \/ Fail \/ Start
  PROVE  StartInv'
<1> USE DEF StartInv, Types, CollectorsInv, MessengersInv
<1>1. CASE UndoCollector
  <2>1. /\ pc = "undoCollectors" /\ idx <= created
        /\ UNCHANGED <<ids, messengers, pc, created, coll, mess>>
        /\ \/ teardown' = teardown \cup {idx} /\ UNCHANGED idx
           \/ coll[idx] = "stopped" /\ idx' = idx + 1 /\ UNCHANGED teardown
    BY <1>1 DEF UndoCollector
  <2>2. Types'
    <3>1. idx \in Collectors /\ idx' \in Nat \ {0}
      BY <2>1
    <3>2. teardown' \subseteq Collectors
      <4>1. CASE teardown' = teardown \cup {idx}
        BY Zenon, <3>1, <4>1
      <4> QED
        BY Zenon, <2>1, <4>1
    <3> QED
      BY <2>1, <3>1, <3>2
  <2>3. CollectorsInv'
    BY <2>1
  <2>4. MessengersInv'
    BY <2>1
  <2> QED
    BY Zenon, <2>2, <2>3, <2>4
<1>2. CASE Fail
  BY <1>2 DEF Fail
<1>3. CASE Start
  BY <1>3 DEF Start
<1> QED
  BY Zenon, <1>1, <1>2, <1>3

\* What goes on meanwhile.
LEMMA OtherSteps ==
  ASSUME StartInv,
         \/ \E c \in Collectors : CollectorObserve(c) \/ CollectorSend(c) \/ CollectorStop(c)
         \/ \E m \in Messengers : MessengerTearDown(m)
         \/ RunReceive
         \/ UNCHANGED vars
  PROVE  StartInv'
<1> USE DEF StartInv, Types, CollectorsInv, MessengersInv
<1>1. ASSUME NEW c \in Collectors, CollectorObserve(c) \/ CollectorSend(c) \/ CollectorStop(c)
      PROVE  StartInv'
  <2>1. PICK new \in {"idle", "sending", "stopped"} :
          /\ coll[c] \in {"idle", "sending"} /\ coll' = [coll EXCEPT ![c] = new]
          /\ new = "stopped" => c \in teardown
          /\ UNCHANGED <<ids, messengers, pc, idx, created, teardown, mess>>
    BY <1>1 DEF CollectorObserve, CollectorSend, CollectorStop
  <2>2. Types'
    BY <2>1
  <2>3. CollectorsInv'
    BY <2>1
  <2>4. MessengersInv'
    BY <2>1
  <2> QED
    BY Zenon, <2>2, <2>3, <2>4
<1>2. ASSUME NEW m \in Messengers, MessengerTearDown(m) PROVE StartInv'
  <2>1. /\ mess[m] = "closing" /\ mess' = [mess EXCEPT ![m] = "down"]
        /\ UNCHANGED <<ids, messengers, pc, idx, created, coll, teardown>>
    BY Zenon, <1>2 DEF MessengerTearDown
  <2>2. Types'
    BY <2>1
  <2>3. CollectorsInv'
    BY <2>1
  <2>4. MessengersInv'
    BY <2>1
  <2> QED
    BY Zenon, <2>2, <2>3, <2>4
<1>3. CASE RunReceive \/ UNCHANGED vars
  <2>1. UNCHANGED <<ids, messengers, pc, idx, created, coll, teardown, mess>>
    BY Zenon, <1>3 DEF RunReceive, vars
  <2> QED
    BY <2>1
<1> QED
  BY Zenon, <1>1, <1>2, <1>3

\* When NewCore returns an error, every collector and messenger it had started has ended;
\* when it returns a core, all configured ones run, under distinct collector IDs (core.go,
\* NewCore, createCollectors, createMessengers).
THEOREM NewCoreIsAllOrNothing == Spec => []AllOrNothing
<1>1. Init => StartInv
  BY StartInit
<1>2. StartInv /\ [Next]_vars => StartInv'
  BY CollectorSteps, MessengerSteps, EndSteps, OtherSteps DEF Next, NewCoreStep
<1>3. StartInv => AllOrNothing
  BY DEF StartInv, Types, CollectorsInv, MessengersInv, AllOrNothing
<1> QED
  BY <1>1, <1>2, <1>3, PTL DEF Spec
=============================================================================
