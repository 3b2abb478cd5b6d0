------------------------------- MODULE Startup -------------------------------
(***************************************************************************)
(* backend/core: NewCore creates the collectors and then the messengers in *)
(* configuration order, and takes back what it has started when one of     *)
(* them cannot be created.                                                 *)
(*                                                                         *)
(* A collector runs from the moment it is created, so collectors send to   *)
(* updCh while nobody receives from it yet.                                *)
(***************************************************************************)
EXTENDS Naturals, Sequences

CONSTANTS
    ID,               \* collector IDs
    MaxCollectors,    \* bound: the number of collectors configured
    MaxMessengers,    \* bound: the number of messengers configured
    UpdCap            \* capacity of updCh (16)

ASSUME StartupAssumption ==
    /\ MaxCollectors \in Nat
    /\ MaxMessengers \in Nat
    /\ UpdCap \in Nat \ {0}

VARIABLES
    ids,        \* the IDs of cfg.Collectors, in order
    messengers, \* the number of entries of cfg.Messengers
    pc,         \* NewCore: "collectors", "messengers", "undoMessengers",
                \* "undoCollectors", "started" or "failed"
    idx,        \* the entry it is working on
    created,    \* collectors created and not rolled back yet: 1..created
    coll,       \* per collector: "none", "idle", "sending" or "stopped"
    teardown,   \* collectors whose Close has been called
    mess,       \* per messenger: "none", "running", "closing" or "down"
    buffered    \* updates in updCh

vars == <<ids, messengers, pc, idx, created, coll, teardown, mess, buffered>>

Init ==
    /\ \E n \in 0..MaxCollectors : ids \in [1..n -> ID]
    /\ messengers \in 0..MaxMessengers
    /\ pc = "collectors"
    /\ idx = 1
    /\ created = 0
    /\ coll = [c \in 1..MaxCollectors |-> "none"]
    /\ teardown = {}
    /\ mess = [m \in 1..MaxMessengers |-> "none"]
    /\ buffered = 0

-----------------------------------------------------------------------------
(* createCollectors.                                                       *)

Duplicate == \E i \in 1..(idx - 1) : ids[i] = ids[idx]

CreateCollector ==
    /\ pc = "collectors"
    /\ idx <= Len(ids)
    /\ ~Duplicate
    /\ coll' = [coll EXCEPT ![idx] = "idle"]
    /\ created' = idx
    /\ idx' = idx + 1
    /\ UNCHANGED <<ids, messengers, pc, teardown, mess, buffered>>

\* A duplicate ID, or createCollector fails (a bad ID, the wrong number of
\* types, an invalid configuration, no systemd): roll back.
CollectorFails ==
    /\ pc = "collectors"
    /\ idx <= Len(ids)
    /\ pc' = "undoCollectors"
    /\ idx' = 1
    /\ UNCHANGED <<ids, messengers, created, coll, teardown, mess, buffered>>

CollectorsCreated ==
    /\ pc = "collectors"
    /\ idx > Len(ids)
    /\ pc' = "messengers"
    /\ idx' = 1
    /\ UNCHANGED <<ids, messengers, created, coll, teardown, mess, buffered>>

-----------------------------------------------------------------------------
(* createMessengers.                                                       *)

CreateMessenger ==
    /\ pc = "messengers"
    /\ idx <= messengers
    /\ mess' = [mess EXCEPT ![idx] = "running"]
    /\ idx' = idx + 1
    /\ UNCHANGED <<ids, messengers, pc, created, coll, teardown, buffered>>

\* Mutant of MessengerFails: NewCore forgets the collectors.
MessengerFailsOnly ==
    /\ pc = "messengers"
    /\ idx <= messengers
    /\ pc' = "undoMessengers"
    /\ idx' = 1
    /\ created' = 0
    /\ UNCHANGED <<ids, messengers, coll, teardown, mess, buffered>>

MessengerFails ==
    /\ pc = "messengers"
    /\ idx <= messengers
    /\ pc' = "undoMessengers"
    /\ idx' = 1
    /\ UNCHANGED <<ids, messengers, created, coll, teardown, mess, buffered>>

\* close(notificationsChan) of one created messenger, then <-tornDown.
UndoMessenger ==
    /\ pc = "undoMessengers"
    /\ idx <= messengers
    /\ \/ /\ mess[idx] = "running"
          /\ mess' = [mess EXCEPT ![idx] = "closing"]
          /\ UNCHANGED idx
       \/ /\ mess[idx] = "down"
          /\ idx' = idx + 1
          /\ UNCHANGED mess
    /\ UNCHANGED <<ids, messengers, pc, created, coll, teardown, buffered>>

MessengersUndone ==
    /\ pc = "undoMessengers"
    /\ mess[idx] = "none"
    /\ pc' = "undoCollectors"
    /\ idx' = 1
    /\ UNCHANGED <<ids, messengers, created, coll, teardown, mess, buffered>>

\* collector.Close() of one collector: close its teardown, wait for it.
UndoCollector ==
    /\ pc = "undoCollectors"
    /\ idx <= created
    /\ \/ /\ idx \notin teardown
          /\ teardown' = teardown \cup {idx}
          /\ UNCHANGED idx
       \/ /\ idx \in teardown
          /\ coll[idx] = "stopped"
          /\ idx' = idx + 1
          /\ UNCHANGED teardown
    /\ UNCHANGED <<ids, messengers, pc, created, coll, mess, buffered>>

\* NewCore returns an error ...
Fail ==
    /\ pc = "undoCollectors"
    /\ idx > created
    /\ pc' = "failed"
    /\ UNCHANGED <<ids, messengers, idx, created, coll, teardown, mess, buffered>>

\* ... or starts the run goroutine and returns the core.
Start ==
    /\ pc = "messengers"
    /\ idx > messengers
    /\ pc' = "started"
    /\ UNCHANGED <<ids, messengers, idx, created, coll, teardown, mess, buffered>>

-----------------------------------------------------------------------------
(* The collectors, the messengers and the run goroutine meanwhile.         *)

CollectorObserve(c) ==
    /\ coll[c] = "idle"
    /\ coll' = [coll EXCEPT ![c] = "sending"]
    /\ UNCHANGED <<ids, messengers, pc, idx, created, teardown, mess, buffered>>

CollectorSend(c) ==
    /\ coll[c] = "sending"
    /\ buffered < UpdCap
    /\ buffered' = buffered + 1
    /\ coll' = [coll EXCEPT ![c] = "idle"]
    /\ UNCHANGED <<ids, messengers, pc, idx, created, teardown, mess>>

\* Mutant of CollectorStop: a send that sees the teardown is tried again.
CollectorStopRetries(c) ==
    /\ coll[c] \in {"idle", "sending"}
    /\ c \in teardown
    /\ coll' = [coll EXCEPT ![c] = IF @ = "idle" THEN "stopped" ELSE "sending"]
    /\ UNCHANGED <<ids, messengers, pc, idx, created, teardown, mess, buffered>>

CollectorStop(c) ==
    /\ coll[c] \in {"idle", "sending"}
    /\ c \in teardown
    /\ coll' = [coll EXCEPT ![c] = "stopped"]
    /\ UNCHANGED <<ids, messengers, pc, idx, created, teardown, mess, buffered>>

MessengerTearDown(m) ==
    /\ mess[m] = "closing"
    /\ mess' = [mess EXCEPT ![m] = "down"]
    /\ UNCHANGED <<ids, messengers, pc, idx, created, coll, teardown, buffered>>

RunReceive ==
    /\ pc = "started"
    /\ buffered > 0
    /\ buffered' = buffered - 1
    /\ UNCHANGED <<ids, messengers, pc, idx, created, coll, teardown, mess>>

NewCoreStep ==
    \/ CreateCollector \/ CollectorFails \/ CollectorsCreated
    \/ CreateMessenger \/ MessengerFails
    \/ UndoMessenger \/ MessengersUndone \/ UndoCollector
    \/ Fail \/ Start

Next ==
    \/ NewCoreStep
    \/ \E c \in 1..MaxCollectors :
            CollectorObserve(c) \/ CollectorSend(c) \/ CollectorStop(c)
    \/ \E m \in 1..MaxMessengers : MessengerTearDown(m)
    \/ RunReceive
    \/ pc \in {"started", "failed"} /\ UNCHANGED vars   \* serving, or the process exits

\* Goroutines that can run do run; a collector need not observe anything.
Spec ==
    /\ Init /\ [][Next]_vars
    /\ WF_vars(NewCoreStep)
    /\ \A c \in 1..MaxCollectors : WF_vars(CollectorSend(c) \/ CollectorStop(c))
    /\ \A c \in 1..MaxCollectors : SF_vars(CollectorStop(c))
    /\ \A m \in 1..MaxMessengers : WF_vars(MessengerTearDown(m))

-----------------------------------------------------------------------------
\* NewCore leaves all or nothing running: when it returns an error, every
\* collector and messenger it had started has ended, and when it returns a
\* core, all configured ones are running, under distinct collector IDs.
AllOrNothing ==
    /\ pc = "failed" =>
        /\ \A c \in DOMAIN coll : coll[c] \in {"none", "stopped"}
        /\ \A m \in DOMAIN mess : mess[m] \in {"none", "down"}
    /\ pc = "started" =>
        /\ \A c \in 1..Len(ids) : coll[c] \in {"idle", "sending"}
        /\ \A m \in 1..messengers : mess[m] = "running"
        /\ \A i, j \in 1..Len(ids) : ids[i] = ids[j] => i = j

\* NewCore returns, also when it has to close a collector that is blocked on
\* an updCh nobody receives from.
NewCoreReturns == <>(pc \in {"started", "failed"})
=============================================================================
