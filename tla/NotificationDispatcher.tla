----------------------- MODULE NotificationDispatcher -----------------------
(***************************************************************************)
(* The desktop notifications of montray-ui (notification.rs): a bounded    *)
(* queue, filled by the event loop without ever blocking it, and a worker  *)
(* thread that shows one notification after the other.                     *)
(*                                                                         *)
(* A notification is the number under which it was accepted.  What the     *)
(* desktop's notification service does with it is external: showing it may *)
(* take forever, fail, or panic.                                           *)
(***************************************************************************)
EXTENDS Naturals, Sequences

CONSTANTS
    NoticeCap,    \* capacity of the queue (32)
    MaxNotices    \* bound: how many notifications are accepted

VARIABLES
    notices,      \* the queue
    sender,       \* its producer's end: "open" or "closed"
    worker,       \* "recv", "push", "stopped", or "dead" after a panic
    accepted,     \* how many notifications were accepted (history)
    delivered,    \* those that were handed to the service (history)
    outcome       \* of shutdown: "none", "Stopped" or "Detached"

noticeVars == <<notices, sender, worker, accepted, delivered, outcome>>

\* Starting the worker thread may fail; there is no dispatcher then.
DispatcherInit ==
    /\ notices = <<>>
    /\ \/ sender = "open" /\ worker = "recv"
       \/ sender = "closed" /\ worker = "stopped"
    /\ accepted = 0
    /\ delivered = <<>>
    /\ outcome = "none"

Accept(queue) ==
    /\ notices' = Append(queue, accepted + 1)
    /\ accepted' = accepted + 1
    /\ UNCHANGED <<sender, worker, delivered, outcome>>

\* try_send: queued; dropped while the queue is full, or without a producer's end;
\* or the worker is gone, and the producer's end with it.
enqueue_inner ==
    \/ /\ sender = "open" /\ worker # "dead" /\ accepted < MaxNotices
       /\ Len(notices) < NoticeCap
       /\ Accept(notices)
    \/ /\ sender = "closed" \/ (worker # "dead" /\ Len(notices) = NoticeCap)
       /\ UNCHANGED noticeVars
    \/ /\ sender = "open" /\ worker = "dead"
       /\ sender' = "closed"
       /\ UNCHANGED <<notices, worker, accepted, delivered, outcome>>

\* Mutant of WorkerTakes: the newest notification is shown first.
TakesNewest ==
    /\ worker = "recv" /\ notices # <<>>
    /\ worker' = "push"
    /\ notices' = SubSeq(notices, 1, Len(notices) - 1)
    /\ delivered' = Append(delivered, notices[Len(notices)])
    /\ UNCHANGED <<sender, accepted, outcome>>

\* recv: the oldest notification is handed to the service.
WorkerTakes ==
    /\ worker = "recv" /\ notices # <<>>
    /\ worker' = "push"
    /\ notices' = Tail(notices)
    /\ delivered' = Append(delivered, Head(notices))
    /\ UNCHANGED <<sender, accepted, outcome>>

\* The service answers, with an error perhaps (logged).
WorkerReturns ==
    /\ worker = "push"
    /\ worker' = "recv"
    /\ UNCHANGED <<notices, sender, accepted, delivered, outcome>>

WorkerPanics ==
    /\ worker = "push"
    /\ worker' = "dead"
    /\ notices' = <<>>
    /\ UNCHANGED <<sender, accepted, delivered, outcome>>

\* recv fails once the queue is closed and empty.
WorkerStops ==
    /\ worker = "recv" /\ sender = "closed" /\ notices = <<>>
    /\ worker' = "stopped"
    /\ UNCHANGED <<notices, sender, accepted, delivered, outcome>>

WorkerStep == WorkerTakes \/ WorkerReturns \/ WorkerPanics \/ WorkerStops

\* shutdown_with_timeout closes the queue,
CloseQueue ==
    /\ sender' = "closed"
    /\ UNCHANGED <<notices, worker, accepted, delivered, outcome>>

\* and waits for the worker, but no longer than 2 s.
AwaitWorker ==
    /\ \/ worker \in {"stopped", "dead"} /\ outcome' = "Stopped"
       \/ worker \in {"recv", "push"} /\ outcome' = "Detached"
    /\ UNCHANGED <<notices, sender, worker, accepted, delivered>>
=============================================================================
