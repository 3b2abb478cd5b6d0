----------------------------- MODULE ExecProofs -----------------------------
(***************************************************************************)
(* The exec collector keeps its times, for any intervals, timeout and      *)
(* conditions, and whatever the command does.                              *)
(*                                                                         *)
(* The inductive invariant counts ticks: what is left of the deadline and  *)
(* the time since the command was started make up the timeout, and a       *)
(* ticker that has not ticked since then will do so within its interval.   *)
(***************************************************************************)
EXTENDS ExecCollector, TLAPS

Ticker(interval) == [left : 1..interval, ready : BOOLEAN]

Types ==
    /\ normal \in Ticker(PollInterval)
    /\ unhealthy \in Ticker(PollIntervalWhenUnhealthy)
    /\ pc \in {"start", "drain", "wait", "send", "idle", "done"}
    /\ deadline \in 0..Timeout
    /\ sinceStart \in Nat

\* While the command runs, its deadline has not passed or its context is done.
Bounded ==
    pc \in {"drain", "wait"} =>
        /\ sinceStart <= Timeout
        /\ ctxErr = None => deadline > 0 /\ deadline + sinceStart = Timeout

\* A ticker that holds no tick gets one within its interval of the start.
WillTick(ticker, interval) == ~ticker.ready => sinceStart + ticker.left <= interval

Timely ==
    /\ pc # "start" => /\ WillTick(normal, PollInterval)
                       /\ WillTick(unhealthy, PollIntervalWhenUnhealthy)
    /\ pc = "send" /\ ~stalled => sinceStart <= Timeout
    /\ pc \in {"idle", "start"} /\ ~stalled => sinceStart <= Interval(lastItemResult)

ExecInv == Types /\ Bounded /\ Timely

\* Nothing has been started, and the tickers have just been created.
LEMMA ExecInit == Init => ExecInv
  BY ExecAssumption DEF Init, ExecInv, Types, Bounded, Timely, Ticker, Interval

\* A ticker counts down, or ticks and starts again.
LEMMA Advanced ==
  ASSUME NEW interval \in Nat \ {0}, NEW t \in Ticker(interval)
  PROVE  /\ Advance(t, interval) \in Ticker(interval)
         /\ t.ready => Advance(t, interval).ready
         /\ ~Advance(t, interval).ready => ~t.ready /\ Advance(t, interval).left = t.left - 1
<1>1. t.left \in 1..interval /\ t.ready \in BOOLEAN
      /\ t = [left |-> t.left, ready |-> t.ready]
  BY DEF Ticker
<1>2. CASE t.left = 1
  BY <1>2 DEF Advance, Ticker
<1>3. CASE t.left # 1
  <2>1. Advance(t, interval) = [left |-> t.left - 1, ready |-> t.ready]
    BY <1>1, <1>3 DEF Advance
  <2> QED
    BY <1>1, <1>3, <2>1 DEF Ticker
<1> QED
  BY <1>2, <1>3

\* Time passes only while run waits for the command, for the core or for a tick.
LEMMA TickWaits ==
  ASSUME Types, Tick
  PROVE  /\ pc \in {"drain", "wait", "send", "idle"}
         /\ pc \in {"drain", "wait"} => ctxErr = None
         /\ pc = "idle" => ~CurrentTicker.ready
  BY Zenon DEF Types, Tick, Busy, StdoutDone

\* A tick.
LEMMA TickStep ==
  ASSUME ExecInv, Tick
  PROVE  ExecInv'
<1>1. Types /\ Bounded /\ Timely
  BY Zenon DEF ExecInv
<1>2. /\ normal' = Advance(normal, PollInterval)
      /\ unhealthy' = Advance(unhealthy, PollIntervalWhenUnhealthy)
      /\ deadline' = IF deadline = 0 THEN 0 ELSE deadline - 1
      /\ ctxErr' = IF deadline = 1 /\ ctxErr = None THEN "deadline" ELSE ctxErr
      /\ sinceStart' = IF sinceStart > PollInterval + PollIntervalWhenUnhealthy
                       THEN sinceStart ELSE sinceStart + 1
      /\ stalled' = (stalled \/ pc = "send")
      /\ pc' = pc /\ lastItemResult' = lastItemResult
  BY Zenon DEF Tick, resultVars
<1>3. /\ PollInterval \in Nat \ {0} /\ PollIntervalWhenUnhealthy \in Nat \ {0}
      /\ Timeout \in Nat /\ Timeout <= PollInterval /\ Timeout <= PollIntervalWhenUnhealthy
  BY ExecAssumption
<1>4. /\ normal \in Ticker(PollInterval) /\ unhealthy \in Ticker(PollIntervalWhenUnhealthy)
      /\ deadline \in 0..Timeout /\ sinceStart \in Nat
  BY Zenon, <1>1 DEF Types
<1>5. sinceStart' \in {sinceStart, sinceStart + 1} /\ sinceStart' \in Nat
  BY <1>2, <1>4
<1>6. Types'
  <2>1. normal' \in Ticker(PollInterval) /\ unhealthy' \in Ticker(PollIntervalWhenUnhealthy)
    BY Zenon, <1>2, <1>3, <1>4, Advanced
  <2>2. deadline' \in 0..Timeout
    BY <1>2, <1>3, <1>4
  <2> QED
    BY Zenon, <1>1, <1>2, <1>5, <2>1, <2>2 DEF Types
<1>7. Bounded'
  <2>1. SUFFICES ASSUME pc \in {"drain", "wait"}
                 PROVE  /\ sinceStart' <= Timeout
                        /\ ctxErr' = None => deadline' > 0 /\ deadline' + sinceStart' = Timeout
    BY Zenon, <1>2 DEF Bounded
  <2>2. ctxErr = None
    BY Zenon, <1>1, <2>1, TickWaits
  <2>3. deadline > 0 /\ deadline + sinceStart = Timeout
    BY Zenon, <1>1, <2>1, <2>2 DEF Bounded
  <2>4. sinceStart' = sinceStart + 1 /\ deadline' = deadline - 1
    BY <1>2, <1>3, <1>4, <2>3
  <2>5. sinceStart' <= Timeout /\ deadline' + sinceStart' = Timeout
    BY <1>3, <1>4, <2>3, <2>4
  <2>6. CASE deadline = 1
    <3>1. ctxErr' # None
      BY <1>2, <2>2, <2>6, ExecAssumption
    <3> QED
      BY Zenon, <2>5, <3>1
  <2>7. CASE deadline # 1
    BY <1>4, <2>3, <2>4, <2>5, <2>7
  <2> QED
    BY Zenon, <2>6, <2>7
<1>8. ASSUME NEW interval \in Nat \ {0}, NEW t \in Ticker(interval), WillTick(t, interval)
      PROVE  ~Advance(t, interval).ready => sinceStart' + Advance(t, interval).left <= interval
  <2>1. SUFFICES ASSUME ~Advance(t, interval).ready
                 PROVE  sinceStart' + Advance(t, interval).left <= interval
    OBVIOUS
  <2>2. ~t.ready /\ Advance(t, interval).left = t.left - 1
    BY Zenon, <2>1, <1>8, Advanced
  <2>3. t.left \in 1..interval
    BY DEF Ticker
  <2>4. sinceStart + t.left <= interval
    BY Zenon, <1>8, <2>2 DEF WillTick
  <2> QED
    BY <1>4, <1>5, <2>2, <2>3, <2>4
<1>9. Timely'
  <2>1. pc \in {"drain", "wait", "send", "idle"}
    BY Zenon, <1>1, TickWaits
  <2>2. pc # "start"
    BY <2>1
  <2>3. WillTick(normal, PollInterval) /\ WillTick(unhealthy, PollIntervalWhenUnhealthy)
    BY Zenon, <1>1, <2>2 DEF Timely
  <2>4. /\ WillTick(normal, PollInterval)'
        /\ WillTick(unhealthy, PollIntervalWhenUnhealthy)'
    BY Zenon, <1>2, <1>3, <1>4, <1>8, <2>3 DEF WillTick
  <2>5. pc' = "send" /\ ~stalled' => sinceStart' <= Timeout
    BY Zenon, <1>2
  <2>6. ASSUME pc = "idle", ~stalled
        PROVE  sinceStart' <= Interval(lastItemResult)
    <3>1. ~CurrentTicker.ready
      BY Zenon, <1>1, <2>6, TickWaits
    <3>2. CASE lastItemResult = OK
      <4>1. sinceStart + normal.left <= PollInterval /\ normal.left \in 1..PollInterval
        BY <1>4, <2>3, <3>1, <3>2 DEF CurrentTicker, WillTick, Ticker
      <4> QED
        BY <1>3, <1>4, <1>5, <3>2, <4>1 DEF Interval
    <3>3. CASE lastItemResult # OK
      <4>1. /\ sinceStart + unhealthy.left <= PollIntervalWhenUnhealthy
            /\ unhealthy.left \in 1..PollIntervalWhenUnhealthy
        BY <1>4, <2>3, <3>1, <3>3 DEF CurrentTicker, WillTick, Ticker
      <4> QED
        BY <1>3, <1>4, <1>5, <3>3, <4>1 DEF Interval
    <3> QED
      BY Zenon, <3>2, <3>3
  <2>7. pc' \in {"idle", "start"} /\ ~stalled' => sinceStart' <= Interval(lastItemResult')
    BY Zenon, <1>2, <2>2, <2>6
  <2> QED
    BY Zenon, <2>4, <2>5, <2>7 DEF Timely, Interval
<1> QED
  BY Zenon, <1>6, <1>7, <1>9 DEF ExecInv

\* A command starts, or cannot be started.
LEMMA StartStep ==
  ASSUME ExecInv, StartCommand \/ StartFails
  PROVE  ExecInv'
<1>1. /\ sinceStart' = 0 /\ stalled' = FALSE /\ UNCHANGED <<normal, unhealthy>>
      /\ \/ pc' = "drain" /\ ctxErr' = None /\ deadline' = Timeout
         \/ pc' = "send" /\ UNCHANGED deadline
  BY Zenon DEF StartCommand, StartFails, commandVars
<1>2. Types
  BY Zenon DEF ExecInv
<1>3. Types'
  BY <1>1, <1>2, ExecAssumption DEF Types
<1>4. normal.left <= PollInterval /\ unhealthy.left <= PollIntervalWhenUnhealthy
      /\ normal.left \in Nat /\ unhealthy.left \in Nat
  BY <1>2, ExecAssumption DEF Types, Ticker
<1>5. Bounded'
  BY <1>1, ExecAssumption DEF Bounded
<1>6. Timely'
  BY <1>1, <1>4, ExecAssumption DEF Timely, WillTick
<1> QED
  BY Zenon, <1>3, <1>5, <1>6 DEF ExecInv

\* The steps of run after the start and of the command, and Close: no time passes.
LEMMA TimelessStep ==
  ASSUME ExecInv,
         \/ DrainStdout \/ WaitReturns \/ SendUpdate \/ Stop
         \/ ProcessExits \/ StdoutCloses \/ KillProcess \/ CoreReceive
         \/ CloseCancel \/ CloseTeardown \/ CloseReturn \/ UNCHANGED vars
  PROVE  ExecInv'
<1>1. /\ UNCHANGED <<normal, unhealthy, sinceStart, stalled>>
      /\ \/ UNCHANGED <<pc, deadline, ctxErr, lastItemResult>>
         \/ pc = "drain" /\ pc' = "wait" /\ UNCHANGED <<deadline, ctxErr>>
         \/ pc = "wait" /\ pc' = "send" /\ deadline' = 0
         \/ pc = "send" /\ pc' = "idle" /\ UNCHANGED deadline
         \/ pc \in {"send", "idle"} /\ pc' = "done" /\ UNCHANGED deadline
         \/ /\ UNCHANGED <<pc, deadline, lastItemResult>>
            /\ ctxErr' = IF pc \in {"drain", "wait"} /\ ctxErr = None THEN "canceled" ELSE ctxErr
  BY Zenon DEF DrainStdout, WaitReturns, SendUpdate, Stop, ProcessExits, StdoutCloses,
               KillProcess, CoreReceive, CloseCancel, CloseTeardown, CloseReturn, vars,
               timeVars, commandVars, resultVars
<1>2. Types /\ Bounded /\ Timely
  BY Zenon DEF ExecInv
<1>3. Types'
  BY <1>1, <1>2, ExecAssumption DEF Types
<1>4. Bounded'
  BY <1>1, <1>2, ExecAssumption DEF Bounded
<1>5. Timely'
  <2>1. pc' # "start" => /\ WillTick(normal, PollInterval)'
                         /\ WillTick(unhealthy, PollIntervalWhenUnhealthy)'
    <3>1. pc' # "start" => pc # "start"
      BY <1>1
    <3> QED
      BY Zenon, <1>1, <1>2, <3>1 DEF Timely, WillTick
  <2>2. pc' = "send" /\ ~stalled' => sinceStart' <= Timeout
    BY <1>1, <1>2 DEF Timely, Bounded
  <2>3. pc' \in {"idle", "start"} /\ ~stalled' => sinceStart' <= Interval(lastItemResult')
    <3>1. CASE pc = "send" /\ pc' = "idle"
      BY <1>1, <1>2, <3>1, ExecAssumption DEF Timely, Types, Interval
    <3>2. CASE UNCHANGED <<pc, lastItemResult>>
      BY Zenon, <1>1, <1>2, <3>2 DEF Timely
    <3> QED
      BY <1>1, <3>1, <3>2
  <2> QED
    BY Zenon, <2>1, <2>2, <2>3 DEF Timely, Interval
<1> QED
  BY Zenon, <1>3, <1>4, <1>5 DEF ExecInv

\* A tick is taken, and the next command is about to start.
LEMMA PollStep ==
  ASSUME ExecInv, Poll
  PROVE  ExecInv'
<1>1. /\ pc = "idle" /\ pc' = "start"
      /\ UNCHANGED <<sinceStart, stalled, deadline, lastItemResult>>
      /\ normal' \in {normal, [normal EXCEPT !.ready = FALSE]}
      /\ unhealthy' \in {unhealthy, [unhealthy EXCEPT !.ready = FALSE]}
  BY DEF Poll, commandVars, resultVars
<1>2. Types /\ Timely
  BY Zenon DEF ExecInv
<1>3. Types'
  <2>1. \A t \in Ticker(PollInterval) : [t EXCEPT !.ready = FALSE] \in Ticker(PollInterval)
    BY Zenon DEF Ticker
  <2>2. \A t \in Ticker(PollIntervalWhenUnhealthy) :
            [t EXCEPT !.ready = FALSE] \in Ticker(PollIntervalWhenUnhealthy)
    BY Zenon DEF Ticker
  <2> QED
    BY Zenon, <1>1, <1>2, <2>1, <2>2 DEF Types
<1>4. Timely'
  BY <1>1, <1>2 DEF Timely, Interval
<1>5. Bounded'
  BY <1>1 DEF Bounded
<1> QED
  BY Zenon, <1>3, <1>4, <1>5 DEF ExecInv

\* The invariant holds throughout.
LEMMA ExecSafety == Spec => []ExecInv
<1>1. ExecInv /\ [Next]_vars => ExecInv'
  BY Zenon, TickStep, StartStep, PollStep, TimelessStep DEF Next, RunStep
<1> QED
  BY <1>1, ExecInit, PTL DEF Spec

\* Unless UpdatesChan was full, the next run of the command starts no later than the poll
\* interval of the last result after the start of the previous one, for any intervals and
\* whichever ticker was listened to before (exec_collector.go, run).
THEOREM ChecksAreRepeated == Spec => []PollsAreTimely
<1>1. ExecInv => PollsAreTimely
  BY Zenon DEF ExecInv, Timely, PollsAreTimely
<1> QED
  BY <1>1, ExecSafety, PTL

\* Neither the command nor a descendant that holds its stdout keeps runCommand beyond the
\* timeout, for any timeout (exec_collector.go, runCommand).
THEOREM RunCommandEndsInTime == Spec => []CommandIsBounded
<1>1. ExecInv => CommandIsBounded
  BY Zenon DEF ExecInv, Bounded, CommandIsBounded
<1> QED
  BY <1>1, ExecSafety, PTL
=============================================================================
