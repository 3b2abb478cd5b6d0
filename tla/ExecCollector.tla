---------------------------- MODULE ExecCollector ----------------------------
(***************************************************************************)
(* backend/collectors/exec: the collector that runs a command periodically *)
(* and turns its exit code into an item.                                   *)
(*                                                                         *)
(* Time is counted in ticks.  The two tickers and the command's deadline   *)
(* count down; a goroutine that can run does so within the tick.  The      *)
(* command is a process that may exit with any code, close its stdout      *)
(* before or after that, or do neither; a descendant may keep the stdout   *)
(* of an exited command open.                                              *)
(***************************************************************************)
EXTENDS Naturals, Sequences

CONSTANTS
    PollInterval, PollIntervalWhenUnhealthy, Timeout,
    Conditions,     \* sequence of [exitCode, result]
    ExitCode,       \* exit codes of the command
    Success,        \* exit code 0
    AnyCode,        \* a condition without exitCode
    Killed,         \* ExitCode() of a killed process
    OK, Error,      \* item states; the others come from the conditions
    None,
    UpdCap          \* capacity of UpdatesChan (16)

\* validateConfig, once the defaults have been applied.
ASSUME ExecAssumption ==
    /\ {PollInterval, PollIntervalWhenUnhealthy, Timeout, UpdCap} \subseteq Nat \ {0}
    /\ Timeout <= PollInterval
    /\ Timeout <= PollIntervalWhenUnhealthy
    /\ Conditions # <<>>
    /\ Success \in ExitCode
    /\ None \notin {"deadline", "canceled"}
    /\ \A i \in DOMAIN Conditions : Conditions[i].exitCode \in ExitCode \cup {AnyCode}

VARIABLES
    normal,         \* tickerNormal: ticks left, and whether C holds a tick
    unhealthy,      \* tickerWhenUnhealthy
    pc,             \* run: "start", "drain", "wait", "send", "idle" or "done"
    process,        \* the command: None, "running" or its exit code
    stdoutOpen,     \* somebody still holds the command's stdout
    deadline,       \* ticks until commandCtx times out
    ctxErr,         \* commandCtx.Err(): None, "deadline" or "canceled"
    item,           \* the result being sent: [state, cause]
    lastItemResult, \* the state of the last result sent
    updCh,          \* UpdatesChan
    closePc,        \* Close: "open", "canceled", "teardown" or "closed"
    \* History.
    sinceStart,     \* ticks since the last command was started
    stalled         \* since then, a tick passed while UpdatesChan was full

commandVars == <<process, stdoutOpen, deadline, ctxErr>>
timeVars == <<normal, unhealthy, sinceStart, stalled>>
resultVars == <<item, lastItemResult>>
vars == <<timeVars, pc, commandVars, resultVars, updCh, closePc>>

Teardown == closePc \in {"teardown", "closed"}

Interval(state) == IF state = OK THEN PollInterval ELSE PollIntervalWhenUnhealthy

\* Mutant of CurrentTicker: pollIntervalWhenUnhealthy is ignored.
CurrentTickerNormal == normal

\* The ticker run listens to.
CurrentTicker == IF lastItemResult = OK THEN normal ELSE unhealthy

NoItem == [state |-> None, cause |-> None]

Init ==
    /\ normal = [left |-> PollInterval, ready |-> FALSE]
    /\ unhealthy = [left |-> PollIntervalWhenUnhealthy, ready |-> FALSE]
    /\ pc = "start"
    /\ process = None
    /\ stdoutOpen = FALSE
    /\ deadline = 0
    /\ ctxErr = None
    /\ item = NoItem
    /\ lastItemResult = None
    /\ updCh = <<>>
    /\ closePc = "open"
    /\ sinceStart = 0
    /\ stalled = FALSE

-----------------------------------------------------------------------------
(* runCommand.                                                             *)

\* cmd.Start() succeeds: the reader goroutine drains stdout, and the deadline
\* limits the command.
StartCommand ==
    /\ pc = "start"
    /\ closePc = "open"
    /\ pc' = "drain"
    /\ process' = "running"
    /\ stdoutOpen' = TRUE
    /\ deadline' = Timeout
    /\ ctxErr' = None
    /\ sinceStart' = 0
    /\ stalled' = FALSE
    /\ UNCHANGED <<normal, unhealthy, resultVars, updCh, closePc>>

\* StdoutPipe() or cmd.Start() fails; Start always does once c.ctx is canceled.
StartFails ==
    /\ pc = "start"
    /\ pc' = "send"
    /\ item' = [state |-> Error, cause |-> "start"]
    /\ sinceStart' = 0
    /\ stalled' = FALSE
    /\ UNCHANGED <<normal, unhealthy, commandVars, lastItemResult, updCh, closePc>>

\* The command and its descendants.
ProcessExits ==
    /\ process = "running"
    /\ \E code \in ExitCode : process' = code
    /\ \E open \in BOOLEAN : stdoutOpen' = (stdoutOpen /\ open)
    /\ UNCHANGED <<timeVars, pc, deadline, ctxErr, resultVars, updCh, closePc>>

StdoutCloses ==
    /\ stdoutOpen
    /\ stdoutOpen' = FALSE
    /\ UNCHANGED <<timeVars, pc, process, deadline, ctxErr, resultVars, updCh, closePc>>

\* os/exec kills the process once the context is done.
KillProcess ==
    /\ process = "running"
    /\ ctxErr # None
    /\ process' = Killed
    /\ UNCHANGED <<timeVars, pc, stdoutOpen, deadline, ctxErr, resultVars, updCh, closePc>>

\* Mutant of StdoutDone: the select waits for the end of stdout only.
EndOfStdout == ~stdoutOpen

\* select: stdoutDone, or the context is done.
StdoutDone == ~stdoutOpen \/ ctxErr # None

\* The pipe is closed here, whoever else holds it.
DrainStdout ==
    /\ pc = "drain"
    /\ StdoutDone
    /\ pc' = "wait"
    /\ stdoutOpen' = FALSE
    /\ UNCHANGED <<timeVars, process, deadline, ctxErr, resultVars, updCh, closePc>>

Matches(code) == {i \in DOMAIN Conditions : Conditions[i].exitCode \in {code, AnyCode}}

\* The first matching condition; Error when there is none.
StateOf(code) ==
    IF Matches(code) = {} THEN Error
    ELSE Conditions[CHOOSE i \in Matches(code) : \A j \in Matches(code) : i <= j].result

Failure(cause) == [state |-> Error, cause |-> cause]

\* cmd.Wait() returned an error: the deadline, and after it the cancellation, explain it.
Explained(result) ==
    IF ctxErr = "deadline" THEN Failure("timeout")
    ELSE IF closePc # "open" THEN Failure("canceled")
    ELSE result

\* What runCommand may return for an exit code.  cmd.Wait() fails for every code but 0.
\* It may do so for any code: it could not wait, or the context was done before the
\* command exited with 0.
ResultsOf(code) ==
    LET result == [state |-> StateOf(code), cause |-> code]
    IN  {IF code = Success THEN result ELSE Explained(result), Explained(Failure("wait"))}

\* cmd.Wait() returns.
WaitReturns ==
    /\ pc = "wait"
    /\ process # "running"
    /\ pc' = "send"
    /\ item' \in ResultsOf(process)
    /\ process' = None
    /\ deadline' = 0
    /\ ctxErr' = None
    /\ UNCHANGED <<timeVars, stdoutOpen, lastItemResult, updCh, closePc>>

-----------------------------------------------------------------------------
(* run.                                                                    *)

SendUpdate ==
    /\ pc = "send"
    /\ Len(updCh) < UpdCap
    /\ updCh' = Append(updCh, item)
    /\ lastItemResult' = item.state
    /\ item' = NoItem
    /\ pc' = "idle"
    /\ UNCHANGED <<timeVars, commandVars, closePc>>

\* The select of the poll loop, on one of the two tickers.
Poll ==
    /\ pc = "idle"
    /\ CurrentTicker.ready
    /\ pc' = "start"
    /\ normal' = IF lastItemResult = OK THEN [normal EXCEPT !.ready = FALSE] ELSE normal
    /\ unhealthy' = IF lastItemResult = OK THEN unhealthy
                    ELSE [unhealthy EXCEPT !.ready = FALSE]
    /\ UNCHANGED <<sinceStart, stalled, commandVars, resultVars, updCh, closePc>>

\* Mutant of Stop: teardown is only looked at between two commands.
StopWhenIdle ==
    /\ pc = "idle"
    /\ Teardown
    /\ pc' = "done"
    /\ UNCHANGED <<timeVars, item, commandVars, lastItemResult, updCh, closePc>>

\* Teardown, in either select.
Stop ==
    /\ pc \in {"send", "idle"}
    /\ Teardown
    /\ pc' = "done"
    /\ item' = NoItem
    /\ UNCHANGED <<timeVars, commandVars, lastItemResult, updCh, closePc>>

-----------------------------------------------------------------------------
(* Time, the core and Close.                                               *)

\* The steps of the run goroutine.
RunStep ==
    \/ StartCommand \/ StartFails \/ DrainStdout \/ WaitReturns
    \/ SendUpdate \/ Poll \/ Stop

\* The run goroutine, or the kernel on its behalf, has something to do now: one
\* of the steps above, or KillProcess, is enabled.
Busy ==
    \/ pc = "start"
    \/ pc = "drain" /\ StdoutDone
    \/ pc = "wait" /\ process # "running"
    \/ pc = "send" /\ (Len(updCh) < UpdCap \/ Teardown)
    \/ pc = "idle" /\ (CurrentTicker.ready \/ Teardown)
    \/ process = "running" /\ ctxErr # None

\* time.Ticker: C holds one tick, further ones are dropped.
Advance(ticker, interval) ==
    IF ticker.left = 1 THEN [left |-> interval, ready |-> TRUE]
    ELSE [ticker EXCEPT !.left = @ - 1]

Tick ==
    /\ ~Busy
    /\ pc # "done"
    /\ normal' = Advance(normal, PollInterval)
    /\ unhealthy' = Advance(unhealthy, PollIntervalWhenUnhealthy)
    /\ deadline' = IF deadline = 0 THEN 0 ELSE deadline - 1
    /\ ctxErr' = IF deadline = 1 /\ ctxErr = None THEN "deadline" ELSE ctxErr
    /\ sinceStart' = IF sinceStart > PollInterval + PollIntervalWhenUnhealthy
                     THEN sinceStart ELSE sinceStart + 1
    /\ stalled' = (stalled \/ pc = "send")
    /\ UNCHANGED <<pc, process, stdoutOpen, resultVars, updCh, closePc>>

CoreReceive ==
    /\ updCh # <<>>
    /\ updCh' = Tail(updCh)
    /\ UNCHANGED <<timeVars, pc, commandVars, resultVars, closePc>>

\* c.cancel(), close(c.teardown), <-c.torndown
CloseCancel ==
    /\ closePc = "open"
    /\ closePc' = "canceled"
    /\ ctxErr' = IF pc \in {"drain", "wait"} /\ ctxErr = None THEN "canceled" ELSE ctxErr
    /\ UNCHANGED <<timeVars, pc, process, stdoutOpen, deadline, resultVars, updCh>>

CloseTeardown ==
    /\ closePc = "canceled"
    /\ closePc' = "teardown"
    /\ UNCHANGED <<timeVars, pc, commandVars, resultVars, updCh>>

CloseReturn ==
    /\ closePc = "teardown"
    /\ pc = "done"
    /\ closePc' = "closed"
    /\ UNCHANGED <<timeVars, pc, commandVars, resultVars, updCh>>

Next ==
    \/ RunStep
    \/ ProcessExits \/ StdoutCloses \/ KillProcess
    \/ Tick
    \/ CoreReceive
    \/ CloseCancel \/ CloseTeardown \/ CloseReturn
    \/ closePc = "closed" /\ UNCHANGED vars

\* Goroutines run, time passes and a kill takes effect.  The command need not
\* exit or close its stdout by itself, and the core need not receive.
Fairness ==
    /\ WF_vars(RunStep) /\ WF_vars(KillProcess) /\ WF_vars(Tick)
    /\ WF_vars(CloseTeardown \/ CloseReturn)

\* The select of a send or a poll is fair to teardown: it cannot lose against
\* the other case for ever.
StopFairness == SF_vars(Stop)

Spec == Init /\ [][Next]_vars

FairSpec == Spec /\ Fairness /\ StopFairness

-----------------------------------------------------------------------------
ItemType == [state : {OK, Error} \cup {Conditions[i].result : i \in DOMAIN Conditions},
             cause : ExitCode \cup {Killed, "start", "wait", "timeout", "canceled"}]

TypeOK ==
    /\ normal \in [left : 1..PollInterval, ready : BOOLEAN]
    /\ unhealthy \in [left : 1..PollIntervalWhenUnhealthy, ready : BOOLEAN]
    /\ pc \in {"start", "drain", "wait", "send", "idle", "done"}
    /\ process \in ExitCode \cup {None, "running", Killed}
    /\ {stdoutOpen, stalled} \subseteq BOOLEAN
    /\ deadline \in 0..Timeout
    /\ ctxErr \in {None, "deadline", "canceled"}
    /\ item \in ItemType \cup {NoItem}
    /\ \A i \in DOMAIN updCh : updCh[i] \in ItemType
    /\ closePc \in {"open", "canceled", "teardown", "closed"}

\* The check is repeated in time: unless UpdatesChan was full, the next run
\* starts no later than the poll interval of the last result after the start
\* of the previous one, however long the command took and whichever ticker
\* was listened to before.
PollsAreTimely ==
    (pc \in {"idle", "start"} /\ lastItemResult # None /\ ~stalled /\ closePc = "open")
        => sinceStart <= Interval(lastItemResult)

\* Neither the command nor a descendant that holds its stdout keeps
\* runCommand beyond the timeout.
CommandIsBounded == pc \in {"drain", "wait"} => sinceStart <= Timeout

\* Close returns: it cancels a stuck command, and no full UpdatesChan and no
\* descendant with an open stdout holds it up.
CloseTerminates == (closePc = "canceled") ~> (closePc = "closed")
=============================================================================
