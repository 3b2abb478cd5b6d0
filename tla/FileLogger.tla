------------------------------ MODULE FileLogger ------------------------------
(***************************************************************************)
(* backend/messengers/filelogger: a messenger that appends one line per    *)
(* removed, added and updated incident to a file.                          *)
(*                                                                         *)
(* The file is represented by what its reader can conclude from it: the    *)
(* incidents that are ongoing after replaying its lines from the top.  It  *)
(* is opened for appending, so the lines of earlier runs of the server     *)
(* come first.                                                             *)
(***************************************************************************)
EXTENDS Core

CONSTANTS
    Loggers,   \* the messengers that are file loggers
    OldLogs    \* what the lines of earlier runs may leave ongoing

\* The incidents that the lines of a file leave ongoing.
LogContent == [ItemKey -> NonOK \cup {Absent}]

ASSUME LoggerAssumption ==
    /\ Loggers \subseteq Messengers
    /\ OldLogs \subseteq LogContent

VARIABLES
    logFile,   \* per logger: the incidents the file's lines leave ongoing
    written    \* per logger: the keys this run has written lines about (history)

fileVars == <<logFile, written>>

\* New: O_APPEND|O_CREATE keeps what is there.
LoggerInit ==
    /\ logFile \in [Loggers -> OldLogs]
    /\ written = [m \in Loggers |-> {}]

\* Mutant of AppendLines: updated incidents are not logged.
AppendLinesNoUpdated(log, n) ==
    [k \in ItemKey |->
        IF n.added[k] # Absent THEN n.added[k].item
        ELSE IF n.removed[k] # Absent THEN Absent
        ELSE log[k]]

\* The lines of one notification in the order they are written: removed
\* incidents as "ok", then the added ones, then the updated ones.
AppendLines(log, n) ==
    [k \in ItemKey |->
        IF n.updated[k] # Absent THEN n.updated[k].item
        ELSE IF n.added[k] # Absent THEN n.added[k].item
        ELSE IF n.removed[k] # Absent THEN Absent
        ELSE log[k]]

\* One iteration of run: take a notification and write its lines.
LoggerWrite(m) ==
    /\ notifCh[m] # <<>>
    /\ LET n == Head(notifCh[m]) IN
        /\ logFile' = [logFile EXCEPT ![m] = AppendLines(@, n)]
        /\ written' = [written EXCEPT ![m] =
                @ \cup Keys(n.removed) \cup Keys(n.added) \cup Keys(n.updated)]
    /\ notifCh' = [notifCh EXCEPT ![m] = Tail(@)]
    /\ UNCHANGED <<collVars, runVars, closeVars, updCh, updClosed, notifClosed, tornDown>>

\* The channel is closed and drained: close the file and TornDown.
LoggerTearDown(m) ==
    /\ notifCh[m] = <<>>
    /\ m \in notifClosed
    /\ m \notin tornDown
    /\ tornDown' = tornDown \cup {m}
    /\ UNCHANGED <<collVars, runVars, closeVars, chanVars, fileVars>>

LoggerStep(m) == LoggerWrite(m) \/ LoggerTearDown(m)

-----------------------------------------------------------------------------
\* What the file says is what the core says, also when it has lines of earlier
\* runs: when a logger has written all that was handed to it and nothing is on
\* its way, replaying the file gives every incident on the board, and no other
\* that this run has written about.  An incident that an earlier run left open
\* and that this run never saw stays open in the file: nothing writes its end.
\* Holds until shutdown starts dropping notifications.
LogMatchesBoard ==
    \A m \in Loggers :
        (/\ ~shutdown
         /\ runPc = "recv"
         /\ notifCh[m] = <<>>)
        => \A k \in ItemKey :
              IF board.total[k] = Absent THEN k \in written[m] => logFile[m][k] = Absent
              ELSE logFile[m][k] = board.total[k].item

\* Every line makes sense after the lines this run has written: an incident is
\* only added when they do not have it, and only removed or updated when they
\* do; no line, and no update, is a repetition.  (After a restart an incident
\* that was open before is added once more.)
LinesAreTransitions ==
    [][\A m \in Loggers : LoggerWrite(m) =>
        LET n == Head(notifCh[m]) IN
        /\ \A k \in Keys(n.added) : k \in written[m] => logFile[m][k] = Absent
        /\ \A k \in Keys(n.removed) :
               k \in written[m] /\ logFile[m][k] = n.removed[k].item
        /\ \A k \in Keys(n.updated) :
               k \in written[m] /\ logFile[m][k] \notin {Absent, n.updated[k].item}
       ]_<<coreVars, fileVars>>
=============================================================================
