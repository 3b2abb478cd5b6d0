------------------------------- MODULE MCCore -------------------------------
(***************************************************************************)
(* Small instance of the server with two collectors, a file logger and a   *)
(* webserver nobody is connected to.                                       *)
(***************************************************************************)
EXTENDS MontrayServer

CONSTANTS k1, k2, warning

\* A collector reports one key at a time (exec), or several at once
\* (systemd's first update), or fails.
MCUpdates ==
    {ErrorUpdate}
    \cup {ItemsUpdate([EmptyMap EXCEPT ![k1] = x]) : x \in Item}
    \cup {ItemsUpdate([k \in ItemKey |-> x]) : x \in {OK, warning}}

\* The file of a run that ended with an incident about k1 and that says nothing
\* of k2.
MCOldLogs == {[EmptyMap EXCEPT ![k1] = warning]}
=============================================================================
