---------------------------- MODULE MCUIRuntime ----------------------------
(***************************************************************************)
(* Small instances of the event loop.                                      *)
(***************************************************************************)
EXTENDS UIRuntime

CONSTANTS srv, item

\* Only the connection's incident is snoozed; the server's is left to appear and go.
MCSnoozeKeys == {ConnectionKey(srv)}
=============================================================================
