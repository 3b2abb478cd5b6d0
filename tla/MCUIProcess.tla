----------------------------- MODULE MCUIProcess -----------------------------
(* UIProcess for TLC: one server, of every kind, and short channels.        *)
EXTENDS UIProcess

CONSTANT srv
=============================================================================
