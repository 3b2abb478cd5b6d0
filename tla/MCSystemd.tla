------------------------------ MODULE MCSystemd ------------------------------
(***************************************************************************)
(* A small instance of the systemd collector.                              *)
(***************************************************************************)
EXTENDS SystemdCollector

CONSTANTS u1, up, starting, down, broken, Warning

Cond(match, result, resolve) == [match |-> match, result |-> result, resolve |-> resolve]

\* u1 is named; once it was down it recovers after two ticks in state up.  A unit that is
\* broken first has no policy.
MCDelayedRule ==
    [units |-> {u1}, names |-> {u1},
     conditions |-> <<Cond({up, starting}, OK, None),
                      Cond({down}, Warning, [after |-> 2, states |-> {up}]),
                      Cond({broken}, Warning, None)>>]

\* Never applies to u1: the rule above comes first.
MCShadowedRule ==
    [units |-> {u1}, names |-> {},
     conditions |-> <<Cond({up}, OK, None), Cond({up, starting}, Warning, None)>>]

MCUnitRules == <<MCDelayedRule, MCShadowedRule>>
=============================================================================
