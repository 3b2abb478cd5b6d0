--------------------------- MODULE MCUIProjection ---------------------------
(* UIProjection for TLC: an icon that does not flash and two that do.               *)
EXTENDS UIProjection

\* Lists that differ in length and in a key.
MCLists == {<<>>, <<"k1">>, <<"k2">>, <<"k1", "k2">>}
=============================================================================
