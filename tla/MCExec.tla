------------------------------- MODULE MCExec -------------------------------
(***************************************************************************)
(* Small instance of the exec collector: 0 is OK, 2 a warning, and no      *)
(* condition matches 1.                                                    *)
(***************************************************************************)
EXTENDS ExecCollector

CONSTANTS Warning, exit2

MCConditions ==
    <<[exitCode |-> Success, result |-> OK],
      [exitCode |-> exit2, result |-> Warning],
      [exitCode |-> Success, result |-> Warning]>>
=============================================================================
