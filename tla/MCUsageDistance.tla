-------------------------- MODULE MCUsageDistance --------------------------
(* Bounds of the run over UsageDistance: one usage, whose readings are     *)
(* mixed with others entered before, between and after them, and with a    *)
(* change of counter.                                                      *)
EXTENDS UsageDistance

CONSTANT u1
=============================================================================
