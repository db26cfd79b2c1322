---------------------------- MODULE MCExportJobs ----------------------------
(* Bounds of the run over ExportJobs.                                      *)
EXTENDS ExportJobs

CONSTANTS j1, u1, w1, w2

MCKeys == {u1} \cup ({j1} \X (1..MaxAttempts))
=============================================================================
