----------------------------- MODULE MCBatchRun -----------------------------
(***************************************************************************)
(* Instances of BatchRun for TLC.                                          *)
(***************************************************************************)
EXTENDS BatchRun

TwoDatasets == 1 .. 2
=============================================================================
