--------------------------- MODULE MC_WorkerSuite ---------------------------
(***************************************************************************)
(* Instances of WorkerSuite: the whole suite and the diagnostic sweep.     *)
(***************************************************************************)
EXTENDS WorkerSuite

=============================================================================
