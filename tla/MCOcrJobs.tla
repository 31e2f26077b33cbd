----------------------------- MODULE MCOcrJobs -----------------------------
(* OcrJobs for TLC.  No symmetry: the run checks liveness.                 *)
EXTENDS OcrJobs, TLC

=============================================================================
