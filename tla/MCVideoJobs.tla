---------------------------- MODULE MCVideoJobs ----------------------------
(* Values of VideoJobs' constants for TLC: processes are alike.            *)
EXTENDS VideoJobs, TLC

Symmetry == Permutations(Replicas)

=============================================================================
