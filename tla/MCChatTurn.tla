----------------------------- MODULE MCChatTurn -----------------------------
(* Small instances of ChatTurn for TLC. *)
EXTENDS ChatTurn, TLC

\* Requests of a kind, processes and stop presses are interchangeable (safety runs only).
Symmetry == Permutations(Sends) \cup Permutations(Reruns) \cup Permutations(Replicas) \cup Permutations(Stops)
=============================================================================
