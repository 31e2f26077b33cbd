----------------------------- MODULE MCCredits -----------------------------
(* Values of Credits' constants for TLC: two keys; requests are alike, and *)
(* so are the calls of one key.                                            *)
EXTENDS Credits, TLC

CONSTANTS a, b, c1, c2, c3

MCKeyOf == [c \in Calls |-> IF c = c3 THEN b ELSE a]
Symmetry == Permutations(Requests) \cup Permutations({c1, c2})

=============================================================================
