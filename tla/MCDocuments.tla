---------------------------- MODULE MCDocuments ----------------------------
EXTENDS Documents, TLC

\* Panels are interchangeable.
Symmetry == Permutations(Panels)

=============================================================================
