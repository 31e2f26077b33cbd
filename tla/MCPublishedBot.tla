--------------------------- MODULE MCPublishedBot ---------------------------
EXTENDS PublishedBot, TLC

\* Requests are interchangeable.
Symmetry == Permutations(Requests)

=============================================================================
