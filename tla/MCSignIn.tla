------------------------------ MODULE MCSignIn ------------------------------
EXTENDS SignIn, TLC

\* Tabs are interchangeable.
Symmetry == Permutations(Tabs)

=============================================================================
