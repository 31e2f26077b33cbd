SPECIFICATION Spec
CONSTANTS
  Tabs = {t1, t2}
  Admin = admin
  Grace = 2
  Delay = 1
  MaxTime = 3
  MaxTokens = 3
  MaxFamilies = 2
  MaxLosses = 1
SYMMETRY Symmetry
INVARIANT SignInInv
INVARIANT EndedIsOver
\* The bound on tokens lets the system rest.
CHECK_DEADLOCK FALSE
