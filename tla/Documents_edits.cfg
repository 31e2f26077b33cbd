SPECIFICATION Spec
CONSTANTS
  Panels = {p1, p2}
  Jobs = {j1}
  MaxBodies = 3
SYMMETRY Symmetry
INVARIANT HistoryKeepsCleanBodies
INVARIANT VersionNamesOneBody
INVARIANT CheckedSaveReplacesItsBase
\* The bound on bodies lets the system rest.
CHECK_DEADLOCK FALSE
