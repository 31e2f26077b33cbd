SPECIFICATION Spec
CONSTANTS
  Requests = {r1, r2}
  Sweeper = sweeper
  MaxVersions = 1
  MaxRequests = 2
  MaxTroubles = 0
PROPERTY AdminPauseStays
\* The bound on requests lets the system rest.
CHECK_DEADLOCK FALSE
