SPECIFICATION Spec
CONSTANTS
  Requests = {r1, r2}
  Sweeper = sweeper
  MaxVersions = 2
  MaxRequests = 4
  MaxTroubles = 1
SYMMETRY Symmetry
INVARIANT BotInv
PROPERTY WideningIsReviewed
PROPERTY PausesStay
\* The bound on requests lets the system rest.
CHECK_DEADLOCK FALSE
