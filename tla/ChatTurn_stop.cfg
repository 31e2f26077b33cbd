SPECIFICATION Spec
CONSTANTS
  Sends = {t1}
  Reruns = {u1, u2}
  Replicas = {r1}
  Stops = {s1, s2}
  None = None
  MaxCrashes = 0
  Faults = {"settle"}
SYMMETRY Symmetry
INVARIANT SoleTurn
PROPERTY SettledTurnLeavesATrace
PROPERTY LeaseSpec
PROPERTY RerunKeepsAnswerUntilReplaced
\* The requests are finite: the run ends when all have been sent.
CHECK_DEADLOCK FALSE
