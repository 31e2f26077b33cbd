SPECIFICATION FairSpec
CONSTANTS
  Sends = {t1, t2}
  Reruns = {}
  Replicas = {r1, r2}
  Stops = {}
  None = None
  MaxCrashes = 1
  Faults = {"abandon", "release"}
INVARIANT ClaimInv
INVARIANT AnswerFollowsItsQuestion
PROPERTY SessionReopens
\* The requests are finite: the run ends when all have been sent.
CHECK_DEADLOCK FALSE
