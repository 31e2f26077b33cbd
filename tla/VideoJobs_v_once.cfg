SPECIFICATION Spec
CONSTANTS
  Replicas = {r1, r2}
  Cancels = {}
  MaxPolls = 2
  MaxFaults = 0
SYMMETRY Symmetry
INVARIANT VideoChargedOnce
\* The system rests once the job is settled.
CHECK_DEADLOCK FALSE
