SPECIFICATION FairSpec
CONSTANTS
  Replicas = {r1, r2}
  Cancels = {c1, c2}
  MaxPolls = 2
  MaxFaults = 2
INVARIANT VideoInv
PROPERTY CancelBeatsDownload
PROPERTY SettledUnlessRaced
PROPERTY JobSettlesUnlessAbandoned
\* The system rests once the job is settled.
CHECK_DEADLOCK FALSE
