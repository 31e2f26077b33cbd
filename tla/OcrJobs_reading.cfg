SPECIFICATION FairSpec
CONSTANTS
  Workers = {w1, w2}
  N = 3
  Forms = {"mixed", "picture"}
  Limits = {1, 3}
  MaxAttempts = 2
  MaxCrashes = 1
  MaxSlow = 1
  MaxTunes = 1
INVARIANT OcrInv
INVARIANT SkippedPagesShow
INVARIANT NoEntryOutlivesItsFile
PROPERTY ReadingSpec
PROPERTY ProgressNeverGoesBack
PROPERTY EveryFileIsClosed
\* The system rests once the file is closed or deleted.
CHECK_DEADLOCK FALSE
