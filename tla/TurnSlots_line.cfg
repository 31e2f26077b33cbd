SPECIFICATION FairSlotSpec
CONSTANTS
  b1 = b1
  b2 = b2
  Bots = {b1, b2}
  Turns = {t1, t2, t3}
  PerBot <- LimitOfBot
  InstanceMax = 2
  MaxStamps = 4
  MaxDeaths = 1
INVARIANT SlotsInv
PROPERTY SemaphoreSpec
PROPERTY SlotsComeBack
\* The bound on tries lets the system rest.
CHECK_DEADLOCK FALSE
