SPECIFICATION FairSpec
CONSTANTS
  KindOrder <- MCKindOrder
  Notices = {n1, n2}
  MaxQueued = 2
  None = None
  MaxQueue = 2
INVARIANTS
  TimerBacked
  QueueBehindContent
  OwnersHoldTheirs
PROPERTIES
  QueueMoves
