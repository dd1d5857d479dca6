SPECIFICATION Spec
CONSTANTS
  Contents = {"short", "long", "blank"}
  Blanks = {"blank"}
  Size <- MCSize
  None = None
  EntryLimits = {0, 1}
  ByteLimits = {0, 3, 4}
  PruneRounds = 1
  MaxId = 3
  MaxClock = 3
  MaxQueue = 2
INVARIANTS
  ShownIsStored
  PinsSettle
PROPERTIES
  SettledPinSurvives
  OnlyUnpinDisturbs
  NewestKept
