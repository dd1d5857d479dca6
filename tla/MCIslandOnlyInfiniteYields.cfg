SPECIFICATION Spec
CONSTANTS
  KindOrder <- MCKindOrder
  Notices = {n1, n2}
  MaxQueued = 2
  None = None
  MaxQueue = 2
INVARIANT OnlyInfiniteYields
