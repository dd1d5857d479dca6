SPECIFICATION FairSpec
CONSTANTS
  Users = {"brightness", "search"}
  MaxCalls <- MCMaxCalls
  Displays = {"ddc", "lcd"}
  Internal = {"lcd"}
  Place <- MCPlace
  None = None
  HardwareMax <- MCHardwareMax
  MaxPercent = 2
  Fallback = 0
  Home = "home"
  Folders = {"home", "empty"}
  EmptyFolders = {"empty"}
  Texts = {"a", "b"}
  Blank = "b"
INVARIANTS
  NothingForgotten
  QuietAgrees
  CacheMatchesKey
PROPERTIES
  LastSearchWins
  WalksEnd
CHECK_DEADLOCK FALSE
