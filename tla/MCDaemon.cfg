SPECIFICATION FairSpec
CONSTANTS
  Supervisors = {s1, s2}
  Clients = {c1}
  None = None
INVARIANTS
  TypeOK
  OneOwner
  ShellHasKeeper
  StateFollowsOwner
PROPERTIES
  LiveStateKept
  ImplementsOwnership
  BootSettles
  StopCompletes
