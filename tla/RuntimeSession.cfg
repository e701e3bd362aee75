\* One swap of the disc during a session, short dwells; a ring of three slots,
\* so that every position of the seam is met with a full ring; one query after
\* the first of each wait, one poll for a mount to go, old disks of two sizes
\* and vaults of two generations.
SPECIFICATION RuntimeSpec
CONSTANTS
  StableObservations = 1
  RearmObservations = 1
  TransientRetryLimit = 1
  AbsentConfirmations = 1
  DisconnectConfirmations = 1
  FaultConfirmations = 1
  Generations = {0, 1}
  NoGeneration = none
  MaxReplacements = 1
  Backends = {"xemu", "xenia", "dolphin"}
  XeniaPrivateNbd = TRUE
  Capacity = 3
  Paths = {p1, p2}
  WaitPolls = 1
  ClosePolls = 1
  Sizes = {"small", "large"}
  Vaults = {"g1", "g2"}
INVARIANTS
  OwnershipIsSound
  BoundariesAreClean
  EjectIsForRequestedDisc
  EventEndsRearm
  NothingOutlives
  OldSavesAreAccountedFor
PROPERTIES
  OwedCleanupIsKept
  KeepsTheQueue
  KeepsThePromise
  ReadersAreSpared
