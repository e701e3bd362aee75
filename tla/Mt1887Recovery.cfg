\* What a read delivers after a recovery, on one disc.
SPECIFICATION Mt1887Spec
CONSTANTS
  Profiles <- MCProfiles
  Stock <- MCStock
  Live <- MCLive
  Canonical <- MCCanonical
  Foreign <- MCForeign
  Hardwares <- MCHardwares
  RestoreAttempts = 2
  ReadAttempts = 2
  MaxChanges = 0
  None = None
  MaxGeneration = 8
  Generations = {0, 1, 2, 3, 4, 5, 6, 7, 8}
  NoGeneration = NoGeneration
  AbsentConfirmations = 2
  DisconnectConfirmations = 1
  FaultConfirmations = 1
  MaxInsertions = 0
  MaxPresses = 0
  MaxEvents = 2
INVARIANT DeliversUnderLiveState
CHECK_DEADLOCK FALSE
