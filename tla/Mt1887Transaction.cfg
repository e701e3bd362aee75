\* The drives and bytes of the code, one disc taken out and another put in; a
\* session with one other disc and a request to eject.
SPECIFICATION Mt1887Spec
CONSTANTS
  Profiles <- MCProfiles
  Stock <- MCStock
  Live <- MCLive
  Canonical <- MCCanonical
  Foreign <- MCForeign
  Hardwares <- MCHardwares
  RestoreAttempts = 2
  ReadAttempts = 2
  MaxChanges = 2
  None = None
  MaxGeneration = 7
  Generations = {0, 1, 2, 3, 4, 5, 6, 7}
  NoGeneration = NoGeneration
  AbsentConfirmations = 2
  DisconnectConfirmations = 1
  FaultConfirmations = 1
  MaxInsertions = 1
  MaxPresses = 1
  MaxEvents = 2
INVARIANTS
  RestorationIsSure
  ExchangeIsNoticed
PROPERTIES
  MemoryIsTakenBack
\* The session is over once its watch has fired.
CHECK_DEADLOCK FALSE
