\* One swap of the disc during a session, short dwells.
SPECIFICATION LiveSpec
CONSTANTS
  StableObservations = 1
  RearmObservations = 1
  TransientRetryLimit = 0
  AbsentConfirmations = 1
  DisconnectConfirmations = 1
  FaultConfirmations = 1
  Generations = {0, 1}
  NoGeneration = none
  MaxReplacements = 1
  Backends = {"xemu"}
  XeniaPrivateNbd = TRUE
PROPERTIES
  StopFinishes
  CondemnedIsReleased
