\* Two processes and two names, two faults; a disc of three sectors in blocks
\* of two, one of them normalised, two requests.
SPECIFICATION FilesSpec
CONSTANTS
  Procs = {p1, p2}
  Names = {s1, s2}
  NoName = NoName
  NoProc = NoProc
  MaxFaults = 2
  Sectors = 3
  BlockSectors = 2
  SecurityRanges = {1}
  Jobs <- MCJobs
  MaxRequests = 2
SYMMETRY Symmetry
INVARIANTS
  ActiveSessionIsKept
  LeftoverDataIsRecoverable
  RecoveryIsComplete
  CommittedIsWhole
  ResultIsHonest
  CancelIsHonoured
\* Once every fault has happened, processes end and stay so.
CHECK_DEADLOCK FALSE
