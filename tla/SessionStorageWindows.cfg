\* Two processes and two names on either platform.
SPECIFICATION FilesSpec
CONSTANTS
  Procs = {p1, p2}
  Names = {s1, s2}
  NoName = NoName
  NoProc = NoProc
  MaxFaults = 2
  Sectors = 3
  BlockSectors = 2
  SecurityRanges = {1}
  Jobs <- MCJobs
  MaxRequests = 2
SYMMETRY Symmetry
INVARIANT OnlyAbandonedIsRemoved
CHECK_DEADLOCK FALSE
