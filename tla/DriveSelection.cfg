\* Three drives, but room for two in the list and in the table of cleanups.  The
\* sources: two kinds of disc over two fields of memory, three exchanges or
\* unplugs, and a disc of three blocks read by the one thread of the export
\* through a buffer of one block.
SPECIFICATION DrivesSpec
CONSTANTS
  Drives = {d1, d2, d3}
  MaxDevices = 2
  Image = Image
  None = None
  Profiles <- MCProfiles
  Order <- MCOrder
  Requests <- MCRequests
  RestoreAttempts = 3
  ReadAttempts = 2
  MaxChanges = 3
  Addresses = 2
  BlockSectors = 2
  Sectors = 6
  BufferBlocks = 1
  Streams = {s1}
  Readahead = 4
  MinStart = 2
  Attempts = 2
  Readers = {r1}
  MaxUnplugs = 1
SYMMETRY DriveSymmetry
INVARIANTS
  DrivesAreAccountedFor
  LiveReads
PROPERTIES
  PromiseKept
  OnlyKnownIsWritten
  ReadersComeFirst
\* A drive that is unplugged for good ends its source.
CHECK_DEADLOCK FALSE
