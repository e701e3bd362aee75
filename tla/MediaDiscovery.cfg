\* The real thresholds of src/app/optical_monitor.h; two launches of GDOX on
\* either platform, which try twice to reach each other.
SPECIFICATION AppSpec
CONSTANTS
  StableObservations = 4
  RearmObservations = 10
  TransientRetryLimit = 2
  Devices = {dvd_a, dvd_b}
  NoDevice = none
  Procs = {p1, p2}
  NoProc = NoProc
  Stale = Stale
  MaxAttempts = 2
  Inodes = {i1, i2, i3}
  NoFile = NoFile
  Values = {1, 2}
  Size = 2
  MaxEvents = 1
INVARIANTS
  FailuresAreLimited
  DesktopIsSound
PROPERTIES
  AttemptsFollowADwell
  ArmedDiscIsTried
