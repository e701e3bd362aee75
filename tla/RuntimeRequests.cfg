\* Four submissions of any kind, a queue of two; a save, a launch or a
\* cleanup may fail every time.
SPECIFICATION LiveSpec
CONSTANTS
  Capacity = 2
  MaxSubmissions = 4
  NoDrive = NoDrive
  Paths = {0, 1, 2, 3, 4}
INVARIANTS
  RequestsAreAccountedFor
  SettingsReachDisk
PROPERTIES
  ServedInOrder
  AcceptedIsServed
CHECK_DEADLOCK FALSE
