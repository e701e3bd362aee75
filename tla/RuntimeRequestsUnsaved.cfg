\* One submission: a drive that is chosen and cannot be saved.
SPECIFICATION Spec
CONSTANTS
  Capacity = 1
  MaxSubmissions = 1
  NoDrive = NoDrive
  Paths = {0, 1}
INVARIANT AcceptedSettingsReachDisk
CHECK_DEADLOCK FALSE
