SPECIFICATION Spec
CONSTANTS
  NPaths = 4
  Server = 2
  Manager = 3
  Dirs <- MCDirs
  Required <- MCRequired
  MaxPackages = 2
  MaxCrashes = 2
  MaxFaults = 1
  Absent = Absent
  Torn = Torn
INVARIANT
  NextLaunchRecovers
CHECK_DEADLOCK FALSE
