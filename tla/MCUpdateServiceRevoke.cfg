SPECIFICATION Spec
CONSTANTS
  MaxTag = 2
  MaxSaves = 2
  MaxJobs = 2
  MaxFaults = 0
  MaxCrashes = 1
INVARIANT
  SwitchingRevokes
