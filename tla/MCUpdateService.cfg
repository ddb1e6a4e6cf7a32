SPECIFICATION Spec
CONSTANTS
  MaxTag = 2
  MaxSaves = 2
  MaxJobs = 2
  MaxFaults = 1
  MaxCrashes = 1
INVARIANTS
  TypeOK
  BusyCoversWorker
PROPERTIES
  AppliedWithConsent
  InstallingEnds
  EventuallyRevoked
