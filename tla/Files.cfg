CONSTANTS
  tick = tick
  runnow = runnow
  f1 = f1
  Procs <- TwoProcesses
  Files <- OneFile
  MaxUploads = 2
  MaxTime = 2
  MaxFaults = 1
SPECIFICATION FairSpec
INVARIANTS TypeOK StaleOnlyIfRaced UnannouncedOnlyIfLost OneEventPerProcess AnnouncedIsThere
PROPERTY UploadArrives
