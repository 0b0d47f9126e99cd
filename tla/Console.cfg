CONSTANTS
  Missing = Missing
  Torn = Torn
  MaxUpdates = 3
  MaxFaults = 2
  Clicks = {c1, c2}
  MaxMishaps = 2
  Gone = Gone
  Visits = {v1, v2}
  MaxNow = 3
  MaxRecords = 1
  MaxAge = 1
  Fields = {f1, f2}
  Names = {n1, n2}
  Taken = {n1}
  Empty = Empty
  Filters = {a1, a2}
  MaxChecks = 3
  MaxPosts = 2
  MaxLoads = 3
SPECIFICATION ConsoleSpec
INVARIANTS PartsTypeOK
  OnlyLateUploadsRegress OwedIsKept
  ShownModeIsReal GoneMeansDeleted KeptToTheCap
  SubmitMeansChecked AddressIsShown
PROPERTIES CallsReturn EveryFieldIsDecided
