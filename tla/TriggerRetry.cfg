CONSTANTS
  podA = podA
  podB = podB
  run1 = run1
  Foreign = Foreign
  Scalar = Scalar
  NoPod = NoPod
  NoRun = NoRun
  Pods <- TwoPods
  Runs <- OneRun
  Strays <- AllStrays
  MaxTriggers = 2
  MaxFaults = 0
SPECIFICATION Spec
INVARIANT CompletedMeansSucceeded
