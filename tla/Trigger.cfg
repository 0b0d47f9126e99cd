CONSTANTS
  podA = podA
  podB = podB
  run1 = run1
  Foreign = Foreign
  Scalar = Scalar
  NoPod = NoPod
  NoRun = NoRun
  Pods <- TwoPods
  Runs <- OneRun
  Strays <- AllStrays
  MaxTriggers = 3
  MaxFaults = 1
SPECIFICATION FairSpec
INVARIANTS TypeOK AtMostOncePerTrigger RightAnswer
PROPERTIES OneLife EveryTriggerSettled
