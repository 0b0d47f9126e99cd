CONSTANTS
  tick = tick
  runnow = runnow
  t1 = t1
  t2 = t2
  Invalid = Invalid
  Garbled = Garbled
  NoTopic = NoTopic
  NoWorker = NoWorker
  Workers <- BothWorkers
  Bounded <- OnlyRunNow
  Topics <- OneTopic
  Headers <- OneTopic
  FixedTarget <- t1
  IdleExits = FALSE
  QueueCap = 1
  MaxMessages = 2
  MaxFaults = 1
SPECIFICATION Spec
INVARIANT OnlyFaultsDuplicate
PROPERTIES CommitNeverGoesBack OneCursor
