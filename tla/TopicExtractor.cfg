CONSTANTS
  tick = tick
  runnow = runnow
  t1 = t1
  t2 = t2
  Invalid = Invalid
  Garbled = Garbled
  NoTopic = NoTopic
  NoWorker = NoWorker
  Workers <- OneWorker
  Bounded <- OneWorker
  Topics <- TwoTopics
  Headers <- AllHeaders
  FixedTarget <- NoTopic
  IdleExits = TRUE
  QueueCap = 1
  MaxMessages = 2
  MaxFaults = 1
SPECIFICATION FairSpec
INVARIANTS TypeOK NothingSilentlyLost RoutedByOwnHeaders
PROPERTIES WindowsEnd EveryMessageSettled
