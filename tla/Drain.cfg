CONSTANTS
  QueueCap = 2
  MaxMessages = 3
  MaxFailures = 2
SPECIFICATION FairSpec
INVARIANTS TypeOK CommittedWasProduced RepeatsNeedFailures
PROPERTY EverythingForwarded
