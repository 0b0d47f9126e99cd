CONSTANTS
  QueueCap = 2
  MaxMessages = 1
  MaxFailures = 0
SPECIFICATION Spec
INVARIANT CommittedMeansForwarded
