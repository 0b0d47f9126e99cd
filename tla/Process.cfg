SPECIFICATION Spec
CHECK_DEADLOCK FALSE
INVARIANTS TypeOK PemsOutliveRecordsOnly
PROPERTY SignalEnds
