---------------------------- MODULE MCTopicWindow ----------------------------
(* Constants for TopicWindow: a scheduler's process and one "Run Now".       *)
EXTENDS TopicWindow

CONSTANTS tick, runnow, t1, t2

BothWorkers == {tick, runnow}
OneWorker   == {tick}
OnlyRunNow  == {runnow}
TwoTopics   == {t1, t2}
OneTopic    == {t1}
AllHeaders  == {t1, t2, Invalid, Garbled}
=============================================================================
