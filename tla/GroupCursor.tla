----------------------------- MODULE GroupCursor -----------------------------
(***************************************************************************)
(* What a Kafka consumer group promises the forwarding stages: however     *)
(* many processes read the topic under one group id, together they move a  *)
(* single cursor over one log.  The cursor takes the messages one by one,  *)
(* and goes back, to the committed offset and no further, only when a      *)
(* fault (a crash, a lost group session) is counted.                       *)
(***************************************************************************)
EXTENDS Naturals, Sequences

CONSTANT Headers   \* what a message's headers may say

VARIABLES
  log,        \* the messages of the source partition, oldest first
  cursor,     \* how many of them have been handed to the group
  committed,  \* how many the broker remembers as consumed
  faults      \* how often the cursor went back

cursorVars == <<log, cursor, committed, faults>>

Init ==
  /\ log = <<>>
  /\ cursor = 0
  /\ committed = 0
  /\ faults = 0

\* Upstream appends a message.
Publish ==
  /\ \E h \in Headers : log' = Append(log, h)
  /\ UNCHANGED <<cursor, committed, faults>>

\* The next message goes to some member of the group.
Take ==
  /\ cursor < Len(log)
  /\ cursor' = cursor + 1
  /\ UNCHANGED <<log, committed, faults>>

\* The broker records the cursor.
Commit ==
  /\ committed' = cursor
  /\ UNCHANGED <<log, cursor, faults>>

\* The member holding the partition is gone without committing.
Rewind ==
  /\ cursor' = committed
  /\ faults' = faults + 1
  /\ UNCHANGED <<log, committed>>

Next == Publish \/ Take \/ Commit \/ Rewind

Spec == Init /\ [][Next]_cursorVars
=============================================================================
