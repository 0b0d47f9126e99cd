-------------------------- MODULE TopicWindow_proofs --------------------------
(***************************************************************************)
(* Proofs about TopicWindow, for any number of processes, topics and       *)
(* messages: an offset is committed long before the broker has the copy,   *)
(* and still no message disappears without a trace, none is sent twice     *)
(* without a fault, and the group is one cursor.                           *)
(***************************************************************************)
EXTENDS TopicWindow, TLAPS

\* A message is in hand exactly while it is being forwarded.
HandOK ==
  \A w \in Workers :
    /\ pc[w] = "forwarding" => hand[w] \in Offsets /\ hand[w] <= Len(log)
    /\ pc[w] # "forwarding" => hand[w] = 0

\* The owner's session is open, and its offset is not behind the committed one.
CursorOK ==
  /\ committed <= Len(log)
  /\ owner # NoWorker => /\ committed <= pos[owner] /\ pos[owner] <= Len(log)
                         /\ pc[owner] \in {"polling", "forwarding", "flushing", "closing"}

\* After the flush, whatever is still queued has been warned about.
FlushedOK ==
  \A w \in Workers :
    pc[w] \in {"closing", "waiting"} => OffsetsOf(queue[w]) \subseteq reported

\* Every message the cursor has passed was polled, and is accounted for.
TraceOK ==
  \A o \in Offsets : /\ o <= Cursor => attempts[o] > 0
                     /\ attempts[o] > 0 => Accounted(o)

\* A message ahead of the cursor was polled at most once per fault.
AttemptsOK ==
  /\ \A o \in Offsets : /\ attempts[o] <= faults + 1
                        /\ o > Cursor => attempts[o] <= faults
  /\ \A c \in AllCopies : c.try <= attempts[c.off]

IInv ==
  /\ TypeOK /\ HandOK /\ CursorOK /\ FlushedOK /\ TraceOK /\ AttemptsOK
  /\ RoutedByOwnHeaders
-----------------------------------------------------------------------------

(* The offsets of any set of copies are offsets of the source log. *)
LEMMA OffsetsOfCopies ==
  ASSUME NEW S, S \subseteq Copies PROVE OffsetsOf(S) \subseteq Offsets
BY DEF OffsetsOf, Copies

(* Type correctness: a step of TopicWindow keeps every variable in its type. *)
LEMMA TypeStep == TypeOK /\ HandOK /\ [Next]_vars => TypeOK'
<1> SUFFICES ASSUME TypeOK, HandOK, [Next]_vars PROVE TypeOK'
  OBVIOUS
<1> USE TopicWindowAssumption DEF TopicWindowAssumption, TypeOK, Offsets, Copies, States, HandOK
<1>1. ASSUME NEW h \in Headers, Publish(h) PROVE TypeOK'
  <2>1. log' \in Seq(Headers) /\ Len(log') <= MaxMessages
    BY <1>1 DEF Publish
  <2> HIDE DEF Copies, HandOK
  <2> QED
    BY <1>1, <2>1 DEF Publish, group, process, wire
<1>2. ASSUME NEW w \in Workers, OpenWindow(w) PROVE TypeOK'
  BY <1>2 DEF OpenWindow, InitialTargets, group, process, wire
<1>3. ASSUME NEW w \in Workers, Expire(w) PROVE TypeOK'
  BY <1>3 DEF Expire, group, process, wire
<1>4. ASSUME NEW w \in Workers, Poll(w) PROVE TypeOK'
  <2>1. pos[w] + 1 \in Offsets /\ pos[w] + 1 \in Nat
    BY <1>4 DEF Poll
  <2>2. attempts' \in [Offsets -> Nat] /\ pos' \in [Workers -> Nat] /\ hand' \in [Workers -> Nat]
    BY <1>4, <2>1 DEF Poll
  <2> QED
    BY <1>4, <2>2 DEF Poll, group, process, wire
<1>5. ASSUME NEW w \in Workers, DeadlineSeen(w) PROVE TypeOK'
  BY <1>5 DEF DeadlineSeen, group, process, wire
<1>6. ASSUME NEW w \in Workers, BrokerError(w) PROVE TypeOK'
  BY <1>6 DEF BrokerError, group, process, wire
<1>7. ASSUME NEW w \in Workers, IdleExit(w) PROVE TypeOK'
  BY <1>7 DEF IdleExit, group, process, wire
<1>8. ASSUME NEW w \in Workers, Skip(w) PROVE TypeOK'
  BY <1>8 DEF Skip, group, process, wire
<1>9. ASSUME NEW w \in Workers, Reject(w) PROVE TypeOK'
  BY <1>9 DEF Reject, group, process, wire
<1>10. ASSUME NEW w \in Workers, Forward(w) PROVE TypeOK'
  <2>1. /\ [off |-> hand[w], topic |-> dest'[w], try |-> attempts[hand[w]]] \in Copies
        /\ dest' \in [Workers -> Topics \cup {NoTopic}] /\ dest'[w] \in Topics
    BY <1>10 DEF Forward, EnsureTarget
  <2>2. queue' \in [Workers -> SUBSET Copies]
    BY <1>10, <2>1 DEF Forward
  <2>3. exists' \subseteq Topics
    BY <1>10, <2>1 DEF Forward, EnsureTarget
  <2> QED
    BY <1>10, <2>1, <2>2, <2>3 DEF Forward, group, process, wire
<1>11. ASSUME NEW w \in Workers, ForwardFails(w) PROVE TypeOK'
  BY <1>11 DEF ForwardFails, group, process, wire, EnsureTarget, Route
<1>12. ASSUME NEW w \in Workers, Flush(w) PROVE TypeOK'
  <2>1. OffsetsOf(queue[w]) \subseteq Offsets
    BY OffsetsOfCopies
  <2> QED
    BY <1>12, <2>1 DEF Flush, Pending, group, process, wire
<1>13. ASSUME NEW w \in Workers, Close(w) PROVE TypeOK'
  <2>1. committed' \in Nat /\ owner' \in Workers \cup {NoWorker} /\ pc' \in [Workers -> States]
    BY <1>13 DEF Close, Release
  <2>2. queue' \in [Workers -> SUBSET Copies] /\ adrift' \subseteq Copies
    BY <1>13 DEF Close, Release, Abandon
  <2> QED
    BY <1>13, <2>1, <2>2 DEF Close, Release, group, process, wire
<1>14. ASSUME NEW w \in Workers, Retry(w) PROVE TypeOK'
  BY <1>14 DEF Retry, group, process, wire, Abandon
<1>15. ASSUME NEW w \in Workers, Assign(w) PROVE TypeOK'
  BY <1>15 DEF Assign, group, process, wire
<1>16. ASSUME NEW w \in Workers, Revoke(w) PROVE TypeOK'
  BY <1>16 DEF Revoke, Release, group, process, wire
<1>17. ASSUME NEW w \in Workers, AutoCommit(w) PROVE TypeOK'
  BY <1>17 DEF AutoCommit, group, process, wire
<1>18. ASSUME NEW w \in Workers, LoseSession(w) PROVE TypeOK'
  BY <1>18 DEF LoseSession, group, process, wire
<1>19. ASSUME NEW w \in Workers, Terminate(w) PROVE TypeOK'
  BY <1>19 DEF Terminate, group, process, wire
<1>20. ASSUME NEW w \in Workers, Crash(w) PROVE TypeOK'
  <2>1. OffsetsOf(queue[w]) \cup ({hand[w]} \ {0}) \subseteq Offsets
    BY OffsetsOfCopies DEF HandOK
  <2>2. owner' \in Workers \cup {NoWorker} /\ faults' \in Nat
    BY <1>20 DEF Crash
  <2> QED
    BY <1>20, <2>1, <2>2 DEF Crash, group, process, wire
<1>21. ASSUME NEW w \in Workers, NEW c \in queue[w], Deliver(w, c) PROVE TypeOK'
  BY <1>21 DEF Deliver, group, process, wire
<1>22. ASSUME NEW w \in Workers, NEW c \in queue[w], DeliveryFails(w, c) PROVE TypeOK'
  <2>1. c.off \in Offsets
    OBVIOUS
  <2>2. queue' \in [Workers -> SUBSET Copies]
    BY <1>22 DEF DeliveryFails
  <2> QED
    BY <1>22, <2>1, <2>2 DEF DeliveryFails, group, process, wire
<1>23. ASSUME NEW c \in adrift, LateDelivery(c) PROVE TypeOK'
  BY <1>23 DEF LateDelivery, group, process, wire
<1>24. CASE UNCHANGED vars
  BY <1>24 DEF vars, group, process, wire
<1> QED
  BY <1>1, <1>2, <1>3, <1>4, <1>5, <1>6, <1>7, <1>8, <1>9, <1>10, <1>11, <1>12, <1>13, <1>14, <1>15, <1>16, <1>17, <1>18, <1>19, <1>20, <1>21, <1>22, <1>23, <1>24 DEF Next, WorkerStep, GroupStep, BrokerStep

(* A message is taken in hand by a poll and leaves it with the forwarding. *)
LEMMA HandStep == TypeOK /\ HandOK /\ [Next]_vars => HandOK'
<1> SUFFICES ASSUME TypeOK, HandOK, [Next]_vars PROVE HandOK'
  OBVIOUS
<1> USE TopicWindowAssumption DEF TopicWindowAssumption, TypeOK, HandOK, Offsets, States
<1>1. ASSUME NEW h \in Headers, Publish(h) PROVE HandOK'
  BY <1>1 DEF Publish, group, process, wire
<1>2. ASSUME NEW w \in Workers, OpenWindow(w) PROVE HandOK'
  BY <1>2 DEF OpenWindow, InitialTargets, group, process, wire
<1>3. ASSUME NEW w \in Workers, Expire(w) PROVE HandOK'
  BY <1>3 DEF Expire, group, process, wire
<1>4. ASSUME NEW w \in Workers, Poll(w) PROVE HandOK'
  <2>1. pos[w] + 1 \in Offsets /\ hand'[w] = pos[w] + 1 /\ pc'[w] = "forwarding"
    BY <1>4 DEF Poll
  <2> QED
    BY <1>4, <2>1 DEF Poll, group, process, wire
<1>5. ASSUME NEW w \in Workers, DeadlineSeen(w) PROVE HandOK'
  BY <1>5 DEF DeadlineSeen, group, process, wire
<1>6. ASSUME NEW w \in Workers, BrokerError(w) PROVE HandOK'
  BY <1>6 DEF BrokerError, group, process, wire
<1>7. ASSUME NEW w \in Workers, IdleExit(w) PROVE HandOK'
  BY <1>7 DEF IdleExit, group, process, wire
<1>8. ASSUME NEW w \in Workers, Skip(w) PROVE HandOK'
  BY <1>8 DEF Skip, group, process, wire
<1>9. ASSUME NEW w \in Workers, Reject(w) PROVE HandOK'
  BY <1>9 DEF Reject, group, process, wire
<1>10. ASSUME NEW w \in Workers, Forward(w) PROVE HandOK'
  BY <1>10 DEF Forward, group, process, wire, EnsureTarget
<1>11. ASSUME NEW w \in Workers, ForwardFails(w) PROVE HandOK'
  BY <1>11 DEF ForwardFails, group, process, wire, EnsureTarget
<1>12. ASSUME NEW w \in Workers, Flush(w) PROVE HandOK'
  BY <1>12 DEF Flush, Pending, group, process, wire
<1>13. ASSUME NEW w \in Workers, Close(w) PROVE HandOK'
  BY <1>13 DEF Close, Release, group, process, wire, Abandon
<1>14. ASSUME NEW w \in Workers, Retry(w) PROVE HandOK'
  BY <1>14 DEF Retry, group, process, wire, Abandon
<1>15. ASSUME NEW w \in Workers, Assign(w) PROVE HandOK'
  BY <1>15 DEF Assign, group, process, wire
<1>16. ASSUME NEW w \in Workers, Revoke(w) PROVE HandOK'
  BY <1>16 DEF Revoke, Release, group, process, wire
<1>17. ASSUME NEW w \in Workers, AutoCommit(w) PROVE HandOK'
  BY <1>17 DEF AutoCommit, group, process, wire
<1>18. ASSUME NEW w \in Workers, LoseSession(w) PROVE HandOK'
  BY <1>18 DEF LoseSession, group, process, wire
<1>19. ASSUME NEW w \in Workers, Terminate(w) PROVE HandOK'
  BY <1>19 DEF Terminate, group, process, wire
<1>20. ASSUME NEW w \in Workers, Crash(w) PROVE HandOK'
  BY <1>20 DEF Crash, group, process, wire
<1>21. ASSUME NEW w \in Workers, NEW c \in queue[w], Deliver(w, c) PROVE HandOK'
  BY <1>21 DEF Deliver, group, process, wire
<1>22. ASSUME NEW w \in Workers, NEW c \in queue[w], DeliveryFails(w, c) PROVE HandOK'
  BY <1>22 DEF DeliveryFails, group, process, wire
<1>23. ASSUME NEW c \in adrift, LateDelivery(c) PROVE HandOK'
  BY <1>23 DEF LateDelivery, group, process, wire
<1>24. CASE UNCHANGED vars
  BY <1>24 DEF vars, group, process, wire
<1> QED
  BY <1>1, <1>2, <1>3, <1>4, <1>5, <1>6, <1>7, <1>8, <1>9, <1>10, <1>11, <1>12, <1>13, <1>14, <1>15, <1>16, <1>17, <1>18, <1>19, <1>20, <1>21, <1>22, <1>23, <1>24
  DEF Next, WorkerStep, GroupStep, BrokerStep

(* The cursor stays between the committed offset and the end of the log. *)
LEMMA CursorStep == TypeOK /\ HandOK /\ CursorOK /\ [Next]_vars => CursorOK'
<1> SUFFICES ASSUME TypeOK, HandOK, CursorOK, [Next]_vars PROVE CursorOK'
  OBVIOUS
<1> USE TopicWindowAssumption DEF TopicWindowAssumption, TypeOK, CursorOK, States
<1>1. ASSUME NEW h \in Headers, Publish(h) PROVE CursorOK'
  BY <1>1 DEF Publish, group, process, wire
<1>2. ASSUME NEW w \in Workers, OpenWindow(w) PROVE CursorOK'
  BY <1>2 DEF OpenWindow, InitialTargets, group, process, wire
<1>3. ASSUME NEW w \in Workers, Expire(w) PROVE CursorOK'
  BY <1>3 DEF Expire, group, process, wire
<1>4. ASSUME NEW w \in Workers, Poll(w) PROVE CursorOK'
  BY <1>4 DEF Poll, group, process, wire
<1>5. ASSUME NEW w \in Workers, DeadlineSeen(w) PROVE CursorOK'
  BY <1>5 DEF DeadlineSeen, group, process, wire
<1>6. ASSUME NEW w \in Workers, BrokerError(w) PROVE CursorOK'
  BY <1>6 DEF BrokerError, group, process, wire
<1>7. ASSUME NEW w \in Workers, IdleExit(w) PROVE CursorOK'
  BY <1>7 DEF IdleExit, group, process, wire
<1>8. ASSUME NEW w \in Workers, Skip(w) PROVE CursorOK'
  BY <1>8 DEF Skip, group, process, wire
<1>9. ASSUME NEW w \in Workers, Reject(w) PROVE CursorOK'
  BY <1>9 DEF Reject, group, process, wire
<1>10. ASSUME NEW w \in Workers, Forward(w) PROVE CursorOK'
  BY <1>10 DEF Forward, group, process, wire, EnsureTarget
<1>11. ASSUME NEW w \in Workers, ForwardFails(w) PROVE CursorOK'
  BY <1>11 DEF ForwardFails, group, process, wire, EnsureTarget
<1>12. ASSUME NEW w \in Workers, Flush(w) PROVE CursorOK'
  BY <1>12 DEF Flush, Pending, group, process, wire
<1>13. ASSUME NEW w \in Workers, Close(w) PROVE CursorOK'
  BY <1>13 DEF Close, Release, group, process, wire, Abandon
<1>14. ASSUME NEW w \in Workers, Retry(w) PROVE CursorOK'
  BY <1>14 DEF Retry, group, process, wire, Abandon
<1>15. ASSUME NEW w \in Workers, Assign(w) PROVE CursorOK'
  BY <1>15 DEF Assign, group, process, wire
<1>16. ASSUME NEW w \in Workers, Revoke(w) PROVE CursorOK'
  BY <1>16 DEF Revoke, Release, group, process, wire
<1>17. ASSUME NEW w \in Workers, AutoCommit(w) PROVE CursorOK'
  BY <1>17 DEF AutoCommit, group, process, wire
<1>18. ASSUME NEW w \in Workers, LoseSession(w) PROVE CursorOK'
  BY <1>18 DEF LoseSession, group, process, wire
<1>19. ASSUME NEW w \in Workers, Terminate(w) PROVE CursorOK'
  BY <1>19 DEF Terminate, group, process, wire
<1>20. ASSUME NEW w \in Workers, Crash(w) PROVE CursorOK'
  BY <1>20 DEF Crash, group, process, wire
<1>21. ASSUME NEW w \in Workers, NEW c \in queue[w], Deliver(w, c) PROVE CursorOK'
  BY <1>21 DEF Deliver, group, process, wire
<1>22. ASSUME NEW w \in Workers, NEW c \in queue[w], DeliveryFails(w, c) PROVE CursorOK'
  BY <1>22 DEF DeliveryFails, group, process, wire
<1>23. ASSUME NEW c \in adrift, LateDelivery(c) PROVE CursorOK'
  BY <1>23 DEF LateDelivery, group, process, wire
<1>24. CASE UNCHANGED vars
  BY <1>24 DEF vars, group, process, wire
<1> QED
  BY <1>1, <1>2, <1>3, <1>4, <1>5, <1>6, <1>7, <1>8, <1>9, <1>10, <1>11, <1>12, <1>13, <1>14, <1>15, <1>16, <1>17, <1>18, <1>19, <1>20, <1>21, <1>22, <1>23, <1>24
  DEF Next, WorkerStep, GroupStep, BrokerStep

(* What a flush left in the queue was warned about. *)
LEMMA FlushedStep == TypeOK /\ FlushedOK /\ [Next]_vars => FlushedOK'
<1> SUFFICES ASSUME TypeOK, FlushedOK, [Next]_vars PROVE FlushedOK'
  OBVIOUS
<1> USE DEF TypeOK, FlushedOK, States, OffsetsOf
<1>1. ASSUME NEW h \in Headers, Publish(h) PROVE FlushedOK'
  BY <1>1 DEF Publish, group, process, wire
<1>2. ASSUME NEW w \in Workers, OpenWindow(w) PROVE FlushedOK'
  BY <1>2 DEF OpenWindow, InitialTargets, group, process, wire
<1>3. ASSUME NEW w \in Workers, Expire(w) PROVE FlushedOK'
  BY <1>3 DEF Expire, group, process, wire
<1>4. ASSUME NEW w \in Workers, Poll(w) PROVE FlushedOK'
  BY <1>4 DEF Poll, group, process, wire
<1>5. ASSUME NEW w \in Workers, DeadlineSeen(w) PROVE FlushedOK'
  BY <1>5 DEF DeadlineSeen, group, process, wire
<1>6. ASSUME NEW w \in Workers, BrokerError(w) PROVE FlushedOK'
  BY <1>6 DEF BrokerError, group, process, wire
<1>7. ASSUME NEW w \in Workers, IdleExit(w) PROVE FlushedOK'
  BY <1>7 DEF IdleExit, group, process, wire
<1>8. ASSUME NEW w \in Workers, Skip(w) PROVE FlushedOK'
  BY <1>8 DEF Skip, group, process, wire
<1>9. ASSUME NEW w \in Workers, Reject(w) PROVE FlushedOK'
  BY <1>9 DEF Reject, group, process, wire
<1>10. ASSUME NEW w \in Workers, Forward(w) PROVE FlushedOK'
  BY <1>10 DEF Forward, group, process, wire, EnsureTarget
<1>11. ASSUME NEW w \in Workers, ForwardFails(w) PROVE FlushedOK'
  BY <1>11 DEF ForwardFails, group, process, wire, EnsureTarget
<1>12. ASSUME NEW w \in Workers, Flush(w) PROVE FlushedOK'
  BY <1>12 DEF Flush, Pending, group, process, wire
<1>13. ASSUME NEW w \in Workers, Close(w) PROVE FlushedOK'
  BY <1>13 DEF Close, Release, group, process, wire, Abandon
<1>14. ASSUME NEW w \in Workers, Retry(w) PROVE FlushedOK'
  BY <1>14 DEF Retry, group, process, wire, Abandon
<1>15. ASSUME NEW w \in Workers, Assign(w) PROVE FlushedOK'
  BY <1>15 DEF Assign, group, process, wire
<1>16. ASSUME NEW w \in Workers, Revoke(w) PROVE FlushedOK'
  BY <1>16 DEF Revoke, Release, group, process, wire
<1>17. ASSUME NEW w \in Workers, AutoCommit(w) PROVE FlushedOK'
  BY <1>17 DEF AutoCommit, group, process, wire
<1>18. ASSUME NEW w \in Workers, LoseSession(w) PROVE FlushedOK'
  BY <1>18 DEF LoseSession, group, process, wire
<1>19. ASSUME NEW w \in Workers, Terminate(w) PROVE FlushedOK'
  BY <1>19 DEF Terminate, group, process, wire
<1>20. ASSUME NEW w \in Workers, Crash(w) PROVE FlushedOK'
  BY <1>20 DEF Crash, group, process, wire
<1>21. ASSUME NEW w \in Workers, NEW c \in queue[w], Deliver(w, c) PROVE FlushedOK'
  BY <1>21 DEF Deliver, group, process, wire
<1>22. ASSUME NEW w \in Workers, NEW c \in queue[w], DeliveryFails(w, c) PROVE FlushedOK'
  BY <1>22 DEF DeliveryFails, group, process, wire
<1>23. ASSUME NEW c \in adrift, LateDelivery(c) PROVE FlushedOK'
  BY <1>23 DEF LateDelivery, group, process, wire
<1>24. CASE UNCHANGED vars
  BY <1>24 DEF vars, group, process, wire
<1> QED
  BY <1>1, <1>2, <1>3, <1>4, <1>5, <1>6, <1>7, <1>8, <1>9, <1>10, <1>11, <1>12, <1>13, <1>14, <1>15, <1>16, <1>17, <1>18, <1>19, <1>20, <1>21, <1>22, <1>23, <1>24
  DEF Next, WorkerStep, GroupStep, BrokerStep

(* Ending a window moves copies from its queue, and loses none. *)
LEMMA AbandonKeepsCopies ==
  ASSUME TypeOK, NEW w \in Workers, sent' = sent,
         Abandon(w) \/ UNCHANGED <<adrift, queue>>
  PROVE  AllCopies' = AllCopies
<1>1. CASE Abandon(w)
  <2>1. queue'[w] = {} /\ \A v \in Workers \ {w} : queue'[v] = queue[v]
    BY <1>1 DEF Abandon, TypeOK
  <2> QED
    BY <1>1, <2>1 DEF Abandon, AllCopies
<1> QED
  BY <1>1 DEF AllCopies

(* Every message the cursor has passed was polled and is accounted for. *)
LEMMA TraceStep == TypeOK /\ HandOK /\ CursorOK /\ FlushedOK /\ TraceOK /\ [Next]_vars => TraceOK'
<1> SUFFICES ASSUME TypeOK, HandOK, CursorOK, FlushedOK, TraceOK, [Next]_vars PROVE TraceOK'
  OBVIOUS
<1> USE TopicWindowAssumption DEF TopicWindowAssumption, TypeOK, HandOK, CursorOK, TraceOK, States, Offsets, Cursor, Accounted, OffsetsOf
<1>1. ASSUME NEW h \in Headers, Publish(h) PROVE TraceOK'
  BY <1>1 DEF Publish, group, process, wire
<1>2. ASSUME NEW w \in Workers, OpenWindow(w) PROVE TraceOK'
  BY <1>2 DEF OpenWindow, InitialTargets, group, process, wire
<1>3. ASSUME NEW w \in Workers, Expire(w) PROVE TraceOK'
  BY <1>3 DEF Expire, group, process, wire
<1>4. ASSUME NEW w \in Workers, Poll(w) PROVE TraceOK'
  <2>1. pos[w] + 1 \in Offsets /\ hand[w] = 0 /\ Cursor = pos[w] /\ Cursor' = pos[w] + 1
    BY <1>4 DEF Poll, group
  <2>2. ASSUME NEW o \in Offsets, attempts'[o] > 0 PROVE Accounted(o)'
    <3>1. CASE o = pos[w] + 1
      BY <1>4, <3>1 DEF Poll
    <3>2. CASE o # pos[w] + 1
      <4>1. Accounted(o)
        BY <1>4, <2>1, <2>2, <3>2 DEF Poll, TraceOK
      <4> QED
        BY <1>4, <2>1, <3>2, <4>1 DEF Poll, wire
    <3> QED
      BY <3>1, <3>2
  <2>3. ASSUME NEW o \in Offsets, o <= Cursor' PROVE attempts'[o] > 0
    BY <1>4, <2>1, <2>3 DEF Poll, TraceOK
  <2> QED
    BY <2>2, <2>3 DEF TraceOK
<1>5. ASSUME NEW w \in Workers, DeadlineSeen(w) PROVE TraceOK'
  BY <1>5 DEF DeadlineSeen, group, process, wire
<1>6. ASSUME NEW w \in Workers, BrokerError(w) PROVE TraceOK'
  BY <1>6 DEF BrokerError, group, process, wire
<1>7. ASSUME NEW w \in Workers, IdleExit(w) PROVE TraceOK'
  BY <1>7 DEF IdleExit, group, process, wire
<1>8. ASSUME NEW w \in Workers, Skip(w) PROVE TraceOK'
  BY <1>8 DEF Skip, group, process, wire
<1>9. ASSUME NEW w \in Workers, Reject(w) PROVE TraceOK'
  BY <1>9 DEF Reject, group, process, wire
<1>10. ASSUME NEW w \in Workers, Forward(w) PROVE TraceOK'
  <2>1. Cursor' = Cursor /\ attempts' = attempts
    BY <1>10 DEF Forward, group, process, EnsureTarget
  <2>2. ASSUME NEW o \in Offsets, Accounted(o) PROVE Accounted(o)'
    <3>1. /\ sent' = sent /\ reported' = reported /\ dropped' = dropped
          /\ \A v \in Workers : queue[v] \subseteq queue'[v]
          /\ \A v \in Workers \ {w} : hand'[v] = hand[v]
      BY <1>10 DEF Forward
    <3>2. CASE o = hand[w]
      <4>1. [off |-> o, topic |-> dest'[w], try |-> attempts[o]] \in queue'[w]
        BY <1>10, <3>2 DEF Forward
      <4> QED
        BY <4>1 DEF Accounted, OffsetsOf
    <3>3. CASE o # hand[w]
      <4>1. CASE \E v \in Workers : o \in OffsetsOf(queue[v])
        BY <3>1, <4>1
      <4>2. CASE \E v \in Workers : o = hand[v]
        BY <3>1, <3>3, <4>2
      <4>3. CASE o \in OffsetsOf(sent) \cup reported \cup dropped
        BY <3>1, <4>3
      <4> HIDE DEF OffsetsOf
      <4> QED
        BY <2>2, <4>1, <4>2, <4>3
    <3> QED
      BY <3>2, <3>3
  <2> QED
    BY <2>1, <2>2 DEF TraceOK
<1>11. ASSUME NEW w \in Workers, ForwardFails(w) PROVE TraceOK'
  BY <1>11 DEF ForwardFails, group, process, wire, EnsureTarget
<1>12. ASSUME NEW w \in Workers, Flush(w) PROVE TraceOK'
  BY <1>12 DEF Flush, Pending, group, process, wire
<1>13. ASSUME NEW w \in Workers, Close(w) PROVE TraceOK'
  <2>1. Cursor' = Cursor /\ attempts' = attempts
    BY <1>13 DEF Close, Release, group, process, Abandon
  <2>2. ASSUME NEW o \in Offsets, Accounted(o) PROVE Accounted(o)'
    BY <1>13, <2>2 DEF Close, Release, group, process, wire, Abandon, FlushedOK
  <2> QED
    BY <2>1, <2>2 DEF TraceOK
<1>14. ASSUME NEW w \in Workers, Retry(w) PROVE TraceOK'
  <2>1. Cursor' = Cursor /\ attempts' = attempts
    BY <1>14 DEF Retry, group, process, Abandon
  <2>2. ASSUME NEW o \in Offsets, Accounted(o) PROVE Accounted(o)'
    BY <1>14, <2>2 DEF Retry, group, process, wire, Abandon, FlushedOK
  <2> QED
    BY <2>1, <2>2 DEF TraceOK
<1>15. ASSUME NEW w \in Workers, Assign(w) PROVE TraceOK'
  BY <1>15 DEF Assign, group, process, wire
<1>16. ASSUME NEW w \in Workers, Revoke(w) PROVE TraceOK'
  BY <1>16 DEF Revoke, Release, group, process, wire
<1>17. ASSUME NEW w \in Workers, AutoCommit(w) PROVE TraceOK'
  BY <1>17 DEF AutoCommit, group, process, wire
<1>18. ASSUME NEW w \in Workers, LoseSession(w) PROVE TraceOK'
  <2>1. Cursor' <= Cursor /\ attempts' = attempts
    BY <1>18 DEF LoseSession, group
  <2>2. ASSUME NEW o \in Offsets, Accounted(o) PROVE Accounted(o)'
    BY <1>18, <2>2 DEF LoseSession, process, wire
  <2>3. Cursor \in Nat /\ Cursor' \in Nat
    BY <1>18 DEF LoseSession, group
  <2> HIDE DEF Cursor, Accounted
  <2> QED
    BY <2>1, <2>2, <2>3 DEF TraceOK
<1>19. ASSUME NEW w \in Workers, Terminate(w) PROVE TraceOK'
  BY <1>19 DEF Terminate, group, process, wire
<1>20. ASSUME NEW w \in Workers, Crash(w) PROVE TraceOK'
  <2>1. Cursor' <= Cursor /\ attempts' = attempts
    BY <1>20 DEF Crash, group
  <2>2. ASSUME NEW o \in Offsets, Accounted(o) PROVE Accounted(o)'
    BY <1>20, <2>2 DEF Crash, process, wire
  <2>3. Cursor \in Nat /\ Cursor' \in Nat
    BY <1>20 DEF Crash, group
  <2> HIDE DEF Cursor, Accounted
  <2> QED
    BY <2>1, <2>2, <2>3 DEF TraceOK
<1>21. ASSUME NEW w \in Workers, NEW c \in queue[w], Deliver(w, c) PROVE TraceOK'
  <2>1. Cursor' = Cursor /\ attempts' = attempts
    BY <1>21 DEF Deliver, group, process
  <2>2. ASSUME NEW o \in Offsets, Accounted(o) PROVE Accounted(o)'
    BY <1>21, <2>2 DEF Deliver, group, process, wire
  <2> QED
    BY <2>1, <2>2 DEF TraceOK
<1>22. ASSUME NEW w \in Workers, NEW c \in queue[w], DeliveryFails(w, c) PROVE TraceOK'
  <2>1. Cursor' = Cursor /\ attempts' = attempts
    BY <1>22 DEF DeliveryFails, group, process
  <2>2. ASSUME NEW o \in Offsets, Accounted(o) PROVE Accounted(o)'
    BY <1>22, <2>2 DEF DeliveryFails, group, process, wire
  <2> QED
    BY <2>1, <2>2 DEF TraceOK
<1>23. ASSUME NEW c \in adrift, LateDelivery(c) PROVE TraceOK'
  BY <1>23 DEF LateDelivery, group, process, wire
<1>24. CASE UNCHANGED vars
  BY <1>24 DEF vars, group, process, wire
<1> QED
  BY <1>1, <1>2, <1>3, <1>4, <1>5, <1>6, <1>7, <1>8, <1>9, <1>10, <1>11, <1>12, <1>13, <1>14, <1>15, <1>16, <1>17, <1>18, <1>19, <1>20, <1>21, <1>22, <1>23, <1>24
  DEF Next, WorkerStep, GroupStep, BrokerStep

(* A message ahead of the cursor was polled at most once per fault. *)
LEMMA AttemptsStep == TypeOK /\ HandOK /\ CursorOK /\ AttemptsOK /\ [Next]_vars => AttemptsOK'
<1> SUFFICES ASSUME TypeOK, HandOK, CursorOK, AttemptsOK, [Next]_vars PROVE AttemptsOK'
  OBVIOUS
<1> USE TopicWindowAssumption DEF TopicWindowAssumption, TypeOK, HandOK, CursorOK, AttemptsOK, States, Offsets, Cursor, Copies, AllCopies
<1>1. ASSUME NEW h \in Headers, Publish(h) PROVE AttemptsOK'
  BY <1>1 DEF Publish, group, process, wire
<1>2. ASSUME NEW w \in Workers, OpenWindow(w) PROVE AttemptsOK'
  BY <1>2 DEF OpenWindow, InitialTargets, group, process, wire
<1>3. ASSUME NEW w \in Workers, Expire(w) PROVE AttemptsOK'
  BY <1>3 DEF Expire, group, process, wire
<1>4. ASSUME NEW w \in Workers, Poll(w) PROVE AttemptsOK'
  <2>1. pos[w] + 1 \in Offsets /\ Cursor = pos[w] /\ Cursor' = pos[w] + 1
    BY <1>4 DEF Poll, group
  <2>2. attempts' = [attempts EXCEPT ![pos[w] + 1] = @ + 1] /\ faults' = faults
    BY <1>4 DEF Poll
  <2>3. \A o \in Offsets : attempts[o] <= attempts'[o]
    BY <2>1, <2>2
  <2>4. \A o \in Offsets : /\ attempts'[o] <= faults' + 1
                           /\ o > Cursor' => attempts'[o] <= faults'
    <3> SUFFICES ASSUME NEW o \in Offsets
                 PROVE  /\ attempts'[o] <= faults' + 1
                        /\ o > Cursor' => attempts'[o] <= faults'
      OBVIOUS
    <3>1. attempts[o] <= faults + 1 /\ (o > Cursor => attempts[o] <= faults)
      BY DEF AttemptsOK
    <3>2. CASE o = pos[w] + 1
      BY <2>1, <2>2, <3>1, <3>2
    <3>3. CASE o # pos[w] + 1
      BY <2>1, <2>2, <3>1, <3>3
    <3> QED
      BY <3>2, <3>3
  <2>5. AllCopies' = AllCopies /\ AllCopies \subseteq Copies
    BY <1>4 DEF Poll, wire
  <2>6. ASSUME NEW c \in AllCopies PROVE c.try <= attempts'[c.off]
    <3>1. c.off \in Offsets /\ c.try \in Nat /\ c.try <= attempts[c.off]
      BY <2>5 DEF AttemptsOK
    <3>2. attempts[c.off] \in Nat /\ attempts'[c.off] \in Nat
      BY <2>1, <2>2, <3>1
    <3> QED
      BY <2>3, <3>1, <3>2
  <2> QED
    BY <2>4, <2>5, <2>6 DEF AttemptsOK
<1>5. ASSUME NEW w \in Workers, DeadlineSeen(w) PROVE AttemptsOK'
  BY <1>5 DEF DeadlineSeen, group, process, wire
<1>6. ASSUME NEW w \in Workers, BrokerError(w) PROVE AttemptsOK'
  BY <1>6 DEF BrokerError, group, process, wire
<1>7. ASSUME NEW w \in Workers, IdleExit(w) PROVE AttemptsOK'
  BY <1>7 DEF IdleExit, group, process, wire
<1>8. ASSUME NEW w \in Workers, Skip(w) PROVE AttemptsOK'
  BY <1>8 DEF Skip, group, process, wire
<1>9. ASSUME NEW w \in Workers, Reject(w) PROVE AttemptsOK'
  BY <1>9 DEF Reject, group, process, wire
<1>10. ASSUME NEW w \in Workers, Forward(w) PROVE AttemptsOK'
  BY <1>10 DEF Forward, group, process, wire, EnsureTarget
<1>11. ASSUME NEW w \in Workers, ForwardFails(w) PROVE AttemptsOK'
  BY <1>11 DEF ForwardFails, group, process, wire, EnsureTarget
<1>12. ASSUME NEW w \in Workers, Flush(w) PROVE AttemptsOK'
  BY <1>12 DEF Flush, Pending, group, process, wire
<1>13. ASSUME NEW w \in Workers, Close(w) PROVE AttemptsOK'
  <2>1. AllCopies' = AllCopies
    BY <1>13, AbandonKeepsCopies DEF Close, Release
  <2> HIDE DEF AllCopies
  <2> QED
    BY <1>13, <2>1 DEF Close, Release, group, process, wire
<1>14. ASSUME NEW w \in Workers, Retry(w) PROVE AttemptsOK'
  <2>1. AllCopies' = AllCopies
    BY <1>14, AbandonKeepsCopies DEF Retry
  <2> HIDE DEF AllCopies
  <2> QED
    BY <1>14, <2>1 DEF Retry, group, process, wire
<1>15. ASSUME NEW w \in Workers, Assign(w) PROVE AttemptsOK'
  BY <1>15 DEF Assign, group, process, wire
<1>16. ASSUME NEW w \in Workers, Revoke(w) PROVE AttemptsOK'
  BY <1>16 DEF Revoke, Release, group, process, wire
<1>17. ASSUME NEW w \in Workers, AutoCommit(w) PROVE AttemptsOK'
  BY <1>17 DEF AutoCommit, group, process, wire
<1>18. ASSUME NEW w \in Workers, LoseSession(w) PROVE AttemptsOK'
  BY <1>18 DEF LoseSession, group, process, wire
<1>19. ASSUME NEW w \in Workers, Terminate(w) PROVE AttemptsOK'
  BY <1>19 DEF Terminate, group, process, wire
<1>20. ASSUME NEW w \in Workers, Crash(w) PROVE AttemptsOK'
  BY <1>20 DEF Crash, group, process, wire
<1>21. ASSUME NEW w \in Workers, NEW c \in queue[w], Deliver(w, c) PROVE AttemptsOK'
  BY <1>21 DEF Deliver, group, process, wire
<1>22. ASSUME NEW w \in Workers, NEW c \in queue[w], DeliveryFails(w, c) PROVE AttemptsOK'
  BY <1>22 DEF DeliveryFails, group, process, wire
<1>23. ASSUME NEW c \in adrift, LateDelivery(c) PROVE AttemptsOK'
  BY <1>23 DEF LateDelivery, group, process, wire
<1>24. CASE UNCHANGED vars
  BY <1>24 DEF vars, group, process, wire
<1> QED
  BY <1>1, <1>2, <1>3, <1>4, <1>5, <1>6, <1>7, <1>8, <1>9, <1>10, <1>11, <1>12, <1>13, <1>14, <1>15, <1>16, <1>17, <1>18, <1>19, <1>20, <1>21, <1>22, <1>23, <1>24
  DEF Next, WorkerStep, GroupStep, BrokerStep

(* A copy is made for the topic its own message names, and that never changes. *)
LEMMA RouteStep == TypeOK /\ HandOK /\ RoutedByOwnHeaders /\ [Next]_vars => RoutedByOwnHeaders'
<1> SUFFICES ASSUME TypeOK, HandOK, RoutedByOwnHeaders, [Next]_vars PROVE RoutedByOwnHeaders'
  OBVIOUS
<1> USE TopicWindowAssumption DEF TopicWindowAssumption, TypeOK, HandOK, RoutedByOwnHeaders, States, Offsets, Copies, Route, AllCopies
<1>1. ASSUME NEW h \in Headers, Publish(h) PROVE RoutedByOwnHeaders'
  BY <1>1 DEF Publish, group, process, wire
<1>2. ASSUME NEW w \in Workers, OpenWindow(w) PROVE RoutedByOwnHeaders'
  BY <1>2 DEF OpenWindow, InitialTargets, group, process, wire
<1>3. ASSUME NEW w \in Workers, Expire(w) PROVE RoutedByOwnHeaders'
  BY <1>3 DEF Expire, group, process, wire
<1>4. ASSUME NEW w \in Workers, Poll(w) PROVE RoutedByOwnHeaders'
  BY <1>4 DEF Poll, group, process, wire
<1>5. ASSUME NEW w \in Workers, DeadlineSeen(w) PROVE RoutedByOwnHeaders'
  BY <1>5 DEF DeadlineSeen, group, process, wire
<1>6. ASSUME NEW w \in Workers, BrokerError(w) PROVE RoutedByOwnHeaders'
  BY <1>6 DEF BrokerError, group, process, wire
<1>7. ASSUME NEW w \in Workers, IdleExit(w) PROVE RoutedByOwnHeaders'
  BY <1>7 DEF IdleExit, group, process, wire
<1>8. ASSUME NEW w \in Workers, Skip(w) PROVE RoutedByOwnHeaders'
  BY <1>8 DEF Skip, group, process, wire
<1>9. ASSUME NEW w \in Workers, Reject(w) PROVE RoutedByOwnHeaders'
  BY <1>9 DEF Reject, group, process, wire
<1>10. ASSUME NEW w \in Workers, Forward(w) PROVE RoutedByOwnHeaders'
  BY <1>10 DEF Forward, group, process, wire, EnsureTarget
<1>11. ASSUME NEW w \in Workers, ForwardFails(w) PROVE RoutedByOwnHeaders'
  BY <1>11 DEF ForwardFails, group, process, wire, EnsureTarget
<1>12. ASSUME NEW w \in Workers, Flush(w) PROVE RoutedByOwnHeaders'
  BY <1>12 DEF Flush, Pending, group, process, wire
<1>13. ASSUME NEW w \in Workers, Close(w) PROVE RoutedByOwnHeaders'
  <2>1. AllCopies' = AllCopies
    BY <1>13, AbandonKeepsCopies DEF Close, Release
  <2> HIDE DEF AllCopies
  <2> QED
    BY <1>13, <2>1 DEF Close, Release, group, process, wire
<1>14. ASSUME NEW w \in Workers, Retry(w) PROVE RoutedByOwnHeaders'
  <2>1. AllCopies' = AllCopies
    BY <1>14, AbandonKeepsCopies DEF Retry
  <2> HIDE DEF AllCopies
  <2> QED
    BY <1>14, <2>1 DEF Retry, group, process, wire
<1>15. ASSUME NEW w \in Workers, Assign(w) PROVE RoutedByOwnHeaders'
  BY <1>15 DEF Assign, group, process, wire
<1>16. ASSUME NEW w \in Workers, Revoke(w) PROVE RoutedByOwnHeaders'
  BY <1>16 DEF Revoke, Release, group, process, wire
<1>17. ASSUME NEW w \in Workers, AutoCommit(w) PROVE RoutedByOwnHeaders'
  BY <1>17 DEF AutoCommit, group, process, wire
<1>18. ASSUME NEW w \in Workers, LoseSession(w) PROVE RoutedByOwnHeaders'
  BY <1>18 DEF LoseSession, group, process, wire
<1>19. ASSUME NEW w \in Workers, Terminate(w) PROVE RoutedByOwnHeaders'
  BY <1>19 DEF Terminate, group, process, wire
<1>20. ASSUME NEW w \in Workers, Crash(w) PROVE RoutedByOwnHeaders'
  BY <1>20 DEF Crash, group, process, wire
<1>21. ASSUME NEW w \in Workers, NEW c \in queue[w], Deliver(w, c) PROVE RoutedByOwnHeaders'
  BY <1>21 DEF Deliver, group, process, wire
<1>22. ASSUME NEW w \in Workers, NEW c \in queue[w], DeliveryFails(w, c) PROVE RoutedByOwnHeaders'
  BY <1>22 DEF DeliveryFails, group, process, wire
<1>23. ASSUME NEW c \in adrift, LateDelivery(c) PROVE RoutedByOwnHeaders'
  BY <1>23 DEF LateDelivery, group, process, wire
<1>24. CASE UNCHANGED vars
  BY <1>24 DEF vars, group, process, wire
<1> QED
  BY <1>1, <1>2, <1>3, <1>4, <1>5, <1>6, <1>7, <1>8, <1>9, <1>10, <1>11, <1>12, <1>13, <1>14, <1>15, <1>16, <1>17, <1>18, <1>19, <1>20, <1>21, <1>22, <1>23, <1>24
  DEF Next, WorkerStep, GroupStep, BrokerStep

(* The inductive invariant holds initially and is kept by every step. *)
LEMMA Inductive == Spec => []IInv
<1>1. Init => IInv
  BY TopicWindowAssumption
  DEF TopicWindowAssumption, Init, IInv, TypeOK, HandOK, CursorOK, FlushedOK, TraceOK,
      AttemptsOK, RoutedByOwnHeaders, AllCopies, OffsetsOf, States, Offsets, Cursor
<1>2. IInv /\ [Next]_vars => IInv'
  BY TypeStep, HandStep, CursorStep, FlushedStep, TraceStep, AttemptsStep, RouteStep
  DEF IInv
<1> QED
  BY <1>1, <1>2, PTL DEF Spec

(* Every variable keeps its type, for any number of processes and messages. *)
THEOREM TypeCorrect == Spec => []TypeOK
<1>1. IInv => TypeOK
  BY DEF IInv
<1> QED
  BY <1>1, Inductive, PTL

(* A message the group has moved past is delivered, still held, or was logged
   about, or was in the memory of a process that ended: the auto-commit right
   after the poll never makes one vanish from a running process. *)
THEOREM NoSilentLoss == Spec => []NothingSilentlyLost
<1>1. IInv => NothingSilentlyLost
  BY TopicWindowAssumption
  DEF TopicWindowAssumption, IInv, TypeOK, CursorOK, TraceOK, NothingSilentlyLost,
      Cursor, Offsets
<1> QED
  BY <1>1, Inductive, PTL

(* The (n+1)-th copy of a message needs n crashes or expired sessions of the
   partition's owner, whatever the scheduler and "Run Now" do concurrently. *)
THEOREM DuplicatesNeedFaults == Spec => []OnlyFaultsDuplicate
<1>1. IInv => OnlyFaultsDuplicate
  <2> SUFFICES ASSUME IInv, NEW c \in sent PROVE c.try <= faults + 1
    BY DEF OnlyFaultsDuplicate
  <2>1. c \in Copies /\ c \in AllCopies
    BY DEF IInv, TypeOK, AllCopies
  <2>2. c.off \in Offsets /\ c.try \in Nat /\ attempts[c.off] \in Nat /\ faults \in Nat
    BY <2>1 DEF IInv, TypeOK, Copies
  <2>3. c.try <= attempts[c.off] /\ attempts[c.off] <= faults + 1
    BY <2>1, <2>2 DEF IInv, AttemptsOK
  <2> QED
    BY <2>2, <2>3
<1> QED
  BY <1>1, Inductive, PTL

(* Every copy went to the topic its own message names, although the forwarder
   remembers the previous message's topic. *)
THEOREM Routed == Spec => []RoutedByOwnHeaders
<1>1. IInv => RoutedByOwnHeaders
  BY DEF IInv
<1> QED
  BY <1>1, Inductive, PTL

(* No process moves the committed offset backwards. *)
THEOREM CommitsAdvance == Spec => CommitNeverGoesBack
<1>1. IInv /\ [Next]_vars => [committed' >= committed]_committed
  <2> SUFFICES ASSUME IInv, [Next]_vars, committed' # committed
               PROVE  committed' >= committed
    OBVIOUS
  <2>1. \E w \in Workers : owner = w /\ committed' = pos[w]
    BY DEF Next, vars, WorkerStep, GroupStep, BrokerStep, group, process, wire,
           OpenWindow, InitialTargets, Expire, Poll, DeadlineSeen, BrokerError, IdleExit, Skip,
           Reject, Forward, ForwardFails, Flush, Pending, Close, Release, Retry, Assign, Revoke,
           AutoCommit, LoseSession, Terminate, Crash, Deliver, DeliveryFails,
           LateDelivery, Publish
  <2> QED
    BY <2>1, TopicWindowAssumption
    DEF TopicWindowAssumption, IInv, TypeOK, CursorOK
<1> QED
  BY <1>1, Inductive, PTL DEF Spec, CommitNeverGoesBack

(* Sessions, rebalances and processes implement one cursor over the log: only
   a fault of the partition's owner moves it back, to the committed offset. *)
THEOREM OneCursorTheorem == Spec => OneCursor
<1>1. Init => OneReader!Init
  BY DEF Init, OneReader!Init, Cursor
<1>2. IInv /\ [Next]_vars => [OneReader!Next]_(OneReader!cursorVars)
  <2> SUFFICES ASSUME IInv, [Next]_vars
               PROVE  OneReader!Next \/ UNCHANGED <<log, Cursor, committed, faults>>
    BY DEF OneReader!cursorVars
  <2> USE TopicWindowAssumption
      DEF TopicWindowAssumption, IInv, TypeOK, CursorOK, Cursor, OneReader!Next
  <2>1. ASSUME NEW h \in Headers, Publish(h) PROVE OneReader!Publish
    BY <2>1 DEF Publish, OneReader!Publish, group
  <2>2. ASSUME NEW w \in Workers, Poll(w) PROVE OneReader!Take
    BY <2>2 DEF Poll, OneReader!Take
  <2>3. ASSUME NEW w \in Workers, Revoke(w) \/ AutoCommit(w) PROVE OneReader!Commit
    BY <2>3 DEF Revoke, Release, AutoCommit, OneReader!Commit
  <2>4. ASSUME NEW w \in Workers, Close(w)
        PROVE  OneReader!Commit \/ UNCHANGED <<log, Cursor, committed, faults>>
    BY <2>4 DEF Close, Release, OneReader!Commit
  <2>5. ASSUME NEW w \in Workers, LoseSession(w) PROVE OneReader!Rewind
    BY <2>5 DEF LoseSession, OneReader!Rewind
  <2>6. ASSUME NEW w \in Workers, Crash(w)
        PROVE  OneReader!Rewind \/ UNCHANGED <<log, Cursor, committed, faults>>
    BY <2>6 DEF Crash, OneReader!Rewind
  <2>7. ASSUME NEW w \in Workers, Assign(w)
        PROVE  UNCHANGED <<log, Cursor, committed, faults>>
    BY <2>7 DEF Assign
  <2>8. ASSUME NEW w \in Workers,
               \/ OpenWindow(w) \/ Expire(w) \/ DeadlineSeen(w) \/ BrokerError(w)
               \/ IdleExit(w) \/ Skip(w) \/ Reject(w) \/ Forward(w) \/ ForwardFails(w)
               \/ Flush(w) \/ Retry(w) \/ Terminate(w)
        PROVE  UNCHANGED <<log, Cursor, committed, faults>>
    BY <2>8 DEF OpenWindow, InitialTargets, Expire, DeadlineSeen, BrokerError, IdleExit, Skip, Reject,
       Forward, ForwardFails, Flush, Retry, Terminate, group
  <2>9. CASE BrokerStep \/ UNCHANGED vars
    BY <2>9 DEF BrokerStep, Deliver, DeliveryFails, LateDelivery, vars, group
  <2> QED
    BY <2>1, <2>2, <2>3, <2>4, <2>5, <2>6, <2>7, <2>8, <2>9
    DEF Next, WorkerStep, GroupStep
<1> QED
  BY <1>1, <1>2, Inductive, PTL DEF Spec, OneCursor, OneReader!Spec
=============================================================================
