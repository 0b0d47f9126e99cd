-------------------------- MODULE DrainForward_proofs --------------------------
(***************************************************************************)
(* Proofs about DrainForward, for any number of messages, any capacity of  *)
(* the producer's queue and any number of failures: which messages the     *)
(* group may move past, and how often one is copied.                       *)
(***************************************************************************)
EXTENDS DrainForward, TLAPS

\* A message is in hand from the poll to the commit.
HandOK == pc \in {"forwarding", "committing"} => pos \in Offsets

\* Nothing unread is committed, and between two messages a drain run has
\* committed all that it read.
SyncOK ==
  /\ pc # "idle" => committed <= pos
  /\ mode = "drain" /\ pc = "polling" => committed = pos

\* What the session has read was given to the producer, or is the message in
\* hand, or the one that was in hand when the session or an earlier one died.
ReadOK ==
  pc # "idle" =>
    \A o \in 1..pos :
      \/ o \in produced
      \/ o = pos /\ pc = "forwarding"
      \/ o \in dropped /\ (mode = "continuous" \/ pc = "flushing")

\* How far the running session, or the next one, is with forwarding.
Reached ==
  CASE pc \in {"polling", "committing"} -> pos
    [] pc = "forwarding"                -> pos - 1
    [] OTHER                            -> committed

\* A message was forwarded at most once per failure, and once more if the
\* session is past it; copies carry the number of their attempt.
AttemptsOK ==
  /\ \A o \in Offsets : /\ attempts[o] <= failures + 1
                        /\ o > Reached => attempts[o] <= failures
  /\ \A c \in queue \cup sent : c.try <= attempts[c.off]

IInv ==
  /\ TypeOK /\ HandOK /\ SyncOK /\ ReadOK /\ AttemptsOK
  /\ CommittedWasProduced
-----------------------------------------------------------------------------

(* Type correctness: a position in hand is an offset of the log. *)
LEMMA TypeStep == TypeOK /\ HandOK /\ [Next]_vars => TypeOK'
<1> SUFFICES ASSUME TypeOK, HandOK, [Next]_vars PROVE TypeOK'
  OBVIOUS
<1> USE DrainForwardAssumption DEF DrainForwardAssumption, source, history, Pcs, Offsets, TypeOK, HandOK, Copies
<1>1. CASE Publish
  BY <1>1 DEF Publish
<1>2. CASE Subscribe
  BY <1>2 DEF Subscribe
<1>3. CASE Poll
  BY <1>3 DEF Poll
<1>4. CASE PollNothing
  BY <1>4 DEF PollNothing, vars
<1>5. CASE Forward
  BY <1>5 DEF Forward
<1>6. CASE ForwardFails
  BY <1>6 DEF ForwardFails, Fail
<1>7. CASE Commit
  BY <1>7 DEF Commit
<1>8. CASE CommitFails
  BY <1>8 DEF CommitFails, Fail
<1>9. CASE AutoCommit
  BY <1>9 DEF AutoCommit
<1>10. CASE PollFails
  BY <1>10 DEF PollFails, Fail
<1>11. CASE Drained
  BY <1>11 DEF Drained
<1>12. CASE FlushAndClose
  BY <1>12 DEF FlushAndClose
<1>13. CASE Crash
  BY <1>13 DEF Crash
<1>14. ASSUME NEW c \in queue, Deliver(c) PROVE TypeOK'
  BY <1>14 DEF Deliver
<1>15. ASSUME NEW c \in queue, DeliveryFails(c) PROVE TypeOK'
  BY <1>15 DEF DeliveryFails
<1>16. CASE UNCHANGED vars
  BY <1>16 DEF vars
<1> QED
  BY <1>1, <1>2, <1>3, <1>4, <1>5, <1>6, <1>7, <1>8, <1>9, <1>10, <1>11,
     <1>12, <1>13, <1>14, <1>15, <1>16
  DEF Next, RunStep, BrokerStep

(* Only a poll takes a message in hand. *)
LEMMA HandStep == TypeOK /\ HandOK /\ [Next]_vars => HandOK'
<1> SUFFICES ASSUME TypeOK, HandOK, [Next]_vars PROVE HandOK'
  OBVIOUS
<1> USE DrainForwardAssumption DEF DrainForwardAssumption, source, history, Pcs, Offsets, TypeOK, HandOK
<1>1. CASE Publish
  BY <1>1 DEF Publish
<1>2. CASE Subscribe
  BY <1>2 DEF Subscribe
<1>3. CASE Poll
  BY <1>3 DEF Poll
<1>4. CASE PollNothing
  BY <1>4 DEF PollNothing, vars
<1>5. CASE Forward
  BY <1>5 DEF Forward
<1>6. CASE ForwardFails
  BY <1>6 DEF ForwardFails, Fail
<1>7. CASE Commit
  BY <1>7 DEF Commit
<1>8. CASE CommitFails
  BY <1>8 DEF CommitFails, Fail
<1>9. CASE AutoCommit
  BY <1>9 DEF AutoCommit
<1>10. CASE PollFails
  BY <1>10 DEF PollFails, Fail
<1>11. CASE Drained
  BY <1>11 DEF Drained
<1>12. CASE FlushAndClose
  BY <1>12 DEF FlushAndClose
<1>13. CASE Crash
  BY <1>13 DEF Crash
<1>14. ASSUME NEW c \in queue, Deliver(c) PROVE HandOK'
  BY <1>14 DEF Deliver
<1>15. ASSUME NEW c \in queue, DeliveryFails(c) PROVE HandOK'
  BY <1>15 DEF DeliveryFails
<1>16. CASE UNCHANGED vars
  BY <1>16 DEF vars
<1> QED
  BY <1>1, <1>2, <1>3, <1>4, <1>5, <1>6, <1>7, <1>8, <1>9, <1>10, <1>11,
     <1>12, <1>13, <1>14, <1>15, <1>16
  DEF Next, RunStep, BrokerStep

(* A drain run goes on only after its commit. *)
LEMMA SyncStep == TypeOK /\ HandOK /\ SyncOK /\ [Next]_vars => SyncOK'
<1> SUFFICES ASSUME TypeOK, HandOK, SyncOK, [Next]_vars PROVE SyncOK'
  OBVIOUS
<1> USE DrainForwardAssumption DEF DrainForwardAssumption, source, history, Pcs, Offsets, TypeOK, HandOK, SyncOK
<1>1. CASE Publish
  BY <1>1 DEF Publish
<1>2. CASE Subscribe
  BY <1>2 DEF Subscribe
<1>3. CASE Poll
  BY <1>3 DEF Poll
<1>4. CASE PollNothing
  BY <1>4 DEF PollNothing, vars
<1>5. CASE Forward
  BY <1>5 DEF Forward
<1>6. CASE ForwardFails
  BY <1>6 DEF ForwardFails, Fail
<1>7. CASE Commit
  BY <1>7 DEF Commit
<1>8. CASE CommitFails
  BY <1>8 DEF CommitFails, Fail
<1>9. CASE AutoCommit
  BY <1>9 DEF AutoCommit
<1>10. CASE PollFails
  BY <1>10 DEF PollFails, Fail
<1>11. CASE Drained
  BY <1>11 DEF Drained
<1>12. CASE FlushAndClose
  BY <1>12 DEF FlushAndClose
<1>13. CASE Crash
  BY <1>13 DEF Crash
<1>14. ASSUME NEW c \in queue, Deliver(c) PROVE SyncOK'
  BY <1>14 DEF Deliver
<1>15. ASSUME NEW c \in queue, DeliveryFails(c) PROVE SyncOK'
  BY <1>15 DEF DeliveryFails
<1>16. CASE UNCHANGED vars
  BY <1>16 DEF vars
<1> QED
  BY <1>1, <1>2, <1>3, <1>4, <1>5, <1>6, <1>7, <1>8, <1>9, <1>10, <1>11,
     <1>12, <1>13, <1>14, <1>15, <1>16
  DEF Next, RunStep, BrokerStep

(* Nothing is read and left out. *)
LEMMA ReadStep == TypeOK /\ HandOK /\ ReadOK /\ CommittedWasProduced /\ [Next]_vars => ReadOK'
<1> SUFFICES ASSUME TypeOK, HandOK, ReadOK, CommittedWasProduced, [Next]_vars PROVE ReadOK'
  OBVIOUS
<1> USE DrainForwardAssumption DEF DrainForwardAssumption, source, history, Pcs, Offsets, TypeOK, HandOK, ReadOK, CommittedWasProduced
<1>1. CASE Publish
  BY <1>1 DEF Publish
<1>2. CASE Subscribe
  BY <1>2 DEF Subscribe
<1>3. CASE Poll
  BY <1>3 DEF Poll
<1>4. CASE PollNothing
  BY <1>4 DEF PollNothing, vars
<1>5. CASE Forward
  BY <1>5 DEF Forward
<1>6. CASE ForwardFails
  BY <1>6 DEF ForwardFails, Fail
<1>7. CASE Commit
  BY <1>7 DEF Commit
<1>8. CASE CommitFails
  BY <1>8 DEF CommitFails, Fail
<1>9. CASE AutoCommit
  BY <1>9 DEF AutoCommit
<1>10. CASE PollFails
  BY <1>10 DEF PollFails, Fail
<1>11. CASE Drained
  BY <1>11 DEF Drained
<1>12. CASE FlushAndClose
  BY <1>12 DEF FlushAndClose
<1>13. CASE Crash
  BY <1>13 DEF Crash
<1>14. ASSUME NEW c \in queue, Deliver(c) PROVE ReadOK'
  BY <1>14 DEF Deliver
<1>15. ASSUME NEW c \in queue, DeliveryFails(c) PROVE ReadOK'
  BY <1>15 DEF DeliveryFails
<1>16. CASE UNCHANGED vars
  BY <1>16 DEF vars
<1> QED
  BY <1>1, <1>2, <1>3, <1>4, <1>5, <1>6, <1>7, <1>8, <1>9, <1>10, <1>11,
     <1>12, <1>13, <1>14, <1>15, <1>16
  DEF Next, RunStep, BrokerStep

(* What is committed was read before. *)
LEMMA CommittedStep == TypeOK /\ HandOK /\ ReadOK /\ CommittedWasProduced /\ [Next]_vars => CommittedWasProduced'
<1> SUFFICES ASSUME TypeOK, HandOK, ReadOK, CommittedWasProduced, [Next]_vars PROVE CommittedWasProduced'
  OBVIOUS
<1> USE DrainForwardAssumption DEF DrainForwardAssumption, source, history, Pcs, Offsets, TypeOK, HandOK, ReadOK, CommittedWasProduced
<1>1. CASE Publish
  BY <1>1 DEF Publish
<1>2. CASE Subscribe
  BY <1>2 DEF Subscribe
<1>3. CASE Poll
  BY <1>3 DEF Poll
<1>4. CASE PollNothing
  BY <1>4 DEF PollNothing, vars
<1>5. CASE Forward
  BY <1>5 DEF Forward
<1>6. CASE ForwardFails
  BY <1>6 DEF ForwardFails, Fail
<1>7. CASE Commit
  BY <1>7 DEF Commit
<1>8. CASE CommitFails
  BY <1>8 DEF CommitFails, Fail
<1>9. CASE AutoCommit
  BY <1>9 DEF AutoCommit
<1>10. CASE PollFails
  BY <1>10 DEF PollFails, Fail
<1>11. CASE Drained
  BY <1>11 DEF Drained
<1>12. CASE FlushAndClose
  BY <1>12 DEF FlushAndClose
<1>13. CASE Crash
  BY <1>13 DEF Crash
<1>14. ASSUME NEW c \in queue, Deliver(c) PROVE CommittedWasProduced'
  BY <1>14 DEF Deliver
<1>15. ASSUME NEW c \in queue, DeliveryFails(c) PROVE CommittedWasProduced'
  BY <1>15 DEF DeliveryFails
<1>16. CASE UNCHANGED vars
  BY <1>16 DEF vars
<1> QED
  BY <1>1, <1>2, <1>3, <1>4, <1>5, <1>6, <1>7, <1>8, <1>9, <1>10, <1>11,
     <1>12, <1>13, <1>14, <1>15, <1>16
  DEF Next, RunStep, BrokerStep

(* A session begins where the last one committed, unless it failed. *)
LEMMA AttemptsStep == TypeOK /\ HandOK /\ SyncOK /\ AttemptsOK /\ [Next]_vars => AttemptsOK'
<1> SUFFICES ASSUME TypeOK, HandOK, SyncOK, AttemptsOK, [Next]_vars PROVE AttemptsOK'
  OBVIOUS
<1> USE DrainForwardAssumption DEF DrainForwardAssumption, source, history, Pcs, Offsets, TypeOK, HandOK, SyncOK, AttemptsOK, Reached, Copies
<1>1. CASE Publish
  BY <1>1 DEF Publish
<1>2. CASE Subscribe
  BY <1>2 DEF Subscribe
<1>3. CASE Poll
  BY <1>3 DEF Poll
<1>4. CASE PollNothing
  BY <1>4 DEF PollNothing, vars
<1>5. CASE Forward
  BY <1>5 DEF Forward
<1>6. CASE ForwardFails
  BY <1>6 DEF ForwardFails, Fail
<1>7. CASE Commit
  BY <1>7 DEF Commit
<1>8. CASE CommitFails
  BY <1>8 DEF CommitFails, Fail
<1>9. CASE AutoCommit
  BY <1>9 DEF AutoCommit
<1>10. CASE PollFails
  BY <1>10 DEF PollFails, Fail
<1>11. CASE Drained
  BY <1>11 DEF Drained
<1>12. CASE FlushAndClose
  BY <1>12 DEF FlushAndClose
<1>13. CASE Crash
  BY <1>13 DEF Crash
<1>14. ASSUME NEW c \in queue, Deliver(c) PROVE AttemptsOK'
  BY <1>14 DEF Deliver
<1>15. ASSUME NEW c \in queue, DeliveryFails(c) PROVE AttemptsOK'
  BY <1>15 DEF DeliveryFails
<1>16. CASE UNCHANGED vars
  BY <1>16 DEF vars
<1> QED
  BY <1>1, <1>2, <1>3, <1>4, <1>5, <1>6, <1>7, <1>8, <1>9, <1>10, <1>11,
     <1>12, <1>13, <1>14, <1>15, <1>16
  DEF Next, RunStep, BrokerStep

\* Before the first run nothing is read or queued.
LEMMA InitInv == Init => IInv
BY DrainForwardAssumption
DEF DrainForwardAssumption, Init, IInv, TypeOK, HandOK, SyncOK, ReadOK, AttemptsOK,
    CommittedWasProduced, Reached, Pcs, Offsets, Copies

\* Every step keeps the parts together.
LEMMA StepInv == IInv /\ [Next]_vars => IInv'
BY TypeStep, HandStep, SyncStep, ReadStep, CommittedStep, AttemptsStep DEF IInv

\* What a run has read, committed and forwarded fits together.
THEOREM Invariance == Spec => []IInv
BY InitInv, StepInv, PTL DEF Spec

\* Every variable keeps its type, whatever the bounds.
THEOREM TypeCorrect == Spec => []TypeOK
BY Invariance, PTL DEF IInv

\* Failures included, a drain run never moves the group past a message it has
\* not given to the producer, a continuous one only past the one in hand.
THEOREM ProducedBeforeCommit == Spec => []CommittedWasProduced
BY Invariance, PTL DEF IInv

\* The (n+1)-th copy of a message needs n failures.
THEOREM RepetitionNeedsFailures == Spec => []RepeatsNeedFailures
<1>1. IInv => RepeatsNeedFailures
  <2> SUFFICES ASSUME IInv, NEW c \in sent PROVE c.try <= failures + 1
    BY DEF RepeatsNeedFailures
  <2>1. c.off \in Offsets /\ c.try \in Nat /\ failures \in Nat /\ attempts[c.off] \in Nat
    BY DEF IInv, TypeOK, Copies
  <2>2. c.try <= attempts[c.off] /\ attempts[c.off] <= failures + 1
    BY <2>1 DEF IInv, AttemptsOK
  <2> QED
    BY <2>1, <2>2
<1> QED
  BY <1>1, Invariance, PTL
=============================================================================
