----------------------------- MODULE DrainForward -----------------------------
(***************************************************************************)
(* utils/topic_forwarder.py.  A run that a trigger started drains: it      *)
(* forwards the source topic until it has been quiet for DRAIN_IDLE_SECS,  *)
(* commits each message itself, synchronously, once _forward_one has       *)
(* returned, and ends.  Any other run is continuous: the client commits in *)
(* the background what was polled, and after an error the session is       *)
(* closed and, a while later, opened again.  Either way the producer is    *)
(* flushed without a bound.  One run at a time (the trigger backend runs   *)
(* its pipeline on the thread that polls for triggers).  The broker may    *)
(* never answer for a queued copy, and the flush then never returns.       *)
(***************************************************************************)
EXTENDS Naturals, FiniteSets

CONSTANTS
  QueueCap,     \* the producer's queue.buffering.max.messages
  MaxMessages,  \* bound on the source log
  MaxFailures   \* bound on crashes, failed commits and broker errors

ASSUME DrainForwardAssumption ==
  QueueCap \in Nat /\ MaxMessages \in Nat /\ MaxFailures \in Nat

VARIABLES
  mode,       \* "drain" or "continuous", as triggered_by says; never changes
  arrived,    \* length of the source log
  committed,  \* the group's committed offset
  pos,        \* the consumer's position in the running session
  pc,         \* where the run is; "idle" between triggers or sessions
  queue,      \* copies in the producer, not yet acknowledged
  sent,       \* copies on the mapper topic
  produced,   \* offsets ever given to the producer (history)
  dropped,    \* offsets in hand when a session or the process died (history)
  attempts,   \* how often each offset was forwarded (history)
  failures    \* runs that did not end by draining (history)

source  == <<arrived, committed>>
history == <<produced, dropped, attempts, failures>>
vars    == <<mode, source, pos, pc, queue, sent, history>>

Offsets == 1..MaxMessages
Copies  == [off : Offsets, try : Nat]
Pcs     == {"idle", "polling", "forwarding", "committing", "flushing"}

Init ==
  /\ mode \in {"drain", "continuous"}
  /\ arrived = 0 /\ committed = 0 /\ pos = 0 /\ pc = "idle"
  /\ queue = {} /\ sent = {} /\ produced = {} /\ dropped = {}
  /\ attempts = [o \in Offsets |-> 0] /\ failures = 0

\* The session goes on to its finally block with an exception.
Fail ==
  /\ failures < MaxFailures
  /\ failures' = failures + 1
  /\ pc' = "flushing"

Publish ==
  /\ arrived < MaxMessages
  /\ arrived' = arrived + 1
  /\ UNCHANGED <<mode, committed, pos, pc, queue, sent, history>>

\* Mutation: the consumer starts at the beginning of the topic.
SubscribeAtStart ==
  /\ pc = "idle"
  /\ pc' = "polling" /\ pos' = 0
  /\ UNCHANGED <<mode, source, queue, sent, history>>

\* A trigger, or the next turn of the loop: a new consumer starts at the
\* committed offset.
Subscribe ==
  /\ pc = "idle"
  /\ pc' = "polling" /\ pos' = committed
  /\ UNCHANGED <<mode, source, queue, sent, history>>

\* Mutation: a message past the end of the log.
PollPastEnd ==
  /\ pc = "polling" /\ pos <= arrived
  /\ pos' = pos + 1 /\ pc' = "forwarding"
  /\ UNCHANGED <<mode, source, queue, sent, history>>

Poll ==
  /\ pc = "polling" /\ pos < arrived
  /\ pos' = pos + 1 /\ pc' = "forwarding"
  /\ UNCHANGED <<mode, source, queue, sent, history>>

\* poll() returns None and the loop goes round.
PollNothing == pc = "polling" /\ pos = arrived /\ UNCHANGED vars

\* _forward_one: the copy is queued, not acknowledged.
Forward ==
  /\ pc = "forwarding" /\ Cardinality(queue) < QueueCap
  /\ attempts' = [attempts EXCEPT ![pos] = @ + 1]
  /\ queue' = queue \cup {[off |-> pos, try |-> attempts'[pos]]}
  /\ produced' = produced \cup {pos}
  /\ pc' = IF mode = "drain" THEN "committing" ELSE "polling"
  /\ UNCHANGED <<mode, source, pos, sent, dropped, failures>>

\* Mutation: a message that cannot be produced is skipped.
ForwardSkips ==
  /\ pc = "forwarding" /\ Cardinality(queue) >= QueueCap
  /\ pc' = IF mode = "drain" THEN "committing" ELSE "polling"
  /\ UNCHANGED <<mode, source, pos, queue, sent, history>>

\* produce() raises BufferError.  A drain run has not committed the message; a
\* continuous one may have, and will when it closes.
ForwardFails ==
  /\ pc = "forwarding" /\ Cardinality(queue) >= QueueCap
  /\ Fail
  /\ dropped' = dropped \cup {pos}
  /\ UNCHANGED <<mode, source, pos, queue, sent, produced, attempts>>

\* consumer.commit(message, asynchronous=False)
Commit ==
  /\ pc = "committing"
  /\ committed' = pos /\ pc' = "polling"
  /\ UNCHANGED <<mode, arrived, pos, queue, sent, history>>

CommitFails ==
  /\ pc = "committing" /\ Fail
  /\ UNCHANGED <<mode, source, pos, queue, sent, produced, dropped, attempts>>

\* The client's background thread, in a continuous run: what was polled.
AutoCommit ==
  /\ mode = "continuous" /\ pc # "idle" /\ committed < pos
  /\ committed' = pos
  /\ UNCHANGED <<mode, arrived, pos, pc, queue, sent, history>>

\* poll() reports a broker error.
PollFails ==
  /\ pc = "polling" /\ Fail
  /\ UNCHANGED <<mode, source, pos, queue, sent, produced, dropped, attempts>>

\* Mutation: the run ends with the first message that is slow to come.
DrainedEarly ==
  /\ mode = "drain" /\ pc = "polling"
  /\ pc' = "flushing"
  /\ UNCHANGED <<mode, source, pos, queue, sent, history>>

\* Quiet for DRAIN_IDLE_SECS: the run goes on to its finally block.
Drained ==
  /\ mode = "drain" /\ pc = "polling" /\ pos = arrived
  /\ pc' = "flushing"
  /\ UNCHANGED <<mode, source, pos, queue, sent, history>>

\* flush() returns only once its queue is empty; then consumer.close(), which
\* commits the position of a continuous session if the broker lets it.
FlushAndClose ==
  /\ pc = "flushing" /\ queue = {}
  /\ pc' = "idle"
  /\ \/ UNCHANGED committed
     \/ mode = "continuous" /\ committed' = pos
  /\ UNCHANGED <<mode, arrived, pos, queue, sent, history>>

\* The broker acknowledges a copy, or it fails for good: _on_delivery only logs.
Deliver(c) ==
  /\ c \in queue
  /\ queue' = queue \ {c} /\ sent' = sent \cup {c}
  /\ UNCHANGED <<mode, source, pos, pc, history>>

DeliveryFails(c) ==
  /\ c \in queue
  /\ queue' = queue \ {c}
  /\ UNCHANGED <<mode, source, pos, pc, sent, history>>

\* The pod dies, and with it its producer's queue.
Crash ==
  /\ pc # "idle" /\ failures < MaxFailures
  /\ failures' = failures + 1
  /\ dropped' = IF pc = "forwarding" THEN dropped \cup {pos} ELSE dropped
  /\ pc' = "idle" /\ queue' = {}
  /\ UNCHANGED <<mode, source, pos, sent, produced, attempts>>

RunStep ==
  \/ Poll \/ PollNothing \/ Forward \/ ForwardFails \/ Commit \/ CommitFails
  \/ PollFails \/ Drained \/ FlushAndClose

BrokerStep == \E c \in queue : Deliver(c) \/ DeliveryFails(c)

Next == Publish \/ Subscribe \/ RunStep \/ AutoCommit \/ BrokerStep \/ Crash

Spec == Init /\ [][Next]_vars

\* A run takes its next step; triggers keep coming; the background thread
\* commits now and then.  Nothing makes the broker answer for a queued copy.
FairSpec ==
  /\ Spec /\ WF_vars(Subscribe) /\ WF_vars(AutoCommit)
  /\ WF_vars(Poll \/ Forward \/ ForwardFails \/ Commit \/ Drained \/ FlushAndClose)
-----------------------------------------------------------------------------
TypeOK ==
  /\ mode \in {"drain", "continuous"}
  /\ arrived \in 0..MaxMessages
  /\ committed \in 0..arrived /\ pos \in 0..arrived
  /\ pc \in Pcs
  /\ queue \subseteq Copies /\ sent \subseteq Copies
  /\ produced \subseteq Offsets /\ dropped \subseteq Offsets
  /\ attempts \in [Offsets -> Nat]
  /\ failures \in Nat

\* Crashes, failed commits and a full producer queue included, a drain run
\* never moves the group past a message that was not first given to the
\* producer: the message in hand is read again.  A continuous run does so with
\* the message in hand, and loses it when the session or the process dies
\* there; no other message is passed over.
CommittedWasProduced ==
  \A o \in 1..committed :
    \/ o \in produced
    \/ mode = "continuous" /\ (o \in dropped \/ (o = pos /\ pc = "forwarding"))

\* A message is copied again only after a run that failed or a crash.
RepeatsNeedFailures == \A c \in sent : c.try <= failures + 1

\* The run waits in the unbounded flush for a backlog that nobody answers.  (At
\* the bound on failures the full queue that would lead there stands for it.)
FlushBlocked ==
  /\ queue # {}
  /\ pc = "flushing" \/ (pc = "forwarding" /\ failures = MaxFailures)

\* "Exit cleanly once queue is drained": every message that arrives is
\* committed in the end, and every triggered run returns.  Broker errors, failed
\* commits, a full queue and crashes only put it off; the one thing that holds a
\* run up for good is a flush that the broker never lets go.
EverythingForwarded ==
  /\ \A o \in Offsets : arrived >= o ~> (committed >= o \/ []FlushBlocked)
  /\ mode = "drain" /\ pc # "idle" ~> (pc = "idle" \/ []FlushBlocked)

\* "Commit after success" (_run_drain): a committed message is on the mapper
\* topic, or still on its way there.
CommittedMeansForwarded ==
  mode = "drain" =>
    \A o \in 1..committed : \E c \in sent \cup queue : c.off = o
=============================================================================
