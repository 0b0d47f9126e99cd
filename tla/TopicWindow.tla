----------------------------- MODULE TopicWindow -----------------------------
(***************************************************************************)
(* The two topic stages: the producer's topic adaptor and the consumer's   *)
(* topic extractor.  Each runs windows: a consumer session reads the       *)
(* source topic and hands every message, asynchronously, to a producer     *)
(* whose queue the broker drains.  Offsets are auto-committed as soon as   *)
(* a message has been polled, whatever becomes of it afterwards.           *)
(*                                                                         *)
(* Several processes of one deployment share the group id: the scheduler   *)
(* in the main process, each process that "Run Now" starts beside it, and  *)
(* the two pods of a rolling update.  The source topic has one partition   *)
(* (ensure_exists).                                                        *)
(*                                                                         *)
(* The adaptor is the instance with a FixedTarget and no idle exit, the    *)
(* extractor the one that resolves the target from each message's headers. *)
(***************************************************************************)
EXTENDS Naturals, Sequences, FiniteSets

CONSTANTS
  Workers,      \* processes that may run a window
  Bounded,      \* those whose windows have a deadline (not "standalone")
  Topics,       \* target topics
  Headers,      \* what a message's headers may say: a topic, or one of
  Invalid,      \*   no usable orgName / productType
  Garbled,      \*   a header value that is not UTF-8
  NoTopic,      \* self.target_topic = ""
  FixedTarget,  \* the adaptor's target topic, NoTopic for the extractor
  NoWorker,
  IdleExits,    \* the extractor ends a bounded window when the topic is quiet
  QueueCap,     \* the producer's queue.buffering.max.messages
  MaxMessages,  \* bound on the source log
  MaxFaults     \* bound on crashes and expired sessions of the partition's owner

ASSUME TopicWindowAssumption ==
  /\ Bounded \subseteq Workers
  /\ NoWorker \notin Workers
  /\ NoTopic \notin Topics /\ Invalid \notin Topics /\ Garbled \notin Topics
  /\ Invalid # Garbled
  /\ Headers \subseteq Topics \cup {Invalid, Garbled}
  /\ FixedTarget \in Topics \cup {NoTopic}
  /\ IdleExits \in BOOLEAN
  /\ QueueCap \in Nat /\ MaxMessages \in Nat /\ MaxFaults \in Nat

VARIABLES
  log,        \* source topic: the headers of its messages, oldest first
  committed,  \* the group's committed offset (number of messages)
  owner,      \* the process assigned the partition
  pos,        \* offset stored by the client of each process: last polled + 1
  pc,         \* where each process is in its window
  ending,     \* deadline passed, topic drained or SIGTERM: no more sessions
  hand,       \* offset polled and not yet given to the producer, 0 if none
  dest,       \* self.target_topic
  queue,      \* copies in the window's producer, not yet acknowledged
  adrift,     \* copies a finished window left in its producer
  sent,       \* copies on their target topics
  exists,     \* target topics the broker has
  reported,   \* offsets some warning or error was logged about
  dropped,    \* offsets in the memory of a process as it ended (history)
  attempts,   \* how often each offset was polled (history)
  faults      \* crashes and expired sessions of the partition's owner (history)

group   == <<committed, owner, pos>>
process == <<pc, ending, hand, dest>>
wire    == <<queue, adrift, sent, exists>>
vars    == <<log, group, process, wire, reported, dropped, attempts, faults>>

Offsets == 1..MaxMessages
Copies  == [off : Offsets, topic : Topics, try : Nat]
States  == {"idle", "polling", "forwarding", "flushing", "closing", "waiting"}

OffsetsOf(copies) == {c.off : c \in copies}

\* Every copy there is, on its topic or on its way.
AllCopies == sent \cup adrift \cup UNION {queue[w] : w \in Workers}

\* The topic a message is for, Invalid or Garbled when it is for none.
Route(o) == IF FixedTarget = NoTopic THEN log[o] ELSE FixedTarget

Init ==
  /\ log = <<>>
  /\ committed = 0 /\ owner = NoWorker /\ pos = [w \in Workers |-> 0]
  /\ pc = [w \in Workers |-> "idle"] /\ ending = [w \in Workers |-> FALSE]
  /\ hand = [w \in Workers |-> 0] /\ dest = [w \in Workers |-> NoTopic]
  /\ queue = [w \in Workers |-> {}] /\ adrift = {} /\ sent = {}
  /\ exists \in {{}, Topics}
  /\ reported = {} /\ dropped = {}
  /\ attempts = [o \in Offsets |-> 0] /\ faults = 0

-----------------------------------------------------------------------------
(* The broker and the group protocol.                                      *)

\* An upstream system appends a message to the source topic.
Publish(h) ==
  /\ Len(log) < MaxMessages
  /\ log' = Append(log, h)
  /\ UNCHANGED <<group, process, wire, reported, dropped, attempts, faults>>

\* The partition is assigned to a subscribed consumer, which starts at the
\* committed offset (auto.offset.reset = earliest).
Assign(w) ==
  /\ owner = NoWorker /\ pc[w] = "polling"
  /\ owner' = w
  /\ pos' = [pos EXCEPT ![w] = committed]
  /\ UNCHANGED <<log, committed, process, wire, reported, dropped, attempts,
                 faults>>

\* Mutation: the partition is given up without a commit.
ReleaseUncommitted(w) == owner' = NoWorker /\ UNCHANGED committed

\* The client commits the stored offset and gives the partition up.
Release(w) == committed' = pos[w] /\ owner' = NoWorker

\* Another process subscribed: poll() serves the rebalance.
Revoke(w) ==
  /\ owner = w /\ pc[w] = "polling"
  /\ \E v \in Workers \ {w} : pc[v] = "polling"
  /\ Release(w)
  /\ UNCHANGED <<log, pos, process, wire, reported, dropped, attempts, faults>>

\* Mutation: a client that is no longer assigned the partition commits too.
AutoCommitUnassigned(w) ==
  /\ committed # pos[w] /\ pc[w] # "idle"
  /\ committed' = pos[w]
  /\ UNCHANGED <<log, owner, pos, process, wire, reported, dropped, attempts,
                 faults>>

\* The client's background thread commits the stored offset.
AutoCommit(w) ==
  /\ owner = w /\ committed # pos[w]
  /\ committed' = pos[w]
  /\ UNCHANGED <<log, owner, pos, process, wire, reported, dropped, attempts,
                 faults>>

\* The group drops a member it no longer hears from; nothing is committed.
LoseSession(w) ==
  /\ owner = w /\ faults < MaxFaults
  /\ owner' = NoWorker
  /\ faults' = faults + 1
  /\ UNCHANGED <<log, committed, pos, process, wire, reported, dropped, attempts>>

\* The broker acknowledges a copy, whenever it likes.
Deliver(w, c) ==
  /\ c \in queue[w] /\ c.topic \in exists
  /\ queue' = [queue EXCEPT ![w] = @ \ {c}]
  /\ sent' = sent \cup {c}
  /\ UNCHANGED <<log, group, process, adrift, exists, reported, dropped,
                 attempts, faults>>

\* A copy fails for good; poll(0) or flush() serves its delivery report and
\* _on_delivery logs it.
DeliveryFails(w, c) ==
  /\ c \in queue[w] /\ pc[w] \in {"forwarding", "flushing"}
  /\ queue' = [queue EXCEPT ![w] = @ \ {c}]
  /\ reported' = reported \cup {c.off}
  /\ UNCHANGED <<log, group, process, adrift, sent, exists, dropped, attempts,
                 faults>>

\* A copy left in the producer of a finished window lands late, or never.
LateDelivery(c) ==
  /\ c \in adrift
  /\ adrift' = adrift \ {c}
  /\ sent' \in {sent, IF c.topic \in exists THEN sent \cup {c} ELSE sent}
  /\ UNCHANGED <<log, group, process, queue, exists, reported, dropped,
                 attempts, faults>>
-----------------------------------------------------------------------------
(* The window.                                                             *)

\* Mutation: the extractor makes sure that its unresolved target exists.
UncheckedTargets == {FixedTarget}

\* Targets known when a TopicForwarder is built.
InitialTargets == {FixedTarget} \ {NoTopic}

\* run() builds a TopicForwarder and run_window opens its first session.
OpenWindow(w) ==
  /\ pc[w] = "idle"
  /\ pc' = [pc EXCEPT ![w] = "polling"]
  /\ ending' = [ending EXCEPT ![w] = FALSE]
  /\ dest' = [dest EXCEPT ![w] = FixedTarget]
  /\ exists' \in {exists, exists \cup InitialTargets}
  /\ UNCHANGED <<log, group, hand, queue, adrift, sent, reported, dropped,
                 attempts, faults>>

\* time.monotonic() reaches the window's deadline.
Expire(w) ==
  /\ w \in Bounded /\ pc[w] # "idle" /\ ~ending[w]
  /\ ending' = [ending EXCEPT ![w] = TRUE]
  /\ UNCHANGED <<log, group, pc, hand, dest, wire, reported, dropped, attempts,
                 faults>>

\* poll() returns the next message and stores its offset for the next commit.
Poll(w) ==
  LET o == pos[w] + 1 IN
  /\ pc[w] = "polling" /\ ~ending[w] /\ owner = w /\ o <= Len(log)
  /\ pos' = [pos EXCEPT ![w] = o]
  /\ hand' = [hand EXCEPT ![w] = o]
  /\ pc' = [pc EXCEPT ![w] = "forwarding"]
  /\ attempts' = [attempts EXCEPT ![o] = @ + 1]
  /\ UNCHANGED <<log, committed, owner, ending, dest, wire, reported, dropped,
                 faults>>

\* The check before poll() finds the deadline passed.
DeadlineSeen(w) ==
  /\ pc[w] = "polling" /\ ending[w]
  /\ pc' = [pc EXCEPT ![w] = "flushing"]
  /\ UNCHANGED <<log, group, ending, hand, dest, wire, reported, dropped,
                 attempts, faults>>

\* poll() returns a broker error: the session ends, the window need not.
BrokerError(w) ==
  /\ pc[w] = "polling" /\ ~ending[w]
  /\ pc' = [pc EXCEPT ![w] = "flushing"]
  /\ UNCHANGED <<log, group, ending, hand, dest, wire, reported, dropped,
                 attempts, faults>>

\* Nothing to read for DRAIN_IDLE_SECS: the extractor ends a bounded window.
IdleExit(w) ==
  /\ IdleExits /\ w \in Bounded /\ pc[w] = "polling" /\ ~ending[w]
  /\ owner = w => pos[w] = Len(log)
  /\ pc' = [pc EXCEPT ![w] = "flushing"]
  /\ ending' = [ending EXCEPT ![w] = TRUE]
  /\ UNCHANGED <<log, group, hand, dest, wire, reported, dropped, attempts,
                 faults>>

\* _resolve_target finds no organisation or product: the message is skipped
\* with a warning and self.target_topic is cleared.
Skip(w) ==
  /\ pc[w] = "forwarding" /\ Route(hand[w]) = Invalid
  /\ dest' = [dest EXCEPT ![w] = NoTopic]
  /\ reported' = reported \cup {hand[w]}
  /\ hand' = [hand EXCEPT ![w] = 0]
  /\ pc' = [pc EXCEPT ![w] = "polling"]
  /\ UNCHANGED <<log, group, ending, wire, dropped, attempts, faults>>

\* A header value does not decode: the session ends with an error in the log,
\* before self.target_topic is touched.
Reject(w) ==
  /\ pc[w] = "forwarding" /\ Route(hand[w]) = Garbled
  /\ reported' = reported \cup {hand[w]}
  /\ hand' = [hand EXCEPT ![w] = 0]
  /\ pc' = [pc EXCEPT ![w] = "flushing"]
  /\ UNCHANGED <<log, group, ending, dest, wire, dropped, attempts, faults>>

\* Mutation: a target once resolved is kept for the messages that follow.
KeepTarget(w) ==
  /\ dest' = [dest EXCEPT ![w] = IF @ = NoTopic THEN Route(hand[w]) ELSE @]
  /\ exists' \in {exists, exists \cup ({dest'[w]} \ {dest[w]})}

\* The topic is looked up, and created if need be, only when it differs from
\* the previous message's; a failure is logged and the produce goes ahead.
EnsureTarget(w) ==
  /\ dest' = [dest EXCEPT ![w] = Route(hand[w])]
  /\ exists' \in {exists, exists \cup ({dest'[w]} \ {dest[w]})}

\* producer.produce() queues a copy for the resolved topic.
Forward(w) ==
  /\ pc[w] = "forwarding" /\ Route(hand[w]) \in Topics
  /\ Cardinality(queue[w]) < QueueCap
  /\ EnsureTarget(w)
  /\ queue' = [queue EXCEPT ![w] = @ \cup
                 {[off |-> hand[w], topic |-> dest'[w], try |-> attempts[hand[w]]]}]
  /\ hand' = [hand EXCEPT ![w] = 0]
  /\ pc' = [pc EXCEPT ![w] = "polling"]
  /\ UNCHANGED <<log, group, ending, adrift, sent, reported, dropped, attempts,
                 faults>>

\* produce() raises (BufferError: the queue is full): the session ends with an
\* error in the log.
ForwardFails(w) ==
  /\ pc[w] = "forwarding" /\ Route(hand[w]) \in Topics
  /\ Cardinality(queue[w]) >= QueueCap
  /\ EnsureTarget(w)
  /\ reported' = reported \cup {hand[w]}
  /\ hand' = [hand EXCEPT ![w] = 0]
  /\ pc' = [pc EXCEPT ![w] = "flushing"]
  /\ UNCHANGED <<log, group, ending, queue, adrift, sent, dropped, attempts,
                 faults>>

\* Mutation: the result of flush() is not looked at.
Uncounted(w) == {}

\* What flush() returns a count of.
Pending(w) == OffsetsOf(queue[w])

\* Mutation: flush() without a timeout.
FlushForever(w) ==
  /\ pc[w] = "flushing" /\ queue[w] = {}
  /\ pc' = [pc EXCEPT ![w] = "closing"]
  /\ UNCHANGED <<log, group, ending, hand, dest, wire, reported, dropped,
                 attempts, faults>>

\* producer.flush(flush_timeout) returns, with the queue empty or with a
\* warning that counts what is still in it.
Flush(w) ==
  /\ pc[w] = "flushing"
  /\ reported' = reported \cup Pending(w)
  /\ pc' = [pc EXCEPT ![w] = "closing"]
  /\ UNCHANGED <<log, group, ending, hand, dest, wire, dropped, attempts, faults>>

\* The window is over; what its producer still holds is nobody's business.
Abandon(w) ==
  /\ adrift' = adrift \cup queue[w]
  /\ queue' = [queue EXCEPT ![w] = {}]

\* consumer.close() commits the stored offset and leaves the group.  Then the
\* window ends, or sleeps before its next session.
Close(w) ==
  /\ pc[w] = "closing"
  /\ IF owner = w THEN Release(w) ELSE UNCHANGED <<committed, owner>>
  /\ IF ending[w]
       THEN pc' = [pc EXCEPT ![w] = "idle"] /\ Abandon(w)
       ELSE pc' = [pc EXCEPT ![w] = "waiting"] /\ UNCHANGED <<adrift, queue>>
  /\ UNCHANGED <<log, pos, ending, hand, dest, sent, exists, reported, dropped,
                 attempts, faults>>

\* After retry_delay the loop opens a new session, with the same producer,
\* unless the deadline has passed.
Retry(w) ==
  /\ pc[w] = "waiting"
  /\ IF ending[w]
       THEN pc' = [pc EXCEPT ![w] = "idle"] /\ Abandon(w)
       ELSE pc' = [pc EXCEPT ![w] = "polling"] /\ UNCHANGED <<adrift, queue>>
  /\ UNCHANGED <<log, group, ending, hand, dest, sent, exists, reported,
                 dropped, attempts, faults>>
-----------------------------------------------------------------------------
(* The end of a process.                                                   *)

\* SIGTERM: sys.exit(0) unwinds the session through its finally block, which
\* still flushes and closes; the message in hand is lost on the way.
Terminate(w) ==
  /\ pc[w] \in {"polling", "forwarding"}
  /\ pc' = [pc EXCEPT ![w] = "flushing"]
  /\ ending' = [ending EXCEPT ![w] = TRUE]
  /\ dropped' = dropped \cup ({hand[w]} \ {0})
  /\ hand' = [hand EXCEPT ![w] = 0]
  /\ UNCHANGED <<log, group, dest, wire, reported, attempts, faults>>

\* The process dies, or SIGTERM finds it outside a session's body: its queue
\* and its place in the group go with it.
Crash(w) ==
  /\ pc[w] # "idle"
  /\ \/ owner # w /\ UNCHANGED <<owner, faults>>
     \/ owner = w /\ faults < MaxFaults /\ owner' = NoWorker /\ faults' = faults + 1
  /\ dropped' = dropped \cup OffsetsOf(queue[w]) \cup ({hand[w]} \ {0})
  /\ queue' = [queue EXCEPT ![w] = {}]
  /\ hand' = [hand EXCEPT ![w] = 0]
  /\ pc' = [pc EXCEPT ![w] = "idle"]
  /\ UNCHANGED <<log, committed, pos, ending, dest, adrift, sent, exists,
                 reported, attempts>>
-----------------------------------------------------------------------------

WorkerStep(w) ==
  \/ Poll(w) \/ DeadlineSeen(w) \/ BrokerError(w) \/ IdleExit(w)
  \/ Skip(w) \/ Reject(w) \/ Forward(w) \/ ForwardFails(w)
  \/ Flush(w) \/ Close(w) \/ Retry(w)

GroupStep(w) == Assign(w) \/ Revoke(w) \/ AutoCommit(w) \/ LoseSession(w)

BrokerStep ==
  \/ \E w \in Workers : \E c \in queue[w] : Deliver(w, c) \/ DeliveryFails(w, c)
  \/ \E c \in adrift : LateDelivery(c)

Next ==
  \/ \E h \in Headers : Publish(h)
  \/ \E w \in Workers : \/ OpenWindow(w) \/ Expire(w) \/ WorkerStep(w)
                        \/ GroupStep(w) \/ Terminate(w) \/ Crash(w)
  \/ BrokerStep

Spec == Init /\ [][Next]_vars
-----------------------------------------------------------------------------
(* Fairness.  A running process keeps running, its deadline comes, the      *)
(* scheduler opens the next window.  A window is long (TOPIC_TASK_TIMEOUT)  *)
(* against an assignment or a poll, so these win often enough: strong       *)
(* fairness.  Nothing is asked of the broker's acknowledgements.            *)

WindowFairness ==
  \A w \in Workers :
    /\ WF_vars(Expire(w))
    /\ WF_vars(DeadlineSeen(w))
    /\ WF_vars(Skip(w) \/ Reject(w) \/ Forward(w) \/ ForwardFails(w))
    /\ WF_vars(Flush(w))
    /\ WF_vars(Close(w))
    /\ WF_vars(Retry(w))

ReadingFairness ==
  /\ \E w \in Bounded : WF_vars(OpenWindow(w))
  /\ \A w \in Workers : SF_vars(~ending[w] /\ Assign(w)) /\ SF_vars(Poll(w))

FairSpec == Spec /\ WindowFairness /\ ReadingFairness
-----------------------------------------------------------------------------
(* Properties.                                                             *)

TypeOK ==
  /\ log \in Seq(Headers) /\ Len(log) <= MaxMessages
  /\ committed \in Nat
  /\ owner \in Workers \cup {NoWorker}
  /\ pos \in [Workers -> Nat]
  /\ pc \in [Workers -> States]
  /\ ending \in [Workers -> BOOLEAN]
  /\ hand \in [Workers -> Nat]
  /\ dest \in [Workers -> Topics \cup {NoTopic}]
  /\ queue \in [Workers -> SUBSET Copies]
  /\ adrift \subseteq Copies /\ sent \subseteq Copies
  /\ exists \subseteq Topics
  /\ reported \subseteq Offsets /\ dropped \subseteq Offsets
  /\ attempts \in [Offsets -> Nat]
  /\ faults \in Nat

\* Message o is on a target topic, still in a process, or its failure to get
\* there was logged or happened in a process that was ending.
Accounted(o) ==
  \/ o \in OffsetsOf(sent) \cup reported \cup dropped
  \/ \E w \in Workers : o = hand[w] \/ o \in OffsetsOf(queue[w])

\* An offset is committed as soon as it was polled, long before the broker
\* has the copy.  Whatever the interleaving of the background commit, the
\* delivery reports, the flush that times out, the two processes and their
\* deaths: a message the group has moved past never disappears without a
\* line in the log, except out of the memory of a process that ended.
NothingSilentlyLost == \A o \in Offsets : o <= committed => Accounted(o)

\* Two processes share the group, sessions come and go, SIGTERM unwinds them:
\* a target topic receives an (n+1)-th copy of a message only after n crashes
\* or expired sessions of the process that held the partition.
OnlyFaultsDuplicate == \A c \in sent : c.try <= faults + 1

\* self.target_topic survives from message to message, from session to session:
\* yet every copy went where the headers of its own message say, and none was
\* made of a message whose headers name no target.
RoutedByOwnHeaders ==
  \A c \in AllCopies : c.off <= Len(log) /\ c.topic = Route(c.off)

\* No process, alive or on its way out, moves the group's offset backwards.
CommitNeverGoesBack == [][committed' >= committed]_committed

\* Processes, sessions and rebalances together are one cursor over the log.
Cursor == IF owner = NoWorker THEN committed ELSE pos[owner]
OneReader == INSTANCE GroupCursor WITH cursor <- Cursor
OneCursor == OneReader!Spec

\* A bounded window ends, also when the broker never acknowledges anything:
\* the flush is bounded, so the scheduler gets to its next tick.
WindowsEnd == \A w \in Bounded : pc[w] # "idle" ~> pc[w] = "idle"

\* Every message published is in the end delivered or accounted for by the log
\* or by the end of a process.
EveryMessageSettled ==
  \A o \in Offsets :
    o <= Len(log) ~> o \in OffsetsOf(sent) \cup reported \cup dropped
=============================================================================
