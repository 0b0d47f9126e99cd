----------------------------- MODULE KafkaTrigger -----------------------------
(***************************************************************************)
(* utils/kafka_trigger.py: pods that run their pipeline when a trigger     *)
(* arrives on the control topic, and answer on the status topic.           *)
(*                                                                         *)
(* WAIT: poll until a trigger for this pipeline, committing each message   *)
(* synchronously, then close the consumer.  EXECUTE: run, publish.  So the *)
(* trigger is committed before it runs, and while a pod executes another   *)
(* pod of the group (a rolling update has two) takes the next trigger.     *)
(*                                                                         *)
(* A pod has one thread: the in-flight guard of _execute_pipeline, set and *)
(* cleared within one call, never finds another run and is left out.  The  *)
(* control topic has one partition, and every message of it is committed   *)
(* before the next poll, so a pod's position is the committed offset.      *)
(*                                                                         *)
(* The other side is a requester (an Airflow task): it asks where the      *)
(* status topic ends, publishes a trigger, and reads statuses from there   *)
(* until one of its run, or for 20 seconds.                                *)
(***************************************************************************)
EXTENDS Naturals, Sequences, FiniteSets

CONSTANTS
  Pods,         \* replicas of one deployment, one consumer group
  Runs,         \* run ids
  Strays,       \* messages on the control topic that are not for these pods,
                \*   or no JSON
  Scalar,       \* the one of them that is JSON, but not an object
  NoPod, NoRun,
  MaxTriggers,  \* bound on the control topic
  MaxFaults     \* bound on crashes, lost sessions, commits and statuses

Modes    == {"automatic", "manual"}
Triggers == [run : Runs, mode : Modes]

ASSUME KafkaTriggerAssumption ==
  /\ NoPod \notin Pods /\ NoRun \notin Runs
  /\ Strays \cap Triggers = {}
  /\ MaxTriggers \in Nat /\ MaxFaults \in Nat

VARIABLES
  control,    \* the control topic
  committed,  \* the group's committed offset
  owner,      \* the pod assigned the partition
  pc,         \* where each pod is
  hand,       \* offset of the message a pod works on, 0 if none
  verdict,    \* the status a pod is about to publish
  last,       \* self._last_processed_run_id
  answers,    \* the status topic: a trigger's offset and its status
  ask,        \* what the requester is doing: from which status on it reads,
              \*   and the offset of its trigger, 0 if that was lost
  open,       \* triggers without an answer when it asked where to start, all
              \*   of them if it could not find out (history)
  taken,      \* answers it took that were to another trigger than its own
              \*   (history)
  executed,   \* how often the pipeline ran for each offset (history)
  succeeded,  \* offsets whose run ended well (history)
  lost,       \* triggers a pod took to its grave, or whose status was lost
              \*   on its way to the broker (history)
  faults      \* failures so far (history)

topics  == <<control, committed, owner>>
pod     == <<pc, hand, verdict, last>>
asker   == <<ask, open, taken>>
history == <<executed, succeeded, lost, faults>>
vars    == <<topics, pod, answers, asker, history>>

Offsets  == 1..MaxTriggers
States   == {"down", "waiting", "committing", "deciding", "running", "reporting",
             "answering"}
Verdicts == {"completed", "failed", "skipped"}

\* The trigger at offset o is for these pods.
Ours(o) == o \in 1..Len(control) /\ control[o] \in Triggers

NoRequest == [at |-> "idle", start |-> 0, run |-> NoRun, off |-> 0]

Init ==
  /\ control = <<>> /\ committed = 0 /\ owner = NoPod
  /\ pc = [w \in Pods |-> "down"] /\ hand = [w \in Pods |-> 0]
  /\ verdict = [w \in Pods |-> "skipped"] /\ last = [w \in Pods |-> NoRun]
  /\ answers = <<>>
  /\ ask = NoRequest
  /\ open = {} /\ taken = {}
  /\ executed = [o \in Offsets |-> 0] /\ succeeded = {} /\ lost = {} /\ faults = 0

Fault == faults < MaxFaults /\ faults' = faults + 1

Leave(w) == owner' = IF owner = w THEN NoPod ELSE owner

\* The pod dies, and what it remembered with it.
Dies(w) ==
  /\ pc' = [pc EXCEPT ![w] = "down"] /\ hand' = [hand EXCEPT ![w] = 0]
  /\ verdict' = [verdict EXCEPT ![w] = "skipped"] /\ last' = [last EXCEPT ![w] = NoRun]
  /\ Leave(w)
-----------------------------------------------------------------------------
(* The requester.                                                          *)

\* The trigger at offset o has an answer.
Answered(o) == \E i \in DOMAIN answers : answers[i].off = o

\* get_status_start_offset: the end of the status topic, or its beginning when
\* the watermarks cannot be read.
Probe ==
  /\ ask.at = "idle" /\ Len(control) < MaxTriggers
  /\ \/ /\ ask' = [ask EXCEPT !.at = "probed", !.start = Len(answers)]
        /\ open' = {o \in Offsets : ~Answered(o)}
        /\ UNCHANGED faults
     \/ /\ Fault
        /\ ask' = [ask EXCEPT !.at = "probed", !.start = 0]
        /\ open' = Offsets
  /\ UNCHANGED <<topics, pod, answers, taken, executed, succeeded, lost>>

\* publish_trigger, also for a run id that was triggered before (a retry).
Trigger(t) ==
  /\ ask.at = "probed" /\ Len(control) < MaxTriggers
  /\ control' = Append(control, t)
  /\ ask' = [ask EXCEPT !.at = "reading", !.run = t.run, !.off = Len(control) + 1]
  /\ UNCHANGED <<committed, owner, pod, answers, open, taken, history>>

\* The delivery report is an error, and flush() raises; or none has come when
\* flush() gives up after 10 seconds, and the requester reads in vain.
TriggerFails(t) ==
  /\ ask.at = "probed" /\ Fault
  /\ \/ ask' = NoRequest /\ open' = {}
     \/ ask' = [ask EXCEPT !.at = "reading", !.run = t.run, !.off = 0] /\ UNCHANGED open
  /\ UNCHANGED <<topics, pod, answers, taken, executed, succeeded, lost>>

\* Mutation: the status topic is read from its beginning.
FittingFromStart == {i \in 1..Len(answers) : control[answers[i].off].run = ask.run}

\* Statuses of the requester's run from its start offset on.
Fitting == {i \in ask.start + 1..Len(answers) : control[answers[i].off].run = ask.run}

\* poll_for_status: the first status that fits.
TakeAnswer ==
  /\ ask.at = "reading" /\ Fitting # {}
  /\ LET first == CHOOSE i \in Fitting : \A j \in Fitting : i <= j
         o     == answers[first].off
     IN taken' = IF o = ask.off THEN taken ELSE taken \cup {[off |-> o, open |-> o \in open]}
  /\ ask' = NoRequest /\ open' = {}
  /\ UNCHANGED <<topics, pod, answers, history>>

\* Twenty seconds have passed: the requester is told nothing.
GiveUp ==
  /\ ask.at = "reading"
  /\ ask' = NoRequest /\ open' = {}
  /\ UNCHANGED <<topics, pod, answers, taken, history>>
-----------------------------------------------------------------------------
(* The control topic and the group.                                        *)

\* Somebody else publishes on the control topic.
Stray(m) ==
  /\ Len(control) < MaxTriggers
  /\ control' = Append(control, m)
  /\ UNCHANGED <<committed, owner, pod, answers, asker, history>>

Start(w) ==
  /\ pc[w] = "down"
  /\ pc' = [pc EXCEPT ![w] = "waiting"]
  /\ UNCHANGED <<topics, hand, verdict, last, answers, asker, history>>

Assign(w) ==
  /\ owner = NoPod /\ pc[w] = "waiting"
  /\ owner' = w
  /\ UNCHANGED <<control, committed, pod, answers, asker, history>>

\* poll() serves a rebalance; there is nothing uncommitted.
Revoke(w) ==
  /\ owner = w /\ pc[w] = "waiting"
  /\ \E v \in Pods \ {w} : pc[v] = "waiting"
  /\ owner' = NoPod
  /\ UNCHANGED <<control, committed, pod, answers, asker, history>>

LoseSession(w) ==
  /\ owner = w /\ Fault
  /\ owner' = NoPod
  /\ UNCHANGED <<control, committed, pod, answers, asker, executed, succeeded, lost>>
-----------------------------------------------------------------------------
(* WAIT                                                                    *)

\* Mutation: a message past the end of the topic.
PollPastEnd(w) ==
  /\ pc[w] = "waiting" /\ owner = w /\ committed <= Len(control)
  /\ hand' = [hand EXCEPT ![w] = committed + 1]
  /\ pc' = [pc EXCEPT ![w] = "committing"]
  /\ UNCHANGED <<topics, verdict, last, answers, asker, history>>

Poll(w) ==
  /\ pc[w] = "waiting" /\ owner = w /\ committed < Len(control)
  /\ hand' = [hand EXCEPT ![w] = committed + 1]
  /\ pc' = [pc EXCEPT ![w] = "committing"]
  /\ UNCHANGED <<topics, verdict, last, answers, asker, history>>

\* payload.get of a payload that is no object raises, before any commit: the
\* pod dies and will find the message again.
Choke(w) ==
  /\ pc[w] = "committing" /\ control[hand[w]] = Scalar
  /\ Dies(w)
  /\ UNCHANGED <<control, committed, answers, asker, history>>

\* Mutation: a message for somebody else is skipped without a commit.
SkipStray(w) ==
  /\ pc[w] = "committing" /\ owner = w
  /\ ~Ours(hand[w]) /\ control[hand[w]] # Scalar
  /\ pc' = [pc EXCEPT ![w] = "waiting"] /\ hand' = [hand EXCEPT ![w] = 0]
  /\ UNCHANGED <<topics, verdict, last, answers, asker, history>>

\* A message that is garbled or not for this pipeline is committed and skipped.
CommitStray(w) ==
  /\ pc[w] = "committing" /\ owner = w
  /\ ~Ours(hand[w]) /\ control[hand[w]] # Scalar
  /\ committed' = hand[w]
  /\ pc' = [pc EXCEPT ![w] = "waiting"] /\ hand' = [hand EXCEPT ![w] = 0]
  /\ UNCHANGED <<control, owner, verdict, last, answers, asker, history>>

\* Mutation: the trigger is run although a fenced commit failed.
CommitUnchecked(w) ==
  /\ pc[w] = "committing" /\ Ours(hand[w])
  /\ IF owner = w THEN committed' = hand[w] /\ owner' = NoPod
                  ELSE UNCHANGED <<committed, owner>>
  /\ pc' = [pc EXCEPT ![w] = "deciding"]
  /\ UNCHANGED <<control, hand, verdict, last, answers, asker, history>>

\* A trigger is committed, the consumer closed, and the trigger handed over.
CommitTrigger(w) ==
  /\ pc[w] = "committing" /\ owner = w /\ Ours(hand[w])
  /\ committed' = hand[w] /\ owner' = NoPod
  /\ pc' = [pc EXCEPT ![w] = "deciding"]
  /\ UNCHANGED <<control, hand, verdict, last, answers, asker, history>>

\* The commit raises.  A member the group has dropped is fenced; otherwise the
\* broker may or may not have taken the commit.  The pod dies.
CommitFails(w) ==
  /\ pc[w] = "committing" /\ control[hand[w]] # Scalar
  /\ \/ owner # w /\ UNCHANGED <<committed, lost, faults>>
     \/ owner = w /\ Fault /\ UNCHANGED <<committed, lost>>
     \/ owner = w /\ Fault /\ committed' = hand[w] /\ lost' = lost \cup {hand[w]}
  /\ Dies(w)
  /\ UNCHANGED <<control, answers, asker, executed, succeeded>>
-----------------------------------------------------------------------------
(* EXECUTE                                                                 *)

RunOf(w) == control[hand[w]].run

\* The run id of the previous trigger: answered without running.
Duplicate(w) ==
  /\ pc[w] = "deciding" /\ RunOf(w) = last[w]
  /\ verdict' = [verdict EXCEPT ![w] = "completed"]
  /\ pc' = [pc EXCEPT ![w] = "answering"]
  /\ UNCHANGED <<topics, hand, last, answers, asker, history>>

\* Mutation: a manual trigger is skipped without an answer.
SkipSilently(w) ==
  /\ pc[w] = "deciding" /\ RunOf(w) # last[w] /\ control[hand[w]].mode = "manual"
  /\ pc' = [pc EXCEPT ![w] = "waiting"] /\ hand' = [hand EXCEPT ![w] = 0]
  /\ UNCHANGED <<topics, verdict, last, answers, asker, history>>

\* The trigger itself says manual.
SkipManual(w) ==
  /\ pc[w] = "deciding" /\ RunOf(w) # last[w] /\ control[hand[w]].mode = "manual"
  /\ verdict' = [verdict EXCEPT ![w] = "skipped"]
  /\ pc' = [pc EXCEPT ![w] = "answering"]
  /\ UNCHANGED <<topics, hand, last, answers, asker, history>>

RunPipeline(w) ==
  /\ pc[w] = "deciding" /\ RunOf(w) # last[w] /\ control[hand[w]].mode = "automatic"
  /\ executed' = [executed EXCEPT ![hand[w]] = @ + 1]
  /\ pc' = [pc EXCEPT ![w] = "running"]
  /\ UNCHANGED <<topics, hand, verdict, last, answers, asker, succeeded, lost, faults>>

\* run_fn returns, or raises; either way the run id is remembered.
Succeed(w) ==
  /\ pc[w] = "running"
  /\ succeeded' = succeeded \cup {hand[w]}
  /\ last' = [last EXCEPT ![w] = RunOf(w)]
  /\ verdict' = [verdict EXCEPT ![w] = "completed"]
  /\ pc' = [pc EXCEPT ![w] = "reporting"]
  /\ UNCHANGED <<topics, hand, answers, asker, executed, lost, faults>>

FailRun(w) ==
  /\ pc[w] = "running"
  /\ last' = [last EXCEPT ![w] = RunOf(w)]
  /\ verdict' = [verdict EXCEPT ![w] = "failed"]
  /\ pc' = [pc EXCEPT ![w] = "answering"]
  /\ UNCHANGED <<topics, hand, answers, asker, history>>

\* publish() inside the try block raises: the run counts as failed.
ReportRaises(w) ==
  /\ pc[w] = "reporting" /\ Fault
  /\ verdict' = [verdict EXCEPT ![w] = "failed"]
  /\ pc' = [pc EXCEPT ![w] = "answering"]
  /\ UNCHANGED <<topics, hand, last, answers, asker, executed, succeeded, lost>>

\* publish() flushes; nobody looks at the delivery report, so that the status
\* is on its topic, or was lost, when it returns.
Publish(w) ==
  /\ pc[w] \in {"reporting", "answering"}
  /\ \/ /\ answers' = Append(answers, [off |-> hand[w], status |-> verdict[w]])
        /\ UNCHANGED <<lost, faults>>
     \/ /\ Fault /\ lost' = lost \cup {hand[w]}
        /\ UNCHANGED answers
  /\ pc' = [pc EXCEPT ![w] = "waiting"] /\ hand' = [hand EXCEPT ![w] = 0]
  /\ verdict' = [verdict EXCEPT ![w] = "skipped"]
  /\ UNCHANGED <<topics, last, asker, executed, succeeded>>

\* The pod dies, also of an exception outside the try block.
Crash(w) ==
  /\ pc[w] # "down" /\ Fault
  /\ lost' = IF pc[w] \in {"waiting", "committing"} THEN lost
             ELSE lost \cup {hand[w]}
  /\ Dies(w)
  /\ UNCHANGED <<control, committed, answers, asker, executed, succeeded>>
-----------------------------------------------------------------------------
Wait(w)    == Poll(w) \/ Choke(w) \/ CommitStray(w) \/ CommitTrigger(w) \/ CommitFails(w)
Execute(w) == \/ Duplicate(w) \/ SkipManual(w) \/ RunPipeline(w) \/ Succeed(w)
              \/ FailRun(w) \/ ReportRaises(w) \/ Publish(w)
Group(w)   == Assign(w) \/ Revoke(w) \/ LoseSession(w)

Requester ==
  \/ Probe \/ TakeAnswer \/ GiveUp
  \/ \E t \in Triggers : Trigger(t) \/ TriggerFails(t)

Next ==
  \/ Requester \/ \E m \in Strays : Stray(m)
  \/ \E w \in Pods : Start(w) \/ Group(w) \/ Wait(w) \/ Execute(w) \/ Crash(w)

Spec == Init /\ [][Next]_vars

\* A pod is restarted, gets the partition, polls it and does its next step; a
\* rebalance may put an assignment off, but not for ever.
FairSpec ==
  /\ Spec
  /\ \A w \in Pods : /\ WF_vars(Start(w))
                     /\ WF_vars(Choke(w) \/ CommitStray(w) \/ CommitTrigger(w) \/ CommitFails(w))
                     /\ WF_vars(Execute(w))
                     /\ SF_vars(Poll(w))
  /\ WF_vars(\E w \in Pods : Assign(w))
-----------------------------------------------------------------------------
(* Properties.                                                             *)

TypeOK ==
  /\ control \in Seq(Triggers \cup Strays) /\ Len(control) <= MaxTriggers
  /\ committed \in 0..Len(control)
  /\ owner \in Pods \cup {NoPod}
  /\ pc \in [Pods -> States] /\ hand \in [Pods -> 0..Len(control)]
  /\ verdict \in [Pods -> Verdicts] /\ last \in [Pods -> Runs \cup {NoRun}]
  /\ answers \in Seq([off : Offsets, status : Verdicts])
  /\ ask \in [at : {"idle", "probed", "reading"}, start : 0..Len(answers),
              run : Runs \cup {NoRun}, off : 0..Len(control)]
  /\ open \subseteq Offsets
  /\ taken \subseteq [off : Offsets, open : BOOLEAN]
  /\ executed \in [Offsets -> Nat] /\ succeeded \subseteq Offsets
  /\ lost \subseteq Offsets /\ faults \in Nat

\* A trigger runs the pipeline at most once and is answered at most once, even
\* with two pods, sessions that expire between the poll and the commit, and a
\* commit that fails: the commit comes before the run.
AtMostOncePerTrigger ==
  \A o \in Offsets :
    /\ executed[o] <= 1
    /\ Cardinality({i \in DOMAIN answers : answers[i].off = o}) <= 1

\* A pod holds the trigger at offset o.
Held(o) == \E w \in Pods : hand[w] = o /\ pc[w] \notin {"waiting", "committing"}

\* What has become of the trigger at offset o; a committed one that is not answered,
\* not lost and in nobody's hand would be forgotten.
LifeOf(o) ==
  IF ~Ours(o) THEN "none"
  ELSE IF Answered(o) THEN "answered"
  ELSE IF o \in lost THEN "lost"
  ELSE IF Held(o) THEN "taken"
  ELSE IF o > committed THEN "waiting" ELSE "forgotten"

\* However pods, sessions, commits and statuses fail, the pods of a group keep the
\* promise of TriggerLife: triggers are taken in their order, and none is run or
\* answered twice, answered for what did not happen, or lost without a fault.
Life     == [o \in Offsets |-> LifeOf(o)]
Promised == INSTANCE TriggerLife WITH life <- Life, runs <- executed, Statuses <- Verdicts
OneLife  == Promised!Spec

\* Every trigger is taken up and answered, or lost in one of the two ways,
\* whatever comes before it on the topic but a payload that is no object.
EveryTriggerSettled ==
  \A o \in Offsets :
    Ours(o) /\ (\A q \in 1..o : control[q] # Scalar)
      ~> o \in lost \/ Answered(o)

\* The answer a requester takes is the one to its own trigger, or to an earlier
\* one of the same run id that was still open when it began (it gave up on it
\* and tried again); an answer that was there before is not taken for a new one,
\* unless the end of the status topic could not be read.
RightAnswer == \A a \in taken : a.open

\* "Publish status (success/failure)" (module docstring): a run id answered
\* with "completed" did complete.
CompletedMeansSucceeded ==
  \A i \in DOMAIN answers : answers[i].status = "completed" =>
    \E o \in succeeded : control[o].run = control[answers[i].off].run
=============================================================================
