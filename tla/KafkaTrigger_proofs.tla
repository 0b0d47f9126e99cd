--------------------------- MODULE KafkaTrigger_proofs ---------------------------
(***************************************************************************)
(* Proofs about KafkaTrigger, for any number of pods, run ids, triggers    *)
(* and failures: a trigger runs and is answered at most once, a committed  *)
(* one is not forgotten, a requester takes its own answer, and the pods    *)
(* keep the promise of TriggerLife.                                        *)
(***************************************************************************)
EXTENDS KafkaTrigger, FiniteSetTheorems, WellFoundedInduction, TLAPS

\* The pod has committed a trigger that it has not answered.
Holds(w) == pc[w] \in {"deciding", "running", "reporting", "answering"}

\* A pod has a message in hand from its poll on; what it holds is a committed
\* trigger, and nobody else's.
HandOK ==
  /\ \A w \in Pods :
       /\ IF pc[w] \in {"down", "waiting"} THEN hand[w] = 0 ELSE hand[w] >= 1
       /\ Holds(w) => Ours(hand[w]) /\ hand[w] <= committed
  /\ \A v, w \in Pods : Holds(v) /\ Holds(w) /\ hand[v] = hand[w] => v = w

\* Who is still assigned the partition at its commit is about to commit the next.
CommitOK ==
  \A w \in Pods : pc[w] = "committing" /\ owner = w => hand[w] = committed + 1

\* Nothing runs before its commit, and what is being decided did not run.
ExecutedOK ==
  /\ \A o \in Offsets : executed[o] <= 1 /\ (o > committed => executed[o] = 0)
  /\ \A w \in Pods : pc[w] = "deciding" => executed[hand[w]] = 0

\* An answer is one to a committed trigger that nobody holds any more, and the
\* only one to it.
AnswersOK ==
  /\ \A i \in 1..Len(answers) : answers[i].off <= committed
  /\ \A w \in Pods : Holds(w) => \A i \in 1..Len(answers) : answers[i].off # hand[w]
  /\ \A i, j \in 1..Len(answers) : answers[i].off = answers[j].off => i = j

\* What was not open when the requester asked has its answer, and the answers from
\* its start on are to what was open.
AskOK ==
  ask.at # "idle" =>
    /\ \A o \in Offsets \ open : \E i \in 1..Len(answers) : answers[i].off = o
    /\ \A i \in ask.start + 1..Len(answers) : answers[i].off \in open

\* What was lost was committed, and nobody holds it any more.
LostOK ==
  /\ \A o \in lost : o \in 1..committed
  /\ \A w \in Pods : Holds(w) => hand[w] \notin lost

\* A pod is about to say failed only of a run, and skipped only without one.
VerdictOK ==
  \A w \in Pods :
    /\ pc[w] = "running" => executed[hand[w]] = 1
    /\ pc[w] = "reporting" => executed[hand[w]] = 1 /\ verdict[w] = "completed"
    /\ pc[w] = "answering" => /\ verdict[w] = "failed" => executed[hand[w]] = 1
                              /\ verdict[w] = "skipped" => executed[hand[w]] = 0

\* Nothing but the death of the pod that holds it, or a status the broker never
\* got, comes between a committed trigger and its answer.
CommittedIsAnswered ==
  \A o \in 1..committed : Ours(o) =>
    \/ o \in lost
    \/ Answered(o)
    \/ \E w \in Pods : hand[w] = o /\ pc[w] \notin {"waiting", "committing"}

IInv ==
  /\ TypeOK /\ HandOK /\ CommitOK /\ ExecutedOK /\ AnswersOK /\ AskOK
  /\ LostOK /\ VerdictOK /\ CommittedIsAnswered /\ RightAnswer
-----------------------------------------------------------------------------

(* The statuses are numbered from one. *)
LEMMA AnswersDomain ==
  ASSUME TypeOK
  PROVE  DOMAIN answers = 1..Len(answers) /\ Len(answers) \in Nat
BY DEF TypeOK

(* What is published comes after what was there. *)
LEMMA ControlGrows ==
  ASSUME TypeOK, NEW m \in Triggers \cup Strays, control' = Append(control, m)
  PROVE  /\ control' \in Seq(Triggers \cup Strays)
         /\ Len(control') = Len(control) + 1 /\ Len(control) \in Nat
         /\ \A o \in 1..Len(control) : control'[o] = control[o]
BY DEF TypeOK

(* So does an answer. *)
LEMMA AnswersGrow ==
  ASSUME TypeOK, NEW a \in [off : Offsets, status : Verdicts],
         answers' = Append(answers, a)
  PROVE  /\ answers' \in Seq([off : Offsets, status : Verdicts])
         /\ Len(answers') = Len(answers) + 1 /\ Len(answers) \in Nat
         /\ \A i \in 1..Len(answers) : answers'[i] = answers[i]
         /\ answers'[Len(answers) + 1] = a
BY DEF TypeOK

(* The numbers and functions the other proofs count with. *)
Ranges ==
  /\ committed \in Nat /\ Len(control) \in Nat /\ committed <= Len(control)
  /\ Len(answers) \in Nat /\ \A i \in 1..Len(answers) : answers[i].off \in Offsets
  /\ Offsets \subseteq Nat /\ \A o \in 1..Len(control) : o \in Offsets
  /\ pc \in [Pods -> States] /\ hand \in [Pods -> Nat]
  /\ executed \in [Offsets -> Nat] /\ ask.start \in Nat

(* They follow from the types. *)
LEMMA InRange == TypeOK => Ranges
<1> SUFFICES ASSUME TypeOK PROVE Ranges
  OBVIOUS
<1> USE KafkaTriggerAssumption DEF KafkaTriggerAssumption
<1>1. /\ Len(control) \in Nat /\ committed \in 0..Len(control) /\ Len(control) <= MaxTriggers
      /\ Len(answers) \in Nat
  BY DEF TypeOK
<1>2. hand \in [Pods -> Nat]
  BY DEF TypeOK
<1>3. \A i \in 1..Len(answers) : answers[i].off \in Offsets
  <2> DEFINE S == [off : Offsets, status : Verdicts]
  <2>1. answers \in Seq(S)
    BY DEF TypeOK
  <2>2. \A a \in S : a.off \in Offsets
    OBVIOUS
  <2> HIDE DEF S
  <2>3. \A i \in 1..Len(answers) : answers[i] \in S
    BY <2>1
  <2> QED
    BY <2>2, <2>3
<1>4. ask.start \in Nat
  BY <1>1 DEF TypeOK
<1>5. \A o \in 1..Len(control) : o \in Offsets
  BY <1>1 DEF Offsets
<1>6. pc \in [Pods -> States] /\ executed \in [Offsets -> Nat] /\ Offsets \subseteq Nat
  BY DEF TypeOK, Offsets
<1> QED
  BY <1>1, <1>2, <1>3, <1>4, <1>5, <1>6 DEF Ranges

(* What a pod holds is the offset of a trigger, with a run id. *)
LEMMA HeldTrigger ==
  ASSUME TypeOK, HandOK, NEW w \in Pods, Holds(w)
  PROVE  hand[w] \in Offsets /\ hand[w] \in 1..committed /\ RunOf(w) \in Runs
<1>1. hand[w] \in 1..Len(control) /\ control[hand[w]] \in Triggers
  BY DEF HandOK, Ours
<1>2. control[hand[w]].run \in Runs
  BY <1>1 DEF Triggers
<1>3. hand[w] <= committed /\ committed \in Nat /\ Len(control) \in Nat
      /\ Len(control) <= MaxTriggers
  BY DEF HandOK, TypeOK
<1> QED
  BY <1>1, <1>2, <1>3, KafkaTriggerAssumption
  DEF KafkaTriggerAssumption, Offsets, RunOf

(* The status a pod publishes. *)
LEMMA StatusType ==
  ASSUME TypeOK, HandOK, NEW w \in Pods, Holds(w)
  PROVE  LET a == [off |-> hand[w], status |-> verdict[w]]
         IN  a \in [off : Offsets, status : Verdicts] /\ a.off = hand[w]
BY HeldTrigger DEF TypeOK

(* What the requester remembers, with statuses and offsets up to two bounds, *)
Asks(n, m) ==
  [at : {"idle", "probed", "reading"}, start : 0..n, run : Runs \cup {NoRun}, off : 0..m]

(* when it has asked where to start, *)
LEMMA AskProbes ==
  ASSUME NEW n \in Nat, NEW m \in Nat, NEW a \in Asks(n, m), NEW k \in 0..n
  PROVE  [a EXCEPT !.at = "probed", !.start = k] \in Asks(n, m)
<1> DEFINE at == {"idle", "probed", "reading"}
           start == 0..n
           run == Runs \cup {NoRun}
           off == 0..m
           b == [a EXCEPT !.at = "probed", !.start = k]
<1>1. a \in [at : at, start : start, run : run, off : off] /\ "probed" \in at /\ k \in start
  BY DEF Asks
<1> HIDE DEF at, start, run, off
<1>2. b \in [at : at, start : start, run : run, off : off]
  BY <1>1
<1> QED
  BY <1>2 DEF Asks, at, start, run, off

(* when it reads, *)
LEMMA AskReads ==
  ASSUME NEW n \in Nat, NEW m \in Nat, NEW a \in Asks(n, m), NEW r \in Runs, NEW k \in 0..m
  PROVE  [a EXCEPT !.at = "reading", !.run = r, !.off = k] \in Asks(n, m)
<1> DEFINE at == {"idle", "probed", "reading"}
           start == 0..n
           run == Runs \cup {NoRun}
           off == 0..m
           b == [a EXCEPT !.at = "reading", !.run = r, !.off = k]
<1>1. /\ a \in [at : at, start : start, run : run, off : off]
      /\ "reading" \in at /\ r \in run /\ k \in off
  BY DEF Asks
<1> HIDE DEF at, start, run, off
<1>2. b \in [at : at, start : start, run : run, off : off]
  BY <1>1
<1> QED
  BY <1>2 DEF Asks, at, start, run, off

(* when the topics grow, *)
LEMMA AskGrows ==
  ASSUME NEW n \in Nat, NEW m \in Nat, NEW a \in Asks(n, m),
         NEW k \in Nat, NEW l \in Nat, n <= k, m <= l
  PROVE  a \in Asks(k, l)
BY DEF Asks

(* and at rest. *)
LEMMA AskRests == \A n, m \in Nat : NoRequest \in Asks(n, m)
BY DEF Asks, NoRequest

(* The requester's type in these terms. *)
LEMMA AskType ==
  ASSUME TypeOK
  PROVE  Len(answers) \in Nat /\ Len(control) \in Nat /\ ask \in Asks(Len(answers), Len(control))
BY DEF TypeOK, Asks

(* A message in hand is one of the control topic. *)
LEMMA HandInRange ==
  ASSUME TypeOK, HandOK, NEW w \in Pods, pc[w] \notin {"down", "waiting"}
  PROVE  hand[w] \in 1..Len(control) /\ hand[w] \in Offsets
<1>1. /\ hand[w] \in 0..Len(control) /\ Len(control) \in Nat /\ Len(control) <= MaxTriggers
      /\ hand[w] >= 1
  BY DEF TypeOK, HandOK
<1> QED
  BY <1>1, KafkaTriggerAssumption DEF KafkaTriggerAssumption, Offsets

(* The first status that fits is one. *)
LEMMA FirstFits ==
  ASSUME TypeOK, Fitting # {}
  PROVE  (CHOOSE i \in Fitting : \A j \in Fitting : i <= j) \in Fitting
<1>1. Fitting \subseteq Nat
  BY DEF TypeOK, Fitting
<1>2. PICK i \in Fitting : \A j \in Fitting : <<j, i>> \notin OpToRel(<, Nat)
  BY <1>1, NatLessThanWellFounded, WFMin
<1>3. \A j \in Fitting : i <= j
  <2> SUFFICES ASSUME NEW j \in Fitting PROVE ~(j < i)
    BY <1>1
  <2>1. <<j, i>> \notin OpToRel(<, Nat) /\ i \in Nat /\ j \in Nat
    BY <1>1, <1>2
  <2>2. j < i => <<j, i>> \in OpToRel(<, Nat)
    BY <2>1 DEF OpToRel
  <2> QED
    BY <2>1, <2>2
<1> QED
  BY <1>3

(* What a requester takes is one of the answers from its start on. *)
LEMMA TakesFrom ==
  ASSUME TypeOK, TakeAnswer
  PROVE  \E i \in ask.start + 1..Len(answers) :
           LET o == answers[i].off
           IN  taken' = taken \/ taken' = taken \cup {[off |-> o, open |-> o \in open]}
<1> DEFINE i == CHOOSE i \in Fitting : \A j \in Fitting : i <= j
<1>1. i \in Fitting
  BY FirstFits DEF TakeAnswer
<1>2. i \in ask.start + 1..Len(answers)
  BY <1>1 DEF Fitting
<1>3. LET o == answers[i].off
      IN  taken' = taken \/ taken' = taken \cup {[off |-> o, open |-> o \in open]}
  BY Zenon DEF TakeAnswer
<1> HIDE DEF i
<1> QED
  BY <1>2, <1>3

(* Type correctness: the topics only grow. *)
LEMMA TypeStep == TypeOK /\ HandOK /\ [Next]_vars => TypeOK'
<1> SUFFICES ASSUME TypeOK, HandOK, [Next]_vars PROVE TypeOK'
  OBVIOUS
<1> USE KafkaTriggerAssumption DEF KafkaTriggerAssumption, topics, pod, asker, history, TypeOK, HandOK, Holds, States, Verdicts
<1>1. CASE Probe
  <2>1. /\ ask \in Asks(Len(answers), Len(control))
        /\ Len(answers) \in Nat /\ Len(control) \in Nat
    BY AskType
  <2>2. \A k \in 0..Len(answers) :
          [ask EXCEPT !.at = "probed", !.start = k] \in Asks(Len(answers), Len(control))
    BY <2>1, AskProbes
  <2>3. 0 \in 0..Len(answers) /\ Len(answers) \in 0..Len(answers)
    BY <2>1
  <2>4. ask' \in Asks(Len(answers), Len(control))
    <3>1. PICK k \in 0..Len(answers) : ask' = [ask EXCEPT !.at = "probed", !.start = k]
      <4> HIDE DEF TypeOK
      <4> QED
        BY <1>1, <2>3 DEF Probe
    <3> QED
      BY <2>2, <3>1
  <2>5. open' \subseteq Offsets /\ faults' \in Nat
    BY <1>1 DEF Probe, Fault
  <2>6. UNCHANGED <<topics, pod, answers, taken, executed, succeeded, lost>>
    BY <1>1 DEF Probe
  <2> QED
    BY <2>4, <2>5, <2>6 DEF Asks
<1>2. CASE TakeAnswer
  <2>1. PICK i \in ask.start + 1..Len(answers) :
          LET o == answers[i].off
          IN  taken' = taken \/ taken' = taken \cup {[off |-> o, open |-> o \in open]}
    BY <1>2, TakesFrom
  <2>2. i \in 1..Len(answers)
    <3>1. ask.start \in Nat /\ Len(answers) \in Nat
      BY AskType DEF Asks
    <3> QED
      BY <3>1
  <2>3. answers[i].off \in Offsets
    BY <2>2, InRange DEF Ranges
  <2>4. taken' \subseteq [off : Offsets, open : BOOLEAN]
    <3> DEFINE o == answers[i].off
               yes == o \in open
    <3>1. yes \in BOOLEAN /\ o \in Offsets
      BY <2>3
    <3>2. taken' = taken \/ taken' = taken \cup {[off |-> o, open |-> yes]}
      BY <2>1
    <3> HIDE DEF o, yes
    <3> QED
      BY <3>1, <3>2
  <2>5. ask' \in Asks(Len(answers), Len(control))
    BY <1>2, AskType, AskRests DEF TakeAnswer
  <2>6. open' \subseteq Offsets
    BY <1>2 DEF TakeAnswer
  <2> QED
    BY <1>2, <2>4, <2>5, <2>6 DEF TakeAnswer, Asks
<1>3. CASE GiveUp
  BY <1>3 DEF GiveUp, NoRequest
<1>4. ASSUME NEW t \in Triggers, Trigger(t) PROVE TypeOK'
  <2>1. t \in Triggers \cup Strays /\ control' = Append(control, t)
    BY <1>4 DEF Trigger
  <2>2. /\ control' \in Seq(Triggers \cup Strays) /\ Len(control') = Len(control) + 1
        /\ Len(control) \in Nat
    BY <2>1, ControlGrows
  <2>3. Len(control') <= MaxTriggers
    BY <1>4, <2>2 DEF Trigger
  <2>4. t.run \in Runs
    BY DEF Triggers
  <2>5. ask' \in Asks(Len(answers), Len(control'))
    <3>1. ask \in Asks(Len(answers), Len(control'))
      BY <2>2, AskType, AskGrows
    <3>2. Len(control) + 1 \in 0..Len(control')
      BY <2>2
    <3> QED
      <4>1. [ask EXCEPT !.at = "reading", !.run = t.run, !.off = Len(control) + 1]
              \in Asks(Len(answers), Len(control'))
        <5>1. Len(answers) \in Nat /\ Len(control') \in Nat
          BY <2>2, AskType
        <5>2. \A k \in 0..Len(control') :
                [ask EXCEPT !.at = "reading", !.run = t.run, !.off = k]
                  \in Asks(Len(answers), Len(control'))
          BY <2>4, <3>1, <5>1, AskReads
        <5> QED
          BY <3>2, <5>2
      <4> QED
        BY <1>4, <4>1 DEF Trigger
  <2>6. hand \in [Pods -> 0..Len(control')] /\ committed \in 0..Len(control')
    BY <2>2
  <2> QED
    BY <1>4, <2>2, <2>3, <2>5, <2>6 DEF Trigger, Asks
<1>5. ASSUME NEW t \in Triggers, TriggerFails(t) PROVE TypeOK'
  <2>1. t.run \in Runs
    BY DEF Triggers
  <2>2. ask' \in Asks(Len(answers), Len(control))
    <3>1. NoRequest \in Asks(Len(answers), Len(control))
      BY AskType, AskRests
    <3>2. 0 \in 0..Len(control)
      BY AskType
    <3>3. [ask EXCEPT !.at = "reading", !.run = t.run, !.off = 0]
            \in Asks(Len(answers), Len(control))
      BY <2>1, <3>2, AskType, AskReads
    <3> QED
      BY <1>5, <3>1, <3>3 DEF TriggerFails
  <2>3. open' \subseteq Offsets /\ faults' \in Nat
    BY <1>5 DEF TriggerFails, Fault
  <2> QED
    BY <1>5, <2>2, <2>3 DEF TriggerFails, Asks
<1>6. ASSUME NEW m \in Strays, Stray(m) PROVE TypeOK'
  <2>1. m \in Triggers \cup Strays /\ control' = Append(control, m)
    BY <1>6 DEF Stray
  <2>2. /\ control' \in Seq(Triggers \cup Strays) /\ Len(control') = Len(control) + 1
        /\ Len(control) \in Nat
    BY <2>1, ControlGrows
  <2>3. Len(control') <= MaxTriggers
    BY <1>6, <2>2 DEF Stray
  <2>4. ask \in Asks(Len(answers), Len(control'))
    BY <2>2, AskType, AskGrows
  <2>5. hand \in [Pods -> 0..Len(control')] /\ committed \in 0..Len(control')
    BY <2>2
  <2> QED
    BY <1>6, <2>2, <2>3, <2>4, <2>5 DEF Stray, Asks
<1>7. ASSUME NEW w \in Pods, Start(w) PROVE TypeOK'
  BY <1>7 DEF Start
<1>8. ASSUME NEW w \in Pods, Assign(w) PROVE TypeOK'
  BY <1>8 DEF Assign
<1>9. ASSUME NEW w \in Pods, Revoke(w) PROVE TypeOK'
  BY <1>9 DEF Revoke
<1>10. ASSUME NEW w \in Pods, LoseSession(w) PROVE TypeOK'
  BY <1>10 DEF LoseSession, Fault
<1>11. ASSUME NEW w \in Pods, Poll(w) PROVE TypeOK'
  <2>1. committed + 1 \in 0..Len(control) /\ Len(control) \in Nat
    BY <1>11 DEF Poll
  <2>2. hand' \in [Pods -> 0..Len(control)] /\ pc' \in [Pods -> States]
    BY <1>11, <2>1 DEF Poll
  <2>3. UNCHANGED <<topics, verdict, last, answers, asker, history>>
    BY <1>11 DEF Poll
  <2> QED
    BY <2>2, <2>3
<1>12. ASSUME NEW w \in Pods, Choke(w) PROVE TypeOK'
  <2>1. 0 \in 0..Len(control)
    OBVIOUS
  <2>2. /\ hand' \in [Pods -> 0..Len(control)] /\ pc' \in [Pods -> States]
        /\ verdict' \in [Pods -> Verdicts] /\ last' \in [Pods -> Runs \cup {NoRun}]
        /\ owner' \in Pods \cup {NoPod}
    BY <1>12, <2>1 DEF Choke, Dies, Leave
  <2>3. UNCHANGED <<control, committed, answers, asker, history>>
    BY <1>12 DEF Choke
  <2> QED
    BY <2>2, <2>3
<1>13. ASSUME NEW w \in Pods, CommitStray(w) PROVE TypeOK'
  <2>1. 0 \in 0..Len(control) /\ hand[w] \in 0..Len(control)
    OBVIOUS
  <2>2. /\ hand' \in [Pods -> 0..Len(control)] /\ pc' \in [Pods -> States]
        /\ committed' \in 0..Len(control)
    BY <1>13, <2>1 DEF CommitStray
  <2>3. UNCHANGED <<control, owner, verdict, last, answers, asker, history>>
    BY <1>13 DEF CommitStray
  <2> QED
    BY <2>2, <2>3
<1>14. ASSUME NEW w \in Pods, CommitTrigger(w) PROVE TypeOK'
  BY <1>14 DEF CommitTrigger
<1>15. ASSUME NEW w \in Pods, CommitFails(w) PROVE TypeOK'
  <2>1. hand[w] \in Offsets /\ hand[w] \in 0..Len(control)
    BY <1>15, HandInRange DEF CommitFails
  <2>2. lost' \subseteq Offsets /\ committed' \in 0..Len(control) /\ faults' \in Nat
    <3>1. \/ UNCHANGED <<committed, lost>>
          \/ committed' = hand[w] /\ lost' = lost \cup {hand[w]}
      BY <1>15 DEF CommitFails
    <3>2. faults' = faults \/ faults' = faults + 1
      BY <1>15 DEF CommitFails, Fault
    <3>3. lost \subseteq Offsets /\ committed \in 0..Len(control) /\ faults \in Nat
      OBVIOUS
    <3> HIDE DEF TypeOK
    <3> QED
      BY <2>1, <3>1, <3>2, <3>3
  <2> QED
    BY <1>15, <2>2 DEF CommitFails, Dies, Leave
<1>16. ASSUME NEW w \in Pods, Duplicate(w) PROVE TypeOK'
  BY <1>16 DEF Duplicate
<1>17. ASSUME NEW w \in Pods, SkipManual(w) PROVE TypeOK'
  BY <1>17 DEF SkipManual
<1>18. ASSUME NEW w \in Pods, RunPipeline(w) PROVE TypeOK'
  <2>1. hand[w] \in Offsets /\ RunOf(w) \in Runs
    BY <1>18, HeldTrigger DEF RunPipeline
  <2> QED
    BY <1>18, <2>1 DEF RunPipeline
<1>19. ASSUME NEW w \in Pods, Succeed(w) PROVE TypeOK'
  <2>1. hand[w] \in Offsets /\ RunOf(w) \in Runs
    BY <1>19, HeldTrigger DEF Succeed, RunOf
  <2> QED
    BY <1>19, <2>1 DEF Succeed
<1>20. ASSUME NEW w \in Pods, FailRun(w) PROVE TypeOK'
  <2>1. hand[w] \in Offsets /\ RunOf(w) \in Runs
    BY <1>20, HeldTrigger DEF FailRun, RunOf
  <2> QED
    BY <1>20, <2>1 DEF FailRun
<1>21. ASSUME NEW w \in Pods, ReportRaises(w) PROVE TypeOK'
  <2>1. hand[w] \in Offsets /\ RunOf(w) \in Runs
    BY <1>21, HeldTrigger DEF ReportRaises, Fault
  <2> QED
    BY <1>21, <2>1 DEF ReportRaises, Fault
<1>22. ASSUME NEW w \in Pods, Publish(w) PROVE TypeOK'
  <2> DEFINE a == [off |-> hand[w], status |-> verdict[w]]
  <2>1. Holds(w)
    BY <1>22 DEF Publish
  <2>2. a \in [off : Offsets, status : Verdicts] /\ hand[w] \in Offsets
    BY <2>1, StatusType, HeldTrigger
  <2>3. \/ answers' = Append(answers, a) /\ UNCHANGED <<lost, faults>>
        \/ UNCHANGED answers /\ lost' = lost \cup {hand[w]} /\ faults' = faults + 1
    BY <1>22 DEF Publish, Fault
  <2> HIDE DEF a
  <2>4. answers' \in Seq([off : Offsets, status : Verdicts]) /\ Len(answers') >= Len(answers)
        /\ Len(answers') \in Nat /\ Len(answers) \in Nat
    <3>1. CASE answers' = Append(answers, a)
      BY <2>2, <3>1, AnswersGrow
    <3>2. CASE UNCHANGED answers
      BY <3>2, AskType
    <3> QED
      BY <2>3, <3>1, <3>2
  <2>5. lost' \subseteq Offsets /\ faults' \in Nat
    BY <2>2, <2>3
  <2>6. ask \in Asks(Len(answers'), Len(control))
    BY <2>4, AskType, AskGrows
  <2>7. /\ pc' \in [Pods -> States] /\ hand' \in [Pods -> 0..Len(control)]
        /\ verdict' \in [Pods -> Verdicts]
    <3>1. 0 \in 0..Len(control)
      OBVIOUS
    <3> QED
      BY <1>22, <3>1 DEF Publish
  <2>8. UNCHANGED <<topics, last, asker, executed, succeeded>>
    BY <1>22 DEF Publish
  <2> QED
    BY <2>4, <2>5, <2>6, <2>7, <2>8 DEF Asks
<1>23. ASSUME NEW w \in Pods, Crash(w) PROVE TypeOK'
  <2>1. lost' \subseteq Offsets
    <3>1. CASE pc[w] \in {"waiting", "committing"}
      BY <1>23, <3>1 DEF Crash
    <3>2. CASE pc[w] \notin {"waiting", "committing"}
      <4>1. Holds(w)
        BY <1>23, <3>2 DEF Crash
      <4>2. hand[w] \in Offsets
        BY <4>1, HeldTrigger
      <4> QED
        BY <1>23, <3>2, <4>2 DEF Crash
    <3> QED
      BY <3>1, <3>2
  <2> QED
    BY <1>23, <2>1 DEF Crash, Fault, Dies, Leave
<1>24. CASE UNCHANGED vars
  BY <1>24 DEF vars
<1> QED
  BY <1>1, <1>2, <1>3, <1>4, <1>5, <1>6, <1>7, <1>8, <1>9, <1>10, <1>11,
     <1>12, <1>13, <1>14, <1>15, <1>16, <1>17, <1>18, <1>19, <1>20, <1>21,
     <1>22, <1>23, <1>24
  DEF Next, Requester, Group, Wait, Execute

(* A trigger is handed over with its commit. *)
LEMMA HandStep == TypeOK /\ Ranges /\ HandOK /\ CommitOK /\ [Next]_vars => HandOK'
<1> SUFFICES ASSUME TypeOK, Ranges, HandOK, CommitOK, [Next]_vars PROVE HandOK'
  OBVIOUS
<1> USE KafkaTriggerAssumption DEF KafkaTriggerAssumption, topics, pod, asker, history, Ranges, HandOK, CommitOK, Holds, Ours
<1>1. CASE Probe
  BY <1>1 DEF Probe, Fault
<1>2. CASE TakeAnswer
  BY <1>2 DEF TakeAnswer
<1>3. CASE GiveUp
  BY <1>3 DEF GiveUp, NoRequest
<1>4. ASSUME NEW t \in Triggers, Trigger(t) PROVE HandOK'
  BY <1>4 DEF Trigger
<1>5. ASSUME NEW t \in Triggers, TriggerFails(t) PROVE HandOK'
  BY <1>5 DEF TriggerFails, NoRequest, Fault
<1>6. ASSUME NEW m \in Strays, Stray(m) PROVE HandOK'
  BY <1>6 DEF Stray
<1>7. ASSUME NEW w \in Pods, Start(w) PROVE HandOK'
  BY <1>7 DEF Start
<1>8. ASSUME NEW w \in Pods, Assign(w) PROVE HandOK'
  BY <1>8 DEF Assign
<1>9. ASSUME NEW w \in Pods, Revoke(w) PROVE HandOK'
  BY <1>9 DEF Revoke
<1>10. ASSUME NEW w \in Pods, LoseSession(w) PROVE HandOK'
  BY <1>10 DEF LoseSession, Fault
<1>11. ASSUME NEW w \in Pods, Poll(w) PROVE HandOK'
  BY <1>11 DEF Poll
<1>12. ASSUME NEW w \in Pods, Choke(w) PROVE HandOK'
  BY <1>12 DEF Choke, Dies, Leave
<1>13. ASSUME NEW w \in Pods, CommitStray(w) PROVE HandOK'
  BY <1>13 DEF CommitStray
<1>14. ASSUME NEW w \in Pods, CommitTrigger(w) PROVE HandOK'
  BY <1>14 DEF CommitTrigger
<1>15. ASSUME NEW w \in Pods, CommitFails(w) PROVE HandOK'
  BY <1>15 DEF CommitFails, Fault, Dies, Leave
<1>16. ASSUME NEW w \in Pods, Duplicate(w) PROVE HandOK'
  BY <1>16 DEF Duplicate
<1>17. ASSUME NEW w \in Pods, SkipManual(w) PROVE HandOK'
  BY <1>17 DEF SkipManual
<1>18. ASSUME NEW w \in Pods, RunPipeline(w) PROVE HandOK'
  BY <1>18 DEF RunPipeline
<1>19. ASSUME NEW w \in Pods, Succeed(w) PROVE HandOK'
  BY <1>19 DEF Succeed, RunOf
<1>20. ASSUME NEW w \in Pods, FailRun(w) PROVE HandOK'
  BY <1>20 DEF FailRun, RunOf
<1>21. ASSUME NEW w \in Pods, ReportRaises(w) PROVE HandOK'
  BY <1>21 DEF ReportRaises, Fault
<1>22. ASSUME NEW w \in Pods, Publish(w) PROVE HandOK'
  BY <1>22 DEF Publish, Fault
<1>23. ASSUME NEW w \in Pods, Crash(w) PROVE HandOK'
  BY <1>23 DEF Crash, Fault, Dies, Leave
<1>24. CASE UNCHANGED vars
  BY <1>24 DEF vars
<1> QED
  BY <1>1, <1>2, <1>3, <1>4, <1>5, <1>6, <1>7, <1>8, <1>9, <1>10, <1>11,
     <1>12, <1>13, <1>14, <1>15, <1>16, <1>17, <1>18, <1>19, <1>20, <1>21,
     <1>22, <1>23, <1>24
  DEF Next, Requester, Group, Wait, Execute

(* A pod that lost the partition does not get it back before it polls again. *)
LEMMA CommitStep == TypeOK /\ Ranges /\ HandOK /\ CommitOK /\ [Next]_vars => CommitOK'
<1> SUFFICES ASSUME TypeOK, Ranges, HandOK, CommitOK, [Next]_vars PROVE CommitOK'
  OBVIOUS
<1> USE KafkaTriggerAssumption DEF KafkaTriggerAssumption, topics, pod, asker, history, Ranges, CommitOK, HandOK, Holds
<1>1. CASE Probe
  BY <1>1 DEF Probe, Fault
<1>2. CASE TakeAnswer
  BY <1>2 DEF TakeAnswer
<1>3. CASE GiveUp
  BY <1>3 DEF GiveUp, NoRequest
<1>4. ASSUME NEW t \in Triggers, Trigger(t) PROVE CommitOK'
  BY <1>4 DEF Trigger
<1>5. ASSUME NEW t \in Triggers, TriggerFails(t) PROVE CommitOK'
  BY <1>5 DEF TriggerFails, NoRequest, Fault
<1>6. ASSUME NEW m \in Strays, Stray(m) PROVE CommitOK'
  BY <1>6 DEF Stray
<1>7. ASSUME NEW w \in Pods, Start(w) PROVE CommitOK'
  BY <1>7 DEF Start
<1>8. ASSUME NEW w \in Pods, Assign(w) PROVE CommitOK'
  BY <1>8 DEF Assign
<1>9. ASSUME NEW w \in Pods, Revoke(w) PROVE CommitOK'
  BY <1>9 DEF Revoke
<1>10. ASSUME NEW w \in Pods, LoseSession(w) PROVE CommitOK'
  BY <1>10 DEF LoseSession, Fault
<1>11. ASSUME NEW w \in Pods, Poll(w) PROVE CommitOK'
  BY <1>11 DEF Poll
<1>12. ASSUME NEW w \in Pods, Choke(w) PROVE CommitOK'
  BY <1>12 DEF Choke, Dies, Leave
<1>13. ASSUME NEW w \in Pods, CommitStray(w) PROVE CommitOK'
  BY <1>13 DEF CommitStray
<1>14. ASSUME NEW w \in Pods, CommitTrigger(w) PROVE CommitOK'
  BY <1>14 DEF CommitTrigger
<1>15. ASSUME NEW w \in Pods, CommitFails(w) PROVE CommitOK'
  BY <1>15 DEF CommitFails, Fault, Dies, Leave
<1>16. ASSUME NEW w \in Pods, Duplicate(w) PROVE CommitOK'
  BY <1>16 DEF Duplicate
<1>17. ASSUME NEW w \in Pods, SkipManual(w) PROVE CommitOK'
  BY <1>17 DEF SkipManual
<1>18. ASSUME NEW w \in Pods, RunPipeline(w) PROVE CommitOK'
  BY <1>18 DEF RunPipeline
<1>19. ASSUME NEW w \in Pods, Succeed(w) PROVE CommitOK'
  BY <1>19 DEF Succeed, RunOf
<1>20. ASSUME NEW w \in Pods, FailRun(w) PROVE CommitOK'
  BY <1>20 DEF FailRun, RunOf
<1>21. ASSUME NEW w \in Pods, ReportRaises(w) PROVE CommitOK'
  BY <1>21 DEF ReportRaises, Fault
<1>22. ASSUME NEW w \in Pods, Publish(w) PROVE CommitOK'
  BY <1>22 DEF Publish, Fault
<1>23. ASSUME NEW w \in Pods, Crash(w) PROVE CommitOK'
  BY <1>23 DEF Crash, Fault, Dies, Leave
<1>24. CASE UNCHANGED vars
  BY <1>24 DEF vars
<1> QED
  BY <1>1, <1>2, <1>3, <1>4, <1>5, <1>6, <1>7, <1>8, <1>9, <1>10, <1>11,
     <1>12, <1>13, <1>14, <1>15, <1>16, <1>17, <1>18, <1>19, <1>20, <1>21,
     <1>22, <1>23, <1>24
  DEF Next, Requester, Group, Wait, Execute

(* A committed trigger is decided once. *)
LEMMA ExecutedStep == TypeOK /\ Ranges /\ HandOK /\ CommitOK /\ ExecutedOK /\ [Next]_vars => ExecutedOK'
<1> SUFFICES ASSUME TypeOK, Ranges, HandOK, CommitOK, ExecutedOK, [Next]_vars PROVE ExecutedOK'
  OBVIOUS
<1> USE KafkaTriggerAssumption DEF KafkaTriggerAssumption, topics, pod, asker, history, Ranges, HandOK, CommitOK, ExecutedOK, Holds
<1>1. CASE Probe
  BY <1>1 DEF Probe, Fault
<1>2. CASE TakeAnswer
  BY <1>2 DEF TakeAnswer
<1>3. CASE GiveUp
  BY <1>3 DEF GiveUp, NoRequest
<1>4. ASSUME NEW t \in Triggers, Trigger(t) PROVE ExecutedOK'
  BY <1>4 DEF Trigger
<1>5. ASSUME NEW t \in Triggers, TriggerFails(t) PROVE ExecutedOK'
  BY <1>5 DEF TriggerFails, NoRequest, Fault
<1>6. ASSUME NEW m \in Strays, Stray(m) PROVE ExecutedOK'
  BY <1>6 DEF Stray
<1>7. ASSUME NEW w \in Pods, Start(w) PROVE ExecutedOK'
  BY <1>7 DEF Start
<1>8. ASSUME NEW w \in Pods, Assign(w) PROVE ExecutedOK'
  BY <1>8 DEF Assign
<1>9. ASSUME NEW w \in Pods, Revoke(w) PROVE ExecutedOK'
  BY <1>9 DEF Revoke
<1>10. ASSUME NEW w \in Pods, LoseSession(w) PROVE ExecutedOK'
  BY <1>10 DEF LoseSession, Fault
<1>11. ASSUME NEW w \in Pods, Poll(w) PROVE ExecutedOK'
  BY <1>11 DEF Poll
<1>12. ASSUME NEW w \in Pods, Choke(w) PROVE ExecutedOK'
  BY <1>12 DEF Choke, Dies, Leave
<1>13. ASSUME NEW w \in Pods, CommitStray(w) PROVE ExecutedOK'
  BY <1>13 DEF CommitStray
<1>14. ASSUME NEW w \in Pods, CommitTrigger(w) PROVE ExecutedOK'
  <2>1. /\ committed' = hand[w] /\ hand[w] = committed + 1
        /\ UNCHANGED <<executed, hand>>
    BY <1>14 DEF CommitTrigger
  <2>2. \A v \in Pods : v # w => pc'[v] = pc[v]
    BY <1>14 DEF CommitTrigger
  <2>3. \A o \in Offsets : executed'[o] <= 1 /\ (o > committed' => executed'[o] = 0)
    BY <2>1
  <2>4. executed[hand[w]] = 0
    <3>1. hand[w] \in Offsets
      BY <1>14, <2>1, HandInRange DEF CommitTrigger
    <3> QED
      BY <2>1, <3>1
  <2> QED
    BY <2>1, <2>2, <2>3, <2>4
<1>15. ASSUME NEW w \in Pods, CommitFails(w) PROVE ExecutedOK'
  BY <1>15 DEF CommitFails, Fault, Dies, Leave
<1>16. ASSUME NEW w \in Pods, Duplicate(w) PROVE ExecutedOK'
  BY <1>16 DEF Duplicate
<1>17. ASSUME NEW w \in Pods, SkipManual(w) PROVE ExecutedOK'
  BY <1>17 DEF SkipManual
<1>18. ASSUME NEW w \in Pods, RunPipeline(w) PROVE ExecutedOK'
  BY <1>18 DEF RunPipeline
<1>19. ASSUME NEW w \in Pods, Succeed(w) PROVE ExecutedOK'
  BY <1>19 DEF Succeed, RunOf
<1>20. ASSUME NEW w \in Pods, FailRun(w) PROVE ExecutedOK'
  BY <1>20 DEF FailRun, RunOf
<1>21. ASSUME NEW w \in Pods, ReportRaises(w) PROVE ExecutedOK'
  BY <1>21 DEF ReportRaises, Fault
<1>22. ASSUME NEW w \in Pods, Publish(w) PROVE ExecutedOK'
  BY <1>22 DEF Publish, Fault
<1>23. ASSUME NEW w \in Pods, Crash(w) PROVE ExecutedOK'
  BY <1>23 DEF Crash, Fault, Dies, Leave
<1>24. CASE UNCHANGED vars
  BY <1>24 DEF vars
<1> QED
  BY <1>1, <1>2, <1>3, <1>4, <1>5, <1>6, <1>7, <1>8, <1>9, <1>10, <1>11,
     <1>12, <1>13, <1>14, <1>15, <1>16, <1>17, <1>18, <1>19, <1>20, <1>21,
     <1>22, <1>23, <1>24
  DEF Next, Requester, Group, Wait, Execute

(* A trigger is given up with its answer. *)
LEMMA AnswersStep == TypeOK /\ Ranges /\ HandOK /\ CommitOK /\ AnswersOK /\ [Next]_vars => AnswersOK'
<1> SUFFICES ASSUME TypeOK, Ranges, HandOK, CommitOK, AnswersOK, [Next]_vars PROVE AnswersOK'
  OBVIOUS
<1> USE KafkaTriggerAssumption DEF KafkaTriggerAssumption, topics, pod, asker, history, Ranges, HandOK, CommitOK, AnswersOK, Holds
<1>1. CASE Probe
  BY <1>1 DEF Probe, Fault
<1>2. CASE TakeAnswer
  BY <1>2 DEF TakeAnswer
<1>3. CASE GiveUp
  BY <1>3 DEF GiveUp, NoRequest
<1>4. ASSUME NEW t \in Triggers, Trigger(t) PROVE AnswersOK'
  BY <1>4 DEF Trigger
<1>5. ASSUME NEW t \in Triggers, TriggerFails(t) PROVE AnswersOK'
  BY <1>5 DEF TriggerFails, NoRequest, Fault
<1>6. ASSUME NEW m \in Strays, Stray(m) PROVE AnswersOK'
  BY <1>6 DEF Stray
<1>7. ASSUME NEW w \in Pods, Start(w) PROVE AnswersOK'
  BY <1>7 DEF Start
<1>8. ASSUME NEW w \in Pods, Assign(w) PROVE AnswersOK'
  BY <1>8 DEF Assign
<1>9. ASSUME NEW w \in Pods, Revoke(w) PROVE AnswersOK'
  BY <1>9 DEF Revoke
<1>10. ASSUME NEW w \in Pods, LoseSession(w) PROVE AnswersOK'
  BY <1>10 DEF LoseSession, Fault
<1>11. ASSUME NEW w \in Pods, Poll(w) PROVE AnswersOK'
  BY <1>11 DEF Poll
<1>12. ASSUME NEW w \in Pods, Choke(w) PROVE AnswersOK'
  BY <1>12 DEF Choke, Dies, Leave
<1>13. ASSUME NEW w \in Pods, CommitStray(w) PROVE AnswersOK'
  <2>1. committed' \in {committed, committed + 1} /\ UNCHANGED answers
    BY <1>13 DEF CommitStray
  <2>2. \A v \in Pods :
          Holds(v)' => \/ hand'[v] = hand[v] /\ Holds(v)
                       \/ hand'[v] = committed + 1
    BY <1>13 DEF CommitStray
  <2> HIDE DEF Holds, HandOK, CommitOK
  <2>3. \A i \in 1..Len(answers') : answers'[i].off <= committed'
    <3>1. \A i \in 1..Len(answers) : answers[i].off \in Nat /\ answers[i].off <= committed
      OBVIOUS
    <3>2. committed \in Nat
      OBVIOUS
    <3> HIDE DEF Ranges, AnswersOK
    <3> QED
      BY <2>1, <3>1, <3>2
  <2>4. ASSUME NEW v \in Pods, Holds(v)', NEW i \in 1..Len(answers)
        PROVE  answers[i].off # hand'[v]
    <3>1. CASE hand'[v] = hand[v] /\ Holds(v)
      BY <3>1
    <3>2. CASE hand'[v] = committed + 1
      BY <3>2
    <3> QED
      BY <2>2, <2>4, <3>1, <3>2
  <2> QED
    BY <2>1, <2>3, <2>4
<1>14. ASSUME NEW w \in Pods, CommitTrigger(w) PROVE AnswersOK'
  <2>1. committed' \in {committed, committed + 1} /\ UNCHANGED answers
    BY <1>14 DEF CommitTrigger
  <2>2. \A v \in Pods :
          Holds(v)' => \/ hand'[v] = hand[v] /\ Holds(v)
                       \/ hand'[v] = committed + 1
    BY <1>14 DEF CommitTrigger
  <2> HIDE DEF Holds, HandOK, CommitOK
  <2>3. \A i \in 1..Len(answers') : answers'[i].off <= committed'
    <3>1. \A i \in 1..Len(answers) : answers[i].off \in Nat /\ answers[i].off <= committed
      OBVIOUS
    <3>2. committed \in Nat
      OBVIOUS
    <3> HIDE DEF Ranges, AnswersOK
    <3> QED
      BY <2>1, <3>1, <3>2
  <2>4. ASSUME NEW v \in Pods, Holds(v)', NEW i \in 1..Len(answers)
        PROVE  answers[i].off # hand'[v]
    <3>1. CASE hand'[v] = hand[v] /\ Holds(v)
      BY <3>1
    <3>2. CASE hand'[v] = committed + 1
      BY <3>2
    <3> QED
      BY <2>2, <2>4, <3>1, <3>2
  <2> QED
    BY <2>1, <2>3, <2>4
<1>15. ASSUME NEW w \in Pods, CommitFails(w) PROVE AnswersOK'
  <2>1. committed' \in {committed, committed + 1} /\ UNCHANGED answers
    BY <1>15 DEF CommitFails, Fault, Dies, Leave
  <2>2. \A v \in Pods :
          Holds(v)' => \/ hand'[v] = hand[v] /\ Holds(v)
                       \/ hand'[v] = committed + 1
    BY <1>15 DEF CommitFails, Fault, Dies, Leave
  <2> HIDE DEF Holds, HandOK, CommitOK
  <2>3. \A i \in 1..Len(answers') : answers'[i].off <= committed'
    <3>1. \A i \in 1..Len(answers) : answers[i].off \in Nat /\ answers[i].off <= committed
      OBVIOUS
    <3>2. committed \in Nat
      OBVIOUS
    <3> HIDE DEF Ranges, AnswersOK
    <3> QED
      BY <2>1, <3>1, <3>2
  <2>4. ASSUME NEW v \in Pods, Holds(v)', NEW i \in 1..Len(answers)
        PROVE  answers[i].off # hand'[v]
    <3>1. CASE hand'[v] = hand[v] /\ Holds(v)
      BY <3>1
    <3>2. CASE hand'[v] = committed + 1
      BY <3>2
    <3> QED
      BY <2>2, <2>4, <3>1, <3>2
  <2> QED
    BY <2>1, <2>3, <2>4
<1>16. ASSUME NEW w \in Pods, Duplicate(w) PROVE AnswersOK'
  BY <1>16 DEF Duplicate
<1>17. ASSUME NEW w \in Pods, SkipManual(w) PROVE AnswersOK'
  BY <1>17 DEF SkipManual
<1>18. ASSUME NEW w \in Pods, RunPipeline(w) PROVE AnswersOK'
  BY <1>18 DEF RunPipeline
<1>19. ASSUME NEW w \in Pods, Succeed(w) PROVE AnswersOK'
  BY <1>19 DEF Succeed, RunOf
<1>20. ASSUME NEW w \in Pods, FailRun(w) PROVE AnswersOK'
  BY <1>20 DEF FailRun, RunOf
<1>21. ASSUME NEW w \in Pods, ReportRaises(w) PROVE AnswersOK'
  BY <1>21 DEF ReportRaises, Fault
<1>22. ASSUME NEW w \in Pods, Publish(w) PROVE AnswersOK'
  <2> DEFINE a == [off |-> hand[w], status |-> verdict[w]]
  <2>1. Holds(w) /\ UNCHANGED committed
    BY <1>22 DEF Publish
  <2>2. a \in [off : Offsets, status : Verdicts] /\ a.off = hand[w] /\ hand[w] <= committed
    BY <2>1, StatusType
  <2>3. \A v \in Pods : Holds(v)' => v # w /\ Holds(v) /\ hand'[v] = hand[v]
    BY <1>22 DEF Publish
  <2>4. answers' = Append(answers, a) \/ UNCHANGED answers
    BY <1>22 DEF Publish
  <2> HIDE DEF Holds, a
  <2>5. CASE UNCHANGED answers
    BY <2>1, <2>3, <2>5
  <2>6. CASE answers' = Append(answers, a)
    <3>1. /\ Len(answers') = Len(answers) + 1 /\ Len(answers) \in Nat
          /\ \A i \in 1..Len(answers) : answers'[i] = answers[i]
          /\ answers'[Len(answers) + 1] = a
      BY <2>2, <2>6, AnswersGrow
    <3>2. \A i \in 1..Len(answers') : i \in 1..Len(answers) \/ i = Len(answers) + 1
      BY <3>1
    <3>3. \A i \in 1..Len(answers') : answers'[i].off <= committed
      BY <2>2, <3>1, <3>2
    <3>4. \A v \in Pods : Holds(v)' => \A i \in 1..Len(answers') : answers'[i].off # hand'[v]
      <4> SUFFICES ASSUME NEW v \in Pods, Holds(v)', NEW i \in 1..Len(answers')
                   PROVE  answers'[i].off # hand'[v]
        OBVIOUS
      <4>1. Holds(v) /\ v # w /\ hand'[v] = hand[v]
        BY <2>3
      <4>2. CASE i \in 1..Len(answers)
        BY <3>1, <4>1, <4>2
      <4>3. CASE i = Len(answers) + 1
        <5>1. hand[v] # hand[w]
          BY <2>1, <4>1
        <5> QED
          BY <2>2, <3>1, <4>1, <4>3, <5>1
      <4> QED
        BY <3>2, <4>2, <4>3
    <3>5. \A i, j \in 1..Len(answers') : answers'[i].off = answers'[j].off => i = j
      <4>1. \A i \in 1..Len(answers) : answers'[i].off # answers'[Len(answers) + 1].off
        BY <2>1, <2>2, <3>1
      <4>2. \A i, j \in 1..Len(answers) : answers'[i].off = answers'[j].off => i = j
        BY <3>1
      <4> QED
        BY <3>2, <4>1, <4>2
    <3> QED
      BY <2>1, <3>3, <3>4, <3>5
  <2> QED
    BY <2>4, <2>5, <2>6
<1>23. ASSUME NEW w \in Pods, Crash(w) PROVE AnswersOK'
  BY <1>23 DEF Crash, Fault, Dies, Leave
<1>24. CASE UNCHANGED vars
  BY <1>24 DEF vars
<1> QED
  BY <1>1, <1>2, <1>3, <1>4, <1>5, <1>6, <1>7, <1>8, <1>9, <1>10, <1>11,
     <1>12, <1>13, <1>14, <1>15, <1>16, <1>17, <1>18, <1>19, <1>20, <1>21,
     <1>22, <1>23, <1>24
  DEF Next, Requester, Group, Wait, Execute

(* An answer that comes after the requester asked is to what was open then. *)
LEMMA AskStep == TypeOK /\ Ranges /\ HandOK /\ AnswersOK /\ AskOK /\ [Next]_vars => AskOK'
<1> SUFFICES ASSUME TypeOK, Ranges, HandOK, AnswersOK, AskOK, [Next]_vars PROVE AskOK'
  OBVIOUS
<1> USE KafkaTriggerAssumption DEF KafkaTriggerAssumption, topics, pod, asker, history, Ranges, HandOK, AnswersOK, AskOK, Holds
<1>1. CASE Probe
  <2>1. CASE /\ ask' = [ask EXCEPT !.at = "probed", !.start = Len(answers)]
             /\ open' = {o \in Offsets : ~Answered(o)}
    <3>1. ask'.start = Len(answers) /\ Len(answers) \in Nat /\ UNCHANGED answers
      <4>1. /\ ask \in [at : {"idle", "probed", "reading"}, start : 0..Len(answers),
                       run : Runs \cup {NoRun}, off : 0..Len(control)]
            /\ Len(answers) \in Nat
        BY AskType DEF Asks
      <4>2. ask'.start = Len(answers)
        BY <2>1, <4>1
      <4> QED
        BY <1>1, <4>1, <4>2 DEF Probe
    <3>2. \A o \in Offsets \ open' : \E i \in 1..Len(answers) : answers[i].off = o
      BY <2>1, AnswersDomain DEF Answered
    <3> QED
      BY <3>1, <3>2
  <2>2. CASE open' = Offsets
    <3>1. ask'.start \in Nat /\ UNCHANGED answers
      <4>1. /\ ask \in [at : {"idle", "probed", "reading"}, start : 0..Len(answers),
                       run : Runs \cup {NoRun}, off : 0..Len(control)]
            /\ Len(answers) \in Nat
        BY AskType DEF Asks
      <4>2. PICK k \in {0, Len(answers)} : ask' = [ask EXCEPT !.at = "probed", !.start = k]
        BY <1>1 DEF Probe
      <4>3. ask'.start = k
        BY <4>1, <4>2
      <4> QED
        BY <1>1, <4>1, <4>3 DEF Probe
    <3> QED
      BY <2>2, <3>1
  <2> QED
    BY <1>1, <2>1, <2>2 DEF Probe
<1>2. CASE TakeAnswer
  BY <1>2 DEF TakeAnswer, NoRequest
<1>3. CASE GiveUp
  BY <1>3 DEF GiveUp, NoRequest
<1>4. ASSUME NEW t \in Triggers, Trigger(t) PROVE AskOK'
  BY <1>4 DEF Trigger
<1>5. ASSUME NEW t \in Triggers, TriggerFails(t) PROVE AskOK'
  <2>1. CASE ask' = NoRequest
    BY <2>1 DEF NoRequest
  <2>2. CASE ask' = [ask EXCEPT !.at = "reading", !.run = t.run, !.off = 0] /\ UNCHANGED open
    <3>1. ask'.start = ask.start /\ ask.at # "idle" /\ UNCHANGED answers
      BY <1>5, <2>2 DEF TriggerFails
    <3> QED
      BY <2>2, <3>1
  <2> QED
    BY <1>5, <2>1, <2>2 DEF TriggerFails
<1>6. ASSUME NEW m \in Strays, Stray(m) PROVE AskOK'
  BY <1>6 DEF Stray
<1>7. ASSUME NEW w \in Pods, Start(w) PROVE AskOK'
  BY <1>7 DEF Start
<1>8. ASSUME NEW w \in Pods, Assign(w) PROVE AskOK'
  BY <1>8 DEF Assign
<1>9. ASSUME NEW w \in Pods, Revoke(w) PROVE AskOK'
  BY <1>9 DEF Revoke
<1>10. ASSUME NEW w \in Pods, LoseSession(w) PROVE AskOK'
  BY <1>10 DEF LoseSession, Fault
<1>11. ASSUME NEW w \in Pods, Poll(w) PROVE AskOK'
  BY <1>11 DEF Poll
<1>12. ASSUME NEW w \in Pods, Choke(w) PROVE AskOK'
  BY <1>12 DEF Choke, Dies, Leave
<1>13. ASSUME NEW w \in Pods, CommitStray(w) PROVE AskOK'
  BY <1>13 DEF CommitStray
<1>14. ASSUME NEW w \in Pods, CommitTrigger(w) PROVE AskOK'
  BY <1>14 DEF CommitTrigger
<1>15. ASSUME NEW w \in Pods, CommitFails(w) PROVE AskOK'
  BY <1>15 DEF CommitFails, Fault, Dies, Leave
<1>16. ASSUME NEW w \in Pods, Duplicate(w) PROVE AskOK'
  BY <1>16 DEF Duplicate
<1>17. ASSUME NEW w \in Pods, SkipManual(w) PROVE AskOK'
  BY <1>17 DEF SkipManual
<1>18. ASSUME NEW w \in Pods, RunPipeline(w) PROVE AskOK'
  BY <1>18 DEF RunPipeline
<1>19. ASSUME NEW w \in Pods, Succeed(w) PROVE AskOK'
  BY <1>19 DEF Succeed, RunOf
<1>20. ASSUME NEW w \in Pods, FailRun(w) PROVE AskOK'
  BY <1>20 DEF FailRun, RunOf
<1>21. ASSUME NEW w \in Pods, ReportRaises(w) PROVE AskOK'
  BY <1>21 DEF ReportRaises, Fault
<1>22. ASSUME NEW w \in Pods, Publish(w) PROVE AskOK'
  <2> DEFINE a == [off |-> hand[w], status |-> verdict[w]]
  <2>1. Holds(w) /\ UNCHANGED <<ask, open>>
    BY <1>22 DEF Publish
  <2>2. a \in [off : Offsets, status : Verdicts] /\ a.off = hand[w] /\ hand[w] \in Offsets
    BY <2>1, StatusType, HeldTrigger
  <2>3. answers' = Append(answers, a) \/ UNCHANGED answers
    BY <1>22 DEF Publish
  <2> SUFFICES ASSUME ask.at # "idle", answers' = Append(answers, a) PROVE AskOK'
    BY <2>1, <2>3
  <2> HIDE DEF Holds, a
  <2>4. /\ Len(answers') = Len(answers) + 1 /\ Len(answers) \in Nat
        /\ \A i \in 1..Len(answers) : answers'[i] = answers[i]
        /\ answers'[Len(answers) + 1] = a
    BY <2>2, AnswersGrow
  <2>5. ask.start \in Nat
    BY AskType DEF Asks
  <2>6. hand[w] \in open
    BY <2>1, <2>2
  <2>7. \A i \in ask.start + 1..Len(answers') : answers'[i].off \in open
    BY <2>2, <2>4, <2>5, <2>6
  <2>8. \A o \in Offsets \ open : \E i \in 1..Len(answers') : answers'[i].off = o
    BY <2>4
  <2> QED
    BY <2>1, <2>7, <2>8
<1>23. ASSUME NEW w \in Pods, Crash(w) PROVE AskOK'
  BY <1>23 DEF Crash, Fault, Dies, Leave
<1>24. CASE UNCHANGED vars
  BY <1>24 DEF vars
<1> QED
  BY <1>1, <1>2, <1>3, <1>4, <1>5, <1>6, <1>7, <1>8, <1>9, <1>10, <1>11,
     <1>12, <1>13, <1>14, <1>15, <1>16, <1>17, <1>18, <1>19, <1>20, <1>21,
     <1>22, <1>23, <1>24
  DEF Next, Requester, Group, Wait, Execute

(* A trigger that is given up is answered or lost. *)
LEMMA SettledStep == TypeOK /\ Ranges /\ HandOK /\ CommitOK /\ CommittedIsAnswered /\ [Next]_vars => CommittedIsAnswered'
<1> SUFFICES ASSUME TypeOK, Ranges, HandOK, CommitOK, CommittedIsAnswered, [Next]_vars PROVE CommittedIsAnswered'
  OBVIOUS
<1> USE KafkaTriggerAssumption DEF KafkaTriggerAssumption, topics, pod, asker, history, Ranges, HandOK, CommitOK, CommittedIsAnswered, Holds, Ours, Answered
<1>1. CASE Probe
  BY <1>1 DEF Probe, Fault
<1>2. CASE TakeAnswer
  BY <1>2 DEF TakeAnswer
<1>3. CASE GiveUp
  BY <1>3 DEF GiveUp, NoRequest
<1>4. ASSUME NEW t \in Triggers, Trigger(t) PROVE CommittedIsAnswered'
  <2>1. t \in Triggers \cup Strays /\ control' = Append(control, t)
    BY <1>4 DEF Trigger
  <2>2. /\ control' \in Seq(Triggers \cup Strays) /\ Len(control') = Len(control) + 1
        /\ Len(control) \in Nat
    BY <2>1, ControlGrows
  <2>3. Len(control') <= MaxTriggers
    BY <1>4, <2>2 DEF Trigger
  <2>4. \A o \in 1..committed : Ours(o)' => Ours(o)
    <3>1. \A o \in 1..committed : o \in 1..Len(control) /\ control'[o] = control[o]
      BY <2>1, <2>2, ControlGrows
    <3> QED
      BY <3>1
  <2>5. UNCHANGED <<committed, answers, lost, pc, hand>>
    BY <1>4 DEF Trigger
  <2> HIDE DEF Ours, Holds
  <2> QED
    BY <2>4, <2>5
<1>5. ASSUME NEW t \in Triggers, TriggerFails(t) PROVE CommittedIsAnswered'
  BY <1>5 DEF TriggerFails, NoRequest, Fault
<1>6. ASSUME NEW m \in Strays, Stray(m) PROVE CommittedIsAnswered'
  <2>1. m \in Triggers \cup Strays /\ control' = Append(control, m)
    BY <1>6 DEF Stray
  <2>2. /\ control' \in Seq(Triggers \cup Strays) /\ Len(control') = Len(control) + 1
        /\ Len(control) \in Nat
    BY <2>1, ControlGrows
  <2>3. Len(control') <= MaxTriggers
    BY <1>6, <2>2 DEF Stray
  <2>4. \A o \in 1..committed : Ours(o)' => Ours(o)
    <3>1. \A o \in 1..committed : o \in 1..Len(control) /\ control'[o] = control[o]
      BY <2>1, <2>2, ControlGrows
    <3> QED
      BY <3>1
  <2>5. UNCHANGED <<committed, answers, lost, pc, hand>>
    BY <1>6 DEF Stray
  <2> HIDE DEF Ours, Holds
  <2> QED
    BY <2>4, <2>5
<1>7. ASSUME NEW w \in Pods, Start(w) PROVE CommittedIsAnswered'
  <2>1. hand[w] = 0 /\ UNCHANGED <<control, committed, answers, lost>>
    BY <1>7 DEF Start
  <2>2. \A v \in Pods : v # w => hand'[v] = hand[v] /\ pc'[v] = pc[v]
    BY <1>7 DEF Start
  <2> HIDE DEF HandOK, CommitOK
  <2> SUFFICES ASSUME NEW o \in 1..committed, Ours(o)
               PROVE  \/ o \in lost
                      \/ Answered(o)
                      \/ \E v \in Pods :
                           hand'[v] = o /\ pc'[v] \notin {"waiting", "committing"}
    BY <2>1
  <2> HIDE DEF Ours, Answered
  <2>3. o # 0
    OBVIOUS
  <2> QED
    BY <2>1, <2>2, <2>3
<1>8. ASSUME NEW w \in Pods, Assign(w) PROVE CommittedIsAnswered'
  BY <1>8 DEF Assign
<1>9. ASSUME NEW w \in Pods, Revoke(w) PROVE CommittedIsAnswered'
  BY <1>9 DEF Revoke
<1>10. ASSUME NEW w \in Pods, LoseSession(w) PROVE CommittedIsAnswered'
  BY <1>10 DEF LoseSession, Fault
<1>11. ASSUME NEW w \in Pods, Poll(w) PROVE CommittedIsAnswered'
  <2>1. hand[w] = 0 /\ UNCHANGED <<control, committed, answers, lost>>
    BY <1>11 DEF Poll
  <2>2. \A v \in Pods : v # w => hand'[v] = hand[v] /\ pc'[v] = pc[v]
    BY <1>11 DEF Poll
  <2> HIDE DEF HandOK, CommitOK
  <2> SUFFICES ASSUME NEW o \in 1..committed, Ours(o)
               PROVE  \/ o \in lost
                      \/ Answered(o)
                      \/ \E v \in Pods :
                           hand'[v] = o /\ pc'[v] \notin {"waiting", "committing"}
    BY <2>1
  <2> HIDE DEF Ours, Answered
  <2>3. o # 0
    OBVIOUS
  <2> QED
    BY <2>1, <2>2, <2>3
<1>12. ASSUME NEW w \in Pods, Choke(w) PROVE CommittedIsAnswered'
  BY <1>12 DEF Choke, Dies, Leave
<1>13. ASSUME NEW w \in Pods, CommitStray(w) PROVE CommittedIsAnswered'
  <2>1. \A v \in Pods : v # w => hand'[v] = hand[v] /\ pc'[v] = pc[v]
    BY <1>13 DEF CommitStray
  <2>2. UNCHANGED <<control, answers>> /\ lost \subseteq lost' /\ pc[w] = "committing"
    BY <1>13 DEF CommitStray
  <2>3. \/ UNCHANGED committed
        \/ /\ committed' = committed + 1 /\ hand[w] = committed + 1
           /\ ~Ours(hand[w])
    BY <1>13 DEF CommitStray
  <2> SUFFICES ASSUME NEW o \in 1..committed', Ours(o)'
               PROVE  \/ o \in lost'
                      \/ Answered(o)'
                      \/ \E v \in Pods :
                           hand'[v] = o /\ pc'[v] \notin {"waiting", "committing"}
    OBVIOUS
  <2> HIDE DEF HandOK, CommitOK
  <2>4. Ours(o)
    BY <2>2
  <2> HIDE DEF Ours
  <2>5. CASE o \in 1..committed
    <3>1. CASE o \in lost \/ Answered(o)
      BY <2>2, <3>1
    <3>2. ASSUME NEW v \in Pods, hand[v] = o, pc[v] \notin {"waiting", "committing"}
          PROVE  hand'[v] = o /\ pc'[v] \notin {"waiting", "committing"}
      BY <2>1, <2>2, <3>2
    <3> QED
      BY <2>4, <2>5, <3>1, <3>2
  <2>6. CASE ~(o \in 1..committed)
    <3>1. o = hand[w] /\ o = committed + 1 /\ ~UNCHANGED committed
      BY <2>3, <2>6
    <3> QED
      BY <2>3, <2>4, <3>1
  <2> QED
    BY <2>5, <2>6
<1>14. ASSUME NEW w \in Pods, CommitTrigger(w) PROVE CommittedIsAnswered'
  <2>1. \A v \in Pods : v # w => hand'[v] = hand[v] /\ pc'[v] = pc[v]
    BY <1>14 DEF CommitTrigger
  <2>2. UNCHANGED <<control, answers>> /\ lost \subseteq lost' /\ pc[w] = "committing"
    BY <1>14 DEF CommitTrigger
  <2>3. \/ UNCHANGED committed
        \/ /\ committed' = committed + 1 /\ hand[w] = committed + 1
           /\ pc'[w] = "deciding" /\ hand'[w] = hand[w]
    BY <1>14 DEF CommitTrigger
  <2> SUFFICES ASSUME NEW o \in 1..committed', Ours(o)'
               PROVE  \/ o \in lost'
                      \/ Answered(o)'
                      \/ \E v \in Pods :
                           hand'[v] = o /\ pc'[v] \notin {"waiting", "committing"}
    OBVIOUS
  <2> HIDE DEF HandOK, CommitOK
  <2>4. Ours(o)
    BY <2>2
  <2> HIDE DEF Ours
  <2>5. CASE o \in 1..committed
    <3>1. CASE o \in lost \/ Answered(o)
      BY <2>2, <3>1
    <3>2. ASSUME NEW v \in Pods, hand[v] = o, pc[v] \notin {"waiting", "committing"}
          PROVE  hand'[v] = o /\ pc'[v] \notin {"waiting", "committing"}
      BY <2>1, <2>2, <3>2
    <3> QED
      BY <2>4, <2>5, <3>1, <3>2
  <2>6. CASE ~(o \in 1..committed)
    <3>1. o = hand[w] /\ o = committed + 1 /\ ~UNCHANGED committed
      BY <2>3, <2>6
    <3> QED
      BY <2>3, <2>4, <3>1
  <2> QED
    BY <2>5, <2>6
<1>15. ASSUME NEW w \in Pods, CommitFails(w) PROVE CommittedIsAnswered'
  <2>1. \A v \in Pods : v # w => hand'[v] = hand[v] /\ pc'[v] = pc[v]
    BY <1>15 DEF CommitFails, Fault, Dies, Leave
  <2>2. UNCHANGED <<control, answers>> /\ lost \subseteq lost' /\ pc[w] = "committing"
    BY <1>15 DEF CommitFails, Fault, Dies, Leave
  <2>3. \/ UNCHANGED committed
        \/ /\ committed' = committed + 1 /\ hand[w] = committed + 1
           /\ hand[w] \in lost'
    BY <1>15 DEF CommitFails, Fault, Dies, Leave
  <2> SUFFICES ASSUME NEW o \in 1..committed', Ours(o)'
               PROVE  \/ o \in lost'
                      \/ Answered(o)'
                      \/ \E v \in Pods :
                           hand'[v] = o /\ pc'[v] \notin {"waiting", "committing"}
    OBVIOUS
  <2> HIDE DEF HandOK, CommitOK
  <2>4. Ours(o)
    BY <2>2
  <2> HIDE DEF Ours
  <2>5. CASE o \in 1..committed
    <3>1. CASE o \in lost \/ Answered(o)
      BY <2>2, <3>1
    <3>2. ASSUME NEW v \in Pods, hand[v] = o, pc[v] \notin {"waiting", "committing"}
          PROVE  hand'[v] = o /\ pc'[v] \notin {"waiting", "committing"}
      BY <2>1, <2>2, <3>2
    <3> QED
      BY <2>4, <2>5, <3>1, <3>2
  <2>6. CASE ~(o \in 1..committed)
    <3>1. o = hand[w] /\ o = committed + 1 /\ ~UNCHANGED committed
      BY <2>3, <2>6
    <3> QED
      BY <2>3, <2>4, <3>1
  <2> QED
    BY <2>5, <2>6
<1>16. ASSUME NEW w \in Pods, Duplicate(w) PROVE CommittedIsAnswered'
  BY <1>16 DEF Duplicate
<1>17. ASSUME NEW w \in Pods, SkipManual(w) PROVE CommittedIsAnswered'
  BY <1>17 DEF SkipManual
<1>18. ASSUME NEW w \in Pods, RunPipeline(w) PROVE CommittedIsAnswered'
  BY <1>18 DEF RunPipeline
<1>19. ASSUME NEW w \in Pods, Succeed(w) PROVE CommittedIsAnswered'
  BY <1>19 DEF Succeed, RunOf
<1>20. ASSUME NEW w \in Pods, FailRun(w) PROVE CommittedIsAnswered'
  BY <1>20 DEF FailRun, RunOf
<1>21. ASSUME NEW w \in Pods, ReportRaises(w) PROVE CommittedIsAnswered'
  BY <1>21 DEF ReportRaises, Fault
<1>22. ASSUME NEW w \in Pods, Publish(w) PROVE CommittedIsAnswered'
  <2> DEFINE a == [off |-> hand[w], status |-> verdict[w]]
  <2>1. Holds(w) /\ UNCHANGED <<committed, control>>
    BY <1>22 DEF Publish
  <2>2. a \in [off : Offsets, status : Verdicts] /\ a.off = hand[w]
    BY <2>1, StatusType
  <2>3. \/ answers' = Append(answers, a) /\ UNCHANGED lost
        \/ UNCHANGED answers /\ lost' = lost \cup {hand[w]}
    BY <1>22 DEF Publish
  <2>4. \A v \in Pods : v # w => hand'[v] = hand[v] /\ pc'[v] = pc[v]
    BY <1>22 DEF Publish
  <2> HIDE DEF a, HandOK, CommitOK, Ours, Holds
  <2>5. ASSUME NEW o, Answered(o) PROVE Answered(o)'
    <3>1. CASE answers' = Append(answers, a)
      <4>1. /\ Len(answers') = Len(answers) + 1 /\ Len(answers) \in Nat
            /\ \A i \in 1..Len(answers) : answers'[i] = answers[i]
            /\ answers' \in Seq([off : Offsets, status : Verdicts])
        BY <2>2, <3>1, AnswersGrow
      <4>2. DOMAIN answers' = 1..Len(answers') /\ DOMAIN answers = 1..Len(answers)
        BY <4>1, AnswersDomain
      <4>3. PICK i \in 1..Len(answers) : answers[i].off = o
        BY <2>5, <4>2
      <4>4. i \in DOMAIN answers' /\ answers'[i].off = o
        BY <4>1, <4>2, <4>3
      <4> QED
        BY <4>4
    <3> QED
      BY <2>3, <2>5, <3>1
  <2>6. hand[w] \in lost' \/ \E i \in DOMAIN answers' : answers'[i].off = hand[w]
    <3>1. CASE answers' = Append(answers, a)
      <4>1. /\ Len(answers') = Len(answers) + 1 /\ Len(answers) \in Nat
            /\ answers'[Len(answers) + 1] = a
            /\ answers' \in Seq([off : Offsets, status : Verdicts])
        BY <2>2, <3>1, AnswersGrow
      <4>2. Len(answers) + 1 \in DOMAIN answers'
        BY <4>1
      <4> QED
        BY <2>2, <4>1, <4>2
    <3> QED
      BY <2>3, <3>1
  <2> HIDE DEF Answered
  <2>7. \A o : o \in lost => o \in lost'
    BY <2>3
  <2> SUFFICES ASSUME NEW o \in 1..committed, Ours(o)
               PROVE  \/ o \in lost' \/ Answered(o)'
                      \/ \E v \in Pods :
                           hand'[v] = o /\ pc'[v] \notin {"waiting", "committing"}
    BY <2>1 DEF Ours
  <2>8. CASE o = hand[w]
    BY <2>6, <2>8 DEF Answered
  <2>9. CASE o # hand[w]
    BY <2>4, <2>5, <2>7, <2>9
  <2> QED
    BY <2>8, <2>9
<1>23. ASSUME NEW w \in Pods, Crash(w) PROVE CommittedIsAnswered'
  BY <1>23 DEF Crash, Fault, Dies, Leave
<1>24. CASE UNCHANGED vars
  BY <1>24 DEF vars
<1> QED
  BY <1>1, <1>2, <1>3, <1>4, <1>5, <1>6, <1>7, <1>8, <1>9, <1>10, <1>11,
     <1>12, <1>13, <1>14, <1>15, <1>16, <1>17, <1>18, <1>19, <1>20, <1>21,
     <1>22, <1>23, <1>24
  DEF Next, Requester, Group, Wait, Execute

(* The requester reads from its start on. *)
LEMMA RightStep == TypeOK /\ Ranges /\ AskOK /\ RightAnswer /\ [Next]_vars => RightAnswer'
<1> SUFFICES ASSUME TypeOK, Ranges, AskOK, RightAnswer, [Next]_vars PROVE RightAnswer'
  OBVIOUS
<1> USE KafkaTriggerAssumption DEF KafkaTriggerAssumption, topics, pod, asker, history, Ranges, AskOK, RightAnswer
<1>1. CASE Probe
  BY <1>1 DEF Probe, Fault
<1>2. CASE TakeAnswer
  <2>1. PICK i \in ask.start + 1..Len(answers) :
          LET o == answers[i].off
          IN  taken' = taken \/ taken' = taken \cup {[off |-> o, open |-> o \in open]}
    BY <1>2, TakesFrom
  <2>2. answers[i].off \in open
    BY <1>2, <2>1 DEF TakeAnswer
  <2> DEFINE r == [off |-> answers[i].off, open |-> answers[i].off \in open]
  <2>3. r.open
    BY <2>2, Zenon
  <2>4. \A x \in taken' : x \in taken \/ x = r
    BY <2>1
  <2> HIDE DEF r
  <2> QED
    BY <2>3, <2>4, Zenon
<1>3. CASE GiveUp
  BY <1>3 DEF GiveUp, NoRequest
<1>4. ASSUME NEW t \in Triggers, Trigger(t) PROVE RightAnswer'
  BY <1>4 DEF Trigger
<1>5. ASSUME NEW t \in Triggers, TriggerFails(t) PROVE RightAnswer'
  BY <1>5 DEF TriggerFails, NoRequest, Fault
<1>6. ASSUME NEW m \in Strays, Stray(m) PROVE RightAnswer'
  BY <1>6 DEF Stray
<1>7. ASSUME NEW w \in Pods, Start(w) PROVE RightAnswer'
  BY <1>7 DEF Start
<1>8. ASSUME NEW w \in Pods, Assign(w) PROVE RightAnswer'
  BY <1>8 DEF Assign
<1>9. ASSUME NEW w \in Pods, Revoke(w) PROVE RightAnswer'
  BY <1>9 DEF Revoke
<1>10. ASSUME NEW w \in Pods, LoseSession(w) PROVE RightAnswer'
  BY <1>10 DEF LoseSession, Fault
<1>11. ASSUME NEW w \in Pods, Poll(w) PROVE RightAnswer'
  BY <1>11 DEF Poll
<1>12. ASSUME NEW w \in Pods, Choke(w) PROVE RightAnswer'
  BY <1>12 DEF Choke, Dies, Leave
<1>13. ASSUME NEW w \in Pods, CommitStray(w) PROVE RightAnswer'
  BY <1>13 DEF CommitStray
<1>14. ASSUME NEW w \in Pods, CommitTrigger(w) PROVE RightAnswer'
  BY <1>14 DEF CommitTrigger
<1>15. ASSUME NEW w \in Pods, CommitFails(w) PROVE RightAnswer'
  BY <1>15 DEF CommitFails, Fault, Dies, Leave
<1>16. ASSUME NEW w \in Pods, Duplicate(w) PROVE RightAnswer'
  BY <1>16 DEF Duplicate
<1>17. ASSUME NEW w \in Pods, SkipManual(w) PROVE RightAnswer'
  BY <1>17 DEF SkipManual
<1>18. ASSUME NEW w \in Pods, RunPipeline(w) PROVE RightAnswer'
  BY <1>18 DEF RunPipeline
<1>19. ASSUME NEW w \in Pods, Succeed(w) PROVE RightAnswer'
  BY <1>19 DEF Succeed, RunOf
<1>20. ASSUME NEW w \in Pods, FailRun(w) PROVE RightAnswer'
  BY <1>20 DEF FailRun, RunOf
<1>21. ASSUME NEW w \in Pods, ReportRaises(w) PROVE RightAnswer'
  BY <1>21 DEF ReportRaises, Fault
<1>22. ASSUME NEW w \in Pods, Publish(w) PROVE RightAnswer'
  BY <1>22 DEF Publish, Fault
<1>23. ASSUME NEW w \in Pods, Crash(w) PROVE RightAnswer'
  BY <1>23 DEF Crash, Fault, Dies, Leave
<1>24. CASE UNCHANGED vars
  BY <1>24 DEF vars
<1> QED
  BY <1>1, <1>2, <1>3, <1>4, <1>5, <1>6, <1>7, <1>8, <1>9, <1>10, <1>11,
     <1>12, <1>13, <1>14, <1>15, <1>16, <1>17, <1>18, <1>19, <1>20, <1>21,
     <1>22, <1>23, <1>24
  DEF Next, Requester, Group, Wait, Execute

(* What is lost is given up, after its commit. *)
LEMMA LostStep == TypeOK /\ Ranges /\ HandOK /\ CommitOK /\ LostOK /\ [Next]_vars => LostOK'
<1> SUFFICES ASSUME TypeOK, Ranges, HandOK, CommitOK, LostOK, [Next]_vars PROVE LostOK'
  OBVIOUS
<1> USE KafkaTriggerAssumption DEF KafkaTriggerAssumption, topics, pod, asker, history, Ranges, HandOK, CommitOK, LostOK, Holds
<1>1. CASE Probe
  BY <1>1 DEF Probe, Fault
<1>2. CASE TakeAnswer
  BY <1>2 DEF TakeAnswer
<1>3. CASE GiveUp
  BY <1>3 DEF GiveUp, NoRequest
<1>4. ASSUME NEW t \in Triggers, Trigger(t) PROVE LostOK'
  BY <1>4 DEF Trigger
<1>5. ASSUME NEW t \in Triggers, TriggerFails(t) PROVE LostOK'
  BY <1>5 DEF TriggerFails, NoRequest, Fault
<1>6. ASSUME NEW m \in Strays, Stray(m) PROVE LostOK'
  BY <1>6 DEF Stray
<1>7. ASSUME NEW w \in Pods, Start(w) PROVE LostOK'
  BY <1>7 DEF Start
<1>8. ASSUME NEW w \in Pods, Assign(w) PROVE LostOK'
  BY <1>8 DEF Assign
<1>9. ASSUME NEW w \in Pods, Revoke(w) PROVE LostOK'
  BY <1>9 DEF Revoke
<1>10. ASSUME NEW w \in Pods, LoseSession(w) PROVE LostOK'
  BY <1>10 DEF LoseSession, Fault
<1>11. ASSUME NEW w \in Pods, Poll(w) PROVE LostOK'
  BY <1>11 DEF Poll
<1>12. ASSUME NEW w \in Pods, Choke(w) PROVE LostOK'
  BY <1>12 DEF Choke, Dies, Leave
<1>13. ASSUME NEW w \in Pods, CommitStray(w) PROVE LostOK'
  BY <1>13 DEF CommitStray
<1>14. ASSUME NEW w \in Pods, CommitTrigger(w) PROVE LostOK'
  BY <1>14 DEF CommitTrigger
<1>15. ASSUME NEW w \in Pods, CommitFails(w) PROVE LostOK'
  BY <1>15 DEF CommitFails, Fault, Dies, Leave
<1>16. ASSUME NEW w \in Pods, Duplicate(w) PROVE LostOK'
  BY <1>16 DEF Duplicate
<1>17. ASSUME NEW w \in Pods, SkipManual(w) PROVE LostOK'
  BY <1>17 DEF SkipManual
<1>18. ASSUME NEW w \in Pods, RunPipeline(w) PROVE LostOK'
  BY <1>18 DEF RunPipeline
<1>19. ASSUME NEW w \in Pods, Succeed(w) PROVE LostOK'
  BY <1>19 DEF Succeed, RunOf
<1>20. ASSUME NEW w \in Pods, FailRun(w) PROVE LostOK'
  BY <1>20 DEF FailRun, RunOf
<1>21. ASSUME NEW w \in Pods, ReportRaises(w) PROVE LostOK'
  BY <1>21 DEF ReportRaises, Fault
<1>22. ASSUME NEW w \in Pods, Publish(w) PROVE LostOK'
  BY <1>22 DEF Publish, Fault
<1>23. ASSUME NEW w \in Pods, Crash(w) PROVE LostOK'
  <2>1. CASE pc[w] \in {"waiting", "committing"}
    BY <1>23, <2>1 DEF Crash, Fault, Dies, Leave
  <2>2. CASE pc[w] \notin {"waiting", "committing"}
    <3>1. Holds(w) /\ lost' = lost \cup {hand[w]} /\ UNCHANGED committed
      BY <1>23, <2>2 DEF Crash, States
    <3>2. pc'[w] = "down" /\ \A v \in Pods : v # w => hand'[v] = hand[v] /\ pc'[v] = pc[v]
      BY <1>23 DEF Crash, Fault, Dies, Leave
    <3>3. hand[w] \in 1..committed
      BY <3>1, HeldTrigger
    <3> QED
      BY <3>1, <3>2, <3>3
  <2> QED
    BY <2>1, <2>2
<1>24. CASE UNCHANGED vars
  BY <1>24 DEF vars
<1> QED
  BY <1>1, <1>2, <1>3, <1>4, <1>5, <1>6, <1>7, <1>8, <1>9, <1>10, <1>11,
     <1>12, <1>13, <1>14, <1>15, <1>16, <1>17, <1>18, <1>19, <1>20, <1>21,
     <1>22, <1>23, <1>24
  DEF Next, Requester, Group, Wait, Execute

(* A verdict goes by what the pod did. *)
LEMMA VerdictStep == TypeOK /\ Ranges /\ HandOK /\ CommitOK /\ ExecutedOK /\ VerdictOK /\ [Next]_vars => VerdictOK'
<1> SUFFICES ASSUME TypeOK, Ranges, HandOK, CommitOK, ExecutedOK, VerdictOK, [Next]_vars PROVE VerdictOK'
  OBVIOUS
<1> USE KafkaTriggerAssumption DEF KafkaTriggerAssumption, topics, pod, asker, history, Ranges, HandOK, CommitOK, ExecutedOK, VerdictOK, Holds
<1>1. CASE Probe
  BY <1>1 DEF Probe, Fault
<1>2. CASE TakeAnswer
  BY <1>2 DEF TakeAnswer
<1>3. CASE GiveUp
  BY <1>3 DEF GiveUp, NoRequest
<1>4. ASSUME NEW t \in Triggers, Trigger(t) PROVE VerdictOK'
  BY <1>4 DEF Trigger
<1>5. ASSUME NEW t \in Triggers, TriggerFails(t) PROVE VerdictOK'
  BY <1>5 DEF TriggerFails, NoRequest, Fault
<1>6. ASSUME NEW m \in Strays, Stray(m) PROVE VerdictOK'
  BY <1>6 DEF Stray
<1>7. ASSUME NEW w \in Pods, Start(w) PROVE VerdictOK'
  BY <1>7 DEF Start
<1>8. ASSUME NEW w \in Pods, Assign(w) PROVE VerdictOK'
  BY <1>8 DEF Assign
<1>9. ASSUME NEW w \in Pods, Revoke(w) PROVE VerdictOK'
  BY <1>9 DEF Revoke
<1>10. ASSUME NEW w \in Pods, LoseSession(w) PROVE VerdictOK'
  BY <1>10 DEF LoseSession, Fault
<1>11. ASSUME NEW w \in Pods, Poll(w) PROVE VerdictOK'
  BY <1>11 DEF Poll
<1>12. ASSUME NEW w \in Pods, Choke(w) PROVE VerdictOK'
  BY <1>12 DEF Choke, Dies, Leave
<1>13. ASSUME NEW w \in Pods, CommitStray(w) PROVE VerdictOK'
  BY <1>13 DEF CommitStray
<1>14. ASSUME NEW w \in Pods, CommitTrigger(w) PROVE VerdictOK'
  BY <1>14 DEF CommitTrigger
<1>15. ASSUME NEW w \in Pods, CommitFails(w) PROVE VerdictOK'
  BY <1>15 DEF CommitFails, Fault, Dies, Leave
<1>16. ASSUME NEW w \in Pods, Duplicate(w) PROVE VerdictOK'
  <2>1. verdict \in [Pods -> Verdicts]
    BY DEF TypeOK
  <2> QED
    BY <1>16, <2>1 DEF Duplicate
<1>17. ASSUME NEW w \in Pods, SkipManual(w) PROVE VerdictOK'
  <2>1. verdict \in [Pods -> Verdicts]
    BY DEF TypeOK
  <2> QED
    BY <1>17, <2>1 DEF SkipManual
<1>18. ASSUME NEW w \in Pods, RunPipeline(w) PROVE VerdictOK'
  BY <1>18 DEF RunPipeline
<1>19. ASSUME NEW w \in Pods, Succeed(w) PROVE VerdictOK'
  <2>1. verdict \in [Pods -> Verdicts]
    BY DEF TypeOK
  <2> QED
    BY <1>19, <2>1 DEF Succeed, RunOf
<1>20. ASSUME NEW w \in Pods, FailRun(w) PROVE VerdictOK'
  <2>1. verdict \in [Pods -> Verdicts]
    BY DEF TypeOK
  <2> QED
    BY <1>20, <2>1 DEF FailRun, RunOf
<1>21. ASSUME NEW w \in Pods, ReportRaises(w) PROVE VerdictOK'
  BY <1>21 DEF ReportRaises, Fault
<1>22. ASSUME NEW w \in Pods, Publish(w) PROVE VerdictOK'
  BY <1>22 DEF Publish, Fault
<1>23. ASSUME NEW w \in Pods, Crash(w) PROVE VerdictOK'
  BY <1>23 DEF Crash, Fault, Dies, Leave
<1>24. CASE UNCHANGED vars
  BY <1>24 DEF vars
<1> QED
  BY <1>1, <1>2, <1>3, <1>4, <1>5, <1>6, <1>7, <1>8, <1>9, <1>10, <1>11,
     <1>12, <1>13, <1>14, <1>15, <1>16, <1>17, <1>18, <1>19, <1>20, <1>21,
     <1>22, <1>23, <1>24
  DEF Next, Requester, Group, Wait, Execute

(* Nothing was polled or answered at first. *)
LEMMA InitInv == Init => IInv
<1> SUFFICES ASSUME Init PROVE IInv
  OBVIOUS
<1> USE KafkaTriggerAssumption DEF KafkaTriggerAssumption, Init
<1>1. TypeOK
  BY DEF TypeOK, States, Verdicts, NoRequest, Offsets
<1>2. HandOK /\ CommitOK /\ ExecutedOK /\ AnswersOK
  BY DEF HandOK, CommitOK, ExecutedOK, AnswersOK, Holds, Offsets
<1>3. AskOK /\ CommittedIsAnswered /\ RightAnswer
  BY DEF AskOK, CommittedIsAnswered, RightAnswer, NoRequest
<1>4. LostOK /\ VerdictOK
  BY DEF LostOK, VerdictOK, Holds
<1> QED
  BY <1>1, <1>2, <1>3, <1>4 DEF IInv

(* Every step keeps the whole. *)
LEMMA StepInv == IInv /\ [Next]_vars => IInv'
BY InRange, TypeStep, HandStep, CommitStep, ExecutedStep, AnswersStep, AskStep, LostStep, VerdictStep, SettledStep,
   RightStep
DEF IInv

\* What the pods hold, have run and have answered fits together.
THEOREM Invariance == Spec => []IInv
BY InitInv, StepInv, PTL DEF Spec

\* Every variable keeps its type.
THEOREM TypeCorrect == Spec => []TypeOK
BY Invariance, PTL DEF IInv

\* A trigger runs at most once and is answered at most once, for any number of
\* pods, rebalances, lost sessions and failed commits.
THEOREM AtMostOnce == Spec => []AtMostOncePerTrigger
<1>1. IInv => AtMostOncePerTrigger
  <2> SUFFICES ASSUME IInv, NEW o \in Offsets
               PROVE  /\ executed[o] <= 1
                      /\ Cardinality({i \in DOMAIN answers : answers[i].off = o}) <= 1
    BY DEF AtMostOncePerTrigger
  <2> DEFINE of == {i \in DOMAIN answers : answers[i].off = o}
  <2>1. \A i, j \in of : i = j
    BY AnswersDomain DEF IInv, AnswersOK
  <2>2. of = {} \/ \E i : of = {i}
    <3>1. ASSUME NEW i \in of PROVE of = {i}
      BY <2>1
    <3> QED
      BY <3>1
  <2> HIDE DEF of
  <2>3. Cardinality(of) <= 1
    <3>1. CASE of = {}
      BY <3>1, FS_EmptySet
    <3>2. ASSUME NEW i, of = {i} PROVE Cardinality(of) <= 1
      <4>1. Cardinality({i}) = 1
        BY FS_Singleton
      <4> QED
        BY <3>2, <4>1
    <3> QED
      BY <2>2, <3>1, <3>2
  <2> QED
    BY <2>3 DEF of, IInv, ExecutedOK
<1> QED
  BY <1>1, Invariance, PTL

\* A committed trigger is answered, held, or lost with its pod or on its way to the
\* broker.
THEOREM CommittedAnswered == Spec => []CommittedIsAnswered
BY Invariance, PTL DEF IInv

\* The answer a requester takes is to its own trigger, or to one still open.
THEOREM TakesRightAnswer == Spec => []RightAnswer
BY Invariance, PTL DEF IInv
-----------------------------------------------------------------------------
(* The refinement: what each step does to the life of the triggers.        *)

\* The pod holds the trigger at offset o.
Has(w, o) == hand[w] = o /\ pc[w] \notin {"waiting", "committing"}

(* The life of a trigger depends on five facts. *)
LEMMA LifeFrame ==
  ASSUME NEW o \in Offsets,
         Ours(o)' <=> Ours(o), Answered(o)' <=> Answered(o), (o \in lost') <=> (o \in lost),
         Held(o)' <=> Held(o), (o > committed') <=> (o > committed)
  PROVE  LifeOf(o)' = LifeOf(o)
BY DEF LifeOf

(* The others live on as before. *)
LEMMA LifeChanges ==
  ASSUME NEW x \in Offsets, NEW s, LifeOf(x)' = s,
         \A o \in Offsets : o # x => LifeOf(o)' = LifeOf(o)
  PROVE  Life' = [Life EXCEPT ![x] = s]
BY DEF Life

(* All of them do. *)
LEMMA LifeStays ==
  ASSUME \A o \in Offsets : LifeOf(o)' = LifeOf(o)
  PROVE  Life' = Life
BY DEF Life

(* Only the pod that moves can change who holds what. *)
LEMMA HeldFrame ==
  ASSUME NEW w \in Pods, NEW o,
         \A v \in Pods : v # w => hand'[v] = hand[v] /\ pc'[v] = pc[v],
         Has(w, o)' <=> Has(w, o)
  PROVE  Held(o)' <=> Held(o)
BY DEF Held, Has

(* A pod that takes up and puts down nothing leaves the triggers alone. *)
LEMMA PodFrame ==
  ASSUME NEW w \in Pods, UNCHANGED <<control, committed, answers, lost>>,
         \A v \in Pods : v # w => hand'[v] = hand[v] /\ pc'[v] = pc[v],
         \A o \in Offsets : Has(w, o)' <=> Has(w, o)
  PROVE  Life' = Life
<1> SUFFICES ASSUME NEW o \in Offsets PROVE LifeOf(o)' = LifeOf(o)
  BY LifeStays
<1>1. Held(o)' <=> Held(o)
  BY HeldFrame
<1>2. (Ours(o)' <=> Ours(o)) /\ (Answered(o)' <=> Answered(o))
  BY DEF Ours, Answered
<1> QED
  BY <1>1, <1>2, LifeFrame

(* What a pod holds is taken. *)
LEMMA HeldIsTaken ==
  ASSUME IInv, NEW w \in Pods, Holds(w)
  PROVE  hand[w] \in Offsets /\ Ours(hand[w]) /\ ~Answered(hand[w]) /\ LifeOf(hand[w]) = "taken"
<1>1. hand[w] \in Offsets /\ Ours(hand[w])
  BY HeldTrigger DEF IInv, HandOK
<1>2. ~Answered(hand[w])
  BY AnswersDomain DEF IInv, AnswersOK, Answered
<1>3. hand[w] \notin lost
  BY DEF IInv, LostOK
<1>4. Held(hand[w])
  BY DEF Held, Holds
<1> QED
  BY <1>1, <1>2, <1>3, <1>4 DEF LifeOf

(* Beyond the committed offset nothing has begun. *)
LEMMA BeyondCommitted ==
  ASSUME IInv, NEW o \in Offsets, o > committed
  PROVE  ~Answered(o) /\ o \notin lost /\ ~Held(o)
<1>1. Ranges
  BY InRange DEF IInv
<1>2. o \in Nat /\ o # 0
  BY KafkaTriggerAssumption DEF KafkaTriggerAssumption, Offsets
<1>3. ~Answered(o)
  BY <1>1, <1>2, AnswersDomain DEF IInv, AnswersOK, Answered, Ranges
<1>4. o \notin lost
  BY <1>1, <1>2 DEF IInv, LostOK, Ranges
<1>5. ~Held(o)
  <2> SUFFICES ASSUME NEW w \in Pods, hand[w] = o, pc[w] \notin {"waiting", "committing"}
               PROVE  FALSE
    BY DEF Held
  <2>1. pc[w] # "down"
    BY <1>2 DEF IInv, HandOK
  <2>2. Holds(w)
    BY <1>1, <2>1 DEF Holds, Ranges, States
  <2> QED
    BY <1>1, <1>2, <2>2 DEF IInv, HandOK, Ranges
<1> QED
  BY <1>3, <1>4, <1>5

(* It is the turn of the trigger next after the committed offset. *)
LEMMA NextIsFirst ==
  ASSUME IInv, NEW o \in Offsets, o = committed + 1, Ours(o)
  PROVE  Promised!First(o)
<1>1. Ranges
  BY InRange DEF IInv
<1>2. LifeOf(o) = "waiting"
  BY <1>1, BeyondCommitted DEF LifeOf, Ranges
<1>3. ASSUME NEW q \in Offsets, q < o PROVE LifeOf(q) # "waiting"
  <2>1. ~(q > committed)
    BY <1>1, <1>3 DEF Ranges
  <2> QED
    BY <2>1 DEF LifeOf
<1> QED
  BY <1>2, <1>3 DEF Promised!First, Life

(* A step that changes no life is none to the requester, or a mishap. *)
LEMMA Stutters ==
  ASSUME Life' = Life, UNCHANGED <<executed, answers>>, faults' = faults \/ faults' = faults + 1
  PROVE  [Promised!Next]_(Promised!lifeVars)
BY DEF Promised!Next, Promised!Mishap, Promised!lifeVars

(* A fault that loses a trigger. *)
LEMMA Loses ==
  ASSUME NEW o \in Offsets, Life[o] = "taken" \/ Promised!First(o),
         Life' = [Life EXCEPT ![o] = "lost"], UNCHANGED <<executed, answers>>,
         faults' = faults + 1
  PROVE  [Promised!Next]_(Promised!lifeVars)
BY DEF Promised!Next, Promised!Lose

(* A commit moves the group on by one, past the message in hand. *)
LEMMA CommitFrame ==
  ASSUME IInv, NEW w \in Pods, pc[w] = "committing", owner = w,
         committed' = hand[w], UNCHANGED <<control, answers>>,
         lost' \in {lost, lost \cup {hand[w]}},
         \A v \in Pods : v # w => hand'[v] = hand[v] /\ pc'[v] = pc[v],
         hand'[w] \in {hand[w], 0}
  PROVE  /\ hand[w] \in Offsets /\ hand[w] = committed + 1
         /\ \A o \in Offsets : o # hand[w] => LifeOf(o)' = LifeOf(o)
<1>1. Ranges
  BY InRange DEF IInv
<1>2. hand[w] = committed + 1 /\ hand[w] \in Offsets
  BY HandInRange DEF IInv, CommitOK
<1>3. ASSUME NEW o \in Offsets, o # hand[w] PROVE LifeOf(o)' = LifeOf(o)
  <2>1. o \in Nat /\ o # 0
    BY DEF Offsets
  <2>2. Held(o)' <=> Held(o)
    BY <1>3, <2>1, HeldFrame DEF Has
  <2>3. (Ours(o)' <=> Ours(o)) /\ (Answered(o)' <=> Answered(o))
    BY DEF Ours, Answered
  <2>4. (o > committed') <=> (o > committed)
    BY <1>1, <1>2, <1>3, <2>1 DEF Ranges
  <2>5. (o \in lost') <=> (o \in lost)
    BY <1>3
  <2> QED
    BY <2>2, <2>3, <2>4, <2>5, LifeFrame
<1> QED
  BY <1>2, <1>3

(* A pod that gives up what it holds changes the life of that trigger only. *)
LEMMA GiveUpFrame ==
  ASSUME IInv, NEW w \in Pods, Holds(w),
         UNCHANGED <<control, committed>>, hand'[w] = 0,
         \A v \in Pods : v # w => hand'[v] = hand[v] /\ pc'[v] = pc[v],
         lost' \in {lost, lost \cup {hand[w]}},
         \A o \in Offsets : o # hand[w] => (Answered(o)' <=> Answered(o))
  PROVE  \A o \in Offsets : o # hand[w] => LifeOf(o)' = LifeOf(o)
<1> SUFFICES ASSUME NEW o \in Offsets, o # hand[w] PROVE LifeOf(o)' = LifeOf(o)
  OBVIOUS
<1>1. o # 0
  BY DEF Offsets
<1>2. Held(o)' <=> Held(o)
  BY <1>1, HeldFrame DEF Has
<1>3. (Ours(o)' <=> Ours(o)) /\ ((o > committed') <=> (o > committed))
  BY DEF Ours
<1>4. (o \in lost') <=> (o \in lost)
  OBVIOUS
<1> QED
  BY <1>2, <1>3, <1>4, LifeFrame

(* Every step is one of TriggerLife, or none. *)
LEMMA KeepsStep == IInv /\ [Next]_vars => [Promised!Next]_(Promised!lifeVars)
<1> SUFFICES ASSUME IInv, Ranges, [Next]_vars PROVE [Promised!Next]_(Promised!lifeVars)
  BY InRange DEF IInv
<1> USE DEF topics, pod, asker, history
<1>1. CASE Probe
  <2>1. UNCHANGED <<control, committed, answers, lost, pc, hand, executed>>
    BY <1>1 DEF Probe, Fault
  <2>2. faults' = faults \/ faults' = faults + 1
    BY <1>1 DEF Probe, Fault
  <2>3. Life' = Life
    BY <2>1 DEF Life, LifeOf, Ours, Answered, Held
  <2> QED
    BY <2>1, <2>2, <2>3, Stutters
<1>2. CASE TakeAnswer
  <2>1. UNCHANGED <<control, committed, answers, lost, pc, hand, executed>>
    BY <1>2 DEF TakeAnswer
  <2>2. faults' = faults \/ faults' = faults + 1
    BY <1>2 DEF TakeAnswer
  <2>3. Life' = Life
    BY <2>1 DEF Life, LifeOf, Ours, Answered, Held
  <2> QED
    BY <2>1, <2>2, <2>3, Stutters
<1>3. CASE GiveUp
  <2>1. UNCHANGED <<control, committed, answers, lost, pc, hand, executed>>
    BY <1>3 DEF GiveUp, NoRequest
  <2>2. faults' = faults \/ faults' = faults + 1
    BY <1>3 DEF GiveUp, NoRequest
  <2>3. Life' = Life
    BY <2>1 DEF Life, LifeOf, Ours, Answered, Held
  <2> QED
    BY <2>1, <2>2, <2>3, Stutters
<1>4. ASSUME NEW t \in Triggers, Trigger(t) PROVE [Promised!Next]_(Promised!lifeVars)
  <2>1. /\ Len(control) \in Nat /\ Len(control') = Len(control) + 1
        /\ \A o \in 1..Len(control) : control'[o] = control[o]
        /\ control'[Len(control) + 1] = t
    BY <1>4 DEF Trigger, IInv, TypeOK
  <2>2. UNCHANGED <<committed, pc, hand, answers, executed, lost, faults>>
    BY <1>4 DEF Trigger
  <2>3. PICK x \in Offsets : x = Len(control) + 1 /\ x > committed
    BY <1>4, <2>1, KafkaTriggerAssumption
    DEF Trigger, Ranges, Offsets, KafkaTriggerAssumption
  <2>4. ~Ours(x) /\ Ours(x)'
    BY <2>1, <2>3 DEF Ours
  <2>5. ~Answered(x) /\ x \notin lost /\ ~Held(x)
    BY <2>3, BeyondCommitted
  <2>6. \A o \in Offsets : (Answered(o)' <=> Answered(o)) /\ (Held(o)' <=> Held(o))
    BY <2>2 DEF Answered, Held
  <2>7. LifeOf(x) = "none" /\ LifeOf(x)' = "waiting"
    BY <2>2, <2>3, <2>4, <2>5, <2>6 DEF LifeOf
  <2>8. ASSUME NEW o \in Offsets, o # x PROVE LifeOf(o)' = LifeOf(o)
    <3>1. Ours(o)' <=> Ours(o)
      BY <2>1, <2>3, <2>8 DEF Ours, Offsets
    <3> QED
      BY <2>2, <2>6, <3>1, LifeFrame
  <2>9. Life' = [Life EXCEPT ![x] = "waiting"]
    BY <2>3, <2>7, <2>8, LifeChanges
  <2> QED
    BY <2>2, <2>3, <2>7, <2>9 DEF Promised!Next, Promised!Ask, Life
<1>5. ASSUME NEW t \in Triggers, TriggerFails(t) PROVE [Promised!Next]_(Promised!lifeVars)
  <2>1. UNCHANGED <<control, committed, answers, lost, pc, hand, executed>>
    BY <1>5 DEF TriggerFails, NoRequest, Fault
  <2>2. faults' = faults \/ faults' = faults + 1
    BY <1>5 DEF TriggerFails, NoRequest, Fault
  <2>3. Life' = Life
    BY <2>1 DEF Life, LifeOf, Ours, Answered, Held
  <2> QED
    BY <2>1, <2>2, <2>3, Stutters
<1>6. ASSUME NEW m \in Strays, Stray(m) PROVE [Promised!Next]_(Promised!lifeVars)
  <2>1. /\ Len(control) \in Nat /\ Len(control') = Len(control) + 1
        /\ \A o \in 1..Len(control) : control'[o] = control[o]
        /\ control'[Len(control) + 1] = m
    BY <1>6 DEF Stray, IInv, TypeOK
  <2>2. UNCHANGED <<committed, pc, hand, answers, executed, lost, faults>>
    BY <1>6 DEF Stray
  <2>3. m \notin Triggers
    BY KafkaTriggerAssumption DEF KafkaTriggerAssumption
  <2>4. ASSUME NEW o \in Offsets PROVE LifeOf(o)' = LifeOf(o)
    <3>1. Ours(o)' <=> Ours(o)
      BY <2>1, <2>3 DEF Ours, Offsets
    <3>2. (Answered(o)' <=> Answered(o)) /\ (Held(o)' <=> Held(o))
      BY <2>2 DEF Answered, Held
    <3> QED
      BY <2>2, <3>1, <3>2, LifeFrame
  <2>5. Life' = Life
    BY <2>4, LifeStays
  <2> QED
    BY <2>2, <2>5, Stutters
<1>7. ASSUME NEW w \in Pods, Start(w) PROVE [Promised!Next]_(Promised!lifeVars)
  <2>1. UNCHANGED <<control, committed, answers, lost, executed>>
    BY <1>7 DEF Start
  <2>2. \A v \in Pods : v # w => hand'[v] = hand[v] /\ pc'[v] = pc[v]
    BY <1>7 DEF Start
  <2>3. faults' = faults \/ faults' = faults + 1
    BY <1>7 DEF Start
  <2>4. \A o \in Offsets : Has(w, o)' <=> Has(w, o)
    <3>1. \A o \in Offsets : o # 0
      BY DEF Offsets
    <3> QED
      BY <1>7, <3>1 DEF Has, IInv, HandOK, Ranges, Start
  <2>5. Life' = Life
    BY <2>1, <2>2, <2>4, PodFrame
  <2> QED
    BY <2>1, <2>3, <2>5, Stutters
<1>8. ASSUME NEW w \in Pods, Assign(w) PROVE [Promised!Next]_(Promised!lifeVars)
  <2>1. UNCHANGED <<control, committed, answers, lost, pc, hand, executed>>
    BY <1>8 DEF Assign
  <2>2. faults' = faults \/ faults' = faults + 1
    BY <1>8 DEF Assign
  <2>3. Life' = Life
    BY <2>1 DEF Life, LifeOf, Ours, Answered, Held
  <2> QED
    BY <2>1, <2>2, <2>3, Stutters
<1>9. ASSUME NEW w \in Pods, Revoke(w) PROVE [Promised!Next]_(Promised!lifeVars)
  <2>1. UNCHANGED <<control, committed, answers, lost, pc, hand, executed>>
    BY <1>9 DEF Revoke
  <2>2. faults' = faults \/ faults' = faults + 1
    BY <1>9 DEF Revoke
  <2>3. Life' = Life
    BY <2>1 DEF Life, LifeOf, Ours, Answered, Held
  <2> QED
    BY <2>1, <2>2, <2>3, Stutters
<1>10. ASSUME NEW w \in Pods, LoseSession(w) PROVE [Promised!Next]_(Promised!lifeVars)
  <2>1. UNCHANGED <<control, committed, answers, lost, pc, hand, executed>>
    BY <1>10 DEF LoseSession, Fault
  <2>2. faults' = faults \/ faults' = faults + 1
    BY <1>10 DEF LoseSession, Fault
  <2>3. Life' = Life
    BY <2>1 DEF Life, LifeOf, Ours, Answered, Held
  <2> QED
    BY <2>1, <2>2, <2>3, Stutters
<1>11. ASSUME NEW w \in Pods, Poll(w) PROVE [Promised!Next]_(Promised!lifeVars)
  <2>1. UNCHANGED <<control, committed, answers, lost, executed>>
    BY <1>11 DEF Poll
  <2>2. \A v \in Pods : v # w => hand'[v] = hand[v] /\ pc'[v] = pc[v]
    BY <1>11 DEF Poll
  <2>3. faults' = faults \/ faults' = faults + 1
    BY <1>11 DEF Poll
  <2>4. \A o \in Offsets : Has(w, o)' <=> Has(w, o)
    <3>1. \A o \in Offsets : o # 0
      BY DEF Offsets
    <3> QED
      BY <1>11, <3>1 DEF Has, IInv, HandOK, Ranges, Poll
  <2>5. Life' = Life
    BY <2>1, <2>2, <2>4, PodFrame
  <2> QED
    BY <2>1, <2>3, <2>5, Stutters
<1>12. ASSUME NEW w \in Pods, Choke(w) PROVE [Promised!Next]_(Promised!lifeVars)
  <2>1. UNCHANGED <<control, committed, answers, lost, executed>>
    BY <1>12 DEF Choke, Dies, Leave
  <2>2. \A v \in Pods : v # w => hand'[v] = hand[v] /\ pc'[v] = pc[v]
    BY <1>12 DEF Choke, Dies, Leave
  <2>3. faults' = faults \/ faults' = faults + 1
    BY <1>12 DEF Choke, Dies, Leave
  <2>4. \A o \in Offsets : Has(w, o)' <=> Has(w, o)
    <3>1. \A o \in Offsets : o # 0
      BY DEF Offsets
    <3> QED
      BY <1>12, <3>1 DEF Has, IInv, HandOK, Ranges, Choke, Dies, Leave
  <2>5. Life' = Life
    BY <2>1, <2>2, <2>4, PodFrame
  <2> QED
    BY <2>1, <2>3, <2>5, Stutters
<1>13. ASSUME NEW w \in Pods, CommitStray(w) PROVE [Promised!Next]_(Promised!lifeVars)
  <2>1. /\ pc[w] = "committing" /\ owner = w /\ committed' = hand[w]
        /\ UNCHANGED <<control, answers, executed>>
        /\ \A v \in Pods : v # w => hand'[v] = hand[v] /\ pc'[v] = pc[v]
        /\ hand'[w] \in {hand[w], 0} /\ lost' \in {lost, lost \cup {hand[w]}}
    BY <1>13 DEF Ranges, CommitStray
  <2>2. PICK x \in Offsets :
          /\ x = hand[w] /\ x = committed + 1
          /\ \A o \in Offsets : o # x => LifeOf(o)' = LifeOf(o)
    BY <2>1, CommitFrame
  <2>3. ~Ours(x) /\ UNCHANGED <<control, faults>>
    BY <1>13, <2>2 DEF CommitStray
  <2>4. LifeOf(x)' = LifeOf(x)
    BY <2>3 DEF LifeOf, Ours
  <2>5. Life' = Life
    BY <2>2, <2>4, LifeStays
  <2> QED
    BY <2>1, <2>3, <2>5, Stutters
<1>14. ASSUME NEW w \in Pods, CommitTrigger(w) PROVE [Promised!Next]_(Promised!lifeVars)
  <2>1. /\ pc[w] = "committing" /\ owner = w /\ committed' = hand[w]
        /\ UNCHANGED <<control, answers, executed>>
        /\ \A v \in Pods : v # w => hand'[v] = hand[v] /\ pc'[v] = pc[v]
        /\ hand'[w] \in {hand[w], 0} /\ lost' \in {lost, lost \cup {hand[w]}}
    BY <1>14 DEF Ranges, CommitTrigger
  <2>2. PICK x \in Offsets :
          /\ x = hand[w] /\ x = committed + 1
          /\ \A o \in Offsets : o # x => LifeOf(o)' = LifeOf(o)
    BY <2>1, CommitFrame
  <2>3. /\ Ours(x) /\ UNCHANGED <<control, hand, lost, faults>>
        /\ pc'[w] = "deciding"
    BY <1>14, <2>2 DEF CommitTrigger, Ranges
  <2>4. Promised!First(x)
    BY <2>2, <2>3, NextIsFirst
  <2>5. ~Answered(x) /\ x \notin lost
    BY <2>2, BeyondCommitted DEF Ranges
  <2>6. LifeOf(x)' = "taken"
    <3>1. Held(x)'
      BY <2>2, <2>3 DEF Held
    <3>2. Ours(x)' /\ ~Answered(x)' /\ ~(x \in lost')
      BY <2>1, <2>3, <2>5 DEF Ours, Answered
    <3> QED
      BY <3>1, <3>2 DEF LifeOf
  <2>7. Life' = [Life EXCEPT ![x] = "taken"]
    BY <2>2, <2>6, LifeChanges
  <2> QED
    BY <2>1, <2>3, <2>4, <2>7 DEF Promised!Next, Promised!Take
<1>15. ASSUME NEW w \in Pods, CommitFails(w) PROVE [Promised!Next]_(Promised!lifeVars)
  <2>1. /\ pc[w] = "committing" /\ UNCHANGED <<control, answers, executed>>
        /\ \A v \in Pods : v # w => hand'[v] = hand[v] /\ pc'[v] = pc[v]
        /\ pc'[w] = "down" /\ hand'[w] = 0
    BY <1>15 DEF Ranges, CommitFails, Fault, Dies, Leave
  <2>2. CASE UNCHANGED <<committed, lost>>
    <3>1. faults' = faults \/ faults' = faults + 1
      BY <1>15 DEF CommitFails, Fault, Dies, Leave
    <3>2. \A o \in Offsets : Has(w, o)' <=> Has(w, o)
      BY <2>1 DEF Has, Offsets
    <3>3. Life' = Life
      BY <2>1, <2>2, <3>2, PodFrame
    <3> QED
      BY <2>1, <3>1, <3>3, Stutters
  <2>3. CASE /\ owner = w /\ faults' = faults + 1
             /\ committed' = hand[w] /\ lost' = lost \cup {hand[w]}
    <3>1. PICK x \in Offsets :
            /\ x = hand[w] /\ x = committed + 1
            /\ \A o \in Offsets : o # x => LifeOf(o)' = LifeOf(o)
      BY <2>1, <2>3, CommitFrame
    <3>2. ~Answered(x) /\ x \in lost'
      BY <2>3, <3>1, BeyondCommitted DEF Ranges
    <3>3. CASE Ours(x)
      <4>1. Promised!First(x)
        BY <3>1, <3>3, NextIsFirst
      <4>2. LifeOf(x)' = "lost"
        <5>1. Ours(x)' /\ ~Answered(x)'
          BY <2>1, <3>2, <3>3 DEF Ours, Answered
        <5> QED
          BY <3>2, <5>1 DEF LifeOf
      <4>3. Life' = [Life EXCEPT ![x] = "lost"]
        BY <3>1, <4>2, LifeChanges
      <4> QED
        BY <2>1, <2>3, <4>1, <4>3, Loses
    <3>4. CASE ~Ours(x)
      <4>1. LifeOf(x)' = LifeOf(x)
        BY <2>1, <3>4 DEF LifeOf, Ours
      <4>2. Life' = Life
        BY <3>1, <4>1, LifeStays
      <4> QED
        BY <2>1, <2>3, <4>2, Stutters
    <3> QED
      BY <3>3, <3>4
  <2> QED
    BY <1>15, <2>2, <2>3 DEF CommitFails, Fault
<1>16. ASSUME NEW w \in Pods, Duplicate(w) PROVE [Promised!Next]_(Promised!lifeVars)
  <2>1. UNCHANGED <<control, committed, answers, lost, executed>>
    BY <1>16 DEF Duplicate
  <2>2. \A v \in Pods : v # w => hand'[v] = hand[v] /\ pc'[v] = pc[v]
    BY <1>16 DEF Duplicate
  <2>3. faults' = faults \/ faults' = faults + 1
    BY <1>16 DEF Duplicate
  <2>4. \A o \in Offsets : Has(w, o)' <=> Has(w, o)
    <3>1. \A o \in Offsets : o # 0
      BY DEF Offsets
    <3> QED
      BY <1>16, <3>1 DEF Has, IInv, HandOK, Ranges, Duplicate
  <2>5. Life' = Life
    BY <2>1, <2>2, <2>4, PodFrame
  <2> QED
    BY <2>1, <2>3, <2>5, Stutters
<1>17. ASSUME NEW w \in Pods, SkipManual(w) PROVE [Promised!Next]_(Promised!lifeVars)
  <2>1. UNCHANGED <<control, committed, answers, lost, executed>>
    BY <1>17 DEF SkipManual
  <2>2. \A v \in Pods : v # w => hand'[v] = hand[v] /\ pc'[v] = pc[v]
    BY <1>17 DEF SkipManual
  <2>3. faults' = faults \/ faults' = faults + 1
    BY <1>17 DEF SkipManual
  <2>4. \A o \in Offsets : Has(w, o)' <=> Has(w, o)
    <3>1. \A o \in Offsets : o # 0
      BY DEF Offsets
    <3> QED
      BY <1>17, <3>1 DEF Has, IInv, HandOK, Ranges, SkipManual
  <2>5. Life' = Life
    BY <2>1, <2>2, <2>4, PodFrame
  <2> QED
    BY <2>1, <2>3, <2>5, Stutters
<1>18. ASSUME NEW w \in Pods, RunPipeline(w) PROVE [Promised!Next]_(Promised!lifeVars)
  <2>1. UNCHANGED <<control, committed, answers, lost, faults, hand>>
    BY <1>18 DEF RunPipeline
  <2>2. \A v \in Pods : v # w => hand'[v] = hand[v] /\ pc'[v] = pc[v]
    BY <1>18 DEF RunPipeline
  <2>3. \A o \in Offsets : Has(w, o)' <=> Has(w, o)
    BY <1>18 DEF Has, Ranges, RunPipeline
  <2>4. Life' = Life
    BY <2>1, <2>2, <2>3, PodFrame
  <2>5. Holds(w) /\ executed[hand[w]] = 0
    BY <1>18 DEF RunPipeline, Holds, IInv, ExecutedOK
  <2>6. hand[w] \in Offsets /\ LifeOf(hand[w]) = "taken"
    BY <2>5, HeldIsTaken
  <2>7. executed' = [executed EXCEPT ![hand[w]] = 1]
    BY <1>18, <2>5, <2>6 DEF RunPipeline, Ranges
  <2> QED
    BY <2>1, <2>4, <2>5, <2>6, <2>7 DEF Promised!Next, Promised!Run, Life
<1>19. ASSUME NEW w \in Pods, Succeed(w) PROVE [Promised!Next]_(Promised!lifeVars)
  <2>1. UNCHANGED <<control, committed, answers, lost, executed>>
    BY <1>19 DEF Succeed, RunOf
  <2>2. \A v \in Pods : v # w => hand'[v] = hand[v] /\ pc'[v] = pc[v]
    BY <1>19 DEF Succeed, RunOf
  <2>3. faults' = faults \/ faults' = faults + 1
    BY <1>19 DEF Succeed, RunOf
  <2>4. \A o \in Offsets : Has(w, o)' <=> Has(w, o)
    <3>1. \A o \in Offsets : o # 0
      BY DEF Offsets
    <3> QED
      BY <1>19, <3>1 DEF Has, IInv, HandOK, Ranges, Succeed, RunOf
  <2>5. Life' = Life
    BY <2>1, <2>2, <2>4, PodFrame
  <2> QED
    BY <2>1, <2>3, <2>5, Stutters
<1>20. ASSUME NEW w \in Pods, FailRun(w) PROVE [Promised!Next]_(Promised!lifeVars)
  <2>1. UNCHANGED <<control, committed, answers, lost, executed>>
    BY <1>20 DEF FailRun, RunOf
  <2>2. \A v \in Pods : v # w => hand'[v] = hand[v] /\ pc'[v] = pc[v]
    BY <1>20 DEF FailRun, RunOf
  <2>3. faults' = faults \/ faults' = faults + 1
    BY <1>20 DEF FailRun, RunOf
  <2>4. \A o \in Offsets : Has(w, o)' <=> Has(w, o)
    <3>1. \A o \in Offsets : o # 0
      BY DEF Offsets
    <3> QED
      BY <1>20, <3>1 DEF Has, IInv, HandOK, Ranges, FailRun, RunOf
  <2>5. Life' = Life
    BY <2>1, <2>2, <2>4, PodFrame
  <2> QED
    BY <2>1, <2>3, <2>5, Stutters
<1>21. ASSUME NEW w \in Pods, ReportRaises(w) PROVE [Promised!Next]_(Promised!lifeVars)
  <2>1. UNCHANGED <<control, committed, answers, lost, executed>>
    BY <1>21 DEF ReportRaises, Fault
  <2>2. \A v \in Pods : v # w => hand'[v] = hand[v] /\ pc'[v] = pc[v]
    BY <1>21 DEF ReportRaises, Fault
  <2>3. faults' = faults \/ faults' = faults + 1
    BY <1>21 DEF ReportRaises, Fault
  <2>4. \A o \in Offsets : Has(w, o)' <=> Has(w, o)
    <3>1. \A o \in Offsets : o # 0
      BY DEF Offsets
    <3> QED
      BY <1>21, <3>1 DEF Has, IInv, HandOK, Ranges, ReportRaises, Fault
  <2>5. Life' = Life
    BY <2>1, <2>2, <2>4, PodFrame
  <2> QED
    BY <2>1, <2>3, <2>5, Stutters
<1>22. ASSUME NEW w \in Pods, Publish(w) PROVE [Promised!Next]_(Promised!lifeVars)
  <2> DEFINE a == [off |-> hand[w], status |-> verdict[w]]
  <2>1. /\ Holds(w) /\ UNCHANGED <<control, committed, executed>> /\ hand'[w] = 0
        /\ \A v \in Pods : v # w => hand'[v] = hand[v] /\ pc'[v] = pc[v]
    BY <1>22 DEF Publish, Holds, Ranges
  <2>2. PICK x \in Offsets : x = hand[w] /\ Ours(x) /\ ~Answered(x) /\ LifeOf(x) = "taken"
    BY <2>1, HeldIsTaken
  <2>3. a \in [off : Offsets, status : Verdicts] /\ a.off = x
    BY <2>1, <2>2, StatusType DEF IInv
  <2>4. CASE answers' = Append(answers, a) /\ UNCHANGED <<lost, faults>>
    <3>1. /\ answers' \in Seq([off : Offsets, status : Verdicts])
          /\ Len(answers') = Len(answers) + 1 /\ Len(answers) \in Nat
          /\ \A i \in 1..Len(answers) : answers'[i] = answers[i]
          /\ answers'[Len(answers) + 1] = a
      BY <2>3, <2>4, AnswersGrow DEF IInv
    <3>2. DOMAIN answers' = 1..Len(answers) + 1 /\ DOMAIN answers = 1..Len(answers)
      BY <3>1, AnswersDomain DEF IInv
    <3> HIDE DEF a
    <3>3. Answered(x)'
      BY <2>3, <3>1, <3>2 DEF Answered
    <3>4. \A o \in Offsets : o # x => (Answered(o)' <=> Answered(o))
      BY <2>3, <3>1, <3>2 DEF Answered
    <3>5. \A o \in Offsets : o # x => LifeOf(o)' = LifeOf(o)
      BY <2>1, <2>2, <2>4, <3>4, GiveUpFrame
    <3>6. LifeOf(x)' = "answered"
      BY <2>1, <2>2, <3>3 DEF LifeOf, Ours
    <3>7. Life' = [Life EXCEPT ![x] = "answered"]
      BY <3>5, <3>6, LifeChanges
    <3>8. /\ verdict[w] \in Verdicts
          /\ verdict[w] = "failed" => executed[x] = 1
          /\ verdict[w] = "skipped" => executed[x] = 0
      BY <1>22, <2>2 DEF Publish, IInv, TypeOK, VerdictOK
    <3>9. answers' = Append(answers, [off |-> x, status |-> verdict[w]])
      BY <2>2, <2>4 DEF a
    <3> QED
      BY <2>1, <2>2, <2>4, <3>7, <3>8, <3>9 DEF Promised!Next, Promised!Answer, Life
  <2>5. CASE UNCHANGED answers /\ faults' = faults + 1 /\ lost' = lost \cup {hand[w]}
    <3>1. \A o \in Offsets : o # x => LifeOf(o)' = LifeOf(o)
      BY <2>1, <2>2, <2>5, GiveUpFrame DEF Answered
    <3>2. LifeOf(x)' = "lost"
      BY <2>1, <2>2, <2>5 DEF LifeOf, Ours, Answered
    <3>3. Life' = [Life EXCEPT ![x] = "lost"]
      BY <3>1, <3>2, LifeChanges
    <3> QED
      BY <2>1, <2>2, <2>5, <3>3, Loses DEF Life
  <2> QED
    BY <1>22, <2>4, <2>5 DEF Publish, Fault
<1>23. ASSUME NEW w \in Pods, Crash(w) PROVE [Promised!Next]_(Promised!lifeVars)
  <2>1. /\ UNCHANGED <<control, committed, answers, executed>> /\ faults' = faults + 1
        /\ pc'[w] = "down" /\ hand'[w] = 0
        /\ \A v \in Pods : v # w => hand'[v] = hand[v] /\ pc'[v] = pc[v]
    BY <1>23 DEF Ranges, Crash, Fault, Dies, Leave
  <2>2. CASE pc[w] \in {"waiting", "committing"}
    <3>1. UNCHANGED lost
      BY <1>23, <2>2 DEF Crash
    <3>2. \A o \in Offsets : Has(w, o)' <=> Has(w, o)
      BY <2>1, <2>2 DEF Has, Offsets
    <3>3. Life' = Life
      BY <2>1, <3>1, <3>2, PodFrame
    <3> QED
      BY <2>1, <3>3, Stutters
  <2>3. CASE pc[w] \notin {"waiting", "committing"}
    <3>1. Holds(w) /\ lost' = lost \cup {hand[w]}
      BY <1>23, <2>3 DEF Crash, Holds, Ranges, States
    <3>2. PICK x \in Offsets : x = hand[w] /\ Ours(x) /\ ~Answered(x) /\ LifeOf(x) = "taken"
      BY <3>1, HeldIsTaken
    <3>3. \A o \in Offsets : o # x => LifeOf(o)' = LifeOf(o)
      BY <2>1, <3>1, <3>2, GiveUpFrame DEF Answered
    <3>4. LifeOf(x)' = "lost"
      BY <2>1, <3>1, <3>2 DEF LifeOf, Ours, Answered
    <3>5. Life' = [Life EXCEPT ![x] = "lost"]
      BY <3>3, <3>4, LifeChanges
    <3> QED
      BY <2>1, <3>1, <3>2, <3>5, Loses DEF Life
  <2> QED
    BY <2>2, <2>3
<1>24. CASE UNCHANGED vars
  <2>1. UNCHANGED <<control, committed, answers, lost, pc, hand, executed, faults>>
    BY <1>24 DEF vars
  <2>2. Life' = Life
    BY <2>1 DEF Life, LifeOf, Ours, Answered, Held
  <2> QED
    BY <2>1, <2>2, Stutters
<1> QED
  BY <1>1, <1>2, <1>3, <1>4, <1>5, <1>6, <1>7, <1>8, <1>9, <1>10, <1>11,
     <1>12, <1>13, <1>14, <1>15, <1>16, <1>17, <1>18, <1>19, <1>20, <1>21,
     <1>22, <1>23, <1>24
  DEF Next, Requester, Group, Wait, Execute

(* The control topic is empty at first. *)
LEMMA KeepsInit == Init => Promised!Init
<1> SUFFICES ASSUME Init PROVE Promised!Init
  OBVIOUS
<1>1. \A o \in Offsets : LifeOf(o) = "none"
  BY DEF Init, LifeOf, Ours
<1> QED
  BY <1>1 DEF Init, Promised!Init, Life

\* Whatever fails, each trigger lives the life of TriggerLife: taken in its turn, run
\* and answered at most once, truly, and lost only by a fault of its own.
THEOREM KeepsPromise == Spec => OneLife
<1>1. Init => Promised!Init
  BY KeepsInit
<1>2. IInv /\ [Next]_vars => [Promised!Next]_(Promised!lifeVars)
  BY KeepsStep
<1> QED
  BY <1>1, <1>2, Invariance, PTL DEF Spec, OneLife, Promised!Spec
=============================================================================
