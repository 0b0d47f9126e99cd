----------------------------- MODULE TriggerLife -----------------------------
(***************************************************************************)
(* What the trigger backend promises to whoever publishes triggers.  Each  *)
(* waits for its turn and is taken in the order of the control topic, by   *)
(* one pod; its pipeline runs at most once; it gets one answer, which says *)
(* failed only of a run and skipped only without one; and it is lost only  *)
(* if a fault, counted, is to blame: one fault loses one trigger.          *)
(***************************************************************************)
EXTENDS Naturals, Sequences

CONSTANTS
  Offsets,   \* positions on the control topic
  Statuses   \* what an answer may say

VARIABLES
  life,     \* what has become of the trigger at each offset
  runs,     \* how often its pipeline ran
  answers,  \* the status topic
  faults    \* crashes, lost sessions, commits and statuses

lifeVars == <<life, runs, answers, faults>>

Init ==
  /\ life = [o \in Offsets |-> "none"]
  /\ runs = [o \in Offsets |-> 0]
  /\ answers = <<>>
  /\ faults = 0

\* A trigger is on the control topic.
Ask ==
  /\ \E o \in Offsets : life[o] = "none" /\ life' = [life EXCEPT ![o] = "waiting"]
  /\ UNCHANGED <<runs, answers, faults>>

\* It is the turn of the trigger at o.
First(o) == life[o] = "waiting" /\ \A q \in Offsets : q < o => life[q] # "waiting"

\* A pod takes it.
Take ==
  /\ \E o \in Offsets : First(o) /\ life' = [life EXCEPT ![o] = "taken"]
  /\ UNCHANGED <<runs, answers, faults>>

\* Its pipeline runs.
Run ==
  /\ \E o \in Offsets :
       life[o] = "taken" /\ runs[o] = 0 /\ runs' = [runs EXCEPT ![o] = 1]
  /\ UNCHANGED <<life, answers, faults>>

\* It is answered.
Answer ==
  /\ \E o \in Offsets, s \in Statuses :
       /\ life[o] = "taken" /\ life' = [life EXCEPT ![o] = "answered"]
       /\ s = "failed" => runs[o] = 1
       /\ s = "skipped" => runs[o] = 0
       /\ answers' = Append(answers, [off |-> o, status |-> s])
  /\ UNCHANGED <<runs, faults>>

\* A fault loses it, in the hands of a pod or as it is being taken.
Lose ==
  /\ \E o \in Offsets :
       (life[o] = "taken" \/ First(o)) /\ life' = [life EXCEPT ![o] = "lost"]
  /\ faults' = faults + 1
  /\ UNCHANGED <<runs, answers>>

\* A fault that loses nothing.
Mishap == faults' = faults + 1 /\ UNCHANGED <<life, runs, answers>>

Next == Ask \/ Take \/ Run \/ Answer \/ Lose \/ Mishap

Spec == Init /\ [][Next]_lifeVars
=============================================================================
