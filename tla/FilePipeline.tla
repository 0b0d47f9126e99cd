----------------------------- MODULE FilePipeline -----------------------------
(***************************************************************************)
(* The two file stages: the producer's file adaptor and the consumer's     *)
(* file extractor.  A cycle lists the source container, copies what is new *)
(* to the target container under the same name, and publishes one event    *)
(* per copy.  What is new is decided by last-modified times alone; nothing *)
(* is remembered from one cycle to the next.                               *)
(*                                                                         *)
(* The adaptor tries every file, one after the other.  The extractor lists *)
(* both containers, keeps the files that are newer in the source, and      *)
(* copies them with a pool of threads; here the files of a cycle are       *)
(* handled in any order and side by side, which covers both.  The          *)
(* scheduler, each "Run Now" (one per click) and the two pods of a rolling *)
(* update are processes of their own over the same containers.             *)
(*                                                                         *)
(* The two containers share a clock of one second (the resolution of the   *)
(* Last-Modified header).  A copy is made inside the storage service: it   *)
(* takes a version of the source, and a while later the target has it and  *)
(* its time of modification is then.  S3 and GCS answer the request when   *)
(* the copy is there.  Azure may answer when it has begun: the target is   *)
(* there without its content until the copy has ended, or for good if it   *)
(* failed, and refuses another copy meanwhile.                             *)
(*                                                                         *)
(* The event is produced, and then the producer is asked for again and     *)
(* flushed.  The threads of the extractor's pool share an object that      *)
(* makes the producer at its first use and without a lock: a thread that   *)
(* found none may replace the one that holds another thread's event.  That *)
(* thread then flushes the new producer, and its event is delivered while  *)
(* the old one is destroyed, or is lost.  The pool also works on files     *)
(* that Files leaves out, so the producer may be replaced while a single   *)
(* file is followed.  A flush has no timeout and the broker need not       *)
(* answer.                                                                 *)
(***************************************************************************)
EXTENDS Naturals, FiniteSets

CONSTANTS
  Procs,       \* processes that run cycles
  Files,       \* object names
  MaxUploads,  \* bound on the versions of a file
  MaxTime,     \* bound on the clock
  MaxFaults    \* bound on crashes and failed calls

ASSUME FilePipelineAssumption ==
  /\ MaxUploads \in Nat /\ MaxTime \in Nat /\ MaxFaults \in Nat
  /\ IsFiniteSet(Procs)

VARIABLES
  stage,    \* "adaptor" or "extractor"; never changes
  azure,    \* whether CLOUD_PROVIDER is azure; never changes
  now,      \* the clock of the storage service
  source,   \* version and time of modification of each object
  target,   \*   in the two containers
  pending,  \* targets whose content Azure is still copying
  hollow,   \* targets whose content Azure failed to copy
  phase,    \* where each process is in its cycle
  listed,   \* times of modification a process found in the source
  job,      \* what a process is doing about each file
  events,   \* events published, by file and version (history)
  raced,    \* files uploaded during a copy of theirs, or in the second of the
            \*   target's last change (history)
  excused,  \* copies whose event a crash, a failed call or a replaced producer
            \*   prevented (history)
  faults    \* crashes and failed calls (history)

config  == <<stage, azure>>
stored  == <<config, now, source, target, pending, hollow>>
history == <<events, raced, excused, faults>>
vars    == <<stored, phase, listed, job, history>>

Versions == 1..MaxUploads
Objects  == [ver : 0..MaxUploads, stamp : 0..MaxTime]
Nothing  == [ver |-> 0, stamp |-> 0]
Stages   == {"none", "queued", "compared", "decided", "copying",
              "notifying", "sent", "waiting"}
NoJob    == [at |-> "none", stamp |-> 0, ver |-> 0]

Init ==
  /\ stage \in {"adaptor", "extractor"} /\ azure \in BOOLEAN
  /\ now = 0 /\ pending = {} /\ hollow = {}
  /\ source = [f \in Files |-> Nothing] /\ target = [f \in Files |-> Nothing]
  /\ phase = [p \in Procs |-> "idle"]
  /\ listed = [p \in Procs |-> source]
  /\ job = [p \in Procs |-> [f \in Files |-> NoJob]]
  /\ events = [f \in Files |-> [v \in Versions |-> 0]]
  /\ raced = {} /\ excused = {} /\ faults = 0

Fault == faults < MaxFaults /\ faults' = faults + 1

\* Mutation: a file that is in the target is never copied again.
NeverAgain(stamp, tgt) == tgt.ver = 0

\* Mutation: an object of the same second counts as newer.
NewerOrSame(stamp, tgt) == tgt.ver = 0 \/ stamp >= tgt.stamp

\* The timestamp gate: is an object of that time newer than the target's?
Newer(stamp, tgt) == tgt.ver = 0 \/ stamp > tgt.stamp

\* Files of a process at a stage.
At(p, point) == {f \in Files : job[p][f].at = point}
-----------------------------------------------------------------------------
Tick ==
  /\ now < MaxTime
  /\ now' = now + 1
  /\ UNCHANGED <<config, source, target, pending, hollow, phase, listed, job, history>>

\* A user puts a file, or a new version of it, into the source container.
Upload(f) ==
  /\ source[f].ver < MaxUploads
  /\ source' = [source EXCEPT ![f] = [ver |-> @.ver + 1, stamp |-> now]]
  /\ raced' = IF \/ f \in pending \/ \E p \in Procs : job[p][f].at = "copying"
                 \/ target[f].ver > 0 /\ target[f].stamp = now
              THEN raced \cup {f} ELSE raced
  /\ UNCHANGED <<config, now, target, pending, hollow, phase, listed, job, events,
                 excused, faults>>
-----------------------------------------------------------------------------
(* Listing.                                                                *)

Queue(p, files) ==
  job' = [job EXCEPT ![p] =
            [f \in Files |-> IF f \in files THEN [NoJob EXCEPT !.at = "queued"]
                                              ELSE NoJob]]

\* The adaptor: every file there is.
ListAll(p) ==
  /\ stage = "adaptor" /\ phase[p] = "idle"
  /\ \E f \in Files : source[f].ver > 0
  /\ Queue(p, {f \in Files : source[f].ver > 0})
  /\ phase' = [phase EXCEPT ![p] = "working"]
  /\ UNCHANGED <<stored, listed, history>>

\* The extractor: the source, and then the target.
ListSource(p) ==
  /\ stage = "extractor" /\ phase[p] = "idle"
  /\ listed' = [listed EXCEPT ![p] = source]
  /\ phase' = [phase EXCEPT ![p] = "listing"]
  /\ UNCHANGED <<stored, job, history>>

\* Mutation: the names of both containers are compared.
WantedOfBoth(p) == {f \in Files : Newer(listed[p][f].stamp, target[f])}

\* Mutation: only what the target does not have is copied.
WantedIfAbsent(p) == {f \in Files : listed[p][f].ver > 0 /\ target[f].ver = 0}

\* Files of the source listing that are newer than the target's.
Wanted(p) ==
  {f \in Files : listed[p][f].ver > 0 /\ Newer(listed[p][f].stamp, target[f])}

ListTarget(p) ==
  /\ phase[p] = "listing"
  /\ Queue(p, Wanted(p))
  /\ phase' = [phase EXCEPT ![p] = "working"]
  /\ UNCHANGED <<stored, listed, history>>

\* A listing fails: the cycle is over.
ListFails(p) ==
  /\ phase[p] = "listing" /\ Fault
  /\ phase' = [phase EXCEPT ![p] = "idle"]
  /\ UNCHANGED <<stored, listed, job, events, raced, excused>>
-----------------------------------------------------------------------------
(* file_copy and the event, for one file.                                  *)

Move(p, f, j) == job' = [job EXCEPT ![p][f] = j]

\* The loop, or a thread of the pool, comes to the file and asks for the source's time.
LookAtSource(p, f) ==
  /\ job[p][f].at = "queued"
  /\ Move(p, f, [at |-> "compared", stamp |-> source[f].stamp, ver |-> 0])
  /\ UNCHANGED <<stored, phase, listed, history>>

\* It asks for the target's time and decides.
LookAtTarget(p, f) ==
  /\ job[p][f].at = "compared"
  /\ Move(p, f, IF Newer(job[p][f].stamp, target[f])
                THEN [job[p][f] EXCEPT !.at = "decided"] ELSE NoJob)
  /\ UNCHANGED <<stored, phase, listed, history>>

\* A lookup fails: the file is left for the next cycle, except that Azure takes
\* a target it cannot look up for absent.
LookupFails(p, f) ==
  /\ job[p][f].at = "compared" /\ Fault
  /\ \/ Move(p, f, NoJob)
     \/ azure /\ Move(p, f, [job[p][f] EXCEPT !.at = "decided"])
  /\ UNCHANGED <<stored, phase, listed, events, raced, excused>>

\* The storage service begins to copy whatever version there is by now.
CopyBegins(p, f) ==
  /\ job[p][f].at = "decided" /\ f \notin pending
  /\ Move(p, f, [at |-> "copying", stamp |-> 0, ver |-> source[f].ver])
  /\ UNCHANGED <<stored, phase, listed, history>>

\* Azure refuses a second copy to a target it is still copying to.
CopyRefused(p, f) ==
  /\ job[p][f].at = "decided" /\ f \in pending
  /\ Move(p, f, NoJob)
  /\ UNCHANGED <<stored, phase, listed, history>>

\* The target, as of now, is the version the copy took.
Put(p, f) ==
  /\ target' = [target EXCEPT ![f] = [ver |-> job[p][f].ver, stamp |-> now]]
  /\ hollow' = hollow \ {f}

\* Mutation: a copy that was made is reported as skipped.
CopyForgotten(p, f) ==
  /\ job[p][f].at = "copying" /\ f \notin pending
  /\ Put(p, f)
  /\ Move(p, f, NoJob)
  /\ UNCHANGED <<config, now, source, pending, phase, listed, history>>

CopyEnds(p, f) ==
  /\ job[p][f].at = "copying" /\ f \notin pending
  /\ Put(p, f)
  /\ Move(p, f, [job[p][f] EXCEPT !.at = "notifying"])
  /\ UNCHANGED <<config, now, source, pending, phase, listed, history>>

\* Azure answers start_copy_from_url before it has copied.
CopyAccepted(p, f) ==
  /\ azure /\ job[p][f].at = "copying" /\ f \notin pending
  /\ Put(p, f)
  /\ pending' = pending \cup {f}
  /\ Move(p, f, [job[p][f] EXCEPT !.at = "notifying"])
  /\ UNCHANGED <<config, now, source, phase, listed, history>>

\* Mutation: a copy that failed is taken for made.
CopyFailureIgnored(p, f) ==
  /\ job[p][f].at = "copying" /\ Fault
  /\ Move(p, f, [job[p][f] EXCEPT !.at = "notifying"])
  /\ UNCHANGED <<stored, phase, listed, events, raced, excused>>

\* The copy request raises; the storage service may have done it all the same.
CopyFails(p, f) ==
  /\ job[p][f].at = "copying" /\ Fault
  /\ \/ UNCHANGED <<target, hollow, excused>>
     \/ /\ f \notin pending /\ Put(p, f)
        /\ excused' = excused \cup {<<f, job[p][f].ver>>}
  /\ Move(p, f, NoJob)
  /\ UNCHANGED <<config, now, source, pending, phase, listed, events, raced>>

\* Azure has copied the content; the time may be that of the end or the beginning.
PendingEnds(f) ==
  /\ f \in pending
  /\ pending' = pending \ {f}
  /\ \/ UNCHANGED target
     \/ target' = [target EXCEPT ![f].stamp = now]
  /\ UNCHANGED <<config, now, source, hollow, phase, listed, job, history>>

\* It fails, as it does when the source was replaced; nobody asks.
PendingFails(f) ==
  /\ f \in pending
  /\ \/ source[f].ver # target[f].ver /\ UNCHANGED faults
     \/ Fault
  /\ pending' = pending \ {f} /\ hollow' = hollow \cup {f}
  /\ UNCHANGED <<config, now, source, target, phase, listed, job, events, raced, excused>>

\* send_message puts the event into the producer's queue ...
Produce(p, f) ==
  /\ job[p][f].at = "notifying"
  /\ Move(p, f, [job[p][f] EXCEPT !.at = "sent"])
  /\ UNCHANGED <<stored, phase, listed, history>>

Announced(p, f) == events' = [events EXCEPT ![f][job[p][f].ver] = @ + 1]

Excuse(p, f) == excused' = excused \cup {<<f, job[p][f].ver>>}

\* ... and returns once the producer has delivered what it holds.
Flush(p, f) ==
  /\ job[p][f].at = "sent"
  /\ Announced(p, f)
  /\ Move(p, f, NoJob)
  /\ UNCHANGED <<stored, phase, listed, raced, excused, faults>>

\* Another thread of the pool, which had found no producer, replaces the one that
\* has the event before it is asked for again; what is flushed is the new one.
ProducerReplaced(p, f) ==
  /\ stage = "extractor" /\ job[p][f].at = "sent"
  /\ \/ Announced(p, f) /\ UNCHANGED excused
     \/ Excuse(p, f) /\ UNCHANGED events
  /\ Move(p, f, [job[p][f] EXCEPT !.at = "waiting"])
  /\ UNCHANGED <<stored, phase, listed, raced, faults>>

\* The new producer has delivered the events of others.
FlushOfOthers(p, f) ==
  /\ job[p][f].at = "waiting"
  /\ Move(p, f, NoJob)
  /\ UNCHANGED <<stored, phase, listed, history>>

\* send_message raises, or the delivery fails: either is logged.
NotifyFails(p, f) ==
  /\ job[p][f].at \in {"notifying", "sent"} /\ Fault
  /\ Excuse(p, f)
  /\ Move(p, f, NoJob)
  /\ UNCHANGED <<stored, phase, listed, events, raced>>

Finish(p) ==
  /\ phase[p] = "working" /\ At(p, "none") = Files
  /\ phase' = [phase EXCEPT ![p] = "idle"]
  /\ UNCHANGED <<stored, listed, job, history>>

\* The process dies.  Copies it had asked for may still be made.
Crash(p) ==
  /\ phase[p] # "idle" /\ Fault
  /\ \E made \in SUBSET (At(p, "copying") \ pending) :
       /\ target' = [f \in Files |-> IF f \in made THEN [ver |-> job[p][f].ver, stamp |-> now]
                                                  ELSE target[f]]
       /\ hollow' = hollow \ made
       /\ excused' = excused \cup
            {<<f, job[p][f].ver>> : f \in made \cup At(p, "notifying") \cup At(p, "sent")}
  /\ Queue(p, {})
  /\ phase' = [phase EXCEPT ![p] = "idle"]
  /\ UNCHANGED <<config, now, source, pending, listed, events, raced>>
-----------------------------------------------------------------------------
List(p) == ListAll(p) \/ ListSource(p) \/ ListTarget(p) \/ ListFails(p)

\* What a process does of itself and the storage service answers.
Handle(p, f) ==
  \/ LookAtSource(p, f) \/ LookAtTarget(p, f)
  \/ CopyBegins(p, f) \/ CopyRefused(p, f) \/ CopyEnds(p, f) \/ CopyAccepted(p, f)
  \/ Produce(p, f)

\* What the broker answers or another thread does.
Deliver(p, f) == Flush(p, f) \/ ProducerReplaced(p, f) \/ FlushOfOthers(p, f)

Fail(p, f) == LookupFails(p, f) \/ CopyFails(p, f) \/ NotifyFails(p, f)

Next ==
  \/ Tick
  \/ \E f \in Files : Upload(f) \/ PendingEnds(f) \/ PendingFails(f)
  \/ \E p \in Procs : \/ List(p) \/ Finish(p) \/ Crash(p)
                      \/ \E f \in Files : Handle(p, f) \/ Deliver(p, f) \/ Fail(p, f)

Spec == Init /\ [][Next]_vars

\* The scheduler starts a cycle again and again, a cycle goes on, and Azure ends
\* its copies one way or the other.  The broker need not answer a flush.
FairSpec ==
  /\ Spec
  /\ \A f \in Files : WF_vars(PendingEnds(f) \/ PendingFails(f))
  /\ \A p \in Procs : /\ WF_vars(List(p)) /\ WF_vars(Finish(p))
                      /\ \A f \in Files : WF_vars(Handle(p, f))
-----------------------------------------------------------------------------
(* Properties.                                                             *)

TypeOK ==
  /\ stage \in {"adaptor", "extractor"} /\ azure \in BOOLEAN
  /\ now \in 0..MaxTime
  /\ pending \subseteq Files /\ hollow \subseteq Files /\ pending \cap hollow = {}
  /\ source \in [Files -> Objects] /\ target \in [Files -> Objects]
  /\ phase \in [Procs -> {"idle", "listing", "working"}]
  /\ listed \in [Procs -> [Files -> Objects]]
  /\ job \in [Procs -> [Files -> [at : Stages, stamp : 0..MaxTime, ver : 0..MaxUploads]]]
  /\ events \in [Files -> [Versions -> Nat]]
  /\ raced \subseteq Files /\ excused \subseteq Files \X Versions
  /\ faults \in Nat

\* The gate compares times, not contents.  A target that passes for up to date
\* does have the latest version, unless an upload fell into a copy of the file
\* or into the second of its last copy; no order of two processes, no failed
\* call and no crash adds to that.
StaleOnlyIfRaced ==
  \A f \in Files :
    source[f].ver > 0 /\ ~Newer(source[f].stamp, target[f]) /\ f \notin raced
      => target[f].ver = source[f].ver

\* A version in the target container was announced, or a process is about to,
\* or a crash, a failed call or, in the extractor alone, a replaced producer was in
\* the way: the next cycle finds the target up to date and will not make up for it.
UnannouncedOnlyIfLost ==
  \A f \in Files : target[f].ver > 0 =>
    \/ events[f][target[f].ver] > 0
    \/ <<f, target[f].ver>> \in excused /\ (faults > 0 \/ stage = "extractor")
    \/ \E p \in Procs : /\ job[p][f].at \in {"notifying", "sent"}
                        /\ job[p][f].ver = target[f].ver

\* However often the cycles and the pool meet the same file, each process
\* announces a version once; only a lookup that failed makes it do so again.
OneEventPerProcess ==
  \A f \in Files, v \in Versions : events[f][v] <= Cardinality(Procs) + faults

\* A version that was announced is in the target container, or a later one is,
\* unless an upload raced a copy; with its content, but for Azure, whose copy may
\* still be under way or have failed behind the event.
AnnouncedIsThere ==
  \A f \in Files, v \in Versions : events[f][v] > 0 =>
    /\ f \in raced \/ target[f].ver >= v
    /\ azure \/ f \notin pending \cup hollow

\* A process waits for the broker.
InFlush(p) == \E f \in Files : job[p][f].at \in {"sent", "waiting"}

\* An upload that did not race a copy reaches the target container, with its
\* content unless Azure failed to copy it; only a flush that never returns, in
\* every process there is, keeps it away.
UploadArrives ==
  \A f \in Files :
    source[f].ver # target[f].ver \/ f \in pending
      ~> \/ (source[f].ver = target[f].ver /\ f \notin pending)
         \/ f \in raced \cup hollow
         \/ [](\A p \in Procs : InFlush(p))
=============================================================================
