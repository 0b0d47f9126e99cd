-------------------------- MODULE FilePipeline_proofs --------------------------
(***************************************************************************)
(* Proofs about FilePipeline, for any number of processes, files, versions *)
(* and failures: what the timestamp gate misses, what is announced, and    *)
(* how often.                                                              *)
(***************************************************************************)
EXTENDS FilePipeline, FiniteSetTheorems, TLAPS

\* The source's latest version passes for copied.
UpToDate(f) == ~Newer(source[f].stamp, target[f])

\* Times are past ones, and the target never has a later version than the source.
ObjectsOK ==
  \A f \in Files :
    /\ source[f].stamp <= now /\ target[f].stamp <= now
    /\ target[f].ver <= source[f].ver
    /\ f \in pending /\ f \notin raced => target[f].ver = source[f].ver

\* A job is about a file that was there, asks for no later version than there is,
\* and for the latest one while it copies, unless it is raced; what it announces has
\* reached the target.
JobsOK ==
  \A p \in Procs, f \in Files :
    /\ listed[p][f].ver <= source[f].ver
    /\ job[p][f].at # "none" => source[f].ver > 0
    /\ job[p][f].at = "compared" => job[p][f].stamp <= source[f].stamp
    /\ job[p][f].at \in {"copying", "notifying", "sent"} =>
         job[p][f].ver > 0 /\ job[p][f].ver <= source[f].ver
    /\ job[p][f].at = "copying" /\ f \notin raced => job[p][f].ver = source[f].ver
    /\ job[p][f].at \in {"notifying", "sent"} =>
         /\ f \notin raced => job[p][f].ver <= target[f].ver
         /\ job[p][f].ver = source[f].ver => UpToDate(f)

\* Only a process at work has jobs.
IdleOK == \A p \in Procs, f \in Files : phase[p] # "working" => job[p][f].at = "none"

\* What was announced was uploaded and, if it is the latest version, passes for copied.
EventsOK ==
  \A f \in Files, v \in Versions : events[f][v] > 0 =>
    /\ v <= source[f].ver
    /\ v = source[f].ver => UpToDate(f)

\* Processes that may still announce version v of f: they copy or have copied it, or
\* are about to copy whatever is there while it is the latest.
MayAnnounce(f, v) ==
  {p \in Procs : \/ job[p][f].at \in {"copying", "notifying", "sent"} /\ job[p][f].ver = v
                 \/ job[p][f].at = "decided" /\ source[f].ver = v}

\* Only a failed lookup lets a process through the gate once more.
CountOK ==
  \A f \in Files, v \in Versions :
    events[f][v] + Cardinality(MayAnnounce(f, v)) <= Cardinality(Procs) + faults

\* What was announced is there, or a later version is, unless it was raced.
Arrived ==
  \A f \in Files, v \in Versions : events[f][v] > 0 => f \in raced \/ target[f].ver >= v

\* Only Azure copies behind its answer.
AzureOK == azure \/ (pending = {} /\ hollow = {})

IInv ==
  /\ TypeOK /\ ObjectsOK /\ JobsOK /\ IdleOK /\ EventsOK /\ CountOK /\ AzureOK
  /\ StaleOnlyIfRaced /\ UnannouncedOnlyIfLost /\ Arrived
-----------------------------------------------------------------------------

(* What a process is doing about a file. *)
Jobs == [at : Stages, stamp : 0..MaxTime, ver : 0..MaxUploads]

(* The numbers the proofs compare. *)
Numbers ==
  /\ now \in 0..MaxTime /\ now \in Nat /\ faults \in Nat
  /\ \A f \in Files : /\ source[f].ver \in Nat /\ source[f].stamp \in Nat
                      /\ target[f].ver \in Nat /\ target[f].stamp \in Nat
                      /\ source[f].ver \in 0..MaxUploads /\ source[f].stamp \in 0..MaxTime
                      /\ target[f].ver \in 0..MaxUploads
  /\ \A f \in Files, v \in Versions : events[f][v] \in Nat /\ v \in Nat /\ v > 0
  /\ \A p \in Procs, f \in Files :
       /\ job[p][f].ver \in Nat /\ job[p][f].stamp \in Nat /\ listed[p][f].ver \in Nat
       /\ job[p][f].ver \in 0..MaxUploads

(* They follow from the types. *)
LEMMA NumbersOK == TypeOK => Numbers
<1> SUFFICES ASSUME TypeOK PROVE Numbers
  OBVIOUS
<1> USE FilePipelineAssumption DEF FilePipelineAssumption
<1>1. now \in 0..MaxTime /\ now \in Nat /\ faults \in Nat
  BY DEF TypeOK
<1>2. ASSUME NEW f \in Files
      PROVE  /\ source[f].ver \in Nat /\ source[f].stamp \in Nat
             /\ target[f].ver \in Nat /\ target[f].stamp \in Nat
             /\ source[f].ver \in 0..MaxUploads /\ source[f].stamp \in 0..MaxTime
             /\ target[f].ver \in 0..MaxUploads
  <2>1. source[f] \in Objects /\ target[f] \in Objects
    BY DEF TypeOK
  <2> QED
    BY <2>1 DEF Objects
<1>3. ASSUME NEW f \in Files, NEW v \in Versions
      PROVE  events[f][v] \in Nat /\ v \in Nat /\ v > 0
  <2>1. events \in [Files -> [Versions -> Nat]]
    BY DEF TypeOK
  <2>2. events[f] \in [Versions -> Nat]
    BY <2>1
  <2>3. v \in Nat /\ v > 0
    BY DEF Versions
  <2> QED
    BY <2>2, <2>3
<1>4. ASSUME NEW p \in Procs, NEW f \in Files
      PROVE  /\ job[p][f].ver \in Nat /\ job[p][f].stamp \in Nat /\ listed[p][f].ver \in Nat
             /\ job[p][f].ver \in 0..MaxUploads
  <2>1. job \in [Procs -> [Files -> Jobs]] /\ listed \in [Procs -> [Files -> Objects]]
    BY DEF TypeOK, Jobs
  <2>2. job[p] \in [Files -> Jobs] /\ listed[p] \in [Files -> Objects]
    BY <2>1
  <2>3. job[p][f] \in Jobs /\ listed[p][f] \in Objects
    BY <2>2
  <2> QED
    BY <2>3 DEF Jobs, Objects
<1> QED
  BY <1>1, <1>2, <1>3, <1>4 DEF Numbers

(* What a process does with a file is one of the jobs there are. *)
LEMMA JobType ==
  TypeOK => /\ job \in [Procs -> [Files -> Jobs]]
            /\ \A p \in Procs, f \in Files : job[p][f] \in Jobs
<1> SUFFICES ASSUME TypeOK
             PROVE  /\ job \in [Procs -> [Files -> Jobs]]
                    /\ \A p \in Procs, f \in Files : job[p][f] \in Jobs
  OBVIOUS
<1>1. job \in [Procs -> [Files -> Jobs]]
  BY DEF TypeOK, Jobs
<1> QED
  BY <1>1

(* A job moves on, and no other one does. *)
LEMMA Moves ==
  ASSUME TypeOK, NEW p \in Procs, NEW f \in Files, NEW j \in Jobs, Move(p, f, j)
  PROVE  /\ job'[p][f] = j
         /\ \A q \in Procs, g \in Files : q # p \/ g # f => job'[q][g] = job[q][g]
         /\ job' \in [Procs -> [Files -> Jobs]]
<1>1. job \in [Procs -> [Files -> Jobs]]
  BY JobType
<1>2. job[p] \in [Files -> Jobs]
  BY <1>1
<1>3. job' = [job EXCEPT ![p] = [job[p] EXCEPT ![f] = j]]
  BY <1>1, <1>2 DEF Move
<1>4. [job[p] EXCEPT ![f] = j] \in [Files -> Jobs]
  BY <1>2
<1>5. job' \in [Procs -> [Files -> Jobs]]
  BY <1>1, <1>3, <1>4
<1>6. job'[p] = [job[p] EXCEPT ![f] = j]
  BY <1>1, <1>3
<1>7. \A q \in Procs : q # p => job'[q] = job[q]
  BY <1>1, <1>3
<1>8. job'[p][f] = j /\ \A g \in Files : g # f => job'[p][g] = job[p][g]
  BY <1>2, <1>6
<1> QED
  BY <1>5, <1>7, <1>8

(* A cycle begins with jobs that are queued or none. *)
LEMMA Queues ==
  ASSUME TypeOK, NEW p \in Procs, NEW fs, Queue(p, fs)
  PROVE  /\ \A f \in Files : job'[p][f].at = IF f \in fs THEN "queued" ELSE "none"
         /\ \A q \in Procs, g \in Files : q # p => job'[q][g] = job[q][g]
         /\ job' \in [Procs -> [Files -> Jobs]]
<1> DEFINE new == [f \in Files |-> IF f \in fs THEN [NoJob EXCEPT !.at = "queued"] ELSE NoJob]
<1>1. job \in [Procs -> [Files -> Jobs]]
  BY JobType
<1>2. NoJob \in Jobs /\ [NoJob EXCEPT !.at = "queued"] \in Jobs
  BY FilePipelineAssumption DEF FilePipelineAssumption, NoJob, Jobs, Stages
<1>3. new \in [Files -> Jobs]
  BY <1>2
<1>4. \A f \in Files : new[f].at = IF f \in fs THEN "queued" ELSE "none"
  BY DEF NoJob
<1>5. job' = [job EXCEPT ![p] = new]
  BY DEF Queue
<1> HIDE DEF new
<1>6. job' \in [Procs -> [Files -> Jobs]] /\ job'[p] = new
      /\ \A q \in Procs : q # p => job'[q] = job[q]
  BY <1>1, <1>3, <1>5
<1> QED
  BY <1>4, <1>6

(* A job that only changes its stage. *)
LEMMA Restaged ==
  ASSUME TypeOK, NEW p \in Procs, NEW f \in Files, NEW x \in Stages
  PROVE  LET b == [job[p][f] EXCEPT !.at = x]
         IN  b \in Jobs /\ b.at = x /\ b.stamp = job[p][f].stamp /\ b.ver = job[p][f].ver
<1> DEFINE stamp == 0..MaxTime
           ver == 0..MaxUploads
<1>1. job[p][f] \in [at : Stages, stamp : stamp, ver : ver]
  BY JobType DEF Jobs
<1> HIDE DEF stamp, ver
<1>2. LET b == [job[p][f] EXCEPT !.at = x]
      IN  /\ b \in [at : Stages, stamp : stamp, ver : ver]
          /\ b.at = x /\ b.stamp = job[p][f].stamp /\ b.ver = job[p][f].ver
  BY <1>1
<1> QED
  BY <1>2 DEF Jobs, stamp, ver

(* The target becomes what the copy took. *)
LEMMA Puts ==
  ASSUME TypeOK, NEW p \in Procs, NEW f \in Files, Put(p, f)
  PROVE  /\ target'[f].ver = job[p][f].ver /\ target'[f].stamp = now
         /\ \A g \in Files : g # f => target'[g] = target[g]
         /\ target' \in [Files -> Objects]
         /\ hollow' = hollow \ {f}
<1> DEFINE new == [ver |-> job[p][f].ver, stamp |-> now]
<1>1. job[p][f] \in Jobs /\ target \in [Files -> Objects] /\ now \in 0..MaxTime
  BY JobType DEF TypeOK
<1>2. new \in Objects /\ new.ver = job[p][f].ver /\ new.stamp = now
  BY <1>1 DEF Jobs, Objects
<1>3. target' = [target EXCEPT ![f] = new] /\ hollow' = hollow \ {f}
  BY DEF Put
<1> HIDE DEF new
<1> QED
  BY <1>1, <1>2, <1>3

(* What the actions put into a job is one. *)
LEMMA NewJobs ==
  TypeOK =>
    /\ NoJob \in Jobs
    /\ \A f \in Files : /\ [at |-> "compared", stamp |-> source[f].stamp, ver |-> 0] \in Jobs
                        /\ [at |-> "copying", stamp |-> 0, ver |-> source[f].ver] \in Jobs
<1> SUFFICES ASSUME TypeOK
             PROVE  /\ NoJob \in Jobs
                    /\ \A f \in Files :
                         /\ [at |-> "compared", stamp |-> source[f].stamp, ver |-> 0] \in Jobs
                         /\ [at |-> "copying", stamp |-> 0, ver |-> source[f].ver] \in Jobs
  OBVIOUS
<1>1. 0 \in 0..MaxUploads /\ 0 \in 0..MaxTime
  BY FilePipelineAssumption DEF FilePipelineAssumption
<1>2. \A f \in Files : source[f].stamp \in 0..MaxTime /\ source[f].ver \in 0..MaxUploads
  BY NumbersOK DEF Numbers
<1> HIDE DEF TypeOK
<1> QED
  BY <1>1, <1>2 DEF Jobs, NoJob, Stages

(* The source's time is remembered. *)
LEMMA LookAtSourceDoes ==
  ASSUME TypeOK, NEW p \in Procs, NEW f \in Files, LookAtSource(p, f)
  PROVE  /\ \A q \in Procs, g \in Files : q # p \/ g # f => job'[q][g] = job[q][g]
         /\ job' \in [Procs -> [Files -> Jobs]]
         /\ job'[p][f].at = "compared" /\ job'[p][f].stamp = source[f].stamp
<1>1. PICK j \in Jobs : Move(p, f, j)
                          /\ j.at = "compared" /\ j.stamp = source[f].stamp
  BY NewJobs DEF LookAtSource
<1>2. /\ job'[p][f] = j
      /\ \A q \in Procs, g \in Files : q # p \/ g # f => job'[q][g] = job[q][g]
      /\ job' \in [Procs -> [Files -> Jobs]]
  BY <1>1, Moves
<1> QED
  BY <1>1, <1>2

(* A file that is not newer is left alone. *)
LEMMA LookAtTargetDoes ==
  ASSUME TypeOK, NEW p \in Procs, NEW f \in Files, LookAtTarget(p, f)
  PROVE  /\ \A q \in Procs, g \in Files : q # p \/ g # f => job'[q][g] = job[q][g]
         /\ job' \in [Procs -> [Files -> Jobs]]
         /\ (job'[p][f].at = "none" \/ (job'[p][f].at = "decided" /\ Newer(job[p][f].stamp, target[f])))
<1>1. PICK j \in Jobs : Move(p, f, j)
                          /\ (j.at = "none" \/ (j.at = "decided" /\ Newer(job[p][f].stamp, target[f])))
  <2>1. CASE Newer(job[p][f].stamp, target[f])
    <3>1. /\ [job[p][f] EXCEPT !.at = "decided"] \in Jobs
          /\ [job[p][f] EXCEPT !.at = "decided"].at = "decided"
      BY Restaged DEF Stages
    <3> QED
      BY <2>1, <3>1 DEF LookAtTarget
  <2>2. CASE ~Newer(job[p][f].stamp, target[f])
    BY <2>2, NewJobs DEF LookAtTarget, NoJob
  <2> QED
    BY <2>1, <2>2
<1>2. /\ job'[p][f] = j
      /\ \A q \in Procs, g \in Files : q # p \/ g # f => job'[q][g] = job[q][g]
      /\ job' \in [Procs -> [Files -> Jobs]]
  BY <1>1, Moves
<1> QED
  BY <1>1, <1>2

(* A file that could not be looked up is left alone, or copied. *)
LEMMA LookupFailsDoes ==
  ASSUME TypeOK, NEW p \in Procs, NEW f \in Files, LookupFails(p, f)
  PROVE  /\ \A q \in Procs, g \in Files : q # p \/ g # f => job'[q][g] = job[q][g]
         /\ job' \in [Procs -> [Files -> Jobs]]
         /\ (job'[p][f].at = "none" \/ job'[p][f].at = "decided")
<1>1. PICK j \in Jobs : Move(p, f, j)
                          /\ (j.at = "none" \/ j.at = "decided")
  <2>1. CASE Move(p, f, NoJob)
    BY <2>1, NewJobs DEF NoJob
  <2>2. CASE Move(p, f, [job[p][f] EXCEPT !.at = "decided"])
    <3>1. /\ [job[p][f] EXCEPT !.at = "decided"] \in Jobs
          /\ [job[p][f] EXCEPT !.at = "decided"].at = "decided"
      BY Restaged DEF Stages
    <3> QED
      BY <2>2, <3>1
  <2> QED
    BY <2>1, <2>2 DEF LookupFails
<1>2. /\ job'[p][f] = j
      /\ \A q \in Procs, g \in Files : q # p \/ g # f => job'[q][g] = job[q][g]
      /\ job' \in [Procs -> [Files -> Jobs]]
  BY <1>1, Moves
<1> QED
  BY <1>1, <1>2

(* The copy takes the version there is. *)
LEMMA CopyBeginsDoes ==
  ASSUME TypeOK, NEW p \in Procs, NEW f \in Files, CopyBegins(p, f)
  PROVE  /\ \A q \in Procs, g \in Files : q # p \/ g # f => job'[q][g] = job[q][g]
         /\ job' \in [Procs -> [Files -> Jobs]]
         /\ job'[p][f].at = "copying" /\ job'[p][f].ver = source[f].ver
<1>1. PICK j \in Jobs : Move(p, f, j)
                          /\ j.at = "copying" /\ j.ver = source[f].ver
  BY NewJobs DEF CopyBegins
<1>2. /\ job'[p][f] = j
      /\ \A q \in Procs, g \in Files : q # p \/ g # f => job'[q][g] = job[q][g]
      /\ job' \in [Procs -> [Files -> Jobs]]
  BY <1>1, Moves
<1> QED
  BY <1>1, <1>2

(* A refused copy is dropped. *)
LEMMA CopyRefusedDoes ==
  ASSUME TypeOK, NEW p \in Procs, NEW f \in Files, CopyRefused(p, f)
  PROVE  /\ \A q \in Procs, g \in Files : q # p \/ g # f => job'[q][g] = job[q][g]
         /\ job' \in [Procs -> [Files -> Jobs]]
         /\ job'[p][f].at = "none"
<1>1. PICK j \in Jobs : Move(p, f, j)
                          /\ j.at = "none"
  BY NewJobs DEF CopyRefused, NoJob
<1>2. /\ job'[p][f] = j
      /\ \A q \in Procs, g \in Files : q # p \/ g # f => job'[q][g] = job[q][g]
      /\ job' \in [Procs -> [Files -> Jobs]]
  BY <1>1, Moves
<1> QED
  BY <1>1, <1>2

(* A failed copy is dropped. *)
LEMMA CopyFailsDoes ==
  ASSUME TypeOK, NEW p \in Procs, NEW f \in Files, CopyFails(p, f)
  PROVE  /\ \A q \in Procs, g \in Files : q # p \/ g # f => job'[q][g] = job[q][g]
         /\ job' \in [Procs -> [Files -> Jobs]]
         /\ job'[p][f].at = "none"
<1>1. PICK j \in Jobs : Move(p, f, j)
                          /\ j.at = "none"
  BY NewJobs DEF CopyFails, NoJob
<1>2. /\ job'[p][f] = j
      /\ \A q \in Procs, g \in Files : q # p \/ g # f => job'[q][g] = job[q][g]
      /\ job' \in [Procs -> [Files -> Jobs]]
  BY <1>1, Moves
<1> QED
  BY <1>1, <1>2

(* An event in the queue is about the same copy. *)
LEMMA ProduceDoes ==
  ASSUME TypeOK, NEW p \in Procs, NEW f \in Files, Produce(p, f)
  PROVE  /\ \A q \in Procs, g \in Files : q # p \/ g # f => job'[q][g] = job[q][g]
         /\ job' \in [Procs -> [Files -> Jobs]]
         /\ job'[p][f].at = "sent" /\ job'[p][f].ver = job[p][f].ver
<1>1. PICK j \in Jobs : Move(p, f, j)
                          /\ j.at = "sent" /\ j.ver = job[p][f].ver
  <2>1. LET b == [job[p][f] EXCEPT !.at = "sent"]
        IN  b \in Jobs /\ b.at = "sent" /\ b.ver = job[p][f].ver
    BY Restaged DEF Stages
  <2> QED
    BY <2>1 DEF Produce
<1>2. /\ job'[p][f] = j
      /\ \A q \in Procs, g \in Files : q # p \/ g # f => job'[q][g] = job[q][g]
      /\ job' \in [Procs -> [Files -> Jobs]]
  BY <1>1, Moves
<1> QED
  BY <1>1, <1>2

(* A file that was announced is done with. *)
LEMMA FlushDoes ==
  ASSUME TypeOK, NEW p \in Procs, NEW f \in Files, Flush(p, f)
  PROVE  /\ \A q \in Procs, g \in Files : q # p \/ g # f => job'[q][g] = job[q][g]
         /\ job' \in [Procs -> [Files -> Jobs]]
         /\ job'[p][f].at = "none"
<1>1. PICK j \in Jobs : Move(p, f, j)
                          /\ j.at = "none"
  BY NewJobs DEF Flush, NoJob
<1>2. /\ job'[p][f] = j
      /\ \A q \in Procs, g \in Files : q # p \/ g # f => job'[q][g] = job[q][g]
      /\ job' \in [Procs -> [Files -> Jobs]]
  BY <1>1, Moves
<1> QED
  BY <1>1, <1>2

(* Behind a producer of others there is nothing more to announce. *)
LEMMA ProducerReplacedDoes ==
  ASSUME TypeOK, NEW p \in Procs, NEW f \in Files, ProducerReplaced(p, f)
  PROVE  /\ \A q \in Procs, g \in Files : q # p \/ g # f => job'[q][g] = job[q][g]
         /\ job' \in [Procs -> [Files -> Jobs]]
         /\ job'[p][f].at = "waiting"
<1>1. PICK j \in Jobs : Move(p, f, j)
                          /\ j.at = "waiting" /\ j.ver = job[p][f].ver
  <2>1. LET b == [job[p][f] EXCEPT !.at = "waiting"]
        IN  b \in Jobs /\ b.at = "waiting" /\ b.ver = job[p][f].ver
    BY Restaged DEF Stages
  <2> QED
    BY <2>1 DEF ProducerReplaced
<1>2. /\ job'[p][f] = j
      /\ \A q \in Procs, g \in Files : q # p \/ g # f => job'[q][g] = job[q][g]
      /\ job' \in [Procs -> [Files -> Jobs]]
  BY <1>1, Moves
<1> QED
  BY <1>1, <1>2

(* A file is done with when the events of others are delivered. *)
LEMMA FlushOfOthersDoes ==
  ASSUME TypeOK, NEW p \in Procs, NEW f \in Files, FlushOfOthers(p, f)
  PROVE  /\ \A q \in Procs, g \in Files : q # p \/ g # f => job'[q][g] = job[q][g]
         /\ job' \in [Procs -> [Files -> Jobs]]
         /\ job'[p][f].at = "none"
<1>1. PICK j \in Jobs : Move(p, f, j)
                          /\ j.at = "none"
  BY NewJobs DEF FlushOfOthers, NoJob
<1>2. /\ job'[p][f] = j
      /\ \A q \in Procs, g \in Files : q # p \/ g # f => job'[q][g] = job[q][g]
      /\ job' \in [Procs -> [Files -> Jobs]]
  BY <1>1, Moves
<1> QED
  BY <1>1, <1>2

(* A file that could not be announced is done with. *)
LEMMA NotifyFailsDoes ==
  ASSUME TypeOK, NEW p \in Procs, NEW f \in Files, NotifyFails(p, f)
  PROVE  /\ \A q \in Procs, g \in Files : q # p \/ g # f => job'[q][g] = job[q][g]
         /\ job' \in [Procs -> [Files -> Jobs]]
         /\ job'[p][f].at = "none"
<1>1. PICK j \in Jobs : Move(p, f, j)
                          /\ j.at = "none"
  BY NewJobs DEF NotifyFails, NoJob
<1>2. /\ job'[p][f] = j
      /\ \A q \in Procs, g \in Files : q # p \/ g # f => job'[q][g] = job[q][g]
      /\ job' \in [Procs -> [Files -> Jobs]]
  BY <1>1, Moves
<1> QED
  BY <1>1, <1>2

(* What was copied is to be announced. *)
LEMMA CopyEndsDoes ==
  ASSUME TypeOK, NEW p \in Procs, NEW f \in Files, CopyEnds(p, f)
  PROVE  /\ \A q \in Procs, g \in Files : q # p \/ g # f => job'[q][g] = job[q][g]
         /\ job' \in [Procs -> [Files -> Jobs]]
         /\ job'[p][f].at = "notifying" /\ job'[p][f].ver = job[p][f].ver
<1>1. PICK j \in Jobs : Move(p, f, j)
                          /\ j.at = "notifying" /\ j.ver = job[p][f].ver
  <2>1. LET b == [job[p][f] EXCEPT !.at = "notifying"]
        IN  b \in Jobs /\ b.at = "notifying" /\ b.ver = job[p][f].ver
    BY Restaged DEF Stages
  <2> QED
    BY <2>1 DEF CopyEnds
<1>2. /\ job'[p][f] = j
      /\ \A q \in Procs, g \in Files : q # p \/ g # f => job'[q][g] = job[q][g]
      /\ job' \in [Procs -> [Files -> Jobs]]
  BY <1>1, Moves
<1> QED
  BY <1>1, <1>2

(* What Azure has begun to copy is to be announced. *)
LEMMA CopyAcceptedDoes ==
  ASSUME TypeOK, NEW p \in Procs, NEW f \in Files, CopyAccepted(p, f)
  PROVE  /\ \A q \in Procs, g \in Files : q # p \/ g # f => job'[q][g] = job[q][g]
         /\ job' \in [Procs -> [Files -> Jobs]]
         /\ job'[p][f].at = "notifying" /\ job'[p][f].ver = job[p][f].ver
<1>1. PICK j \in Jobs : Move(p, f, j)
                          /\ j.at = "notifying" /\ j.ver = job[p][f].ver
  <2>1. LET b == [job[p][f] EXCEPT !.at = "notifying"]
        IN  b \in Jobs /\ b.at = "notifying" /\ b.ver = job[p][f].ver
    BY Restaged DEF Stages
  <2> QED
    BY <2>1 DEF CopyAccepted
<1>2. /\ job'[p][f] = j
      /\ \A q \in Procs, g \in Files : q # p \/ g # f => job'[q][g] = job[q][g]
      /\ job' \in [Procs -> [Files -> Jobs]]
  BY <1>1, Moves
<1> QED
  BY <1>1, <1>2

(* What is announced or excused is a version. *)
LEMMA JobVersion ==
  ASSUME Numbers, JobsOK, NEW p \in Procs, NEW f \in Files,
         job[p][f].at \in {"copying", "notifying", "sent"}
  PROVE  job[p][f].ver \in Versions
<1>1. job[p][f].ver > 0 /\ job[p][f].ver \in 0..MaxUploads
  BY DEF JobsOK, Numbers
<1> QED
  BY <1>1 DEF Versions

(* An announcement is counted. *)
LEMMA Announces ==
  ASSUME TypeOK, NEW p \in Procs, NEW f \in Files, job[p][f].ver \in Versions, Announced(p, f)
  PROVE  \A g \in Files, v \in Versions :
           events'[g][v] = IF g = f /\ v = job[p][f].ver THEN events[g][v] + 1 ELSE events[g][v]
<1>1. events \in [Files -> [Versions -> Nat]] /\ events[f] \in [Versions -> Nat]
  BY DEF TypeOK
<1>2. events' = [events EXCEPT ![f] = [events[f] EXCEPT ![job[p][f].ver] = @ + 1]]
  BY DEF Announced
<1>3. /\ events'[f] = [events[f] EXCEPT ![job[p][f].ver] = @ + 1]
      /\ \A g \in Files : g # f => events'[g] = events[g]
  BY <1>1, <1>2
<1>4. \A v \in Versions :
        events'[f][v] = IF v = job[p][f].ver THEN events[f][v] + 1 ELSE events[f][v]
  BY <1>1, <1>3
<1> QED
  BY <1>3, <1>4

(* The announcements stay numbers, *)
LEMMA AnnouncedType ==
  ASSUME TypeOK, NEW p \in Procs, NEW f \in Files, job[p][f].ver \in Versions, Announced(p, f)
  PROVE  events' \in [Files -> [Versions -> Nat]]
<1>1. events \in [Files -> [Versions -> Nat]] /\ events[f] \in [Versions -> Nat]
  BY DEF TypeOK
<1>2. [events[f] EXCEPT ![job[p][f].ver] = @ + 1] \in [Versions -> Nat]
  BY <1>1
<1>3. events' = [events EXCEPT ![f] = [events[f] EXCEPT ![job[p][f].ver] = @ + 1]]
  BY DEF Announced
<1> QED
  BY <1>1, <1>2, <1>3

(* and the excuses versions. *)
LEMMA ExcuseType ==
  ASSUME TypeOK, NEW p \in Procs, NEW f \in Files, job[p][f].ver \in Versions, Excuse(p, f)
  PROVE  excused' \subseteq Files \X Versions
BY DEF TypeOK, Excuse

(* Type correctness: what is announced is a version. *)
LEMMA TypeStep == TypeOK /\ Numbers /\ JobsOK /\ [Next]_vars => TypeOK'
<1> SUFFICES ASSUME TypeOK, Numbers, JobsOK, [Next]_vars PROVE TypeOK'
  OBVIOUS
<1> USE FilePipelineAssumption DEF vars, stored, config, history, TypeOK, Jobs
<1>1. CASE Tick
  BY <1>1 DEF Tick
<1>2. ASSUME NEW f \in Files, Upload(f) PROVE TypeOK'
  <2>1. source[f].ver + 1 \in 0..MaxUploads /\ now \in 0..MaxTime
    BY <1>2 DEF Upload, Numbers
  <2> DEFINE new == [ver |-> source[f].ver + 1, stamp |-> now]
  <2>2. new \in Objects
    BY <2>1 DEF Objects
  <2>3. source' = [source EXCEPT ![f] = new]
    BY <1>2 DEF Upload
  <2> HIDE DEF new
  <2>4. source' \in [Files -> Objects]
    BY <2>2, <2>3
  <2>5. raced' \subseteq Files
    BY <1>2 DEF Upload
  <2> QED
    BY <1>2, <2>4, <2>5 DEF Upload
<1>3. ASSUME NEW f \in Files, PendingEnds(f) PROVE TypeOK'
  <2>1. target' \in [Files -> Objects]
    <3>1. CASE UNCHANGED target
      BY <3>1
    <3>2. CASE target' = [target EXCEPT ![f].stamp = now]
      <4>1. [target[f] EXCEPT !.stamp = now] \in Objects
        <5>1. target[f] \in Objects /\ now \in 0..MaxTime
          OBVIOUS
        <5> QED
          BY <5>1 DEF Objects
      <4> QED
        BY <3>2, <4>1
    <3> QED
      BY <1>3, <3>1, <3>2 DEF PendingEnds
  <2> QED
    BY <1>3, <2>1 DEF PendingEnds
<1>4. ASSUME NEW f \in Files, PendingFails(f) PROVE TypeOK'
  BY <1>4 DEF PendingFails, Fault
<1>5. ASSUME NEW p \in Procs, ListAll(p) PROVE TypeOK'
  <2>1. job' \in [Procs -> [Files -> Jobs]]
    BY <1>5, Queues DEF ListAll
  <2> QED
    BY <1>5, <2>1 DEF ListAll
<1>6. ASSUME NEW p \in Procs, ListSource(p) PROVE TypeOK'
  <2>1. listed' \in [Procs -> [Files -> Objects]] /\ phase' \in [Procs -> {"idle", "listing", "working"}]
    BY <1>6 DEF ListSource
  <2> QED
    BY <1>6, <2>1 DEF ListSource
<1>7. ASSUME NEW p \in Procs, ListTarget(p) PROVE TypeOK'
  <2>1. job' \in [Procs -> [Files -> Jobs]]
    BY <1>7, Queues DEF ListTarget
  <2> QED
    BY <1>7, <2>1 DEF ListTarget
<1>8. ASSUME NEW p \in Procs, ListFails(p) PROVE TypeOK'
  BY <1>8 DEF ListFails, Fault
<1>9. ASSUME NEW p \in Procs, Finish(p) PROVE TypeOK'
  BY <1>9 DEF Finish
<1>10. ASSUME NEW p \in Procs, Crash(p) PROVE TypeOK'
  <2> PICK made \in SUBSET (At(p, "copying") \ pending) :
         /\ target' = [f \in Files |-> IF f \in made THEN [ver |-> job[p][f].ver, stamp |-> now]
                                                    ELSE target[f]]
         /\ hollow' = hollow \ made
         /\ excused' = excused \cup {<<f, job[p][f].ver>> : f \in made \cup At(p, "notifying") \cup At(p, "sent")}
    BY <1>10 DEF Crash
  <2>1. job' \in [Procs -> [Files -> Jobs]] /\ faults' \in Nat
    BY <1>10, Queues DEF Crash, Fault
  <2>2. target' \in [Files -> Objects]
    <3>1. ASSUME NEW f \in Files PROVE [ver |-> job[p][f].ver, stamp |-> now] \in Objects
      <4>1. job[p][f].ver \in 0..MaxUploads /\ now \in 0..MaxTime
        BY DEF Numbers
      <4> QED
        BY <4>1 DEF Objects
    <3> QED
      BY <3>1
  <2>3. excused' \subseteq Files \X Versions
    <3>1. ASSUME NEW f \in made \cup At(p, "notifying") \cup At(p, "sent")
          PROVE  <<f, job[p][f].ver>> \in Files \X Versions
      <4>1. f \in Files /\ job[p][f].at \in {"copying", "notifying", "sent"}
        BY DEF At
      <4>2. job[p][f].ver \in Versions
        BY <4>1 DEF JobsOK, Numbers, Versions
      <4> QED
        BY <4>1, <4>2
    <3> QED
      BY <3>1
  <2>4. UNCHANGED <<config, now, source, pending, listed, events, raced>>
        /\ phase' = [phase EXCEPT ![p] = "idle"] /\ hollow' \subseteq hollow
    BY <1>10 DEF Crash
  <2> QED
    BY <2>1, <2>2, <2>3, <2>4
<1>11. ASSUME NEW p \in Procs, NEW f \in Files, LookAtSource(p, f) PROVE TypeOK'
  BY <1>11, LookAtSourceDoes DEF LookAtSource
<1>12. ASSUME NEW p \in Procs, NEW f \in Files, LookAtTarget(p, f) PROVE TypeOK'
  BY <1>12, LookAtTargetDoes DEF LookAtTarget
<1>13. ASSUME NEW p \in Procs, NEW f \in Files, LookupFails(p, f) PROVE TypeOK'
  <2>1. job' \in [Procs -> [Files -> Jobs]]
    BY <1>13, LookupFailsDoes DEF LookupFails, Fault
  <2>2. UNCHANGED <<stored, phase, listed, events, raced, excused>> /\ faults' \in Nat
    BY <1>13 DEF LookupFails, Fault
  <2> QED
    BY <2>1, <2>2
<1>14. ASSUME NEW p \in Procs, NEW f \in Files, CopyBegins(p, f) PROVE TypeOK'
  BY <1>14, CopyBeginsDoes DEF CopyBegins
<1>15. ASSUME NEW p \in Procs, NEW f \in Files, CopyRefused(p, f) PROVE TypeOK'
  BY <1>15, CopyRefusedDoes DEF CopyRefused
<1>16. ASSUME NEW p \in Procs, NEW f \in Files, CopyEnds(p, f) PROVE TypeOK'
  <2>1. /\ job' \in [Procs -> [Files -> Jobs]] /\ target' \in [Files -> Objects]
        /\ hollow' = hollow \ {f}
    BY <1>16, CopyEndsDoes, Puts DEF CopyEnds
  <2>2. UNCHANGED pending
        /\ UNCHANGED <<config, now, source, phase, listed, history>>
    BY <1>16 DEF CopyEnds
  <2> QED
    BY <2>1, <2>2
<1>17. ASSUME NEW p \in Procs, NEW f \in Files, CopyAccepted(p, f) PROVE TypeOK'
  <2>1. /\ job' \in [Procs -> [Files -> Jobs]] /\ target' \in [Files -> Objects]
        /\ hollow' = hollow \ {f}
    BY <1>17, CopyAcceptedDoes, Puts DEF CopyAccepted
  <2>2. pending' = pending \cup {f}
        /\ UNCHANGED <<config, now, source, phase, listed, history>>
    BY <1>17 DEF CopyAccepted
  <2> QED
    BY <2>1, <2>2
<1>18. ASSUME NEW p \in Procs, NEW f \in Files, CopyFails(p, f) PROVE TypeOK'
  <2>1. job[p][f].ver \in Versions
    <3>1. job[p][f].ver > 0 /\ job[p][f].ver \in 0..MaxUploads
      BY <1>18 DEF JobsOK, Numbers, CopyFails
    <3> QED
      BY <3>1 DEF Versions
  <2>2. excused' \subseteq Files \X Versions
    BY <1>18, <2>1 DEF CopyFails, Fault
  <2>3. target' \in [Files -> Objects] /\ hollow' \subseteq hollow
    <3>1. UNCHANGED <<target, hollow>> \/ Put(p, f)
      BY <1>18 DEF CopyFails
    <3>2. CASE Put(p, f)
      BY <3>2, Puts
    <3> QED
      BY <3>1, <3>2
  <2>4. job' \in [Procs -> [Files -> Jobs]] /\ faults' \in Nat
    <3>1. faults' \in Nat
      BY <1>18 DEF CopyFails, Fault
    <3> HIDE DEF TypeOK, Jobs
    <3> QED
      BY <1>18, <3>1, CopyFailsDoes
  <2>5. UNCHANGED <<config, now, source, pending, phase, listed, events, raced>>
    BY <1>18 DEF CopyFails
  <2> QED
    BY <2>2, <2>3, <2>4, <2>5
<1>19p. ASSUME NEW p \in Procs, NEW f \in Files, Produce(p, f) PROVE TypeOK'
  BY <1>19p, ProduceDoes DEF Produce
<1>19. ASSUME NEW p \in Procs, NEW f \in Files, Flush(p, f) PROVE TypeOK'
  <2>1. job[p][f].ver \in Versions /\ Announced(p, f)
    BY <1>19, JobVersion DEF Flush
  <2>2. events' \in [Files -> [Versions -> Nat]]
    BY <2>1, AnnouncedType
  <2> QED
    BY <1>19, <2>2, FlushDoes DEF Flush
<1>19r. ASSUME NEW p \in Procs, NEW f \in Files, ProducerReplaced(p, f) PROVE TypeOK'
  <2>1. job[p][f].ver \in Versions
    BY <1>19r, JobVersion DEF ProducerReplaced
  <2>2. events' \in [Files -> [Versions -> Nat]] /\ excused' \subseteq Files \X Versions
    <3>1. CASE Announced(p, f) /\ UNCHANGED excused
      BY <2>1, <3>1, AnnouncedType
    <3>2. CASE Excuse(p, f) /\ UNCHANGED events
      BY <2>1, <3>2, ExcuseType
    <3> QED
      BY <1>19r, <3>1, <3>2 DEF ProducerReplaced
  <2>3. job' \in [Procs -> [Files -> Jobs]]
    BY <1>19r, ProducerReplacedDoes
  <2>4. UNCHANGED <<stored, phase, listed, raced, faults>>
    BY <1>19r DEF ProducerReplaced
  <2> QED
    BY <2>2, <2>3, <2>4
<1>19o. ASSUME NEW p \in Procs, NEW f \in Files, FlushOfOthers(p, f) PROVE TypeOK'
  BY <1>19o, FlushOfOthersDoes DEF FlushOfOthers
<1>20. ASSUME NEW p \in Procs, NEW f \in Files, NotifyFails(p, f) PROVE TypeOK'
  <2>1. job[p][f].ver \in Versions /\ Excuse(p, f)
    BY <1>20, JobVersion DEF NotifyFails
  <2>2. excused' \subseteq Files \X Versions /\ faults' \in Nat
    BY <1>20, <2>1, ExcuseType DEF NotifyFails, Fault
  <2>3. job' \in [Procs -> [Files -> Jobs]]
    BY <1>20, NotifyFailsDoes
  <2>4. UNCHANGED <<stored, phase, listed, events, raced>>
    BY <1>20 DEF NotifyFails
  <2> QED
    BY <2>2, <2>3, <2>4
<1>21. CASE UNCHANGED vars
  BY <1>21 DEF vars
<1> QED
  BY <1>1, <1>2, <1>3, <1>4, <1>5, <1>6, <1>7, <1>8, <1>9, <1>10, <1>11,
     <1>12, <1>13, <1>14, <1>15, <1>16, <1>17, <1>18, <1>19, <1>19p, <1>19r, <1>19o, <1>20, <1>21
  DEF Next, List, Handle, Deliver, Fail

(* A copy that is not raced ends with the latest version. *)
LEMMA ObjectsStep == TypeOK /\ Numbers /\ ObjectsOK /\ JobsOK /\ [Next]_vars => ObjectsOK'
<1> SUFFICES ASSUME TypeOK, Numbers, ObjectsOK, JobsOK, [Next]_vars PROVE ObjectsOK'
  OBVIOUS
<1> USE FilePipelineAssumption DEF vars, stored, config, history, Numbers, ObjectsOK, JobsOK
<1>1. ASSUME UNCHANGED <<source, target, pending, raced, now>> PROVE ObjectsOK'
  BY <1>1
<1>2. CASE Tick
  <2>1. UNCHANGED <<source, target, pending, raced>> /\ now <= now' /\ now' \in Nat
    BY <1>2 DEF Tick, Numbers
  <2> QED
    BY <2>1
<1>3. ASSUME NEW f \in Files, Upload(f) PROVE ObjectsOK'
  <2>1. /\ source'[f].ver = source[f].ver + 1 /\ source'[f].stamp = now
        /\ \A g \in Files : g # f => source'[g] = source[g]
        /\ UNCHANGED <<target, pending, now, job, events, listed>>
    <3>1. source \in [Files -> Objects]
      BY DEF TypeOK
    <3> QED
      BY <1>3, <3>1 DEF Upload
  <2>2. /\ \A g \in Files : g # f => (g \in raced' <=> g \in raced)
        /\ f \notin raced' =>
             /\ f \notin raced /\ f \notin pending /\ ~(target[f].ver > 0 /\ target[f].stamp = now)
             /\ \A p \in Procs : job[p][f].at # "copying"
    BY <1>3 DEF Upload
  <2> QED
    BY <2>1, <2>2
<1>4. ASSUME NEW f \in Files, PendingEnds(f) PROVE ObjectsOK'
  <2>1. UNCHANGED <<source, raced, now>> /\ pending' = pending \ {f} /\ f \in pending
    BY <1>4 DEF PendingEnds
  <2>2. /\ \A g \in Files : g # f => target'[g] = target[g]
        /\ target'[f].ver = target[f].ver /\ target'[f].stamp \in {target[f].stamp, now}
    <3>1. target \in [Files -> Objects] /\ target[f] \in Objects
      BY DEF TypeOK
    <3> QED
      BY <1>4, <3>1 DEF PendingEnds, Objects
  <2> QED
    BY <2>1, <2>2
<1>5. ASSUME NEW f \in Files, PendingFails(f) PROVE ObjectsOK'
  <2>1. UNCHANGED <<source, target, raced, now>> /\ pending' = pending \ {f} /\ f \in pending
    BY <1>5 DEF PendingFails, Fault
  <2> QED
    BY <2>1
<1>6. ASSUME NEW p \in Procs, ListAll(p) PROVE ObjectsOK'
  BY <1>6, <1>1 DEF ListAll
<1>7. ASSUME NEW p \in Procs, ListSource(p) PROVE ObjectsOK'
  BY <1>7, <1>1 DEF ListSource
<1>8. ASSUME NEW p \in Procs, ListTarget(p) PROVE ObjectsOK'
  BY <1>8, <1>1 DEF ListTarget
<1>9. ASSUME NEW p \in Procs, ListFails(p) PROVE ObjectsOK'
  BY <1>9, <1>1 DEF ListFails, Fault
<1>10. ASSUME NEW p \in Procs, Finish(p) PROVE ObjectsOK'
  BY <1>10, <1>1 DEF Finish
<1>11. ASSUME NEW p \in Procs, Crash(p) PROVE ObjectsOK'
  <2>1. PICK made \in SUBSET (At(p, "copying") \ pending) :
         target' = [f \in Files |-> IF f \in made THEN [ver |-> job[p][f].ver, stamp |-> now]
                                                 ELSE target[f]]
    BY <1>11 DEF Crash
  <2>2. ASSUME NEW f \in Files
        PROVE  \/ target'[f] = target[f]
               \/ /\ job[p][f].at = "copying" /\ f \notin pending
                  /\ target'[f].ver = job[p][f].ver /\ target'[f].stamp = now
    BY <2>1 DEF At
  <2>3. UNCHANGED <<source, pending, raced, now>>
    BY <1>11 DEF Crash
  <2> QED
    BY <2>2, <2>3
<1>12. ASSUME NEW p \in Procs, NEW f \in Files, LookAtSource(p, f) PROVE ObjectsOK'
  BY <1>12, <1>1 DEF LookAtSource
<1>13. ASSUME NEW p \in Procs, NEW f \in Files, LookAtTarget(p, f) PROVE ObjectsOK'
  BY <1>13, <1>1 DEF LookAtTarget
<1>14. ASSUME NEW p \in Procs, NEW f \in Files, LookupFails(p, f) PROVE ObjectsOK'
  BY <1>14, <1>1 DEF LookupFails, Fault
<1>15. ASSUME NEW p \in Procs, NEW f \in Files, CopyBegins(p, f) PROVE ObjectsOK'
  BY <1>15, <1>1 DEF CopyBegins
<1>16. ASSUME NEW p \in Procs, NEW f \in Files, CopyRefused(p, f) PROVE ObjectsOK'
  BY <1>16, <1>1 DEF CopyRefused
<1>17. ASSUME NEW p \in Procs, NEW f \in Files, CopyEnds(p, f) PROVE ObjectsOK'
  <2>1. /\ \A g \in Files : g # f => target'[g] = target[g]
        /\ target'[f].ver = job[p][f].ver /\ target'[f].stamp = now
        /\ job[p][f].at = "copying" /\ f \notin pending
        /\ UNCHANGED <<source, raced, now>>
    BY <1>17, Puts DEF CopyEnds
  <2>2. pending' \subseteq pending \cup {f}
    BY <1>17 DEF CopyEnds
  <2> QED
    BY <2>1, <2>2
<1>18. ASSUME NEW p \in Procs, NEW f \in Files, CopyAccepted(p, f) PROVE ObjectsOK'
  <2>1. /\ \A g \in Files : g # f => target'[g] = target[g]
        /\ target'[f].ver = job[p][f].ver /\ target'[f].stamp = now
        /\ job[p][f].at = "copying" /\ f \notin pending
        /\ UNCHANGED <<source, raced, now>>
    BY <1>18, Puts DEF CopyAccepted
  <2>2. pending' \subseteq pending \cup {f}
    BY <1>18 DEF CopyAccepted
  <2> QED
    BY <2>1, <2>2
<1>19. ASSUME NEW p \in Procs, NEW f \in Files, CopyFails(p, f) PROVE ObjectsOK'
  <2>1. UNCHANGED <<source, pending, raced, now>> /\ job[p][f].at = "copying"
    BY <1>19 DEF CopyFails, Fault
  <2>2. UNCHANGED target \/ (f \notin pending /\ Put(p, f))
    BY <1>19 DEF CopyFails, Fault
  <2>3. CASE UNCHANGED target
    BY <2>1, <2>3
  <2>4. CASE f \notin pending /\ Put(p, f)
    <3>1. /\ \A g \in Files : g # f => target'[g] = target[g]
          /\ target'[f].ver = job[p][f].ver /\ target'[f].stamp = now
      BY <2>4, Puts
    <3> QED
      BY <2>1, <2>4, <3>1
  <2> QED
    BY <2>2, <2>3, <2>4
<1>20p. ASSUME NEW p \in Procs, NEW f \in Files, Produce(p, f) PROVE ObjectsOK'
  BY <1>20p, <1>1 DEF Produce
<1>20. ASSUME NEW p \in Procs, NEW f \in Files, Flush(p, f) PROVE ObjectsOK'
  BY <1>20, <1>1 DEF Flush
<1>20r. ASSUME NEW p \in Procs, NEW f \in Files, ProducerReplaced(p, f) PROVE ObjectsOK'
  BY <1>20r, <1>1 DEF ProducerReplaced
<1>20o. ASSUME NEW p \in Procs, NEW f \in Files, FlushOfOthers(p, f) PROVE ObjectsOK'
  BY <1>20o, <1>1 DEF FlushOfOthers
<1>21. ASSUME NEW p \in Procs, NEW f \in Files, NotifyFails(p, f) PROVE ObjectsOK'
  BY <1>21, <1>1 DEF NotifyFails, Fault
<1>22. CASE UNCHANGED vars
  BY <1>22, <1>1 DEF vars
<1> QED
  BY <1>2, <1>3, <1>4, <1>5, <1>6, <1>7, <1>8, <1>9, <1>10, <1>11, <1>12,
     <1>13, <1>14, <1>15, <1>16, <1>17, <1>18, <1>19, <1>20, <1>20p, <1>20r, <1>20o, <1>21, <1>22
  DEF Next, List, Handle, Deliver, Fail

(* An upload is newer than a target that was copied before it. *)
LEMMA StaleStep == TypeOK /\ Numbers /\ ObjectsOK /\ JobsOK /\ StaleOnlyIfRaced /\ [Next]_vars => StaleOnlyIfRaced'
<1> SUFFICES ASSUME TypeOK, Numbers, ObjectsOK, JobsOK, StaleOnlyIfRaced, [Next]_vars PROVE StaleOnlyIfRaced'
  OBVIOUS
<1> USE FilePipelineAssumption DEF vars, stored, config, history, Numbers, ObjectsOK, JobsOK, StaleOnlyIfRaced, Newer
<1>1. ASSUME UNCHANGED <<source, target, pending, raced, now>> PROVE StaleOnlyIfRaced'
  BY <1>1
<1>2. CASE Tick
  <2>1. UNCHANGED <<source, target, pending, raced>> /\ now <= now' /\ now' \in Nat
    BY <1>2 DEF Tick, Numbers
  <2> QED
    BY <2>1
<1>3. ASSUME NEW f \in Files, Upload(f) PROVE StaleOnlyIfRaced'
  <2>1. /\ source'[f].ver = source[f].ver + 1 /\ source'[f].stamp = now
        /\ \A g \in Files : g # f => source'[g] = source[g]
        /\ UNCHANGED <<target, pending, now, job, events, listed>>
    <3>1. source \in [Files -> Objects]
      BY DEF TypeOK
    <3> QED
      BY <1>3, <3>1 DEF Upload
  <2>2. /\ \A g \in Files : g # f => (g \in raced' <=> g \in raced)
        /\ f \notin raced' =>
             /\ f \notin raced /\ f \notin pending /\ ~(target[f].ver > 0 /\ target[f].stamp = now)
             /\ \A p \in Procs : job[p][f].at # "copying"
    BY <1>3 DEF Upload
  <2> QED
    BY <2>1, <2>2
<1>4. ASSUME NEW f \in Files, PendingEnds(f) PROVE StaleOnlyIfRaced'
  <2>1. UNCHANGED <<source, raced, now>> /\ pending' = pending \ {f} /\ f \in pending
    BY <1>4 DEF PendingEnds
  <2>2. /\ \A g \in Files : g # f => target'[g] = target[g]
        /\ target'[f].ver = target[f].ver /\ target'[f].stamp \in {target[f].stamp, now}
    <3>1. target \in [Files -> Objects] /\ target[f] \in Objects
      BY DEF TypeOK
    <3> QED
      BY <1>4, <3>1 DEF PendingEnds, Objects
  <2> QED
    BY <2>1, <2>2
<1>5. ASSUME NEW f \in Files, PendingFails(f) PROVE StaleOnlyIfRaced'
  <2>1. UNCHANGED <<source, target, raced, now>> /\ pending' = pending \ {f} /\ f \in pending
    BY <1>5 DEF PendingFails, Fault
  <2> QED
    BY <2>1
<1>6. ASSUME NEW p \in Procs, ListAll(p) PROVE StaleOnlyIfRaced'
  BY <1>6, <1>1 DEF ListAll
<1>7. ASSUME NEW p \in Procs, ListSource(p) PROVE StaleOnlyIfRaced'
  BY <1>7, <1>1 DEF ListSource
<1>8. ASSUME NEW p \in Procs, ListTarget(p) PROVE StaleOnlyIfRaced'
  BY <1>8, <1>1 DEF ListTarget
<1>9. ASSUME NEW p \in Procs, ListFails(p) PROVE StaleOnlyIfRaced'
  BY <1>9, <1>1 DEF ListFails, Fault
<1>10. ASSUME NEW p \in Procs, Finish(p) PROVE StaleOnlyIfRaced'
  BY <1>10, <1>1 DEF Finish
<1>11. ASSUME NEW p \in Procs, Crash(p) PROVE StaleOnlyIfRaced'
  <2>1. PICK made \in SUBSET (At(p, "copying") \ pending) :
         target' = [f \in Files |-> IF f \in made THEN [ver |-> job[p][f].ver, stamp |-> now]
                                                 ELSE target[f]]
    BY <1>11 DEF Crash
  <2>2. ASSUME NEW f \in Files
        PROVE  \/ target'[f] = target[f]
               \/ /\ job[p][f].at = "copying" /\ f \notin pending
                  /\ target'[f].ver = job[p][f].ver /\ target'[f].stamp = now
    BY <2>1 DEF At
  <2>3. UNCHANGED <<source, pending, raced, now>>
    BY <1>11 DEF Crash
  <2> QED
    BY <2>2, <2>3
<1>12. ASSUME NEW p \in Procs, NEW f \in Files, LookAtSource(p, f) PROVE StaleOnlyIfRaced'
  BY <1>12, <1>1 DEF LookAtSource
<1>13. ASSUME NEW p \in Procs, NEW f \in Files, LookAtTarget(p, f) PROVE StaleOnlyIfRaced'
  BY <1>13, <1>1 DEF LookAtTarget
<1>14. ASSUME NEW p \in Procs, NEW f \in Files, LookupFails(p, f) PROVE StaleOnlyIfRaced'
  BY <1>14, <1>1 DEF LookupFails, Fault
<1>15. ASSUME NEW p \in Procs, NEW f \in Files, CopyBegins(p, f) PROVE StaleOnlyIfRaced'
  BY <1>15, <1>1 DEF CopyBegins
<1>16. ASSUME NEW p \in Procs, NEW f \in Files, CopyRefused(p, f) PROVE StaleOnlyIfRaced'
  BY <1>16, <1>1 DEF CopyRefused
<1>17. ASSUME NEW p \in Procs, NEW f \in Files, CopyEnds(p, f) PROVE StaleOnlyIfRaced'
  <2>1. /\ \A g \in Files : g # f => target'[g] = target[g]
        /\ target'[f].ver = job[p][f].ver /\ target'[f].stamp = now
        /\ job[p][f].at = "copying" /\ f \notin pending
        /\ UNCHANGED <<source, raced, now>>
    BY <1>17, Puts DEF CopyEnds
  <2>2. pending' \subseteq pending \cup {f}
    BY <1>17 DEF CopyEnds
  <2> QED
    BY <2>1, <2>2
<1>18. ASSUME NEW p \in Procs, NEW f \in Files, CopyAccepted(p, f) PROVE StaleOnlyIfRaced'
  <2>1. /\ \A g \in Files : g # f => target'[g] = target[g]
        /\ target'[f].ver = job[p][f].ver /\ target'[f].stamp = now
        /\ job[p][f].at = "copying" /\ f \notin pending
        /\ UNCHANGED <<source, raced, now>>
    BY <1>18, Puts DEF CopyAccepted
  <2>2. pending' \subseteq pending \cup {f}
    BY <1>18 DEF CopyAccepted
  <2> QED
    BY <2>1, <2>2
<1>19. ASSUME NEW p \in Procs, NEW f \in Files, CopyFails(p, f) PROVE StaleOnlyIfRaced'
  <2>1. UNCHANGED <<source, pending, raced, now>> /\ job[p][f].at = "copying"
    BY <1>19 DEF CopyFails, Fault
  <2>2. UNCHANGED target \/ (f \notin pending /\ Put(p, f))
    BY <1>19 DEF CopyFails, Fault
  <2>3. CASE UNCHANGED target
    BY <2>1, <2>3
  <2>4. CASE f \notin pending /\ Put(p, f)
    <3>1. /\ \A g \in Files : g # f => target'[g] = target[g]
          /\ target'[f].ver = job[p][f].ver /\ target'[f].stamp = now
      BY <2>4, Puts
    <3> QED
      BY <2>1, <2>4, <3>1
  <2> QED
    BY <2>2, <2>3, <2>4
<1>20p. ASSUME NEW p \in Procs, NEW f \in Files, Produce(p, f) PROVE StaleOnlyIfRaced'
  BY <1>20p, <1>1 DEF Produce
<1>20. ASSUME NEW p \in Procs, NEW f \in Files, Flush(p, f) PROVE StaleOnlyIfRaced'
  BY <1>20, <1>1 DEF Flush
<1>20r. ASSUME NEW p \in Procs, NEW f \in Files, ProducerReplaced(p, f) PROVE StaleOnlyIfRaced'
  BY <1>20r, <1>1 DEF ProducerReplaced
<1>20o. ASSUME NEW p \in Procs, NEW f \in Files, FlushOfOthers(p, f) PROVE StaleOnlyIfRaced'
  BY <1>20o, <1>1 DEF FlushOfOthers
<1>21. ASSUME NEW p \in Procs, NEW f \in Files, NotifyFails(p, f) PROVE StaleOnlyIfRaced'
  BY <1>21, <1>1 DEF NotifyFails, Fault
<1>22. CASE UNCHANGED vars
  BY <1>22, <1>1 DEF vars
<1> QED
  BY <1>2, <1>3, <1>4, <1>5, <1>6, <1>7, <1>8, <1>9, <1>10, <1>11, <1>12,
     <1>13, <1>14, <1>15, <1>16, <1>17, <1>18, <1>19, <1>20, <1>20p, <1>20r, <1>20o, <1>21, <1>22
  DEF Next, List, Handle, Deliver, Fail

(* Nothing is copied behind the answer of another storage service. *)
LEMMA AzureStep == AzureOK /\ [Next]_vars => AzureOK'
<1> SUFFICES ASSUME AzureOK, [Next]_vars PROVE AzureOK'
  OBVIOUS
<1> USE FilePipelineAssumption DEF vars, stored, config, history, AzureOK
<1>1. CASE Tick
  BY <1>1 DEF Tick
<1>2. ASSUME NEW f \in Files, Upload(f) PROVE AzureOK'
  BY <1>2 DEF Upload
<1>3. ASSUME NEW f \in Files, PendingEnds(f) PROVE AzureOK'
  BY <1>3 DEF PendingEnds
<1>4. ASSUME NEW f \in Files, PendingFails(f) PROVE AzureOK'
  BY <1>4 DEF PendingFails, Fault
<1>5. ASSUME NEW p \in Procs, ListAll(p) PROVE AzureOK'
  BY <1>5 DEF ListAll
<1>6. ASSUME NEW p \in Procs, ListSource(p) PROVE AzureOK'
  BY <1>6 DEF ListSource
<1>7. ASSUME NEW p \in Procs, ListTarget(p) PROVE AzureOK'
  BY <1>7 DEF ListTarget
<1>8. ASSUME NEW p \in Procs, ListFails(p) PROVE AzureOK'
  BY <1>8 DEF ListFails, Fault
<1>9. ASSUME NEW p \in Procs, Finish(p) PROVE AzureOK'
  BY <1>9 DEF Finish
<1>10. ASSUME NEW p \in Procs, Crash(p) PROVE AzureOK'
  BY <1>10 DEF Crash, Fault
<1>11. ASSUME NEW p \in Procs, NEW f \in Files, LookAtSource(p, f) PROVE AzureOK'
  BY <1>11 DEF LookAtSource
<1>12. ASSUME NEW p \in Procs, NEW f \in Files, LookAtTarget(p, f) PROVE AzureOK'
  BY <1>12 DEF LookAtTarget
<1>13. ASSUME NEW p \in Procs, NEW f \in Files, LookupFails(p, f) PROVE AzureOK'
  BY <1>13 DEF LookupFails, Fault
<1>14. ASSUME NEW p \in Procs, NEW f \in Files, CopyBegins(p, f) PROVE AzureOK'
  BY <1>14 DEF CopyBegins
<1>15. ASSUME NEW p \in Procs, NEW f \in Files, CopyRefused(p, f) PROVE AzureOK'
  BY <1>15 DEF CopyRefused
<1>16. ASSUME NEW p \in Procs, NEW f \in Files, CopyEnds(p, f) PROVE AzureOK'
  BY <1>16 DEF CopyEnds, Put
<1>17. ASSUME NEW p \in Procs, NEW f \in Files, CopyAccepted(p, f) PROVE AzureOK'
  BY <1>17 DEF CopyAccepted, Put
<1>18. ASSUME NEW p \in Procs, NEW f \in Files, CopyFails(p, f) PROVE AzureOK'
  BY <1>18 DEF CopyFails, Fault, Put
<1>19p. ASSUME NEW p \in Procs, NEW f \in Files, Produce(p, f) PROVE AzureOK'
  BY <1>19p DEF Produce
<1>19. ASSUME NEW p \in Procs, NEW f \in Files, Flush(p, f) PROVE AzureOK'
  BY <1>19 DEF Flush
<1>19r. ASSUME NEW p \in Procs, NEW f \in Files, ProducerReplaced(p, f) PROVE AzureOK'
  BY <1>19r DEF ProducerReplaced
<1>19o. ASSUME NEW p \in Procs, NEW f \in Files, FlushOfOthers(p, f) PROVE AzureOK'
  BY <1>19o DEF FlushOfOthers
<1>20. ASSUME NEW p \in Procs, NEW f \in Files, NotifyFails(p, f) PROVE AzureOK'
  BY <1>20 DEF NotifyFails, Fault
<1>21. CASE UNCHANGED vars
  BY <1>21 DEF vars
<1> QED
  BY <1>1, <1>2, <1>3, <1>4, <1>5, <1>6, <1>7, <1>8, <1>9, <1>10, <1>11,
     <1>12, <1>13, <1>14, <1>15, <1>16, <1>17, <1>18, <1>19, <1>19p, <1>19r, <1>19o, <1>20, <1>21
  DEF Next, List, Handle, Deliver, Fail

(* A copy that ends makes the target up to date, as far as the gate sees. *)
LEMMA JobsStep == TypeOK /\ Numbers /\ ObjectsOK /\ JobsOK /\ [Next]_vars => JobsOK'
<1> SUFFICES ASSUME TypeOK, Numbers, ObjectsOK, JobsOK, [Next]_vars PROVE JobsOK'
  OBVIOUS
<1> USE FilePipelineAssumption DEF vars, stored, config, history, Numbers, JobsOK
<1>1. ASSUME UNCHANGED <<source, target, raced, listed, job>> PROVE JobsOK'
  <2>1. \A g \in Files : UpToDate(g)' <=> UpToDate(g)
    BY <1>1 DEF UpToDate, Newer
  <2> QED
    BY <1>1, <2>1
<1>2. CASE Tick
  BY <1>2, <1>1 DEF Tick
<1>3. ASSUME NEW f \in Files, Upload(f) PROVE JobsOK'
  <2>1. /\ source'[f].ver = source[f].ver + 1 /\ source'[f].stamp = now
        /\ \A g \in Files : g # f => source'[g] = source[g]
        /\ UNCHANGED <<target, pending, now, job, events, listed>>
    <3>1. source \in [Files -> Objects]
      BY DEF TypeOK
    <3> QED
      BY <1>3, <3>1 DEF Upload
  <2>2. /\ \A g \in Files : g # f => (g \in raced' <=> g \in raced)
        /\ f \notin raced' =>
             /\ f \notin raced /\ f \notin pending /\ ~(target[f].ver > 0 /\ target[f].stamp = now)
             /\ \A p \in Procs : job[p][f].at # "copying"
    BY <1>3 DEF Upload
  <2>3. ASSUME NEW g \in Files, g # f PROVE UpToDate(g)' <=> UpToDate(g)
    BY <2>1, <2>3 DEF UpToDate, Newer
  <2> SUFFICES ASSUME NEW q \in Procs, NEW g \in Files
               PROVE  /\ listed[q][g].ver <= source'[g].ver
                      /\ job[q][g].at # "none" => source'[g].ver > 0
                      /\ job[q][g].at = "compared" => job[q][g].stamp <= source'[g].stamp
                      /\ job[q][g].at \in {"copying", "notifying", "sent"} =>
                           job[q][g].ver > 0 /\ job[q][g].ver <= source'[g].ver
                      /\ job[q][g].at = "copying" /\ g \notin raced' =>
                           job[q][g].ver = source'[g].ver
                      /\ job[q][g].at \in {"notifying", "sent"} =>
                           /\ g \notin raced' => job[q][g].ver <= target[g].ver
                           /\ job[q][g].ver = source'[g].ver => UpToDate(g)'
    BY <2>1
  <2>4. CASE g # f
    BY <2>1, <2>2, <2>3, <2>4
  <2>5. CASE g = f
    <3>1. /\ listed[q][f].ver \in Nat /\ listed[q][f].ver <= source[f].ver
          /\ source[f].ver \in Nat /\ source[f].stamp \in Nat /\ source[f].stamp <= now
          /\ now \in Nat /\ job[q][f].ver \in Nat /\ job[q][f].stamp \in Nat
          /\ job[q][f].at = "compared" => job[q][f].stamp <= source[f].stamp
      BY DEF ObjectsOK
    <3>2. /\ job[q][f].at \in {"copying", "notifying", "sent"} =>
               job[q][f].ver > 0 /\ job[q][f].ver <= source[f].ver
          /\ job[q][f].at \in {"notifying", "sent"} /\ f \notin raced => job[q][f].ver <= target[f].ver
      OBVIOUS
    <3> HIDE DEF Numbers, JobsOK
    <3>3. job[q][f].at \in {"notifying", "sent"} => job[q][f].ver # source'[f].ver
      BY <2>1, <3>1, <3>2
    <3>4. job[q][f].at = "copying" => f \in raced'
      BY <2>2
    <3>5. f \in raced => f \in raced'
      BY <2>2
    <3> QED
      BY <2>1, <2>5, <3>1, <3>2, <3>3, <3>4, <3>5
  <2> QED
    BY <2>4, <2>5
<1>4. ASSUME NEW f \in Files, PendingEnds(f) PROVE JobsOK'
  <2>1. UNCHANGED <<source, raced, now>> /\ pending' = pending \ {f} /\ f \in pending
    BY <1>4 DEF PendingEnds
  <2>2. /\ \A g \in Files : g # f => target'[g] = target[g]
        /\ target'[f].ver = target[f].ver /\ target'[f].stamp \in {target[f].stamp, now}
    <3>1. target \in [Files -> Objects] /\ target[f] \in Objects
      BY DEF TypeOK
    <3> QED
      BY <1>4, <3>1 DEF PendingEnds, Objects
  <2>3. UNCHANGED <<job, listed>>
    BY <1>4 DEF PendingEnds
  <2>4. \A g \in Files : UpToDate(g) => UpToDate(g)'
    BY <2>1, <2>2 DEF UpToDate, Newer, ObjectsOK
  <2> QED
    BY <2>1, <2>2, <2>3, <2>4
<1>5. ASSUME NEW f \in Files, PendingFails(f) PROVE JobsOK'
  BY <1>5, <1>1 DEF PendingFails, Fault
<1>6. ASSUME NEW p \in Procs, ListAll(p) PROVE JobsOK'
  <2>1. UNCHANGED <<source, target, raced, listed>>
    BY <1>6 DEF ListAll
  <2>2. \A g \in Files : UpToDate(g)' <=> UpToDate(g)
    BY <2>1 DEF UpToDate, Newer
  <2>3. \A q \in Procs, g \in Files : q # p => job'[q][g] = job[q][g]
    BY <1>6, Queues DEF ListAll
  <2>4. \A g \in Files : job'[p][g].at = "none" \/ (job'[p][g].at = "queued" /\ source[g].ver > 0)
    BY <1>6, Queues DEF ListAll, Wanted
  <2> QED
    BY <2>1, <2>2, <2>3, <2>4
<1>7. ASSUME NEW p \in Procs, ListSource(p) PROVE JobsOK'
  <2>1. UNCHANGED <<source, target, raced, job>>
    BY <1>7 DEF ListSource
  <2>2. \A g \in Files : UpToDate(g)' <=> UpToDate(g)
    BY <2>1 DEF UpToDate, Newer
  <2>3. \A q \in Procs, g \in Files : listed'[q][g] \in {listed[q][g], source[g]}
    <3>1. listed \in [Procs -> [Files -> Objects]]
      BY DEF TypeOK
    <3> QED
      BY <1>7, <3>1 DEF ListSource
  <2> QED
    BY <2>1, <2>2, <2>3
<1>8. ASSUME NEW p \in Procs, ListTarget(p) PROVE JobsOK'
  <2>1. UNCHANGED <<source, target, raced, listed>>
    BY <1>8 DEF ListTarget
  <2>2. \A g \in Files : UpToDate(g)' <=> UpToDate(g)
    BY <2>1 DEF UpToDate, Newer
  <2>3. \A q \in Procs, g \in Files : q # p => job'[q][g] = job[q][g]
    BY <1>8, Queues DEF ListTarget
  <2>4. \A g \in Files : job'[p][g].at = "none" \/ (job'[p][g].at = "queued" /\ source[g].ver > 0)
    BY <1>8, Queues DEF ListTarget, Wanted
  <2> QED
    BY <2>1, <2>2, <2>3, <2>4
<1>9. ASSUME NEW p \in Procs, ListFails(p) PROVE JobsOK'
  BY <1>9, <1>1 DEF ListFails, Fault
<1>10. ASSUME NEW p \in Procs, Finish(p) PROVE JobsOK'
  BY <1>10, <1>1 DEF Finish
<1>11. ASSUME NEW p \in Procs, Crash(p) PROVE JobsOK'
  <2>1. PICK made \in SUBSET (At(p, "copying") \ pending) :
         target' = [f \in Files |-> IF f \in made THEN [ver |-> job[p][f].ver, stamp |-> now]
                                                 ELSE target[f]]
    BY <1>11 DEF Crash
  <2>2. ASSUME NEW f \in Files
        PROVE  \/ target'[f] = target[f]
               \/ /\ job[p][f].at = "copying" /\ f \notin pending
                  /\ target'[f].ver = job[p][f].ver /\ target'[f].stamp = now
    BY <2>1 DEF At
  <2>3. UNCHANGED <<source, pending, raced, now>>
    BY <1>11 DEF Crash
  <2>4. UNCHANGED listed
    BY <1>11 DEF Crash
  <2>5. /\ \A q \in Procs, g \in Files : q # p => job'[q][g] = job[q][g]
        /\ \A g \in Files : job'[p][g].at = "none"
    BY <1>11, Queues DEF Crash
  <2>6. \A g \in Files : UpToDate(g) => UpToDate(g)'
    BY <2>2, <2>3 DEF UpToDate, Newer, ObjectsOK
  <2>7. \A g \in Files : g \notin raced => target'[g].ver \in {target[g].ver, source[g].ver}
    BY <2>2, <2>3
  <2> QED
    BY <2>3, <2>4, <2>5, <2>6, <2>7, <2>2 DEF ObjectsOK
<1>12. ASSUME NEW p \in Procs, NEW f \in Files, LookAtSource(p, f) PROVE JobsOK'
  <2>1. UNCHANGED <<source, target, raced, listed>>
    BY <1>12 DEF LookAtSource
  <2>2. \A g \in Files : UpToDate(g)' <=> UpToDate(g)
    BY <2>1 DEF UpToDate, Newer
  <2>3. \A q \in Procs, g \in Files : q # p \/ g # f => job'[q][g] = job[q][g]
    BY <1>12, LookAtSourceDoes
  <2>4. job'[p][f].at = "compared" /\ job'[p][f].stamp = source[f].stamp /\ job[p][f].at # "none"
    BY <1>12, LookAtSourceDoes DEF LookAtSource
  <2> QED
    BY <2>1, <2>2, <2>3, <2>4
<1>13. ASSUME NEW p \in Procs, NEW f \in Files, LookAtTarget(p, f) PROVE JobsOK'
  <2>1. UNCHANGED <<source, target, raced, listed>>
    BY <1>13 DEF LookAtTarget
  <2>2. \A g \in Files : UpToDate(g)' <=> UpToDate(g)
    BY <2>1 DEF UpToDate, Newer
  <2>3. \A q \in Procs, g \in Files : q # p \/ g # f => job'[q][g] = job[q][g]
    BY <1>13, LookAtTargetDoes
  <2>4. job'[p][f].at \in {"none", "decided"} /\ job[p][f].at # "none"
    BY <1>13, LookAtTargetDoes DEF LookAtTarget
  <2> QED
    BY <2>1, <2>2, <2>3, <2>4
<1>14. ASSUME NEW p \in Procs, NEW f \in Files, LookupFails(p, f) PROVE JobsOK'
  <2>1. UNCHANGED <<source, target, raced, listed>>
    BY <1>14 DEF LookupFails, Fault
  <2>2. \A g \in Files : UpToDate(g)' <=> UpToDate(g)
    BY <2>1 DEF UpToDate, Newer
  <2>3. \A q \in Procs, g \in Files : q # p \/ g # f => job'[q][g] = job[q][g]
    BY <1>14, LookupFailsDoes
  <2>4. job'[p][f].at \in {"none", "decided"} /\ job[p][f].at # "none"
    BY <1>14, LookupFailsDoes DEF LookupFails, Fault
  <2> QED
    BY <2>1, <2>2, <2>3, <2>4
<1>15. ASSUME NEW p \in Procs, NEW f \in Files, CopyBegins(p, f) PROVE JobsOK'
  <2>1. UNCHANGED <<source, target, raced, listed>>
    BY <1>15 DEF CopyBegins
  <2>2. \A g \in Files : UpToDate(g)' <=> UpToDate(g)
    BY <2>1 DEF UpToDate, Newer
  <2>3. \A q \in Procs, g \in Files : q # p \/ g # f => job'[q][g] = job[q][g]
    BY <1>15, CopyBeginsDoes
  <2>4. job'[p][f].at = "copying" /\ job'[p][f].ver = source[f].ver /\ source[f].ver > 0
    BY <1>15, CopyBeginsDoes DEF CopyBegins
  <2> QED
    BY <2>1, <2>2, <2>3, <2>4
<1>16. ASSUME NEW p \in Procs, NEW f \in Files, CopyRefused(p, f) PROVE JobsOK'
  <2>1. UNCHANGED <<source, target, raced, listed>>
    BY <1>16 DEF CopyRefused
  <2>2. \A g \in Files : UpToDate(g)' <=> UpToDate(g)
    BY <2>1 DEF UpToDate, Newer
  <2>3. \A q \in Procs, g \in Files : q # p \/ g # f => job'[q][g] = job[q][g]
    BY <1>16, CopyRefusedDoes
  <2>4. job'[p][f].at = "none"
    BY <1>16, CopyRefusedDoes DEF CopyRefused
  <2> QED
    BY <2>1, <2>2, <2>3, <2>4
<1>17. ASSUME NEW p \in Procs, NEW f \in Files, CopyEnds(p, f) PROVE JobsOK'
  <2>1. /\ \A g \in Files : g # f => target'[g] = target[g]
        /\ target'[f].ver = job[p][f].ver /\ target'[f].stamp = now
        /\ job[p][f].at = "copying" /\ f \notin pending
        /\ UNCHANGED <<source, raced, listed>>
    BY <1>17, Puts DEF CopyEnds
  <2>2. /\ \A q \in Procs, g \in Files : q # p \/ g # f => job'[q][g] = job[q][g]
        /\ job'[p][f].at = "notifying" /\ job'[p][f].ver = job[p][f].ver
    BY <1>17, CopyEndsDoes, Puts
  <2>3. \A g \in Files : UpToDate(g) => UpToDate(g)'
    BY <2>1 DEF UpToDate, Newer, ObjectsOK
  <2>4. UpToDate(f)'
    BY <2>1 DEF UpToDate, Newer, ObjectsOK
  <2>5. f \notin raced => target'[f].ver = source[f].ver
    BY <2>1
  <2> QED
    BY <2>1, <2>2, <2>3, <2>4, <2>5
<1>18. ASSUME NEW p \in Procs, NEW f \in Files, CopyAccepted(p, f) PROVE JobsOK'
  <2>1. /\ \A g \in Files : g # f => target'[g] = target[g]
        /\ target'[f].ver = job[p][f].ver /\ target'[f].stamp = now
        /\ job[p][f].at = "copying" /\ f \notin pending
        /\ UNCHANGED <<source, raced, listed>>
    BY <1>18, Puts DEF CopyAccepted
  <2>2. /\ \A q \in Procs, g \in Files : q # p \/ g # f => job'[q][g] = job[q][g]
        /\ job'[p][f].at = "notifying" /\ job'[p][f].ver = job[p][f].ver
    BY <1>18, CopyAcceptedDoes, Puts
  <2>3. \A g \in Files : UpToDate(g) => UpToDate(g)'
    BY <2>1 DEF UpToDate, Newer, ObjectsOK
  <2>4. UpToDate(f)'
    BY <2>1 DEF UpToDate, Newer, ObjectsOK
  <2>5. f \notin raced => target'[f].ver = source[f].ver
    BY <2>1
  <2> QED
    BY <2>1, <2>2, <2>3, <2>4, <2>5
<1>19. ASSUME NEW p \in Procs, NEW f \in Files, CopyFails(p, f) PROVE JobsOK'
  <2>1. UNCHANGED <<source, raced, listed>> /\ job[p][f].at = "copying"
    BY <1>19 DEF CopyFails, Fault
  <2>2. /\ \A q \in Procs, g \in Files : q # p \/ g # f => job'[q][g] = job[q][g]
        /\ job'[p][f].at = "none"
    BY <1>19, CopyFailsDoes
  <2>3. UNCHANGED target \/ Put(p, f)
    BY <1>19 DEF CopyFails, Fault
  <2>4. CASE UNCHANGED target
    <3>1. \A g \in Files : UpToDate(g)' <=> UpToDate(g)
      BY <2>1, <2>4 DEF UpToDate, Newer
    <3> QED
      BY <2>1, <2>2, <2>4, <3>1
  <2>5. CASE Put(p, f)
    <3>1. /\ \A g \in Files : g # f => target'[g] = target[g]
          /\ target'[f].ver = job[p][f].ver /\ target'[f].stamp = now
      BY <2>5, Puts
    <3>2. \A g \in Files : UpToDate(g) => UpToDate(g)'
      BY <2>1, <3>1 DEF UpToDate, Newer, ObjectsOK
    <3>3. f \notin raced => target'[f].ver = source[f].ver
      BY <2>1, <3>1
    <3> QED
      BY <2>1, <2>2, <3>1, <3>2, <3>3
  <2> QED
    BY <2>3, <2>4, <2>5
<1>20p. ASSUME NEW p \in Procs, NEW f \in Files, Produce(p, f) PROVE JobsOK'
  <2>1. UNCHANGED <<source, target, raced, listed>>
    BY <1>20p DEF Produce
  <2>2. \A g \in Files : UpToDate(g)' <=> UpToDate(g)
    BY <2>1 DEF UpToDate, Newer
  <2>3. \A q \in Procs, g \in Files : q # p \/ g # f => job'[q][g] = job[q][g]
    BY <1>20p, ProduceDoes
  <2>4. job[p][f].at = "notifying"
        /\ job'[p][f].at = "sent" /\ job'[p][f].ver = job[p][f].ver
    BY <1>20p, ProduceDoes DEF Produce
  <2> QED
    BY <2>1, <2>2, <2>3, <2>4
<1>20. ASSUME NEW p \in Procs, NEW f \in Files, Flush(p, f) PROVE JobsOK'
  <2>1. UNCHANGED <<source, target, raced, listed>>
    BY <1>20 DEF Flush
  <2>2. \A g \in Files : UpToDate(g)' <=> UpToDate(g)
    BY <2>1 DEF UpToDate, Newer
  <2>3. \A q \in Procs, g \in Files : q # p \/ g # f => job'[q][g] = job[q][g]
    BY <1>20, FlushDoes
  <2>4. job'[p][f].at = "none"
    BY <1>20, FlushDoes DEF Flush
  <2> QED
    BY <2>1, <2>2, <2>3, <2>4
<1>20r. ASSUME NEW p \in Procs, NEW f \in Files, ProducerReplaced(p, f) PROVE JobsOK'
  <2>1. UNCHANGED <<source, target, raced, listed>>
    BY <1>20r DEF ProducerReplaced
  <2>2. \A g \in Files : UpToDate(g)' <=> UpToDate(g)
    BY <2>1 DEF UpToDate, Newer
  <2>3. \A q \in Procs, g \in Files : q # p \/ g # f => job'[q][g] = job[q][g]
    BY <1>20r, ProducerReplacedDoes
  <2>4. job[p][f].at = "sent" /\ job'[p][f].at = "waiting"
    BY <1>20r, ProducerReplacedDoes DEF ProducerReplaced
  <2> QED
    BY <2>1, <2>2, <2>3, <2>4
<1>20o. ASSUME NEW p \in Procs, NEW f \in Files, FlushOfOthers(p, f) PROVE JobsOK'
  <2>1. UNCHANGED <<source, target, raced, listed>>
    BY <1>20o DEF FlushOfOthers
  <2>2. \A g \in Files : UpToDate(g)' <=> UpToDate(g)
    BY <2>1 DEF UpToDate, Newer
  <2>3. \A q \in Procs, g \in Files : q # p \/ g # f => job'[q][g] = job[q][g]
    BY <1>20o, FlushOfOthersDoes
  <2>4. job'[p][f].at = "none"
    BY <1>20o, FlushOfOthersDoes DEF FlushOfOthers
  <2> QED
    BY <2>1, <2>2, <2>3, <2>4
<1>21. ASSUME NEW p \in Procs, NEW f \in Files, NotifyFails(p, f) PROVE JobsOK'
  <2>1. UNCHANGED <<source, target, raced, listed>>
    BY <1>21 DEF NotifyFails, Fault
  <2>2. \A g \in Files : UpToDate(g)' <=> UpToDate(g)
    BY <2>1 DEF UpToDate, Newer
  <2>3. \A q \in Procs, g \in Files : q # p \/ g # f => job'[q][g] = job[q][g]
    BY <1>21, NotifyFailsDoes
  <2>4. job'[p][f].at = "none"
    BY <1>21, NotifyFailsDoes DEF NotifyFails, Fault
  <2> QED
    BY <2>1, <2>2, <2>3, <2>4
<1>22. CASE UNCHANGED vars
  BY <1>22, <1>1 DEF vars
<1> QED
  BY <1>2, <1>3, <1>4, <1>5, <1>6, <1>7, <1>8, <1>9, <1>10, <1>11, <1>12,
     <1>13, <1>14, <1>15, <1>16, <1>17, <1>18, <1>19, <1>20, <1>20p, <1>20r, <1>20o, <1>21, <1>22
  DEF Next, List, Handle, Deliver, Fail

(* Once announced, a version stays up to date until the next one. *)
LEMMA EventsStep == TypeOK /\ Numbers /\ ObjectsOK /\ JobsOK /\ EventsOK /\ [Next]_vars => EventsOK'
<1> SUFFICES ASSUME TypeOK, Numbers, ObjectsOK, JobsOK, EventsOK, [Next]_vars PROVE EventsOK'
  OBVIOUS
<1> USE FilePipelineAssumption DEF vars, stored, config, history, Numbers, JobsOK, EventsOK
<1>1. ASSUME UNCHANGED <<source, target, events>> PROVE EventsOK'
  <2>1. \A g \in Files : UpToDate(g)' <=> UpToDate(g)
    BY <1>1 DEF UpToDate, Newer
  <2> QED
    BY <1>1, <2>1
<1>2. CASE Tick
  BY <1>2, <1>1 DEF Tick
<1>3. ASSUME NEW f \in Files, Upload(f) PROVE EventsOK'
  <2>1. /\ source'[f].ver = source[f].ver + 1 /\ source'[f].stamp = now
        /\ \A g \in Files : g # f => source'[g] = source[g]
        /\ UNCHANGED <<target, pending, now, job, events, listed>>
    <3>1. source \in [Files -> Objects]
      BY DEF TypeOK
    <3> QED
      BY <1>3, <3>1 DEF Upload
  <2>2. /\ \A g \in Files : g # f => (g \in raced' <=> g \in raced)
        /\ f \notin raced' =>
             /\ f \notin raced /\ f \notin pending /\ ~(target[f].ver > 0 /\ target[f].stamp = now)
             /\ \A p \in Procs : job[p][f].at # "copying"
    BY <1>3 DEF Upload
  <2>3. ASSUME NEW g \in Files, g # f PROVE UpToDate(g)' <=> UpToDate(g)
    BY <2>1, <2>3 DEF UpToDate, Newer
  <2> SUFFICES ASSUME NEW g \in Files, NEW v \in Versions, events[g][v] > 0
               PROVE  /\ v <= source'[g].ver
                      /\ v = source'[g].ver => UpToDate(g)'
    BY <2>1
  <2>4. CASE g # f
    BY <2>1, <2>3, <2>4
  <2>5. CASE g = f
    BY <2>1, <2>5
  <2> QED
    BY <2>4, <2>5
<1>4. ASSUME NEW f \in Files, PendingEnds(f) PROVE EventsOK'
  <2>1. UNCHANGED <<source, raced, now>> /\ pending' = pending \ {f} /\ f \in pending
    BY <1>4 DEF PendingEnds
  <2>2. /\ \A g \in Files : g # f => target'[g] = target[g]
        /\ target'[f].ver = target[f].ver /\ target'[f].stamp \in {target[f].stamp, now}
    <3>1. target \in [Files -> Objects] /\ target[f] \in Objects
      BY DEF TypeOK
    <3> QED
      BY <1>4, <3>1 DEF PendingEnds, Objects
  <2>3. UNCHANGED events
    BY <1>4 DEF PendingEnds
  <2>4. \A g \in Files : UpToDate(g) => UpToDate(g)'
    BY <2>1, <2>2 DEF UpToDate, Newer, ObjectsOK
  <2> QED
    BY <2>1, <2>3, <2>4
<1>5. ASSUME NEW f \in Files, PendingFails(f) PROVE EventsOK'
  BY <1>5, <1>1 DEF PendingFails, Fault
<1>6. ASSUME NEW p \in Procs, ListAll(p) PROVE EventsOK'
  BY <1>6, <1>1 DEF ListAll
<1>7. ASSUME NEW p \in Procs, ListSource(p) PROVE EventsOK'
  BY <1>7, <1>1 DEF ListSource
<1>8. ASSUME NEW p \in Procs, ListTarget(p) PROVE EventsOK'
  BY <1>8, <1>1 DEF ListTarget
<1>9. ASSUME NEW p \in Procs, ListFails(p) PROVE EventsOK'
  BY <1>9, <1>1 DEF ListFails, Fault
<1>10. ASSUME NEW p \in Procs, Finish(p) PROVE EventsOK'
  BY <1>10, <1>1 DEF Finish
<1>11. ASSUME NEW p \in Procs, Crash(p) PROVE EventsOK'
  <2>1. PICK made \in SUBSET (At(p, "copying") \ pending) :
         target' = [f \in Files |-> IF f \in made THEN [ver |-> job[p][f].ver, stamp |-> now]
                                                 ELSE target[f]]
    BY <1>11 DEF Crash
  <2>2. ASSUME NEW f \in Files
        PROVE  \/ target'[f] = target[f]
               \/ /\ job[p][f].at = "copying" /\ f \notin pending
                  /\ target'[f].ver = job[p][f].ver /\ target'[f].stamp = now
    BY <2>1 DEF At
  <2>3. UNCHANGED <<source, pending, raced, now>>
    BY <1>11 DEF Crash
  <2>4. UNCHANGED events
    BY <1>11 DEF Crash
  <2>5. \A g \in Files : UpToDate(g) => UpToDate(g)'
    BY <2>2, <2>3 DEF UpToDate, Newer, ObjectsOK
  <2> QED
    BY <2>3, <2>4, <2>5
<1>12. ASSUME NEW p \in Procs, NEW f \in Files, LookAtSource(p, f) PROVE EventsOK'
  BY <1>12, <1>1 DEF LookAtSource
<1>13. ASSUME NEW p \in Procs, NEW f \in Files, LookAtTarget(p, f) PROVE EventsOK'
  BY <1>13, <1>1 DEF LookAtTarget
<1>14. ASSUME NEW p \in Procs, NEW f \in Files, LookupFails(p, f) PROVE EventsOK'
  BY <1>14, <1>1 DEF LookupFails, Fault
<1>15. ASSUME NEW p \in Procs, NEW f \in Files, CopyBegins(p, f) PROVE EventsOK'
  BY <1>15, <1>1 DEF CopyBegins
<1>16. ASSUME NEW p \in Procs, NEW f \in Files, CopyRefused(p, f) PROVE EventsOK'
  BY <1>16, <1>1 DEF CopyRefused
<1>17. ASSUME NEW p \in Procs, NEW f \in Files, CopyEnds(p, f) PROVE EventsOK'
  <2>1. /\ \A g \in Files : g # f => target'[g] = target[g]
        /\ target'[f].ver = job[p][f].ver /\ target'[f].stamp = now
        /\ job[p][f].at = "copying" /\ f \notin pending
        /\ UNCHANGED <<source, events>>
    BY <1>17, Puts DEF CopyEnds
  <2>2. \A g \in Files : UpToDate(g) => UpToDate(g)'
    BY <2>1 DEF UpToDate, Newer, ObjectsOK
  <2> QED
    BY <2>1, <2>2
<1>18. ASSUME NEW p \in Procs, NEW f \in Files, CopyAccepted(p, f) PROVE EventsOK'
  <2>1. /\ \A g \in Files : g # f => target'[g] = target[g]
        /\ target'[f].ver = job[p][f].ver /\ target'[f].stamp = now
        /\ job[p][f].at = "copying" /\ f \notin pending
        /\ UNCHANGED <<source, events>>
    BY <1>18, Puts DEF CopyAccepted
  <2>2. \A g \in Files : UpToDate(g) => UpToDate(g)'
    BY <2>1 DEF UpToDate, Newer, ObjectsOK
  <2> QED
    BY <2>1, <2>2
<1>19. ASSUME NEW p \in Procs, NEW f \in Files, CopyFails(p, f) PROVE EventsOK'
  <2>1. UNCHANGED <<source, events>> /\ job[p][f].at = "copying"
    BY <1>19 DEF CopyFails, Fault
  <2>2. UNCHANGED target \/ Put(p, f)
    BY <1>19 DEF CopyFails, Fault
  <2>3. \A g \in Files : UpToDate(g) => UpToDate(g)'
    <3>1. CASE UNCHANGED target
      BY <2>1, <3>1 DEF UpToDate, Newer
    <3>2. CASE Put(p, f)
      <4>1. /\ \A g \in Files : g # f => target'[g] = target[g]
            /\ target'[f].ver = job[p][f].ver /\ target'[f].stamp = now
        BY <3>2, Puts
      <4> QED
        BY <2>1, <4>1 DEF UpToDate, Newer, ObjectsOK
    <3> QED
      BY <2>2, <3>1, <3>2
  <2> QED
    BY <2>1, <2>3
<1>0. ASSUME NEW p \in Procs, NEW f \in Files, job[p][f].at = "sent", Announced(p, f),
            UNCHANGED <<source, target, raced>>
     PROVE  EventsOK'
  <2>1. /\ job[p][f].ver \in Versions /\ job[p][f].ver <= source[f].ver
        /\ job[p][f].ver = source[f].ver => UpToDate(f)
    BY <1>0, JobVersion
  <2>2. \A g \in Files, v \in Versions :
          events'[g][v] = IF g = f /\ v = job[p][f].ver THEN events[g][v] + 1 ELSE events[g][v]
    BY <1>0, <2>1, Announces
  <2>3. UNCHANGED <<source, target>>
    BY <1>0
  <2>4. \A g \in Files : UpToDate(g)' <=> UpToDate(g)
    BY <2>3 DEF UpToDate, Newer
  <2> SUFFICES ASSUME NEW g \in Files, NEW v \in Versions, events'[g][v] > 0
               PROVE  v <= source[g].ver /\ (v = source[g].ver => UpToDate(g))
    BY <2>3, <2>4
  <2>5. CASE g = f /\ v = job[p][f].ver
    BY <2>1, <2>5
  <2>6. CASE ~(g = f /\ v = job[p][f].ver)
    BY <2>2, <2>6
  <2> QED
    BY <2>5, <2>6
<1>20p. ASSUME NEW p \in Procs, NEW f \in Files, Produce(p, f) PROVE EventsOK'
  BY <1>20p, <1>1 DEF Produce
<1>20. ASSUME NEW p \in Procs, NEW f \in Files, Flush(p, f) PROVE EventsOK'
  BY <1>20, <1>0 DEF Flush
<1>20r. ASSUME NEW p \in Procs, NEW f \in Files, ProducerReplaced(p, f) PROVE EventsOK'
  <2>1. CASE Announced(p, f)
    BY <1>20r, <2>1, <1>0 DEF ProducerReplaced
  <2>2. CASE UNCHANGED events
    BY <1>20r, <2>2, <1>1 DEF ProducerReplaced
  <2> QED
    BY <1>20r, <2>1, <2>2 DEF ProducerReplaced
<1>20o. ASSUME NEW p \in Procs, NEW f \in Files, FlushOfOthers(p, f) PROVE EventsOK'
  BY <1>20o, <1>1 DEF FlushOfOthers
<1>21. ASSUME NEW p \in Procs, NEW f \in Files, NotifyFails(p, f) PROVE EventsOK'
  BY <1>21, <1>1 DEF NotifyFails, Fault
<1>22. CASE UNCHANGED vars
  BY <1>22, <1>1 DEF vars
<1> QED
  BY <1>2, <1>3, <1>4, <1>5, <1>6, <1>7, <1>8, <1>9, <1>10, <1>11, <1>12,
     <1>13, <1>14, <1>15, <1>16, <1>17, <1>18, <1>19, <1>20, <1>20p, <1>20r, <1>20o, <1>21, <1>22
  DEF Next, List, Handle, Deliver, Fail

(* A copy that is not raced does not take the target back. *)
LEMMA ArrivedStep == TypeOK /\ Numbers /\ ObjectsOK /\ JobsOK /\ Arrived /\ [Next]_vars => Arrived'
<1> SUFFICES ASSUME TypeOK, Numbers, ObjectsOK, JobsOK, Arrived, [Next]_vars PROVE Arrived'
  OBVIOUS
<1> USE FilePipelineAssumption DEF vars, stored, config, history, Numbers, JobsOK, Arrived
<1>1. ASSUME UNCHANGED <<events, target>>, raced \subseteq raced' PROVE Arrived'
  BY <1>1
<1>2. CASE Tick
  BY <1>2, <1>1 DEF Tick
<1>3. ASSUME NEW f \in Files, Upload(f) PROVE Arrived'
  BY <1>3, <1>1 DEF Upload
<1>4. ASSUME NEW f \in Files, PendingEnds(f) PROVE Arrived'
  <2>1. UNCHANGED <<source, raced, now>> /\ pending' = pending \ {f} /\ f \in pending
    BY <1>4 DEF PendingEnds
  <2>2. /\ \A g \in Files : g # f => target'[g] = target[g]
        /\ target'[f].ver = target[f].ver /\ target'[f].stamp \in {target[f].stamp, now}
    <3>1. target \in [Files -> Objects] /\ target[f] \in Objects
      BY DEF TypeOK
    <3> QED
      BY <1>4, <3>1 DEF PendingEnds, Objects
  <2>3. UNCHANGED events
    BY <1>4 DEF PendingEnds
  <2>4. \A g \in Files : target'[g].ver = target[g].ver
    BY <2>2
  <2> QED
    BY <2>1, <2>3, <2>4
<1>5. ASSUME NEW f \in Files, PendingFails(f) PROVE Arrived'
  BY <1>5, <1>1 DEF PendingFails, Fault
<1>6. ASSUME NEW p \in Procs, ListAll(p) PROVE Arrived'
  BY <1>6, <1>1 DEF ListAll
<1>7. ASSUME NEW p \in Procs, ListSource(p) PROVE Arrived'
  BY <1>7, <1>1 DEF ListSource
<1>8. ASSUME NEW p \in Procs, ListTarget(p) PROVE Arrived'
  BY <1>8, <1>1 DEF ListTarget
<1>9. ASSUME NEW p \in Procs, ListFails(p) PROVE Arrived'
  BY <1>9, <1>1 DEF ListFails, Fault
<1>10. ASSUME NEW p \in Procs, Finish(p) PROVE Arrived'
  BY <1>10, <1>1 DEF Finish
<1>11. ASSUME NEW p \in Procs, Crash(p) PROVE Arrived'
  <2>4. PICK made \in SUBSET (At(p, "copying") \ pending) :
         target' = [f \in Files |-> IF f \in made THEN [ver |-> job[p][f].ver, stamp |-> now]
                                                 ELSE target[f]]
    BY <1>11 DEF Crash
  <2>5. ASSUME NEW f \in Files
        PROVE  \/ target'[f] = target[f]
               \/ /\ job[p][f].at = "copying" /\ f \notin pending
                  /\ target'[f].ver = job[p][f].ver /\ target'[f].stamp = now
    BY <2>4 DEF At
  <2>3. UNCHANGED <<source, pending, raced, now>>
    BY <1>11 DEF Crash
  <2>1. UNCHANGED <<events, raced>>
    BY <1>11 DEF Crash
  <2>2. \A g \in Files : g \notin raced => target'[g].ver \in {target[g].ver, source[g].ver}
    BY <2>5
  <2> SUFFICES ASSUME NEW g \in Files, NEW v \in Versions, events[g][v] > 0, g \notin raced
               PROVE  target'[g].ver >= v
    BY <2>1
  <2>8. target'[g].ver \in {target[g].ver, source[g].ver}
    BY <2>2
  <2>9. target[g].ver >= v /\ target[g].ver <= source[g].ver
    BY DEF ObjectsOK
  <2> QED
    BY <2>8, <2>9
<1>12. ASSUME NEW p \in Procs, NEW f \in Files, LookAtSource(p, f) PROVE Arrived'
  BY <1>12, <1>1 DEF LookAtSource
<1>13. ASSUME NEW p \in Procs, NEW f \in Files, LookAtTarget(p, f) PROVE Arrived'
  BY <1>13, <1>1 DEF LookAtTarget
<1>14. ASSUME NEW p \in Procs, NEW f \in Files, LookupFails(p, f) PROVE Arrived'
  BY <1>14, <1>1 DEF LookupFails, Fault
<1>15. ASSUME NEW p \in Procs, NEW f \in Files, CopyBegins(p, f) PROVE Arrived'
  BY <1>15, <1>1 DEF CopyBegins
<1>16. ASSUME NEW p \in Procs, NEW f \in Files, CopyRefused(p, f) PROVE Arrived'
  BY <1>16, <1>1 DEF CopyRefused
<1>17. ASSUME NEW p \in Procs, NEW f \in Files, CopyEnds(p, f) PROVE Arrived'
  <2>1. UNCHANGED <<events, raced>>
    BY <1>17 DEF CopyEnds
  <2>2. \A g \in Files : g \notin raced => target'[g].ver \in {target[g].ver, source[g].ver}
    <3>1. \/ UNCHANGED target
          \/ Put(p, f)
      BY <1>17 DEF CopyEnds
    <3>2. job[p][f].at = "copying"
      BY <1>17 DEF CopyEnds
    <3>3. f \notin raced => job[p][f].ver = source[f].ver
      BY <3>2
    <3>4. CASE Put(p, f)
      BY <3>3, <3>4, Puts
    <3> QED
      BY <3>1, <3>4
  <2> SUFFICES ASSUME NEW g \in Files, NEW v \in Versions, events[g][v] > 0, g \notin raced
               PROVE  target'[g].ver >= v
    BY <2>1
  <2>8. target'[g].ver \in {target[g].ver, source[g].ver}
    BY <2>2
  <2>9. target[g].ver >= v /\ target[g].ver <= source[g].ver
    BY DEF ObjectsOK
  <2> QED
    BY <2>8, <2>9
<1>18. ASSUME NEW p \in Procs, NEW f \in Files, CopyAccepted(p, f) PROVE Arrived'
  <2>1. UNCHANGED <<events, raced>>
    BY <1>18 DEF CopyAccepted
  <2>2. \A g \in Files : g \notin raced => target'[g].ver \in {target[g].ver, source[g].ver}
    <3>1. \/ UNCHANGED target
          \/ Put(p, f)
      BY <1>18 DEF CopyAccepted
    <3>2. job[p][f].at = "copying"
      BY <1>18 DEF CopyAccepted
    <3>3. f \notin raced => job[p][f].ver = source[f].ver
      BY <3>2
    <3>4. CASE Put(p, f)
      BY <3>3, <3>4, Puts
    <3> QED
      BY <3>1, <3>4
  <2> SUFFICES ASSUME NEW g \in Files, NEW v \in Versions, events[g][v] > 0, g \notin raced
               PROVE  target'[g].ver >= v
    BY <2>1
  <2>8. target'[g].ver \in {target[g].ver, source[g].ver}
    BY <2>2
  <2>9. target[g].ver >= v /\ target[g].ver <= source[g].ver
    BY DEF ObjectsOK
  <2> QED
    BY <2>8, <2>9
<1>19. ASSUME NEW p \in Procs, NEW f \in Files, CopyFails(p, f) PROVE Arrived'
  <2>1. UNCHANGED <<events, raced>>
    BY <1>19 DEF CopyFails, Fault
  <2>2. \A g \in Files : g \notin raced => target'[g].ver \in {target[g].ver, source[g].ver}
    <3>1. \/ UNCHANGED target
          \/ Put(p, f)
      BY <1>19 DEF CopyFails, Fault
    <3>2. job[p][f].at = "copying"
      BY <1>19 DEF CopyFails, Fault
    <3>3. f \notin raced => job[p][f].ver = source[f].ver
      BY <3>2
    <3>4. CASE Put(p, f)
      BY <3>3, <3>4, Puts
    <3> QED
      BY <3>1, <3>4
  <2> SUFFICES ASSUME NEW g \in Files, NEW v \in Versions, events[g][v] > 0, g \notin raced
               PROVE  target'[g].ver >= v
    BY <2>1
  <2>8. target'[g].ver \in {target[g].ver, source[g].ver}
    BY <2>2
  <2>9. target[g].ver >= v /\ target[g].ver <= source[g].ver
    BY DEF ObjectsOK
  <2> QED
    BY <2>8, <2>9
<1>0. ASSUME NEW p \in Procs, NEW f \in Files, job[p][f].at = "sent", Announced(p, f),
            UNCHANGED <<source, target, raced>>
     PROVE  Arrived'
  <2>1. /\ job[p][f].ver \in Versions /\ job[p][f].ver <= source[f].ver
        /\ job[p][f].ver = source[f].ver => UpToDate(f)
    BY <1>0, JobVersion
  <2>2. \A g \in Files, v \in Versions :
          events'[g][v] = IF g = f /\ v = job[p][f].ver THEN events[g][v] + 1 ELSE events[g][v]
    BY <1>0, <2>1, Announces
  <2>3. UNCHANGED <<target, raced>>
    BY <1>0
  <2>4. f \notin raced => job[p][f].ver <= target[f].ver
    BY <1>0
  <2> SUFFICES ASSUME NEW g \in Files, NEW v \in Versions, events'[g][v] > 0, g \notin raced
               PROVE  target[g].ver >= v
    BY <2>3
  <2>5. CASE g = f /\ v = job[p][f].ver
    BY <2>4, <2>5
  <2>6. CASE ~(g = f /\ v = job[p][f].ver)
    BY <2>2, <2>6
  <2> QED
    BY <2>5, <2>6
<1>20p. ASSUME NEW p \in Procs, NEW f \in Files, Produce(p, f) PROVE Arrived'
  BY <1>20p, <1>1 DEF Produce
<1>20. ASSUME NEW p \in Procs, NEW f \in Files, Flush(p, f) PROVE Arrived'
  BY <1>20, <1>0 DEF Flush
<1>20r. ASSUME NEW p \in Procs, NEW f \in Files, ProducerReplaced(p, f) PROVE Arrived'
  <2>1. CASE Announced(p, f)
    BY <1>20r, <2>1, <1>0 DEF ProducerReplaced
  <2>2. CASE UNCHANGED events
    BY <1>20r, <2>2, <1>1 DEF ProducerReplaced
  <2> QED
    BY <1>20r, <2>1, <2>2 DEF ProducerReplaced
<1>20o. ASSUME NEW p \in Procs, NEW f \in Files, FlushOfOthers(p, f) PROVE Arrived'
  BY <1>20o, <1>1 DEF FlushOfOthers
<1>21. ASSUME NEW p \in Procs, NEW f \in Files, NotifyFails(p, f) PROVE Arrived'
  BY <1>21, <1>1 DEF NotifyFails, Fault
<1>22. CASE UNCHANGED vars
  BY <1>22, <1>1 DEF vars
<1> QED
  BY <1>2, <1>3, <1>4, <1>5, <1>6, <1>7, <1>8, <1>9, <1>10, <1>11, <1>12,
     <1>13, <1>14, <1>15, <1>16, <1>17, <1>18, <1>19, <1>20, <1>20p, <1>20r, <1>20o, <1>21, <1>22
  DEF Next, List, Handle, Deliver, Fail

(* The phases are a function. *)
LEMMA PhaseType == TypeOK => phase \in [Procs -> {"idle", "listing", "working"}]
BY DEF TypeOK

(* A cycle ends when its jobs have. *)
LEMMA IdleStep == TypeOK /\ IdleOK /\ [Next]_vars => IdleOK'
<1> SUFFICES ASSUME TypeOK, IdleOK, [Next]_vars PROVE IdleOK'
  OBVIOUS
<1> USE FilePipelineAssumption DEF vars, stored, config, history, IdleOK
<1>1. ASSUME UNCHANGED <<job, phase>> PROVE IdleOK'
  BY <1>1
<1>2. ASSUME NEW p \in Procs, NEW f \in Files, phase[p] = "working", UNCHANGED phase,
            \A q \in Procs, g \in Files : q # p \/ g # f => job'[q][g] = job[q][g]
     PROVE  IdleOK'
  BY <1>2
<1>3. CASE Tick
  BY <1>3, <1>1 DEF Tick
<1>4. ASSUME NEW f \in Files, Upload(f) PROVE IdleOK'
  BY <1>4, <1>1 DEF Upload
<1>5. ASSUME NEW f \in Files, PendingEnds(f) PROVE IdleOK'
  BY <1>5, <1>1 DEF PendingEnds
<1>6. ASSUME NEW f \in Files, PendingFails(f) PROVE IdleOK'
  BY <1>6, <1>1 DEF PendingFails, Fault
<1>7. ASSUME NEW p \in Procs, ListAll(p) PROVE IdleOK'
  <2>1. \A q \in Procs : q # p => phase'[q] = phase[q]
    BY <1>7, PhaseType DEF ListAll
  <2>2. \A q \in Procs, g \in Files : q # p => job'[q][g] = job[q][g]
    BY <1>7, Queues DEF ListAll
  <2>3. phase'[p] = "working"
    BY <1>7, PhaseType DEF ListAll
  <2> QED
    BY <2>1, <2>2, <2>3
<1>8. ASSUME NEW p \in Procs, ListSource(p) PROVE IdleOK'
  <2>1. \A q \in Procs : q # p => phase'[q] = phase[q]
    BY <1>8, PhaseType DEF ListSource
  <2>2. \A g \in Files : job[p][g].at = "none"
    BY <1>8 DEF ListSource, At
  <2>3. UNCHANGED job
    BY <1>8 DEF ListSource
  <2> QED
    BY <2>1, <2>2, <2>3
<1>9. ASSUME NEW p \in Procs, ListTarget(p) PROVE IdleOK'
  <2>1. \A q \in Procs : q # p => phase'[q] = phase[q]
    BY <1>9, PhaseType DEF ListTarget
  <2>2. \A q \in Procs, g \in Files : q # p => job'[q][g] = job[q][g]
    BY <1>9, Queues DEF ListTarget
  <2>3. phase'[p] = "working"
    BY <1>9, PhaseType DEF ListTarget
  <2> QED
    BY <2>1, <2>2, <2>3
<1>10. ASSUME NEW p \in Procs, ListFails(p) PROVE IdleOK'
  <2>1. \A q \in Procs : q # p => phase'[q] = phase[q]
    BY <1>10, PhaseType DEF ListFails, Fault
  <2>2. \A g \in Files : job[p][g].at = "none"
    BY <1>10 DEF ListFails, Fault, At
  <2>3. UNCHANGED job
    BY <1>10 DEF ListFails, Fault
  <2> QED
    BY <2>1, <2>2, <2>3
<1>11. ASSUME NEW p \in Procs, Finish(p) PROVE IdleOK'
  <2>1. \A q \in Procs : q # p => phase'[q] = phase[q]
    BY <1>11, PhaseType DEF Finish
  <2>2. \A g \in Files : job[p][g].at = "none"
    BY <1>11 DEF Finish, At
  <2>3. UNCHANGED job
    BY <1>11 DEF Finish
  <2> QED
    BY <2>1, <2>2, <2>3
<1>12. ASSUME NEW p \in Procs, Crash(p) PROVE IdleOK'
  <2>1. \A q \in Procs : q # p => phase'[q] = phase[q]
    BY <1>12, PhaseType DEF Crash, Fault
  <2>2. /\ \A q \in Procs, g \in Files : q # p => job'[q][g] = job[q][g]
        /\ \A g \in Files : job'[p][g].at = "none"
    BY <1>12, Queues DEF Crash, Fault
  <2> QED
    BY <2>1, <2>2
<1>13. ASSUME NEW p \in Procs, NEW f \in Files, LookAtSource(p, f) PROVE IdleOK'
  BY <1>13, <1>2, LookAtSourceDoes DEF LookAtSource
<1>14. ASSUME NEW p \in Procs, NEW f \in Files, LookAtTarget(p, f) PROVE IdleOK'
  BY <1>14, <1>2, LookAtTargetDoes DEF LookAtTarget
<1>15. ASSUME NEW p \in Procs, NEW f \in Files, LookupFails(p, f) PROVE IdleOK'
  <2>1. phase[p] = "working" /\ UNCHANGED phase
    BY <1>15 DEF LookupFails, Fault
  <2>2. \A q \in Procs, g \in Files : q # p \/ g # f => job'[q][g] = job[q][g]
    BY <1>15, LookupFailsDoes
  <2> QED
    BY <1>2, <2>1, <2>2
<1>16. ASSUME NEW p \in Procs, NEW f \in Files, CopyBegins(p, f) PROVE IdleOK'
  BY <1>16, <1>2, CopyBeginsDoes DEF CopyBegins
<1>17. ASSUME NEW p \in Procs, NEW f \in Files, CopyRefused(p, f) PROVE IdleOK'
  BY <1>17, <1>2, CopyRefusedDoes DEF CopyRefused
<1>18. ASSUME NEW p \in Procs, NEW f \in Files, CopyEnds(p, f) PROVE IdleOK'
  BY <1>18, <1>2, CopyEndsDoes, Puts DEF CopyEnds
<1>19. ASSUME NEW p \in Procs, NEW f \in Files, CopyAccepted(p, f) PROVE IdleOK'
  BY <1>19, <1>2, CopyAcceptedDoes, Puts DEF CopyAccepted
<1>20. ASSUME NEW p \in Procs, NEW f \in Files, CopyFails(p, f) PROVE IdleOK'
  BY <1>20, <1>2, CopyFailsDoes, Puts DEF CopyFails, Fault
<1>21p. ASSUME NEW p \in Procs, NEW f \in Files, Produce(p, f) PROVE IdleOK'
  BY <1>21p, <1>2, ProduceDoes DEF Produce
<1>21. ASSUME NEW p \in Procs, NEW f \in Files, Flush(p, f) PROVE IdleOK'
  BY <1>21, <1>2, FlushDoes DEF Flush
<1>21r. ASSUME NEW p \in Procs, NEW f \in Files, ProducerReplaced(p, f) PROVE IdleOK'
  BY <1>21r, <1>2, ProducerReplacedDoes DEF ProducerReplaced
<1>21o. ASSUME NEW p \in Procs, NEW f \in Files, FlushOfOthers(p, f) PROVE IdleOK'
  BY <1>21o, <1>2, FlushOfOthersDoes DEF FlushOfOthers
<1>22. ASSUME NEW p \in Procs, NEW f \in Files, NotifyFails(p, f) PROVE IdleOK'
  BY <1>22, <1>2, NotifyFailsDoes DEF NotifyFails, Fault
<1>23. CASE UNCHANGED vars
  BY <1>23, <1>1 DEF vars
<1> QED
  BY <1>3, <1>4, <1>5, <1>6, <1>7, <1>8, <1>9, <1>10, <1>11, <1>12, <1>13,
     <1>14, <1>15, <1>16, <1>17, <1>18, <1>19, <1>20, <1>21, <1>21p, <1>21r, <1>21o, <1>22, <1>23
  DEF Next, List, Handle, Deliver, Fail

(* The stage stays, and failures and excuses do. *)
LEMMA Kept ==
  Numbers /\ [Next]_vars =>
    stage' = stage /\ excused \subseteq excused' /\ faults' \in Nat /\ faults' >= faults
<1> DEFINE K == stage' = stage /\ excused \subseteq excused' /\ faults' \in Nat /\ faults' >= faults
<1> SUFFICES ASSUME Numbers, [Next]_vars PROVE K
  OBVIOUS
<1>0. faults \in Nat
  BY DEF Numbers
<1> USE <1>0 DEF vars, stored, config, history
<1>1. CASE Tick
  BY <1>1 DEF Tick
<1>2. ASSUME NEW f \in Files, PendingEnds(f) PROVE K
  BY <1>2 DEF PendingEnds
<1>3. ASSUME NEW f \in Files, PendingFails(f) PROVE K
  BY <1>3 DEF PendingFails, Fault
<1>4. ASSUME NEW f \in Files, Upload(f) PROVE K
  BY <1>4 DEF Upload
<1>5. ASSUME NEW p \in Procs, ListAll(p) PROVE K
  BY <1>5 DEF ListAll
<1>6. ASSUME NEW p \in Procs, ListSource(p) PROVE K
  BY <1>6 DEF ListSource
<1>7. ASSUME NEW p \in Procs, ListTarget(p) PROVE K
  BY <1>7 DEF ListTarget
<1>8. ASSUME NEW p \in Procs, ListFails(p) PROVE K
  BY <1>8 DEF ListFails, Fault
<1>9. ASSUME NEW p \in Procs, Finish(p) PROVE K
  BY <1>9 DEF Finish
<1>10. ASSUME NEW p \in Procs, Crash(p) PROVE K
  BY <1>10 DEF Crash, Fault
<1>11. ASSUME NEW p \in Procs, NEW f \in Files, LookAtSource(p, f) PROVE K
  BY <1>11 DEF LookAtSource
<1>12. ASSUME NEW p \in Procs, NEW f \in Files, LookAtTarget(p, f) PROVE K
  BY <1>12 DEF LookAtTarget
<1>13. ASSUME NEW p \in Procs, NEW f \in Files, LookupFails(p, f) PROVE K
  BY <1>13 DEF LookupFails, Fault
<1>14. ASSUME NEW p \in Procs, NEW f \in Files, CopyBegins(p, f) PROVE K
  BY <1>14 DEF CopyBegins
<1>15. ASSUME NEW p \in Procs, NEW f \in Files, CopyRefused(p, f) PROVE K
  BY <1>15 DEF CopyRefused
<1>16. ASSUME NEW p \in Procs, NEW f \in Files, CopyEnds(p, f) PROVE K
  BY <1>16 DEF CopyEnds
<1>17. ASSUME NEW p \in Procs, NEW f \in Files, CopyAccepted(p, f) PROVE K
  BY <1>17 DEF CopyAccepted
<1>18. ASSUME NEW p \in Procs, NEW f \in Files, CopyFails(p, f) PROVE K
  BY <1>18 DEF CopyFails, Fault
<1>19. ASSUME NEW p \in Procs, NEW f \in Files, Produce(p, f) PROVE K
  BY <1>19 DEF Produce
<1>20. ASSUME NEW p \in Procs, NEW f \in Files, Flush(p, f) PROVE K
  BY <1>20 DEF Flush
<1>21. ASSUME NEW p \in Procs, NEW f \in Files, ProducerReplaced(p, f) PROVE K
  BY <1>21 DEF ProducerReplaced, Excuse
<1>22. ASSUME NEW p \in Procs, NEW f \in Files, FlushOfOthers(p, f) PROVE K
  BY <1>22 DEF FlushOfOthers
<1>23. ASSUME NEW p \in Procs, NEW f \in Files, NotifyFails(p, f) PROVE K
  BY <1>23 DEF NotifyFails, Excuse, Fault
<1>24. CASE UNCHANGED vars
  BY <1>24
<1> QED
  BY <1>1, <1>2, <1>3, <1>4, <1>5, <1>6, <1>7, <1>8, <1>9, <1>10, <1>11,
     <1>12, <1>13, <1>14, <1>15, <1>16, <1>17, <1>18, <1>19, <1>20, <1>21, <1>22, <1>23, <1>24
  DEF Next, List, Handle, Deliver, Fail

(* A copy is announced, or a failure is on record. *)
LEMMA UnannouncedStep == TypeOK /\ Numbers /\ JobsOK /\ IdleOK /\ UnannouncedOnlyIfLost /\ [Next]_vars => UnannouncedOnlyIfLost'
<1> SUFFICES ASSUME TypeOK, Numbers, JobsOK, IdleOK, UnannouncedOnlyIfLost, [Next]_vars PROVE UnannouncedOnlyIfLost'
  OBVIOUS
<1> USE FilePipelineAssumption DEF vars, stored, config, history, Numbers, JobsOK, UnannouncedOnlyIfLost
<1>0. /\ stage' = stage /\ excused \subseteq excused'
      /\ faults \in Nat /\ faults' \in Nat /\ faults' >= faults
  BY Kept
<1>1. ASSUME UNCHANGED <<target, events, job>> PROVE UnannouncedOnlyIfLost'
  BY <1>0, <1>1
<1>2. ASSUME NEW p \in Procs, NEW f \in Files, job[p][f].at \notin {"notifying", "sent"},
            UNCHANGED <<target, events>>,
            \A q \in Procs, g \in Files : q # p \/ g # f => job'[q][g] = job[q][g]
     PROVE  UnannouncedOnlyIfLost'
  BY <1>0, <1>2
<1>3. CASE Tick
  BY <1>3, <1>1 DEF Tick
<1>4. ASSUME NEW f \in Files, Upload(f) PROVE UnannouncedOnlyIfLost'
  BY <1>4, <1>1 DEF Upload
<1>5. ASSUME NEW f \in Files, PendingEnds(f) PROVE UnannouncedOnlyIfLost'
  <2>1. UNCHANGED <<source, raced, now>> /\ pending' = pending \ {f} /\ f \in pending
    BY <1>5 DEF PendingEnds
  <2>2. /\ \A g \in Files : g # f => target'[g] = target[g]
        /\ target'[f].ver = target[f].ver /\ target'[f].stamp \in {target[f].stamp, now}
    <3>1. target \in [Files -> Objects] /\ target[f] \in Objects
      BY DEF TypeOK
    <3> QED
      BY <1>5, <3>1 DEF PendingEnds, Objects
  <2>3. UNCHANGED <<events, excused, job>>
    BY <1>5 DEF PendingEnds
  <2>4. \A g \in Files : target'[g].ver = target[g].ver
    BY <2>2
  <2> QED
    BY <1>0, <2>3, <2>4
<1>6. ASSUME NEW f \in Files, PendingFails(f) PROVE UnannouncedOnlyIfLost'
  BY <1>6, <1>1 DEF PendingFails, Fault
<1>7. ASSUME NEW p \in Procs, ListAll(p) PROVE UnannouncedOnlyIfLost'
  <2>1. UNCHANGED <<target, events>> /\ excused \subseteq excused'
    BY <1>7 DEF ListAll
  <2>2. ASSUME NEW q \in Procs, NEW g \in Files, job[q][g].at \in {"notifying", "sent"}
        PROVE  job'[q][g] = job[q][g]
    <3>1. \A q1 \in Procs, g1 \in Files : q1 # p => job'[q1][g1] = job[q1][g1]
      BY <1>7, Queues DEF ListAll
    <3>2. job[p][g].at = "none"
      BY <1>7 DEF ListAll, IdleOK
    <3> QED
      BY <2>2, <3>1, <3>2
  <2> QED
    BY <1>0, <2>1, <2>2
<1>8. ASSUME NEW p \in Procs, ListSource(p) PROVE UnannouncedOnlyIfLost'
  BY <1>8, <1>1 DEF ListSource
<1>9. ASSUME NEW p \in Procs, ListTarget(p) PROVE UnannouncedOnlyIfLost'
  <2>1. UNCHANGED <<target, events>> /\ excused \subseteq excused'
    BY <1>9 DEF ListTarget
  <2>2. ASSUME NEW q \in Procs, NEW g \in Files, job[q][g].at \in {"notifying", "sent"}
        PROVE  job'[q][g] = job[q][g]
    <3>1. \A q1 \in Procs, g1 \in Files : q1 # p => job'[q1][g1] = job[q1][g1]
      BY <1>9, Queues DEF ListTarget
    <3>2. job[p][g].at = "none"
      BY <1>9 DEF ListTarget, IdleOK
    <3> QED
      BY <2>2, <3>1, <3>2
  <2> QED
    BY <1>0, <2>1, <2>2
<1>10. ASSUME NEW p \in Procs, ListFails(p) PROVE UnannouncedOnlyIfLost'
  BY <1>10, <1>1 DEF ListFails, Fault
<1>11. ASSUME NEW p \in Procs, Finish(p) PROVE UnannouncedOnlyIfLost'
  BY <1>11, <1>1 DEF Finish
<1>12. ASSUME NEW p \in Procs, Crash(p) PROVE UnannouncedOnlyIfLost'
  <2> PICK made \in SUBSET (At(p, "copying") \ pending) :
         /\ target' = [f \in Files |-> IF f \in made THEN [ver |-> job[p][f].ver, stamp |-> now]
                                                    ELSE target[f]]
         /\ hollow' = hollow \ made
         /\ excused' = excused \cup {<<f, job[p][f].ver>> : f \in made \cup At(p, "notifying") \cup At(p, "sent")}
    BY <1>12 DEF Crash
  <2>1. UNCHANGED events /\ faults' > 0
    BY <1>12 DEF Crash, Fault
  <2>2. \A q \in Procs, g \in Files : q # p => job'[q][g] = job[q][g]
    BY <1>12, Queues DEF Crash
  <2> SUFFICES ASSUME NEW g \in Files, target'[g].ver > 0
               PROVE  \/ events[g][target'[g].ver] > 0
                      \/ <<g, target'[g].ver>> \in excused'
                      \/ \E q \in Procs : /\ job'[q][g].at \in {"notifying", "sent"}
                                          /\ job'[q][g].ver = target'[g].ver
    BY <2>1
  <2>3. CASE g \in made
    <3>1. target'[g].ver = job[p][g].ver /\ <<g, job[p][g].ver>> \in excused'
      BY <2>3
    <3> QED
      BY <3>1
  <2>4. CASE g \notin made
    <3>1. target'[g] = target[g]
      BY <2>4
    <3>2. ASSUME NEW q \in Procs, job[q][g].at \in {"notifying", "sent"},
                 job[q][g].ver = target[g].ver
          PROVE  \/ <<g, target[g].ver>> \in excused'
                 \/ job'[q][g].at \in {"notifying", "sent"} /\ job'[q][g].ver = target[g].ver
      <4>1. CASE q = p
        <5>1. g \in At(p, "notifying") \cup At(p, "sent")
          BY <3>2, <4>1 DEF At
        <5>2. <<g, job[p][g].ver>> \in excused'
          BY <5>1
        <5> QED
          BY <3>2, <4>1, <5>2
      <4>2. CASE q # p
        BY <2>2, <3>2, <4>2
      <4> QED
        BY <4>1, <4>2
    <3> QED
      BY <1>0, <2>1, <3>1, <3>2
  <2> QED
    BY <2>3, <2>4
<1>13. ASSUME NEW p \in Procs, NEW f \in Files, LookAtSource(p, f) PROVE UnannouncedOnlyIfLost'
  BY <1>13, <1>2, LookAtSourceDoes DEF LookAtSource
<1>14. ASSUME NEW p \in Procs, NEW f \in Files, LookAtTarget(p, f) PROVE UnannouncedOnlyIfLost'
  BY <1>14, <1>2, LookAtTargetDoes DEF LookAtTarget
<1>15. ASSUME NEW p \in Procs, NEW f \in Files, LookupFails(p, f) PROVE UnannouncedOnlyIfLost'
  <2>1. job[p][f].at \notin {"notifying", "sent"} /\ UNCHANGED <<target, events, excused>>
    BY <1>15 DEF LookupFails, Fault
  <2>2. \A q \in Procs, g \in Files : q # p \/ g # f => job'[q][g] = job[q][g]
    BY <1>15, LookupFailsDoes
  <2> QED
    BY <1>2, <2>1, <2>2
<1>16. ASSUME NEW p \in Procs, NEW f \in Files, CopyBegins(p, f) PROVE UnannouncedOnlyIfLost'
  BY <1>16, <1>2, CopyBeginsDoes DEF CopyBegins
<1>17. ASSUME NEW p \in Procs, NEW f \in Files, CopyRefused(p, f) PROVE UnannouncedOnlyIfLost'
  BY <1>17, <1>2, CopyRefusedDoes DEF CopyRefused
<1>18. ASSUME NEW p \in Procs, NEW f \in Files, CopyEnds(p, f) PROVE UnannouncedOnlyIfLost'
  <2>1. UNCHANGED <<events, excused>> /\ job[p][f].at = "copying"
    BY <1>18 DEF CopyEnds
  <2>2. /\ \A g \in Files : g # f => target'[g] = target[g]
        /\ target'[f].ver = job[p][f].ver
    BY <1>18, Puts DEF CopyEnds
  <2>3. /\ \A q \in Procs, g \in Files : q # p \/ g # f => job'[q][g] = job[q][g]
        /\ job'[p][f].at = "notifying" /\ job'[p][f].ver = job[p][f].ver
    BY <1>18, CopyEndsDoes, Puts
  <2> QED
    BY <1>0, <2>1, <2>2, <2>3
<1>19. ASSUME NEW p \in Procs, NEW f \in Files, CopyAccepted(p, f) PROVE UnannouncedOnlyIfLost'
  <2>1. UNCHANGED <<events, excused>> /\ job[p][f].at = "copying"
    BY <1>19 DEF CopyAccepted
  <2>2. /\ \A g \in Files : g # f => target'[g] = target[g]
        /\ target'[f].ver = job[p][f].ver
    BY <1>19, Puts DEF CopyAccepted
  <2>3. /\ \A q \in Procs, g \in Files : q # p \/ g # f => job'[q][g] = job[q][g]
        /\ job'[p][f].at = "notifying" /\ job'[p][f].ver = job[p][f].ver
    BY <1>19, CopyAcceptedDoes, Puts
  <2> QED
    BY <1>0, <2>1, <2>2, <2>3
<1>20. ASSUME NEW p \in Procs, NEW f \in Files, CopyFails(p, f) PROVE UnannouncedOnlyIfLost'
  <2>1. UNCHANGED events /\ job[p][f].at = "copying" /\ excused \subseteq excused'
    BY <1>20 DEF CopyFails, Fault
  <2>2. /\ \A q \in Procs, g \in Files : q # p \/ g # f => job'[q][g] = job[q][g]
        /\ job'[p][f].at = "none"
    BY <1>20, CopyFailsDoes, Puts
  <2>3. UNCHANGED target \/ (Put(p, f) /\ <<f, job[p][f].ver>> \in excused')
    BY <1>20 DEF CopyFails, Fault
  <2>4. CASE UNCHANGED target
    BY <1>0, <2>1, <2>2, <2>4
  <2>5. CASE Put(p, f) /\ <<f, job[p][f].ver>> \in excused'
    <3>1. (\A g \in Files : g # f => target'[g] = target[g]) /\ target'[f].ver = job[p][f].ver
      BY <2>5, Puts
    <3>2. faults' > 0
      BY <1>20, <1>0 DEF CopyFails, Fault
    <3> QED
      BY <1>0, <2>1, <2>2, <2>5, <3>1, <3>2
  <2> QED
    BY <2>3, <2>4, <2>5
<1>21. ASSUME NEW p \in Procs, NEW f \in Files, Announced(p, f), UNCHANGED target,
             job[p][f].at = "sent",
             \A q \in Procs, g \in Files : q # p \/ g # f => job'[q][g] = job[q][g]
      PROVE  UnannouncedOnlyIfLost'
  <2>1. job[p][f].ver \in Versions
    BY <1>21, JobVersion
  <2>2. \A g \in Files, v \in Versions :
          events'[g][v] = IF g = f /\ v = job[p][f].ver THEN events[g][v] + 1 ELSE events[g][v]
    BY <1>21, <2>1, Announces
  <2>3. \A g \in Files, v \in Versions : events[g][v] > 0 => events'[g][v] > 0
    BY <2>2
  <2>4. events'[f][job[p][f].ver] > 0
    BY <2>1, <2>2
  <2>5. \A g \in Files : target[g].ver > 0 => target[g].ver \in Versions
    BY DEF Versions
  <2> QED
    BY <1>0, <1>21, <2>3, <2>4, <2>5
<1>22. ASSUME NEW p \in Procs, NEW f \in Files, Excuse(p, f), UNCHANGED <<target, events>>,
             faults' > 0 \/ stage = "extractor",
             \A q \in Procs, g \in Files : q # p \/ g # f => job'[q][g] = job[q][g]
      PROVE  UnannouncedOnlyIfLost'
  <2>1. <<f, job[p][f].ver>> \in excused'
    BY <1>22 DEF Excuse
  <2> QED
    BY <1>0, <1>22, <2>1
<1>24. ASSUME NEW p \in Procs, NEW f \in Files, Produce(p, f) PROVE UnannouncedOnlyIfLost'
  <2>1. UNCHANGED <<target, events>>
    BY <1>24 DEF Produce
  <2>2. /\ \A q \in Procs, g \in Files : q # p \/ g # f => job'[q][g] = job[q][g]
        /\ job'[p][f].at = "sent" /\ job'[p][f].ver = job[p][f].ver
    BY <1>24, ProduceDoes
  <2> QED
    BY <1>0, <2>1, <2>2
<1>25. ASSUME NEW p \in Procs, NEW f \in Files, Flush(p, f) PROVE UnannouncedOnlyIfLost'
  BY <1>25, <1>21, FlushDoes DEF Flush
<1>26. ASSUME NEW p \in Procs, NEW f \in Files, ProducerReplaced(p, f) PROVE UnannouncedOnlyIfLost'
  <2>1. /\ job[p][f].at = "sent" /\ stage = "extractor" /\ UNCHANGED target
        /\ Announced(p, f) \/ (Excuse(p, f) /\ UNCHANGED events)
    BY <1>26 DEF ProducerReplaced
  <2>2. \A q \in Procs, g \in Files : q # p \/ g # f => job'[q][g] = job[q][g]
    BY <1>26, ProducerReplacedDoes
  <2> QED
    BY <1>21, <1>22, <2>1, <2>2
<1>27. ASSUME NEW p \in Procs, NEW f \in Files, FlushOfOthers(p, f) PROVE UnannouncedOnlyIfLost'
  BY <1>27, <1>2, FlushOfOthersDoes DEF FlushOfOthers
<1>28. ASSUME NEW p \in Procs, NEW f \in Files, NotifyFails(p, f) PROVE UnannouncedOnlyIfLost'
  <2>1. Excuse(p, f) /\ UNCHANGED <<target, events>> /\ faults' = faults + 1
    BY <1>28 DEF NotifyFails, Fault
  <2>2. \A q \in Procs, g \in Files : q # p \/ g # f => job'[q][g] = job[q][g]
    BY <1>28, NotifyFailsDoes
  <2>3. faults' > 0
    BY <1>0, <2>1
  <2> QED
    BY <1>22, <2>1, <2>2, <2>3
<1>23. CASE UNCHANGED vars
  BY <1>23, <1>1 DEF vars
<1> QED
  BY <1>3, <1>4, <1>5, <1>6, <1>7, <1>8, <1>9, <1>10, <1>11, <1>12, <1>13,
     <1>14, <1>15, <1>16, <1>17, <1>18, <1>19, <1>20, <1>23, <1>24, <1>25, <1>26, <1>27, <1>28
  DEF Next, List, Handle, Deliver, Fail

(* Sets of processes are counted, *)
LEMMA Counted ==
  \A S, T : S \subseteq T /\ T \subseteq Procs =>
    /\ Cardinality(S) \in Nat /\ Cardinality(T) \in Nat /\ Cardinality(Procs) \in Nat
    /\ Cardinality(S) <= Cardinality(T) /\ Cardinality(T) <= Cardinality(Procs)
<1> SUFFICES ASSUME NEW S, NEW T, S \subseteq T, T \subseteq Procs
             PROVE  /\ Cardinality(S) \in Nat /\ Cardinality(T) \in Nat
                    /\ Cardinality(Procs) \in Nat
                    /\ Cardinality(S) <= Cardinality(T) /\ Cardinality(T) <= Cardinality(Procs)
  OBVIOUS
<1>1. IsFiniteSet(Procs)
  BY FilePipelineAssumption DEF FilePipelineAssumption
<1>2. IsFiniteSet(T) /\ Cardinality(T) <= Cardinality(Procs)
  BY <1>1, FS_Subset
<1>3. IsFiniteSet(S) /\ Cardinality(S) <= Cardinality(T)
  BY <1>2, FS_Subset
<1> QED
  BY <1>1, <1>2, <1>3, FS_CardinalityType

(* with one more, *)
LEMMA OneMore ==
  \A S, T, x : S \subseteq T \cup {x} /\ T \subseteq Procs /\ x \in Procs =>
    /\ Cardinality(S) \in Nat /\ Cardinality(T) \in Nat
    /\ Cardinality(S) <= Cardinality(T) + 1
<1> SUFFICES ASSUME NEW S, NEW T, NEW x \in Procs, S \subseteq T \cup {x}, T \subseteq Procs
             PROVE  /\ Cardinality(S) \in Nat /\ Cardinality(T) \in Nat
                    /\ Cardinality(S) <= Cardinality(T) + 1
  OBVIOUS
<1> DEFINE U == T \cup {x}
<1>1. IsFiniteSet(T)
  BY FilePipelineAssumption, FS_Subset DEF FilePipelineAssumption
<1>2. Cardinality(U) = IF x \in T THEN Cardinality(T) ELSE Cardinality(T) + 1
  BY <1>1, FS_AddElement
<1>3. S \subseteq U /\ U \subseteq Procs /\ T \subseteq U
  OBVIOUS
<1> HIDE DEF U
<1>4. Cardinality(S) <= Cardinality(U) /\ Cardinality(S) \in Nat /\ Cardinality(U) \in Nat
  BY <1>3, Counted
<1>5. Cardinality(T) \in Nat
  BY <1>1, FS_CardinalityType
<1> QED
  BY <1>2, <1>4, <1>5

(* and with one less. *)
LEMMA OneLess ==
  \A S, T, x : S \subseteq T \ {x} /\ T \subseteq Procs /\ x \in T =>
    /\ Cardinality(S) \in Nat /\ Cardinality(T) \in Nat
    /\ Cardinality(S) + 1 <= Cardinality(T)
<1> SUFFICES ASSUME NEW S, NEW T, NEW x \in T, S \subseteq T \ {x}, T \subseteq Procs
             PROVE  /\ Cardinality(S) \in Nat /\ Cardinality(T) \in Nat
                    /\ Cardinality(S) + 1 <= Cardinality(T)
  OBVIOUS
<1> DEFINE U == T \ {x}
<1>1. IsFiniteSet(T)
  BY FilePipelineAssumption, FS_Subset DEF FilePipelineAssumption
<1>2. Cardinality(U) = Cardinality(T) - 1
  BY <1>1, FS_RemoveElement
<1>3. S \subseteq U /\ U \subseteq Procs
  OBVIOUS
<1> HIDE DEF U
<1>4. Cardinality(S) <= Cardinality(U) /\ Cardinality(S) \in Nat /\ Cardinality(U) \in Nat
  BY <1>3, Counted
<1>5. Cardinality(T) \in Nat
  BY <1>1, FS_CardinalityType
<1> QED
  BY <1>2, <1>4, <1>5

(* A process that starts over finds the target up to date. *)
LEMMA CountStep == TypeOK /\ Numbers /\ ObjectsOK /\ JobsOK /\ EventsOK /\ CountOK /\ [Next]_vars => CountOK'
<1> SUFFICES ASSUME TypeOK, Numbers, ObjectsOK, JobsOK, EventsOK, CountOK, [Next]_vars PROVE CountOK'
  OBVIOUS
<1> USE FilePipelineAssumption DEF vars, stored, config, history, Numbers, JobsOK, CountOK
<1>1. ASSUME UNCHANGED events, faults' \in Nat, faults' >= faults,
            \A g \in Files, v \in Versions : MayAnnounce(g, v)' \subseteq MayAnnounce(g, v)
     PROVE  CountOK'
  <2>1. ASSUME NEW g \in Files, NEW v \in Versions
        PROVE  events[g][v] + Cardinality(MayAnnounce(g, v)') <= Cardinality(Procs) + faults'
    <3>1. MayAnnounce(g, v)' \subseteq MayAnnounce(g, v) /\ MayAnnounce(g, v) \subseteq Procs
      BY <1>1 DEF MayAnnounce
    <3>2. /\ Cardinality(MayAnnounce(g, v)') \in Nat /\ Cardinality(MayAnnounce(g, v)) \in Nat
          /\ Cardinality(Procs) \in Nat
          /\ Cardinality(MayAnnounce(g, v)') <= Cardinality(MayAnnounce(g, v))
      BY <3>1, Counted
    <3>3. /\ events[g][v] + Cardinality(MayAnnounce(g, v)) <= Cardinality(Procs) + faults
          /\ events[g][v] \in Nat /\ faults \in Nat
      OBVIOUS
    <3> QED
      BY <1>1, <3>2, <3>3
  <2> QED
    BY <1>1, <2>1
<1>2. ASSUME UNCHANGED <<source, job, events>>, faults' \in Nat, faults' >= faults PROVE CountOK'
  BY <1>1, <1>2 DEF MayAnnounce
<1>3. ASSUME NEW p \in Procs, UNCHANGED <<source, events>>, faults' \in Nat, faults' >= faults,
            \A q \in Procs, g \in Files : q # p => job'[q][g] = job[q][g],
            \A g \in Files : job'[p][g].at \in {"none", "queued"}
     PROVE  CountOK'
  BY <1>1, <1>3 DEF MayAnnounce
<1>4. ASSUME NEW p \in Procs, NEW f \in Files, UNCHANGED <<source, events>>,
            faults' \in Nat, faults' >= faults,
            \A q \in Procs, g \in Files : q # p \/ g # f => job'[q][g] = job[q][g],
            \/ job'[p][f].at \in {"none", "compared", "waiting"}
            \/ /\ job[p][f].at = "notifying"
               /\ job'[p][f].at = "sent" /\ job'[p][f].ver = job[p][f].ver
            \/ /\ job[p][f].at = "decided"
               /\ job'[p][f].at = "copying" /\ job'[p][f].ver = source[f].ver
            \/ /\ job[p][f].at = "copying"
               /\ job'[p][f].at = "notifying" /\ job'[p][f].ver = job[p][f].ver
     PROVE  CountOK'
  <2>1. ASSUME NEW g \in Files, NEW v \in Versions, NEW q \in MayAnnounce(g, v)'
        PROVE  q \in MayAnnounce(g, v)
    <3>1. CASE q # p \/ g # f
      BY <1>4, <3>1 DEF MayAnnounce
    <3>2. CASE q = p /\ g = f
      BY <1>4, <3>2 DEF MayAnnounce
    <3> QED
      BY <3>1, <3>2
  <2> QED
    BY <1>1, <1>4, <2>1
<1>5. CASE Tick
  BY <1>5, <1>2 DEF Tick, Numbers
<1>6. ASSUME NEW f \in Files, Upload(f) PROVE CountOK'
  <2>1. /\ source'[f].ver = source[f].ver + 1 /\ source'[f].stamp = now
        /\ \A g \in Files : g # f => source'[g] = source[g]
        /\ UNCHANGED <<target, pending, now, job, events, listed>>
    <3>1. source \in [Files -> Objects]
      BY DEF TypeOK
    <3> QED
      BY <1>6, <3>1 DEF Upload
  <2>2. /\ \A g \in Files : g # f => (g \in raced' <=> g \in raced)
        /\ f \notin raced' =>
             /\ f \notin raced /\ f \notin pending /\ ~(target[f].ver > 0 /\ target[f].stamp = now)
             /\ \A p \in Procs : job[p][f].at # "copying"
    BY <1>6 DEF Upload
  <2>3. UNCHANGED faults
    BY <1>6 DEF Upload
  <2> SUFFICES ASSUME NEW g \in Files, NEW v \in Versions
               PROVE  events[g][v] + Cardinality(MayAnnounce(g, v)') <= Cardinality(Procs) + faults
    BY <2>1, <2>3
  <2>4. MayAnnounce(g, v)' \subseteq Procs /\ MayAnnounce(g, v) \subseteq Procs
    BY DEF MayAnnounce
  <2>5. /\ Cardinality(MayAnnounce(g, v)') \in Nat /\ Cardinality(Procs) \in Nat
        /\ Cardinality(MayAnnounce(g, v)) \in Nat
        /\ Cardinality(MayAnnounce(g, v)') <= Cardinality(Procs)
    BY <2>4, Counted
  <2>6. CASE g = f /\ v = source'[f].ver
    <3>1. events[g][v] = 0
      BY <2>1, <2>6 DEF EventsOK
    <3> QED
      BY <2>5, <3>1
  <2>7. CASE ~(g = f /\ v = source'[f].ver)
    <3>1. MayAnnounce(g, v)' \subseteq MayAnnounce(g, v)
      BY <2>1, <2>7 DEF MayAnnounce
    <3>2. Cardinality(MayAnnounce(g, v)') <= Cardinality(MayAnnounce(g, v))
      BY <2>4, <3>1, Counted
    <3> QED
      BY <2>5, <3>2
  <2> QED
    BY <2>6, <2>7
<1>7. ASSUME NEW f \in Files, PendingEnds(f) PROVE CountOK'
  BY <1>7, <1>2 DEF PendingEnds, Numbers
<1>8. ASSUME NEW f \in Files, PendingFails(f) PROVE CountOK'
  BY <1>8, <1>2 DEF PendingFails, Fault, Numbers
<1>9. ASSUME NEW p \in Procs, ListAll(p) PROVE CountOK'
  <2>1. UNCHANGED <<source, events>> /\ faults' \in Nat /\ faults' >= faults
    BY <1>9 DEF ListAll
  <2>2. /\ \A q \in Procs, g \in Files : q # p => job'[q][g] = job[q][g]
        /\ \A g \in Files : job'[p][g].at \in {"none", "queued"}
    BY <1>9, Queues DEF ListAll
  <2> QED
    BY <1>3, <2>1, <2>2
<1>10. ASSUME NEW p \in Procs, ListSource(p) PROVE CountOK'
  BY <1>10, <1>2 DEF ListSource, Numbers
<1>11. ASSUME NEW p \in Procs, ListTarget(p) PROVE CountOK'
  <2>1. UNCHANGED <<source, events>> /\ faults' \in Nat /\ faults' >= faults
    BY <1>11 DEF ListTarget
  <2>2. /\ \A q \in Procs, g \in Files : q # p => job'[q][g] = job[q][g]
        /\ \A g \in Files : job'[p][g].at \in {"none", "queued"}
    BY <1>11, Queues DEF ListTarget
  <2> QED
    BY <1>3, <2>1, <2>2
<1>12. ASSUME NEW p \in Procs, ListFails(p) PROVE CountOK'
  BY <1>12, <1>2 DEF ListFails, Fault, Numbers
<1>13. ASSUME NEW p \in Procs, Finish(p) PROVE CountOK'
  BY <1>13, <1>2 DEF Finish, Numbers
<1>14. ASSUME NEW p \in Procs, Crash(p) PROVE CountOK'
  <2>1. UNCHANGED <<source, events>> /\ faults' \in Nat /\ faults' >= faults
    BY <1>14 DEF Crash, Fault
  <2>2. /\ \A q \in Procs, g \in Files : q # p => job'[q][g] = job[q][g]
        /\ \A g \in Files : job'[p][g].at \in {"none", "queued"}
    BY <1>14, Queues DEF Crash, Fault
  <2> QED
    BY <1>3, <2>1, <2>2
<1>15. ASSUME NEW p \in Procs, NEW f \in Files, LookAtSource(p, f) PROVE CountOK'
  <2>1. UNCHANGED <<source, events>> /\ faults' \in Nat /\ faults' >= faults
    BY <1>15 DEF LookAtSource
  <2>2. /\ \A q \in Procs, g \in Files : q # p \/ g # f => job'[q][g] = job[q][g]
        /\ job'[p][f].at \in {"none", "compared"}
    BY <1>15, LookAtSourceDoes DEF LookAtSource
  <2> QED
    BY <1>4, <2>1, <2>2
<1>16. ASSUME NEW p \in Procs, NEW f \in Files, LookAtTarget(p, f) PROVE CountOK'
  <2>1. UNCHANGED <<source, events, faults>> /\ job[p][f].at = "compared"
    BY <1>16 DEF LookAtTarget
  <2>2. \A q \in Procs, g \in Files : q # p \/ g # f => job'[q][g] = job[q][g]
    BY <1>16, LookAtTargetDoes
  <2>3. CASE job'[p][f].at = "none"
    BY <1>4, <2>1, <2>2, <2>3
  <2>4. CASE job'[p][f].at = "decided" /\ Newer(job[p][f].stamp, target[f])
    <3>1. ~UpToDate(f)
      BY <2>1, <2>4 DEF UpToDate, Newer, JobsOK
    <3> SUFFICES ASSUME NEW g \in Files, NEW v \in Versions
                 PROVE  events[g][v] + Cardinality(MayAnnounce(g, v)') <= Cardinality(Procs) + faults
      BY <2>1
    <3>2. MayAnnounce(g, v)' \subseteq Procs /\ MayAnnounce(g, v) \subseteq Procs
      BY DEF MayAnnounce
    <3>3. /\ Cardinality(MayAnnounce(g, v)') \in Nat /\ Cardinality(Procs) \in Nat
          /\ Cardinality(MayAnnounce(g, v)) \in Nat
          /\ Cardinality(MayAnnounce(g, v)') <= Cardinality(Procs)
      BY <3>2, Counted
    <3>4. CASE g = f /\ v = source[f].ver
      <4>1. events[g][v] = 0
        BY <3>1, <3>4 DEF EventsOK
      <4> QED
        BY <3>3, <4>1
    <3>5. CASE ~(g = f /\ v = source[f].ver)
      <4>1. MayAnnounce(g, v)' \subseteq MayAnnounce(g, v)
        BY <2>1, <2>2, <2>4, <3>5 DEF MayAnnounce
      <4>2. Cardinality(MayAnnounce(g, v)') <= Cardinality(MayAnnounce(g, v))
        BY <3>2, <4>1, Counted
      <4> QED
        BY <3>3, <4>2
    <3> QED
      BY <3>4, <3>5
  <2> QED
    BY <1>16, <2>3, <2>4, LookAtTargetDoes
<1>17. ASSUME NEW p \in Procs, NEW f \in Files, LookupFails(p, f) PROVE CountOK'
  <2>1. UNCHANGED <<source, events>> /\ faults' = faults + 1
    BY <1>17 DEF LookupFails, Fault
  <2>2. \A q \in Procs, g \in Files : q # p \/ g # f => job'[q][g] = job[q][g]
    BY <1>17, LookupFailsDoes
  <2> SUFFICES ASSUME NEW g \in Files, NEW v \in Versions
               PROVE  events[g][v] + Cardinality(MayAnnounce(g, v)') <= Cardinality(Procs) + faults'
    BY <2>1
  <2>3. MayAnnounce(g, v)' \subseteq MayAnnounce(g, v) \cup {p} /\ MayAnnounce(g, v) \subseteq Procs
    BY <2>1, <2>2 DEF MayAnnounce
  <2>4. /\ Cardinality(MayAnnounce(g, v)') \in Nat /\ Cardinality(MayAnnounce(g, v)) \in Nat
        /\ Cardinality(MayAnnounce(g, v)') <= Cardinality(MayAnnounce(g, v)) + 1
    BY <2>3, OneMore
  <2>5. Cardinality(Procs) \in Nat
    BY <2>3, Counted
  <2> QED
    BY <2>1, <2>4, <2>5
<1>18. ASSUME NEW p \in Procs, NEW f \in Files, CopyBegins(p, f) PROVE CountOK'
  <2>1. UNCHANGED <<source, events>> /\ faults' \in Nat /\ faults' >= faults
    BY <1>18 DEF CopyBegins
  <2>2. /\ \A q \in Procs, g \in Files : q # p \/ g # f => job'[q][g] = job[q][g]
        /\ job[p][f].at = "decided" /\ job'[p][f].at = "copying" /\ job'[p][f].ver = source[f].ver
    BY <1>18, CopyBeginsDoes DEF CopyBegins
  <2> QED
    BY <1>4, <2>1, <2>2
<1>19. ASSUME NEW p \in Procs, NEW f \in Files, CopyRefused(p, f) PROVE CountOK'
  <2>1. UNCHANGED <<source, events>> /\ faults' \in Nat /\ faults' >= faults
    BY <1>19 DEF CopyRefused
  <2>2. /\ \A q \in Procs, g \in Files : q # p \/ g # f => job'[q][g] = job[q][g]
        /\ job'[p][f].at \in {"none", "compared"}
    BY <1>19, CopyRefusedDoes DEF CopyRefused
  <2> QED
    BY <1>4, <2>1, <2>2
<1>20. ASSUME NEW p \in Procs, NEW f \in Files, CopyEnds(p, f) PROVE CountOK'
  <2>1. UNCHANGED <<source, events>> /\ faults' \in Nat /\ faults' >= faults
    BY <1>20 DEF CopyEnds
  <2>2. /\ \A q \in Procs, g \in Files : q # p \/ g # f => job'[q][g] = job[q][g]
        /\ job[p][f].at = "copying" /\ job'[p][f].at = "notifying" /\ job'[p][f].ver = job[p][f].ver
    BY <1>20, CopyEndsDoes, Puts DEF CopyEnds
  <2> QED
    BY <1>4, <2>1, <2>2
<1>21. ASSUME NEW p \in Procs, NEW f \in Files, CopyAccepted(p, f) PROVE CountOK'
  <2>1. UNCHANGED <<source, events>> /\ faults' \in Nat /\ faults' >= faults
    BY <1>21 DEF CopyAccepted
  <2>2. /\ \A q \in Procs, g \in Files : q # p \/ g # f => job'[q][g] = job[q][g]
        /\ job[p][f].at = "copying" /\ job'[p][f].at = "notifying" /\ job'[p][f].ver = job[p][f].ver
    BY <1>21, CopyAcceptedDoes, Puts DEF CopyAccepted
  <2> QED
    BY <1>4, <2>1, <2>2
<1>22. ASSUME NEW p \in Procs, NEW f \in Files, CopyFails(p, f) PROVE CountOK'
  <2>1. UNCHANGED <<source, events>> /\ faults' \in Nat /\ faults' >= faults
    BY <1>22 DEF CopyFails, Fault
  <2>2. /\ \A q \in Procs, g \in Files : q # p \/ g # f => job'[q][g] = job[q][g]
        /\ job'[p][f].at \in {"none", "compared"}
    BY <1>22, CopyFailsDoes, Puts DEF CopyFails, Fault
  <2> QED
    BY <1>4, <2>1, <2>2
<1>23. ASSUME NEW p \in Procs, NEW f \in Files, Announced(p, f), job[p][f].at = "sent",
             UNCHANGED <<source, faults>>, job'[p][f].at \in {"none", "waiting"},
             \A q \in Procs, g \in Files : q # p \/ g # f => job'[q][g] = job[q][g]
      PROVE  CountOK'
  <2>1. job[p][f].ver \in Versions
    BY <1>23, JobVersion
  <2>2. \A g \in Files, v \in Versions :
          events'[g][v] = IF g = f /\ v = job[p][f].ver THEN events[g][v] + 1 ELSE events[g][v]
    BY <1>23, <2>1, Announces
  <2>3. UNCHANGED <<source, faults>> /\ job[p][f].at = "sent"
    BY <1>23
  <2>4. /\ \A q \in Procs, g \in Files : q # p \/ g # f => job'[q][g] = job[q][g]
        /\ job'[p][f].at \in {"none", "waiting"}
    BY <1>23
  <2> SUFFICES ASSUME NEW g \in Files, NEW v \in Versions
               PROVE  events'[g][v] + Cardinality(MayAnnounce(g, v)') <= Cardinality(Procs) + faults
    BY <2>3
  <2>5. MayAnnounce(g, v)' \subseteq MayAnnounce(g, v) /\ MayAnnounce(g, v) \subseteq Procs
    BY <2>3, <2>4 DEF MayAnnounce
  <2>6. /\ Cardinality(MayAnnounce(g, v)') \in Nat /\ Cardinality(MayAnnounce(g, v)) \in Nat
        /\ Cardinality(MayAnnounce(g, v)') <= Cardinality(MayAnnounce(g, v))
        /\ Cardinality(Procs) \in Nat
    BY <2>5, Counted
  <2>7. CASE g = f /\ v = job[p][f].ver
    <3>1. p \in MayAnnounce(g, v) /\ p \notin MayAnnounce(g, v)'
      BY <2>3, <2>4, <2>7 DEF MayAnnounce
    <3>2. MayAnnounce(g, v)' \subseteq MayAnnounce(g, v) \ {p}
      BY <2>5, <3>1
    <3>3. Cardinality(MayAnnounce(g, v)') + 1 <= Cardinality(MayAnnounce(g, v))
      BY <2>5, <3>1, <3>2, OneLess
    <3> QED
      BY <2>2, <2>6, <2>7, <3>3
  <2>8. CASE ~(g = f /\ v = job[p][f].ver)
    BY <2>2, <2>6, <2>8
  <2> QED
    BY <2>7, <2>8
<1>24. ASSUME NEW p \in Procs, NEW f \in Files, NotifyFails(p, f) PROVE CountOK'
  <2>1. UNCHANGED <<source, events>> /\ faults' \in Nat /\ faults' >= faults
    BY <1>24 DEF NotifyFails, Fault
  <2>2. /\ \A q \in Procs, g \in Files : q # p \/ g # f => job'[q][g] = job[q][g]
        /\ job'[p][f].at \in {"none", "compared"}
    BY <1>24, NotifyFailsDoes DEF NotifyFails, Fault
  <2> QED
    BY <1>4, <2>1, <2>2
<1>26. ASSUME NEW p \in Procs, NEW f \in Files, Produce(p, f) PROVE CountOK'
  <2>1. UNCHANGED <<source, events>> /\ faults' \in Nat /\ faults' >= faults
    BY <1>26 DEF Produce
  <2>2. /\ \A q \in Procs, g \in Files : q # p \/ g # f => job'[q][g] = job[q][g]
        /\ job[p][f].at = "notifying" /\ job'[p][f].at = "sent" /\ job'[p][f].ver = job[p][f].ver
    BY <1>26, ProduceDoes DEF Produce
  <2> QED
    BY <1>4, <2>1, <2>2
<1>27. ASSUME NEW p \in Procs, NEW f \in Files, Flush(p, f) PROVE CountOK'
  BY <1>27, <1>23, FlushDoes DEF Flush
<1>28. ASSUME NEW p \in Procs, NEW f \in Files, ProducerReplaced(p, f) PROVE CountOK'
  <2>1. /\ UNCHANGED <<source, faults>> /\ job[p][f].at = "sent"
        /\ Announced(p, f) \/ UNCHANGED events
    BY <1>28 DEF ProducerReplaced
  <2>2. /\ \A q \in Procs, g \in Files : q # p \/ g # f => job'[q][g] = job[q][g]
        /\ job'[p][f].at = "waiting"
    BY <1>28, ProducerReplacedDoes
  <2> HIDE DEF Numbers, JobsOK, CountOK
  <2>3. CASE Announced(p, f)
    <3>1. job'[p][f].at \in {"none", "waiting"}
      BY <2>2
    <3> QED
      BY <1>23, <2>1, <2>2, <2>3, <3>1
  <2>4. CASE UNCHANGED events
    <3>1. faults' \in Nat /\ faults' >= faults
      BY <2>1 DEF Numbers
    <3>2. job'[p][f].at \in {"none", "compared", "waiting"}
      BY <2>2
    <3> QED
      BY <1>4, <2>1, <2>2, <2>4, <3>1, <3>2
  <2> QED
    BY <2>1, <2>3, <2>4
<1>29. ASSUME NEW p \in Procs, NEW f \in Files, FlushOfOthers(p, f) PROVE CountOK'
  <2>1. UNCHANGED <<source, events>> /\ faults' \in Nat /\ faults' >= faults
    BY <1>29 DEF FlushOfOthers
  <2>2. /\ \A q \in Procs, g \in Files : q # p \/ g # f => job'[q][g] = job[q][g]
        /\ job'[p][f].at = "none"
    BY <1>29, FlushOfOthersDoes DEF FlushOfOthers
  <2> QED
    BY <1>4, <2>1, <2>2
<1>25. CASE UNCHANGED vars
  BY <1>25, <1>2 DEF vars, Numbers
<1> QED
  BY <1>5, <1>6, <1>7, <1>8, <1>9, <1>10, <1>11, <1>12, <1>13, <1>14, <1>15, <1>16, <1>17,
     <1>18, <1>19, <1>20, <1>21, <1>22, <1>24, <1>25, <1>26, <1>27, <1>28, <1>29
  DEF Next, List, Handle, Deliver, Fail

(* Nothing was copied at first. *)
LEMMA InitInv == Init => IInv
<1> SUFFICES ASSUME Init PROVE IInv
  OBVIOUS
<1> USE FilePipelineAssumption DEF FilePipelineAssumption, Init, Nothing, NoJob
<1>1. TypeOK
  <2>1. Nothing \in Objects /\ NoJob \in Jobs
    BY DEF Objects, Jobs, Stages
  <2>2. source \in [Files -> Objects] /\ target \in [Files -> Objects]
    BY <2>1
  <2> QED
    BY <2>1, <2>2 DEF TypeOK, Jobs
<1>2. ObjectsOK /\ JobsOK /\ IdleOK /\ EventsOK /\ Arrived /\ AzureOK
  BY DEF ObjectsOK, JobsOK, IdleOK, EventsOK, Arrived, AzureOK
<1>3. CountOK
  <2> SUFFICES ASSUME NEW f \in Files, NEW v \in Versions
               PROVE  0 + Cardinality(MayAnnounce(f, v)) <= Cardinality(Procs) + 0
    BY DEF CountOK
  <2>1. MayAnnounce(f, v) \subseteq Procs
    BY DEF MayAnnounce
  <2>2. /\ Cardinality(MayAnnounce(f, v)) \in Nat /\ Cardinality(Procs) \in Nat
        /\ Cardinality(MayAnnounce(f, v)) <= Cardinality(Procs)
    BY <2>1, Counted
  <2> QED
    BY <2>2
<1>4. StaleOnlyIfRaced /\ UnannouncedOnlyIfLost
  BY DEF StaleOnlyIfRaced, UnannouncedOnlyIfLost
<1> QED
  BY <1>1, <1>2, <1>3, <1>4 DEF IInv

(* Every step keeps the whole. *)
LEMMA StepInv == IInv /\ [Next]_vars => IInv'
BY NumbersOK, TypeStep, ObjectsStep, StaleStep, AzureStep, JobsStep, EventsStep, ArrivedStep,
   IdleStep, UnannouncedStep, CountStep
DEF IInv

\* What the containers hold, what the processes do and what was announced fits.
THEOREM Invariance == Spec => []IInv
BY InitInv, StepInv, PTL DEF Spec

\* Every variable keeps its type.
THEOREM TypeCorrect == Spec => []TypeOK
BY Invariance, PTL DEF IInv

\* The timestamp gate passes a stale target for up to date only where an upload fell
\* into a copy, or into the second of the last one.
THEOREM StaleIfRaced == Spec => []StaleOnlyIfRaced
BY Invariance, PTL DEF IInv

\* A version that reaches the target container is announced, unless a crash, a failed
\* call or a replaced producer of the extractor was in the way.
THEOREM CopiedIsAnnounced == Spec => []UnannouncedOnlyIfLost
BY Invariance, PTL DEF IInv

\* For any number of processes, a version is announced at most once by each, and
\* once more for each failure.
THEOREM AnnouncedOncePerProcess == Spec => []OneEventPerProcess
<1>1. IInv => OneEventPerProcess
  <2> SUFFICES ASSUME IInv, NEW f \in Files, NEW v \in Versions
               PROVE  events[f][v] <= Cardinality(Procs) + faults
    BY DEF OneEventPerProcess
  <2>1. MayAnnounce(f, v) \subseteq Procs
    BY DEF MayAnnounce
  <2>2. Cardinality(MayAnnounce(f, v)) \in Nat /\ Cardinality(Procs) \in Nat
    BY <2>1, Counted
  <2>3. events[f][v] \in Nat /\ faults \in Nat
    BY NumbersOK DEF IInv, Numbers
  <2> QED
    BY <2>2, <2>3 DEF IInv, CountOK
<1> QED
  BY <1>1, Invariance, PTL

\* What was announced is in the target container, unless it was raced or Azure failed.
THEOREM AnnouncedArrived == Spec => []AnnouncedIsThere
<1>1. IInv => AnnouncedIsThere
  BY DEF IInv, Arrived, AzureOK, AnnouncedIsThere
<1> QED
  BY <1>1, Invariance, PTL
=============================================================================
