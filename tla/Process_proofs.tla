----------------------------- MODULE Process_proofs -----------------------------
(***************************************************************************)
(* Proofs about Process: the certificate of the exporters outlives every   *)
(* record, and a process that ends by itself leaves no file behind but one *)
(* whose extraction the signal cut short.                                  *)
(*                                                                         *)
(* The module has no constants; what TLC finds of its one instance is      *)
(* shown here from the code's order of events.                             *)
(***************************************************************************)
EXTENDS Process, SequenceTheorems, TLAPS

\* What SIGTERM would run, as far as each phase has come.
ChainOK ==
  /\ main = "starting" =>
       /\ pem["otlp"] # "chained" => pem["kafka"] = "none" /\ handlers = <<"default">>
       /\ pem["otlp"] = "chained" /\ pem["kafka"] # "chained" =>
            handlers = <<"otlp", "default">>
       /\ pem["kafka"] = "chained" => handlers = <<"kafka", "otlp", "default">>
       /\ beat # "none" => pem["otlp"] = "chained"
  /\ main = "running" =>
       /\ pem["otlp"] = "chained"
       /\ \/ handlers = <<"stop">>
          \/ handlers = <<"kafka", "stop">> /\ pem["kafka"] = "chained"
  /\ main \in {"joining", "farewell", "exiting"} => pem["otlp"] = "chained"

\* While the handlers run, every file is gone, is still to be removed by one of
\* them, or was being extracted when the signal came.
CleaningOK ==
  main = "cleaning" =>
    \/ pem["otlp"] = "chained" /\ handlers \in {<<"stop">>, <<"kafka", "stop">>}
    \/ /\ handlers \in {<<"default">>, <<"otlp", "default">>,
                        <<"kafka", "otlp", "default">>}
       /\ \A s \in Stores :
            \/ pem[s] \in {"none", "removed"}
            \/ s \in interrupted
            \/ s = "otlp" /\ handlers # <<"default">>
            \/ s = "kafka" /\ handlers = <<"kafka", "otlp", "default">>

\* A file without its cleanup is one the signal cut short.
InterruptedOK ==
  ~Unsignalled => \A s \in Stores : pem[s] = "written" => s \in interrupted

Clean ==
  main \in {"done", "dead"} =>
    \A s \in Stores \ interrupted : pem[s] \in {"none", "removed"}

\* No file is removed before the signal.
KeptOK == Unsignalled => \A s \in Stores : pem[s] # "removed"

\* Who has the lock has a record, and the handler and the heartbeat have
\* theirs in their time.
HolderOK ==
  /\ holder # "nobody" => holder \in wants
  /\ "handler" \in wants => main \in {"farewell", "killed"}
  /\ "beat" \in wants => beat # "none"

IInv ==
  /\ TypeOK /\ ChainOK /\ CleaningOK /\ HolderOK /\ InterruptedOK /\ KeptOK /\ Clean
-----------------------------------------------------------------------------


(* Every tuple of handlers there can be before the signal's are run. *)
Chains == {<<"default">>, <<"otlp", "default">>, <<"kafka", "otlp", "default">>,
           <<"stop">>, <<"kafka", "stop">>}

(* Each is a sequence of handlers, of one to three. *)
LEMMA ChainTypes == \A h \in Chains : h \in Seq(Handler) /\ Len(h) \in 1..3
<1>1. <<"default">> \in Seq(Handler) /\ Len(<<"default">>) \in 1..3
  BY DEF Handler
<1>2. /\ <<"otlp", "default">> \in Seq(Handler)
      /\ Len(<<"otlp", "default">>) \in 1..3
  BY DEF Handler, Stores
<1>3. /\ <<"kafka", "otlp", "default">> \in Seq(Handler)
      /\ Len(<<"kafka", "otlp", "default">>) \in 1..3
  BY DEF Handler, Stores
<1>4. <<"stop">> \in Seq(Handler) /\ Len(<<"stop">>) \in 1..3
  BY DEF Handler
<1>5. <<"kafka", "stop">> \in Seq(Handler) /\ Len(<<"kafka", "stop">>) \in 1..3
  BY DEF Handler, Stores
<1> QED
  BY <1>1, <1>2, <1>3, <1>4, <1>5 DEF Chains

(* No two of them are the same. *)
LEMMA ChainsDiffer ==
  /\ <<"default">> # <<"otlp", "default">>
  /\ <<"default">> # <<"kafka", "otlp", "default">>
  /\ <<"otlp", "default">> # <<"kafka", "otlp", "default">>
  /\ \A h \in {<<"default">>, <<"otlp", "default">>, <<"kafka", "otlp", "default">>} :
       h \notin {<<"stop">>, <<"kafka", "stop">>}
OBVIOUS

(* A handler put before one, *)
LEMMA BeforeOne ==
  ASSUME NEW x \in Handler, NEW y \in Handler PROVE <<x>> \o <<y>> = <<x, y>>
<1> DEFINE s == <<x>> \o <<y>>
           t == <<x, y>>
<1>1. s \in Seq(Handler) /\ Len(s) = 2 /\ s[1] = x /\ s[2] = y
  OBVIOUS
<1>2. t \in Seq(Handler) /\ Len(t) = 2 /\ t[1] = x /\ t[2] = y
  OBVIOUS
<1>3. \A i \in 1..Len(s) : s[i] = t[i]
  BY <1>1, <1>2
<1> HIDE DEF s, t
<1>4. s = t
  BY <1>1, <1>2, <1>3, SeqEqual
<1> QED
  BY <1>4 DEF s, t

(* and before two. *)
LEMMA BeforeTwo ==
  ASSUME NEW x \in Handler, NEW y \in Handler, NEW z \in Handler
  PROVE  <<x>> \o <<y, z>> = <<x, y, z>>
<1> DEFINE s == <<x>> \o <<y, z>>
           t == <<x, y, z>>
<1>1. s \in Seq(Handler) /\ Len(s) = 3 /\ s[1] = x /\ s[2] = y /\ s[3] = z
  OBVIOUS
<1>2. t \in Seq(Handler) /\ Len(t) = 3 /\ t[1] = x /\ t[2] = y /\ t[3] = z
  OBVIOUS
<1>3. \A i \in 1..Len(s) : s[i] = t[i]
  BY <1>1, <1>2
<1> HIDE DEF s, t
<1>4. s = t
  BY <1>1, <1>2, <1>3, SeqEqual
<1> QED
  BY <1>4 DEF s, t

(* The first of a chain, and what it goes on with. *)
LEMMA HeadsAndTails ==
  /\ Head(<<"default">>) = "default" /\ Head(<<"stop">>) = "stop"
  /\ Head(<<"otlp", "default">>) = "otlp" /\ Tail(<<"otlp", "default">>) = <<"default">>
  /\ Head(<<"kafka", "stop">>) = "kafka" /\ Tail(<<"kafka", "stop">>) = <<"stop">>
  /\ Head(<<"kafka", "otlp", "default">>) = "kafka"
  /\ Tail(<<"kafka", "otlp", "default">>) = <<"otlp", "default">>
OBVIOUS

(* _install_cleanup chains OTLP's before Python's, then Kafka's before that, or
   before the main module's own. *)
LEMMA ChainGives ==
  ASSUME TypeOK, ChainOK, NEW s \in Stores, Chain(s)
  PROVE  \/ /\ main = "starting" /\ s = "otlp" /\ pem["kafka"] = "none"
            /\ handlers' = <<"otlp", "default">>
         \/ /\ main = "starting" /\ s = "kafka" /\ pem["otlp"] = "chained"
            /\ handlers' = <<"kafka", "otlp", "default">>
         \/ /\ main = "running" /\ s = "kafka" /\ pem["otlp"] = "chained"
            /\ handlers' = <<"kafka", "stop">>
<1>1. s \in {"otlp", "kafka"} /\ main \in {"starting", "running"}
  BY DEF Chain, AtWork, Unsignalled, Stores
<1>2. handlers' = <<s>> \o handlers /\ pem[s] = "registered"
  BY DEF Chain
<1>3. {"otlp", "kafka", "stop", "default"} \subseteq Handler
  BY DEF Handler, Stores
<1>4. CASE main = "starting" /\ s = "otlp"
  <2>1. pem["kafka"] = "none" /\ handlers = <<"default">>
    BY <1>2, <1>4 DEF ChainOK
  <2>2. <<"otlp">> \o <<"default">> = <<"otlp", "default">>
    BY <1>3, BeforeOne
  <2> QED
    BY <1>2, <1>4, <2>1, <2>2
<1>5. CASE main = "starting" /\ s = "kafka"
  <2>1. pem["otlp"] = "chained" /\ handlers = <<"otlp", "default">>
    BY <1>2, <1>5 DEF ChainOK
  <2>2. <<"kafka">> \o <<"otlp", "default">> = <<"kafka", "otlp", "default">>
    BY <1>3, BeforeTwo
  <2> QED
    BY <1>2, <1>5, <2>1, <2>2
<1>6. CASE main = "running"
  <2>1. pem["otlp"] = "chained" /\ s = "kafka" /\ handlers = <<"stop">>
    BY <1>1, <1>2, <1>6 DEF ChainOK
  <2>2. <<"kafka">> \o <<"stop">> = <<"kafka", "stop">>
    BY <1>3, BeforeOne
  <2> QED
    BY <1>2, <1>6, <2>1, <2>2
<1> QED
  BY <1>1, <1>4, <1>5, <1>6

(* A store's handler is the first of one of three chains. *)
LEMMA CleanUpGives ==
  ASSUME CleaningOK, NEW s \in Stores, CleanUp(s)
  PROVE  \/ /\ handlers = <<"otlp", "default">> /\ s = "otlp"
            /\ handlers' = <<"default">>
         \/ /\ handlers = <<"kafka", "otlp", "default">> /\ s = "kafka"
            /\ handlers' = <<"otlp", "default">>
         \/ /\ handlers = <<"kafka", "stop">> /\ s = "kafka" /\ pem["otlp"] = "chained"
            /\ handlers' = <<"stop">>
<1>1. \/ handlers \in {<<"default">>, <<"otlp", "default">>, <<"kafka", "otlp", "default">>}
      \/ pem["otlp"] = "chained" /\ handlers \in {<<"stop">>, <<"kafka", "stop">>}
  <2>1. main = "cleaning"
    BY DEF CleanUp
  <2> QED
    BY <2>1 DEF CleaningOK
<1>2. Head(handlers) = s /\ s \in {"otlp", "kafka"} /\ handlers' = Tail(handlers)
  BY DEF CleanUp, Stores
<1>3. handlers # <<"default">> /\ handlers # <<"stop">>
  BY <1>2, HeadsAndTails
<1> QED
  BY <1>1, <1>2, <1>3, HeadsAndTails

(* Type correctness: at most the two truststores' handlers come before the last. *)
LEMMA TypeStep == TypeOK /\ ChainOK /\ CleaningOK /\ KeptOK /\ [Next]_processVars => TypeOK'
<1> SUFFICES ASSUME TypeOK, ChainOK, CleaningOK, KeptOK, [Next]_processVars PROVE TypeOK'
  OBVIOUS
<1> USE  DEF TypeOK, Stores, Unsignalled, Extracting, AtWork, ChainOK, CleaningOK, KeptOK, Pems, Logging, Phases
<1>1. CASE StartHeartbeat
  BY <1>1 DEF StartHeartbeat
<1>2. CASE StartUp
  <2> USE <1>2 DEF StartUp, Installed
  <2>1. handlers' \in Chains
    BY DEF Chains
  <2> QED
    BY <2>1, ChainTypes
<1>3. CASE Log
  BY <1>3 DEF Log
<1>4. CASE Beat
  BY <1>4 DEF Beat
<1>5. CASE Sigterm
  BY <1>5 DEF Sigterm
<1>6. CASE Die
  BY <1>6 DEF Die
<1>7. CASE HandleSigterm
  BY <1>7 DEF HandleSigterm
<1>8. CASE Joined
  BY <1>8 DEF Joined
<1>9. CASE Exit
  BY <1>9 DEF Exit
<1>10. CASE Kill
  BY <1>10 DEF Kill
<1>11. ASSUME NEW s \in Stores, CleanUp(s) PROVE TypeOK'
  <2> USE <1>11 DEF CleanUp
  <2>1. handlers' \in Chains
    BY CleanUpGives DEF Chains
  <2> QED
    BY <2>1, ChainTypes
<1>12. ASSUME NEW l \in Logging, ~Ended, FetchEnds(l) PROVE TypeOK'
  BY <1>12 DEF FetchEnds, Runs
<1>13. ASSUME NEW l \in Logging, Acquire(l) PROVE TypeOK'
  BY <1>13 DEF Acquire, Runs
<1>14. ASSUME NEW s \in Stores, Extract(s) PROVE TypeOK'
  BY <1>14 DEF Extract
<1>15. ASSUME NEW s \in Stores, Register(s) PROVE TypeOK'
  BY <1>15 DEF Register
<1>16. ASSUME NEW s \in Stores, Chain(s) PROVE TypeOK'
  <2> USE <1>16 DEF Chain
  <2>1. handlers' \in Chains
    BY ChainGives DEF Chains
  <2> QED
    BY <2>1, ChainTypes
<1>17. CASE UNCHANGED processVars
  BY <1>17 DEF processVars
<1>18. CASE PoolStarts
  BY <1>18 DEF PoolStarts
<1>19. CASE PoolEnds
  BY <1>19 DEF PoolEnds
<1> QED
  BY <1>1, <1>2, <1>3, <1>4, <1>5, <1>6, <1>7, <1>8, <1>9, <1>10, <1>11,
     <1>12, <1>13, <1>14, <1>15, <1>16, <1>17, <1>18, <1>19
  DEF Next, Signal, Export

(* A store chains its handler once, onto the one before it. *)
LEMMA ChainStep == TypeOK /\ ChainOK /\ CleaningOK /\ HolderOK /\ [Next]_processVars => ChainOK'
<1> SUFFICES ASSUME TypeOK, ChainOK, CleaningOK, HolderOK, [Next]_processVars PROVE ChainOK'
  OBVIOUS
<1> USE  DEF TypeOK, Stores, Unsignalled, Extracting, AtWork, HolderOK, Logging, ChainOK, CleaningOK, Pems, Ended
<1>1. CASE StartHeartbeat
  BY <1>1 DEF StartHeartbeat
<1>2. CASE StartUp
  BY <1>2 DEF StartUp, Installed
<1>3. CASE Log
  BY <1>3 DEF Log
<1>4. CASE Beat
  BY <1>4 DEF Beat
<1>5. CASE Sigterm
  BY <1>5 DEF Sigterm
<1>6. CASE Die
  BY <1>6 DEF Die
<1>7. CASE HandleSigterm
  BY <1>7, HeadsAndTails DEF HandleSigterm
<1>8. CASE Joined
  BY <1>8 DEF Joined
<1>9. CASE Exit
  BY <1>9 DEF Exit
<1>10. CASE Kill
  BY <1>10 DEF Kill
<1>11. ASSUME NEW s \in Stores, CleanUp(s) PROVE ChainOK'
  BY <1>11 DEF CleanUp
<1>12. ASSUME NEW l \in Logging, ~Ended, FetchEnds(l) PROVE ChainOK'
  BY <1>12 DEF FetchEnds, Runs
<1>13. ASSUME NEW l \in Logging, Acquire(l) PROVE ChainOK'
  BY <1>13 DEF Acquire, Runs
<1>14. ASSUME NEW s \in Stores, Extract(s) PROVE ChainOK'
  BY <1>14 DEF Extract
<1>15. ASSUME NEW s \in Stores, Register(s) PROVE ChainOK'
  BY <1>15 DEF Register
<1>16. ASSUME NEW s \in Stores, Chain(s) PROVE ChainOK'
  BY <1>16, ChainGives, ChainsDiffer DEF Chain
<1>17. CASE UNCHANGED processVars
  BY <1>17 DEF processVars
<1>18. CASE PoolStarts
  BY <1>18 DEF PoolStarts
<1>19. CASE PoolEnds
  BY <1>19 DEF PoolEnds
<1> QED
  BY <1>1, <1>2, <1>3, <1>4, <1>5, <1>6, <1>7, <1>8, <1>9, <1>10, <1>11,
     <1>12, <1>13, <1>14, <1>15, <1>16, <1>17, <1>18, <1>19
  DEF Next, Signal, Export

(* A handler that is done has removed its file. *)
LEMMA CleaningStep == TypeOK /\ ChainOK /\ CleaningOK /\ KeptOK /\ [Next]_processVars => CleaningOK'
<1> SUFFICES ASSUME TypeOK, ChainOK, CleaningOK, KeptOK, [Next]_processVars PROVE CleaningOK'
  OBVIOUS
<1> USE  DEF TypeOK, Stores, Unsignalled, Extracting, AtWork, ChainOK, CleaningOK, KeptOK, Pems
<1>1. CASE StartHeartbeat
  BY <1>1 DEF StartHeartbeat
<1>2. CASE StartUp
  BY <1>2 DEF StartUp, Installed
<1>3. CASE Log
  BY <1>3 DEF Log
<1>4. CASE Beat
  BY <1>4 DEF Beat
<1>5. CASE Sigterm
  BY <1>5 DEF Sigterm
<1>6. CASE Die
  BY <1>6 DEF Die
<1>7. CASE HandleSigterm
  BY <1>7 DEF HandleSigterm
<1>8. CASE Joined
  BY <1>8 DEF Joined
<1>9. CASE Exit
  BY <1>9 DEF Exit
<1>10. CASE Kill
  BY <1>10 DEF Kill
<1>11. ASSUME NEW s \in Stores, CleanUp(s) PROVE CleaningOK'
  BY <1>11, CleanUpGives, ChainsDiffer DEF CleanUp
<1>12. ASSUME NEW l \in Logging, ~Ended, FetchEnds(l) PROVE CleaningOK'
  BY <1>12 DEF FetchEnds, Runs
<1>13. ASSUME NEW l \in Logging, Acquire(l) PROVE CleaningOK'
  BY <1>13 DEF Acquire, Runs
<1>14. ASSUME NEW s \in Stores, Extract(s) PROVE CleaningOK'
  BY <1>14 DEF Extract
<1>15. ASSUME NEW s \in Stores, Register(s) PROVE CleaningOK'
  BY <1>15 DEF Register
<1>16. ASSUME NEW s \in Stores, Chain(s) PROVE CleaningOK'
  BY <1>16, ChainGives DEF Chain
<1>17. CASE UNCHANGED processVars
  BY <1>17 DEF processVars
<1>18. CASE PoolStarts
  BY <1>18 DEF PoolStarts
<1>19. CASE PoolEnds
  BY <1>19 DEF PoolEnds
<1> QED
  BY <1>1, <1>2, <1>3, <1>4, <1>5, <1>6, <1>7, <1>8, <1>9, <1>10, <1>11,
     <1>12, <1>13, <1>14, <1>15, <1>16, <1>17, <1>18, <1>19
  DEF Next, Signal, Export

(* The lock is released with the record. *)
LEMMA HolderStep == TypeOK /\ HolderOK /\ [Next]_processVars => HolderOK'
<1> SUFFICES ASSUME TypeOK, HolderOK, [Next]_processVars PROVE HolderOK'
  OBVIOUS
<1> USE  DEF TypeOK, Stores, Unsignalled, Extracting, AtWork, HolderOK, Logging, Phases
<1>1. CASE StartHeartbeat
  BY <1>1 DEF StartHeartbeat
<1>2. CASE StartUp
  BY <1>2 DEF StartUp, Installed
<1>3. CASE Log
  BY <1>3 DEF Log
<1>4. CASE Beat
  BY <1>4 DEF Beat
<1>5. CASE Sigterm
  BY <1>5 DEF Sigterm
<1>6. CASE Die
  BY <1>6 DEF Die
<1>7. CASE HandleSigterm
  BY <1>7 DEF HandleSigterm
<1>8. CASE Joined
  BY <1>8 DEF Joined
<1>9. CASE Exit
  BY <1>9 DEF Exit
<1>10. CASE Kill
  BY <1>10 DEF Kill
<1>11. ASSUME NEW s \in Stores, CleanUp(s) PROVE HolderOK'
  BY <1>11 DEF CleanUp
<1>12. ASSUME NEW l \in Logging, ~Ended, FetchEnds(l) PROVE HolderOK'
  BY <1>12 DEF FetchEnds, Runs
<1>13. ASSUME NEW l \in Logging, Acquire(l) PROVE HolderOK'
  BY <1>13 DEF Acquire, Runs
<1>14. ASSUME NEW s \in Stores, Extract(s) PROVE HolderOK'
  BY <1>14 DEF Extract
<1>15. ASSUME NEW s \in Stores, Register(s) PROVE HolderOK'
  BY <1>15 DEF Register
<1>16. ASSUME NEW s \in Stores, Chain(s) PROVE HolderOK'
  BY <1>16 DEF Chain
<1>17. CASE UNCHANGED processVars
  BY <1>17 DEF processVars
<1>18. CASE PoolStarts
  BY <1>18 DEF PoolStarts
<1>19. CASE PoolEnds
  BY <1>19 DEF PoolEnds
<1> QED
  BY <1>1, <1>2, <1>3, <1>4, <1>5, <1>6, <1>7, <1>8, <1>9, <1>10, <1>11,
     <1>12, <1>13, <1>14, <1>15, <1>16, <1>17, <1>18, <1>19
  DEF Next, Signal, Export

(* A signal notes the extraction it cuts short. *)
LEMMA InterruptedStep == TypeOK /\ HolderOK /\ InterruptedOK /\ [Next]_processVars => InterruptedOK'
<1> SUFFICES ASSUME TypeOK, HolderOK, InterruptedOK, [Next]_processVars PROVE InterruptedOK'
  OBVIOUS
<1> USE  DEF TypeOK, Stores, Unsignalled, Extracting, AtWork, HolderOK, Logging, InterruptedOK
<1>1. CASE StartHeartbeat
  BY <1>1 DEF StartHeartbeat
<1>2. CASE StartUp
  BY <1>2 DEF StartUp, Installed
<1>3. CASE Log
  BY <1>3 DEF Log
<1>4. CASE Beat
  BY <1>4 DEF Beat
<1>5. CASE Sigterm
  BY <1>5 DEF Sigterm
<1>6. CASE Die
  BY <1>6 DEF Die
<1>7. CASE HandleSigterm
  BY <1>7 DEF HandleSigterm
<1>8. CASE Joined
  BY <1>8 DEF Joined
<1>9. CASE Exit
  BY <1>9 DEF Exit
<1>10. CASE Kill
  BY <1>10 DEF Kill
<1>11. ASSUME NEW s \in Stores, CleanUp(s) PROVE InterruptedOK'
  BY <1>11 DEF CleanUp
<1>12. ASSUME NEW l \in Logging, ~Ended, FetchEnds(l) PROVE InterruptedOK'
  BY <1>12 DEF FetchEnds, Runs
<1>13. ASSUME NEW l \in Logging, Acquire(l) PROVE InterruptedOK'
  BY <1>13 DEF Acquire, Runs
<1>14. ASSUME NEW s \in Stores, Extract(s) PROVE InterruptedOK'
  BY <1>14 DEF Extract
<1>15. ASSUME NEW s \in Stores, Register(s) PROVE InterruptedOK'
  BY <1>15 DEF Register
<1>16. ASSUME NEW s \in Stores, Chain(s) PROVE InterruptedOK'
  BY <1>16 DEF Chain
<1>17. CASE UNCHANGED processVars
  BY <1>17 DEF processVars
<1>18. CASE PoolStarts
  BY <1>18 DEF PoolStarts
<1>19. CASE PoolEnds
  BY <1>19 DEF PoolEnds
<1> QED
  BY <1>1, <1>2, <1>3, <1>4, <1>5, <1>6, <1>7, <1>8, <1>9, <1>10, <1>11,
     <1>12, <1>13, <1>14, <1>15, <1>16, <1>17, <1>18, <1>19
  DEF Next, Signal, Export

(* Only a signal removes a file. *)
LEMMA KeptStep == TypeOK /\ KeptOK /\ [Next]_processVars => KeptOK'
<1> SUFFICES ASSUME TypeOK, KeptOK, [Next]_processVars PROVE KeptOK'
  OBVIOUS
<1> USE  DEF TypeOK, Stores, Unsignalled, Extracting, AtWork, KeptOK
<1>1. CASE StartHeartbeat
  BY <1>1 DEF StartHeartbeat
<1>2. CASE StartUp
  BY <1>2 DEF StartUp, Installed
<1>3. CASE Log
  BY <1>3 DEF Log
<1>4. CASE Beat
  BY <1>4 DEF Beat
<1>5. CASE Sigterm
  BY <1>5 DEF Sigterm
<1>6. CASE Die
  BY <1>6 DEF Die
<1>7. CASE HandleSigterm
  BY <1>7 DEF HandleSigterm
<1>8. CASE Joined
  BY <1>8 DEF Joined
<1>9. CASE Exit
  BY <1>9 DEF Exit
<1>10. CASE Kill
  BY <1>10 DEF Kill
<1>11. ASSUME NEW s \in Stores, CleanUp(s) PROVE KeptOK'
  BY <1>11 DEF CleanUp
<1>12. ASSUME NEW l \in Logging, ~Ended, FetchEnds(l) PROVE KeptOK'
  BY <1>12 DEF FetchEnds, Runs
<1>13. ASSUME NEW l \in Logging, Acquire(l) PROVE KeptOK'
  BY <1>13 DEF Acquire, Runs
<1>14. ASSUME NEW s \in Stores, Extract(s) PROVE KeptOK'
  BY <1>14 DEF Extract
<1>15. ASSUME NEW s \in Stores, Register(s) PROVE KeptOK'
  BY <1>15 DEF Register
<1>16. ASSUME NEW s \in Stores, Chain(s) PROVE KeptOK'
  BY <1>16 DEF Chain
<1>17. CASE UNCHANGED processVars
  BY <1>17 DEF processVars
<1>18. CASE PoolStarts
  BY <1>18 DEF PoolStarts
<1>19. CASE PoolEnds
  BY <1>19 DEF PoolEnds
<1> QED
  BY <1>1, <1>2, <1>3, <1>4, <1>5, <1>6, <1>7, <1>8, <1>9, <1>10, <1>11,
     <1>12, <1>13, <1>14, <1>15, <1>16, <1>17, <1>18, <1>19
  DEF Next, Signal, Export

(* Both ways to the end leave the files clean. *)
LEMMA CleanStep == TypeOK /\ ChainOK /\ CleaningOK /\ InterruptedOK /\ Clean /\ [Next]_processVars => Clean'
<1> SUFFICES ASSUME TypeOK, ChainOK, CleaningOK, InterruptedOK, Clean, [Next]_processVars PROVE Clean'
  OBVIOUS
<1> USE  DEF TypeOK, Stores, Unsignalled, Extracting, AtWork, ChainOK, CleaningOK, InterruptedOK, Clean, Pems
<1>1. CASE StartHeartbeat
  BY <1>1 DEF StartHeartbeat
<1>2. CASE StartUp
  BY <1>2 DEF StartUp, Installed
<1>3. CASE Log
  BY <1>3 DEF Log
<1>4. CASE Beat
  BY <1>4 DEF Beat
<1>5. CASE Sigterm
  BY <1>5 DEF Sigterm
<1>6. CASE Die
  BY <1>6 DEF Die
<1>7. CASE HandleSigterm
  BY <1>7 DEF HandleSigterm
<1>8. CASE Joined
  BY <1>8 DEF Joined
<1>9. CASE Exit
  BY <1>9 DEF Exit
<1>10. CASE Kill
  BY <1>10 DEF Kill
<1>11. ASSUME NEW s \in Stores, CleanUp(s) PROVE Clean'
  BY <1>11 DEF CleanUp
<1>12. ASSUME NEW l \in Logging, ~Ended, FetchEnds(l) PROVE Clean'
  BY <1>12 DEF FetchEnds, Runs
<1>13. ASSUME NEW l \in Logging, Acquire(l) PROVE Clean'
  BY <1>13 DEF Acquire, Runs
<1>14. ASSUME NEW s \in Stores, Extract(s) PROVE Clean'
  BY <1>14 DEF Extract
<1>15. ASSUME NEW s \in Stores, Register(s) PROVE Clean'
  BY <1>15 DEF Register
<1>16. ASSUME NEW s \in Stores, Chain(s) PROVE Clean'
  BY <1>16 DEF Chain
<1>17. CASE UNCHANGED processVars
  BY <1>17 DEF processVars
<1>18. CASE PoolStarts
  BY <1>18 DEF PoolStarts
<1>19. CASE PoolEnds
  BY <1>19 DEF PoolEnds
<1> QED
  BY <1>1, <1>2, <1>3, <1>4, <1>5, <1>6, <1>7, <1>8, <1>9, <1>10, <1>11,
     <1>12, <1>13, <1>14, <1>15, <1>16, <1>17, <1>18, <1>19
  DEF Next, Signal, Export

(* At the start there is Python's handler only. *)
LEMMA InitInv == Init => IInv
BY ChainTypes
DEF Chains, Init, IInv, TypeOK, ChainOK, CleaningOK, HolderOK, InterruptedOK, KeptOK, Clean, Unsignalled,
    Stores, Pems, Logging, Phases

(* Every step keeps the whole. *)
LEMMA StepInv == IInv /\ [Next]_processVars => IInv'
BY TypeStep, ChainStep, CleaningStep, HolderStep, InterruptedStep, KeptStep, CleanStep DEF IInv

\* The handlers fit the files, in every phase.
THEOREM Invariance == Spec => []IInv
BY InitInv, StepInv, PTL DEF Spec

\* Every variable keeps its type.
THEOREM TypeCorrect == Spec => []TypeOK
BY Invariance, PTL DEF IInv

\* The certificate outlives the last record, and no file a process that ended by
\* itself, unless the signal came in the middle of its extraction.
THEOREM PemsOutlive == Spec => []PemsOutliveRecordsOnly
<1>1. IInv => PemsOutliveRecordsOnly
  BY DEF IInv, ChainOK, Clean, PemsOutliveRecordsOnly
<1> QED
  BY <1>1, Invariance, PTL
=============================================================================
