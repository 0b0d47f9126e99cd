------------------------------- MODULE Process -------------------------------
(***************************************************************************)
(* The life of an adaptor's or extractor's process around its runs: the    *)
(* start and the SIGTERM handler of the blueprints' main modules, the      *)
(* heartbeat thread (dpn_observability_sdk/heartbeat.py), the token every  *)
(* export needs (otlp_auth.py), and the certificate files taken from the   *)
(* truststores (otlp_truststore.py, utils/kafka_truststore.py).            *)
(*                                                                         *)
(* Python runs a signal's handler on the main thread, between any two of   *)
(* its instructions, also while that thread holds a lock.  Log records are *)
(* exported by whoever logs (SimpleLogRecordProcessor), over HTTP, so that *)
(* every record asks for the token, under a lock that is not reentrant.    *)
(*                                                                         *)
(* A run of the file extractor waits for a pool of threads, each of which  *)
(* may be in a flush without a timeout (kafka_transection.py).             *)
(*                                                                         *)
(* TLS and OAuth are in use.                                               *)
(***************************************************************************)
EXTENDS Naturals, Sequences

Stores  == {"otlp", "kafka"}               \* the two truststores
Pems    == {"none", "written", "registered", "chained", "removed"}
Handler == Stores \cup {"stop", "default"} \* what a signal may run
Logging == {"main", "handler", "beat"}     \* who logs; a handler is on the
                                           \*   main thread, which waits for it
Phases  == {"starting", "running",         \* before the signal
            "cleaning", "joining", "farewell", "exiting",
            "done", "dead", "killed"}      \* how it ended

VARIABLES
  main,        \* the phase of the main thread
  pem,         \* each store's certificate file, and what will remove it
  handlers,    \* what SIGTERM runs, the outermost first
  beat,        \* the heartbeat thread: "none", "asleep", "record", "ended"
  stop,        \* its stop event
  wants,       \* who has a record to export
  holder,      \* who has the lock of get_token
  pool,        \* whether a run has threads of its own at work
  interrupted  \* stores whose extraction the signal cut short (history)

processVars ==
  <<main, pem, handlers, beat, stop, wants, holder, pool, interrupted>>

Init ==
  /\ main = "starting" /\ pem = [s \in Stores |-> "none"]
  /\ handlers = <<"default">>
  /\ beat = "none" /\ stop = FALSE
  /\ wants = {} /\ holder = "nobody"
  /\ pool = FALSE /\ interrupted = {}

Unsignalled == main \in {"starting", "running"}
Extracting  == {s \in Stores : pem[s] \in {"written", "registered"}}
-----------------------------------------------------------------------------
(* configure() and resolve_ca_pem_path(): a truststore's certificates go   *)
(* into a file, once.                                                      *)

\* The main thread's next instruction is one of its own work, not of a record.
AtWork == Unsignalled /\ "main" \notin wants

\* Mutation: every configuration extracts again.
ExtractAgain(s) ==
  /\ AtWork /\ Extracting = {}
  /\ s = "otlp" \/ pem["otlp"] = "chained"
  /\ pem' = [pem EXCEPT ![s] = "written"]
  /\ UNCHANGED <<main, handlers, beat, stop, wants, holder, interrupted, pool>>

\* mkstemp and the write: OTLP's with the first exporter, before anything else,
\* Kafka's with the first client's configuration.
Extract(s) ==
  /\ AtWork /\ pem[s] = "none" /\ Extracting = {}
  /\ s = "otlp" \/ pem["otlp"] = "chained"
  /\ pem' = [pem EXCEPT ![s] = "written"]
  /\ UNCHANGED <<main, handlers, beat, stop, wants, holder, interrupted, pool>>

\* _install_cleanup: with atexit,
Register(s) ==
  /\ AtWork /\ pem[s] = "written"
  /\ pem' = [pem EXCEPT ![s] = "registered"]
  /\ UNCHANGED <<main, handlers, beat, stop, wants, holder, interrupted, pool>>

\* and as a handler that goes on with the one before it.
Chain(s) ==
  /\ AtWork /\ pem[s] = "registered"
  /\ pem' = [pem EXCEPT ![s] = "chained"]
  /\ handlers' = <<s>> \o handlers
  /\ UNCHANGED <<main, beat, stop, wants, holder, interrupted, pool>>
-----------------------------------------------------------------------------
(* The main module and the heartbeat.                                      *)

\* Mutation: the handler was there first, and the logger's goes on with it.
InstalledBefore == <<"otlp", "stop">>

\* signal.signal: in the place of every handler so far.
Installed == <<"stop">>

\* heartbeat.start(): its thread logs at once, and so does the caller.
StartHeartbeat ==
  /\ AtWork /\ beat = "none"
  /\ pem["otlp"] = "chained" /\ Extracting = {}
  /\ beat' = "record" /\ wants' = wants \cup {"beat", "main"}
  /\ UNCHANGED <<main, pem, handlers, stop, holder, interrupted, pool>>

\* Then the handler, and the scheduler.
StartUp ==
  /\ AtWork /\ main = "starting" /\ beat # "none" /\ Extracting = {}
  /\ main' = "running"
  /\ handlers' = Installed
  /\ UNCHANGED <<pem, beat, stop, wants, holder, interrupted, pool>>

\* A run logs.
Log ==
  /\ AtWork /\ main = "running" /\ Extracting = {}
  /\ wants' = wants \cup {"main"}
  /\ UNCHANGED <<main, pem, handlers, beat, stop, holder, interrupted, pool>>

\* A run hands its files to a pool, and waits for their results.
PoolStarts ==
  /\ AtWork /\ main = "running" /\ Extracting = {} /\ ~pool
  /\ pool' = TRUE
  /\ UNCHANGED <<main, pem, handlers, beat, stop, wants, holder, interrupted>>

\* The last of its threads returns; while the broker does not answer, none does.
PoolEnds ==
  /\ pool /\ pool' = FALSE
  /\ UNCHANGED <<main, pem, handlers, beat, stop, wants, holder, interrupted>>

\* _heartbeat_loop: the interval is over, or the event is set.
Beat ==
  /\ beat = "asleep"
  /\ IF stop
     THEN beat' = "ended" /\ UNCHANGED wants
     ELSE beat' = "record" /\ wants' = wants \cup {"beat"}
  /\ UNCHANGED <<main, pem, handlers, stop, holder, interrupted, pool>>
-----------------------------------------------------------------------------
(* get_token.                                                              *)

\* What the signal interrupted stays as it is.
Runs(l) == l = "main" => Unsignalled

Acquire(l) ==
  /\ l \in wants /\ Runs(l) /\ holder = "nobody"
  /\ holder' = l
  /\ UNCHANGED <<main, pem, handlers, beat, stop, wants, interrupted, pool>>

\* The endpoint answers, or the 10 seconds of the request are over: with the
\* token or without it the record is done.  After the handler's comes sys.exit,
\* which leaves the main thread's `with _lock` as well.
FetchEnds(l) ==
  /\ holder = l /\ Runs(l)
  /\ holder' = "nobody" /\ wants' = wants \ {l}
  /\ beat' = IF l = "beat" THEN "asleep" ELSE beat
  /\ main' = IF l = "handler" THEN "exiting" ELSE main
  /\ UNCHANGED <<pem, handlers, stop, interrupted, pool>>
-----------------------------------------------------------------------------
(* SIGTERM.                                                                *)

Sigterm ==
  /\ Unsignalled
  /\ main' = "cleaning" /\ interrupted' = Extracting
  /\ UNCHANGED <<pem, handlers, beat, stop, wants, holder, pool>>

\* A truststore's handler removes its file and calls the next.
CleanUp(s) ==
  /\ main = "cleaning" /\ Head(handlers) = s
  /\ pem' = [pem EXCEPT ![s] = "removed"]
  /\ handlers' = Tail(handlers)
  /\ UNCHANGED <<main, beat, stop, wants, holder, interrupted, pool>>

\* None of Python's: the process dies, without atexit.
Die ==
  /\ main = "cleaning" /\ Head(handlers) = "default"
  /\ main' = "dead"
  /\ UNCHANGED <<pem, handlers, beat, stop, wants, holder, interrupted, pool>>

\* _handle_sigterm: heartbeat.stop() sets the event and joins.
HandleSigterm ==
  /\ main = "cleaning" /\ Head(handlers) = "stop"
  /\ stop' = TRUE /\ main' = "joining"
  /\ UNCHANGED <<pem, handlers, beat, wants, holder, interrupted, pool>>

\* Mutation: a join without a timeout.
JoinWaits ==
  /\ main = "joining" /\ beat = "ended"
  /\ main' = "farewell" /\ wants' = wants \cup {"handler"}
  /\ UNCHANGED <<pem, handlers, beat, stop, holder, interrupted, pool>>

\* The thread has ended, or 5 seconds are over; that it stopped is logged.
Joined ==
  /\ main = "joining"
  /\ main' = "farewell" /\ wants' = wants \cup {"handler"}
  /\ UNCHANGED <<pem, handlers, beat, stop, holder, interrupted, pool>>

\* SystemExit leaves the run by way of the pool's `with`, which waits for its
\* threads; then atexit removes every file it was told of.
Exit ==
  /\ main = "exiting" /\ ~pool
  /\ pem' = [s \in Stores |-> IF pem[s] \in {"registered", "chained"}
                              THEN "removed" ELSE pem[s]]
  /\ main' = "done"
  /\ UNCHANGED <<handlers, beat, stop, wants, holder, interrupted, pool>>

\* The grace period is over.
Kill ==
  /\ main \in {"cleaning", "joining", "farewell", "exiting"}
  /\ main' = "killed"
  /\ UNCHANGED <<pem, handlers, beat, stop, wants, holder, interrupted, pool>>
-----------------------------------------------------------------------------
Ended == main \in {"done", "dead", "killed"}

Signal ==
  \/ Die \/ HandleSigterm \/ Joined \/ Exit
  \/ \E s \in Stores : CleanUp(s)

Export == \E l \in Logging : FetchEnds(l)

Next ==
  /\ ~Ended
  /\ \/ StartHeartbeat \/ StartUp \/ Log \/ Beat \/ PoolStarts \/ PoolEnds
     \/ Sigterm \/ Signal \/ Kill \/ Export
     \/ \E l \in Logging : Acquire(l)
     \/ \E s \in Stores : Extract(s) \/ Register(s) \/ Chain(s)

\* Threads are scheduled, and neither a request nor a join waits for ever; that
\* is all.  No flush need return, no signal come and no grace period end.
Spec ==
  /\ Init /\ [][Next]_processVars
  /\ WF_processVars(Signal) /\ WF_processVars(~Ended /\ Export)
  /\ WF_processVars(~Ended /\ Beat)
  /\ WF_processVars(~Ended /\ Acquire("handler"))
-----------------------------------------------------------------------------
(* Properties.                                                             *)

TypeOK ==
  /\ main \in Phases /\ pem \in [Stores -> Pems]
  /\ handlers \in Seq(Handler) /\ Len(handlers) \in 1..3
  /\ beat \in {"none", "asleep", "record", "ended"} /\ stop \in BOOLEAN
  /\ wants \subseteq Logging /\ holder \in Logging \cup {"nobody"}
  /\ pool \in BOOLEAN
  /\ interrupted \subseteq Stores

\* The certificate file outlives the last record, which is exported over TLS; and
\* no file outlives a process that ended by itself, unless the signal came in the
\* middle of its extraction ("atexit alone is not enough", _install_cleanup).
PemsOutliveRecordsOnly ==
  /\ main \in {"joining", "farewell", "exiting"} => pem["otlp"] # "removed"
  /\ main \in {"done", "dead"} =>
       \A s \in Stores \ interrupted : pem[s] \in {"none", "removed"}

\* The handler waits for the lock that its own thread holds.
SelfLocked == main = "farewell" /\ holder = "main"

\* The way out waits for a thread in a flush that never returns.
PoolHangs == main = "exiting" /\ pool

\* A signalled process ends by itself, whoever was fetching a token and whether
\* or not it can be had, unless the signal found the main thread in get_token or
\* a flush never returns ("followed by an explicit stop rather than just silence",
\* _handle_sigterm: the farewell comes before the pool is waited for).
SignalEnds == main = "cleaning" ~> Ended \/ SelfLocked \/ []PoolHangs
=============================================================================
