------------------------------ MODULE RunHistory ------------------------------
(***************************************************************************)
(* Run history (service/run_history.py, _refresh_history, history and      *)
(* _run_once_and_record of ui/app.py): what the containers logged of their *)
(* runs is read by whoever opens the page, and kept in one file.           *)
(*                                                                         *)
(* The logs are read before the file's lock is taken, so that batches may  *)
(* be recorded late and out of order.  Run Now is a session of its own,    *)
(* whose output is in no log: the background task that ran it records it.  *)
(*                                                                         *)
(* A record is a tracked event: its timestamp, its stage, and its run. A   *)
(* run logs several.  Time counts the events and the days without any.     *)
(* Records of one stage are those of one product.                          *)
(***************************************************************************)
EXTENDS Naturals, FiniteSets

CONSTANTS
  Visits,      \* threads that serve the page or a Run Now
  MaxNow,      \* bound on time
  MaxRecords,  \* DPN_RUN_HISTORY_MAX_RECORDS
  MaxAge       \* DPN_RUN_HISTORY_MAX_AGE_DAYS

Stages  == {"adaptor", "extractor"}
Times   == 1..MaxNow
Records == [at : Times, stage : Stages, run : Times]

VARIABLES
  now,       \* the time of the latest event
  logs,      \* what each stage's container has in its log
  store,     \* run_history.json
  visit,     \* what each thread is doing: [at, stage, batch]
  processed  \* records that were handed to the history (history)

historyVars == <<now, logs, store, visit, processed>>

Away == [at |-> "idle", stage |-> "adaptor", batch |-> {}]

Init ==
  /\ now = 0 /\ logs = [s \in Stages |-> {}] /\ store = {}
  /\ visit = [v \in Visits |-> Away] /\ processed = {}

\* The timestamps after x's are fewer than n in records.
Newest(records, n) ==
  {x \in records : Cardinality({y \in records : y.at > x.at}) < n}

Of(records, stage) == {x \in records : x.stage = stage}
Young(records) == {x \in records : x.at + MaxAge >= now'}

\* Mutation: one cap for both roles, as it once was.
PrunedTogether(records) == Newest(Young(records), MaxRecords)

\* _write_all: too old goes, then each stage keeps its newest.
Pruned(records) ==
  UNION {Newest(Of(Young(records), s), MaxRecords) : s \in Stages}

\* The key has the timestamp: no two events of a container share one.
Unseen(batch) == {x \in batch : x \notin store}
-----------------------------------------------------------------------------
(* The containers.                                                         *)

\* An event of the run under way, or the first of a new one.
EventsOf(stage) ==
  {[at |-> now', stage |-> stage, run |-> run] :
     run \in {now'} \cup {x.run : x \in Newest(logs[stage], 1)}}

Logged(stage) ==
  /\ now < MaxNow /\ now' = now + 1
  /\ \E x \in EventsOf(stage) : logs' = [logs EXCEPT ![stage] = @ \cup {x}]
  /\ UNCHANGED <<store, visit, processed>>

\* The container is recreated, or its older lines are beyond the tail.
LogsShrink(stage) ==
  /\ logs[stage] # {}
  /\ \E kept \in {{}, Newest(logs[stage], 1)} :
       kept # logs[stage] /\ logs' = [logs EXCEPT ![stage] = kept]
  /\ UNCHANGED <<now, store, visit, processed>>

NothingHappens ==
  /\ now < MaxNow /\ now' = now + 1
  /\ UNCHANGED <<logs, store, visit, processed>>
-----------------------------------------------------------------------------
(* The application.                                                        *)

\* _refresh_history: one container's log is read.
Fetch(v, stage) ==
  /\ visit[v].at = "idle"
  /\ visit' = [visit EXCEPT ![v] =
                 [at |-> "record", stage |-> stage, batch |-> logs[stage]]]
  /\ UNCHANGED <<now, logs, store, processed>>

\* record_from_logs: under the lock the file is read, and written only if there
\* is something new.
Record(v) ==
  LET batch == visit[v].batch IN
  /\ visit[v].at = "record"
  /\ visit' = [visit EXCEPT ![v] = Away]
  /\ processed' = processed \cup batch
  /\ UNCHANGED <<now, logs>>
  /\ store' = IF Unseen(batch) = {} THEN store ELSE Pruned(store \cup Unseen(batch))

\* Run Now: the background task executes the cycle in the container.
RunNow(v, stage) ==
  /\ visit[v].at = "idle"
  /\ visit' = [visit EXCEPT ![v] = [at |-> "exec", stage |-> stage, batch |-> {}]]
  /\ UNCHANGED <<now, logs, store, processed>>

ExecEnds(v) ==
  LET x == [at |-> now', stage |-> visit[v].stage, run |-> now'] IN
  /\ visit[v].at = "exec" /\ now < MaxNow /\ now' = now + 1
  /\ visit' = [visit EXCEPT ![v].at = "record", ![v].batch = {x}]
  /\ UNCHANGED <<logs, store, processed>>

\* record_failure: no container, no permission, a connection lost.
ExecFails(v) ==
  LET x == [at |-> now', stage |-> visit[v].stage, run |-> now'] IN
  /\ visit[v].at = "exec" /\ now < MaxNow /\ now' = now + 1
  /\ store' = Pruned(store \cup {x})
  /\ processed' = processed \cup {x}
  /\ visit' = [visit EXCEPT ![v] = Away]
  /\ UNCHANGED logs

\* The application restarts: batches and outputs not yet recorded are gone.
Restart ==
  /\ \E v \in Visits : visit[v] # Away
  /\ visit' = [v \in Visits |-> Away]
  /\ UNCHANGED <<now, logs, store, processed>>
-----------------------------------------------------------------------------
Next ==
  \/ NothingHappens \/ Restart
  \/ \E s \in Stages : Logged(s) \/ LogsShrink(s)
  \/ \E v \in Visits :
       \/ Record(v) \/ ExecEnds(v) \/ ExecFails(v)
       \/ \E s \in Stages : Fetch(v, s) \/ RunNow(v, s)

Spec == Init /\ [][Next]_historyVars
-----------------------------------------------------------------------------
(* Properties.                                                             *)

TypeOK ==
  /\ now \in 0..MaxNow /\ logs \in [Stages -> SUBSET Records]
  /\ store \subseteq Records /\ processed \subseteq Records
  /\ visit \in [Visits -> [at : {"idle", "exec", "record"}, stage : Stages,
                           batch : SUBSET Records]]

\* Whatever the order batches are recorded in, and whoever records them, each
\* role's history has the newest of what was handed to it, up to its own cap:
\* no event is taken for another, undone by another thread's write, or pushed
\* out by the other role's runs (_write_all, record_from_logs).
KeptToTheCap ==
  \A s \in Stages :
    Newest({x \in Of(processed, s) : x.at + MaxAge >= now}, MaxRecords)
      \subseteq store
=============================================================================
