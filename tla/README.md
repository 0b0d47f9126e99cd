# dpn-data-pipelines in TLA+

A verification project for the data pipelines of the Data Preparation Node: the
processes that move messages and files from a producer organisation to its
consumers, the trigger that starts them, and the self-service application that
creates, starts, pauses and removes them.  Paths are relative to the repository
root; the repository's own files are under `src/` in `PROJECT.json`.

Contents: [the system](#the-system), [modules](#modules), [runs](#runs),
[bounds](#bounds), [fairness](#fairness), [proofs](#proofs),
[findings](#findings), [what is not modelled](#what-is-not-modelled),
[plan](#plan).

## The system

| part | code | state it keeps | operations |
|---|---|---|---|
| topic adaptor | `blueprints/producer/topic/adaptor/main.py` | consumer session and group offset, producer queue, window deadline | `run`, `run_window`, `_forward`, `_on_delivery`, SIGTERM |
| topic extractor | `blueprints/consumer/topic/extractor/main.py` | the same, and `self.target_topic` | the same, and `_resolve_target` |
| triggered forwarder | `utils/topic_forwarder.py` | consumer session and group offset, producer queue | `_run_drain`, `_run_continuous`, `_forward_one` |
| topic manager | `utils/topic_utils.py` | topics of the broker | `ensure_exists`, `delete_topic`, `exists` |
| Kafka trigger | `utils/kafka_trigger.py` | offset on the control topic, last run id, status topic | `_wait_for_trigger`, `_execute_pipeline`, `publish`, `publish_trigger`, `poll_for_status` |
| file adaptor | `blueprints/producer/file/adaptor/main.py` | none between cycles; two containers and an event topic | list, `move_files`, `send_to_kafka` |
| file extractor | `blueprints/consumer/file/extractor/main.py` | the same; a pool of threads that share one Kafka producer | `list_files`, `process_file`, `publish_event` |
| storage access | `utils/data_transection.py` | objects and their times of modification | listings, `file_copy`, `file_move`, ... for three clouds |
| scheduler backends | `utils/scheduler_backend.py` | the next tick | interval, Airflow, standalone, `run_once` |
| self-service routes | `ui/app.py` | none of their own | confirm, start, stop, pause, resume, delete, run now, consumer pipelines |
| registry | `service/registry.py` | `data_products.json` | `create_product`, `set_active`, `set_execution_mode`, `delete_product`, restore |
| registry backup | `service/registry_backup.py` | the mirror in the storage account, upload threads | `backup`, `restore_if_missing` |
| runtimes | `service/podman_ops.py`, `service/k8s_ops.py` | containers, or Deployments and autoscalers | `launch`, `stop`, `set_execution_mode`, `run_once` |
| pre-checks | `service/precheck.py` | topics and containers of the platform | exists, delete |
| run history | `service/run_history.py` | `run_history.json` | `record_from_logs`, `record_failure`, `_write_all` |
| consumer pipelines | `service/consumers.py`, the consumer routes of `ui/app.py` | `consumer_execution_modes.json`, the fixed containers | pause, resume, delete |
| pages | `ui/static/js/*.js` | requests under way, what is on the screen | live checks, history filters |
| heartbeat | `dpn_observability_sdk/heartbeat.py` | a thread and its stop event | `start`, `stop`, the loop |
| export of records | `dpn_observability_sdk/otlp_auth.py`, `otel_logger.py` | a cached token and its lock | `get_token` |
| truststores | `dpn_observability_sdk/otlp_truststore.py`, `utils/kafka_truststore.py` | certificate files, handlers of SIGTERM | extraction, `_install_cleanup` |
| step logger | `utils/step_logger.py` | start times of the steps of one run | `step_start`, `step_end`, `step_failed` |

How they interact.  A topic stage reads one Kafka topic and writes others; the
broker decides when a copy is acknowledged and which process of a group reads.
A file stage reads and writes storage containers and announces copies on a
topic.  The scheduler calls a stage's `run` in its process; *Run Now* starts
another process in the same container (`run_once`), and a rolling update has
two pods for a while, so that every stage may find itself beside a twin.  The
Kafka trigger runs its pipeline on the thread that polls.  The application's
handlers run on FastAPI's thread pool and change two stores, the registry (one
lock per call) and the runtime (no lock), and each registry write is mirrored
to the storage account by a thread of its own with a bounded wait.  The run
history is read out of the containers' logs by whoever opens its page, and
written by the background task of a *Run Now*.  In a stage's process the main
thread, the heartbeat's thread and the handler of SIGTERM, which runs on the
main thread, all log, and every record is exported with a token from one lock.

What is hard, by part (`PROJECT.json` lists each hazard at its line):

- topic stages: offsets are committed when a message was polled, not when its
  copy was acknowledged; flushes time out; delivery reports come late or never;
  SIGTERM raises `SystemExit` between `poll()` and `produce()`; twins rebalance.
- triggered forwarder: drain mode commits what it queued, continuous mode what
  it polled; its flush has no bound, so that a broker that never answers holds
  the run up.
- Kafka trigger: commits before it runs; remembers one run id, in memory; a
  payload that is no JSON object stops the pod before the commit; a requester
  may be answered by what belongs to an earlier trigger.
- file stages: what is new is decided by times of one second's resolution that
  were read before the copy; a crash between a copy and its event; a producer
  made by the first thread that needs it, without a lock, and flushed without a
  bound; Azure answers a copy request before it has copied.
- self-service: handlers act on rows read before; half-done handlers; a removal
  by podman whose failure nobody sees; a check
  for a name's existence long before the name exists.
- registry: a truncating write, an upload that outlives its wait, a restore.
- consumer pipelines: the override is written under a lock, the container told
  after it without one; podman removes before it runs again.
- run history: logs are read before the lock, batches come late and twice.
- pages: answers in any order or none; a field emptied during its check; a
  button enabled by the answer to a confirmation, whatever the fields say.
- process: a lock that is not reentrant and a handler on the same thread;
  handlers of SIGTERM that chain or replace each other; a pool that is waited for
  on the way out.

## Modules

| module | models | state ↔ code | actions ↔ code |
|---|---|---|---|
| `GroupCursor` | what a consumer group promises the stages (abstract) | `log`, `cursor`, `committed`, `faults` | `Publish`, `Take`, `Commit`, `Rewind` |
| `TopicWindow` | both topic stages, any number of processes of one group | `pc`/`ending`/`hand`/`dest`: `run_window`'s control, its deadline, the message in hand and `self.target_topic`; `queue`/`adrift`: the producer's queue in and after its window; `pos`/`owner`/`committed`: the client's stored offset and the group; `exists`: topics | see below |
| `DrainForward` | `TopicForwarder`, drain and continuous | `mode`; `pos`, `committed`, `queue`, `pc` | `Subscribe` ... `FlushAndClose`, one per step of the loop; `AutoCommit` (continuous) |
| `TriggerLife` | what the trigger backend promises of each trigger (abstract) | `life`, `runs`, `answers`, `faults` | `Ask`, `Take`, `Run`, `Answer`, `Lose`, `Mishap` |
| `KafkaTrigger` | `KafkaTriggerBackend`, several pods | `control`, `committed`, `owner`; `last` is `_last_processed_run_id`; `answers` is the status topic; `ask`: where a requester reads | WAIT: `Poll` `Choke` `CommitStray` `CommitTrigger` `CommitFails`; EXECUTE: `Duplicate` `SkipManual` `RunPipeline` `Succeed` `FailRun` `ReportRaises` `Publish`; the requester: `Probe` `Trigger` `TriggerFails` `TakeAnswer` `GiveUp` |
| `FilePipeline` | both file stages, several processes | `stage` and `azure`: which blueprint and which cloud, in one state space; `source`, `target` (version and time of modification); `pending`, `hollow`: Azure's unfinished and failed copies; `job`: what a process or a pool thread does with a file | `ListAll`/`ListSource`/`ListTarget`, `LookAtSource`/`LookAtTarget` (the gate), `CopyBegins`/`CopyRefused`/`CopyAccepted`/`CopyEnds`, `PendingEnds`/`PendingFails`; `send_message`: `Produce`, `Flush`, `ProducerReplaced`/`FlushOfOthers`; failures, `Crash` |
| `SelfService` | the state-changing routes, the registry functions, both runtimes | `registry` rows, `deployed` environments, `names` on the platform, `request`: each thread's handler with the row it works with and what it has yet to do | one action per route and per effect; `RuntimeFails`, `RemoveFailsUnseen` |
| `RegistryBackup` | the registry's file, its mirror, startup | `file` (possibly `Missing` or `Torn`), `store`, `inflight` uploads | startup, update, upload and their failures, lost volumes |
| `ConsumerPipelines` | pause, resume and delete of a fixed consumer pipeline | `override`, `container`; `click`: each thread's route | `Toggle`; Kubernetes: `Patch`; podman: `Inspect` `Remove` `Run`; their failures; `Delete`, `Redeploy` |
| `RunHistory` | the history file and those who write it | `store`; `logs`: what the containers have; `visit`: each thread's batch | `Fetch`/`Record` (`_refresh_history`), `RunNow`/`ExecEnds`/`ExecFails`, `Restart`; the containers: `Logged`, `LogsShrink` |
| `Pages` | the review step and the history page in the browser | `value`, `status`, `token`, `checks`: the fields and their checks; `enabled`, `loading`, `posts`: the button and the confirmations under way; `shown`, `address`, `latest`, `loads`: the filters | `Mount` `Type` `Recheck` `Answered` `Unanswered` `Submit` `ConfirmRefused`; `Click` `Back` `Loaded` `LoadFails` `Reload` |
| `Process` | start and end of a stage's process | `main`, `beat`: its threads; `handlers`: what SIGTERM runs; `holder`: `get_token`'s lock; `pem`: certificate files; `pool`: threads of the extractor's pool at work | `Extract`/`Register`/`Chain`, `StartHeartbeat`/`StartUp`, `Log`/`Beat`, `PoolStarts`/`PoolEnds`, `Acquire`/`FetchEnds`, `Sigterm` and what follows it |
| `MCConsole` | composition of `RegistryBackup`, `ConsumerPipelines`, `RunHistory`, `Pages` for TLC | `part`: the part a behaviour is about | the actions of that part |
| other `MC...` | constants for TLC | | |
| `..._proofs` | theorems about the module they are named after (`Console_proofs`: about `MCConsole` and its parts), see [proofs](#proofs) | | |

`TopicWindow` has one action per thing that happens in a window: `OpenWindow`
(`run` builds a forwarder), `Poll`, `Skip`/`Reject`/`Forward`/`ForwardFails`
(`_forward`), `DeadlineSeen`/`BrokerError`/`IdleExit` (how a session's loop
ends), `Flush`/`Close`/`Retry` (the `finally` block and the sleep),
`Terminate`/`Crash`, and for the world around it `Expire`, `Assign`, `Revoke`,
`AutoCommit`, `LoseSession`, `Deliver`, `DeliveryFails`, `LateDelivery`.  The
adaptor is the instance with a `FixedTarget`, the extractor the one without and
with `IdleExits`.  It implements `GroupCursor` with the refinement mapping
`cursor <- Cursor`, the owner's position, or the committed offset when nobody
owns the partition.

`KafkaTrigger` implements `TriggerLife` with `life <- Life`, `runs <- executed`:
a trigger waits while its offset is past the committed one, is taken while a pod
holds it after its commit, then answered or lost.  What pods, sessions and the
requester do beside is a stutter or a `Mishap`.

In `SelfService` a handler is the list of effects it has yet to perform, as the
route's body lists its calls; every effect is one action, atomic because the
registry function holds the lock or because the runtime call is one request.
Two history variables say which handlers overlapped and which products may
disagree, so that the agreement of registry and runtime can be stated as what
is true whenever nothing excuses a difference, and regained when a handler that
repairs it ran alone.  Under podman a removal may fail without anybody noticing
(`rm -f` with `check=False`, after an inspect whose error passes for absence):
`RemoveFailsUnseen` goes on as if it had removed, and is one of those excuses.
`RegistryBackup` opens up what is one step there.

In `FilePipeline` an event is produced in one step and flushed in another.  The
adaptor has one thread.  The threads of the extractor's pool share the object
that makes its producer when it is first asked for one, without a lock, and
`send_message` asks twice: `ProducerReplaced` is the thread whose event is in a
producer that another thread has replaced meanwhile, and which therefore flushes
the new one; nobody waits for the event, which arrives or does not.  A run builds
the object anew, so that this may happen in any cycle with two pending files.
What the other files of the pool do beside this is not in the state: `Files` are
those whose story is told.

In `Pages` the button is a variable of its own.  Every mark of a field decides
about it (`UpdateSubmitState`), a click disables it, and `clearLoading` enables it
after any answer to the confirmation but a new panel (`ConfirmRefused`).

The four parts of `MCConsole` share no state in the code but the process they
run in, so that a behaviour is about one of them and leaves the others where
they began: the state space is the sum of the four, not their product, and a
property of one part is checked on all of that part's behaviours.

Each definition starting with the comment *Mutation* is a plausible bug in the
definition it stands before; nothing else refers to it.  Replacing the one by
the other must break the property that `PROJECT.json` pairs it with, which
shows that the property does depend on that line of the code.

## Runs

Check a run with `tlc -config <cfg> <module>`.

| cfg | module | shows | distinct states |
|---|---|---|---|
| `TopicExtractor` | `MCTopicWindow` | `NothingSilentlyLost`: no message behind the committed offset vanishes without a log line, except from a process that ended; `RoutedByOwnHeaders`; `WindowsEnd` and `EveryMessageSettled` although the broker may never answer | 399,122 |
| `TopicAdaptor` | `MCTopicWindow` | two processes: `OnlyFaultsDuplicate`, `CommitNeverGoesBack`, and `OneCursor`, the refinement of `GroupCursor` | 1,715,318 |
| `Drain` | `DrainForward` | both modes: `CommittedWasProduced`, the group passes no message but the one in hand before it was produced; `RepeatsNeedFailures`; `EverythingForwarded`, all that arrives is committed and runs return, unless a run waits for ever in a flush that nobody answers | 89,499 |
| `Trigger` | `MCKafkaTrigger` | two pods and a requester: `AtMostOncePerTrigger`, `RightAnswer`, `OneLife`, the refinement of `TriggerLife`, `EveryTriggerSettled` unless a payload that is no object stands before it | 321,476 |
| `Files` | `MCFilePipeline` | two processes, either stage, Azure or not: `StaleOnlyIfRaced`, `UnannouncedOnlyIfLost` (to a fault or, in the extractor, with a replaced producer), `OneEventPerProcess`, `AnnouncedIsThere`, and `UploadArrives` unless it raced a copy, Azure failed it or a flush holds up every process for ever | 594,394 |
| `Service` | `MCSelfService` | two concurrent handlers, both runtimes, removals that fail unseen: `AgreeWhenQuiet`, `NoLostUpdate` | 386,560 (up to symmetry) |
| `Console` | `MCConsole` | the registry's file: `OnlyLateUploadsRegress`, `OwedIsKept`, `CallsReturn`; consumer pipelines: `ShownModeIsReal`, `GoneMeansDeleted`; run history: `KeptToTheCap`; pages: `SubmitMeansChecked`, `EveryFieldIsDecided`, `AddressIsShown` | 149,416 |
| `Process` | `Process` | `PemsOutliveRecordsOnly`; `SignalEnds` although the token endpoint may never answer, but for a signal inside `get_token` or a pool thread in a flush that never returns | 910 |
| `DrainCommit`, `TriggerRetry`, `NameClash`, `DeleteRace` | | counterexamples, see [findings](#findings) | |

Each module's `TypeOK` is among the invariants of its first run (`PartsTypeOK`
for the parts of `MCConsole`).  Deadlock is checked in all of them but
`Process`, whose system does end.  No property mentions a state the run does not reach:
the excuses the invariants allow (`reported`, `dropped`, `lost`, `raced`,
`excused`, `hollow`, `disturbed`, `abandoned`, `doubt`,
`emptied`, `guess`, `forced`, `interrupted`) are history variables that the actions of
the code fill, never chosen freely.

## Bounds

- `TopicExtractor`: 1 process, 2 messages with any of 4 header values, 2 target
  topics, a producer queue of 1, 1 crash or lost session while the process holds
  the partition (SIGTERM, broker errors, failed deliveries and other crashes are
  not bounded).  Two messages suffice for a stale target, a full queue and a
  message that overtakes another's acknowledgement; a window may end and start
  again any number of times.
- `TopicAdaptor`: 2 processes (one with a deadline), 2 messages, 1 target, 1
  fault.  Two processes are what a rebalance needs; one fault shows that copies
  are counted against faults.
- `Drain`: 3 messages, a queue of 2 so that it fills up, 2 failures.
- `Trigger`: 2 pods, 1 run id (so that every second trigger is a retry), 3
  messages of 4 kinds (two triggers, a foreign one, a scalar), 1 fault: a
  requester can give up, retry, and meet the answer to its first trigger.
- `Files`: 2 processes, 1 file, 2 versions, seconds 0 to 2, 1 fault.  A second
  version and a second second are what a race of an upload and a copy needs; no
  action on a file looks at another.
- `Service`: 1 product, 2 names, 2 modes, 2 handlers at a time, any number of
  them in sequence.  Products do not share state but for names, and two is the
  number of handlers a race takes.  `RmMayFail` is true; `NameClash` and
  `DeleteRace` set it to false, so that what they find owes nothing to it.
- `Console`: registry, 3 updates, 2 lost volumes or failed calls (crashes,
  time-outs and late uploads are not bounded); consumers, 2 threads, 2 calls that
  fail; run history, 2 threads, 3 units of time, a cap of 1 and an age of 1, so
  that both the cap and the age throw records away (one of time 1 is too old at
  time 3); pages, 2 fields, 2 names one of which is taken, 3 checks per field, 2
  confirmations under way, 2 filters and 3 loads, so that an answer is overtaken
  by a later one and by one after that.
- `Process`: two truststores, one heartbeat, one signal; no numeric bound.

Bounds are guards on the inputs (`Publish`, `Probe`, `Stray`, `Upload`, `Update`,
`Tick`, `Logged`, `Type`, `Submit`, `Load`) and on faults.  Symmetry is declared
for the handlers' threads of `Service`, which are interchangeable in its
properties, none of which is a liveness property.

## Fairness

- `TopicWindow!FairSpec`: a running process takes its next step and its deadline
  comes (weak fairness); the interval scheduler opens the next window
  (`IntervalBackend.execute` loops for ever); assignment and polling are
  strongly fair, because a window of `TOPIC_TASK_TIMEOUT` seconds is long
  against a rebalance.  Nothing is asked of the broker's acknowledgements:
  that is the point of `WindowsEnd`.
- `DrainForward!FairSpec`: the loop goes on, triggers keep coming, and the client
  of a continuous run commits in the background.  Nothing makes the broker answer
  for a queued copy, as the topic stages' comments have it (an unbounded flush
  "blocks forever on an undelivered backlog"), so that a run may stay in its flush:
  `EverythingForwarded` ends in `[]FlushBlocked` there.
- `KafkaTrigger!FairSpec`: a dead pod is restarted (its Deployment), some pod
  gets the partition, a pod that polls again and again gets the message.
- `FilePipeline!FairSpec`: the scheduler starts cycles, a cycle goes on, and Azure
  ends a copy it accepted, one way or the other.  Nothing makes a flush return:
  `UploadArrives` ends in `[]InFlush` of every process there.
- `MCConsole!ConsoleSpec`: a file write ends and so does a wait with a timeout;
  nothing is asked of the storage service.  In the browser the timer fires, and a
  request ends, with an answer or without.  Consumer pipelines and the run
  history have no liveness property and no fairness.
- `Process!Spec`: threads are scheduled, a request to the token endpoint ends (its
  timeout is 10 seconds) and a join too (5 seconds); whoever waits for the token's
  lock in the handler gets it when it is free.  No signal need come, no flush of a
  pool thread return, and no grace period end a process that hangs.

## Proofs

Eight modules, each beside the specification it extends, prove every invariant
and every action property that the passing runs check, and the two refinements,
of `GroupCursor` and of `TriggerLife`.  `tlapm <module>` checks one (SMT, Zenon
and PTL backends).

| module | theorem | property |
|---|---|---|
| `TopicWindow_proofs` | `TypeCorrect`, `NoSilentLoss`, `DuplicatesNeedFaults`, `Routed` | `TypeOK`, `NothingSilentlyLost`, `OnlyFaultsDuplicate`, `RoutedByOwnHeaders` |
| | `CommitsAdvance`, `OneCursorTheorem` | `CommitNeverGoesBack`, `OneCursor` (every step is one of `GroupCursor` or a stutter) |
| `DrainForward_proofs` | `TypeCorrect`, `ProducedBeforeCommit`, `RepetitionNeedsFailures` | `TypeOK`, `CommittedWasProduced`, `RepeatsNeedFailures` |
| `KafkaTrigger_proofs` | `TypeCorrect`, `AtMostOnce`, `TakesRightAnswer` | `TypeOK`, `AtMostOncePerTrigger`, `RightAnswer` |
| | `KeepsPromise`, `CommittedAnswered` | `OneLife` (every step is one of `TriggerLife` or a stutter); that a committed trigger is answered, held or lost |
| `FilePipeline_proofs` | `TypeCorrect`, `StaleIfRaced`, `CopiedIsAnnounced`, `AnnouncedOncePerProcess`, `AnnouncedArrived` | `TypeOK`, `StaleOnlyIfRaced`, `UnannouncedOnlyIfLost`, `OneEventPerProcess`, `AnnouncedIsThere` |
| `SelfService_proofs` | `TypeCorrect`, `RowAndContainerAgree`, `NoUpdateLost` | `TypeOK`, `AgreeWhenQuiet`, `NoLostUpdate` |
| `RegistryBackup_proofs` | `TypeCorrect`, `MirrorKeeps`, `RegistryKeeps` | `TypeOK`, `OnlyLateUploadsRegress`, `OwedIsKept` |
| `Console_proofs` | `PartsTypeCorrect`, `ConsoleRegistryKeeps`, `ShownModeReal`, `GoneForAReason`, `HistoryKept`, `SubmitChecked`, `AddressShown` | `PartsTypeOK`, the two of the registry, `ShownModeIsReal`, `GoneMeansDeleted`, `KeptToTheCap`, `SubmitMeansChecked`, `AddressIsShown` |
| `Process_proofs` | `TypeCorrect`, `PemsOutlive` | `TypeOK`, `PemsOutliveRecordsOnly` |

They hold for every value of the constants that the `...Assumption` of each
module allows: bounds are naturals, special values (`NoRow`, `Absent`, `Missing`,
`Torn`, `NoPod`, `Gone`, `Empty` ...) differ from the values they stand beside,
foreign messages are no triggers, and for a count, the processes are finitely
many (`FilePipelineAssumption`).  In `ConsoleAssumption` there is a name and a
filter to begin with and room for a check.  `Process` has no constants.  So the
runs' bounds, listed above, do not limit these results; they limit what the runs
say about liveness.

### The arguments

Hardly a property is inductive as it stands.  Each module states an `IInv`
(`ConsoleInv`) whose parts are preserved by a lemma each, with one step per action;
the theorems combine them with the temporal rule.  Each was checked with TLC, on
the constants of its component's run, before it was proved.

`TopicWindow`: to `TypeOK` and `RoutedByOwnHeaders` it adds

- `HandOK`: a message is in hand exactly while its process forwards it;
- `CursorOK`: only a process with an open session owns the partition, its
  position is not behind the committed offset and not past the log;
- `FlushedOK`: what a process still queues when it is about to close or waits
  for its next session has been reported by `Flush`;
- `TraceOK`: every message before the cursor, not only before the committed
  offset, is accounted for.  A message after the committed offset may be
  committed any time by the background thread, so the property alone is not
  preserved by `AutoCommit`;
- `AttemptsOK`: attempts at a message are bounded by the faults, strictly for
  messages the cursor has not reached, and copies carry the number of their
  attempt.  The slack of one is what a `Rewind` consumes.

`DrainForward`: `ReadOK`, everything a run has read is produced, in its hand or
dropped (in drain mode only by a run that polls no more); `SyncOK`, a drain run polls
exactly from what it committed; `AttemptsOK` as above, failed runs in the place
of faults.

`KafkaTrigger`: at most one execution and one answer follow from the order of
commit and run.  `HandOK`, who executes a trigger holds a committed one, and no
two pods hold the same; `CommitOK`, a pod that commits as the owner commits the
next offset, so that a pod that lost the partition between poll and commit
cannot pass a commit off as its own; `ExecutedOK` and `AnswersOK`, a trigger
still to be decided was not executed and one in a pod's hand not answered.
For the requester, `AskOK`: offsets that were not open when it began are
answered already, and whatever is published after its starting position answers
an open one.  The refinement `OneLife` reads a trigger's life off five facts (it
is on the topic and for these pods, answered, lost, held, past the committed
offset) and needs three parts more: `LostOK`, what is lost was committed and is
in nobody's hand; `VerdictOK`, what a pod is about to answer fits what it did;
`CommittedIsAnswered`, no committed trigger is forgotten.  A lemma for each form
of step says whose life it changes: no step changes more than one.  A commit
takes the first trigger that waits, since all before it are committed; a commit
that raised though the broker took it, a crash with a trigger in hand and an
undelivered status lose one trigger each, and each is a fault.

`FilePipeline`: `JobsOK` ties what a process remembers of a file (the listed
times, the version it copies, the version it will announce) to the source and
target of now, or to a race; `ObjectsOK` and `EventsOK` bound versions and times.
`OneEventPerProcess` is a count: `CountOK` bounds the events of a version
together with the processes that may still announce it (`MayAnnounce`), so that
each announcement moves a process from one summand to the other and each failed
lookup, which lets it come back, is paid for by a fault.

`SelfService`: `PlanOK`, what a handler has yet to do is the end of what its route
began with; `OverlapOK`, two handlers at work on one product are both marked, and
only they and only on a disturbed product; `SoloOK`, a handler that met nobody
holds the row there is and has brought the container as far as its next effect
says.  From these an ending handler that ran alone leaves row and container in
agreement, whatever it found if it is one that `Repairs`.  The lemmas first
bring the actions to three forms, `Outcome` (go on, end or fail), `Joins` and
`Waits`, and each part of the invariant is proved once per form.  `NoLostUpdate`
needs the types only: that every registry function reads again under the lock is
in the action itself, and the theorem says that no interleaving adds to it.

`RegistryBackup`: `FreshOK` and `InflightOK`, an update under way is in no upload
that was given up on, and what still flies has been given up on or belongs to
the call of now; `FileOK` and `OwedOK` say at each place of the program what the
file, the content being written and the mirror have of what is owed.  The
hardest place is a lost volume: `OwedOK` there has what is owed in every upload
that may yet replace the mirror.

`Console`: the four parts' invariants, and that a step of one leaves the others
alone.  `ToggleOK`, without a race there is one toggle at a time, it has the mode
of the override, and at rest the container has it; `DeletedOK`, `GoneOK`;
`TokensOK` and `MarksOK`, a check under way has a token not newer than its
field's, the latest has the name that is in the field, and a mark that says
"available" is about that name; `ButtonOK`, only `clearLoading` enables the button
against the marks; `LoadsOK`, the loads have different ids and the latest, unless
it will set the address bar itself, is for the address it has.  The newest of a
set up to a cap is proved to be stable (what is among the newest stays so in a subset that
contains it), with the library's theorems about cardinalities, so that
`KeptToTheCap` holds for any cap.

`Process`: `ChainOK` and `CleaningOK`, which SIGTERM handlers are chained follows
from which certificates were extracted, and the certificates of handlers that
have run already are gone; `HolderOK`, the token's lock is held by who wants it;
`InterruptedOK` and `KeptOK`, before a signal no certificate is removed and after
it only an interrupted extraction leaves one without its handler.

### Only model-checked

- Liveness: `WindowsEnd`, `EveryMessageSettled`, `EverythingForwarded`,
  `EveryTriggerSettled`, `UploadArrives`, `CallsReturn`, `EveryFieldIsDecided`,
  `SignalEnds`.  They rest on fairness, hence on `ENABLED`, which the prover does
  not handle.
- The counterexamples of the runs that expect a violation.
- That definitions depend on the lines they model: the *Mutation* definitions
  are checked with TLC.

No property needs induction over data, and no module declares a recursive
operator.

## Findings

1. `DrainCommit`: `utils/topic_forwarder.py:233` announces "Commit after
   success", but the commit follows `produce()`, which only queues.  A delivery
   that fails later, or a crash, loses a committed message.
2. `TriggerRetry`: `_last_processed_run_id` is set after failed runs too.  The
   retry of a failed run is answered "completed" without running
   (`utils/kafka_trigger.py:396`; "Publish status (success/failure)", line 47).
3. `NameClash`: the check at confirmation (`ui/app.py:792`) sees only names that
   exist on the platform; they exist once the adaptor has started.  Two products
   confirmed in a row share a topic, which `ui/app.py:664-667` rules out.
4. `DeleteRace`: a start that read its row before a deletion launches the
   container after it; the row is gone and the container stays
   (`ui/app.py:863`, "Permanently removes a data product").

Seen while modelling and visible in the modules, without a run of their own
(each is what a property has to except):

- an upload during a copy, or in the second of its end, never reaches the target
  (`raced` in `FilePipeline`); a crash between a copy and its event loses the
  event (`excused`); a copy that Azure accepted may fail after its event, and
  nobody asks (`PendingFails`);
- an upload of the registry that timed out may replace a later one (`abandoned`
  in `RegistryBackup`); a crash while the registry is written leaves a file that
  no restart repairs (`Torn`);
- a non-object payload on the control topic stops the pods for ever (`Choke`); a
  pipeline paused in its environment is still run by the Kafka trigger, whose
  mode comes from the message;
- the flush of a drain run and of `send_message` has no bound; where the broker
  does not answer, neither the run nor, behind it, the next trigger goes on
  (`FlushBlocked`), and the extractor's pool keeps a process that was told to stop
  (`PoolHangs`);
- two threads of the extractor's pool may each make a producer; the event in the
  one that is replaced is nobody's concern, and may be lost though no call failed
  (`ProducerReplaced`);
- podman's `rm -f` is not checked and an inspect error passes for absence
  (`podman_ops.py:122`, `:150`): a stop or delete may end well and leave its
  container (`RemoveFailsUnseen`, and `RemoveFails` of `ConsumerPipelines`);
- a consumer pipeline redeployed under an override nobody reset is shown in a
  mode it is not in (`Redeploy` sets `doubt`); a Delete during podman's recreation
  comes to nothing (`raced` in `ConsumerPipelines`);
- the age limit of the run history is enforced only by a write, and there is one
  only when there is something new: a history nobody adds to keeps its old
  records, although `service/run_history.py:71-74` says that "old runs don't
  linger indefinitely just because nothing's happened since"; the cap counts
  events, of which a run logs several, where the comment says runs;
- a field of the review step emptied during its check is marked by the late
  answer and may enable the button (`emptied` in `Pages`); a confirmation that is
  refused enables it whatever the marks say by then (`forced`);
- a signal that arrives inside `get_token` makes the handler wait for its own
  thread's lock until the process is killed (`SelfLocked` in `Process`);
- `delete_kafka_topic`'s comment that entry and container are gone by then is not
  how `delete_data_product` calls it.

## What is not modelled

- Formats, validation of forms and environment variables, logging, metrics,
  tracing, certificates: they do not change the state the properties speak of.
- Kafka's own protocol: a group is an owner, a stored and a committed offset; a
  producer is a set of unacknowledged copies.  Source topics have one partition,
  as `ensure_exists` creates them.  The producer's internal retries (and the
  duplicates of a producer without idempotence) are below this level.
- Metrics, tracing and instrumentation (wrappers of OpenTelemetry without a
  protocol of their own), `create_logger`'s unlocked initialisation, lifecycle
  events, authentication, configuration validators: stateless, or over before
  there is a second thread.
- `file_move`, `data_read`, `consume_messages`: nothing in the blueprints calls
  them.  Users who delete objects.
- `Process`: a metrics or tracing exporter's own exit handler
  (`otel_tracer.py:100-105` flushes the last batch of spans, perhaps after the
  certificate is gone) and the heartbeat's record in flight when the process exits;
  `PemsOutliveRecordsOnly` is about the records up to the farewell.  `Sigterm` is
  the moment Python runs the handler: a call of the client library on the main
  thread, such as a flush, puts it off.  A Kafka truststore first extracted by a
  thread of the pool installs no signal handler, only the one of `atexit`; the model
  extracts on the main thread.
- A crash of the application between the removal and the new run of a consumer
  pipeline's container (`ConsumerPipelines`); the container is then gone as it is
  after a run that failed.
- The autoscaler object, image builds, status pages, the preview's proposals,
  pagination.
- A crash in the middle of a write of the run history or of the overrides file.
  Both are truncated before they are written, like the registry, whose torn file
  `RegistryBackup` has; neither has a mirror.
- *Run Now* on a stage is a second process of that stage's module; its record is
  in `RunHistory`.  The two are not composed: they share no state but the log.
- A product has one name; in the code a topic product has two topics and a file
  product two containers, checked and removed one after the other in the same
  fail-soft way.

## Plan

Done: `GroupCursor`, `TopicWindow` with its proofs, `DrainForward` in both modes,
`KafkaTrigger` with its requester and `TriggerLife`, `FilePipeline` with Azure's copies,
`SelfService`, `RegistryBackup`, `ConsumerPipelines`, `RunHistory`, `Pages`,
`Process`.  The proofs of all invariants and action properties are done too.

Next, in this order:

1. An abstract specification of the control plane, desired against deployed
   state, and `SelfService` without overlap as its implementation, proved from
   `SoloOK`.
2. Shorter proofs: the frame conditions of `FilePipeline_proofs` as one lemma for
   each form of step, the way `SelfService_proofs` has them.
