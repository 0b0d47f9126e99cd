-------------------------- MODULE ConsumerPipelines --------------------------
(***************************************************************************)
(* Pause, Resume and Delete of the fixed consumer pipelines                *)
(* (service/consumers.py, the consumer routes of ui/app.py, and the calls  *)
(* they make of service/podman_ops.py and service/k8s_ops.py).             *)
(*                                                                         *)
(* A toggle is two steps of one route: the override is written under the   *)
(* file's lock, the container is told after it, without a lock.  Podman    *)
(* cannot change a container's environment: it is inspected, removed and   *)
(* run again.  Nothing here can create a pipeline that is not there.       *)
(*                                                                         *)
(* One pipeline: the others have their own entry and their own container.  *)
(***************************************************************************)
EXTENDS Naturals

CONSTANTS
  Clicks,       \* threads of the application serving this pipeline's buttons
  MaxMishaps,   \* bound on runtime calls that fail
  Gone          \* no container

Modes    == {"automatic", "manual"}
Runtimes == {"podman", "kubernetes"}
Places   == {"idle", "patch", "inspect", "remove", "run"}

VARIABLES
  runtime,    \* DPN_RUNTIME, fixed at import
  override,   \* the mode in consumer_execution_modes.json, or the default
  container,  \* EXECUTION_MODE of the container, or Gone
  click,      \* what each thread is doing: [at, mode]
  doubt,      \* toggles overlapped or failed, or the pipeline was redeployed,
              \*   since the last toggle that began alone (history)
  deleted,    \* Delete said so, and the pipeline was not redeployed (history)
  raced,      \* Delete came in the middle of a toggle, or failed (history)
  mishaps     \* runtime calls that failed (history)

consumerVars ==
  <<runtime, override, container, click, doubt, deleted, raced, mishaps>>

Resting == [at |-> "idle", mode |-> "automatic"]

Init ==
  /\ runtime \in Runtimes
  /\ override = "automatic" /\ container = "automatic"
  /\ click = [c \in Clicks |-> Resting]
  /\ doubt = FALSE /\ deleted = FALSE /\ raced = FALSE /\ mishaps = 0

Mishap == mishaps < MaxMishaps /\ mishaps' = mishaps + 1

At(c, place) == click[c].at = place
Goes(c, place) == click' = [click EXCEPT ![c].at = place]
Busy  == {c \in Clicks : ~At(c, "idle")}
Quiet == Busy = {}
-----------------------------------------------------------------------------
(* Pause and Resume.                                                       *)

\* Where the route goes on once the override is written.
FirstCall == IF runtime = "podman" THEN "inspect" ELSE "patch"

\* consumers.set_execution_mode: the file is read and written under the lock.
Toggle(c, mode) ==
  /\ At(c, "idle")
  /\ override' = mode
  /\ click' = [click EXCEPT ![c] = [at |-> FirstCall, mode |-> mode]]
  /\ doubt' = ~Quiet
  /\ UNCHANGED <<runtime, container, deleted, raced, mishaps>>

\* The call raises: the route answers 500, the override stays.
Raises(c) ==
  /\ click' = [click EXCEPT ![c] = Resting]
  /\ doubt' = TRUE

\* Mutation: the patch carries the mode the pipeline had.
PatchOther(c) ==
  /\ At(c, "patch")
  /\ IF container = Gone
     THEN Raises(c) /\ UNCHANGED container
     ELSE /\ click' = [click EXCEPT ![c] = Resting]
          /\ UNCHANGED <<doubt, container>>
  /\ UNCHANGED <<runtime, override, deleted, raced, mishaps>>

\* Kubernetes: one strategic merge patch; a Deployment not there is an error.
Patch(c) ==
  /\ At(c, "patch")
  /\ IF container = Gone
     THEN Raises(c) /\ UNCHANGED container
     ELSE /\ container' = click[c].mode
          /\ click' = [click EXCEPT ![c] = Resting]
          /\ UNCHANGED doubt
  /\ UNCHANGED <<runtime, override, deleted, raced, mishaps>>

\* Podman: image, networks and environment are read back.
Inspect(c) ==
  /\ At(c, "inspect")
  /\ IF container = Gone
     THEN Raises(c)
     ELSE Goes(c, "remove") /\ UNCHANGED doubt
  /\ UNCHANGED <<runtime, override, container, deleted, raced, mishaps>>

\* container_delete: no error if another thread has removed it.
Remove(c) ==
  /\ At(c, "remove")
  /\ container' = Gone
  /\ Goes(c, "run")
  /\ UNCHANGED <<runtime, override, doubt, deleted, raced, mishaps>>

\* `podman rm -f` fails, unnoticed (check=False).
RemoveFails(c) ==
  /\ At(c, "remove") /\ Mishap
  /\ Goes(c, "run")
  /\ UNCHANGED <<runtime, override, container, doubt, deleted, raced>>

\* Mutation: a run that fails takes away what is in its place.
RunCleansUp(c) ==
  /\ At(c, "run")
  /\ IF container = Gone
     THEN /\ container' = click[c].mode
          /\ click' = [click EXCEPT ![c] = Resting]
          /\ UNCHANGED doubt
     ELSE Raises(c) /\ container' = Gone
  /\ UNCHANGED <<runtime, override, deleted, raced, mishaps>>

\* `podman run`, which refuses a name that is taken.
Run(c) ==
  /\ At(c, "run")
  /\ IF container = Gone
     THEN /\ container' = click[c].mode
          /\ click' = [click EXCEPT ![c] = Resting]
          /\ UNCHANGED doubt
     ELSE Raises(c) /\ UNCHANGED container
  /\ UNCHANGED <<runtime, override, deleted, raced, mishaps>>

\* The patch, the inspection or the run fails for a reason of the runtime's.
CallFails(c) ==
  /\ click[c].at \in {"patch", "inspect", "run"} /\ Mishap
  /\ Raises(c)
  /\ UNCHANGED <<runtime, override, container, deleted, raced>>
-----------------------------------------------------------------------------
(* Delete, which leaves the override alone, and what happens outside.      *)

Recreating == {c \in Clicks : click[c].at \in {"remove", "run"}}

Delete ==
  /\ container' = Gone
  /\ deleted' = TRUE
  /\ raced' = (Recreating # {})
  /\ UNCHANGED <<runtime, override, click, doubt, mishaps>>

\* `podman rm -f` fails here too, and the route says "deleted" all the same; an
\* error of the Kubernetes API is an error of the route, and changes nothing.
DeleteFails ==
  /\ runtime = "podman" /\ container # Gone /\ Mishap
  /\ deleted' = TRUE /\ raced' = TRUE
  /\ UNCHANGED <<runtime, override, container, click, doubt>>

\* Outside: the pipeline's chart, or podman-compose, brings it back in the mode
\* it is deployed with.
Redeploy ==
  /\ container = Gone
  /\ container' = "automatic"
  /\ doubt' = TRUE /\ deleted' = FALSE /\ raced' = FALSE
  /\ UNCHANGED <<runtime, override, click, mishaps>>
-----------------------------------------------------------------------------
Next ==
  \/ Delete \/ DeleteFails \/ Redeploy
  \/ \E c \in Clicks :
       \/ \E mode \in Modes : Toggle(c, mode)
       \/ Patch(c) \/ Inspect(c) \/ Remove(c) \/ RemoveFails(c) \/ Run(c)
       \/ CallFails(c)

Spec == Init /\ [][Next]_consumerVars
-----------------------------------------------------------------------------
(* Properties.                                                             *)

TypeOK ==
  /\ runtime \in Runtimes
  /\ override \in Modes /\ container \in Modes \cup {Gone}
  /\ click \in [Clicks -> [at : Places, mode : Modes]]
  /\ doubt \in BOOLEAN /\ deleted \in BOOLEAN /\ raced \in BOOLEAN
  /\ mishaps \in 0..MaxMishaps

\* At rest the page shows the mode the container is in, unless two toggles
\* overlapped, one failed half way, or the pipeline was redeployed under an
\* override nobody reset
\* (the pause and resume routes of app.py).
ShownModeIsReal ==
  Quiet /\ container # Gone /\ ~doubt => container = override

\* However toggles and deletes interleave, a container is gone only if it was
\* deleted, is being recreated, or a podman command failed between its removal and
\* its return; and, since "once removed here the only way back is redeploying that
\* chart" (delete_consumer_pipeline), it is back only if the delete fell between a
\* toggle's inspection and its run, or failed.
GoneMeansDeleted ==
  /\ container = Gone => deleted \/ Recreating # {} \/ mishaps > 0
  /\ deleted /\ container # Gone => raced
=============================================================================
