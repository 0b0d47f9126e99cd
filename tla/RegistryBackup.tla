---------------------------- MODULE RegistryBackup ----------------------------
(***************************************************************************)
(* The registry's file and its mirror in the platform's storage account    *)
(* (service/registry.py, service/registry_backup.py).                      *)
(*                                                                         *)
(* Every update rewrites the whole file and then, under the same lock,     *)
(* uploads it from a thread of its own.  The update waits for the thread,  *)
(* but not for ever; the mirror is best effort.  At startup, and only if   *)
(* there is no file, the registry is restored from the mirror.             *)
(*                                                                         *)
(* A content of the file is the set of the updates it was written with.    *)
(* Storage credentials are configured.                                     *)
(***************************************************************************)
EXTENDS Naturals

CONSTANTS
  MaxUpdates,  \* bound on updates
  MaxFaults,   \* bound on lost volumes and failed calls
  Missing,     \* no file, no backup
  Torn         \* a file opened for writing, and not yet written

Updates  == 1..MaxUpdates
Contents == SUBSET Updates
Pcs      == {"down", "restoring", "idle", "writing", "uploading"}

ASSUME RegistryBackupAssumption ==
  /\ MaxUpdates \in Nat /\ MaxFaults \in Nat
  /\ Missing # Torn
  /\ \A content \in Contents : content # Missing /\ content # Torn

VARIABLES
  pc,         \* where the application is; one registry call at a time
  file,       \* data_products.json on the volume
  store,      \* the object in the storage account
  pending,    \* the content being written, uploaded or restored
  inflight,   \* uploads the storage service has not completed
  updates,    \* number of updates so far
  confirmed,  \* the content last known to be in both places (history)
  abandoned,  \* contents whose upload nobody waited for to the end (history)
  owed,       \* updates that returned, less those a lost volume may have
              \*   taken (history)
  faults      \* lost volumes and failed calls (history)

history == <<confirmed, abandoned, owed, faults>>
vars    == <<pc, file, store, pending, inflight, updates, history>>

Init ==
  /\ pc = "down" /\ file = Missing /\ store = Missing
  /\ pending = {} /\ inflight = {} /\ updates = 0
  /\ confirmed = {} /\ abandoned = {} /\ owed = {} /\ faults = 0

Fault == faults < MaxFaults /\ faults' = faults + 1

\* _read_all: no file is no rows.
Rows(content) == IF content = Missing THEN {} ELSE content
-----------------------------------------------------------------------------
(* Startup: restore_from_backup_if_missing, before any request is served.  *)

\* A file is there, whatever is in it.
Start ==
  /\ pc = "down" /\ file # Missing
  /\ pc' = "idle"
  /\ UNCHANGED <<file, store, pending, inflight, updates, history>>

\* Neither a file nor a backup: an empty registry.
StartEmpty ==
  /\ pc = "down" /\ file = Missing /\ store = Missing
  /\ pc' = "idle"
  /\ UNCHANGED <<file, store, pending, inflight, updates, history>>

\* The backup is downloaded and the file opened.
Fetch ==
  /\ pc = "down" /\ file = Missing /\ store # Missing
  /\ pending' = store /\ confirmed' = store
  /\ file' = Torn /\ pc' = "restoring"
  /\ UNCHANGED <<store, inflight, updates, abandoned, owed, faults>>

\* Mutation: a restore that fails leaves an empty registry.
FetchFailureIgnored ==
  /\ pc = "down" /\ file = Missing /\ Fault
  /\ pc' = "idle"
  /\ UNCHANGED <<file, store, pending, inflight, updates, confirmed, abandoned, owed>>

\* The download fails or takes too long: so does the startup.
FetchFails ==
  /\ pc = "down" /\ file = Missing /\ Fault
  /\ UNCHANGED <<pc, file, store, pending, inflight, updates, confirmed,
                 abandoned, owed>>

RestoreEnds ==
  /\ pc = "restoring"
  /\ file' = pending /\ pc' = "idle"
  /\ UNCHANGED <<store, pending, inflight, updates, history>>
-----------------------------------------------------------------------------
(* An update: create_product, set_active, set_execution_mode and           *)
(* delete_product, all through _write_all.                                 *)

\* Mutation: an update is told by the number of those before it.
UpdateFromZero ==
  /\ pc = "idle" /\ file # Torn /\ updates < MaxUpdates
  /\ updates' = updates + 1
  /\ pending' = Rows(file) \cup {updates}
  /\ file' = Torn /\ pc' = "writing"
  /\ UNCHANGED <<store, inflight, history>>

\* The rows are read, and the file opened for writing, which truncates it.
\* A torn file raises on reading: no update ever again.
Update ==
  /\ pc = "idle" /\ file # Torn /\ updates < MaxUpdates
  /\ updates' = updates + 1
  /\ pending' = Rows(file) \cup {updates'}
  /\ file' = Torn /\ pc' = "writing"
  /\ UNCHANGED <<store, inflight, history>>

\* The file is closed; backup() starts its thread.
WriteEnds ==
  /\ pc = "writing"
  /\ file' = pending
  /\ inflight' = inflight \cup {pending}
  /\ pc' = "uploading"
  /\ UNCHANGED <<store, pending, updates, history>>

\* The call returns to its route.
Return == pc' = "idle" /\ owed' = owed \cup {updates}

\* The thread has ended before its time.
UploadEnds ==
  /\ pc = "uploading" /\ pending \notin inflight
  /\ confirmed' = pending /\ Return
  /\ UNCHANGED <<file, store, pending, inflight, updates, abandoned, faults>>

\* The storage call raises, having done its work or not; that is logged.
UploadFails ==
  /\ pc = "uploading" /\ Fault
  /\ inflight' = inflight \ {pending} /\ Return
  /\ UNCHANGED <<file, store, pending, updates, confirmed, abandoned>>

\* Mutation: join() returned, so the thread must be done.
TimeoutTakenForEnd ==
  /\ pc = "uploading"
  /\ confirmed' = pending /\ Return
  /\ UNCHANGED <<file, store, pending, inflight, updates, abandoned, faults>>

\* Mutation: join() without a timeout.
NoTimeout ==
  /\ pc = "uploading" /\ pending \notin inflight
  /\ abandoned' = abandoned \cup {pending} /\ Return
  /\ UNCHANGED <<file, store, pending, inflight, updates, confirmed, faults>>

\* join() gives up after _BACKUP_TIMEOUT_SECONDS; the thread goes on.
TimesOut ==
  /\ pc = "uploading"
  /\ abandoned' = abandoned \cup {pending} /\ Return
  /\ UNCHANGED <<file, store, pending, inflight, updates, confirmed, faults>>
-----------------------------------------------------------------------------
(* The storage service, and what may happen to the pod.                    *)

\* An upload replaces the object, however late it comes.
Stored(content) ==
  /\ content \in inflight
  /\ store' = content
  /\ inflight' = inflight \ {content}
  /\ UNCHANGED <<pc, file, pending, updates, history>>

\* An upload nobody waits for comes to nothing.
NeverStored(content) ==
  /\ content \in inflight \cap abandoned
  /\ inflight' = inflight \ {content}
  /\ UNCHANGED <<pc, file, store, pending, updates, history>>

\* The content a pod that dies leaves in the hands of the storage service.
LeftBehind == IF pc = "uploading" THEN {pending} ELSE {}

\* The pod dies, and is restarted on the same volume.
Crash ==
  /\ pc # "down"
  /\ pc' = "down"
  /\ abandoned' = abandoned \cup LeftBehind
  /\ UNCHANGED <<file, store, pending, inflight, updates, confirmed, owed, faults>>

\* The volume is lost, with the pod.  What was confirmed will be restored, if
\* no upload still to come puts an older content in its place.
VolumeLost ==
  /\ Fault
  /\ pc' = "down" /\ file' = Missing
  /\ abandoned' = abandoned \cup LeftBehind
  /\ owed' = {u \in owed \cap confirmed : \A c \in abandoned' : u \in c}
  /\ UNCHANGED <<store, pending, inflight, updates, confirmed>>
-----------------------------------------------------------------------------
Startup == Start \/ StartEmpty \/ Fetch \/ FetchFails \/ RestoreEnds
Call    == Update \/ WriteEnds \/ UploadEnds \/ UploadFails \/ TimesOut

Next ==
  \/ Startup \/ Call \/ Crash \/ VolumeLost
  \/ \E content \in inflight : Stored(content) \/ NeverStored(content)

Spec == Init /\ [][Next]_vars

\* A write ends, and so does the wait for an upload; nothing is asked of the
\* storage service.
FairSpec == Spec /\ WF_vars(WriteEnds) /\ WF_vars(TimesOut)
-----------------------------------------------------------------------------
(* Properties.                                                             *)

TypeOK ==
  /\ pc \in Pcs
  /\ file \in {Missing, Torn} \cup Contents
  /\ store \in {Missing} \cup Contents
  /\ pending \in Contents /\ inflight \subseteq Contents
  /\ updates \in 0..MaxUpdates
  /\ confirmed \in Contents /\ abandoned \subseteq Contents
  /\ owed \subseteq Updates /\ faults \in Nat

\* The mirror has everything that was in the last upload known to have worked,
\* unless an upload that was given up on came in late and replaced it.
OnlyLateUploadsRegress ==
  confirmed \subseteq Rows(store) \/ store \in abandoned

\* Restarts, lost volumes and late uploads included, a registry that can be read
\* has every update that returned to its caller, except those that a lost volume
\* took before their upload was known to have worked, or that an upload given up
\* on may have taken out of the mirror again: "an empty registry after a real
\* disaster must never look identical to this deployment has always been empty".
OwedIsKept ==
  pc \in {"idle", "uploading"} /\ file # Torn => owed \subseteq Rows(file)

\* A registry call returns although the storage service never answers.
CallsReturn ==
  pc \in {"writing", "uploading"} ~> pc \in {"idle", "down"}
=============================================================================
