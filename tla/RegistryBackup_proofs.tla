-------------------------- MODULE RegistryBackup_proofs --------------------------
(***************************************************************************)
(* Proofs about RegistryBackup, for any number of updates, failures and    *)
(* lost volumes: what the mirror has, and what a restored registry has.    *)
(***************************************************************************)
EXTENDS RegistryBackup, TLAPS

\* No content has an update that was not made yet.
MadeOK ==
  \A content \in {pending} \cup inflight \cup abandoned \cup ({file, store} \ {Missing, Torn}) :
    content \subseteq 1..updates

\* The update under way is new to everything that was given up on.
FreshOK ==
  pc \in {"writing", "uploading"} =>
    updates \in pending /\ \A content \in abandoned : updates \notin content

\* What the storage service still has in hand was given up on, but for the
\* content of the call that waits; when that is no longer in hand, it was stored.
InflightOK ==
  /\ inflight \subseteq abandoned \cup LeftBehind
  /\ pc = "uploading" /\ pending \notin inflight =>
       pending \subseteq Rows(store) \/ store \in abandoned

\* The file is open while it is written, and a file that was read, restored or
\* left on its volume has what is known to be in the mirror.
FileOK ==
  /\ pc \in {"writing", "restoring"} => file = Torn
  /\ pc = "uploading" => file = pending
  /\ pc \in {"writing", "uploading", "restoring"} => confirmed \subseteq pending
  /\ file \notin {Missing, Torn} => confirmed \subseteq file
  /\ pc = "idle" /\ file = Missing => confirmed = {}

\* What is owed is in the file, in what is being written, or, without a file, in
\* every content that may be restored.
OwedOK ==
  /\ file \notin {Missing, Torn} => owed \subseteq file
  /\ pc \in {"writing", "uploading", "restoring"} => owed \subseteq pending
  /\ pc = "idle" /\ file = Missing => owed = {}
  /\ pc = "down" /\ file = Missing =>
       owed \subseteq confirmed /\ \A content \in abandoned : owed \subseteq content

IInv ==
  /\ TypeOK /\ MadeOK /\ FreshOK /\ InflightOK /\ FileOK /\ OwedOK
  /\ OnlyLateUploadsRegress
-----------------------------------------------------------------------------

(* Type correctness. *)
LEMMA TypeStep == TypeOK /\ FreshOK /\ [Next]_vars => TypeOK'
<1> SUFFICES ASSUME TypeOK, FreshOK, [Next]_vars PROVE TypeOK'
  OBVIOUS
<1> USE RegistryBackupAssumption DEF TypeOK, history, Pcs, Rows, Updates, Contents, RegistryBackupAssumption, FreshOK
<1>1. CASE Start
  BY <1>1 DEF Start
<1>2. CASE StartEmpty
  BY <1>2 DEF StartEmpty
<1>3. CASE Fetch
  BY <1>3 DEF Fetch
<1>4. CASE FetchFails
  BY <1>4 DEF FetchFails, Fault
<1>5. CASE RestoreEnds
  BY <1>5 DEF RestoreEnds
<1>6. CASE Update
  BY <1>6 DEF Update
<1>7. CASE WriteEnds
  BY <1>7 DEF WriteEnds
<1>8. CASE UploadEnds
  BY <1>8 DEF UploadEnds, Return
<1>9. CASE UploadFails
  BY <1>9 DEF UploadFails, Return, Fault
<1>10. CASE TimesOut
  BY <1>10 DEF TimesOut, Return
<1>11. CASE Crash
  BY <1>11 DEF Crash, LeftBehind
<1>12. CASE VolumeLost
  <2>1. owed' \subseteq Updates
    BY <1>12 DEF VolumeLost
  <2>2. abandoned' \subseteq Contents
    BY <1>12 DEF VolumeLost, LeftBehind
  <2> QED
    BY <1>12, <2>1, <2>2 DEF VolumeLost, Fault
<1>13. ASSUME NEW c \in inflight, Stored(c) PROVE TypeOK'
  BY <1>13 DEF Stored
<1>14. ASSUME NEW c \in inflight, NeverStored(c) PROVE TypeOK'
  BY <1>14 DEF NeverStored
<1>15. CASE UNCHANGED vars
  BY <1>15 DEF vars
<1> QED
  BY <1>1, <1>2, <1>3, <1>4, <1>5, <1>6, <1>7, <1>8, <1>9, <1>10, <1>11,
     <1>12, <1>13, <1>14, <1>15
  DEF Next, Startup, Call

(* An update is counted before it is written. *)
LEMMA MadeStep == TypeOK /\ MadeOK /\ [Next]_vars => MadeOK'
<1> SUFFICES ASSUME TypeOK, MadeOK, [Next]_vars PROVE MadeOK'
  OBVIOUS
<1> USE RegistryBackupAssumption DEF TypeOK, history, Pcs, Rows, Updates, Contents, RegistryBackupAssumption, MadeOK
<1>1. CASE Start
  BY <1>1 DEF Start
<1>2. CASE StartEmpty
  BY <1>2 DEF StartEmpty
<1>3. CASE Fetch
  <2>1. store \in Contents /\ store \subseteq 1..updates
    BY <1>3 DEF Fetch
  <2> QED
    BY <1>3, <2>1 DEF Fetch
<1>4. CASE FetchFails
  BY <1>4 DEF FetchFails, Fault
<1>5. CASE RestoreEnds
  BY <1>5 DEF RestoreEnds
<1>6. CASE Update
  <2>1. \A content \in SUBSET (1..updates) : content \subseteq 1..updates'
    BY <1>6 DEF Update
  <2>2. updates' \in 1..updates'
    BY <1>6 DEF Update
  <2>3. pending' \subseteq 1..updates'
    BY <1>6, <2>1, <2>2 DEF Update
  <2> QED
    BY <1>6, <2>1, <2>3 DEF Update
<1>7. CASE WriteEnds
  BY <1>7 DEF WriteEnds
<1>8. CASE UploadEnds
  BY <1>8 DEF UploadEnds, Return
<1>9. CASE UploadFails
  BY <1>9 DEF UploadFails, Return, Fault
<1>10. CASE TimesOut
  BY <1>10 DEF TimesOut, Return
<1>11. CASE Crash
  BY <1>11 DEF Crash, LeftBehind
<1>12. CASE VolumeLost
  BY <1>12 DEF VolumeLost, LeftBehind, Fault
<1>13. ASSUME NEW c \in inflight, Stored(c) PROVE MadeOK'
  BY <1>13 DEF Stored
<1>14. ASSUME NEW c \in inflight, NeverStored(c) PROVE MadeOK'
  BY <1>14 DEF NeverStored
<1>15. CASE UNCHANGED vars
  BY <1>15 DEF vars
<1> QED
  BY <1>1, <1>2, <1>3, <1>4, <1>5, <1>6, <1>7, <1>8, <1>9, <1>10, <1>11,
     <1>12, <1>13, <1>14, <1>15
  DEF Next, Startup, Call

(* Nobody gave up on an update that is under way. *)
LEMMA FreshStep == TypeOK /\ MadeOK /\ FreshOK /\ [Next]_vars => FreshOK'
<1> SUFFICES ASSUME TypeOK, MadeOK, FreshOK, [Next]_vars PROVE FreshOK'
  OBVIOUS
<1> USE RegistryBackupAssumption DEF TypeOK, history, Pcs, Rows, Updates, Contents, RegistryBackupAssumption, MadeOK, FreshOK
<1>1. CASE Start
  BY <1>1 DEF Start
<1>2. CASE StartEmpty
  BY <1>2 DEF StartEmpty
<1>3. CASE Fetch
  BY <1>3 DEF Fetch
<1>4. CASE FetchFails
  BY <1>4 DEF FetchFails, Fault
<1>5. CASE RestoreEnds
  BY <1>5 DEF RestoreEnds
<1>6. CASE Update
  BY <1>6 DEF Update
<1>7. CASE WriteEnds
  BY <1>7 DEF WriteEnds
<1>8. CASE UploadEnds
  BY <1>8 DEF UploadEnds, Return
<1>9. CASE UploadFails
  BY <1>9 DEF UploadFails, Return, Fault
<1>10. CASE TimesOut
  BY <1>10 DEF TimesOut, Return
<1>11. CASE Crash
  BY <1>11 DEF Crash, LeftBehind
<1>12. CASE VolumeLost
  BY <1>12 DEF VolumeLost, LeftBehind, Fault
<1>13. ASSUME NEW c \in inflight, Stored(c) PROVE FreshOK'
  BY <1>13 DEF Stored
<1>14. ASSUME NEW c \in inflight, NeverStored(c) PROVE FreshOK'
  BY <1>14 DEF NeverStored
<1>15. CASE UNCHANGED vars
  BY <1>15 DEF vars
<1> QED
  BY <1>1, <1>2, <1>3, <1>4, <1>5, <1>6, <1>7, <1>8, <1>9, <1>10, <1>11,
     <1>12, <1>13, <1>14, <1>15
  DEF Next, Startup, Call

(* A call that no longer waits has given up on its upload, or knows its end. *)
LEMMA InflightStep == TypeOK /\ FreshOK /\ InflightOK /\ [Next]_vars => InflightOK'
<1> SUFFICES ASSUME TypeOK, FreshOK, InflightOK, [Next]_vars PROVE InflightOK'
  OBVIOUS
<1> USE RegistryBackupAssumption DEF TypeOK, history, Pcs, Rows, Updates, Contents, RegistryBackupAssumption, FreshOK, InflightOK, LeftBehind
<1>1. CASE Start
  BY <1>1 DEF Start
<1>2. CASE StartEmpty
  BY <1>2 DEF StartEmpty
<1>3. CASE Fetch
  BY <1>3 DEF Fetch
<1>4. CASE FetchFails
  BY <1>4 DEF FetchFails, Fault
<1>5. CASE RestoreEnds
  BY <1>5 DEF RestoreEnds
<1>6. CASE Update
  BY <1>6 DEF Update
<1>7. CASE WriteEnds
  BY <1>7 DEF WriteEnds
<1>8. CASE UploadEnds
  BY <1>8 DEF UploadEnds, Return
<1>9. CASE UploadFails
  BY <1>9 DEF UploadFails, Return, Fault
<1>10. CASE TimesOut
  BY <1>10 DEF TimesOut, Return
<1>11. CASE Crash
  BY <1>11 DEF Crash, LeftBehind
<1>12. CASE VolumeLost
  BY <1>12 DEF VolumeLost, LeftBehind, Fault
<1>13. ASSUME NEW c \in inflight, Stored(c) PROVE InflightOK'
  BY <1>13 DEF Stored
<1>14. ASSUME NEW c \in inflight, NeverStored(c) PROVE InflightOK'
  BY <1>14 DEF NeverStored
<1>15. CASE UNCHANGED vars
  BY <1>15 DEF vars
<1> QED
  BY <1>1, <1>2, <1>3, <1>4, <1>5, <1>6, <1>7, <1>8, <1>9, <1>10, <1>11,
     <1>12, <1>13, <1>14, <1>15
  DEF Next, Startup, Call

(* An update builds on what is there. *)
LEMMA FileStep == TypeOK /\ FileOK /\ OnlyLateUploadsRegress /\ [Next]_vars => FileOK'
<1> SUFFICES ASSUME TypeOK, FileOK, OnlyLateUploadsRegress, [Next]_vars PROVE FileOK'
  OBVIOUS
<1> USE RegistryBackupAssumption DEF TypeOK, history, Pcs, Rows, Updates, Contents, RegistryBackupAssumption, FileOK, OnlyLateUploadsRegress
<1>1. CASE Start
  BY <1>1 DEF Start
<1>2. CASE StartEmpty
  BY <1>2 DEF StartEmpty
<1>3. CASE Fetch
  BY <1>3 DEF Fetch
<1>4. CASE FetchFails
  BY <1>4 DEF FetchFails, Fault
<1>5. CASE RestoreEnds
  BY <1>5 DEF RestoreEnds
<1>6. CASE Update
  BY <1>6 DEF Update
<1>7. CASE WriteEnds
  BY <1>7 DEF WriteEnds
<1>8. CASE UploadEnds
  BY <1>8 DEF UploadEnds, Return
<1>9. CASE UploadFails
  BY <1>9 DEF UploadFails, Return, Fault
<1>10. CASE TimesOut
  BY <1>10 DEF TimesOut, Return
<1>11. CASE Crash
  BY <1>11 DEF Crash, LeftBehind
<1>12. CASE VolumeLost
  BY <1>12 DEF VolumeLost, LeftBehind, Fault
<1>13. ASSUME NEW c \in inflight, Stored(c) PROVE FileOK'
  BY <1>13 DEF Stored
<1>14. ASSUME NEW c \in inflight, NeverStored(c) PROVE FileOK'
  BY <1>14 DEF NeverStored
<1>15. CASE UNCHANGED vars
  BY <1>15 DEF vars
<1> QED
  BY <1>1, <1>2, <1>3, <1>4, <1>5, <1>6, <1>7, <1>8, <1>9, <1>10, <1>11,
     <1>12, <1>13, <1>14, <1>15
  DEF Next, Startup, Call

(* A restore brings back what is owed. *)
LEMMA OwedStep == TypeOK /\ FreshOK /\ FileOK /\ OwedOK /\ OnlyLateUploadsRegress /\ [Next]_vars => OwedOK'
<1> SUFFICES ASSUME TypeOK, FreshOK, FileOK, OwedOK, OnlyLateUploadsRegress, [Next]_vars PROVE OwedOK'
  OBVIOUS
<1> USE RegistryBackupAssumption DEF TypeOK, history, Pcs, Rows, Updates, Contents, RegistryBackupAssumption, FreshOK, FileOK, OwedOK, OnlyLateUploadsRegress
<1>1. CASE Start
  BY <1>1 DEF Start
<1>2. CASE StartEmpty
  BY <1>2 DEF StartEmpty
<1>3. CASE Fetch
  BY <1>3 DEF Fetch
<1>4. CASE FetchFails
  BY <1>4 DEF FetchFails, Fault
<1>5. CASE RestoreEnds
  BY <1>5 DEF RestoreEnds
<1>6. CASE Update
  BY <1>6 DEF Update
<1>7. CASE WriteEnds
  BY <1>7 DEF WriteEnds
<1>8. CASE UploadEnds
  BY <1>8 DEF UploadEnds, Return
<1>9. CASE UploadFails
  BY <1>9 DEF UploadFails, Return, Fault
<1>10. CASE TimesOut
  BY <1>10 DEF TimesOut, Return
<1>11. CASE Crash
  BY <1>11 DEF Crash, LeftBehind
<1>12. CASE VolumeLost
  BY <1>12 DEF VolumeLost, LeftBehind, Fault
<1>13. ASSUME NEW c \in inflight, Stored(c) PROVE OwedOK'
  BY <1>13 DEF Stored
<1>14. ASSUME NEW c \in inflight, NeverStored(c) PROVE OwedOK'
  BY <1>14 DEF NeverStored
<1>15. CASE UNCHANGED vars
  BY <1>15 DEF vars
<1> QED
  BY <1>1, <1>2, <1>3, <1>4, <1>5, <1>6, <1>7, <1>8, <1>9, <1>10, <1>11,
     <1>12, <1>13, <1>14, <1>15
  DEF Next, Startup, Call

(* An upload that someone waited for has all that was confirmed. *)
LEMMA MirrorStep == TypeOK /\ InflightOK /\ FileOK /\ OnlyLateUploadsRegress /\ [Next]_vars => OnlyLateUploadsRegress'
<1> SUFFICES ASSUME TypeOK, InflightOK, FileOK, OnlyLateUploadsRegress, [Next]_vars PROVE OnlyLateUploadsRegress'
  OBVIOUS
<1> USE RegistryBackupAssumption DEF TypeOK, history, Pcs, Rows, Updates, Contents, RegistryBackupAssumption, InflightOK, FileOK, LeftBehind, OnlyLateUploadsRegress
<1>1. CASE Start
  BY <1>1 DEF Start
<1>2. CASE StartEmpty
  BY <1>2 DEF StartEmpty
<1>3. CASE Fetch
  BY <1>3 DEF Fetch
<1>4. CASE FetchFails
  BY <1>4 DEF FetchFails, Fault
<1>5. CASE RestoreEnds
  BY <1>5 DEF RestoreEnds
<1>6. CASE Update
  BY <1>6 DEF Update
<1>7. CASE WriteEnds
  BY <1>7 DEF WriteEnds
<1>8. CASE UploadEnds
  BY <1>8 DEF UploadEnds, Return
<1>9. CASE UploadFails
  BY <1>9 DEF UploadFails, Return, Fault
<1>10. CASE TimesOut
  BY <1>10 DEF TimesOut, Return
<1>11. CASE Crash
  BY <1>11 DEF Crash, LeftBehind
<1>12. CASE VolumeLost
  BY <1>12 DEF VolumeLost, LeftBehind, Fault
<1>13. ASSUME NEW c \in inflight, Stored(c) PROVE OnlyLateUploadsRegress'
  BY <1>13 DEF Stored
<1>14. ASSUME NEW c \in inflight, NeverStored(c) PROVE OnlyLateUploadsRegress'
  BY <1>14 DEF NeverStored
<1>15. CASE UNCHANGED vars
  BY <1>15 DEF vars
<1> QED
  BY <1>1, <1>2, <1>3, <1>4, <1>5, <1>6, <1>7, <1>8, <1>9, <1>10, <1>11,
     <1>12, <1>13, <1>14, <1>15
  DEF Next, Startup, Call

(* At first there is neither a file nor a mirror. *)
LEMMA InitInv == Init => IInv
BY RegistryBackupAssumption
DEF RegistryBackupAssumption, Init, IInv, TypeOK, MadeOK, FreshOK, InflightOK, FileOK, OwedOK,
    OnlyLateUploadsRegress, Pcs, Rows, Updates, Contents, LeftBehind

(* Every step keeps the whole. *)
LEMMA StepInv == IInv /\ [Next]_vars => IInv'
BY TypeStep, MadeStep, FreshStep, InflightStep, FileStep, OwedStep, MirrorStep DEF IInv

\* The file, the mirror and the uploads under way fit together.
THEOREM Invariance == Spec => []IInv
BY InitInv, StepInv, PTL DEF Spec

\* Every variable keeps its type.
THEOREM TypeCorrect == Spec => []TypeOK
BY Invariance, PTL DEF IInv

\* The mirror has the last upload known to have worked, unless one that was given
\* up on came in late.
THEOREM MirrorKeeps == Spec => []OnlyLateUploadsRegress
BY Invariance, PTL DEF IInv

\* A registry that can be read has every update that returned, but those a lost
\* volume or a late upload may have taken.
THEOREM RegistryKeeps == Spec => []OwedIsKept
<1>1. IInv => OwedIsKept
  BY RegistryBackupAssumption
  DEF RegistryBackupAssumption, IInv, TypeOK, FileOK, OwedOK, OwedIsKept, Rows
<1> QED
  BY <1>1, Invariance, PTL
=============================================================================
