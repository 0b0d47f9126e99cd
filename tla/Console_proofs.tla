------------------------------ MODULE Console_proofs ------------------------------
(***************************************************************************)
(* Proofs about the self-service application's parts as MCConsole puts     *)
(* them together, for any number of threads, fields, filters and records:  *)
(* the consumer pipelines, the two pages, and the run history, whose steps *)
(* are taken one part at a time.  The registry's are in RegistryBackup_    *)
(* proofs.                                                                 *)
(***************************************************************************)
EXTENDS MCConsole, RegistryBackup_proofs, FiniteSetTheorems

(* The consumer pipelines.                                                 *)

\* Without a doubt one toggle is under way at most, and it is the override's; at
\* rest the container has that mode.
ToggleOK ==
  ~doubt =>
    /\ \A c, d \in Consumers!Busy : c = d
    /\ \A c \in Consumers!Busy : click[c].mode = override
    /\ Consumers!Busy = {} /\ container # Gone => container = override

\* A pipeline that was deleted, and no toggle in the way, stays so: nobody is
\* about to run its container again.
DeletedOK ==
  deleted /\ ~raced => container = Gone /\ Consumers!Recreating = {}

\* A container is gone for one of three reasons.
GoneOK ==
  container = Gone => deleted \/ Consumers!Recreating # {} \/ mishaps > 0

ConsumersInv == Consumers!TypeOK /\ ToggleOK /\ DeletedOK /\ GoneOK

(* Type correctness of the consumer pipelines. *)
LEMMA ConsumersTypeStep == Consumers!TypeOK /\ [Consumers!Next]_consumerVars => Consumers!TypeOK'
<1> SUFFICES ASSUME Consumers!TypeOK, [Consumers!Next]_consumerVars PROVE Consumers!TypeOK'
  OBVIOUS
<1> USE ConsoleAssumption DEF ConsoleAssumption, Consumers!TypeOK, Consumers!Modes, Consumers!Runtimes, Consumers!Places, Consumers!Resting, Consumers!At, Consumers!Goes, Consumers!Raises
<1>1. CASE Consumers!Delete
  BY <1>1 DEF Consumers!Delete
<1>2. CASE Consumers!DeleteFails
  BY <1>2 DEF Consumers!DeleteFails, Consumers!Mishap
<1>3. CASE Consumers!Redeploy
  BY <1>3 DEF Consumers!Redeploy
<1>4. ASSUME NEW c \in Clicks, NEW mode \in Consumers!Modes, Consumers!Toggle(c, mode) PROVE Consumers!TypeOK'
  BY <1>4 DEF Consumers!Toggle, Consumers!FirstCall
<1>5. ASSUME NEW c \in Clicks, Consumers!Patch(c) PROVE Consumers!TypeOK'
  <2>1. click' \in [Clicks -> [at : Consumers!Places, mode : Consumers!Modes]]
    <3>1. CASE container = Gone
      BY <1>5, <3>1 DEF Consumers!Patch
    <3>2. CASE container # Gone
      BY <1>5, <3>2 DEF Consumers!Patch
    <3> QED
      BY <3>1, <3>2
  <2> QED
    BY <1>5, <2>1 DEF Consumers!Patch
<1>6. ASSUME NEW c \in Clicks, Consumers!Inspect(c) PROVE Consumers!TypeOK'
  <2>1. click' \in [Clicks -> [at : Consumers!Places, mode : Consumers!Modes]]
    <3>1. CASE container = Gone
      BY <1>6, <3>1 DEF Consumers!Inspect
    <3>2. CASE container # Gone
      BY <1>6, <3>2 DEF Consumers!Inspect
    <3> QED
      BY <3>1, <3>2
  <2> QED
    BY <1>6, <2>1 DEF Consumers!Inspect
<1>7. ASSUME NEW c \in Clicks, Consumers!Remove(c) PROVE Consumers!TypeOK'
  BY <1>7 DEF Consumers!Remove
<1>8. ASSUME NEW c \in Clicks, Consumers!RemoveFails(c) PROVE Consumers!TypeOK'
  BY <1>8 DEF Consumers!RemoveFails, Consumers!Mishap
<1>9. ASSUME NEW c \in Clicks, Consumers!Run(c) PROVE Consumers!TypeOK'
  <2>1. click' \in [Clicks -> [at : Consumers!Places, mode : Consumers!Modes]]
    <3>1. CASE container = Gone
      BY <1>9, <3>1 DEF Consumers!Run
    <3>2. CASE container # Gone
      BY <1>9, <3>2 DEF Consumers!Run
    <3> QED
      BY <3>1, <3>2
  <2> QED
    BY <1>9, <2>1 DEF Consumers!Run
<1>10. ASSUME NEW c \in Clicks, Consumers!CallFails(c) PROVE Consumers!TypeOK'
  BY <1>10 DEF Consumers!CallFails, Consumers!Mishap
<1>11. CASE UNCHANGED consumerVars
  BY <1>11 DEF consumerVars
<1> QED
  BY <1>1, <1>2, <1>3, <1>4, <1>5, <1>6, <1>7, <1>8, <1>9, <1>10, <1>11
  DEF Consumers!Next

(* A toggle's end is the override's mode, or a doubt. *)
LEMMA ToggleStep == Consumers!TypeOK /\ ToggleOK /\ [Consumers!Next]_consumerVars => ToggleOK'
<1> SUFFICES ASSUME Consumers!TypeOK, ToggleOK, [Consumers!Next]_consumerVars PROVE ToggleOK'
  OBVIOUS
<1> USE ConsoleAssumption DEF ConsoleAssumption, Consumers!TypeOK, Consumers!Modes, Consumers!Runtimes, Consumers!Places, Consumers!Resting, Consumers!At, Consumers!Goes, Consumers!Raises, ToggleOK, Consumers!Busy, Consumers!Quiet
<1>1. CASE Consumers!Delete
  BY <1>1 DEF Consumers!Delete
<1>2. CASE Consumers!DeleteFails
  BY <1>2 DEF Consumers!DeleteFails, Consumers!Mishap
<1>3. CASE Consumers!Redeploy
  BY <1>3 DEF Consumers!Redeploy
<1>4. ASSUME NEW c \in Clicks, NEW mode \in Consumers!Modes, Consumers!Toggle(c, mode) PROVE ToggleOK'
  <2> SUFFICES ASSUME ~doubt' PROVE ToggleOK'
    BY DEF ToggleOK
  <2>1. Consumers!Busy = {} /\ click[c].at = "idle" /\ override' = mode
    BY <1>4 DEF Consumers!Toggle, Consumers!FirstCall
  <2>2. \A d \in Clicks : click[d].at = "idle"
    BY <2>1
  <2>3. click' = [click EXCEPT ![c] = [at |-> Consumers!FirstCall, mode |-> mode]]
    BY <1>4 DEF Consumers!Toggle
  <2>4. \A d \in Clicks \ {c} : click'[d].at = "idle"
    BY <2>2, <2>3
  <2>5. click'[c].at # "idle" /\ click'[c].mode = mode
    BY <2>3 DEF Consumers!FirstCall
  <2> QED
    BY <2>1, <2>4, <2>5
<1>5. ASSUME NEW c \in Clicks, Consumers!Patch(c) PROVE ToggleOK'
  BY <1>5 DEF Consumers!Patch
<1>6. ASSUME NEW c \in Clicks, Consumers!Inspect(c) PROVE ToggleOK'
  BY <1>6 DEF Consumers!Inspect
<1>7. ASSUME NEW c \in Clicks, Consumers!Remove(c) PROVE ToggleOK'
  BY <1>7 DEF Consumers!Remove
<1>8. ASSUME NEW c \in Clicks, Consumers!RemoveFails(c) PROVE ToggleOK'
  BY <1>8 DEF Consumers!RemoveFails, Consumers!Mishap
<1>9. ASSUME NEW c \in Clicks, Consumers!Run(c) PROVE ToggleOK'
  BY <1>9 DEF Consumers!Run
<1>10. ASSUME NEW c \in Clicks, Consumers!CallFails(c) PROVE ToggleOK'
  BY <1>10 DEF Consumers!CallFails, Consumers!Mishap
<1>11. CASE UNCHANGED consumerVars
  BY <1>11 DEF consumerVars
<1> QED
  BY <1>1, <1>2, <1>3, <1>4, <1>5, <1>6, <1>7, <1>8, <1>9, <1>10, <1>11
  DEF Consumers!Next

(* A deleted pipeline is inspected, but not run. *)
LEMMA DeletedStep == Consumers!TypeOK /\ DeletedOK /\ [Consumers!Next]_consumerVars => DeletedOK'
<1> SUFFICES ASSUME Consumers!TypeOK, DeletedOK, [Consumers!Next]_consumerVars PROVE DeletedOK'
  OBVIOUS
<1> USE ConsoleAssumption DEF ConsoleAssumption, Consumers!TypeOK, Consumers!Modes, Consumers!Runtimes, Consumers!Places, Consumers!Resting, Consumers!At, Consumers!Goes, Consumers!Raises, DeletedOK, Consumers!Recreating
<1>1. CASE Consumers!Delete
  BY <1>1 DEF Consumers!Delete
<1>2. CASE Consumers!DeleteFails
  BY <1>2 DEF Consumers!DeleteFails, Consumers!Mishap
<1>3. CASE Consumers!Redeploy
  BY <1>3 DEF Consumers!Redeploy
<1>4. ASSUME NEW c \in Clicks, NEW mode \in Consumers!Modes, Consumers!Toggle(c, mode) PROVE DeletedOK'
  BY <1>4 DEF Consumers!Toggle, Consumers!FirstCall
<1>5. ASSUME NEW c \in Clicks, Consumers!Patch(c) PROVE DeletedOK'
  BY <1>5 DEF Consumers!Patch
<1>6. ASSUME NEW c \in Clicks, Consumers!Inspect(c) PROVE DeletedOK'
  BY <1>6 DEF Consumers!Inspect
<1>7. ASSUME NEW c \in Clicks, Consumers!Remove(c) PROVE DeletedOK'
  BY <1>7 DEF Consumers!Remove
<1>8. ASSUME NEW c \in Clicks, Consumers!RemoveFails(c) PROVE DeletedOK'
  BY <1>8 DEF Consumers!RemoveFails, Consumers!Mishap
<1>9. ASSUME NEW c \in Clicks, Consumers!Run(c) PROVE DeletedOK'
  BY <1>9 DEF Consumers!Run
<1>10. ASSUME NEW c \in Clicks, Consumers!CallFails(c) PROVE DeletedOK'
  BY <1>10 DEF Consumers!CallFails, Consumers!Mishap
<1>11. CASE UNCHANGED consumerVars
  BY <1>11 DEF consumerVars
<1> QED
  BY <1>1, <1>2, <1>3, <1>4, <1>5, <1>6, <1>7, <1>8, <1>9, <1>10, <1>11
  DEF Consumers!Next

(* What a toggle removes, it runs again, or a call has failed. *)
LEMMA GoneStep == Consumers!TypeOK /\ GoneOK /\ [Consumers!Next]_consumerVars => GoneOK'
<1> SUFFICES ASSUME Consumers!TypeOK, GoneOK, [Consumers!Next]_consumerVars PROVE GoneOK'
  OBVIOUS
<1> USE ConsoleAssumption DEF ConsoleAssumption, Consumers!TypeOK, Consumers!Modes, Consumers!Runtimes, Consumers!Places, Consumers!Resting, Consumers!At, Consumers!Goes, Consumers!Raises, GoneOK, Consumers!Recreating
<1>1. CASE Consumers!Delete
  BY <1>1 DEF Consumers!Delete
<1>2. CASE Consumers!DeleteFails
  BY <1>2 DEF Consumers!DeleteFails, Consumers!Mishap
<1>3. CASE Consumers!Redeploy
  BY <1>3 DEF Consumers!Redeploy
<1>4. ASSUME NEW c \in Clicks, NEW mode \in Consumers!Modes, Consumers!Toggle(c, mode) PROVE GoneOK'
  BY <1>4 DEF Consumers!Toggle, Consumers!FirstCall
<1>5. ASSUME NEW c \in Clicks, Consumers!Patch(c) PROVE GoneOK'
  BY <1>5 DEF Consumers!Patch
<1>6. ASSUME NEW c \in Clicks, Consumers!Inspect(c) PROVE GoneOK'
  BY <1>6 DEF Consumers!Inspect
<1>7. ASSUME NEW c \in Clicks, Consumers!Remove(c) PROVE GoneOK'
  BY <1>7 DEF Consumers!Remove
<1>8. ASSUME NEW c \in Clicks, Consumers!RemoveFails(c) PROVE GoneOK'
  BY <1>8 DEF Consumers!RemoveFails, Consumers!Mishap
<1>9. ASSUME NEW c \in Clicks, Consumers!Run(c) PROVE GoneOK'
  BY <1>9 DEF Consumers!Run
<1>10. ASSUME NEW c \in Clicks, Consumers!CallFails(c) PROVE GoneOK'
  BY <1>10 DEF Consumers!CallFails, Consumers!Mishap
<1>11. CASE UNCHANGED consumerVars
  BY <1>11 DEF consumerVars
<1> QED
  BY <1>1, <1>2, <1>3, <1>4, <1>5, <1>6, <1>7, <1>8, <1>9, <1>10, <1>11
  DEF Consumers!Next

(* Every pipeline starts in its default mode. *)
LEMMA ConsumersInit == Consumers!Init => ConsumersInv
<1> SUFFICES ASSUME Consumers!Init PROVE ConsumersInv
  OBVIOUS
<1>1. \A c \in Clicks : click[c] = Consumers!Resting
  BY DEF Consumers!Init
<1>2. Consumers!TypeOK
  <2>1. Consumers!Resting \in [at : Consumers!Places, mode : Consumers!Modes]
    BY DEF Consumers!Resting, Consumers!Places, Consumers!Modes
  <2>2. click \in [Clicks -> [at : Consumers!Places, mode : Consumers!Modes]]
    BY <2>1 DEF Consumers!Init
  <2>3. "automatic" \in Consumers!Modes /\ 0 \in 0..MaxMishaps
    BY ConsoleAssumption DEF ConsoleAssumption, Consumers!Modes
  <2> QED
    BY <2>2, <2>3 DEF Consumers!Init, Consumers!TypeOK
<1>3. Consumers!Busy = {} /\ Consumers!Recreating = {}
  BY <1>1 DEF Consumers!Busy, Consumers!At, Consumers!Recreating, Consumers!Resting
<1>4. container = "automatic" /\ override = "automatic" /\ ~deleted
  BY DEF Consumers!Init
<1>5. container # Gone
  BY <1>4, ConsoleAssumption DEF ConsoleAssumption, Consumers!Modes
<1> QED
  BY <1>2, <1>3, <1>4, <1>5 DEF ConsumersInv, ToggleOK, DeletedOK, GoneOK

(* Every step of theirs keeps the whole. *)
LEMMA ConsumersStep == ConsumersInv /\ [Consumers!Next]_consumerVars => ConsumersInv'
BY ConsumersTypeStep, ToggleStep, DeletedStep, GoneStep DEF ConsumersInv
-----------------------------------------------------------------------------
(* The review step and the run history's page.                             *)

\* A field has room for the check that is due, and no check is of a later time.
TokensOK ==
  /\ debounced => \A f \in Fields : token[f] < MaxChecks
  /\ \A q \in checks : q.token <= token[q.field]

Latest(f) == {q \in checks : q.field = f /\ q.token = token[f]}

\* Half a second after the last edit, a field that has a name of its own is being
\* checked under it, or was; any other has the mark recheckAll gave it, and
\* nobody to change it, but one that was emptied with a check under way.
MarksOK ==
  ~debounced =>
    \A f \in Fields :
      IF value[f] = Empty
      THEN f \notin emptied => status[f] = "empty" /\ Latest(f) = {}
      ELSE IF Browser!HasSibling(f)
      THEN status[f] = "error" /\ Latest(f) = {}
      ELSE /\ \A q \in Latest(f) : q.name = value[f]
           /\ status[f] = "available" => f \in guess \/ value[f] \notin Taken

\* The button is enabled only if every mark allows it, or clearLoading enabled it
\* and no mark has changed since.
ButtonOK == enabled => forced \/ \A f \in Fields : status[f] = "available"

\* No two requests have one number, and the latest is for the address one went
\* back to.
LoadsOK ==
  /\ \A r \in loads : r.id <= latest
  /\ \A r, s \in loads : r.id = s.id => r = s
  /\ \A r \in loads : r.id = latest /\ ~r.push => address = r.filter

BrowserInv ==
  /\ Browser!TypeOK /\ TokensOK /\ MarksOK /\ ButtonOK /\ LoadsOK
  /\ Browser!AddressIsShown

(* The button is enabled or not, for a bounded number of confirmations. *)
ButtonTypeOK ==
  /\ enabled \in BOOLEAN /\ loading \in BOOLEAN /\ forced \in BOOLEAN
  /\ posts \in 0..MaxPosts

LEMMA ButtonTypeStep == ButtonTypeOK /\ [Browser!Next]_browserVars => ButtonTypeOK'
<1> SUFFICES ASSUME ButtonTypeOK, [Browser!Next]_browserVars PROVE ButtonTypeOK'
  OBVIOUS
<1>1. posts' \in 0..MaxPosts
  <2>1. posts \in 0..MaxPosts /\ MaxPosts \in Nat
    BY ConsoleAssumption DEF ConsoleAssumption, ButtonTypeOK
  <2>2. CASE Browser!Mount
    BY <2>1, <2>2 DEF Browser!Mount
  <2>3. CASE Browser!Submit
    BY <2>1, <2>3 DEF Browser!Submit
  <2>4. CASE Browser!ConfirmRefused
    BY <2>1, <2>4 DEF Browser!ConfirmRefused
  <2>5. CASE ~(Browser!Mount \/ Browser!Submit \/ Browser!ConfirmRefused)
    <3>1. posts' = posts
      BY <2>5, Zenon
      DEF browserVars, Browser!formVars, Browser!button,
          Browser!Next, Browser!Review, Browser!History, Browser!CheckEnds,
          Browser!Type, Browser!Recheck, Browser!Answered, Browser!Unanswered,
          Browser!UpdateSubmitState, Browser!Reload, Browser!Click, Browser!Back,
          Browser!Loaded, Browser!LoadFails
    <3> QED
      BY <2>1, <3>1
  <2> QED
    BY <2>2, <2>3, <2>4, <2>5
<1>2. enabled' \in BOOLEAN /\ loading' \in BOOLEAN /\ forced' \in BOOLEAN
  BY ZenonT(60)
  DEF ButtonTypeOK, browserVars, Browser!formVars, Browser!button,
      Browser!Next, Browser!Review, Browser!History, Browser!CheckEnds, Browser!Mount,
      Browser!Type, Browser!Recheck, Browser!Answered, Browser!Unanswered, Browser!Submit,
      Browser!ConfirmRefused, Browser!UpdateSubmitState, Browser!Reload, Browser!Click,
      Browser!Back, Browser!Loaded, Browser!LoadFails
<1> QED
  BY <1>1, <1>2 DEF ButtonTypeOK

(* Type correctness of the two pages. *)
LEMMA BrowserTypeStep == Browser!TypeOK /\ TokensOK /\ [Browser!Next]_browserVars => Browser!TypeOK'
<1> SUFFICES ASSUME Browser!TypeOK, TokensOK, [Browser!Next]_browserVars PROVE Browser!TypeOK'
  OBVIOUS
<1>0. ButtonTypeOK'
  BY ButtonTypeStep DEF Browser!TypeOK, ButtonTypeOK
<1> USE ConsoleAssumption DEF ConsoleAssumption, Browser!formVars, Browser!button, Browser!viewVars, Browser!TypeOK, Browser!Statuses, TokensOK, ButtonTypeOK
<1>1. ASSUME UNCHANGED page, Browser!Mount PROVE Browser!TypeOK'
  BY <1>0, <1>1 DEF Browser!Mount
<1>2. ASSUME UNCHANGED page, NEW f \in Fields, NEW v \in Names \cup {Empty}, Browser!Type(f, v) PROVE Browser!TypeOK'
  BY <1>2 DEF Browser!Type
<1>3. ASSUME UNCHANGED page, Browser!Recheck PROVE Browser!TypeOK'
  <2> DEFINE new(f) == [field |-> f, token |-> token'[f], name |-> value[f]]
  <2>1. checks' = checks \cup {new(f) : f \in Browser!ToVerify}
    BY <1>3 DEF Browser!Recheck
  <2>2. \A f \in Fields :
          token'[f] = token[f] + (IF value[f] # Empty THEN 1 ELSE 0)
    BY <1>3 DEF Browser!Recheck, Browser!Renewed
  <2>3. \A f \in Browser!ToVerify : f \in Fields /\ value[f] # Empty /\ ~Browser!HasSibling(f)
    BY DEF Browser!ToVerify
  <2>4. \A q \in checks' : q \in checks \/ \E f \in Browser!ToVerify : q = new(f)
    BY <2>1
  <2>5. \A f : new(f).field = f /\ new(f).token = token'[f] /\ new(f).name = value[f]
    OBVIOUS
  <2>6. \A f \in Fields : token[f] \in 0..MaxChecks /\ token[f] < MaxChecks
    BY <1>3 DEF Browser!Recheck
  <2>7. token' \in [Fields -> 0..MaxChecks]
    BY <1>3, <2>6 DEF Browser!Recheck
  <2>8. \A f \in Browser!ToVerify :
          new(f) \in [field : Fields, token : 1..MaxChecks, name : Names]
    BY <2>2, <2>3, <2>6
  <2>9. checks' \subseteq [field : Fields, token : 1..MaxChecks, name : Names]
    BY <2>1, <2>8
  <2> QED
    BY <1>0, <1>3, <2>7, <2>9 DEF Browser!Recheck
<1>4. ASSUME UNCHANGED page, NEW q \in checks, Browser!Answered(q) PROVE Browser!TypeOK'
  <2>1. status' \in [Fields -> Browser!Statuses]
    <3>1. Browser!Verdict(q) \in Browser!Statuses
      BY DEF Browser!Verdict
    <3> HIDE DEF Browser!Statuses
    <3> QED
      BY <1>4, <3>1 DEF Browser!Answered
  <2> QED
    BY <1>0, <1>4, <2>1 DEF Browser!Answered
<1>5. ASSUME UNCHANGED page, NEW q \in checks, Browser!Unanswered(q) PROVE Browser!TypeOK'
  BY <1>0, <1>5 DEF Browser!Unanswered
<1>6. ASSUME UNCHANGED page, Browser!Reload PROVE Browser!TypeOK'
  BY <1>6 DEF Browser!Reload, Browser!GoTo
<1>7. ASSUME UNCHANGED page, NEW filter \in Filters, Browser!Click(filter) PROVE Browser!TypeOK'
  <2> DEFINE new == [id |-> latest + 1, filter |-> filter, push |-> TRUE]
  <2>1. /\ new.id = latest + 1 /\ new.filter = filter /\ new.push = TRUE
        /\ new \in [id : 1..MaxLoads, filter : Filters, push : BOOLEAN]
    BY <1>7 DEF Browser!Click, Browser!Load
  <2>2. loads' = loads \cup {new} /\ latest' = latest + 1
    BY <1>7 DEF Browser!Click, Browser!Load
  <2>3. \A r \in loads' : r \in loads \/ r = new
    BY <2>2
  <2>4. \A r \in loads : r.id \in 1..MaxLoads
    OBVIOUS
  <2> HIDE DEF new
  <2> QED
    BY <1>7, <2>1, <2>2, <2>3, <2>4 DEF Browser!Click, Browser!Load
<1>8. ASSUME UNCHANGED page, NEW filter \in Filters, Browser!Back(filter) PROVE Browser!TypeOK'
  <2> DEFINE new == [id |-> latest + 1, filter |-> filter, push |-> FALSE]
  <2>1. /\ new.id = latest + 1 /\ new.filter = filter /\ new.push = FALSE
        /\ new \in [id : 1..MaxLoads, filter : Filters, push : BOOLEAN]
    BY <1>8 DEF Browser!Back, Browser!Load
  <2>2. loads' = loads \cup {new} /\ latest' = latest + 1
    BY <1>8 DEF Browser!Back, Browser!Load
  <2>3. \A r \in loads' : r \in loads \/ r = new
    BY <2>2
  <2>4. \A r \in loads : r.id \in 1..MaxLoads
    OBVIOUS
  <2> HIDE DEF new
  <2> QED
    BY <1>8, <2>1, <2>2, <2>3, <2>4 DEF Browser!Back, Browser!Load
<1>9. ASSUME UNCHANGED page, NEW r \in loads, Browser!Loaded(r) PROVE Browser!TypeOK'
  BY <1>9 DEF Browser!Loaded, Browser!Show
<1>10. ASSUME UNCHANGED page, NEW r \in loads, Browser!LoadFails(r) PROVE Browser!TypeOK'
  BY <1>10 DEF Browser!LoadFails, Browser!GoTo
<1>11. CASE UNCHANGED browserVars
  BY <1>11 DEF browserVars
<1>12. ASSUME UNCHANGED page, Browser!Submit PROVE Browser!TypeOK'
  BY <1>0, <1>12 DEF Browser!Submit
<1>13. ASSUME UNCHANGED page, Browser!ConfirmRefused PROVE Browser!TypeOK'
  BY <1>0, <1>13 DEF Browser!ConfirmRefused
<1> QED
  BY <1>1, <1>2, <1>3, <1>4, <1>5, <1>6, <1>7, <1>8, <1>9, <1>10, <1>11,
     <1>12, <1>13
  DEF Browser!Next, Browser!Review, Browser!History, Browser!CheckEnds

(* Only recheckAll makes checks, and it is due once per edit. *)
LEMMA TokensStep == Browser!TypeOK /\ TokensOK /\ [Browser!Next]_browserVars => TokensOK'
<1> SUFFICES ASSUME Browser!TypeOK, TokensOK, [Browser!Next]_browserVars PROVE TokensOK'
  OBVIOUS
<1> USE ConsoleAssumption DEF ConsoleAssumption, Browser!formVars, Browser!button, Browser!viewVars, Browser!TypeOK, TokensOK
<1>1. CASE Browser!Mount
  BY <1>1 DEF Browser!Mount
<1>2. ASSUME NEW f \in Fields, NEW v \in Names \cup {Empty}, Browser!Type(f, v) PROVE TokensOK'
  BY <1>2 DEF Browser!Type
<1>3. CASE Browser!Recheck
  <2> DEFINE new(f) == [field |-> f, token |-> token'[f], name |-> value[f]]
  <2>1. checks' = checks \cup {new(f) : f \in Browser!ToVerify}
    BY <1>3 DEF Browser!Recheck
  <2>2. \A f \in Fields :
          token'[f] = token[f] + (IF value[f] # Empty THEN 1 ELSE 0)
    BY <1>3 DEF Browser!Recheck, Browser!Renewed
  <2>3. \A f \in Browser!ToVerify : f \in Fields /\ value[f] # Empty /\ ~Browser!HasSibling(f)
    BY DEF Browser!ToVerify
  <2>4. \A q \in checks' : q \in checks \/ \E f \in Browser!ToVerify : q = new(f)
    BY <2>1
  <2>5. \A f : new(f).field = f /\ new(f).token = token'[f] /\ new(f).name = value[f]
    OBVIOUS
  <2>6. \A f \in Fields : token[f] \in 0..MaxChecks /\ token[f] < MaxChecks
    BY <1>3 DEF Browser!Recheck
  <2>7. \A q \in checks' : q.token <= token'[q.field]
    <3> SUFFICES ASSUME NEW q \in checks' PROVE q.token <= token'[q.field]
      OBVIOUS
    <3>1. CASE q \in checks
      BY <2>2, <2>6, <3>1
    <3>2. ASSUME NEW f \in Browser!ToVerify, q = new(f) PROVE q.token <= token'[q.field]
      BY <2>2, <2>3, <2>5, <2>6, <3>2
    <3> QED
      BY <2>4, <3>1, <3>2
  <2> QED
    BY <1>3, <2>7 DEF Browser!Recheck
<1>4. ASSUME NEW q \in checks, Browser!Answered(q) PROVE TokensOK'
  BY <1>4 DEF Browser!Answered
<1>5. ASSUME NEW q \in checks, Browser!Unanswered(q) PROVE TokensOK'
  BY <1>5 DEF Browser!Unanswered
<1>6. CASE Browser!Reload
  BY <1>6 DEF Browser!Reload, Browser!GoTo
<1>7. ASSUME NEW filter \in Filters, Browser!Click(filter) PROVE TokensOK'
  BY <1>7 DEF Browser!Click, Browser!Load
<1>8. ASSUME NEW filter \in Filters, Browser!Back(filter) PROVE TokensOK'
  BY <1>8 DEF Browser!Back, Browser!Load
<1>9. ASSUME NEW r \in loads, Browser!Loaded(r) PROVE TokensOK'
  BY <1>9 DEF Browser!Loaded, Browser!Show
<1>10. ASSUME NEW r \in loads, Browser!LoadFails(r) PROVE TokensOK'
  BY <1>10 DEF Browser!LoadFails, Browser!GoTo
<1>11. CASE UNCHANGED browserVars
  BY <1>11 DEF browserVars
<1>12. CASE Browser!Submit
  BY <1>12 DEF Browser!Submit
<1>13. CASE Browser!ConfirmRefused
  BY <1>13 DEF Browser!ConfirmRefused
<1> QED
  BY <1>1, <1>2, <1>3, <1>4, <1>5, <1>6, <1>7, <1>8, <1>9, <1>10, <1>11,
     <1>12, <1>13
  DEF Browser!Next, Browser!Review, Browser!History, Browser!CheckEnds

(* Only an answer to a field's latest check marks it. *)
LEMMA MarksStep == Browser!TypeOK /\ TokensOK /\ MarksOK /\ [Browser!Next]_browserVars => MarksOK'
<1> SUFFICES ASSUME Browser!TypeOK, TokensOK, MarksOK, [Browser!Next]_browserVars PROVE MarksOK'
  OBVIOUS
<1> USE ConsoleAssumption DEF ConsoleAssumption, Browser!formVars, Browser!button, Browser!viewVars, Browser!TypeOK, TokensOK, MarksOK, Latest, Browser!HasSibling
<1>1. CASE Browser!Mount
  BY <1>1 DEF Browser!Mount
<1>2. ASSUME NEW f \in Fields, NEW v \in Names \cup {Empty}, Browser!Type(f, v) PROVE MarksOK'
  BY <1>2 DEF Browser!Type
<1>3. CASE Browser!Recheck
  <2> DEFINE new(f) == [field |-> f, token |-> token'[f], name |-> value[f]]
  <2>1. checks' = checks \cup {new(f) : f \in Browser!ToVerify}
    BY <1>3 DEF Browser!Recheck
  <2>2. \A f \in Fields :
          token'[f] = token[f] + (IF value[f] # Empty THEN 1 ELSE 0)
    BY <1>3 DEF Browser!Recheck, Browser!Renewed
  <2>3. \A f \in Browser!ToVerify : f \in Fields /\ value[f] # Empty /\ ~Browser!HasSibling(f)
    BY DEF Browser!ToVerify
  <2>4. \A q \in checks' : q \in checks \/ \E f \in Browser!ToVerify : q = new(f)
    BY <2>1
  <2>5. \A f : new(f).field = f /\ new(f).token = token'[f] /\ new(f).name = value[f]
    OBVIOUS
  <2>6. \A f \in Fields : token[f] \in 0..MaxChecks /\ token[f] < MaxChecks
    BY <1>3 DEF Browser!Recheck
  <2> SUFFICES ASSUME NEW f \in Fields
               PROVE  IF value[f] = Empty
                      THEN f \notin emptied' => status'[f] = "empty" /\ Latest(f)' = {}
                      ELSE IF Browser!HasSibling(f)
                      THEN status'[f] = "error" /\ Latest(f)' = {}
                      ELSE /\ \A q \in Latest(f)' : q.name = value[f]
                           /\ status'[f] = "verifying"
    BY <1>3 DEF Browser!Recheck
  <2>7. /\ value[f] = Empty => status'[f] = "empty"
        /\ value[f] # Empty /\ Browser!HasSibling(f) => status'[f] = "error"
        /\ value[f] # Empty /\ ~Browser!HasSibling(f) => status'[f] = "verifying"
    BY <1>3 DEF Browser!Recheck
  <2>8. ASSUME NEW q \in Latest(f)'
        PROVE  \/ value[f] = Empty /\ f \in emptied'
               \/ value[f] # Empty /\ ~Browser!HasSibling(f) /\ q.name = value[f]
    <3>1. q \in checks' /\ q.field = f /\ q.token = token'[f]
      BY <2>8 DEF Latest
    <3>2. CASE q \in checks
      <4>1. q.token <= token[f] /\ q.token \in Nat
        BY <3>1, <3>2
      <4>2. value[f] = Empty /\ q.token = token[f]
        BY <2>2, <2>6, <3>1, <4>1
      <4> QED
        BY <1>3, <3>1, <3>2, <4>2 DEF Browser!Recheck, Browser!UnderWay
    <3>3. ASSUME NEW g \in Browser!ToVerify, q = new(g)
          PROVE  value[f] # Empty /\ ~Browser!HasSibling(f) /\ q.name = value[f]
      <4>1. g = f
        BY <2>5, <3>1, <3>3
      <4> QED
        BY <2>3, <2>5, <3>3, <4>1
    <3> QED
      BY <2>4, <3>1, <3>2, <3>3
  <2> HIDE DEF Latest, Browser!HasSibling
  <2> QED
    BY <2>7, <2>8
<1>4. ASSUME NEW q \in checks, Browser!Answered(q) PROVE MarksOK'
  <2>1. \A f \in Fields : status'[f] # status[f] => q \in Latest(f) /\ status'[f] = Browser!Verdict(q)
    BY <1>4 DEF Browser!Answered
  <2>2. \A f \in Fields : Latest(f)' \subseteq Latest(f)
    BY <1>4 DEF Browser!Answered
  <2>3. UNCHANGED <<value, debounced, guess, emptied>>
    BY <1>4 DEF Browser!Answered
  <2>4. Browser!Verdict(q) = "available" => q.name \notin Taken
    BY DEF Browser!Verdict
  <2> HIDE DEF Latest
  <2> QED
    BY <2>1, <2>2, <2>3, <2>4
<1>5. ASSUME NEW q \in checks, Browser!Unanswered(q) PROVE MarksOK'
  BY <1>5 DEF Browser!Unanswered
<1>6. CASE Browser!Reload
  BY <1>6 DEF Browser!Reload, Browser!GoTo
<1>7. ASSUME NEW filter \in Filters, Browser!Click(filter) PROVE MarksOK'
  BY <1>7 DEF Browser!Click, Browser!Load
<1>8. ASSUME NEW filter \in Filters, Browser!Back(filter) PROVE MarksOK'
  BY <1>8 DEF Browser!Back, Browser!Load
<1>9. ASSUME NEW r \in loads, Browser!Loaded(r) PROVE MarksOK'
  BY <1>9 DEF Browser!Loaded, Browser!Show
<1>10. ASSUME NEW r \in loads, Browser!LoadFails(r) PROVE MarksOK'
  BY <1>10 DEF Browser!LoadFails, Browser!GoTo
<1>11. CASE UNCHANGED browserVars
  BY <1>11 DEF browserVars
<1>12. CASE Browser!Submit
  BY <1>12 DEF Browser!Submit
<1>13. CASE Browser!ConfirmRefused
  BY <1>13 DEF Browser!ConfirmRefused
<1> QED
  BY <1>1, <1>2, <1>3, <1>4, <1>5, <1>6, <1>7, <1>8, <1>9, <1>10, <1>11,
     <1>12, <1>13
  DEF Browser!Next, Browser!Review, Browser!History, Browser!CheckEnds

(* A later choice has a later number. *)
LEMMA LoadsStep == Browser!TypeOK /\ LoadsOK /\ [Browser!Next]_browserVars => LoadsOK'
<1> SUFFICES ASSUME Browser!TypeOK, LoadsOK, [Browser!Next]_browserVars PROVE LoadsOK'
  OBVIOUS
<1> USE ConsoleAssumption DEF ConsoleAssumption, Browser!formVars, Browser!button, Browser!viewVars, Browser!TypeOK, LoadsOK
<1>1. CASE Browser!Mount
  BY <1>1 DEF Browser!Mount
<1>2. ASSUME NEW f \in Fields, NEW v \in Names \cup {Empty}, Browser!Type(f, v) PROVE LoadsOK'
  BY <1>2 DEF Browser!Type
<1>3. CASE Browser!Recheck
  BY <1>3 DEF Browser!Recheck
<1>4. ASSUME NEW q \in checks, Browser!Answered(q) PROVE LoadsOK'
  BY <1>4 DEF Browser!Answered
<1>5. ASSUME NEW q \in checks, Browser!Unanswered(q) PROVE LoadsOK'
  BY <1>5 DEF Browser!Unanswered
<1>6. CASE Browser!Reload
  BY <1>6 DEF Browser!Reload, Browser!GoTo
<1>7. ASSUME NEW filter \in Filters, Browser!Click(filter) PROVE LoadsOK'
  <2> DEFINE new == [id |-> latest + 1, filter |-> filter, push |-> TRUE]
  <2>1. /\ new.id = latest + 1 /\ new.filter = filter /\ new.push = TRUE
        /\ new \in [id : 1..MaxLoads, filter : Filters, push : BOOLEAN]
    BY <1>7 DEF Browser!Click, Browser!Load
  <2>2. loads' = loads \cup {new} /\ latest' = latest + 1
    BY <1>7 DEF Browser!Click, Browser!Load
  <2>3. \A r \in loads' : r \in loads \/ r = new
    BY <2>2
  <2>4. \A r \in loads : r.id \in 1..MaxLoads
    OBVIOUS
  <2> HIDE DEF new
  <2> QED
    BY <1>7, <2>1, <2>2, <2>3, <2>4 DEF Browser!Click, Browser!Load
<1>8. ASSUME NEW filter \in Filters, Browser!Back(filter) PROVE LoadsOK'
  <2> DEFINE new == [id |-> latest + 1, filter |-> filter, push |-> FALSE]
  <2>1. /\ new.id = latest + 1 /\ new.filter = filter /\ new.push = FALSE
        /\ new \in [id : 1..MaxLoads, filter : Filters, push : BOOLEAN]
    BY <1>8 DEF Browser!Back, Browser!Load
  <2>2. loads' = loads \cup {new} /\ latest' = latest + 1
    BY <1>8 DEF Browser!Back, Browser!Load
  <2>3. \A r \in loads' : r \in loads \/ r = new
    BY <2>2
  <2>4. \A r \in loads : r.id \in 1..MaxLoads
    OBVIOUS
  <2> HIDE DEF new
  <2> QED
    BY <1>8, <2>1, <2>2, <2>3, <2>4 DEF Browser!Back, Browser!Load
<1>9. ASSUME NEW r \in loads, Browser!Loaded(r) PROVE LoadsOK'
  BY <1>9 DEF Browser!Loaded, Browser!Show
<1>10. ASSUME NEW r \in loads, Browser!LoadFails(r) PROVE LoadsOK'
  BY <1>10 DEF Browser!LoadFails, Browser!GoTo
<1>11. CASE UNCHANGED browserVars
  BY <1>11 DEF browserVars
<1>12. CASE Browser!Submit
  BY <1>12 DEF Browser!Submit
<1>13. CASE Browser!ConfirmRefused
  BY <1>13 DEF Browser!ConfirmRefused
<1> QED
  BY <1>1, <1>2, <1>3, <1>4, <1>5, <1>6, <1>7, <1>8, <1>9, <1>10, <1>11,
     <1>12, <1>13
  DEF Browser!Next, Browser!Review, Browser!History, Browser!CheckEnds

(* The answer that is shown is the latest choice's. *)
LEMMA AddressStep == Browser!TypeOK /\ LoadsOK /\ Browser!AddressIsShown /\ [Browser!Next]_browserVars => Browser!AddressIsShown'
<1> SUFFICES ASSUME Browser!TypeOK, LoadsOK, Browser!AddressIsShown, [Browser!Next]_browserVars PROVE Browser!AddressIsShown'
  OBVIOUS
<1> USE ConsoleAssumption DEF ConsoleAssumption, Browser!formVars, Browser!button, Browser!viewVars, Browser!TypeOK, LoadsOK, Browser!AddressIsShown
<1>1. CASE Browser!Mount
  BY <1>1 DEF Browser!Mount
<1>2. ASSUME NEW f \in Fields, NEW v \in Names \cup {Empty}, Browser!Type(f, v) PROVE Browser!AddressIsShown'
  BY <1>2 DEF Browser!Type
<1>3. CASE Browser!Recheck
  BY <1>3 DEF Browser!Recheck
<1>4. ASSUME NEW q \in checks, Browser!Answered(q) PROVE Browser!AddressIsShown'
  BY <1>4 DEF Browser!Answered
<1>5. ASSUME NEW q \in checks, Browser!Unanswered(q) PROVE Browser!AddressIsShown'
  BY <1>5 DEF Browser!Unanswered
<1>6. CASE Browser!Reload
  BY <1>6 DEF Browser!Reload, Browser!GoTo
<1>7. ASSUME NEW filter \in Filters, Browser!Click(filter) PROVE Browser!AddressIsShown'
  <2> DEFINE new == [id |-> latest + 1, filter |-> filter, push |-> TRUE]
  <2>1. /\ new.id = latest + 1 /\ new.filter = filter /\ new.push = TRUE
        /\ new \in [id : 1..MaxLoads, filter : Filters, push : BOOLEAN]
    BY <1>7 DEF Browser!Click, Browser!Load
  <2>2. loads' = loads \cup {new} /\ latest' = latest + 1
    BY <1>7 DEF Browser!Click, Browser!Load
  <2>3. \A r \in loads' : r \in loads \/ r = new
    BY <2>2
  <2>4. \A r \in loads : r.id \in 1..MaxLoads
    OBVIOUS
  <2> HIDE DEF new
  <2> QED
    BY <1>7, <2>1, <2>2, <2>3, <2>4 DEF Browser!Click, Browser!Load
<1>8. ASSUME NEW filter \in Filters, Browser!Back(filter) PROVE Browser!AddressIsShown'
  <2> DEFINE new == [id |-> latest + 1, filter |-> filter, push |-> FALSE]
  <2>1. /\ new.id = latest + 1 /\ new.filter = filter /\ new.push = FALSE
        /\ new \in [id : 1..MaxLoads, filter : Filters, push : BOOLEAN]
    BY <1>8 DEF Browser!Back, Browser!Load
  <2>2. loads' = loads \cup {new} /\ latest' = latest + 1
    BY <1>8 DEF Browser!Back, Browser!Load
  <2>3. \A r \in loads' : r \in loads \/ r = new
    BY <2>2
  <2>4. \A r \in loads : r.id \in 1..MaxLoads
    OBVIOUS
  <2> HIDE DEF new
  <2> QED
    BY <1>8, <2>1, <2>2, <2>3, <2>4 DEF Browser!Back, Browser!Load
<1>9. ASSUME NEW r \in loads, Browser!Loaded(r) PROVE Browser!AddressIsShown'
  BY <1>9 DEF Browser!Loaded, Browser!Show
<1>10. ASSUME NEW r \in loads, Browser!LoadFails(r) PROVE Browser!AddressIsShown'
  BY <1>10 DEF Browser!LoadFails, Browser!GoTo
<1>11. CASE UNCHANGED browserVars
  BY <1>11 DEF browserVars
<1>12. CASE Browser!Submit
  BY <1>12 DEF Browser!Submit
<1>13. CASE Browser!ConfirmRefused
  BY <1>13 DEF Browser!ConfirmRefused
<1> QED
  BY <1>1, <1>2, <1>3, <1>4, <1>5, <1>6, <1>7, <1>8, <1>9, <1>10, <1>11,
     <1>12, <1>13
  DEF Browser!Next, Browser!Review, Browser!History, Browser!CheckEnds

(* The button is enabled by the marks, or by the answer to a confirmation. *)
LEMMA ButtonStep == Browser!TypeOK /\ ButtonOK /\ [Browser!Next]_browserVars => ButtonOK'
<1> SUFFICES ASSUME Browser!TypeOK, ButtonOK, [Browser!Next]_browserVars PROVE ButtonOK'
  OBVIOUS
<1> USE DEF Browser!formVars, Browser!button, Browser!viewVars, ButtonOK
<1>0. /\ status \in [Fields -> Browser!Statuses]
      /\ enabled \in BOOLEAN /\ forced \in BOOLEAN
  BY DEF Browser!TypeOK
<1>1. CASE Browser!Mount
  BY <1>1 DEF Browser!Mount
<1>2. ASSUME NEW f \in Fields, NEW v \in Names \cup {Empty}, Browser!Type(f, v) PROVE ButtonOK'
  BY <1>2 DEF Browser!Type
<1>3. CASE Browser!Recheck
  BY <1>3 DEF Browser!Recheck, Browser!UpdateSubmitState
<1>4. ASSUME NEW q \in checks, Browser!Answered(q) PROVE ButtonOK'
  BY <1>4 DEF Browser!Answered, Browser!UpdateSubmitState
<1>5. ASSUME NEW q \in checks, Browser!Unanswered(q) PROVE ButtonOK'
  BY <1>5 DEF Browser!Unanswered, Browser!UpdateSubmitState
<1>6. CASE Browser!Submit
  BY <1>6 DEF Browser!Submit
<1>7. CASE Browser!ConfirmRefused
  BY <1>7 DEF Browser!ConfirmRefused
<1>8. CASE Browser!History
  BY <1>8 DEF Browser!History, Browser!Reload, Browser!Click, Browser!Back, Browser!Loaded,
              Browser!LoadFails
<1>9. CASE UNCHANGED browserVars
  BY <1>9 DEF browserVars
<1> QED
  BY <1>1, <1>2, <1>3, <1>4, <1>5, <1>6, <1>7, <1>8, <1>9
  DEF Browser!Next, Browser!Review, Browser!CheckEnds

(* The page opens with its first check due. *)
LEMMA BrowserInit == Browser!Init => BrowserInv
<1> SUFFICES ASSUME Browser!Init PROVE BrowserInv
  OBVIOUS
<1>0. ButtonTypeOK
  <2>1. posts \in 0..MaxPosts
    BY ConsoleAssumption DEF ConsoleAssumption, Browser!Init
  <2>2. enabled \in BOOLEAN /\ loading \in BOOLEAN /\ forced \in BOOLEAN
    BY Zenon DEF Browser!Init
  <2> QED
    BY <2>1, <2>2 DEF ButtonTypeOK
<1>1. Browser!TypeOK
  BY <1>0, ConsoleAssumption
  DEF ConsoleAssumption, Browser!Init, Browser!TypeOK, Browser!Statuses, ButtonTypeOK
<1>2. TokensOK
  BY ConsoleAssumption DEF ConsoleAssumption, Browser!Init, TokensOK
<1>3. MarksOK /\ ButtonOK /\ LoadsOK /\ Browser!AddressIsShown
  BY DEF Browser!Init, MarksOK, ButtonOK, LoadsOK, Browser!AddressIsShown
<1> QED
  BY <1>1, <1>2, <1>3 DEF BrowserInv

(* Every step of theirs keeps the whole. *)
LEMMA BrowserStep == BrowserInv /\ [Browser!Next]_browserVars => BrowserInv'
BY BrowserTypeStep, TokensStep, MarksStep, ButtonStep, LoadsStep, AddressStep DEF BrowserInv

(* Submit is enabled for names whose checks said so, or against the marks. *)
LEMMA BrowserSubmit == BrowserInv => Browser!SubmitMeansChecked
BY DEF BrowserInv, Browser!TypeOK, MarksOK, ButtonOK, Latest, Browser!SubmitMeansChecked,
       Browser!HasSibling

-----------------------------------------------------------------------------
(* The run history.                                                        *)

\* What there is to be recorded is finite, and nothing was recorded that nobody
\* handed over.
RunsFinite ==
  /\ IsFiniteSet(processed) /\ runs \subseteq processed
  /\ \A s \in Runs!Stages : IsFiniteSet(logs[s])
  /\ \A v \in Visits : IsFiniteSet(visit[v].batch)

RunsInv == Runs!TypeOK /\ RunsFinite /\ Runs!KeptToTheCap

(* The instance's cardinality is the library's. *)
LEMMA SameCardinality == ASSUME NEW S PROVE Runs!Cardinality(S) = Cardinality(S)
BY DEF Runs!Cardinality, Cardinality

(* What the comprehension says of each record. *)
LEMMA NewestMeans ==
  ASSUME NEW P, NEW n, NEW x
  PROVE  x \in Runs!Newest(P, n) <=>
           x \in P /\ Cardinality({y \in P : y.at > x.at}) < n
<1> DEFINE N(z) == Runs!Cardinality({y \in P : y.at > z.at}) < n
<1>1. Runs!Newest(P, n) = {z \in P : N(z)}
  BY Zenon DEF Runs!Newest
<1> HIDE DEF N
<1>2. x \in {z \in P : N(z)} <=> x \in P /\ N(x)
  OBVIOUS
<1>3. N(x) <=> Cardinality({y \in P : y.at > x.at}) < n
  BY SameCardinality, Zenon DEF N
<1> QED
  BY <1>1, <1>2, <1>3, Zenon

\* One of the newest of a set is one of the newest of another that has nothing
\* newer of its own.
LEMMA NewestAmong ==
  ASSUME NEW P, NEW Q, IsFiniteSet(Q), NEW n \in Nat, NEW x \in P,
         x \in Runs!Newest(Q, n), \A y \in P : y.at > x.at => y \in Q
  PROVE  x \in Runs!Newest(P, n)
<1> DEFINE p == {y \in P : y.at > x.at}
           q == {y \in Q : y.at > x.at}
<1>1. IsFiniteSet(q) /\ Cardinality(q) \in Nat
  <2>1. q \subseteq Q
    OBVIOUS
  <2> HIDE DEF q
  <2>2. IsFiniteSet(q)
    BY <2>1, FS_Subset
  <2> QED
    BY <2>2, FS_CardinalityType
<1>2. p \in SUBSET q
  OBVIOUS
<1>3. Cardinality(q) < n
  BY NewestMeans, Zenon
<1> HIDE DEF p, q
<1>4. IsFiniteSet(p) /\ Cardinality(p) <= Cardinality(q)
  BY <1>1, <1>2, FS_Subset
<1>5. Cardinality(p) \in Nat
  BY <1>4, FS_CardinalityType
<1>6. Cardinality(p) < n
  BY <1>1, <1>3, <1>4, <1>5
<1> QED
  BY <1>6, NewestMeans, Zenon DEF p

\* The newest of a set, and what is left of it by a write, are in it.
LEMMA NewestIn == \A P, n : Runs!Newest(P, n) \subseteq P
BY DEF Runs!Newest

\* A write of the history makes up no record.
LEMMA PrunedIn == \A P : Runs!Pruned(P) \subseteq P
BY DEF Runs!Pruned, Runs!Newest, Runs!Of, Runs!Young

\* A later time and a longer list take nothing from the cap's newest of each stage,
\* if what is new is in the file, and was not pruned.
LEMMA KeptLater ==
  ASSUME RunsInv, now' \in Nat, now' >= now, ConsoleAssumption,
         IsFiniteSet(processed'), processed \subseteq processed',
         processed' \in SUBSET Runs!Records,
         NEW all, all \subseteq processed', runs \subseteq all,
         processed' \ processed \subseteq all,
         \/ runs' = all
         \/ runs' = Runs!Pruned(all)
  PROVE  Runs!KeptToTheCap'
<1> DEFINE past(s) == {y \in Runs!Of(processed, s) : y.at + MaxAge >= now}
           next(s) == {y \in Runs!Of(processed', s) : y.at + MaxAge >= now'}
           kept(s) == Runs!Of(Runs!Young(all), s)
<1> SUFFICES ASSUME NEW s \in Runs!Stages, NEW x \in Runs!Newest(next(s), MaxRecords)
             PROVE  x \in runs'
  BY DEF Runs!KeptToTheCap
<1>1. x \in next(s)
  BY NewestIn
<1>2. x \in processed' /\ x.stage = s /\ x.at + MaxAge >= now'
  BY <1>1 DEF Runs!Of
<1>3. \A y \in processed' : y.at \in Nat
  BY ConsoleAssumption DEF ConsoleAssumption, Runs!Records, Runs!Times
<1>4. MaxAge \in Nat /\ MaxRecords \in Nat /\ now \in Nat
  BY ConsoleAssumption DEF ConsoleAssumption, RunsInv, Runs!TypeOK
<1>5. IsFiniteSet(next(s))
  <2>1. next(s) \in SUBSET processed'
    BY DEF Runs!Of
  <2> QED
    BY <2>1, FS_Subset
<1>6. x \in all
  <2>1. CASE x \in processed
    <3>1. x \in past(s)
      BY <1>2, <1>3, <1>4, <2>1 DEF Runs!Of
    <3>2. \A y \in past(s) : y.at > x.at => y \in next(s)
      BY <1>2, <1>3, <1>4 DEF Runs!Of
    <3> HIDE DEF past, next
    <3>3. x \in Runs!Newest(past(s), MaxRecords)
      BY <1>4, <1>5, <3>1, <3>2, NewestAmong
    <3> QED
      BY <3>3 DEF RunsInv, Runs!KeptToTheCap, past
  <2>2. CASE x \notin processed
    BY <1>2, <2>2
  <2> QED
    BY <2>1, <2>2
<1>7. x \in kept(s)
  BY <1>2, <1>6 DEF Runs!Of, Runs!Young
<1>8. \A y \in kept(s) : y.at > x.at => y \in next(s)
  BY DEF Runs!Of, Runs!Young
<1> HIDE DEF next, kept
<1>9. x \in Runs!Newest(kept(s), MaxRecords)
  BY <1>4, <1>5, <1>7, <1>8, NewestAmong
<1> QED
  BY <1>6, <1>9 DEF Runs!Pruned, kept

(* Type correctness of the run history. *)
LEMMA RunsTypeStep == Runs!TypeOK /\ [Runs!Next]_runVars => Runs!TypeOK'
<1> SUFFICES ASSUME Runs!TypeOK, [Runs!Next]_runVars PROVE Runs!TypeOK'
  OBVIOUS
<1> USE ConsoleAssumption DEF ConsoleAssumption, Runs!TypeOK
<1>1. CASE Runs!NothingHappens
  BY <1>1 DEF Runs!NothingHappens
<1>2. CASE Runs!Restart
  <2>1. Runs!Away \in [at : {"idle", "exec", "record"}, stage : Runs!Stages,
                      batch : SUBSET Runs!Records]
    BY DEF Runs!Away, Runs!Stages
  <2> QED
    BY <1>2, <2>1 DEF Runs!Restart
<1>3. ASSUME NEW s \in Runs!Stages, Runs!Logged(s) PROVE Runs!TypeOK'
  <2>1. now' \in 1..MaxNow
    BY <1>3 DEF Runs!Logged
  <2>2. \A x \in Runs!EventsOf(s) : x \in Runs!Records
    <3>1. \A x \in Runs!Newest(logs[s], 1) : x.run \in Runs!Times
      BY NewestIn DEF Runs!Records
    <3> QED
      BY <2>1, <3>1 DEF Runs!EventsOf, Runs!Records, Runs!Times
  <2>3. PICK x \in Runs!EventsOf(s) : logs' = [logs EXCEPT ![s] = @ \cup {x}]
    BY <1>3 DEF Runs!Logged
  <2>4. logs' \in [Runs!Stages -> SUBSET Runs!Records]
    BY <2>2, <2>3
  <2> QED
    BY <1>3, <2>1, <2>4 DEF Runs!Logged
<1>4. ASSUME NEW s \in Runs!Stages, Runs!LogsShrink(s) PROVE Runs!TypeOK'
  <2>1. PICK kept \in {{}, Runs!Newest(logs[s], 1)} : logs' = [logs EXCEPT ![s] = kept]
    BY <1>4 DEF Runs!LogsShrink
  <2>2. kept \subseteq logs[s]
    BY NewestIn
  <2>3. logs' \in [Runs!Stages -> SUBSET Runs!Records]
    BY <2>1, <2>2
  <2> QED
    BY <1>4, <2>3 DEF Runs!LogsShrink
<1>5. ASSUME NEW v \in Visits, Runs!Record(v) PROVE Runs!TypeOK'
  <2> DEFINE batch == visit[v].batch
  <2>1. runs' = runs \/ runs' = Runs!Pruned(runs \cup Runs!Unseen(batch))
    BY <1>5 DEF Runs!Record
  <2>2. Runs!Unseen(batch) \subseteq batch
    BY DEF Runs!Unseen
  <2>3. batch \subseteq Runs!Records
    OBVIOUS
  <2>4. runs' \subseteq Runs!Records
    BY <2>1, <2>2, <2>3, PrunedIn
  <2>5. processed' \subseteq Runs!Records
    BY <1>5, <2>3 DEF Runs!Record
  <2>6. Runs!Away \in [at : {"idle", "exec", "record"}, stage : Runs!Stages,
                      batch : SUBSET Runs!Records]
    BY DEF Runs!Away, Runs!Stages
  <2>7. visit' = [visit EXCEPT ![v] = Runs!Away]
    BY <1>5 DEF Runs!Record
  <2> QED
    BY <1>5, <2>4, <2>5, <2>6, <2>7 DEF Runs!Record
<1>6. ASSUME NEW v \in Visits, Runs!ExecEnds(v) PROVE Runs!TypeOK'
  <2> DEFINE x == [at |-> now', stage |-> visit[v].stage, run |-> now']
  <2>1. now' \in 1..MaxNow /\ visit[v].stage \in Runs!Stages
    BY <1>6 DEF Runs!ExecEnds, Runs!ExecFails
  <2>2. x \in Runs!Records
    BY <2>1 DEF Runs!Records, Runs!Times
  <2> HIDE DEF x
  <2>3. visit' = [visit EXCEPT ![v].at = "record", ![v].batch = {x}]
    BY <1>6 DEF Runs!ExecEnds, x
  <2>4. visit' \in [Visits -> [at : {"idle", "exec", "record"}, stage : Runs!Stages,
                              batch : SUBSET Runs!Records]]
    BY <2>2, <2>3
  <2> QED
    BY <1>6, <2>1, <2>4 DEF Runs!ExecEnds
<1>7. ASSUME NEW v \in Visits, Runs!ExecFails(v) PROVE Runs!TypeOK'
  <2> DEFINE x == [at |-> now', stage |-> visit[v].stage, run |-> now']
  <2>1. now' \in 1..MaxNow /\ visit[v].stage \in Runs!Stages
    BY <1>7 DEF Runs!ExecEnds, Runs!ExecFails
  <2>2. x \in Runs!Records
    BY <2>1 DEF Runs!Records, Runs!Times
  <2> HIDE DEF x
  <2>3. runs' = Runs!Pruned(runs \cup {x}) /\ processed' = processed \cup {x}
    BY <1>7 DEF Runs!ExecFails, x
  <2>4. runs' \subseteq Runs!Records /\ processed' \subseteq Runs!Records
    BY <2>2, <2>3, PrunedIn
  <2>5. Runs!Away \in [at : {"idle", "exec", "record"}, stage : Runs!Stages,
                      batch : SUBSET Runs!Records]
    BY DEF Runs!Away, Runs!Stages
  <2>6. visit' = [visit EXCEPT ![v] = Runs!Away]
    BY <1>7 DEF Runs!ExecFails
  <2>7. visit' \in [Visits -> [at : {"idle", "exec", "record"}, stage : Runs!Stages,
                              batch : SUBSET Runs!Records]]
    BY <2>5, <2>6
  <2>8. now' \in 0..MaxNow /\ UNCHANGED logs
    BY <1>7, <2>1 DEF Runs!ExecFails
  <2> QED
    BY <2>4, <2>7, <2>8
<1>8. ASSUME NEW v \in Visits, NEW s \in Runs!Stages, Runs!Fetch(v, s) PROVE Runs!TypeOK'
  BY <1>8 DEF Runs!Fetch
<1>9. ASSUME NEW v \in Visits, NEW s \in Runs!Stages, Runs!RunNow(v, s) PROVE Runs!TypeOK'
  BY <1>9 DEF Runs!RunNow
<1>10. CASE UNCHANGED runVars
  BY <1>10 DEF runVars
<1> QED
  BY <1>1, <1>2, <1>3, <1>4, <1>5, <1>6, <1>7, <1>8, <1>9, <1>10
  DEF Runs!Next

(* A batch is finite, and so is what was handed over. *)
LEMMA FiniteStep == Runs!TypeOK /\ RunsFinite /\ [Runs!Next]_runVars => RunsFinite'
<1> SUFFICES ASSUME Runs!TypeOK, RunsFinite, [Runs!Next]_runVars PROVE RunsFinite'
  OBVIOUS
<1> USE ConsoleAssumption DEF ConsoleAssumption, Runs!TypeOK, RunsFinite
<1>1. CASE Runs!NothingHappens
  BY <1>1 DEF Runs!NothingHappens
<1>2. CASE Runs!Restart
  <2>1. IsFiniteSet(Runs!Away.batch)
    BY FS_EmptySet DEF Runs!Away
  <2> QED
    BY <1>2, <2>1 DEF Runs!Restart
<1>3. ASSUME NEW s \in Runs!Stages, Runs!Logged(s) PROVE RunsFinite'
  <2>1. PICK x \in Runs!EventsOf(s) : logs' = [logs EXCEPT ![s] = @ \cup {x}]
    BY <1>3 DEF Runs!Logged
  <2>2. IsFiniteSet(logs[s] \cup {x})
    BY FS_AddElement
  <2>3. \A t \in Runs!Stages : IsFiniteSet(logs'[t])
    BY <2>1, <2>2
  <2> QED
    BY <1>3, <2>3 DEF Runs!Logged
<1>4. ASSUME NEW s \in Runs!Stages, Runs!LogsShrink(s) PROVE RunsFinite'
  <2>1. PICK kept \in {{}, Runs!Newest(logs[s], 1)} : logs' = [logs EXCEPT ![s] = kept]
    BY <1>4 DEF Runs!LogsShrink
  <2>2. kept \in SUBSET logs[s]
    BY NewestIn
  <2>3. IsFiniteSet(kept)
    BY <2>2, FS_Subset
  <2>4. \A t \in Runs!Stages : IsFiniteSet(logs'[t])
    BY <2>1, <2>3
  <2> QED
    BY <1>4, <2>4 DEF Runs!LogsShrink
<1>5. ASSUME NEW v \in Visits, Runs!Record(v) PROVE RunsFinite'
  <2> DEFINE batch == visit[v].batch
  <2>1. runs' = runs \/ runs' = Runs!Pruned(runs \cup Runs!Unseen(batch))
    BY <1>5 DEF Runs!Record
  <2>2. Runs!Unseen(batch) \subseteq batch
    BY DEF Runs!Unseen
  <2>3. IsFiniteSet(processed \cup batch)
    BY FS_Union
  <2>4. runs' \subseteq processed'
    BY <1>5, <2>1, <2>2, PrunedIn DEF Runs!Record
  <2>5. IsFiniteSet(Runs!Away.batch)
    BY FS_EmptySet DEF Runs!Away
  <2>6. \A w \in Visits : IsFiniteSet(visit'[w].batch)
    BY <1>5, <2>5 DEF Runs!Record
  <2> QED
    BY <1>5, <2>3, <2>4, <2>6 DEF Runs!Record
<1>6. ASSUME NEW v \in Visits, Runs!ExecEnds(v) PROVE RunsFinite'
  <2>1. \A w \in Visits : visit'[w].batch = visit[w].batch \/ \E x : visit'[w].batch = {x}
    BY <1>6 DEF Runs!ExecEnds
  <2>2. \A w \in Visits : IsFiniteSet(visit'[w].batch)
    <3> SUFFICES ASSUME NEW w \in Visits PROVE IsFiniteSet(visit'[w].batch)
      OBVIOUS
    <3>1. CASE visit'[w].batch = visit[w].batch
      BY <3>1
    <3>2. ASSUME NEW x, visit'[w].batch = {x} PROVE IsFiniteSet(visit'[w].batch)
      <4>1. IsFiniteSet({x})
        BY FS_Singleton
      <4> QED
        BY <3>2, <4>1
    <3> QED
      BY <2>1, <3>1, <3>2
  <2> QED
    BY <1>6, <2>2 DEF Runs!ExecEnds
<1>7. ASSUME NEW v \in Visits, Runs!ExecFails(v) PROVE RunsFinite'
  <2> DEFINE x == [at |-> now', stage |-> visit[v].stage, run |-> now']
  <2>1. runs' = Runs!Pruned(runs \cup {x}) /\ processed' = processed \cup {x}
    BY <1>7 DEF Runs!ExecFails
  <2> HIDE DEF x
  <2>2. IsFiniteSet(processed') /\ runs' \subseteq processed'
    BY <2>1, PrunedIn, FS_AddElement
  <2>3. IsFiniteSet(Runs!Away.batch)
    BY FS_EmptySet DEF Runs!Away
  <2>4. \A w \in Visits : IsFiniteSet(visit'[w].batch)
    BY <1>7, <2>3 DEF Runs!ExecFails
  <2> QED
    BY <1>7, <2>2, <2>4 DEF Runs!ExecFails
<1>8. ASSUME NEW v \in Visits, NEW s \in Runs!Stages, Runs!Fetch(v, s) PROVE RunsFinite'
  <2>1. \A w \in Visits : IsFiniteSet(visit'[w].batch)
    BY <1>8 DEF Runs!Fetch
  <2> QED
    BY <1>8, <2>1 DEF Runs!Fetch
<1>9. ASSUME NEW v \in Visits, NEW s \in Runs!Stages, Runs!RunNow(v, s) PROVE RunsFinite'
  <2>1. \A w \in Visits : visit'[w].batch = visit[w].batch \/ visit'[w].batch = {}
    BY <1>9 DEF Runs!RunNow
  <2> QED
    BY <1>9, <2>1, FS_EmptySet DEF Runs!RunNow
<1>10. CASE UNCHANGED runVars
  BY <1>10 DEF runVars
<1> QED
  BY <1>1, <1>2, <1>3, <1>4, <1>5, <1>6, <1>7, <1>8, <1>9, <1>10
  DEF Runs!Next

(* However late a batch is recorded, the cap's newest stay. *)
LEMMA KeptStep == Runs!TypeOK /\ RunsFinite /\ Runs!KeptToTheCap /\ Runs!TypeOK' /\ RunsFinite' /\ [Runs!Next]_runVars => Runs!KeptToTheCap'
<1> SUFFICES ASSUME Runs!TypeOK, RunsFinite, Runs!KeptToTheCap, Runs!TypeOK', RunsFinite', [Runs!Next]_runVars PROVE Runs!KeptToTheCap'
  OBVIOUS
<1> USE ConsoleAssumption DEF ConsoleAssumption, Runs!TypeOK, RunsFinite
<1>1. CASE Runs!NothingHappens
  <2>1. UNCHANGED <<runs, processed>>
    BY <1>1 DEF Runs!NothingHappens
  <2>2. now' \in Nat /\ now' >= now
    BY <1>1 DEF Runs!NothingHappens
  <2> QED
    BY <2>1, <2>2, KeptLater DEF RunsInv
<1>2. CASE Runs!Restart
  <2>1. UNCHANGED <<runs, processed>>
    BY <1>2 DEF Runs!Restart, Runs!Away
  <2>2. now' \in Nat /\ now' >= now
    BY <1>2 DEF Runs!Restart, Runs!Away
  <2> QED
    BY <2>1, <2>2, KeptLater DEF RunsInv
<1>3. ASSUME NEW s \in Runs!Stages, Runs!Logged(s) PROVE Runs!KeptToTheCap'
  <2>1. UNCHANGED <<runs, processed>>
    BY <1>3 DEF Runs!Logged
  <2>2. now' \in Nat /\ now' >= now
    BY <1>3 DEF Runs!Logged
  <2> QED
    BY <2>1, <2>2, KeptLater DEF RunsInv
<1>4. ASSUME NEW s \in Runs!Stages, Runs!LogsShrink(s) PROVE Runs!KeptToTheCap'
  <2>1. UNCHANGED <<runs, processed>>
    BY <1>4 DEF Runs!LogsShrink
  <2>2. now' \in Nat /\ now' >= now
    BY <1>4 DEF Runs!LogsShrink
  <2> QED
    BY <2>1, <2>2, KeptLater DEF RunsInv
<1>5. ASSUME NEW v \in Visits, Runs!Record(v) PROVE Runs!KeptToTheCap'
  <2> DEFINE batch == visit[v].batch
  <2>1. UNCHANGED now /\ processed' = processed \cup batch
    BY <1>5 DEF Runs!Record
  <2>2. CASE Runs!Unseen(batch) = {}
    <3>1. UNCHANGED runs
      BY <1>5, <2>2 DEF Runs!Record
    <3>2. batch \subseteq runs
      BY <2>2 DEF Runs!Unseen
    <3>3. processed' \ processed \subseteq runs /\ runs \subseteq processed'
      BY <2>1, <3>2
    <3>4. now' \in Nat /\ now' >= now /\ processed \subseteq processed'
      BY <2>1
    <3> DEFINE all == runs
    <3>5. /\ runs' = all /\ runs \subseteq all /\ all \subseteq processed'
          /\ processed' \ processed \subseteq all
      BY <3>1, <3>3
    <3> HIDE DEF batch, all
    <3> QED
      BY <3>4, <3>5, KeptLater DEF RunsInv
  <2>3. CASE Runs!Unseen(batch) # {}
    <3> DEFINE all == runs \cup Runs!Unseen(batch)
    <3>1. runs' = Runs!Pruned(all)
      BY <1>5, <2>3 DEF Runs!Record
    <3>2. batch \subseteq all /\ all \subseteq processed'
      BY <2>1 DEF Runs!Unseen
    <3> HIDE DEF all
    <3>3. runs \subseteq all
      BY DEF all
    <3> QED
      BY <2>1, <3>1, <3>2, <3>3, KeptLater DEF RunsInv
  <2> QED
    BY <2>2, <2>3
<1>6. ASSUME NEW v \in Visits, Runs!ExecEnds(v) PROVE Runs!KeptToTheCap'
  <2>1. UNCHANGED <<runs, processed>>
    BY <1>6 DEF Runs!ExecEnds
  <2>2. now' \in Nat /\ now' >= now
    BY <1>6 DEF Runs!ExecEnds
  <2> QED
    BY <2>1, <2>2, KeptLater DEF RunsInv
<1>7. ASSUME NEW v \in Visits, Runs!ExecFails(v) PROVE Runs!KeptToTheCap'
  <2> DEFINE x == [at |-> now', stage |-> visit[v].stage, run |-> now']
           all == runs \cup {x}
  <2>1. runs' = Runs!Pruned(all) /\ processed' = processed \cup {x}
    BY <1>7 DEF Runs!ExecFails
  <2>2. now' \in Nat /\ now' >= now
    BY <1>7 DEF Runs!ExecFails
  <2> HIDE DEF x
  <2>3. runs \subseteq all /\ all \subseteq processed' /\ processed' \ processed \subseteq all
    BY <2>1
  <2> HIDE DEF all
  <2> QED
    BY <2>1, <2>2, <2>3, KeptLater DEF RunsInv
<1>8. ASSUME NEW v \in Visits, NEW s \in Runs!Stages, Runs!Fetch(v, s) PROVE Runs!KeptToTheCap'
  <2>1. UNCHANGED <<runs, processed>>
    BY <1>8 DEF Runs!Fetch
  <2>2. now' \in Nat /\ now' >= now
    BY <1>8 DEF Runs!Fetch
  <2> QED
    BY <2>1, <2>2, KeptLater DEF RunsInv
<1>9. ASSUME NEW v \in Visits, NEW s \in Runs!Stages, Runs!RunNow(v, s) PROVE Runs!KeptToTheCap'
  <2>1. UNCHANGED <<runs, processed>>
    BY <1>9 DEF Runs!RunNow
  <2>2. now' \in Nat /\ now' >= now
    BY <1>9 DEF Runs!RunNow
  <2> QED
    BY <2>1, <2>2, KeptLater DEF RunsInv
<1>10. CASE UNCHANGED runVars
  <2>1. UNCHANGED <<runs, processed>>
    BY <1>10 DEF runVars
  <2>2. now' \in Nat /\ now' >= now
    BY <1>10 DEF runVars
  <2> QED
    BY <2>1, <2>2, KeptLater DEF RunsInv
<1> QED
  BY <1>1, <1>2, <1>3, <1>4, <1>5, <1>6, <1>7, <1>8, <1>9, <1>10
  DEF Runs!Next

(* Nothing was recorded at first. *)
LEMMA RunsInit == Runs!Init => RunsInv
<1> SUFFICES ASSUME Runs!Init PROVE RunsInv
  OBVIOUS
<1>1. Runs!TypeOK
  BY ConsoleAssumption
  DEF ConsoleAssumption, Runs!Init, Runs!TypeOK, Runs!Away, Runs!Stages
<1>2. RunsFinite
  BY FS_EmptySet DEF Runs!Init, RunsFinite, Runs!Away
<1>3. Runs!KeptToTheCap
  BY DEF Runs!Init, Runs!KeptToTheCap, Runs!Of, Runs!Newest
<1> QED
  BY <1>1, <1>2, <1>3 DEF RunsInv

(* Every step of theirs keeps the whole. *)
LEMMA RunsStep == RunsInv /\ [Runs!Next]_runVars => RunsInv'
BY RunsTypeStep, FiniteStep, KeptStep DEF RunsInv

-----------------------------------------------------------------------------
(* The parts together.                                                     *)

ConsoleInv == IInv /\ ConsumersInv /\ BrowserInv /\ RunsInv

(* Each part starts in a state of its own. *)
LEMMA ConsoleInitInv == ConsoleInit => ConsoleInv
BY InitInv, ConsumersInit, BrowserInit, RunsInit DEF ConsoleInit, ConsoleInv

(* A step of one part leaves the variables of the others. *)
LEMMA ConsoleStepInv == ConsoleInv /\ [ConsoleNext]_consoleVars => ConsoleInv'
<1> SUFFICES ASSUME ConsoleInv, [ConsoleNext]_consoleVars PROVE ConsoleInv'
  OBVIOUS
<1>1. [Next]_vars /\ [Consumers!Next]_consumerVars /\ [Browser!Next]_browserVars
      /\ [Runs!Next]_runVars
  BY DEF ConsoleNext, consoleVars
<1> QED
  BY <1>1, StepInv, ConsumersStep, BrowserStep, RunsStep DEF ConsoleInv

\* Every part keeps its invariant, whatever the others do.
THEOREM ConsoleInvariance == ConsoleSpec => []ConsoleInv
BY ConsoleInitInv, ConsoleStepInv, PTL DEF ConsoleSpec

\* Every variable of every part keeps its type.
THEOREM PartsTypeCorrect == ConsoleSpec => []PartsTypeOK
<1>1. ConsoleInv => PartsTypeOK
  BY DEF ConsoleInv, IInv, ConsumersInv, RunsInv, BrowserInv, PartsTypeOK
<1> QED
  BY <1>1, ConsoleInvariance, PTL

\* At rest the page shows the mode the container is in, for any number of clicks
\* at once, unless toggles overlapped or failed.
THEOREM ShownModeReal == ConsoleSpec => []ShownModeIsReal
<1>1. ConsoleInv => ShownModeIsReal
  BY DEF ConsoleInv, ConsumersInv, ToggleOK, ShownModeIsReal, Consumers!ShownModeIsReal,
         Consumers!Quiet
<1> QED
  BY <1>1, ConsoleInvariance, PTL

\* A container is gone for a reason, and comes back after a delete only in a race.
THEOREM GoneForAReason == ConsoleSpec => []GoneMeansDeleted
<1>1. ConsoleInv => GoneMeansDeleted
  BY DEF ConsoleInv, ConsumersInv, DeletedOK, GoneOK, Consumers!TypeOK, GoneMeansDeleted,
         Consumers!GoneMeansDeleted
<1> QED
  BY <1>1, ConsoleInvariance, PTL

\* Each role's history has the newest of what was handed to it, for any cap, age and
\* number of records, in whatever order batches come.
THEOREM HistoryKept == ConsoleSpec => []KeptToTheCap
<1>1. ConsoleInv => KeptToTheCap
  BY DEF ConsoleInv, RunsInv, KeptToTheCap
<1> QED
  BY <1>1, ConsoleInvariance, PTL

\* Submit is enabled only for names found free, of any number of fields, however
\* late answers come.
THEOREM SubmitChecked == ConsoleSpec => []SubmitMeansChecked
<1>1. ConsoleInv => SubmitMeansChecked
  BY BrowserSubmit DEF ConsoleInv, SubmitMeansChecked
<1> QED
  BY <1>1, ConsoleInvariance, PTL

\* With the latest choice answered, screen and address bar agree.
THEOREM AddressShown == ConsoleSpec => []AddressIsShown
<1>1. ConsoleInv => AddressIsShown
  BY DEF ConsoleInv, BrowserInv, AddressIsShown
<1> QED
  BY <1>1, ConsoleInvariance, PTL

\* The same of the registry among the other parts: the mirror, and what is owed.
THEOREM ConsoleRegistryKeeps == ConsoleSpec => [](OnlyLateUploadsRegress /\ OwedIsKept)
<1>1. ConsoleInv => OnlyLateUploadsRegress /\ OwedIsKept
  BY RegistryBackupAssumption
  DEF RegistryBackupAssumption, ConsoleInv, IInv, TypeOK, FileOK, OwedOK, OwedIsKept, Rows
<1> QED
  BY <1>1, ConsoleInvariance, PTL
=============================================================================
