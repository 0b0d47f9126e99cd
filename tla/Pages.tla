-------------------------------- MODULE Pages --------------------------------
(***************************************************************************)
(* Two pages of the self-service application that ask the server in the    *)
(* background, and whose answers come in any order or not at all:          *)
(*                                                                         *)
(*  - the review step, whose names are checked as they are typed           *)
(*    (ui/static/js/review-live-check.js; the name of step 1 is checked in *)
(*    the same way, and has no siblings), and whose button asks the server *)
(*    to create the product (inline-review.js, button-loading.js);         *)
(*  - the run history, whose filters replace a part of the page            *)
(*    (ui/static/js/run-history.js).                                       *)
(***************************************************************************)
EXTENDS Naturals

CONSTANTS
  Fields,     \* the names of the review step
  Names,      \* what one may type into them
  Taken,      \* those the platform has
  Empty,      \* nothing typed
  Filters,    \* addresses of the run history
  MaxChecks,  \* bound on the checks of a field
  MaxPosts,   \* bound on the confirmations under way
  MaxLoads    \* bound on the filters chosen

Statuses == {"empty", "verifying", "error", "available"}

VARIABLES
  page,       \* the page one looks at: "review" or "history"
  value,      \* what is typed in each field
  status,     \* data-check-status of each field
  token,      \* _dpnCheckToken of each field
  checks,     \* checks the server has not answered: [field, token, name]
  debounced,  \* recheckAll is due
  guess,      \* fields whose verdict no server gave (history)
  emptied,    \* fields emptied with a check under way (history)
  enabled,    \* "Create & Launch" is not disabled
  loading,    \*   and shows its spinner
  posts,      \* confirmations of this panel the server has not answered
  forced,     \* clearLoading enabled it against the marks (history)
  shown,      \* the filter whose runs are on the screen
  address,    \* the filter in the address bar
  latest,     \* latestRequestId
  loads       \* requests under way: [id, filter, push]

button    == <<enabled, loading, posts, forced>>
formVars  == <<value, status, token, checks, debounced, guess, emptied, button>>
viewVars  == <<shown, address, latest, loads>>
pagesVars == <<page, formVars, viewVars>>

\* Values as the server proposed them; both fields are checked on mount.
Init ==
  /\ page \in {"review", "history"}
  /\ value \in [Fields -> Names]
  /\ status = [f \in Fields |-> "empty"] /\ token = [f \in Fields |-> 0]
  /\ checks = {} /\ debounced = TRUE
  /\ guess = {} /\ emptied = {}
  /\ enabled = FALSE /\ loading = FALSE /\ posts = 0 /\ forced = FALSE
  /\ shown \in Filters /\ address = shown
  /\ latest = 0 /\ loads = {}
-----------------------------------------------------------------------------
(* The review step.                                                        *)

\* The server's page, or the panel of a new preview or of a confirmation that met
\* a collision (inline-review.js), takes the place of the fields and the button: an
\* answer to one of the old ones marks nothing on the screen.  It proposes names
\* of its own.
Mount ==
  /\ value' \in [Fields -> Names]
  /\ status' = [f \in Fields |-> "empty"] /\ token' = [f \in Fields |-> 0]
  /\ checks' = {} /\ debounced' = TRUE /\ guess' = {} /\ emptied' = {}
  /\ enabled' = FALSE /\ loading' = FALSE /\ posts' = 0 /\ forced' = FALSE
  /\ UNCHANGED viewVars

\* An edit starts the timer anew.
Type(f, v) ==
  /\ v # value[f] /\ \A g \in Fields : token[g] < MaxChecks
  /\ value' = [value EXCEPT ![f] = v]
  /\ debounced' = TRUE
  /\ UNCHANGED <<status, token, checks, guess, emptied, button, viewVars>>

HasSibling(f) == \E g \in Fields \ {f} : value[g] = value[f]
ToVerify == {f \in Fields : value[f] # Empty /\ ~HasSibling(f)}
UnderWay(f) == \E q \in checks : q.field = f /\ q.token = token[f]

\* The fields whose checks under way are void from now on: not those emptied.
Renewed == {f \in Fields : value[f] # Empty}

\* The button follows the marks.
UpdateSubmitState(marks) ==
  /\ enabled' = (\A f \in Fields : marks[f] = "available")
  /\ forced' = FALSE
  /\ UNCHANGED <<loading, posts>>

\* recheckAll, 500 ms after the last edit: checkField of every field.
Recheck ==
  /\ debounced
  /\ debounced' = FALSE
  /\ token' = [f \in Fields |-> token[f] + (IF f \in Renewed THEN 1 ELSE 0)]
  /\ status' = [f \in Fields |-> IF value[f] = Empty THEN "empty"
                                 ELSE IF HasSibling(f) THEN "error"
                                 ELSE "verifying"]
  /\ checks' = checks \cup
       {[field |-> f, token |-> token'[f], name |-> value[f]] : f \in ToVerify}
  /\ guess' = {}
  /\ emptied' = {f \in Fields : value[f] = Empty /\ UnderWay(f)}
  /\ UpdateSubmitState(status')
  /\ UNCHANGED <<value, viewVars>>

Verdict(q) == IF q.name \in Taken THEN "error" ELSE "available"

\* Mutation: an answer is taken whatever it answers.
AnsweredAny(q) ==
  /\ checks' = checks \ {q}
  /\ status' = [status EXCEPT ![q.field] = Verdict(q)]
  /\ UpdateSubmitState(status')
  /\ UNCHANGED <<value, token, debounced, guess, emptied, viewVars>>

\* Only the field's latest check may mark it.
Answered(q) ==
  /\ checks' = checks \ {q}
  /\ IF token[q.field] = q.token
     THEN /\ status' = [status EXCEPT ![q.field] = Verdict(q)]
          /\ UpdateSubmitState(status')
     ELSE UNCHANGED <<status, button>>
  /\ UNCHANGED <<value, token, debounced, guess, emptied, viewVars>>

\* Mutation: a failed request is forgotten.
UnansweredIgnored(q) ==
  /\ checks' = checks \ {q}
  /\ UNCHANGED <<value, status, token, debounced, guess, emptied, button, viewVars>>

\* No answer: the name is taken for free, the server will check it again.
Unanswered(q) ==
  /\ checks' = checks \ {q}
  /\ IF token[q.field] = q.token
     THEN /\ status' = [status EXCEPT ![q.field] = "available"]
          /\ guess' = guess \cup {q.field}
          /\ UpdateSubmitState(status')
     ELSE UNCHANGED <<status, guess, button>>
  /\ UNCHANGED <<value, token, debounced, emptied, viewVars>>

CheckEnds == \E q \in checks : Answered(q) \/ Unanswered(q)

\* "Create & Launch": the button spins and is disabled until the next mark or the
\* answer.  (A required field that is empty stops the submit.)
Submit ==
  /\ enabled /\ \A f \in Fields : value[f] # Empty
  /\ posts < MaxPosts
  /\ posts' = posts + 1 /\ loading' = TRUE /\ enabled' = FALSE /\ forced' = FALSE
  /\ UNCHANGED <<value, status, token, checks, debounced, guess, emptied, viewVars>>

\* The confirmation's answer is not a review panel: the product is a duplicate, the
\* form is refused, or the launch raised.  clearLoading enables the button that
\* spins, whatever the marks say by now.
ConfirmRefused ==
  /\ posts > 0 /\ posts' = posts - 1 /\ loading' = FALSE
  /\ IF loading
     THEN /\ enabled' = TRUE
          /\ forced' = \E f \in Fields : status[f] # "available"
     ELSE UNCHANGED <<enabled, forced>>
  /\ UNCHANGED <<value, status, token, checks, debounced, guess, emptied, viewVars>>
-----------------------------------------------------------------------------
(* The run history.                                                        *)

Load(filter, push) ==
  /\ latest < MaxLoads
  /\ latest' = latest + 1
  /\ loads' = loads \cup {[id |-> latest + 1, filter |-> filter, push |-> push]}

\* A filter is chosen; the address changes with the answer (pushState).
Click(filter) ==
  /\ Load(filter, TRUE)
  /\ UNCHANGED <<shown, address, formVars>>

\* Back or forward: the address has changed already (popstate).
Back(filter) ==
  /\ filter # address
  /\ address' = filter
  /\ Load(filter, FALSE)
  /\ UNCHANGED <<shown, formVars>>

Show(r) ==
  /\ shown' = r.filter
  /\ address' = IF r.push THEN r.filter ELSE address

\* Mutation: the answer that comes last is shown.
LoadedAny(r) ==
  /\ loads' = loads \ {r} /\ Show(r)
  /\ UNCHANGED <<latest, formVars>>

\* An answer overtaken by a later choice is dropped.
Loaded(r) ==
  /\ loads' = loads \ {r}
  /\ IF r.id = latest THEN Show(r) ELSE UNCHANGED <<shown, address>>
  /\ UNCHANGED <<latest, formVars>>

\* The browser goes to an address itself: the page and its requests are replaced.
GoTo(filter) ==
  /\ shown' = filter /\ address' = filter
  /\ latest' = 0 /\ loads' = {}

Reload == GoTo(address) /\ UNCHANGED formVars

\* No answer.
LoadFails(r) ==
  /\ IF r.id = latest
     THEN GoTo(r.filter)
     ELSE loads' = loads \ {r} /\ UNCHANGED <<shown, address, latest>>
  /\ UNCHANGED formVars
-----------------------------------------------------------------------------
Review ==
  \/ Mount
  \/ \E f \in Fields, v \in Names \cup {Empty} : Type(f, v)
  \/ Recheck
  \/ CheckEnds
  \/ Submit \/ ConfirmRefused

History ==
  \/ Reload
  \/ \E filter \in Filters : Click(filter) \/ Back(filter)
  \/ \E r \in loads : Loaded(r) \/ LoadFails(r)

Next ==
  /\ UNCHANGED page
  /\ \/ page = "review" /\ Review
     \/ page = "history" /\ History

\* The timer fires, and the browser answers or gives up.
Fairness ==
  /\ WF_pagesVars(page = "review" /\ Recheck /\ UNCHANGED page)
  /\ WF_pagesVars(page = "review" /\ CheckEnds /\ UNCHANGED page)

Spec == Init /\ [][Next]_pagesVars /\ Fairness
-----------------------------------------------------------------------------
(* Properties.                                                             *)

TypeOK ==
  /\ page \in {"review", "history"}
  /\ value \in [Fields -> Names \cup {Empty}] /\ status \in [Fields -> Statuses]
  /\ token \in [Fields -> 0..MaxChecks]
  /\ checks \subseteq [field : Fields, token : 1..MaxChecks, name : Names]
  /\ debounced \in BOOLEAN /\ guess \subseteq Fields /\ emptied \subseteq Fields
  /\ enabled \in BOOLEAN /\ loading \in BOOLEAN /\ forced \in BOOLEAN
  /\ posts \in 0..MaxPosts
  /\ shown \in Filters /\ address \in Filters /\ latest \in 0..MaxLoads
  /\ loads \subseteq [id : 1..MaxLoads, filter : Filters, push : BOOLEAN]

\* Half a second after the last edit, "Create & Launch" is enabled only for
\* names the platform does not have and that differ from each other, however
\* late the answers to earlier names come and whatever is typed while a
\* confirmation is under way; but for a name no server could be asked about, for a
\* field emptied while its name was being checked, which that answer still marks
\* (checkField), and for a button that the answer to a confirmation enabled against
\* the marks (clearLoading), until the next mark.
SubmitMeansChecked ==
  ~debounced /\ enabled /\ ~forced =>
    \A f \in Fields \ (emptied \cup guess) :
      /\ value[f] \notin Taken \cup {Empty}
      /\ ~HasSibling(f)

\* No field is verifying for ever.
EveryFieldIsDecided ==
  \A f \in Fields : status[f] = "verifying" ~> status[f] # "verifying"

\* With the latest choice answered, the screen and the address bar agree,
\* however the answers to clicks, back and forward overtake one another ("the
\* address bar and reload both still reflect exactly what's on screen").
AddressIsShown ==
  (\A r \in loads : r.id # latest) => shown = address
=============================================================================
