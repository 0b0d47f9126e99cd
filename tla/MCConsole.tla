------------------------------ MODULE MCConsole ------------------------------
(* What the self-service application keeps besides the products: the         *)
(* registry's file and its mirror (RegistryBackup), the consumer pipelines'  *)
(* overrides (ConsumerPipelines), the run history (RunHistory), and its      *)
(* pages in the browser (Pages).  They share no state: a behaviour is one of *)
(* one part, and leaves the others in a state of their own.                  *)
EXTENDS RegistryBackup, FiniteSets

CONSTANTS Clicks, MaxMishaps, Gone
VARIABLES runtime, override, container, click, doubt, deleted, raced, mishaps

consumerVars ==
  <<runtime, override, container, click, doubt, deleted, raced, mishaps>>
Consumers == INSTANCE ConsumerPipelines

CONSTANTS Visits, MaxNow, MaxRecords, MaxAge
VARIABLES now, logs, runs, visit, processed

runVars == <<now, logs, runs, visit, processed>>
Runs == INSTANCE RunHistory WITH store <- runs

CONSTANTS Fields, Names, Taken, Empty, Filters, MaxChecks, MaxPosts, MaxLoads
VARIABLES page, value, status, token, checks, debounced, guess, emptied,
          enabled, loading, posts, forced, shown, address, latest, loads

browserVars ==
  <<page, value, status, token, checks, debounced, guess, emptied,
    enabled, loading, posts, forced, shown, address, latest, loads>>
Browser == INSTANCE Pages

ASSUME ConsoleAssumption ==
  /\ MaxMishaps \in Nat /\ Gone \notin Consumers!Modes
  /\ MaxNow \in Nat /\ MaxRecords \in Nat /\ MaxAge \in Nat
  /\ Names # {} /\ Empty \notin Names /\ Filters # {}
  /\ MaxChecks \in Nat \ {0} /\ MaxPosts \in Nat /\ MaxLoads \in Nat

VARIABLE part
Parts == {"registry", "consumers", "runs", "browser"}

consoleVars ==
  <<part, vars, consumerVars, runVars, browserVars>>

\* One initial state for the parts a behaviour is not about.
ConsoleInit ==
  /\ part \in Parts
  /\ Init /\ Consumers!Init /\ Runs!Init /\ Browser!Init
  /\ part # "consumers" => runtime = "podman"
  /\ part # "browser" =>
       /\ page = "history"
       /\ shown = (CHOOSE filter \in Filters : TRUE)
       /\ value = [f \in Fields |-> CHOOSE n \in Names : TRUE]

ConsoleNext ==
  \/ /\ part = "registry" /\ Next
     /\ UNCHANGED <<part, consumerVars, runVars, browserVars>>
  \/ /\ part = "consumers" /\ Consumers!Next
     /\ UNCHANGED <<part, vars, runVars, browserVars>>
  \/ /\ part = "runs" /\ Runs!Next
     /\ UNCHANGED <<part, vars, consumerVars, browserVars>>
  \/ /\ part = "browser" /\ Browser!Next
     /\ UNCHANGED <<part, vars, consumerVars, runVars>>

\* Fairness of the registry and of the browser: their actions are enabled in
\* their own part only.
ConsoleSpec ==
  /\ ConsoleInit /\ [][ConsoleNext]_consoleVars
  /\ WF_vars(WriteEnds) /\ WF_vars(TimesOut)
  /\ Browser!Fairness

\* Every variable has its type.
PartsTypeOK ==
  TypeOK /\ Consumers!TypeOK /\ Runs!TypeOK /\ Browser!TypeOK

\* At rest the page shows the mode the consumer's container is in, unless toggles
\* overlapped or failed or it was redeployed (pause and resume routes).
ShownModeIsReal == Consumers!ShownModeIsReal

\* A consumer's container is gone only by a delete or a failed podman command, and
\* comes back after a delete only in a race (set_container_execution_mode).
GoneMeansDeleted == Consumers!GoneMeansDeleted

\* Each role's history has the newest of what was handed to it, up to its own cap,
\* in whatever order batches are recorded (record_from_logs, _write_all).
KeptToTheCap == Runs!KeptToTheCap

\* Submit is enabled only for names that were found free and differ, however late
\* answers come (review-live-check.js).
SubmitMeansChecked == Browser!SubmitMeansChecked

\* No field of the review step is verifying for ever (review-live-check.js).
EveryFieldIsDecided == Browser!EveryFieldIsDecided

\* With the latest choice answered, screen and address bar agree (run-history.js).
AddressIsShown == Browser!AddressIsShown
=============================================================================
