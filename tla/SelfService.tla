----------------------------- MODULE SelfService -----------------------------
(***************************************************************************)
(* The self-service application: the registry of data products, the        *)
(* runtime that gives each its adaptor container (podman) or Deployment    *)
(* (Kubernetes), and the handlers of ui/app.py that keep the two in step.  *)
(*                                                                         *)
(* Every registry function runs under one lock, but a handler is several   *)
(* calls: it reads the product, changes the runtime, then the registry (or *)
(* the other way round), and acts on the row it read at the beginning.     *)
(* FastAPI runs the handlers on a thread pool, so that they interleave.    *)
(* confirm_data_product is a coroutine: it keeps the event loop from its   *)
(* look at the broker to the new row, so no two of them are in between.    *)
(*                                                                         *)
(* A product's topics or storage containers are one name here.             *)
(***************************************************************************)
EXTENDS Naturals, Sequences

CONSTANTS
  Products,   \* product types
  Names,      \* names of topics and storage containers
  Requests,   \* threads that serve requests
  RmMayFail,  \* whether a podman rm may fail unseen
  NoRow, Absent, Idle

Modes   == {"automatic", "manual"}
Rows    == [active : BOOLEAN, mode : Modes, name : Names]
Envs    == [mode : Modes, name : Names]
Ops     == {"confirm", "start", "stop", "pause", "resume", "delete"}
Runtimes == {"podman", "kubernetes"}
Effects == {"register", "remove", "launch", "activate", "deactivate",
            "set_manual", "set_automatic", "clean", "unregister"}

Handlers == [op : Ops, prod : Products, row : Rows, todo : Seq(Effects) \ {<<>>}]

ASSUME SelfServiceAssumption ==
  /\ Idle \notin Handlers
  /\ NoRow \notin Rows /\ Absent \notin Envs
  /\ RmMayFail \in BOOLEAN

VARIABLES
  registry,    \* data_products.json: a row for each product there is
  deployed,    \* the environment each product's container was created with
  names,       \* topics and storage containers the platform has
  runtime,     \* DPN_RUNTIME, never changed
  request,     \* the handler each thread runs: its route, its product, the row
               \*   it works with and what it has yet to do
  overlapped,  \* handlers that ran beside another one of the product, or
               \*   whose removal failed unseen (history)
  disturbed    \* products whose row and container may disagree (history)

platform == <<names, runtime>>
vars     == <<registry, deployed, platform, request, overlapped, disturbed>>

EnvOf(r) == [mode |-> r.mode, name |-> r.name]

\* Handler r is about to do e.
AtEffect(r, e) == request[r] # Idle /\ Head(request[r].todo) = e

\* The handlers at work on product p; a creation is one once its row exists.
Working(p) ==
  {r \in Requests :
     request[r] # Idle /\ request[r].prod = p /\ ~AtEffect(r, "register")}

Quiet(p) == Working(p) = {}

Init ==
  /\ registry = [p \in Products |-> NoRow]
  /\ deployed = [p \in Products |-> Absent]
  /\ names = {} /\ runtime \in Runtimes
  /\ request = [r \in Requests |-> Idle]
  /\ overlapped = {} /\ disturbed = {}
-----------------------------------------------------------------------------
(* Bookkeeping of the two histories.                                       *)

\* Handler r begins to work on p, perhaps beside others.
Enters(r, p) ==
  IF Quiet(p) THEN UNCHANGED <<overlapped, disturbed>>
  ELSE /\ overlapped' = overlapped \cup {r} \cup Working(p)
       /\ disturbed' = disturbed \cup {p}

\* Which handlers set a product right whatever state they find it in: all but
\* a podman launch, which leaves a container it finds as it is.
Repairs(h) ==
  \/ h.op \in {"stop", "delete"}
  \/ h.op \in {"pause", "resume"} /\ h.row.active
  \/ h.op \in {"start", "confirm"} /\ runtime = "kubernetes"

\* Handler r has done its next effect and goes on with definition d.
Done(r, d) ==
  LET h == request[r] IN
  IF Len(h.todo) > 1
    THEN /\ request' = [request EXCEPT ![r].todo = Tail(@), ![r].row = d]
         /\ UNCHANGED <<overlapped, disturbed>>
    ELSE /\ request' = [request EXCEPT ![r] = Idle]
         /\ overlapped' = overlapped \ {r}
         /\ disturbed' = IF r \notin overlapped /\ Repairs(h)
                         THEN disturbed \ {h.prod} ELSE disturbed

\* Handler r ends with an exception, the rest undone.
Aborts(r) ==
  /\ request' = [request EXCEPT ![r] = Idle]
  /\ overlapped' = overlapped \ {r}
  /\ disturbed' = disturbed \cup {request[r].prod}
-----------------------------------------------------------------------------
(* The routes: look the product up, or answer 404, and set to work.        *)

Begin(r, o, p, effects) ==
  /\ request[r] = Idle /\ registry[p] # NoRow
  /\ request' = [request EXCEPT ![r] =
                   [op |-> o, prod |-> p, row |-> registry[p], todo |-> effects]]
  /\ Enters(r, p)
  /\ UNCHANGED <<registry, deployed, platform>>

\* runtime.set_execution_mode: podman recreates, Kubernetes patches.
Reconfigure == IF runtime = "podman" THEN <<"remove", "launch">> ELSE <<"launch">>

StopProduct(r, p)   == Begin(r, "stop", p, <<"remove", "deactivate">>)
StartProduct(r, p)  == Begin(r, "start", p, <<"launch", "activate">>)
DeleteProduct(r, p) == Begin(r, "delete", p, <<"remove", "clean", "unregister">>)

PauseProduct(r, p) ==
  Begin(r, "pause", p,
        <<"set_manual">> \o IF registry[p].active THEN Reconfigure ELSE <<>>)

ResumeProduct(r, p) ==
  Begin(r, "resume", p,
        <<"set_automatic">> \o IF registry[p].active THEN Reconfigure ELSE <<>>)

\* confirm_data_product: a name the platform has is refused, unless the check
\* itself fails (precheck is fail-soft).
ConfirmProduct(r, p, n, m) ==
  /\ request[r] = Idle
  /\ \A s \in Requests : ~AtEffect(s, "register")
  /\ request' = [request EXCEPT ![r] =
                   [op |-> "confirm", prod |-> p, todo |-> <<"register", "launch">>,
                    row |-> [active |-> TRUE, mode |-> m, name |-> n]]]
  /\ UNCHANGED <<registry, deployed, platform, overlapped, disturbed>>

ConfirmNew(r, p, n, m) == n \notin names /\ ConfirmProduct(r, p, n, m)

PrecheckFails(r, p, n, m) == n \in names /\ ConfirmProduct(r, p, n, m)
-----------------------------------------------------------------------------
(* The effects.                                                            *)

\* registry.create_product; a product of that name already there is left alone.
Register(r) ==
  LET h == request[r] IN
  /\ AtEffect(r, "register")
  /\ IF registry[h.prod] = NoRow
       THEN /\ registry' = [registry EXCEPT ![h.prod] = h.row]
            /\ request' = [request EXCEPT ![r].todo = Tail(@)]
            /\ Enters(r, h.prod)
       ELSE /\ request' = [request EXCEPT ![r] = Idle]
            /\ UNCHANGED <<registry, overlapped, disturbed>>
  /\ UNCHANGED <<deployed, platform>>

\* runtime.stop: absent already is fine.
Remove(r) ==
  LET h == request[r] IN
  /\ AtEffect(r, "remove")
  /\ deployed' = [deployed EXCEPT ![h.prod] = Absent]
  /\ Done(r, h.row)
  /\ UNCHANGED <<registry, platform>>

\* Under podman an inspect that fails passes for "no such container", and
\* nobody looks at what rm -f answers: the container is still there, and the
\* handler goes on as if it were gone.
RemoveFailsUnseen(r) ==
  LET h == request[r] IN
  /\ RmMayFail /\ runtime = "podman"
  /\ AtEffect(r, "remove") /\ deployed[h.prod] # Absent
  /\ request' = [request EXCEPT ![r].todo = Tail(@)]
  /\ overlapped' = overlapped \cup {r}
  /\ disturbed' = disturbed \cup {h.prod}
  /\ UNCHANGED <<registry, deployed, platform>>

\* Mutation: a Deployment that exists is left as it is.
CreatedOnly(h) == IF deployed[h.prod] = Absent THEN EnvOf(h.row) ELSE deployed[h.prod]

\* What a launch leaves deployed: podman runs a container if there is none,
\* Kubernetes creates the Deployment or patches it.
Launched(h) ==
  IF runtime = "podman" /\ deployed[h.prod] # Absent THEN deployed[h.prod] ELSE EnvOf(h.row)

\* runtime.launch with the handler's definition.
Launch(r) ==
  LET h == request[r] IN
  /\ AtEffect(r, "launch")
  /\ deployed' = [deployed EXCEPT ![h.prod] = Launched(h)]
  /\ Done(r, h.row)
  /\ UNCHANGED <<registry, platform>>

\* Mutation: the handler writes back the row it read at its beginning.
RowReadBefore(r) == request[r].row

\* The row a registry function changes: read again, under the lock.
RowReadAgain(r) == registry[request[r].prod]

\* Mutation: a missing product is passed on as None.
NotFoundIgnored(r) == Done(r, NoRow) /\ UNCHANGED registry

\* ProductNotFoundError ends the handler.
NotFound(r) == Aborts(r) /\ UNCHANGED registry

\* registry.set_active
SetActive(r) ==
  LET h == request[r] IN
  /\ AtEffect(r, "activate") \/ AtEffect(r, "deactivate")
  /\ IF registry[h.prod] = NoRow
       THEN NotFound(r)
       ELSE /\ registry' = [registry EXCEPT ![h.prod] =
                 [RowReadAgain(r) EXCEPT !.active = AtEffect(r, "activate")]]
            /\ Done(r, h.row)
  /\ UNCHANGED <<deployed, platform>>

\* registry.set_execution_mode, likewise; the handler goes on with the row it
\* returns.
SetMode(r) ==
  LET h == request[r] IN
  /\ AtEffect(r, "set_manual") \/ AtEffect(r, "set_automatic")
  /\ IF registry[h.prod] = NoRow
       THEN NotFound(r)
       ELSE /\ registry' = [registry EXCEPT ![h.prod] = [RowReadAgain(r) EXCEPT !.mode =
                 IF AtEffect(r, "set_manual") THEN "manual" ELSE "automatic"]]
            /\ Done(r, registry'[h.prod])
  /\ UNCHANGED <<deployed, platform>>

\* delete_kafka_topic / delete_storage_container, fail-soft.
Clean(r) ==
  LET h == request[r] IN
  /\ AtEffect(r, "clean")
  /\ names' \in {names, names \ {h.row.name}}
  /\ Done(r, h.row)
  /\ UNCHANGED <<registry, deployed, runtime>>

\* registry.delete_product
Unregister(r) ==
  LET h == request[r] IN
  /\ AtEffect(r, "unregister")
  /\ IF registry[h.prod] = NoRow
       THEN NotFound(r)
       ELSE registry' = [registry EXCEPT ![h.prod] = NoRow] /\ Done(r, h.row)
  /\ UNCHANGED <<deployed, platform>>

\* The runtime raises: CalledProcessError of a launch, ApiException of any call.
\* The container or Deployment may be changed all the same: the call after it, for
\* the autoscaler, is the one that failed.
RuntimeFails(r) ==
  LET h == request[r] IN
  /\ AtEffect(r, "launch") \/ (runtime = "kubernetes" /\ AtEffect(r, "remove"))
  /\ \/ UNCHANGED deployed
     \/ deployed' = [deployed EXCEPT ![h.prod] =
                       IF AtEffect(r, "launch") THEN Launched(h) ELSE Absent]
  /\ Aborts(r)
  /\ UNCHANGED <<registry, platform>>
-----------------------------------------------------------------------------
(* Outside the application.                                                *)

\* The adaptor's constructor makes sure that its topic exists.
AdaptorStarts(p) ==
  /\ deployed[p] # Absent /\ deployed[p].name \notin names
  /\ names' = names \cup {deployed[p].name}
  /\ UNCHANGED <<registry, deployed, runtime, request, overlapped, disturbed>>

\* Someone removes the container behind the application's back.
RemovedOutside(p) ==
  /\ deployed[p] # Absent
  /\ deployed' = [deployed EXCEPT ![p] = Absent]
  /\ disturbed' = disturbed \cup {p}
  /\ overlapped' = overlapped \cup Working(p)
  /\ UNCHANGED <<registry, platform, request>>
-----------------------------------------------------------------------------
Route(r) ==
  \/ \E p \in Products : \/ StopProduct(r, p) \/ StartProduct(r, p)
                         \/ PauseProduct(r, p) \/ ResumeProduct(r, p)
                         \/ DeleteProduct(r, p)
  \/ \E p \in Products, n \in Names, m \in Modes :
       ConfirmNew(r, p, n, m) \/ PrecheckFails(r, p, n, m)

Effect(r) ==
  \/ Register(r) \/ Remove(r) \/ Launch(r) \/ SetActive(r) \/ SetMode(r)
  \/ Clean(r) \/ Unregister(r) \/ RuntimeFails(r)

Next ==
  \/ \E r \in Requests : Route(r) \/ Effect(r) \/ RemoveFailsUnseen(r)
  \/ \E p \in Products : AdaptorStarts(p) \/ RemovedOutside(p)

Spec == Init /\ [][Next]_vars
-----------------------------------------------------------------------------
(* Properties.                                                             *)

TypeOK ==
  /\ registry \in [Products -> Rows \cup {NoRow}]
  /\ deployed \in [Products -> Envs \cup {Absent}]
  /\ names \subseteq Names /\ runtime \in Runtimes
  /\ request \in [Requests -> Handlers \cup {Idle}]
  /\ overlapped \subseteq Requests /\ disturbed \subseteq Products

\* Row and container say the same of product p.
Agree(p) ==
  IF registry[p] # NoRow /\ registry[p].active
    THEN deployed[p] = EnvOf(registry[p])
    ELSE deployed[p] = Absent

\* The registry and the runtime are two stores no transaction spans.  When no
\* handler is at work on a product they agree on whether it runs and on its
\* mode, unless two handlers overlapped, one failed half way, a podman removal
\* failed unseen, or the container was removed outside; and a Stop, Delete, or
\* Pause and Resume of an active product (with Kubernetes Start too) that runs
\* alone, and whose own removal works, makes them agree again, whatever it found.
AgreeWhenQuiet ==
  \A p \in Products : Quiet(p) /\ p \notin disturbed => Agree(p)

\* No handler writes back the row it read at its beginning: whatever interleaves,
\* an update changes one field of the row and a deleted row stays deleted until
\* a confirmation makes a new one.
NoLostUpdate ==
  [][\A p \in Products : registry'[p] # registry[p] =>
       \/ registry'[p] = NoRow
       \/ registry[p] = NoRow /\ \E r \in Requests :
            AtEffect(r, "register") /\ request[r].prod = p
       \/ registry[p] # NoRow /\ \/ registry'[p] = [registry[p] EXCEPT !.active = ~@]
                                 \/ registry'[p] = [registry[p] EXCEPT !.mode = registry'[p].mode]]_registry

\* "a stale/bypassed live check can't let a real collision through"
\* (check_name_available): two products never share a topic or a container.
NamesUnique ==
  \A p, q \in Products :
    p # q /\ registry[p] # NoRow /\ registry[q] # NoRow
      => registry[p].name # registry[q].name

=============================================================================
