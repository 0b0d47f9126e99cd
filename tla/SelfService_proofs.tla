-------------------------- MODULE SelfService_proofs --------------------------
(***************************************************************************)
(* Proofs about SelfService, for any number of products, names and         *)
(* threads: no handler undoes what another one wrote, and a product that   *)
(* is left alone has the container its row says.                           *)
(***************************************************************************)
EXTENDS SelfService, SequenceTheorems, TLAPS

\* Thread r runs a handler that counts as one at work on its product.
Works(r) == request[r] # Idle /\ ~AtEffect(r, "register")

\* What the handlers have yet to do is the end of what their routes begin with; a
\* confirmation makes an active row, and Pause and Resume only touch the runtime of
\* a product that was active when they looked it up.
Planned(h) ==
  \/ h.op = "stop" /\ h.todo \in {<<"remove", "deactivate">>, <<"deactivate">>}
  \/ h.op = "start" /\ h.todo \in {<<"launch", "activate">>, <<"activate">>}
  \/ /\ h.op = "delete"
     /\ h.todo \in {<<"remove", "clean", "unregister">>, <<"clean", "unregister">>,
                    <<"unregister">>}
  \/ h.op = "confirm" /\ h.row.active /\ h.todo \in {<<"register", "launch">>, <<"launch">>}
  \/ /\ h.op \in {"pause", "resume"}
     /\ \/ h.todo \in {<<"set_manual">>, <<"set_automatic">>} /\ ~h.row.active
        \/ /\ h.todo \in {<<"set_manual", "remove", "launch">>,
                          <<"set_automatic", "remove", "launch">>}
           /\ h.row.active /\ runtime = "podman"
        \/ /\ h.todo \in {<<"set_manual", "launch">>, <<"set_automatic", "launch">>}
           /\ h.row.active /\ runtime = "kubernetes"
        \/ h.todo = <<"remove", "launch">> /\ runtime = "podman"
        \/ h.todo = <<"launch">>

PlanOK == \A r \in Requests : request[r] # Idle => Planned(request[r])

\* Handlers that meet on a product know it, and so does the product; who does not work
\* has met nobody.
OverlapOK ==
  /\ \A r, s \in Requests : Works(r) /\ Works(s) /\ r # s /\ request[r].prod = request[s].prod =>
       r \in overlapped
  /\ \A r \in overlapped : Works(r) /\ request[r].prod \in disturbed

\* How far a handler has come that met nobody: it holds the row there is, its product
\* agreed before if it is not disturbed, and it has done what precedes its next effect.
Solo(r) ==
  LET h == request[r]
      p == h.prod
  IN /\ registry[p] # NoRow
     /\ h.op \notin {"stop", "delete"} => registry[p] = h.row
     /\ h.op \in {"stop", "delete"} /\ ~AtEffect(r, "remove") => deployed[p] = Absent
     /\ h.op = "confirm" /\ p \notin disturbed => deployed[p] = Absent
     /\ h.op = "start" /\ AtEffect(r, "launch") /\ p \notin disturbed => Agree(p)
     /\ h.op = "start" /\ AtEffect(r, "activate") /\ (p \notin disturbed \/ runtime = "kubernetes")
          => deployed[p] = EnvOf(h.row)
     /\ h.op \in {"pause", "resume"} =>
          IF AtEffect(r, "remove") \/ AtEffect(r, "launch")
            THEN /\ h.row.active
                 /\ AtEffect(r, "launch") /\ runtime = "podman" => deployed[p] = Absent
            ELSE p \notin disturbed => Agree(p)

SoloOK == \A r \in Requests : Works(r) /\ r \notin overlapped => Solo(r)

IInv == TypeOK /\ PlanOK /\ OverlapOK /\ SoloOK /\ AgreeWhenQuiet
-----------------------------------------------------------------------------

(* More than one is not one. *)
LEMMA MoreThanOne == \A n \in Nat : n > 1 => n # 1
OBVIOUS

(* A handler is its parts, and has something to do. *)
LEMMA HandlerParts ==
  ASSUME TypeOK, NEW r \in Requests, request[r] # Idle
  PROVE  /\ request[r] \in Handlers
         /\ request[r].op \in Ops /\ request[r].prod \in Products /\ request[r].row \in Rows
         /\ request[r].todo \in Seq(Effects) /\ request[r].todo # <<>>
         /\ Len(request[r].todo) \in Nat /\ Len(request[r].todo) >= 1
<1>1. request[r] \in Handlers
  BY DEF TypeOK
<1> DEFINE todos == Seq(Effects) \ {<<>>}
<1>2. request[r] \in [op : Ops, prod : Products, row : Rows, todo : todos]
  BY <1>1 DEF Handlers
<1> HIDE DEF todos
<1>3. /\ request[r].op \in Ops /\ request[r].prod \in Products /\ request[r].row \in Rows
      /\ request[r].todo \in todos
  BY <1>2
<1>4. request[r].todo \in Seq(Effects) /\ request[r].todo # <<>>
  BY <1>3 DEF todos
<1>5. Len(request[r].todo) \in Nat /\ Len(request[r].todo) # 0
  BY <1>4, EmptySeq, LenProperties
<1> QED
  BY <1>1, <1>3, <1>4, <1>5

(* What a handler does next says what it will do after that. *)
LEMMA PlanTable ==
  ASSUME NEW h, Planned(h)
  PROVE  LET e == Head(h.todo)
         IN /\ e = "remove" =>
                 /\ Len(h.todo) > 1
                 /\ \/ h.op = "stop" /\ Tail(h.todo) = <<"deactivate">>
                    \/ h.op = "delete" /\ Tail(h.todo) = <<"clean", "unregister">>
                    \/ /\ h.op \in {"pause", "resume"} /\ Tail(h.todo) = <<"launch">>
                       /\ runtime = "podman"
            /\ e = "launch" =>
                 \/ h.op = "start" /\ Len(h.todo) > 1 /\ Tail(h.todo) = <<"activate">>
                 \/ h.op \in {"confirm", "pause", "resume"} /\ Len(h.todo) = 1
            /\ e = "activate" => h.op = "start" /\ Len(h.todo) = 1
            /\ e = "deactivate" => h.op = "stop" /\ Len(h.todo) = 1
            /\ e \in {"set_manual", "set_automatic"} =>
                 /\ h.op \in {"pause", "resume"}
                 /\ \/ Len(h.todo) = 1 /\ ~h.row.active
                    \/ /\ Len(h.todo) > 1 /\ h.row.active /\ runtime = "podman"
                       /\ Tail(h.todo) = <<"remove", "launch">>
                    \/ /\ Len(h.todo) > 1 /\ h.row.active /\ runtime = "kubernetes"
                       /\ Tail(h.todo) = <<"launch">>
            /\ e = "clean" =>
                 h.op = "delete" /\ Len(h.todo) > 1 /\ Tail(h.todo) = <<"unregister">>
            /\ e = "unregister" => h.op = "delete" /\ Len(h.todo) = 1
            /\ e = "register" =>
                 /\ h.op = "confirm" /\ h.row.active
                 /\ Len(h.todo) > 1 /\ Tail(h.todo) = <<"launch">>
<1>1. CASE h.op = "stop" /\ h.todo = <<"remove", "deactivate">>
  <2>1. Head(h.todo) = "remove" /\ Len(h.todo) = 2 /\ Tail(h.todo) = <<"deactivate">>
    BY <1>1
  <2> QED
    BY <1>1, <2>1
<1>2. CASE h.op = "stop" /\ h.todo = <<"deactivate">>
  <2>1. Head(h.todo) = "deactivate" /\ Len(h.todo) = 1
    BY <1>2
  <2> QED
    BY <1>2, <2>1
<1>3. CASE h.op = "start" /\ h.todo = <<"launch", "activate">>
  <2>1. Head(h.todo) = "launch" /\ Len(h.todo) = 2 /\ Tail(h.todo) = <<"activate">>
    BY <1>3
  <2> QED
    BY <1>3, <2>1
<1>4. CASE h.op = "start" /\ h.todo = <<"activate">>
  <2>1. Head(h.todo) = "activate" /\ Len(h.todo) = 1
    BY <1>4
  <2> QED
    BY <1>4, <2>1
<1>5. CASE h.op = "delete" /\ h.todo = <<"remove", "clean", "unregister">>
  <2>1. Head(h.todo) = "remove" /\ Len(h.todo) = 3 /\ Tail(h.todo) = <<"clean", "unregister">>
    BY <1>5
  <2> QED
    BY <1>5, <2>1
<1>6. CASE h.op = "delete" /\ h.todo = <<"clean", "unregister">>
  <2>1. Head(h.todo) = "clean" /\ Len(h.todo) = 2 /\ Tail(h.todo) = <<"unregister">>
    BY <1>6
  <2> QED
    BY <1>6, <2>1
<1>7. CASE h.op = "delete" /\ h.todo = <<"unregister">>
  <2>1. Head(h.todo) = "unregister" /\ Len(h.todo) = 1
    BY <1>7
  <2> QED
    BY <1>7, <2>1
<1>8. CASE h.op = "confirm" /\ h.row.active /\ h.todo = <<"register", "launch">>
  <2>1. Head(h.todo) = "register" /\ Len(h.todo) = 2 /\ Tail(h.todo) = <<"launch">>
    BY <1>8
  <2> QED
    BY <1>8, <2>1
<1>9. CASE h.op = "confirm" /\ h.row.active /\ h.todo = <<"launch">>
  <2>1. Head(h.todo) = "launch" /\ Len(h.todo) = 1
    BY <1>9
  <2> QED
    BY <1>9, <2>1
<1>10. CASE h.op \in {"pause", "resume"} /\ ~h.row.active /\ h.todo = <<"set_manual">>
  <2>1. Head(h.todo) = "set_manual" /\ Len(h.todo) = 1
    BY <1>10
  <2> QED
    BY <1>10, <2>1
<1>11. CASE h.op \in {"pause", "resume"} /\ ~h.row.active /\ h.todo = <<"set_automatic">>
  <2>1. Head(h.todo) = "set_automatic" /\ Len(h.todo) = 1
    BY <1>11
  <2> QED
    BY <1>11, <2>1
<1>12. CASE h.op \in {"pause", "resume"} /\ h.row.active /\ runtime = "podman" /\ h.todo = <<"set_manual", "remove", "launch">>
  <2>1. Head(h.todo) = "set_manual" /\ Len(h.todo) = 3 /\ Tail(h.todo) = <<"remove", "launch">>
    BY <1>12
  <2> QED
    BY <1>12, <2>1
<1>13. CASE h.op \in {"pause", "resume"} /\ h.row.active /\ runtime = "podman" /\ h.todo = <<"set_automatic", "remove", "launch">>
  <2>1. Head(h.todo) = "set_automatic" /\ Len(h.todo) = 3 /\ Tail(h.todo) = <<"remove", "launch">>
    BY <1>13
  <2> QED
    BY <1>13, <2>1
<1>14. CASE h.op \in {"pause", "resume"} /\ h.row.active /\ runtime = "kubernetes" /\ h.todo = <<"set_manual", "launch">>
  <2>1. Head(h.todo) = "set_manual" /\ Len(h.todo) = 2 /\ Tail(h.todo) = <<"launch">>
    BY <1>14
  <2> QED
    BY <1>14, <2>1
<1>15. CASE h.op \in {"pause", "resume"} /\ h.row.active /\ runtime = "kubernetes" /\ h.todo = <<"set_automatic", "launch">>
  <2>1. Head(h.todo) = "set_automatic" /\ Len(h.todo) = 2 /\ Tail(h.todo) = <<"launch">>
    BY <1>15
  <2> QED
    BY <1>15, <2>1
<1>16. CASE h.op \in {"pause", "resume"} /\ runtime = "podman" /\ h.todo = <<"remove", "launch">>
  <2>1. Head(h.todo) = "remove" /\ Len(h.todo) = 2 /\ Tail(h.todo) = <<"launch">>
    BY <1>16
  <2> QED
    BY <1>16, <2>1
<1>17. CASE h.op \in {"pause", "resume"} /\ h.todo = <<"launch">>
  <2>1. Head(h.todo) = "launch" /\ Len(h.todo) = 1
    BY <1>17
  <2> QED
    BY <1>17, <2>1
<1> QED
  BY <1>1, <1>2, <1>3, <1>4, <1>5, <1>6, <1>7, <1>8, <1>9, <1>10, <1>11,
     <1>12, <1>13, <1>14, <1>15, <1>16, <1>17
  DEF Planned

(* No other thread is touched, *)
Others(r) == \A s \in Requests : s # r => request'[s] = request[s]

(* and no other product. *)
OnlyOf(p) ==
  /\ \A q \in Products : q # p => registry'[q] = registry[q] /\ deployed'[q] = deployed[q]
  /\ UNCHANGED runtime

(* A handler goes on with its next effect, *)
GoesOn(r, d) ==
  /\ Others(r) /\ UNCHANGED <<overlapped, disturbed>>
  /\ request'[r] \in Handlers /\ request'[r] # Idle
  /\ request'[r].op = request[r].op /\ request'[r].prod = request[r].prod
  /\ request'[r].row = d /\ request'[r].todo = Tail(request[r].todo)

(* ends, *)
Ends(r) ==
  /\ Others(r) /\ request'[r] = Idle
  /\ overlapped' = overlapped \ {r}
  /\ disturbed' = IF r \notin overlapped /\ Repairs(request[r])
                  THEN disturbed \ {request[r].prod} ELSE disturbed

(* or ends with an exception. *)
Fails(r) ==
  /\ Others(r) /\ request'[r] = Idle
  /\ overlapped' = overlapped \ {r}
  /\ disturbed' = disturbed \cup {request[r].prod}

(* An exception ends the handler, whatever it had yet to do. *)
LEMMA AbortsFails ==
  ASSUME TypeOK, NEW r \in Requests, Aborts(r)
  PROVE  Fails(r) /\ request' \in [Requests -> Handlers \cup {Idle}]
<1>1. request \in [Requests -> Handlers \cup {Idle}]
  BY DEF TypeOK
<1> HIDE DEF Handlers
<1> QED
  BY <1>1 DEF Aborts, Fails, Others

(* What is left of a list with more than one effect is one. *)
LEMMA Rest ==
  ASSUME NEW s \in Seq(Effects), Len(s) > 1
  PROVE  Tail(s) \in Seq(Effects) \ {<<>>}
<1>1. Len(s) \in Nat /\ Tail(s) \in Seq(Effects)
  <2>1. s # <<>>
    BY EmptySeq
  <2> QED
    BY <2>1, LenProperties, HeadTailProperties
<1>2. Len(Tail(s)) = Len(s) - 1
  <2>1. s # <<>>
    BY EmptySeq
  <2> QED
    BY <2>1, HeadTailProperties
<1>3. Tail(s) # <<>>
  BY <1>1, <1>2, EmptySeq
<1> QED
  BY <1>1, <1>3

(* After an effect a handler goes on if it has more to do, and ends otherwise. *)
LEMMA DoneForms ==
  ASSUME TypeOK, SelfServiceAssumption, NEW r \in Requests, request[r] # Idle, NEW d \in Rows,
         Done(r, d)
  PROVE  /\ request' \in [Requests -> Handlers \cup {Idle}]
         /\ IF Len(request[r].todo) > 1 THEN GoesOn(r, d) ELSE Ends(r)
<1> DEFINE h == request[r]
           todos == Seq(Effects) \ {<<>>}
           g == [h EXCEPT !.todo = Tail(h.todo), !.row = d]
<1>1. request \in [Requests -> Handlers \cup {Idle}] /\ h \in Handlers
  BY HandlerParts DEF TypeOK
<1>2. CASE Len(h.todo) > 1
  <2>1. h \in [op : Ops, prod : Products, row : Rows, todo : todos]
    BY <1>1 DEF Handlers
  <2>2. Tail(h.todo) \in todos
    BY <1>2, HandlerParts, Rest
  <2> HIDE DEF todos
  <2>3. /\ g \in [op : Ops, prod : Products, row : Rows, todo : todos]
        /\ g.op = h.op /\ g.prod = h.prod /\ g.row = d /\ g.todo = Tail(h.todo)
    BY <2>1, <2>2
  <2>4. g \in Handlers
    BY <2>3 DEF Handlers, todos
  <2>5. g # Idle
    BY <2>4 DEF SelfServiceAssumption
  <2>6. request' = [request EXCEPT ![r] = g] /\ UNCHANGED <<overlapped, disturbed>>
    <3>1. request' = [request EXCEPT ![r].todo = Tail(@), ![r].row = d]
          /\ UNCHANGED <<overlapped, disturbed>>
      BY <1>2 DEF Done
    <3> HIDE DEF Handlers
    <3> QED
      BY <1>1, <3>1
  <2> HIDE DEF g, Handlers
  <2>7. /\ request' \in [Requests -> Handlers \cup {Idle}] /\ request'[r] = g
        /\ \A s \in Requests : s # r => request'[s] = request[s]
    BY <1>1, <2>4, <2>6
  <2> QED
    BY <1>2, <2>3, <2>4, <2>5, <2>6, <2>7 DEF GoesOn, Others
<1>3. CASE ~(Len(h.todo) > 1)
  <2>1. request' = [request EXCEPT ![r] = Idle]
    BY <1>3 DEF Done
  <2> HIDE DEF Handlers
  <2>2. /\ request' \in [Requests -> Handlers \cup {Idle}] /\ request'[r] = Idle
        /\ \A s \in Requests : s # r => request'[s] = request[s]
    BY <1>1, <2>1
  <2> QED
    BY <1>3, <2>2 DEF Done, Ends, Others
<1> QED
  BY <1>2, <1>3

(* What an effect does: it changes its product's row or container only, and its
   handler goes on, having done what comes first, or ends with the two in agreement,
   or fails. *)
Outcome(r) ==
  /\ Works(r) /\ OnlyOf(request[r].prod)
  /\ registry' \in [Products -> Rows \cup {NoRow}]
  /\ deployed' \in [Products -> Envs \cup {Absent}]
  /\ request' \in [Requests -> Handlers \cup {Idle}]
  /\ \/ /\ \E d \in Rows : GoesOn(r, d)
        /\ Planned(request[r])' /\ Works(r)'
        /\ r \notin overlapped => Solo(r)'
     \/ /\ Ends(r)
        /\ \A p \in Products :
             /\ p = request[r].prod /\ r \notin overlapped
             /\ Repairs(request[r]) \/ p \notin disturbed
             => Agree(p)'
     \/ Fails(r)

(* An update of a row changes one field of it. *)
LEMMA RowEdits ==
  ASSUME NEW row \in Rows, NEW b \in BOOLEAN, NEW m \in Modes
  PROVE  /\ [row EXCEPT !.active = b] \in Rows /\ [row EXCEPT !.active = b].active = b
         /\ EnvOf([row EXCEPT !.active = b]) = EnvOf(row)
         /\ [row EXCEPT !.mode = m] \in Rows /\ [row EXCEPT !.mode = m].mode = m
         /\ [row EXCEPT !.mode = m].active = row.active
<1>1. row \in [active : BOOLEAN, mode : Modes, name : Names]
  BY DEF Rows
<1> HIDE DEF Modes
<1> QED
  BY <1>1 DEF Rows, EnvOf

(* A row says what environment its container has. *)
LEMMA EnvType == \A row \in Rows : EnvOf(row) \in Envs
BY DEF Rows, Envs, EnvOf

(* A handler at an effect is one at work, unless it is about to register. *)
LEMMA AtWork ==
  ASSUME TypeOK, PlanOK, NEW r \in Requests, NEW e, AtEffect(r, e), e # "register"
  PROVE  /\ Works(r) /\ request[r] # Idle /\ Head(request[r].todo) = e
         /\ Planned(request[r]) /\ request[r] \in Handlers
         /\ request[r].prod \in Products /\ request[r].row \in Rows
         /\ Len(request[r].todo) \in Nat /\ Len(request[r].todo) >= 1
         /\ runtime \in Runtimes
<1>1. request[r] # Idle /\ Head(request[r].todo) = e
  BY DEF AtEffect
<1>2. Works(r) /\ Planned(request[r]) /\ runtime \in Runtimes
  BY <1>1 DEF Works, AtEffect, PlanOK, TypeOK
<1> QED
  BY <1>1, <1>2, HandlerParts

(* The container is removed first. *)
LEMMA RemoveDoes ==
  ASSUME SelfServiceAssumption, TypeOK, PlanOK, SoloOK, NEW r \in Requests, NEW p, p = request[r].prod,
         Remove(r)
  PROVE  Outcome(r)
<1> DEFINE h == request[r]
<1>1. /\ AtEffect(r, "remove") /\ deployed' = [deployed EXCEPT ![p] = Absent]
      /\ Done(r, h.row) /\ UNCHANGED <<registry, platform>>
  BY DEF Remove
<1>2. /\ Works(r) /\ h # Idle /\ Head(h.todo) = "remove" /\ Planned(h)
      /\ p \in Products /\ h.row \in Rows
  BY <1>1, AtWork
<1>3. /\ Len(h.todo) > 1
      /\ \/ h.op = "stop" /\ Tail(h.todo) = <<"deactivate">>
         \/ h.op = "delete" /\ Tail(h.todo) = <<"clean", "unregister">>
         \/ /\ h.op \in {"pause", "resume"} /\ Tail(h.todo) = <<"launch">>
            /\ runtime = "podman"
  BY <1>2, PlanTable
<1>4. request' \in [Requests -> Handlers \cup {Idle}] /\ GoesOn(r, h.row)
  BY <1>1, <1>2, <1>3, DoneForms
<1>5. /\ deployed' \in [Products -> Envs \cup {Absent}] /\ deployed'[p] = Absent
      /\ \A q \in Products : q # p => deployed'[q] = deployed[q]
  BY <1>1, <1>2 DEF TypeOK
<1>6. registry' \in [Products -> Rows \cup {NoRow}] /\ OnlyOf(p)
  BY <1>1, <1>5 DEF TypeOK, OnlyOf, platform
<1>7. /\ request'[r].op = h.op /\ request'[r].prod = p /\ request'[r].row = h.row
      /\ request'[r].todo = Tail(h.todo) /\ request'[r] # Idle
  BY <1>4 DEF GoesOn
<1>8. Head(request'[r].todo) = IF h.op = "stop" THEN "deactivate"
                               ELSE IF h.op = "delete" THEN "clean" ELSE "launch"
  <2>1. \/ h.op = "stop" /\ request'[r].todo = <<"deactivate">>
        \/ h.op = "delete" /\ request'[r].todo = <<"clean", "unregister">>
        \/ h.op \in {"pause", "resume"} /\ request'[r].todo = <<"launch">>
    BY <1>3, <1>7
  <2>2. /\ Head(<<"deactivate">>) = "deactivate" /\ Head(<<"launch">>) = "launch"
        /\ Head(<<"clean", "unregister">>) = "clean"
    OBVIOUS
  <2> QED
    BY <2>1, <2>2
<1>9. Planned(request[r])'
  BY <1>1, <1>3, <1>7 DEF Planned, platform
<1>10. Works(r)'
  BY <1>7, <1>8 DEF Works, AtEffect
<1>11. ASSUME r \notin overlapped PROVE Solo(r)'
  <2>1. Solo(r)
    BY <1>2, <1>11 DEF SoloOK
  <2>2. /\ registry[p] # NoRow /\ (h.op \notin {"stop", "delete"} => registry[p] = h.row)
        /\ h.op \in {"pause", "resume"} => h.row.active
    BY <1>1, <2>1 DEF Solo
  <2>3. h.op \notin {"start", "confirm"}
    BY <1>3
  <2> HIDE DEF h
  <2> QED
    BY <1>1, <1>3, <1>5, <1>7, <1>8, <2>2, <2>3 DEF Solo, AtEffect
<1> QED
  BY <1>2, <1>4, <1>5, <1>6, <1>9, <1>10, <1>11 DEF Outcome

(* The container has the handler's row, or is the one there was. *)
LEMMA LaunchDoes ==
  ASSUME SelfServiceAssumption, TypeOK, PlanOK, SoloOK, NEW r \in Requests, NEW p, p = request[r].prod,
         Launch(r)
  PROVE  Outcome(r)
<1> DEFINE h == request[r]
<1>1. /\ AtEffect(r, "launch") /\ deployed' = [deployed EXCEPT ![p] = Launched(h)]
      /\ Done(r, h.row) /\ UNCHANGED <<registry, platform>>
  BY DEF Launch
<1>2. /\ Works(r) /\ h # Idle /\ Head(h.todo) = "launch" /\ Planned(h)
      /\ p \in Products /\ h.row \in Rows /\ runtime \in Runtimes
      /\ Len(h.todo) \in Nat /\ Len(h.todo) >= 1
  BY <1>1, AtWork
<1>3. \/ h.op = "start" /\ Len(h.todo) > 1 /\ Tail(h.todo) = <<"activate">>
      \/ h.op \in {"confirm", "pause", "resume"} /\ Len(h.todo) = 1
  BY <1>2, PlanTable
<1>4. /\ request' \in [Requests -> Handlers \cup {Idle}]
      /\ IF Len(h.todo) > 1 THEN GoesOn(r, h.row) ELSE Ends(r)
  BY <1>1, <1>2, DoneForms
<1>5. Launched(h) \in Envs /\ (runtime = "kubernetes" \/ deployed[p] = Absent => Launched(h) = EnvOf(h.row))
  <2>1. EnvOf(h.row) \in Envs /\ deployed[p] \in Envs \cup {Absent} /\ h.prod = p
    BY <1>2, EnvType DEF TypeOK
  <2> HIDE DEF h
  <2> QED
    BY <2>1 DEF Launched
<1>6. /\ deployed' \in [Products -> Envs \cup {Absent}] /\ deployed'[p] = Launched(h)
      /\ \A q \in Products : q # p => deployed'[q] = deployed[q]
  <2> HIDE DEF h
  <2> QED
    BY <1>1, <1>2, <1>5 DEF TypeOK
<1>7. registry' \in [Products -> Rows \cup {NoRow}] /\ OnlyOf(p)
  BY <1>1, <1>6 DEF TypeOK, OnlyOf, platform
<1>8. r \notin overlapped => Solo(r)
  BY <1>2 DEF SoloOK
<1>9. CASE h.op = "start"
  <2>1. GoesOn(r, h.row) /\ Tail(h.todo) = <<"activate">>
    BY <1>3, <1>4, <1>9
  <2>2. /\ request'[r].op = "start" /\ request'[r].prod = p /\ request'[r].row = h.row
        /\ request'[r].todo = <<"activate">> /\ request'[r] # Idle
        /\ UNCHANGED disturbed
    BY <1>9, <2>1 DEF GoesOn
  <2>3. Head(request'[r].todo) = "activate"
    BY <2>2
  <2>4. Planned(request[r])'
    BY <2>2 DEF Planned
  <2>5. Works(r)'
    BY <2>2, <2>3 DEF Works, AtEffect
  <2>6. ASSUME r \notin overlapped PROVE Solo(r)'
    <3>1. /\ registry[p] = h.row /\ registry[p] # NoRow
          /\ p \notin disturbed => Agree(p)
      BY <1>1, <1>8, <1>9, <2>6 DEF Solo
    <3>2. p \notin disturbed \/ runtime = "kubernetes" => deployed'[p] = EnvOf(h.row)
      <4>1. CASE runtime = "kubernetes"
        BY <1>5, <1>6, <4>1
      <4>2. CASE p \notin disturbed
        <5>1. deployed[p] \in {EnvOf(h.row), Absent}
          BY <3>1, <4>2 DEF Agree
        <5>2. CASE deployed[p] = Absent
          BY <1>5, <1>6, <5>2
        <5>3. CASE deployed[p] = EnvOf(h.row)
          BY <1>6, <5>3 DEF Launched
        <5> QED
          BY <5>1, <5>2, <5>3
      <4> QED
        BY <4>1, <4>2
    <3> HIDE DEF h
    <3> QED
      BY <1>1, <2>2, <2>3, <3>1, <3>2 DEF Solo, AtEffect, platform
  <2> QED
    BY <1>2, <1>4, <1>6, <1>7, <2>1, <2>4, <2>5, <2>6 DEF Outcome
<1>10. CASE h.op \in {"confirm", "pause", "resume"}
  <2>1. Ends(r)
    <3>1. Len(h.todo) = 1
      BY <1>3, <1>10
    <3>2. ~(Len(h.todo) > 1)
      BY <3>1
    <3> QED
      BY <1>4, <3>2, Zenon
  <2>2. ASSUME r \notin overlapped, Repairs(h) \/ p \notin disturbed PROVE Agree(p)'
    <3>1. /\ registry[p] # NoRow /\ registry[p] = h.row
          /\ h.op = "confirm" /\ p \notin disturbed => deployed[p] = Absent
          /\ h.op \in {"pause", "resume"} =>
               h.row.active /\ (runtime = "podman" => deployed[p] = Absent)
      BY <1>1, <1>8, <1>10, <2>2 DEF Solo
    <3>2. h.row.active
      BY <1>2, <1>10, <3>1 DEF Planned
    <3>3. runtime = "kubernetes" \/ deployed[p] = Absent
      BY <1>2, <1>10, <2>2, <3>1 DEF Repairs, Runtimes
    <3>4. deployed'[p] = EnvOf(h.row) /\ registry'[p] = h.row
      BY <1>1, <1>5, <1>6, <3>1, <3>3
    <3> HIDE DEF h
    <3> QED
      BY <3>1, <3>2, <3>4 DEF Agree
  <2> QED
    BY <1>2, <1>4, <1>6, <1>7, <2>1, <2>2 DEF Outcome
<1> QED
  BY <1>3, <1>9, <1>10

(* Start and Stop end with their row. *)
LEMMA SetActiveDoes ==
  ASSUME SelfServiceAssumption, TypeOK, PlanOK, SoloOK, NEW r \in Requests, NEW p, p = request[r].prod,
         SetActive(r)
  PROVE  Outcome(r)
<1> DEFINE h == request[r]
<1>1. /\ AtEffect(r, "activate") \/ AtEffect(r, "deactivate")
      /\ UNCHANGED <<deployed, platform>>
  BY DEF SetActive
<1>2. /\ Works(r) /\ h # Idle /\ Head(h.todo) \in {"activate", "deactivate"} /\ Planned(h)
      /\ p \in Products /\ h.row \in Rows
  BY <1>1, AtWork
<1>3. /\ Len(h.todo) = 1
      /\ IF AtEffect(r, "activate") THEN h.op = "start" ELSE h.op = "stop"
  BY <1>1, <1>2, PlanTable DEF AtEffect
<1>4. CASE registry[p] = NoRow
  <2>1. Aborts(r) /\ UNCHANGED registry
    BY <1>4 DEF SetActive, NotFound
  <2>2. Fails(r) /\ request' \in [Requests -> Handlers \cup {Idle}]
    BY <2>1, AbortsFails
  <2> QED
    BY <1>1, <1>2, <2>1, <2>2 DEF Outcome, OnlyOf, platform, TypeOK
<1>5. CASE registry[p] # NoRow
  <2> DEFINE b == AtEffect(r, "activate")
             new == [registry[p] EXCEPT !.active = b]
  <2>1. registry' = [registry EXCEPT ![p] = new] /\ Done(r, h.row)
    BY <1>5 DEF SetActive, RowReadAgain
  <2>2. request' \in [Requests -> Handlers \cup {Idle}] /\ Ends(r)
    <3>1. ~(Len(h.todo) > 1)
      BY <1>3
    <3> QED
      BY <1>2, <2>1, <3>1, DoneForms
  <2>3. registry[p] \in Rows /\ b \in BOOLEAN
    BY <1>2, <1>5 DEF TypeOK, AtEffect
  <2>4. new \in Rows /\ new.active = b /\ EnvOf(new) = EnvOf(registry[p])
    <3> HIDE DEF b
    <3> QED
      BY <2>3, RowEdits DEF Modes
  <2> HIDE DEF new
  <2>5. /\ registry' \in [Products -> Rows \cup {NoRow}] /\ registry'[p] = new
        /\ \A q \in Products : q # p => registry'[q] = registry[q]
    <3> HIDE DEF h
    <3> QED
      BY <1>2, <2>1, <2>4 DEF TypeOK
  <2>6. deployed' \in [Products -> Envs \cup {Absent}] /\ OnlyOf(p)
    BY <1>1, <2>5 DEF TypeOK, OnlyOf, platform
  <2>7. ASSUME r \notin overlapped, Repairs(h) \/ p \notin disturbed PROVE Agree(p)'
    <3>1. Solo(r)
      BY <1>2, <2>7 DEF SoloOK
    <3>2. new # NoRow
      BY <2>4 DEF SelfServiceAssumption
    <3>3. CASE b
      <4>1. h.op = "start" /\ (p \notin disturbed \/ runtime = "kubernetes")
        BY <1>3, <2>7, <3>3 DEF Repairs
      <4>2. registry[p] = h.row /\ deployed[p] = EnvOf(h.row)
        BY <3>1, <3>3, <4>1 DEF Solo
      <4>3. new.active
        BY <2>4, <3>3
      <4> HIDE DEF h, b
      <4> QED
        BY <1>1, <2>4, <2>5, <3>2, <4>2, <4>3 DEF Agree
    <3>4. CASE ~b
      <4>1. h.op = "stop" /\ ~AtEffect(r, "remove")
        BY <1>2, <1>3, <3>4 DEF AtEffect
      <4>2. deployed[p] = Absent
        BY <3>1, <4>1 DEF Solo
      <4>3. ~new.active
        BY <2>4, <3>4
      <4> HIDE DEF h, b
      <4> QED
        BY <1>1, <2>5, <4>2, <4>3 DEF Agree
    <3> QED
      BY <3>3, <3>4
  <2> QED
    BY <1>2, <2>2, <2>5, <2>6, <2>7 DEF Outcome
<1> QED
  BY <1>4, <1>5

(* Pause and Resume go on with the row as it is now. *)
LEMMA SetModeDoes ==
  ASSUME SelfServiceAssumption, TypeOK, PlanOK, SoloOK, NEW r \in Requests, NEW p, p = request[r].prod,
         SetMode(r)
  PROVE  Outcome(r)
<1> DEFINE h == request[r]
<1>1. /\ AtEffect(r, "set_manual") \/ AtEffect(r, "set_automatic")
      /\ UNCHANGED <<deployed, platform>>
  BY DEF SetMode
<1>2. /\ Works(r) /\ h # Idle /\ Head(h.todo) \in {"set_manual", "set_automatic"} /\ Planned(h)
      /\ p \in Products /\ h.row \in Rows /\ Len(h.todo) \in Nat
  BY <1>1, AtWork
<1>3. /\ h.op \in {"pause", "resume"}
      /\ \/ Len(h.todo) = 1 /\ ~h.row.active
         \/ /\ Len(h.todo) > 1 /\ h.row.active /\ runtime = "podman"
            /\ Tail(h.todo) = <<"remove", "launch">>
         \/ /\ Len(h.todo) > 1 /\ h.row.active /\ runtime = "kubernetes"
            /\ Tail(h.todo) = <<"launch">>
  BY <1>2, PlanTable
<1>4. CASE registry[p] = NoRow
  <2>1. Aborts(r) /\ UNCHANGED registry
    BY <1>4 DEF SetMode, NotFound
  <2>2. Fails(r) /\ request' \in [Requests -> Handlers \cup {Idle}]
    BY <2>1, AbortsFails
  <2> QED
    BY <1>1, <1>2, <2>1, <2>2 DEF Outcome, OnlyOf, platform, TypeOK
<1>5. CASE registry[p] # NoRow
  <2> DEFINE m == IF AtEffect(r, "set_manual") THEN "manual" ELSE "automatic"
             new == [registry[p] EXCEPT !.mode = m]
  <2>1. registry' = [registry EXCEPT ![p] = new] /\ Done(r, registry'[p])
    BY <1>5 DEF SetMode, RowReadAgain
  <2>2. registry[p] \in Rows /\ m \in Modes
    BY <1>2, <1>5 DEF TypeOK, Modes
  <2>3. new \in Rows /\ new.active = registry[p].active
    <3> HIDE DEF m
    <3> QED
      BY <2>2, RowEdits
  <2> HIDE DEF new
  <2>4. /\ registry' \in [Products -> Rows \cup {NoRow}] /\ registry'[p] = new
        /\ \A q \in Products : q # p => registry'[q] = registry[q]
    <3> HIDE DEF h
    <3> QED
      BY <1>2, <2>1, <2>3 DEF TypeOK
  <2>5. deployed' \in [Products -> Envs \cup {Absent}] /\ OnlyOf(p)
    BY <1>1, <2>4 DEF TypeOK, OnlyOf, platform
  <2>6. /\ request' \in [Requests -> Handlers \cup {Idle}]
        /\ IF Len(h.todo) > 1 THEN GoesOn(r, new) ELSE Ends(r)
    BY <1>2, <2>1, <2>3, <2>4, DoneForms
  <2>7. ASSUME r \notin overlapped
        PROVE  /\ registry[p] = h.row
               /\ p \notin disturbed => Agree(p)
    <3>1. Solo(r)
      BY <1>2, <2>7 DEF SoloOK
    <3>2. ~(AtEffect(r, "remove") \/ AtEffect(r, "launch"))
      BY <1>2 DEF AtEffect
    <3> QED
      BY <1>3, <3>1, <3>2 DEF Solo
  <2>8. CASE Len(h.todo) = 1
    <3>1. Ends(r) /\ ~h.row.active
      BY <1>3, <2>6, <2>8
    <3>2. ASSUME r \notin overlapped, Repairs(h) \/ p \notin disturbed PROVE Agree(p)'
      <4>1. p \notin disturbed
        BY <1>3, <3>1, <3>2 DEF Repairs
      <4>2. deployed[p] = Absent
        BY <2>7, <3>1, <3>2, <4>1 DEF Agree
      <4>3. ~new.active
        BY <2>3, <2>7, <3>1, <3>2
      <4> HIDE DEF h
      <4> QED
        BY <1>1, <2>4, <4>2, <4>3 DEF Agree
    <3> QED
      BY <1>2, <2>4, <2>5, <2>6, <3>1, <3>2 DEF Outcome
  <2>9. CASE Len(h.todo) > 1
    <3>1. GoesOn(r, new) /\ h.row.active
      <4>1. GoesOn(r, new)
        BY <2>6, <2>9, Zenon
      <4>2. Len(h.todo) # 1
        BY <1>2, <2>9, MoreThanOne, Zenon
      <4> QED
        BY <1>3, <4>1, <4>2, Zenon
    <3>2. /\ request'[r].op = h.op /\ request'[r].prod = p /\ request'[r].row = new
          /\ request'[r].todo = Tail(h.todo) /\ request'[r] # Idle
      BY <3>1 DEF GoesOn
    <3>3. \/ /\ request'[r].todo = <<"remove", "launch">> /\ Head(request'[r].todo) = "remove"
             /\ runtime = "podman"
          \/ /\ request'[r].todo = <<"launch">> /\ Head(request'[r].todo) = "launch"
             /\ runtime = "kubernetes"
      <4>1. Head(<<"remove", "launch">>) = "remove" /\ Head(<<"launch">>) = "launch"
        OBVIOUS
      <4>2. \/ request'[r].todo = <<"remove", "launch">> /\ runtime = "podman"
            \/ request'[r].todo = <<"launch">> /\ runtime = "kubernetes"
        <5>1. Len(h.todo) # 1
          BY <1>2, <2>9, MoreThanOne, Zenon
        <5> QED
          BY <1>3, <3>2, <5>1, Zenon
      <4> QED
        BY <4>1, <4>2
    <3>4. UNCHANGED runtime
      BY <1>1 DEF platform
    <3>5. Planned(request[r])'
      BY <1>3, <3>2, <3>3, <3>4 DEF Planned
    <3>6. Works(r)'
      BY <3>2, <3>3 DEF Works, AtEffect
    <3>7. ASSUME r \notin overlapped PROVE Solo(r)'
      <4>1. new.active /\ new # NoRow
        BY <2>3, <2>7, <3>1, <3>7 DEF SelfServiceAssumption
      <4> HIDE DEF h
      <4> QED
        BY <1>3, <2>4, <3>2, <3>3, <3>4, <4>1 DEF Solo, AtEffect
    <3> QED
      BY <1>2, <2>3, <2>4, <2>5, <2>6, <3>1, <3>5, <3>6, <3>7 DEF Outcome
  <2> QED
    BY <1>3, <2>8, <2>9
<1> QED
  BY <1>4, <1>5

(* The topics of a product go before its row. *)
LEMMA CleanDoes ==
  ASSUME SelfServiceAssumption, TypeOK, PlanOK, SoloOK, NEW r \in Requests, NEW p, p = request[r].prod,
         Clean(r)
  PROVE  Outcome(r)
<1> DEFINE h == request[r]
<1>1. /\ AtEffect(r, "clean") /\ Done(r, h.row) /\ UNCHANGED <<registry, deployed, runtime>>
  BY DEF Clean
<1>2. /\ Works(r) /\ h # Idle /\ Head(h.todo) = "clean" /\ Planned(h)
      /\ p \in Products /\ h.row \in Rows
  BY <1>1, AtWork
<1>3. h.op = "delete" /\ Len(h.todo) > 1 /\ Tail(h.todo) = <<"unregister">>
  BY <1>2, PlanTable
<1>4. request' \in [Requests -> Handlers \cup {Idle}] /\ GoesOn(r, h.row)
  BY <1>1, <1>2, <1>3, DoneForms
<1>5. /\ request'[r].op = "delete" /\ request'[r].prod = p /\ request'[r].row = h.row
      /\ request'[r].todo = <<"unregister">> /\ request'[r] # Idle
  BY <1>3, <1>4 DEF GoesOn
<1>6. Head(request'[r].todo) = "unregister"
  BY <1>5
<1>7. Planned(request[r])' /\ Works(r)'
  BY <1>5, <1>6 DEF Planned, Works, AtEffect
<1>8. ASSUME r \notin overlapped PROVE Solo(r)'
  <2>1. Solo(r)
    BY <1>2, <1>8 DEF SoloOK
  <2>2. registry[p] # NoRow /\ deployed[p] = Absent
    BY <1>2, <1>3, <2>1 DEF Solo, AtEffect
  <2> HIDE DEF h
  <2> QED
    BY <1>1, <1>5, <1>6, <2>2 DEF Solo, AtEffect
<1> QED
  BY <1>1, <1>2, <1>4, <1>7, <1>8 DEF Outcome, OnlyOf, TypeOK

(* Delete ends with the row. *)
LEMMA UnregisterDoes ==
  ASSUME SelfServiceAssumption, TypeOK, PlanOK, SoloOK, NEW r \in Requests, NEW p, p = request[r].prod,
         Unregister(r)
  PROVE  Outcome(r)
<1> DEFINE h == request[r]
<1>1. AtEffect(r, "unregister") /\ UNCHANGED <<deployed, platform>>
  BY DEF Unregister
<1>2. /\ Works(r) /\ h # Idle /\ Head(h.todo) = "unregister" /\ Planned(h)
      /\ p \in Products /\ h.row \in Rows
  BY <1>1, AtWork
<1>3. h.op = "delete" /\ Len(h.todo) = 1
  BY <1>2, PlanTable
<1>4. CASE registry[p] = NoRow
  <2>1. Aborts(r) /\ UNCHANGED registry
    BY <1>4 DEF Unregister, NotFound
  <2>2. Fails(r) /\ request' \in [Requests -> Handlers \cup {Idle}]
    BY <2>1, AbortsFails
  <2> QED
    BY <1>1, <1>2, <2>1, <2>2 DEF Outcome, OnlyOf, platform, TypeOK
<1>5. CASE registry[p] # NoRow
  <2>1. registry' = [registry EXCEPT ![p] = NoRow] /\ Done(r, h.row)
    BY <1>5 DEF Unregister
  <2>2. request' \in [Requests -> Handlers \cup {Idle}] /\ Ends(r)
    <3>1. ~(Len(h.todo) > 1)
      BY <1>3
    <3> QED
      BY <1>2, <2>1, <3>1, DoneForms
  <2>3. /\ registry' \in [Products -> Rows \cup {NoRow}] /\ registry'[p] = NoRow
        /\ \A q \in Products : q # p => registry'[q] = registry[q]
    BY <1>2, <2>1 DEF TypeOK
  <2>4. deployed' \in [Products -> Envs \cup {Absent}] /\ OnlyOf(p)
    BY <1>1, <2>3 DEF TypeOK, OnlyOf, platform
  <2>5. ASSUME r \notin overlapped PROVE Agree(p)'
    <3>1. Solo(r)
      BY <1>2, <2>5 DEF SoloOK
    <3>2. deployed[p] = Absent
      BY <1>2, <1>3, <3>1 DEF Solo, AtEffect
    <3> HIDE DEF h
    <3> QED
      BY <1>1, <2>3, <3>2 DEF Agree
  <2> QED
    BY <1>2, <2>2, <2>3, <2>4, <2>5 DEF Outcome
<1> QED
  BY <1>4, <1>5

(* A call of the runtime that fails ends the handler. *)
LEMMA RuntimeFailsDoes ==
  ASSUME SelfServiceAssumption, TypeOK, PlanOK, SoloOK, NEW r \in Requests, NEW p, p = request[r].prod,
         RuntimeFails(r)
  PROVE  Outcome(r)
<1> DEFINE h == request[r]
<1>1. /\ AtEffect(r, "launch") \/ AtEffect(r, "remove")
      /\ Aborts(r) /\ UNCHANGED <<registry, platform>>
  BY DEF RuntimeFails
<1>2. Works(r) /\ p \in Products /\ h.row \in Rows
  BY <1>1, AtWork
<1>3. Fails(r) /\ request' \in [Requests -> Handlers \cup {Idle}]
  BY <1>1, AbortsFails
<1>4. PICK e \in Envs \cup {Absent} :
        UNCHANGED deployed \/ deployed' = [deployed EXCEPT ![p] = e]
  <2>1. Launched(h) \in Envs \cup {Absent}
    <3>1. EnvOf(h.row) \in Envs /\ deployed[p] \in Envs \cup {Absent} /\ h.prod = p
      BY <1>2, EnvType DEF TypeOK
    <3> HIDE DEF h
    <3> QED
      BY <3>1 DEF Launched
  <2> DEFINE e == IF AtEffect(r, "launch") THEN Launched(h) ELSE Absent
  <2>2. e \in Envs \cup {Absent}
    BY <2>1
  <2>3. UNCHANGED deployed \/ deployed' = [deployed EXCEPT ![p] = e]
    BY DEF RuntimeFails
  <2> HIDE DEF e
  <2> QED
    BY <2>2, <2>3
<1>5. /\ deployed' \in [Products -> Envs \cup {Absent}]
      /\ \A q \in Products : q # p => deployed'[q] = deployed[q]
  <2> HIDE DEF h
  <2> QED
    BY <1>2, <1>4 DEF TypeOK
<1> QED
  BY <1>1, <1>2, <1>3, <1>5 DEF Outcome, OnlyOf, platform, TypeOK

(* The handler's effects, all in these terms. *)
LEMMA EffectDoes ==
  ASSUME SelfServiceAssumption, TypeOK, PlanOK, SoloOK, NEW r \in Requests,
         Effect(r), ~Register(r)
  PROVE  Outcome(r)
<1>1. ASSUME NEW p, p = request[r].prod PROVE Outcome(r)
  BY <1>1, RemoveDoes, LaunchDoes, SetActiveDoes, SetModeDoes, CleanDoes, UnregisterDoes,
     RuntimeFailsDoes
  DEF Effect
<1> QED
  BY <1>1

(* A handler begins its work on product p, *)
Joins(r, p) ==
  /\ Others(r) /\ ~Works(r) /\ OnlyOf(p) /\ Enters(r, p)
  /\ registry' \in [Products -> Rows \cup {NoRow}] /\ UNCHANGED deployed
  /\ request' \in [Requests -> Handlers \cup {Idle}]
  /\ request'[r] # Idle /\ request'[r].prod = p /\ Works(r)'
  /\ Planned(request[r])'
  /\ Quiet(p) => Solo(r)'

(* or nobody does, or ends it: a confirmation is being checked, or finds a product. *)
Waits(r) ==
  /\ Others(r) /\ ~Works(r) /\ ~Works(r)'
  /\ request' \in [Requests -> Handlers \cup {Idle}]
  /\ request'[r] # Idle => Planned(request[r])'
  /\ UNCHANGED <<registry, deployed, runtime, overlapped, disturbed>>

(* The first effect of Pause and Resume, and what it leads to: nothing, *)
LEMMA NothingAfter ==
  ASSUME NEW x \in Effects PROVE <<x>> \o <<>> = <<x>>
BY ConcatEmptySeq

(* one effect, *)
LEMMA OneAfter ==
  ASSUME NEW x \in Effects, NEW y \in Effects PROVE <<x>> \o <<y>> = <<x, y>>
<1> DEFINE s == <<x>> \o <<y>>
           t == <<x, y>>
<1>1. s \in Seq(Effects) /\ Len(s) = 2 /\ s[1] = x /\ s[2] = y
  OBVIOUS
<1>2. t \in Seq(Effects) /\ Len(t) = 2 /\ t[1] = x /\ t[2] = y
  OBVIOUS
<1>3. \A i \in 1..Len(s) : s[i] = t[i]
  BY <1>1, <1>2
<1> HIDE DEF s, t
<1>4. s = t
  BY <1>1, <1>2, <1>3, SeqEqual
<1> QED
  BY <1>4 DEF s, t

(* or two. *)
LEMMA TwoAfter ==
  ASSUME NEW x \in Effects, NEW y \in Effects, NEW z \in Effects
  PROVE  <<x>> \o <<y, z>> = <<x, y, z>>
<1> DEFINE s == <<x>> \o <<y, z>>
           t == <<x, y, z>>
<1>1. s \in Seq(Effects) /\ Len(s) = 3 /\ s[1] = x /\ s[2] = y /\ s[3] = z
  OBVIOUS
<1>2. t \in Seq(Effects) /\ Len(t) = 3 /\ t[1] = x /\ t[2] = y /\ t[3] = z
  OBVIOUS
<1>3. \A i \in 1..Len(s) : s[i] = t[i]
  BY <1>1, <1>2
<1> HIDE DEF s, t
<1>4. s = t
  BY <1>1, <1>2, <1>3, SeqEqual
<1> QED
  BY <1>4 DEF s, t

(* What the routes begin with is a handler's list of effects. *)
LEMMA Beginnings ==
  ASSUME NEW e \in {"set_manual", "set_automatic"}
  PROVE  /\ <<"remove", "deactivate">> \in Seq(Effects) \ {<<>>}
         /\ <<"launch", "activate">> \in Seq(Effects) \ {<<>>}
         /\ <<"remove", "clean", "unregister">> \in Seq(Effects) \ {<<>>}
         /\ <<"register", "launch">> \in Seq(Effects) \ {<<>>}
         /\ <<e>> \in Seq(Effects) \ {<<>>}
         /\ <<e, "launch">> \in Seq(Effects) \ {<<>>}
         /\ <<e, "remove", "launch">> \in Seq(Effects) \ {<<>>}
<1>1. \A x \in Effects, y \in Effects, z \in Effects :
        /\ <<x>> \in Seq(Effects) /\ <<x>> # <<>>
        /\ <<x, y>> \in Seq(Effects) /\ <<x, y>> # <<>>
        /\ <<x, y, z>> \in Seq(Effects) /\ <<x, y, z>> # <<>>
  OBVIOUS
<1>2. /\ "remove" \in Effects /\ "deactivate" \in Effects /\ "launch" \in Effects
      /\ "activate" \in Effects /\ "clean" \in Effects /\ "unregister" \in Effects
      /\ "register" \in Effects /\ e \in Effects
  BY DEF Effects
<1> QED
  BY <1>1, <1>2

(* A route of a product that has a row joins those at work on it; alone it finds the
   row, and a container that agrees if the product is not disturbed. *)
LEMMA BeginDoes ==
  ASSUME SelfServiceAssumption, TypeOK, AgreeWhenQuiet, NEW r \in Requests, NEW p \in Products,
         NEW o \in Ops, NEW effects \in Seq(Effects) \ {<<>>},
         Begin(r, o, p, effects),
         \/ o \in {"stop", "delete"} /\ Head(effects) = "remove"
         \/ o = "start" /\ Head(effects) = "launch"
         \/ o \in {"pause", "resume"} /\ Head(effects) \in {"set_manual", "set_automatic"},
         Planned([op |-> o, prod |-> p, row |-> registry[p], todo |-> effects])
  PROVE  Joins(r, p)
<1> DEFINE g == [op |-> o, prod |-> p, row |-> registry[p], todo |-> effects]
<1>1. /\ request[r] = Idle /\ registry[p] # NoRow /\ request' = [request EXCEPT ![r] = g]
      /\ Enters(r, p) /\ UNCHANGED <<registry, deployed, names, runtime>>
  BY DEF Begin, platform
<1>2. registry[p] \in Rows
  BY <1>1 DEF TypeOK
<1>3. g \in Handlers
  BY <1>2 DEF Handlers
<1>4. g # Idle
  BY <1>3 DEF SelfServiceAssumption
<1>5. g.op = o /\ g.prod = p /\ g.row = registry[p] /\ g.todo = effects /\ Planned(g)
  OBVIOUS
<1>6. request \in [Requests -> Handlers \cup {Idle}]
  BY DEF TypeOK
<1> HIDE DEF g, Handlers
<1>7. /\ request' \in [Requests -> Handlers \cup {Idle}] /\ request'[r] = g
      /\ Others(r)
  BY <1>1, <1>3, <1>6 DEF Others
<1>8. Head(request'[r].todo) = Head(effects) /\ Head(effects) # "register"
  BY <1>5, <1>7
<1>9. Works(r)' /\ ~Works(r)
  BY <1>1, <1>4, <1>7, <1>8 DEF Works, AtEffect
<1>10. Planned(request[r])'
  BY <1>1, <1>5, <1>7 DEF Planned
<1>11. ASSUME Quiet(p) PROVE Solo(r)'
  <2>1. UNCHANGED disturbed /\ (p \notin disturbed => Agree(p))
    BY <1>1, <1>11 DEF Enters, AgreeWhenQuiet
  <2>2. p \notin disturbed' => Agree(p)'
    BY <1>1, <2>1 DEF Agree
  <2> QED
    BY <1>1, <1>4, <1>5, <1>7, <1>8, <2>2 DEF Solo, AtEffect
<1>12. OnlyOf(p) /\ registry' \in [Products -> Rows \cup {NoRow}]
  BY <1>1 DEF OnlyOf, TypeOK
<1> QED
  BY <1>1, <1>4, <1>5, <1>7, <1>9, <1>10, <1>11, <1>12 DEF Joins

(* Stop, Start and Delete. *)
LEMMA PlainRoutesJoin ==
  ASSUME SelfServiceAssumption, TypeOK, AgreeWhenQuiet, NEW r \in Requests, NEW p \in Products,
         StopProduct(r, p) \/ StartProduct(r, p) \/ DeleteProduct(r, p)
  PROVE  Joins(r, p)
<1>1. /\ <<"remove", "deactivate">> \in Seq(Effects) \ {<<>>}
      /\ <<"launch", "activate">> \in Seq(Effects) \ {<<>>}
      /\ <<"remove", "clean", "unregister">> \in Seq(Effects) \ {<<>>}
  BY Beginnings
<1>2. /\ Head(<<"remove", "deactivate">>) = "remove"
      /\ Head(<<"launch", "activate">>) = "launch"
      /\ Head(<<"remove", "clean", "unregister">>) = "remove"
  OBVIOUS
<1>3. "stop" \in Ops /\ "start" \in Ops /\ "delete" \in Ops
  BY DEF Ops
<1>4. CASE StopProduct(r, p)
  <2>1. Planned([op |-> "stop", prod |-> p, row |-> registry[p],
                 todo |-> <<"remove", "deactivate">>])
    BY DEF Planned
  <2> QED
    BY <1>1, <1>2, <1>3, <1>4, <2>1, BeginDoes DEF StopProduct
<1>5. CASE StartProduct(r, p)
  <2>1. Planned([op |-> "start", prod |-> p, row |-> registry[p],
                 todo |-> <<"launch", "activate">>])
    BY DEF Planned
  <2> QED
    BY <1>1, <1>2, <1>3, <1>5, <2>1, BeginDoes DEF StartProduct
<1>6. CASE DeleteProduct(r, p)
  <2>1. Planned([op |-> "delete", prod |-> p, row |-> registry[p],
                 todo |-> <<"remove", "clean", "unregister">>])
    BY DEF Planned
  <2> QED
    BY <1>1, <1>2, <1>3, <1>6, <2>1, BeginDoes DEF DeleteProduct
<1> QED
  BY <1>4, <1>5, <1>6

(* Pause and Resume: with what follows the mode for an active product. *)
LEMMA ModeRouteJoins ==
  ASSUME SelfServiceAssumption, TypeOK, AgreeWhenQuiet, NEW r \in Requests, NEW p \in Products,
         NEW o \in {"pause", "resume"}, NEW e \in {"set_manual", "set_automatic"},
         Begin(r, o, p, <<e>> \o IF registry[p].active THEN Reconfigure ELSE <<>>)
  PROVE  Joins(r, p)
<1>1. e \in Effects /\ "remove" \in Effects /\ "launch" \in Effects /\ o \in Ops
  BY DEF Effects, Ops
<1>2. runtime \in {"podman", "kubernetes"}
  BY DEF TypeOK, Runtimes
<1>3. /\ <<e>> \in Seq(Effects) \ {<<>>}
      /\ <<e, "launch">> \in Seq(Effects) \ {<<>>}
      /\ <<e, "remove", "launch">> \in Seq(Effects) \ {<<>>}
  BY Beginnings
<1>4. Head(<<e>>) = e /\ Head(<<e, "launch">>) = e /\ Head(<<e, "remove", "launch">>) = e
  BY <1>1
<1>5. PICK effects \in {<<e>>, <<e, "launch">>, <<e, "remove", "launch">>} :
        /\ Begin(r, o, p, effects)
        /\ Planned([op |-> o, prod |-> p, row |-> registry[p], todo |-> effects])
  <2>1. CASE ~registry[p].active
    <3>1. Begin(r, o, p, <<e>>)
      BY <1>1, <2>1, NothingAfter
    <3>2. Planned([op |-> o, prod |-> p, row |-> registry[p], todo |-> <<e>>])
      BY <2>1 DEF Planned
    <3> QED
      BY <3>1, <3>2
  <2>2. CASE registry[p].active /\ runtime = "podman"
    <3>1. Begin(r, o, p, <<e, "remove", "launch">>)
      BY <1>1, <2>2, TwoAfter DEF Reconfigure
    <3>2. Planned([op |-> o, prod |-> p, row |-> registry[p],
                   todo |-> <<e, "remove", "launch">>])
      BY <2>2 DEF Planned
    <3> QED
      BY <3>1, <3>2
  <2>3. CASE registry[p].active /\ runtime = "kubernetes"
    <3>1. Begin(r, o, p, <<e, "launch">>)
      <4>1. Reconfigure = <<"launch">>
        BY <2>3 DEF Reconfigure
      <4>2. <<e>> \o <<"launch">> = <<e, "launch">>
        BY <1>1, OneAfter
      <4> QED
        BY <2>3, <4>1, <4>2
    <3>2. Planned([op |-> o, prod |-> p, row |-> registry[p], todo |-> <<e, "launch">>])
      BY <2>3 DEF Planned
    <3> QED
      BY <3>1, <3>2
  <2> QED
    BY <1>2, <2>1, <2>2, <2>3
<1>6. effects \in Seq(Effects) \ {<<>>} /\ Head(effects) = e
  BY <1>3, <1>4, <1>5
<1> QED
  BY <1>1, <1>5, <1>6, BeginDoes

(* A confirmation whose check is made waits for its row. *)
LEMMA ConfirmWaits ==
  ASSUME SelfServiceAssumption, TypeOK, NEW r \in Requests, NEW p \in Products,
         NEW n \in Names, NEW m \in Modes, ConfirmProduct(r, p, n, m)
  PROVE  Waits(r)
<1> DEFINE row == [active |-> TRUE, mode |-> m, name |-> n]
           g == [op |-> "confirm", prod |-> p, todo |-> <<"register", "launch">>, row |-> row]
<1>1. /\ request[r] = Idle /\ request' = [request EXCEPT ![r] = g]
      /\ UNCHANGED <<registry, deployed, names, runtime, overlapped, disturbed>>
  BY DEF ConfirmProduct, platform
<1>2. g \in Handlers
  <2>1. row \in Rows /\ row.active
    BY DEF Rows
  <2>2. "confirm" \in Ops /\ <<"register", "launch">> \in Seq(Effects) \ {<<>>}
    BY Beginnings DEF Ops
  <2> HIDE DEF row
  <2> QED
    BY <2>1, <2>2 DEF Handlers
<1>3. /\ g.op = "confirm" /\ g.prod = p /\ g.todo = <<"register", "launch">>
      /\ g.row.active
  OBVIOUS
<1>4. Head(g.todo) = "register"
  BY <1>3
<1>5. request \in [Requests -> Handlers \cup {Idle}]
  BY DEF TypeOK
<1> HIDE DEF g, Handlers
<1>6. /\ request' \in [Requests -> Handlers \cup {Idle}] /\ request'[r] = g
      /\ Others(r)
  BY <1>1, <1>2, <1>5 DEF Others
<1>7. ~Works(r) /\ ~Works(r)'
  BY <1>1, <1>4, <1>6 DEF Works, AtEffect
<1>8. Planned(request[r])'
  BY <1>3, <1>6 DEF Planned
<1> QED
  BY <1>1, <1>6, <1>7, <1>8 DEF Waits

(* A confirmation begins its work with the row it makes, or finds one and ends. *)
LEMMA RegisterDoes ==
  ASSUME SelfServiceAssumption, TypeOK, PlanOK, AgreeWhenQuiet, NEW r \in Requests,
         NEW p, p = request[r].prod, Register(r)
  PROVE  Joins(r, p) \/ Waits(r)
<1> DEFINE h == request[r]
<1>1. /\ h # Idle /\ Head(h.todo) = "register" /\ AtEffect(r, "register")
      /\ UNCHANGED <<deployed, names, runtime>>
  BY DEF Register, AtEffect, platform
<1>2. /\ h \in Handlers /\ p \in Products /\ h.row \in Rows /\ Planned(h)
      /\ h.todo \in Seq(Effects) /\ Len(h.todo) \in Nat
  BY <1>1, HandlerParts DEF PlanOK
<1>3. /\ h.op = "confirm" /\ h.row.active /\ Len(h.todo) > 1 /\ Tail(h.todo) = <<"launch">>
  BY <1>1, <1>2, PlanTable
<1>4. ~Works(r)
  BY <1>1 DEF Works
<1>5. request \in [Requests -> Handlers \cup {Idle}]
  BY DEF TypeOK
<1>6. CASE registry[p] # NoRow
  <2>1. request' = [request EXCEPT ![r] = Idle] /\ UNCHANGED <<registry, overlapped, disturbed>>
    BY <1>6 DEF Register
  <2> HIDE DEF Handlers, h
  <2>2. /\ request' \in [Requests -> Handlers \cup {Idle}] /\ request'[r] = Idle
        /\ Others(r)
    BY <1>5, <2>1 DEF Others
  <2>3. ~Works(r)'
    BY <2>2 DEF Works
  <2> QED
    BY <1>1, <1>4, <2>1, <2>2, <2>3 DEF Waits
<1>7. CASE registry[p] = NoRow
  <2> DEFINE g == [h EXCEPT !.todo = Tail(h.todo)]
             todos == Seq(Effects) \ {<<>>}
  <2>1. /\ registry' = [registry EXCEPT ![p] = h.row]
        /\ request' = [request EXCEPT ![r].todo = Tail(@)] /\ Enters(r, p)
    BY <1>7 DEF Register
  <2>2. h \in [op : Ops, prod : Products, row : Rows, todo : todos]
    BY <1>2 DEF Handlers
  <2>3. Tail(h.todo) \in todos
    BY <1>2, <1>3, Rest
  <2>4. /\ g \in [op : Ops, prod : Products, row : Rows, todo : todos]
        /\ g.op = h.op /\ g.prod = p /\ g.row = h.row /\ g.todo = Tail(h.todo)
    <3> HIDE DEF todos
    <3> QED
      BY <2>2, <2>3
  <2>5. g \in Handlers
    BY <2>4 DEF Handlers
  <2>6. g # Idle
    BY <2>5 DEF SelfServiceAssumption
  <2>7. request' = [request EXCEPT ![r] = g]
    <3> HIDE DEF Handlers
    <3> QED
      BY <1>2, <1>5, <2>1
  <2> HIDE DEF g, Handlers, todos
  <2>8. /\ request' \in [Requests -> Handlers \cup {Idle}] /\ request'[r] = g
        /\ Others(r)
    BY <1>5, <2>5, <2>7 DEF Others
  <2>9. g.op = "confirm" /\ g.row.active /\ g.todo = <<"launch">> /\ Head(g.todo) = "launch"
    <3>1. Head(<<"launch">>) = "launch"
      OBVIOUS
    <3> QED
      BY <1>3, <2>4, <3>1
  <2>10. Works(r)' /\ Planned(request[r])'
    BY <2>6, <2>8, <2>9 DEF Works, AtEffect, Planned
  <2>11. /\ registry' \in [Products -> Rows \cup {NoRow}] /\ registry'[p] = h.row
         /\ \A q \in Products : q # p => registry'[q] = registry[q]
    <3> HIDE DEF h
    <3> QED
      BY <1>2, <2>1 DEF TypeOK
  <2>12. ASSUME Quiet(p) PROVE Solo(r)'
    <3>1. UNCHANGED disturbed /\ (p \notin disturbed => deployed[p] = Absent)
      BY <1>2, <1>7, <2>1, <2>12 DEF Enters, AgreeWhenQuiet, Agree
    <3>2. h.row # NoRow
      BY <1>2 DEF SelfServiceAssumption
    <3> HIDE DEF h
    <3> QED
      BY <1>1, <2>4, <2>8, <2>9, <2>11, <3>1, <3>2 DEF Solo, AtEffect
  <2>13. OnlyOf(p)
    BY <1>1, <2>11 DEF OnlyOf
  <2> QED
    BY <1>1, <1>4, <2>1, <2>4, <2>6, <2>8, <2>10, <2>11, <2>12, <2>13 DEF Joins
<1> QED
  BY <1>6, <1>7

(* All that a thread does, in these terms. *)
LEMMA ThreadDoes ==
  ASSUME SelfServiceAssumption, TypeOK, PlanOK, SoloOK, AgreeWhenQuiet, NEW r \in Requests,
         Route(r) \/ Effect(r)
  PROVE  Outcome(r) \/ Waits(r) \/ \E p \in Products : Joins(r, p)
<1>1. ASSUME NEW p \in Products,
             \/ StopProduct(r, p) \/ StartProduct(r, p) \/ PauseProduct(r, p)
             \/ ResumeProduct(r, p) \/ DeleteProduct(r, p)
      PROVE  Joins(r, p)
  BY <1>1, PlainRoutesJoin, ModeRouteJoins DEF PauseProduct, ResumeProduct
<1>2. ASSUME NEW p \in Products, NEW n \in Names, NEW m \in Modes,
             ConfirmNew(r, p, n, m) \/ PrecheckFails(r, p, n, m)
      PROVE  Waits(r)
  BY <1>2, ConfirmWaits DEF ConfirmNew, PrecheckFails
<1>3. ASSUME Register(r) PROVE Waits(r) \/ \E p \in Products : Joins(r, p)
  <2>1. request[r] # Idle
    BY <1>3 DEF Register, AtEffect
  <2>2. request[r].prod \in Products
    BY <2>1, HandlerParts
  <2>3. ASSUME NEW p, p = request[r].prod PROVE Joins(r, p) \/ Waits(r)
    BY <1>3, <2>3, RegisterDoes
  <2> QED
    BY <2>2, <2>3
<1>4. ASSUME Effect(r), ~Register(r) PROVE Outcome(r)
  BY <1>4, EffectDoes
<1> QED
  BY <1>1, <1>2, <1>3, <1>4 DEF Route

(* A removal that fails unseen only moves its handler on, marked. *)
Misses(r) ==
  /\ Works(r) /\ Others(r) /\ UNCHANGED <<registry, deployed, platform>>
  /\ request' \in [Requests -> Handlers \cup {Idle}]
  /\ request'[r].prod = request[r].prod
  /\ Planned(request[r])' /\ Works(r)'
  /\ overlapped' = overlapped \cup {r}
  /\ disturbed' = disturbed \cup {request[r].prod}

LEMMA RemoveFailsMisses ==
  ASSUME SelfServiceAssumption, TypeOK, PlanOK, NEW r \in Requests, RemoveFailsUnseen(r)
  PROVE  Misses(r)
<1> DEFINE h == request[r]
           todos == Seq(Effects) \ {<<>>}
           g == [h EXCEPT !.todo = Tail(h.todo)]
<1>1. /\ AtEffect(r, "remove") /\ UNCHANGED <<registry, deployed, platform>>
      /\ request' = [request EXCEPT ![r].todo = Tail(@)]
      /\ overlapped' = overlapped \cup {r} /\ disturbed' = disturbed \cup {h.prod}
  BY DEF RemoveFailsUnseen
<1>2. /\ Works(r) /\ h # Idle /\ Head(h.todo) = "remove" /\ Planned(h) /\ h \in Handlers
      /\ h.todo \in Seq(Effects)
  BY <1>1, AtWork, HandlerParts
<1>3. /\ Len(h.todo) > 1
      /\ \/ h.op = "stop" /\ Tail(h.todo) = <<"deactivate">>
         \/ h.op = "delete" /\ Tail(h.todo) = <<"clean", "unregister">>
         \/ /\ h.op \in {"pause", "resume"} /\ Tail(h.todo) = <<"launch">>
            /\ runtime = "podman"
  BY <1>2, PlanTable
<1>4. h \in [op : Ops, prod : Products, row : Rows, todo : todos]
  BY <1>2 DEF Handlers
<1>5. Tail(h.todo) \in todos
  BY <1>2, <1>3, Rest
<1> HIDE DEF todos
<1>6. /\ g \in [op : Ops, prod : Products, row : Rows, todo : todos]
      /\ g.op = h.op /\ g.prod = h.prod /\ g.row = h.row /\ g.todo = Tail(h.todo)
  BY <1>4, <1>5
<1>7. g \in Handlers /\ g # Idle
  BY <1>6 DEF Handlers, todos, SelfServiceAssumption
<1>8. request \in [Requests -> Handlers \cup {Idle}]
  BY DEF TypeOK
<1>9. request' = [request EXCEPT ![r] = g]
  <2> HIDE DEF Handlers
  <2> QED
    BY <1>1, <1>8
<1> HIDE DEF g
<1>10. /\ request' \in [Requests -> Handlers \cup {Idle}] /\ request'[r] = g /\ Others(r)
  <2> HIDE DEF Handlers
  <2> QED
    BY <1>7, <1>8, <1>9 DEF Others
<1>11. /\ Head(<<"deactivate">>) = "deactivate" /\ Head(<<"launch">>) = "launch"
       /\ Head(<<"clean", "unregister">>) = "clean"
  OBVIOUS
<1>12. Head(g.todo) # "register"
  BY <1>3, <1>6, <1>11
<1>13. Works(r)'
  BY <1>7, <1>10, <1>12 DEF Works, AtEffect
<1>14. Planned(request[r])'
  BY <1>1, <1>3, <1>6, <1>10 DEF Planned, platform
<1> QED
  BY <1>1, <1>2, <1>6, <1>10, <1>13, <1>14 DEF Misses
-----------------------------------------------------------------------------
(* Nobody works on a product that is quiet. *)
LEMMA QuietMeans ==
  ASSUME NEW p
  PROVE  Quiet(p) <=> \A s \in Requests : ~(Works(s) /\ request[s].prod = p)
BY DEF Quiet, Working, Works

(* Likewise after a step. *)
LEMMA QuietMeansNext ==
  ASSUME NEW p
  PROVE  Quiet(p)' <=> \A s \in Requests : ~(Works(s)' /\ request'[s].prod = p)
BY DEF Quiet, Working, Works, AtEffect

(* A thread that is not touched works as before, *)
LEMMA WorksFrame ==
  ASSUME NEW s, request'[s] = request[s]
  PROVE  Works(s)' <=> Works(s)
BY DEF Works, AtEffect

(* has come as far as before if its product is not touched either, *)
LEMMA SoloFrame ==
  ASSUME NEW s, NEW q, q = request[s].prod, request'[s] = request[s], Solo(s),
         registry'[q] = registry[q], deployed'[q] = deployed[q], UNCHANGED runtime,
         q \in disturbed' <=> q \in disturbed
  PROVE  Solo(s)'
BY DEF Solo, Agree, AtEffect, EnvOf

(* and a product not touched agrees as before. *)
LEMMA AgreeFrame ==
  ASSUME NEW q, registry'[q] = registry[q], deployed'[q] = deployed[q]
  PROVE  Agree(q)' <=> Agree(q)
BY DEF Agree, EnvOf

(* Those who enter are told apart from those alone. *)
LEMMA EntersTypes ==
  ASSUME TypeOK, NEW r \in Requests, NEW p \in Products, Enters(r, p)
  PROVE  overlapped' \subseteq Requests /\ disturbed' \subseteq Products
BY DEF Enters, TypeOK, Working

(* Names come from a container and go with a product. *)
LEMMA NamesStep ==
  ASSUME TypeOK, [Next]_vars
  PROVE  names' \subseteq Names /\ runtime' \in Runtimes
<1>0. names \subseteq Names /\ runtime \in Runtimes
  BY DEF TypeOK
<1>1. ASSUME NEW r \in Requests, Route(r) PROVE UNCHANGED platform
  BY <1>1 DEF Route, StopProduct, StartProduct, PauseProduct, ResumeProduct, DeleteProduct,
              Begin, ConfirmNew, PrecheckFails, ConfirmProduct
<1>2. ASSUME NEW r \in Requests, Effect(r)
      PROVE  names' \subseteq names /\ UNCHANGED runtime
  <2>1. CASE Clean(r)
    BY <2>1 DEF Clean
  <2>2. CASE ~Clean(r)
    <3>1. UNCHANGED platform
      BY <1>2, <2>2 DEF Effect, Register, Remove, Launch, SetActive, SetMode, Unregister,
                        RuntimeFails
    <3> QED
      BY <3>1 DEF platform
  <2> QED
    BY <2>1, <2>2
<1>3. ASSUME NEW p \in Products, AdaptorStarts(p)
      PROVE  names' \subseteq Names /\ UNCHANGED runtime
  <2>1. deployed[p] \in Envs
    BY <1>3 DEF AdaptorStarts, TypeOK
  <2>2. deployed[p].name \in Names
    BY <2>1 DEF Envs
  <2> QED
    BY <1>0, <1>3, <2>2 DEF AdaptorStarts
<1>4. ASSUME NEW p \in Products, RemovedOutside(p) PROVE UNCHANGED platform
  BY <1>4 DEF RemovedOutside
<1>5. CASE UNCHANGED vars
  BY <1>0, <1>5 DEF vars, platform
<1>6. ASSUME NEW r \in Requests, RemoveFailsUnseen(r) PROVE UNCHANGED platform
  BY <1>6 DEF RemoveFailsUnseen
<1> QED
  BY <1>0, <1>1, <1>2, <1>3, <1>4, <1>5, <1>6 DEF Next, platform

(* What a step of a thread leaves has the right types. *)
LEMMA ThreadTypes ==
  ASSUME TypeOK, NEW r \in Requests,
         Outcome(r) \/ Waits(r) \/ \E p \in Products : Joins(r, p)
  PROVE  /\ registry' \in [Products -> Rows \cup {NoRow}]
         /\ deployed' \in [Products -> Envs \cup {Absent}]
         /\ request' \in [Requests -> Handlers \cup {Idle}]
         /\ overlapped' \subseteq Requests /\ disturbed' \subseteq Products
<1> HIDE DEF Handlers
<1>1. CASE Outcome(r)
  <2>1. request[r] # Idle
    BY <1>1 DEF Outcome, Works
  <2>2. request[r].prod \in Products
    BY <2>1, HandlerParts
  <2> QED
    BY <1>1, <2>2 DEF Outcome, GoesOn, Ends, Fails, TypeOK
<1>2. CASE Waits(r)
  BY <1>2 DEF Waits, TypeOK
<1>3. ASSUME NEW p \in Products, Joins(r, p)
      PROVE  /\ registry' \in [Products -> Rows \cup {NoRow}]
             /\ deployed' \in [Products -> Envs \cup {Absent}]
             /\ request' \in [Requests -> Handlers \cup {Idle}]
             /\ overlapped' \subseteq Requests /\ disturbed' \subseteq Products
  <2>1. overlapped' \subseteq Requests /\ disturbed' \subseteq Products
    BY <1>3, EntersTypes DEF Joins
  <2> QED
    BY <1>3, <2>1 DEF Joins, TypeOK
<1> QED
  BY <1>1, <1>2, <1>3

(* Every step does. *)
LEMMA TypeStep ==
  ASSUME SelfServiceAssumption, IInv, [Next]_vars PROVE TypeOK'
<1>1. names' \subseteq Names /\ runtime' \in Runtimes
  BY NamesStep DEF IInv
<1>2. ASSUME NEW r \in Requests, Route(r) \/ Effect(r) PROVE TypeOK'
  <2>1. Outcome(r) \/ Waits(r) \/ \E p \in Products : Joins(r, p)
    BY <1>2, ThreadDoes DEF IInv
  <2>2. TypeOK
    BY DEF IInv
  <2> QED
    BY <1>1, <2>1, <2>2, ThreadTypes DEF TypeOK
<1>3. ASSUME NEW p \in Products, AdaptorStarts(p) \/ RemovedOutside(p) PROVE TypeOK'
  <2> HIDE DEF Handlers
  <2> QED
    BY <1>1, <1>3 DEF IInv, TypeOK, AdaptorStarts, RemovedOutside, Working
<1>4. CASE UNCHANGED vars
  BY <1>1, <1>4 DEF IInv, TypeOK, vars
<1>5. ASSUME NEW r \in Requests, RemoveFailsUnseen(r) PROVE TypeOK'
  <2>1. Misses(r) /\ request[r] # Idle
    BY <1>5, RemoveFailsMisses DEF IInv, Misses, Works
  <2>2. request[r].prod \in Products
    BY <2>1, HandlerParts DEF IInv
  <2> HIDE DEF Handlers
  <2> QED
    BY <1>1, <2>1, <2>2 DEF IInv, TypeOK, Misses
<1> QED
  BY <1>2, <1>3, <1>4, <1>5 DEF Next

(* Handlers keep to their plans. *)
LEMMA PlanStep ==
  ASSUME SelfServiceAssumption, IInv, [Next]_vars PROVE PlanOK'
<1>1. ASSUME NEW s \in Requests, request'[s] = request[s], UNCHANGED runtime
      PROVE  request'[s] # Idle => Planned(request[s])'
  BY <1>1 DEF IInv, PlanOK, Planned
<1>2. ASSUME NEW r \in Requests, Route(r) \/ Effect(r) PROVE PlanOK'
  <2>1. Outcome(r) \/ Waits(r) \/ \E p \in Products : Joins(r, p)
    BY <1>2, ThreadDoes DEF IInv
  <2>2. Others(r) /\ UNCHANGED runtime /\ (request'[r] # Idle => Planned(request[r])')
    BY <2>1 DEF Outcome, Waits, Joins, GoesOn, Ends, Fails, OnlyOf
  <2> QED
    BY <1>1, <2>2 DEF Others, PlanOK
<1>3. ASSUME NEW p \in Products, AdaptorStarts(p) \/ RemovedOutside(p) PROVE PlanOK'
  <2>1. UNCHANGED <<request, runtime>>
    BY <1>3 DEF AdaptorStarts, RemovedOutside, platform
  <2> QED
    BY <1>1, <2>1 DEF PlanOK
<1>4. CASE UNCHANGED vars
  BY <1>1, <1>4 DEF PlanOK, vars, platform
<1>5. ASSUME NEW r \in Requests, RemoveFailsUnseen(r) PROVE PlanOK'
  <2>1. Misses(r)
    BY <1>5, RemoveFailsMisses DEF IInv
  <2> QED
    BY <1>1, <2>1 DEF Misses, Others, PlanOK, platform
<1> QED
  BY <1>2, <1>3, <1>4, <1>5 DEF Next

(* What a thread does changes nothing for the others. *)
LEMMA OthersFrame ==
  ASSUME NEW r \in Requests, Others(r)
  PROVE  \A s \in Requests : s # r => request'[s] = request[s] /\ (Works(s)' <=> Works(s))
BY WorksFrame DEF Others

(* Two handlers of one product both know that they met, and only they are marked:
   when a handler goes on, *)
LEMMA OverlapGoesOn ==
  ASSUME TypeOK, OverlapOK, NEW r \in Requests, NEW d, GoesOn(r, d), Works(r), Works(r)'
  PROVE  OverlapOK'
<1>1. \A s \in Requests : /\ Works(s)' <=> Works(s)
                          /\ request'[s].prod = request[s].prod
  BY OthersFrame DEF GoesOn
<1>2. UNCHANGED <<overlapped, disturbed>> /\ overlapped \subseteq Requests
  BY DEF GoesOn, TypeOK
<1> QED
  BY <1>1, <1>2 DEF OverlapOK

(* or ends, *)
LEMMA OverlapEnds ==
  ASSUME TypeOK, OverlapOK, NEW r \in Requests, Ends(r) \/ Fails(r), Works(r)
  PROVE  OverlapOK'
<1>1. /\ request'[r] = Idle /\ ~Works(r)' /\ overlapped' = overlapped \ {r}
      /\ overlapped \subseteq Requests
      /\ \A s \in Requests : s # r => request'[s] = request[s] /\ (Works(s)' <=> Works(s))
  BY OthersFrame DEF Ends, Fails, Works, TypeOK
<1>2. ASSUME NEW s \in overlapped' PROVE Works(s)' /\ request'[s].prod \in disturbed'
  <2>1. s \in Requests /\ s # r /\ Works(s) /\ request[s].prod \in disturbed
    BY <1>1, <1>2 DEF OverlapOK
  <2>2. CASE request[s].prod = request[r].prod
    <3>1. r \in overlapped
      BY <2>1, <2>2 DEF OverlapOK
    <3>2. disturbed \subseteq disturbed'
      BY <3>1 DEF Ends, Fails
    <3> QED
      BY <1>1, <2>1, <3>2
  <2>3. CASE request[s].prod # request[r].prod
    <3>1. request[s].prod \in disturbed'
      BY <2>1, <2>3 DEF Ends, Fails
    <3> QED
      BY <1>1, <2>1, <3>1
  <2> QED
    BY <2>2, <2>3
<1>3. ASSUME NEW a \in Requests, NEW b \in Requests, Works(a)', Works(b)', a # b,
             request'[a].prod = request'[b].prod
      PROVE  a \in overlapped'
  BY <1>1, <1>3 DEF OverlapOK
<1> QED
  BY <1>2, <1>3 DEF OverlapOK

(* or begins. *)
LEMMA OverlapJoins ==
  ASSUME TypeOK, OverlapOK, NEW r \in Requests, NEW p \in Products, Joins(r, p)
  PROVE  OverlapOK'
<1>1. /\ request'[r].prod = p /\ ~Works(r) /\ Works(r)' /\ overlapped \subseteq Requests
      /\ \A s \in Requests : s # r => request'[s] = request[s] /\ (Works(s)' <=> Works(s))
  BY OthersFrame DEF Joins, TypeOK
<1>2. CASE Quiet(p)
  <2>1. UNCHANGED <<overlapped, disturbed>>
    BY <1>2 DEF Joins, Enters
  <2>2. \A s \in Requests : ~(Works(s) /\ request[s].prod = p)
    BY <1>2, QuietMeans
  <2>3. r \notin overlapped
    BY <1>1 DEF OverlapOK
  <2> QED
    BY <1>1, <2>1, <2>2, <2>3 DEF OverlapOK
<1>3. CASE ~Quiet(p)
  <2>1. overlapped' = overlapped \cup {r} \cup Working(p) /\ disturbed' = disturbed \cup {p}
    BY <1>3 DEF Joins, Enters
  <2>2. \A s \in Requests : s \in Working(p) <=> Works(s) /\ request[s].prod = p
    BY DEF Working, Works
  <2>3. Working(p) \subseteq Requests
    BY DEF Working
  <2>4. \A s \in overlapped' : Works(s)' /\ request'[s].prod \in disturbed'
    BY <1>1, <2>1, <2>2, <2>3 DEF OverlapOK
  <2>5. ASSUME NEW a \in Requests, NEW b \in Requests, Works(a)', Works(b)', a # b,
               request'[a].prod = request'[b].prod
        PROVE  a \in overlapped'
    <3>1. CASE request'[a].prod = p
      BY <1>1, <2>1, <2>2, <2>5, <3>1
    <3>2. CASE request'[a].prod # p
      BY <1>1, <2>1, <2>5, <3>2 DEF OverlapOK
    <3> QED
      BY <3>1, <3>2
  <2> QED
    BY <2>4, <2>5 DEF OverlapOK
<1> QED
  BY <1>2, <1>3

(* When someone removes a container, all at work on its product are marked. *)
LEMMA OverlapRemoved ==
  ASSUME TypeOK, OverlapOK, NEW p \in Products, RemovedOutside(p)
  PROVE  OverlapOK'
<1>1. /\ \A s \in Requests : request'[s] = request[s] /\ (Works(s)' <=> Works(s))
      /\ overlapped' = overlapped \cup Working(p) /\ disturbed' = disturbed \cup {p}
      /\ overlapped \subseteq Requests
  BY WorksFrame DEF RemovedOutside, TypeOK
<1>2. \A s \in Working(p) : s \in Requests /\ Works(s) /\ request[s].prod = p
  BY DEF Working, Works
<1> QED
  BY <1>1, <1>2 DEF OverlapOK

(* A handler whose removal failed unseen is marked. *)
LEMMA OverlapMisses ==
  ASSUME TypeOK, OverlapOK, NEW r \in Requests, Misses(r)
  PROVE  OverlapOK'
<1>1. /\ \A s \in Requests : /\ Works(s)' <=> Works(s)
                             /\ request'[s].prod = request[s].prod
      /\ overlapped' = overlapped \cup {r} /\ disturbed' = disturbed \cup {request[r].prod}
      /\ overlapped \subseteq Requests /\ Works(r)
  BY OthersFrame DEF Misses, TypeOK
<1> QED
  BY <1>1 DEF OverlapOK

(* Every step keeps the marks. *)
LEMMA OverlapStep ==
  ASSUME SelfServiceAssumption, IInv, [Next]_vars PROVE OverlapOK'
<1>0. TypeOK /\ OverlapOK /\ overlapped \subseteq Requests
  BY DEF IInv, TypeOK
<1>1. ASSUME \A s \in Requests : /\ Works(s)' <=> Works(s)
                                 /\ Works(s) => request'[s] = request[s],
             UNCHANGED <<overlapped, disturbed>>
      PROVE  OverlapOK'
  BY <1>0, <1>1 DEF OverlapOK
<1>2. ASSUME NEW r \in Requests, Route(r) \/ Effect(r) PROVE OverlapOK'
  <2>1. Outcome(r) \/ Waits(r) \/ \E p \in Products : Joins(r, p)
    BY <1>2, ThreadDoes DEF IInv
  <2>2. CASE Waits(r)
    BY <1>1, <2>2, OthersFrame DEF Waits
  <2>3. ASSUME NEW p \in Products, Joins(r, p) PROVE OverlapOK'
    BY <1>0, <2>3, OverlapJoins
  <2>4. CASE Outcome(r)
    BY <1>0, <2>4, OverlapGoesOn, OverlapEnds DEF Outcome
  <2> QED
    BY <2>1, <2>2, <2>3, <2>4
<1>3. ASSUME NEW p \in Products, AdaptorStarts(p) PROVE OverlapOK'
  BY <1>1, <1>3, WorksFrame DEF AdaptorStarts
<1>4. ASSUME NEW p \in Products, RemovedOutside(p) PROVE OverlapOK'
  BY <1>0, <1>4, OverlapRemoved
<1>5. CASE UNCHANGED vars
  BY <1>1, <1>5, WorksFrame DEF vars
<1>6. ASSUME NEW r \in Requests, RemoveFailsUnseen(r) PROVE OverlapOK'
  BY <1>0, <1>6, RemoveFailsMisses, OverlapMisses DEF IInv
<1> QED
  BY <1>2, <1>3, <1>4, <1>5, <1>6 DEF Next

(* A handler that met nobody is not disturbed by what others do, *)
LEMMA SoloOthers ==
  ASSUME TypeOK, OverlapOK, SoloOK, NEW r \in Requests, NEW s \in Requests, s # r,
         Outcome(r) \/ Waits(r) \/ (\E p \in Products : Joins(r, p)),
         Works(s)', s \notin overlapped'
  PROVE  Solo(s)'
<1>1. Others(r)
  BY DEF Outcome, GoesOn, Ends, Fails, Waits, Joins
<1>2. request'[s] = request[s] /\ Works(s)
  BY <1>1, OthersFrame
<1>3. request[s].prod \in Products
  BY <1>2, HandlerParts DEF Works
<1>4. CASE Waits(r)
  BY <1>2, <1>4, SoloFrame DEF Waits, SoloOK
<1>5. CASE Outcome(r)
  <2>1. Works(r) /\ OnlyOf(request[r].prod)
    BY <1>5 DEF Outcome
  <2>2. s \notin overlapped /\ (s # r /\ request[s].prod # request[r].prod)
    <3>1. s \notin overlapped
      BY <1>5 DEF Outcome, GoesOn, Ends, Fails
    <3> QED
      BY <1>2, <2>1, <3>1 DEF OverlapOK
  <2>3. request[s].prod \in disturbed' <=> request[s].prod \in disturbed
    BY <1>5, <2>2 DEF Outcome, GoesOn, Ends, Fails
  <2>4. Solo(s)
    BY <1>2, <2>2 DEF SoloOK
  <2> QED
    BY <1>2, <1>3, <2>1, <2>2, <2>3, <2>4, SoloFrame DEF OnlyOf
<1>6. ASSUME NEW p \in Products, Joins(r, p) PROVE Solo(s)'
  <2>1. OnlyOf(p) /\ Enters(r, p)
    BY <1>6 DEF Joins
  <2>2. s \notin overlapped /\ request[s].prod # p
    <3>1. CASE Quiet(p)
      BY <1>2, <2>1, <3>1, QuietMeans DEF Enters
    <3>2. CASE ~Quiet(p)
      BY <1>2, <2>1, <3>2 DEF Enters, Working, Works
    <3> QED
      BY <3>1, <3>2
  <2>3. request[s].prod \in disturbed' <=> request[s].prod \in disturbed
    BY <2>1, <2>2 DEF Enters
  <2>4. Solo(s)
    BY <1>2, <2>2 DEF SoloOK
  <2> QED
    BY <1>2, <1>3, <2>1, <2>2, <2>3, <2>4, SoloFrame DEF OnlyOf
<1> QED
  BY <1>4, <1>5, <1>6

(* and knows how far it has come. *)
LEMMA SoloStep ==
  ASSUME SelfServiceAssumption, IInv, [Next]_vars PROVE SoloOK'
<1>0. TypeOK /\ OverlapOK /\ SoloOK
  BY DEF IInv
<1>1. ASSUME NEW r \in Requests, Route(r) \/ Effect(r) PROVE SoloOK'
  <2>1. Outcome(r) \/ Waits(r) \/ \E p \in Products : Joins(r, p)
    BY <1>1, ThreadDoes DEF IInv
  <2>2. ASSUME NEW s \in Requests, s # r, Works(s)', s \notin overlapped' PROVE Solo(s)'
    BY <1>0, <2>1, <2>2, SoloOthers
  <2>3. ASSUME Works(r)', r \notin overlapped' PROVE Solo(r)'
    <3>1. CASE Outcome(r)
      <4>1. ~Ends(r) /\ ~Fails(r)
        BY <2>3 DEF Ends, Fails, Works
      <4>2. /\ \E d \in Rows : GoesOn(r, d)
            /\ r \notin overlapped => Solo(r)'
        BY <3>1, <4>1 DEF Outcome
      <4> QED
        BY <2>3, <4>2 DEF GoesOn
    <3>2. CASE Waits(r)
      BY <2>3, <3>2 DEF Waits
    <3>3. ASSUME NEW p \in Products, Joins(r, p) PROVE Solo(r)'
      BY <2>3, <3>3 DEF Joins, Enters
    <3> QED
      BY <2>1, <3>1, <3>2, <3>3
  <2> QED
    BY <2>2, <2>3 DEF SoloOK
<1>2. ASSUME NEW p \in Products, AdaptorStarts(p) \/ RemovedOutside(p),
             NEW s \in Requests, Works(s)', s \notin overlapped'
      PROVE  Solo(s)'
  <2>1. request'[s] = request[s] /\ UNCHANGED <<registry, runtime>>
    BY <1>2 DEF AdaptorStarts, RemovedOutside, platform
  <2>2. Works(s)
    BY <1>2, <2>1, WorksFrame
  <2>3. request[s].prod \in Products
    BY <1>0, <2>2, HandlerParts DEF Works
  <2>4. CASE AdaptorStarts(p)
    BY <1>0, <1>2, <2>1, <2>2, <2>4, SoloFrame DEF AdaptorStarts, SoloOK
  <2>5. CASE RemovedOutside(p)
    <3>1. s \notin overlapped /\ request[s].prod # p
      BY <1>2, <2>2, <2>5 DEF RemovedOutside, Working, Works
    <3>2. deployed'[request[s].prod] = deployed[request[s].prod]
      BY <1>0, <2>3, <2>5, <3>1 DEF RemovedOutside, TypeOK
    <3>3. request[s].prod \in disturbed' <=> request[s].prod \in disturbed
      BY <2>5, <3>1 DEF RemovedOutside
    <3> QED
      BY <1>0, <2>1, <2>2, <3>1, <3>2, <3>3, SoloFrame DEF SoloOK
  <2> QED
    BY <1>2, <2>4, <2>5
<1>3. ASSUME UNCHANGED vars, NEW s \in Requests, Works(s)', s \notin overlapped' PROVE Solo(s)'
  BY <1>0, <1>3, WorksFrame, SoloFrame DEF vars, platform, SoloOK
<1>4. ASSUME NEW r \in Requests, RemoveFailsUnseen(r),
             NEW s \in Requests, Works(s)', s \notin overlapped'
      PROVE  Solo(s)'
  <2>1. Misses(r)
    BY <1>4, RemoveFailsMisses DEF IInv
  <2>2. s # r /\ s \notin overlapped
    BY <1>4, <2>1 DEF Misses
  <2>3. request'[s] = request[s] /\ Works(s)
    BY <1>4, <2>1, <2>2, OthersFrame DEF Misses
  <2>4. request[s].prod # request[r].prod
    BY <1>0, <2>1, <2>2, <2>3 DEF Misses, OverlapOK
  <2>5. request[s].prod \in disturbed' <=> request[s].prod \in disturbed
    BY <2>1, <2>4 DEF Misses
  <2> QED
    BY <1>0, <2>1, <2>2, <2>3, <2>5, SoloFrame DEF Misses, platform, SoloOK
<1> QED
  BY <1>1, <1>2, <1>3, <1>4 DEF Next, SoloOK

(* A product nobody works on is one nobody worked on, or the last handler has just
   ended in agreement. *)
LEMMA QuietStep ==
  ASSUME SelfServiceAssumption, IInv, [Next]_vars PROVE AgreeWhenQuiet'
<1>0. TypeOK /\ OverlapOK /\ AgreeWhenQuiet
  BY DEF IInv
<1>1. ASSUME NEW p \in Products, Quiet(p), p \notin disturbed, registry'[p] = registry[p],
             deployed'[p] = deployed[p]
      PROVE  Agree(p)'
  BY <1>0, <1>1, AgreeFrame DEF AgreeWhenQuiet
<1>2. ASSUME NEW r \in Requests, Route(r) \/ Effect(r),
             NEW p \in Products, Quiet(p)', p \notin disturbed'
      PROVE  Agree(p)'
  <2>1. Outcome(r) \/ Waits(r) \/ \E q \in Products : Joins(r, q)
    BY <1>2, ThreadDoes DEF IInv
  <2>2. \A s \in Requests : ~(Works(s)' /\ request'[s].prod = p)
    BY <1>2, QuietMeansNext
  <2>3. Others(r)
    BY <2>1 DEF Outcome, GoesOn, Ends, Fails, Waits, Joins
  <2>4. ASSUME ~Works(r) \/ request[r].prod # p PROVE Quiet(p)
    BY <2>2, <2>3, <2>4, OthersFrame, QuietMeans
  <2>5. CASE Waits(r)
    BY <1>1, <1>2, <2>4, <2>5 DEF Waits
  <2>6. ASSUME NEW q \in Products, Joins(r, q) PROVE Agree(p)'
    <3>1. p # q /\ Quiet(p)
      BY <2>2, <2>4, <2>6 DEF Joins
    <3>2. p \notin disturbed /\ registry'[p] = registry[p] /\ deployed'[p] = deployed[p]
      BY <1>2, <2>6, <3>1 DEF Joins, Enters, OnlyOf
    <3> QED
      BY <1>1, <3>1, <3>2
  <2>7. CASE Outcome(r) /\ request[r].prod # p
    <3>1. Quiet(p)
      BY <2>4, <2>7
    <3>2. p \notin disturbed /\ registry'[p] = registry[p] /\ deployed'[p] = deployed[p]
      BY <1>2, <2>7 DEF Outcome, OnlyOf, GoesOn, Ends, Fails
    <3> QED
      BY <1>1, <3>1, <3>2
  <2>8. CASE Outcome(r) /\ request[r].prod = p
    <3>1. Works(r) /\ ~Fails(r)
      BY <1>2, <2>8 DEF Outcome, Fails
    <3>2. ~\E d \in Rows : GoesOn(r, d) /\ Works(r)'
      BY <2>2, <2>8 DEF GoesOn
    <3>3. /\ Ends(r)
          /\ r \notin overlapped /\ (Repairs(request[r]) \/ p \notin disturbed) => Agree(p)'
      BY <2>8, <3>1, <3>2 DEF Outcome
    <3>4. r \notin overlapped
      BY <1>0, <1>2, <2>8, <3>3 DEF Ends, OverlapOK
    <3>5. Repairs(request[r]) \/ p \notin disturbed
      BY <1>2, <2>8, <3>3, <3>4 DEF Ends
    <3> QED
      BY <3>3, <3>4, <3>5
  <2> QED
    BY <2>1, <2>5, <2>6, <2>7, <2>8
<1>3. ASSUME NEW q \in Products, AdaptorStarts(q) \/ RemovedOutside(q),
             NEW p \in Products, Quiet(p)', p \notin disturbed'
      PROVE  Agree(p)'
  <2>1. Quiet(p) /\ p \notin disturbed /\ registry'[p] = registry[p]
    BY <1>3, QuietMeans, QuietMeansNext, WorksFrame DEF AdaptorStarts, RemovedOutside
  <2>2. deployed'[p] = deployed[p]
    BY <1>0, <1>3 DEF AdaptorStarts, RemovedOutside, TypeOK
  <2> QED
    BY <1>1, <2>1, <2>2
<1>4. ASSUME UNCHANGED vars, NEW p \in Products, Quiet(p)', p \notin disturbed' PROVE Agree(p)'
  <2>1. Quiet(p)
    BY <1>4, QuietMeans, QuietMeansNext, WorksFrame DEF vars
  <2> QED
    BY <1>1, <1>4, <2>1 DEF vars
<1>5. ASSUME NEW r \in Requests, RemoveFailsUnseen(r),
             NEW p \in Products, Quiet(p)', p \notin disturbed'
      PROVE  Agree(p)'
  <2>1. Misses(r)
    BY <1>5, RemoveFailsMisses DEF IInv
  <2>2. p \notin disturbed /\ p # request[r].prod
    BY <1>5, <2>1 DEF Misses
  <2>3. Quiet(p)
    <3> SUFFICES ASSUME NEW s \in Requests, Works(s), request[s].prod = p PROVE FALSE
      BY QuietMeans
    <3>1. s # r
      BY <2>2
    <3>2. Works(s)' /\ request'[s].prod = p
      BY <2>1, <3>1, OthersFrame DEF Misses
    <3> QED
      BY <1>5, <3>2, QuietMeansNext
  <2> QED
    BY <1>1, <2>1, <2>2, <2>3 DEF Misses
<1> QED
  BY <1>2, <1>3, <1>4, <1>5 DEF Next, AgreeWhenQuiet

(* At first there is nothing. *)
LEMMA InitInv == ASSUME SelfServiceAssumption, Init PROVE IInv
<1>1. TypeOK
  <2> HIDE DEF Handlers
  <2> QED
    BY DEF Init, TypeOK
<1>2. \A r \in Requests : ~Works(r) /\ request[r] = Idle
  BY DEF Init, Works
<1>3. PlanOK /\ OverlapOK /\ SoloOK
  BY <1>2 DEF Init, PlanOK, OverlapOK, SoloOK
<1>4. AgreeWhenQuiet
  BY DEF Init, AgreeWhenQuiet, Agree
<1> QED
  BY <1>1, <1>3, <1>4 DEF IInv

(* The parts together are inductive. *)
THEOREM Invariance == Spec => []IInv
<1>1. Init => IInv
  BY InitInv, SelfServiceAssumption
<1>2. IInv /\ [Next]_vars => IInv'
  <2> SUFFICES ASSUME IInv, [Next]_vars PROVE IInv'
    OBVIOUS
  <2> QED
    BY SelfServiceAssumption, TypeStep, PlanStep, OverlapStep, SoloStep, QuietStep DEF IInv
<1> QED
  BY <1>1, <1>2, PTL DEF Spec

(* Rows, environments, handlers and the two histories keep their types. *)
THEOREM TypeCorrect == Spec => []TypeOK
<1>1. IInv => TypeOK
  BY DEF IInv
<1> QED
  BY <1>1, Invariance, PTL

(* A product nobody works on has the container its row says, or none if the row is
   inactive or gone, unless two handlers met on it, one failed, a removal failed
   unseen, or the container was removed outside; a repairing handler that ran alone
   and removed what there was sets it right. *)
THEOREM RowAndContainerAgree == Spec => []AgreeWhenQuiet
<1>1. IInv => AgreeWhenQuiet
  BY DEF IInv
<1> QED
  BY <1>1, Invariance, PTL
-----------------------------------------------------------------------------
(* What a step may do to a row: remove it, make it by a confirmation that found none,
   or change one field of it. *)
RowChange(p) ==
  \/ registry'[p] = NoRow
  \/ registry[p] = NoRow /\ \E r \in Requests :
       AtEffect(r, "register") /\ request[r].prod = p
  \/ registry[p] # NoRow /\ \/ registry'[p] = [registry[p] EXCEPT !.active = ~@]
                            \/ registry'[p] = [registry[p] EXCEPT !.mode = registry'[p].mode]

(* Setting a field to what it was changes nothing, to another value flips it. *)
LEMMA SetField ==
  ASSUME NEW row \in Rows, NEW b \in BOOLEAN, NEW m \in Modes
  PROVE  /\ [row EXCEPT !.active = b] \in {row, [row EXCEPT !.active = ~@]}
         /\ [row EXCEPT !.mode = m] = [row EXCEPT !.mode = [row EXCEPT !.mode = m].mode]
<1>1. row \in [active : BOOLEAN, mode : Modes, name : Names]
  BY DEF Rows
<1> HIDE DEF Modes
<1>2. [row EXCEPT !.mode = m].mode = m
  BY <1>1
<1>3. CASE b = row.active
  <2>1. [row EXCEPT !.active = b] = row
    BY <1>1, <1>3
  <2> QED
    BY <1>2, <2>1
<1>4. CASE b # row.active
  <2>1. b = ~row.active
    BY <1>1, <1>4
  <2> QED
    BY <1>2, <2>1
<1> QED
  BY <1>3, <1>4

(* Every step does one of these to a row that it changes. *)
LEMMA RowChangeStep ==
  ASSUME SelfServiceAssumption, TypeOK, [Next]_vars, NEW p \in Products,
         registry'[p] # registry[p]
  PROVE  RowChange(p)
<1>0. registry \in [Products -> Rows \cup {NoRow}]
  BY DEF TypeOK
<1>1. PICK r \in Requests : Register(r) \/ SetActive(r) \/ SetMode(r) \/ Unregister(r)
  BY DEF Next, Route, Effect, StopProduct, StartProduct, PauseProduct, ResumeProduct,
         DeleteProduct, Begin, ConfirmNew, PrecheckFails, ConfirmProduct, Remove, Launch, Clean,
         RuntimeFails, RemoveFailsUnseen, AdaptorStarts, RemovedOutside, vars
<1> DEFINE h == request[r]
<1>2. h # Idle
  BY <1>1 DEF Register, SetActive, SetMode, Unregister, AtEffect
<1>3. h.prod \in Products
  BY <1>2, HandlerParts
<1> HIDE DEF h
<1>4. CASE Register(r)
  <2>1. /\ registry[h.prod] = NoRow /\ registry' = [registry EXCEPT ![h.prod] = h.row]
        /\ AtEffect(r, "register")
    BY <1>4 DEF Register, h
  <2>2. h.prod = p
    BY <1>0, <2>1
  <2> QED
    BY <2>1, <2>2 DEF RowChange, h
<1>5. CASE SetActive(r)
  <2> DEFINE b == AtEffect(r, "activate")
  <2>1. /\ registry[h.prod] # NoRow
        /\ registry' = [registry EXCEPT ![h.prod] = [registry[h.prod] EXCEPT !.active = b]]
    BY <1>5 DEF SetActive, NotFound, RowReadAgain, h
  <2>2. h.prod = p
    BY <1>0, <2>1
  <2>3. b \in BOOLEAN /\ registry[p] \in Rows
    BY <1>0, <2>1, <2>2 DEF AtEffect
  <2> HIDE DEF b
  <2>4. registry'[p] = [registry[p] EXCEPT !.active = b]
    BY <1>0, <2>1, <2>2
  <2>5. registry'[p] = [registry[p] EXCEPT !.active = ~@]
    BY <2>3, <2>4, SetField DEF Modes
  <2> QED
    BY <2>1, <2>2, <2>5 DEF RowChange
<1>6. CASE SetMode(r)
  <2> DEFINE m == IF AtEffect(r, "set_manual") THEN "manual" ELSE "automatic"
  <2>1. /\ registry[h.prod] # NoRow
        /\ registry' = [registry EXCEPT ![h.prod] = [registry[h.prod] EXCEPT !.mode = m]]
    BY <1>6 DEF SetMode, NotFound, RowReadAgain, h
  <2>2. h.prod = p
    BY <1>0, <2>1
  <2>3. m \in Modes /\ registry[p] \in Rows
    BY <1>0, <2>1, <2>2 DEF Modes
  <2> HIDE DEF m
  <2>4. registry'[p] = [registry[p] EXCEPT !.mode = m]
    BY <1>0, <2>1, <2>2
  <2>5. registry'[p] = [registry[p] EXCEPT !.mode = registry'[p].mode]
    BY <2>3, <2>4, SetField
  <2> QED
    BY <2>1, <2>2, <2>5 DEF RowChange
<1>7. CASE Unregister(r)
  <2>1. registry' = [registry EXCEPT ![h.prod] = NoRow]
    BY <1>7 DEF Unregister, NotFound, h
  <2> QED
    BY <1>0, <1>3, <2>1 DEF RowChange
<1> QED
  BY <1>1, <1>4, <1>5, <1>6, <1>7

(* No handler writes back the row it read at its beginning. *)
THEOREM NoUpdateLost == Spec => NoLostUpdate
<1>1. TypeOK /\ [Next]_vars => [\A p \in Products : registry'[p] # registry[p] => RowChange(p)]_registry
  BY SelfServiceAssumption, RowChangeStep
<1> QED
  BY <1>1, TypeCorrect, PTL DEF Spec, NoLostUpdate, RowChange

=============================================================================
