------------------------ MODULE DeleteStream_proofs ------------------------
(***************************************************************************)
(* Proofs about DeleteStream, for any number of calls, connections,        *)
(* streams, dependents and pages.                                          *)
(***************************************************************************)
EXTENDS DeleteStream, TLAPS

USE ConnsAssumption, SomeAssumption, WorldsAssumption, PagesAssumption, EditsAssumption

-----------------------------------------------------------------------------
(* Types of the definitions the actions are made of. *)

LEMMA NoRequestType == NoRequest \in Request
  BY DEF NoRequest, Request

LEMMA NothingReadType == NothingRead \in Cascade
  BY DEF NothingRead, Cascade

LEMMA NoDependentType == NoDependent \in Dependents
  BY DEF NoDependent, Dependents

LEMMA DependentsType ==
  ASSUME NEW w \in World, NEW s \in Streams
  PROVE  DependentsOf(w, s) \in Dependents
<1>1. Listed(w) \subseteq EventDefs
  BY DEF World, Listed
<1> QED
  BY <1>1 DEF World, DependentsOf, Dependents

LEMMA WithPageType ==
  ASSUME TypeOK, NEW c \in Calls
  PROVE  WithPage(c) \in Cascade /\ TokenNow(c) \in Token
<1>1. seen[c] \in Cascade /\ req[c] \in Request
  BY DEF TypeOK
<1>2. WithPage(c) \in Cascade
  <2> DEFINE f == [e \in EventDefs |->
                    IF e \in OnPage(Server(c), page[c]) /\ req[c].stream \in Server(c).linked[e]
                    THEN seen[c].events[e] + 1 ELSE seen[c].events[e]]
  <2>1. seen[c].events \in [EventDefs -> Nat]
    BY <1>1 DEF Cascade
  <2>2. f \in [EventDefs -> Nat]
    BY <2>1
  <2>3. WithPage(c) = [seen[c] EXCEPT !.events = f]
    BY DEF WithPage
  <2> HIDE DEF f
  <2> QED
    BY <1>1, <2>2, <2>3 DEF Cascade
<1> QED
  BY <1>1, <1>2 DEF TokenNow, Token, Request

LEMMA FinishType ==
  ASSUME TypeOK, NEW c \in Calls, NEW how \in Ended, Finish(c, how)
  PROVE  /\ pc' \in [Calls -> {"idle", "get_stream", "delete"} \union Reading \union Ended]
         /\ req' \in [Calls -> Request]
         /\ phase' \in [Calls -> {"build", "apply"}]
         /\ seen' \in [Calls -> Cascade]
         /\ page' \in [Calls -> Nat \ {0}]
         /\ token' \in [Calls -> SUBSET Token]
         /\ stable' \in [Calls -> Dependents]
         /\ edits' \in 0..MaxEdits
<1> USE DEF TypeOK, Finish
<1>1. /\ pc' \in [Calls -> {"idle", "get_stream", "delete"} \union Reading \union Ended]
      /\ req' \in [Calls -> Request]
      /\ phase' \in [Calls -> {"build", "apply"}]
      /\ page' \in [Calls -> Nat \ {0}]
      /\ token' \in [Calls -> SUBSET Token]
      /\ edits' \in 0..MaxEdits
  OBVIOUS
<1>2. seen' \in [Calls -> Cascade]
  BY NothingReadType
<1>3. stable' \in [Calls -> Dependents]
  BY NoDependentType
<1> QED
  BY <1>1, <1>2, <1>3

LEMMA EditType ==
  ASSUME TypeOK, NEW k \in Conns, NEW w \in World, NEW movedUp \in BOOLEAN, Edit(k, w, movedUp)
  PROVE  TypeOK'
<1>1. world' \in [Conns -> World] /\ edits' \in 0..MaxEdits
  BY DEF TypeOK, Edit
<1>2. stable' \in [Calls -> Dependents]
  <2>1. \A c \in Calls : stable[c] \in Dependents /\ req[c].stream \in Streams
    BY DEF TypeOK, Request
  <2>2. \A c \in Calls : DependentsOf(w, req[c].stream) \in Dependents
    BY <2>1, DependentsType
  <2> QED
    BY <2>1, <2>2 DEF Edit, Dependents
<1> QED
  BY <1>1, <1>2 DEF TypeOK, Edit, calls

-----------------------------------------------------------------------------
LEMMA TypeInit == Init => TypeOK
<1> SUFFICES ASSUME Init PROVE TypeOK
  OBVIOUS
<1>1. world \in [Conns -> World]
  BY DEF Init
<1>2. req \in [Calls -> Request] /\ seen \in [Calls -> Cascade] /\ stable \in [Calls -> Dependents]
  BY NoRequestType, NothingReadType, NoDependentType DEF Init
<1> QED
  BY <1>1, <1>2 DEF Init, TypeOK

LEMMA CascadeParts ==
  ASSUME NEW k \in Cascade
  PROVE  /\ \A r \in SUBSET Rules : [k EXCEPT !.rules = r] \in Cascade
         /\ \A p \in SUBSET Pipelines : [k EXCEPT !.pipes = p] \in Cascade
BY DEF Cascade

LEMMA TypeStep ==
  ASSUME TypeOK, NEW c \in Calls, Step(c)
  PROVE  TypeOK'
<1>1. CASE RequestFails(c)
  <2>1. CASE pc[c] = "get_stream" /\ Finish(c, "graylog_error")
    BY <1>1, <2>1, FinishType DEF RequestFails, Ended, Refused, TypeOK
  <2>2. CASE pc[c] \in Reading /\ Finish(c, "cascade_preflight_failed")
    BY <1>1, <2>2, FinishType DEF RequestFails, Ended, Refused, TypeOK
  <2> QED
    BY <1>1, <2>1, <2>2 DEF RequestFails
<1>2. CASE GetStream(c)
  <2>1. CASE Finish(c, "stream_immutable")
    BY <1>2, <2>1, FinishType DEF GetStream, Ended, Refused, TypeOK
  <2>2. CASE ~Finish(c, "stream_immutable")
    BY <1>2, <2>2 DEF GetStream, Reading, TypeOK
  <2> QED
    BY <2>1, <2>2
<1>3. CASE GetRules(c)
  <2>1. Server(c).rules[req[c].stream] \in SUBSET Rules
    BY DEF TypeOK, World, Request, Server
  <2>2. seen' \in [Calls -> Cascade]
    <3>0. seen[c] \in Cascade
      BY DEF TypeOK
    <3>1. [seen[c] EXCEPT !.rules = Server(c).rules[req[c].stream]] \in Cascade
      BY <2>1, <3>0, CascadeParts
    <3> QED
      BY <1>3, <3>1 DEF GetRules, TypeOK
  <2> QED
    BY <1>3, <2>2 DEF GetRules, TypeOK, Reading
<1>4. CASE GetPipelines(c)
  <2>1. Server(c).pipes[req[c].stream] \in SUBSET Pipelines
    BY DEF TypeOK, World, Request, Server
  <2>2. seen' \in [Calls -> Cascade]
    <3>0. seen[c] \in Cascade
      BY DEF TypeOK
    <3>1. [seen[c] EXCEPT !.pipes = Server(c).pipes[req[c].stream]] \in Cascade
      BY <2>1, <3>0, CascadeParts
    <3> QED
      BY <1>4, <3>1 DEF GetPipelines, TypeOK
  <2> QED
    BY <1>4, <2>2 DEF GetPipelines, TypeOK, Reading
<1>5. CASE GetPage(c)
  BY <1>5, WithPageType DEF GetPage, TypeOK
<1>6. CASE Preview(c)
  BY <1>6, WithPageType, FinishType DEF Preview, Ended, TypeOK
<1>7. CASE ConfirmGate(c)
  <2>1. CASE req[c].confirm = {TokenNow(c)}
    <3>1. DependentsOf(Server(c), req[c].stream) \in Dependents
      BY DependentsType DEF TypeOK, Server, Request
    <3>2. /\ phase' = [phase EXCEPT ![c] = "apply"]
          /\ token' = [token EXCEPT ![c] = {TokenNow(c)}]
          /\ seen' = [seen EXCEPT ![c] = NothingRead]
          /\ page' = [page EXCEPT ![c] = 1]
          /\ pc' = [pc EXCEPT ![c] = "rules"]
          /\ stable' = [stable EXCEPT ![c] = DependentsOf(Server(c), req[c].stream)]
          /\ UNCHANGED <<world, shown, req, edits>>
      BY <1>7, <2>1 DEF ConfirmGate
    <3>3. stable' \in [Calls -> Dependents]
      BY <3>1, <3>2 DEF TypeOK
    <3>4. seen' \in [Calls -> Cascade] /\ token' \in [Calls -> SUBSET Token]
      BY <3>2, WithPageType, NothingReadType DEF TypeOK
    <3> QED
      BY <3>2, <3>3, <3>4 DEF TypeOK, Reading
  <2>2. CASE req[c].confirm # {TokenNow(c)}
    BY <1>7, <2>2, FinishType DEF ConfirmGate, Ended, Refused, TypeOK
  <2> QED
    BY <2>1, <2>2
<1>8. CASE DriftCheck(c)
  <2>1. CASE token[c] = {TokenNow(c)}
    BY <1>8, <2>1, WithPageType DEF DriftCheck, TypeOK
  <2>2. CASE token[c] # {TokenNow(c)}
    BY <1>8, <2>2, FinishType DEF DriftCheck, Ended, Refused, TypeOK
  <2> QED
    BY <2>1, <2>2
<1>9. CASE Delete(c)
  <2>1. world' \in [Conns -> World]
    <3> DEFINE k == req[c].conn
               s == req[c].stream
               w == [world[k] EXCEPT !.alive = @ \ {s}, !.rules[s] = {}, !.pipes[s] = {}]
    <3>1. k \in Conns /\ s \in Streams /\ world[k] \in World
      BY DEF TypeOK, Request
    <3>2. w \in World
      BY <3>1 DEF World
    <3>3. world' = [world EXCEPT ![k] = w] \/ world' = world
      BY <1>9, <3>1 DEF Delete, TypeOK
    <3> QED
      BY <3>1, <3>2, <3>3 DEF TypeOK
  <2>2. Finish(c, "deleted") \/ Finish(c, "delete_failed")
    BY <1>9 DEF Delete
  <2> QED
    BY <1>9, <2>1, <2>2, FinishType DEF Delete, Ended, TypeOK
<1> QED
  BY <1>1, <1>2, <1>3, <1>4, <1>5, <1>6, <1>7, <1>8, <1>9 DEF Step

LEMMA TypeCall ==
  ASSUME TypeOK, NEW c \in Calls, Call(c)
  PROVE  TypeOK'
<1>1. PICK k \in Conns, s \in Streams, d \in BOOLEAN, e \in SUBSET Token : Start(c, k, s, d, e)
  BY DEF Call, TypeOK
<1>2. req' \in [Calls -> Request]
  BY <1>1 DEF Start, TypeOK, Request
<1> QED
  BY <1>1, <1>2 DEF Start, TypeOK, Ended, Refused

LEMMA TypeOtherUsers ==
  ASSUME TypeOK, OtherUsers
  PROVE  TypeOK'
<1>1. PICK k \in Conns :
        \/ \E s \in Streams, r \in Rules : EditRules(k, s, r)
        \/ \E s \in Streams, p \in Pipelines : EditPipelines(k, s, p)
        \/ \E e \in EventDefs, on \in SUBSET Streams, i \in 1..Len(world[k].defs) + 1 :
              CreateEventDef(k, i, e, on)
        \/ \E i \in 1..Len(world[k].defs) :
              \/ \E on \in SUBSET Streams : UpdateEventDef(k, i, on)
              \/ DeleteEventDef(k, i)
  BY DEF OtherUsers
<1>0. world[k] \in World
  BY DEF TypeOK
<1>2. CASE \E s \in Streams, r \in Rules : EditRules(k, s, r)
  <2>1. PICK s \in Streams, r \in Rules : EditRules(k, s, r)
    BY <1>2
  <2>2. [world[k] EXCEPT !.rules[s] = IF r \in @ THEN @ \ {r} ELSE @ \union {r}] \in World
    BY <1>0 DEF World
  <2> QED
    BY <2>1, <2>2, EditType DEF EditRules
<1>3. CASE \E s \in Streams, p \in Pipelines : EditPipelines(k, s, p)
  <2>1. PICK s \in Streams, p \in Pipelines : EditPipelines(k, s, p)
    BY <1>3
  <2>2. [world[k] EXCEPT !.pipes[s] = IF p \in @ THEN @ \ {p} ELSE @ \union {p}] \in World
    BY <1>0 DEF World
  <2> QED
    BY <2>1, <2>2, EditType DEF EditPipelines
<1>4. CASE \E e \in EventDefs, on \in SUBSET Streams, i \in 1..Len(world[k].defs) + 1 :
              CreateEventDef(k, i, e, on)
  <2>1. PICK e \in EventDefs, on \in SUBSET Streams, i \in 1..Len(world[k].defs) + 1 :
              CreateEventDef(k, i, e, on)
    BY <1>4
  <2>2. InsertAtPos(world[k].defs, i, e) \in Seq(EventDefs)
    BY <1>0 DEF World, InsertAtPos
  <2>3. [world[k] EXCEPT !.defs = InsertAtPos(@, i, e), !.linked[e] = on] \in World
    BY <1>0, <2>2 DEF World
  <2> QED
    BY <2>1, <2>3, EditType DEF CreateEventDef
<1>5. CASE \E i \in 1..Len(world[k].defs), on \in SUBSET Streams : UpdateEventDef(k, i, on)
  <2>1. PICK i \in 1..Len(world[k].defs), on \in SUBSET Streams : UpdateEventDef(k, i, on)
    BY <1>5
  <2>2. [world[k] EXCEPT !.linked[world[k].defs[i]] = on] \in World
    BY <1>0 DEF World
  <2> QED
    BY <2>1, <2>2, EditType DEF UpdateEventDef
<1>6. CASE \E i \in 1..Len(world[k].defs) : DeleteEventDef(k, i)
  <2>1. PICK i \in 1..Len(world[k].defs) : DeleteEventDef(k, i)
    BY <1>6
  <2>2. RemoveAtPos(world[k].defs, i) \in Seq(EventDefs)
    BY <1>0 DEF World, RemoveAtPos
  <2>3. [world[k] EXCEPT !.defs = RemoveAtPos(@, i)] \in World
    BY <1>0, <2>2 DEF World
  <2> QED
    BY <2>1, <2>3, EditType DEF DeleteEventDef
<1> QED
  BY <1>1, <1>2, <1>3, <1>4, <1>5, <1>6

LEMMA TypeNext == TypeOK /\ [Next]_vars => TypeOK'
<1>1. ASSUME TypeOK, UNCHANGED vars PROVE TypeOK'
  BY <1>1 DEF TypeOK, vars, calls
<1> QED
  BY <1>1, TypeStep, TypeCall, TypeOtherUsers DEF Next

\* Every variable keeps its type in every behaviour of delete_stream.
THEOREM TypeCorrect == Spec => []TypeOK
  BY TypeInit, TypeNext, PTL DEF Spec

-----------------------------------------------------------------------------
(***************************************************************************)
(* The confirmation.  DeleteIsConfirmed is not inductive: it needs what    *)
(* each gate on the way to the DELETE has already established.             *)
(***************************************************************************)
Gated(c) ==
  /\ req[c].confirm \subseteq shown
  /\ pc[c] \in {"get_stream", "delete"} \union Reading => req[c].conn \in Writable
  /\ pc[c] \in {"delete"} \union Reading => req[c].stream \notin Immutable
  /\ phase[c] = "apply" =>
       /\ pc[c] \in {"delete"} \union Reading
       /\ ~req[c].dryRun
       /\ token[c] = req[c].confirm
  /\ pc[c] = "delete" =>
       /\ phase[c] = "apply"
       /\ req[c].confirm = {[stream |-> req[c].stream, cascade |-> seen[c]]}

GatesInv == \A c \in Calls : Gated(c)

\* A step of one call leaves the locals of the others alone.
LEMMA OwnLocalsOnly ==
  ASSUME TypeOK, NEW c \in Calls, Step(c) \/ Call(c), NEW d \in Calls, d # c
  PROVE  /\ pc'[d] = pc[d] /\ req'[d] = req[d] /\ phase'[d] = phase[d] /\ seen'[d] = seen[d]
         /\ page'[d] = page[d] /\ token'[d] = token[d] /\ stable'[d] = stable[d]
         /\ shown \subseteq shown'
<1> USE DEF TypeOK
<1>1. CASE Call(c)
  BY <1>1 DEF Call, Start
<1>2. CASE RequestFails(c)
  BY <1>2 DEF RequestFails, Finish
<1>3. CASE GetStream(c)
  BY <1>3 DEF GetStream, Finish
<1>4. CASE GetRules(c) \/ GetPipelines(c) \/ GetPage(c)
  BY <1>4 DEF GetRules, GetPipelines, GetPage
<1>5. CASE Preview(c)
  BY <1>5 DEF Preview, Finish
<1>6. CASE ConfirmGate(c)
  BY <1>6 DEF ConfirmGate, Finish
<1>7. CASE DriftCheck(c)
  BY <1>7 DEF DriftCheck, Finish
<1>8. CASE Delete(c)
  BY <1>8 DEF Delete, Finish
<1> QED
  BY <1>1, <1>2, <1>3, <1>4, <1>5, <1>6, <1>7, <1>8 DEF Step

LEMMA GatesFinish ==
  ASSUME TypeOK, NEW c \in Calls, Gated(c), NEW how \in Ended, Finish(c, how), shown \subseteq shown'
  PROVE  Gated(c)'
<1>1. pc'[c] \in Ended /\ phase'[c] = "build" /\ req'[c] = req[c]
  BY DEF TypeOK, Finish
<1> QED
  BY <1>1 DEF Gated, Ended, Refused, Reading

LEMMA GatesOwnStep ==
  ASSUME TypeOK, NEW c \in Calls, Gated(c), Step(c)
  PROVE  Gated(c)'
<1>1. CASE RequestFails(c)
  BY <1>1, GatesFinish DEF RequestFails, Ended, Refused
<1>2. CASE GetStream(c)
  <2>1. CASE req[c].stream \in Immutable
    BY <1>2, <2>1, GatesFinish DEF GetStream, Ended, Refused
  <2>2. CASE req[c].stream \notin Immutable
    BY <1>2, <2>2 DEF GetStream, Gated, Reading, TypeOK
  <2> QED
    BY <2>1, <2>2
<1>3. CASE GetRules(c)
  BY <1>3 DEF GetRules, Gated, Reading, TypeOK
<1>4. CASE GetPipelines(c)
  BY <1>4 DEF GetPipelines, Gated, Reading, TypeOK
<1>5. CASE GetPage(c)
  BY <1>5 DEF GetPage, Gated, Reading, TypeOK
<1>6. CASE Preview(c)
  BY <1>6, GatesFinish DEF Preview, Ended
<1>7. CASE ConfirmGate(c)
  <2>1. CASE req[c].confirm = {TokenNow(c)}
    BY <1>7, <2>1 DEF ConfirmGate, GotCascade, Gated, Reading, TypeOK
  <2>2. CASE req[c].confirm # {TokenNow(c)}
    BY <1>7, <2>2, GatesFinish DEF ConfirmGate, Ended, Refused
  <2> QED
    BY <2>1, <2>2
<1>8. CASE DriftCheck(c)
  <2>1. CASE token[c] = {TokenNow(c)}
    BY <1>8, <2>1 DEF DriftCheck, GotCascade, TokenNow, Gated, Reading, TypeOK
  <2>2. CASE token[c] # {TokenNow(c)}
    BY <1>8, <2>2, GatesFinish DEF DriftCheck, Ended, Refused
  <2> QED
    BY <2>1, <2>2
<1>9. CASE Delete(c)
  <2>1. Finish(c, "deleted") \/ Finish(c, "delete_failed")
    BY <1>9 DEF Delete
  <2> QED
    BY <1>9, <2>1, GatesFinish DEF Delete, Ended
<1> QED
  BY <1>1, <1>2, <1>3, <1>4, <1>5, <1>6, <1>7, <1>8, <1>9 DEF Step

LEMMA GatesCall ==
  ASSUME TypeOK, NEW c \in Calls, Gated(c), Call(c)
  PROVE  Gated(c)'
<1>1. PICK k \in Conns, s \in Streams, d \in BOOLEAN, e \in SUBSET shown : Start(c, k, s, d, e)
  BY DEF Call
<1>2. /\ req'[c].confirm = e /\ req'[c].conn = k
      /\ pc'[c] = IF k \in Writable THEN "get_stream" ELSE "connection_read_only"
      /\ phase'[c] = phase[c] /\ shown' = shown
  BY <1>1 DEF Start, TypeOK
<1>3. phase[c] # "apply"
  BY <1>1 DEF Start, Gated, Reading
<1> QED
  BY <1>2, <1>3 DEF Gated, Reading

LEMMA OtherUsersEdit ==
  ASSUME TypeOK, OtherUsers
  PROVE  \E k \in Shared : \E w, movedUp : Edit(k, w, movedUp) /\ w.alive = world[k].alive
<1>0. \A k \in Shared : world[k] \in World
  BY DEF TypeOK
<1>1. PICK k \in Shared :
        \/ \E s \in Streams, r \in Rules : EditRules(k, s, r)
        \/ \E s \in Streams, p \in Pipelines : EditPipelines(k, s, p)
        \/ \E e \in EventDefs, on \in SUBSET Streams, i \in 1..Len(world[k].defs) + 1 :
              CreateEventDef(k, i, e, on)
        \/ \E i \in 1..Len(world[k].defs) :
              \/ \E on \in SUBSET Streams : UpdateEventDef(k, i, on)
              \/ DeleteEventDef(k, i)
  BY DEF OtherUsers
<1>2. CASE \E s \in Streams, r \in Rules : EditRules(k, s, r)
  <2>1. PICK s \in Streams, r \in Rules : EditRules(k, s, r)
    BY <1>2
  <2>2. [world[k] EXCEPT !.rules[s] = IF r \in @ THEN @ \ {r} ELSE @ \union {r}].alive = world[k].alive
    BY <1>0 DEF World
  <2> QED
    BY <2>1, <2>2 DEF EditRules
<1>3. CASE \E s \in Streams, p \in Pipelines : EditPipelines(k, s, p)
  <2>1. PICK s \in Streams, p \in Pipelines : EditPipelines(k, s, p)
    BY <1>3
  <2>2. [world[k] EXCEPT !.pipes[s] = IF p \in @ THEN @ \ {p} ELSE @ \union {p}].alive = world[k].alive
    BY <1>0 DEF World
  <2> QED
    BY <2>1, <2>2 DEF EditPipelines
<1>4. CASE \E e \in EventDefs, on \in SUBSET Streams, i \in 1..Len(world[k].defs) + 1 :
              CreateEventDef(k, i, e, on)
  <2>1. PICK e \in EventDefs, on \in SUBSET Streams, i \in 1..Len(world[k].defs) + 1 :
              CreateEventDef(k, i, e, on)
    BY <1>4
  <2>2. [world[k] EXCEPT !.defs = InsertAtPos(@, i, e), !.linked[e] = on].alive = world[k].alive
    BY <1>0 DEF World
  <2> QED
    BY <2>1, <2>2 DEF CreateEventDef
<1>5. CASE \E i \in 1..Len(world[k].defs), on \in SUBSET Streams : UpdateEventDef(k, i, on)
  <2>1. PICK i \in 1..Len(world[k].defs), on \in SUBSET Streams : UpdateEventDef(k, i, on)
    BY <1>5
  <2>2. [world[k] EXCEPT !.linked[world[k].defs[i]] = on].alive = world[k].alive
    BY <1>0 DEF World
  <2> QED
    BY <2>1, <2>2 DEF UpdateEventDef
<1>6. CASE \E i \in 1..Len(world[k].defs) : DeleteEventDef(k, i)
  <2>1. PICK i \in 1..Len(world[k].defs) : DeleteEventDef(k, i)
    BY <1>6
  <2>2. [world[k] EXCEPT !.defs = RemoveAtPos(@, i)].alive = world[k].alive
    BY <1>0 DEF World
  <2> QED
    BY <2>1, <2>2 DEF DeleteEventDef
<1> QED
  BY <1>1, <1>2, <1>3, <1>4, <1>5, <1>6

LEMMA GatesNext == TypeOK /\ GatesInv /\ [Next]_vars => GatesInv'
<1> SUFFICES ASSUME TypeOK, GatesInv, [Next]_vars, NEW c \in Calls
             PROVE  Gated(c)'
  BY DEF GatesInv
<1>1. CASE UNCHANGED vars
  BY <1>1 DEF GatesInv, Gated, vars, calls
<1>2. CASE Step(c) \/ Call(c)
  BY <1>2, GatesOwnStep, GatesCall DEF GatesInv
<1>3. ASSUME NEW d \in Calls, d # c, Step(d) \/ Call(d)
      PROVE  Gated(c)'
  BY <1>3, OwnLocalsOnly DEF GatesInv, Gated
<1>4. CASE OtherUsers
  <2>1. UNCHANGED <<shown, calls>>
    BY <1>4, OtherUsersEdit DEF Edit
  <2> QED
    BY <2>1 DEF GatesInv, Gated, calls
<1> QED
  BY <1>1, <1>2, <1>3, <1>4 DEF Next

LEMMA GatesInit == Init => GatesInv
<1> SUFFICES ASSUME Init, NEW c \in Calls PROVE Gated(c)
  BY DEF GatesInv
<1>1. pc[c] = "idle" /\ phase[c] = "build" /\ req[c].confirm = {}
  BY DEF Init, NoRequest
<1> QED
  BY <1>1 DEF Gated, Reading

\* A DELETE is only ever about to be sent by a call on a writable connection,
\* for an editable stream, whose agent echoed a token a preview returned and
\* whose own re-read of the cascade reproduced that token.
THEOREM DeleteConfirmed == Spec => []DeleteIsConfirmed
<1>1. TypeOK /\ GatesInv => DeleteIsConfirmed
  BY DEF GatesInv, Gated, DeleteIsConfirmed
<1>2. Init => GatesInv
  BY GatesInit
<1>3. TypeOK /\ GatesInv /\ [Next]_vars => GatesInv'
  BY GatesNext
<1> QED
  BY <1>1, <1>2, <1>3, TypeCorrect, PTL DEF Spec

-----------------------------------------------------------------------------
(***************************************************************************)
(* Refinement: the steps of delete_stream are steps of ConfirmedDelete.    *)
(***************************************************************************)
Targets == Conns \X Streams
Alive == {x \in Targets : x[2] \in world[x[1]].alive}
ArmedFor(c) == IF pc[c] = "delete"
               THEN {<<<<req[c].conn, req[c].stream>>, t>> : t \in req[c].confirm} ELSE {}
Armed == [c \in Calls |-> ArmedFor(c)]
TokensOf == [x \in Targets |-> {t \in Token : t.stream = x[2]}]

LEMMA ArmOrFireIsNext ==
  ASSUME NEW c \in Calls, NEW x \in Conns \X Streams, NEW t \in shown,
         Abstract!Arm(c, x, t) \/ Abstract!Fire(c, x, t)
  PROVE  Abstract!Next
  BY Zenon DEF Abstract!Next

LEMMA RefineInit == Init => Abstract!Init
<1> SUFFICES ASSUME Init PROVE Abstract!Init
  OBVIOUS
<1>1. Alive \subseteq Targets
  BY DEF Alive
<1>2. Armed = [c \in Calls |-> {}]
  BY DEF Armed, ArmedFor, Init
<1> QED
  BY <1>1, <1>2 DEF Init, Abstract!Init, Alive, Armed, ArmedFor, Targets

\* A step of c that is not at the DELETE before or after, and leaves the
\* streams and the previews alone, is no step of ConfirmedDelete.
LEMMA Unarmed ==
  ASSUME TypeOK, NEW c \in Calls, Step(c) \/ Call(c), world' = world,
         pc[c] # "delete", pc'[c] # "delete"
  PROVE  Armed' = Armed /\ Alive' = Alive
<1>1. \A d \in Calls : d # c => pc'[d] = pc[d] /\ req'[d] = req[d]
  BY OwnLocalsOnly
<1> QED
  BY <1>1 DEF Armed, ArmedFor, Alive

LEMMA FinishUnarmed ==
  ASSUME TypeOK, NEW c \in Calls, NEW how \in Ended, Finish(c, how)
  PROVE  pc'[c] # "delete"
  BY DEF Finish, TypeOK, Ended, Refused

LEMMA RefineStep ==
  ASSUME TypeOK, GatesInv, NEW c \in Calls, Step(c)
  PROVE  Abstract!Next \/ (shown' = shown /\ Armed' = Armed /\ Alive' = Alive)
<1>0. PICK x \in Targets : x = <<req[c].conn, req[c].stream>>
  BY DEF TypeOK, Request, Targets
<1>1. CASE RequestFails(c)
  <2>1. pc[c] # "delete" /\ pc'[c] # "delete"
    BY <1>1, FinishUnarmed DEF RequestFails, Reading, Ended, Refused
  <2> QED
    BY <1>1, <2>1, Unarmed DEF RequestFails
<1>2. CASE GetStream(c)
  <2>1. pc[c] # "delete" /\ pc'[c] # "delete"
    BY <1>2, FinishUnarmed DEF GetStream, Ended, Refused, TypeOK
  <2> QED
    BY <1>2, <2>1, Unarmed DEF GetStream
<1>3. CASE GetRules(c) \/ GetPipelines(c) \/ GetPage(c)
  <2>1. pc[c] # "delete" /\ pc'[c] # "delete" /\ shown' = shown /\ world' = world
    BY <1>3 DEF GetRules, GetPipelines, GetPage, TypeOK
  <2> QED
    BY <2>1, Unarmed
<1>4. CASE Preview(c)
  <2>1. pc[c] # "delete" /\ pc'[c] # "delete"
    BY <1>4, FinishUnarmed DEF Preview, GotCascade, Ended
  <2>2. Armed' = Armed /\ Alive' = Alive
    BY <1>4, <2>1, Unarmed DEF Preview
  <2>3. TokenNow(c) \in TokensOf[x]
    BY <1>0, WithPageType DEF TokensOf, TokenNow
  <2>4. shown' = shown \union {TokenNow(c)}
    BY <1>4 DEF Preview
  <2>5. Abstract!Show
    BY <1>0, <2>2, <2>3, <2>4 DEF Abstract!Show, Armed, ArmedFor, Alive, Targets, TokensOf
  <2> QED
    BY <2>5 DEF Abstract!Next
<1>5. CASE ConfirmGate(c)
  <2>1. pc[c] # "delete" /\ pc'[c] # "delete"
    BY <1>5, FinishUnarmed DEF ConfirmGate, GotCascade, Ended, Refused, TypeOK
  <2> QED
    BY <1>5, <2>1, Unarmed DEF ConfirmGate
<1>6. CASE DriftCheck(c)
  <2>1. CASE token[c] # {TokenNow(c)}
    <3>1. pc[c] # "delete" /\ pc'[c] # "delete"
      BY <1>6, <2>1, FinishUnarmed DEF DriftCheck, GotCascade, Ended, Refused
    <3> QED
      BY <1>6, <3>1, Unarmed DEF DriftCheck
  <2>2. CASE token[c] = {TokenNow(c)}
    <3>1. /\ req[c].confirm = {TokenNow(c)} /\ TokenNow(c) \in shown
          /\ pc[c] = "event_defs" /\ pc' = [pc EXCEPT ![c] = "delete"]
          /\ UNCHANGED <<world, shown, req>>
      BY <1>6, <2>2 DEF DriftCheck, GotCascade, GatesInv, Gated
    <3>2. TokenNow(c) \in TokensOf[x]
      BY <1>0, WithPageType DEF TokensOf, TokenNow
    <3>3. Armed[c] = {} /\ Armed' = [Armed EXCEPT ![c] = {<<x, TokenNow(c)>>}]
      <4>1. ArmedFor(c) = {} /\ ArmedFor(c)' = {<<x, TokenNow(c)>>}
        BY <1>0, <3>1 DEF ArmedFor, TypeOK
      <4>2. \A d \in Calls : d # c => ArmedFor(d)' = ArmedFor(d)
        BY <3>1 DEF ArmedFor, TypeOK
      <4> QED
        BY <4>1, <4>2 DEF Armed
    <3>4. Alive' = Alive
      BY <3>1 DEF Alive
    <3>5. PICK t \in shown : t = TokenNow(c)
      BY <3>1
    <3>6. t \in TokensOf[x] /\ Armed' = [Armed EXCEPT ![c] = {<<x, t>>}] /\ shown' = shown
      BY <3>1, <3>2, <3>3, <3>5
    <3>7. Abstract!Arm(c, x, t)
      BY <3>3, <3>4, <3>6 DEF Abstract!Arm, Armed, ArmedFor, Alive, Targets, TokensOf
    <3>8. x \in Conns \X Streams
      BY <1>0 DEF Targets
    <3> QED
      BY <3>7, <3>8, ArmOrFireIsNext
  <2> QED
    BY <2>1, <2>2
<1>7. CASE Delete(c)
  <2>1. PICK t \in shown : req[c].confirm = {t}
    BY <1>7 DEF Delete, GatesInv, Gated
  <2>2. Armed[c] = {<<x, t>>} /\ Armed' = [Armed EXCEPT ![c] = {}]
    <3>1. ArmedFor(c) = {<<x, t>>}
      BY <1>0, <1>7, <2>1 DEF Delete, ArmedFor
    <3>2. pc'[c] # "delete"
      BY <1>7, FinishUnarmed DEF Delete, Ended
    <3>3. \A d \in Calls : d # c => pc'[d] = pc[d] /\ req'[d] = req[d]
      BY OwnLocalsOnly
    <3>4. Armed[c] = {<<x, t>>}
      BY <3>1 DEF Armed
    <3>5. ArmedFor(c)' = {} /\ \A d \in Calls : d # c => ArmedFor(d)' = ArmedFor(d)
      BY <3>2, <3>3 DEF ArmedFor
    <3>6. Armed' = [Armed EXCEPT ![c] = {}]
      BY <3>5 DEF Armed
    <3> QED
      BY <3>4, <3>6
  <2>3. Alive' \in {Alive, Alive \ {x}}
    <3>1. CASE world' = world
      BY <3>1 DEF Alive
    <3>2. CASE world' # world
      <4> DEFINE k == req[c].conn
                 s == req[c].stream
                 w == [world[k] EXCEPT !.alive = @ \ {s}, !.rules[s] = {}, !.pipes[s] = {}]
      <4>1. k \in Conns /\ s \in Streams /\ world[k] \in World
        BY DEF TypeOK, Request
      <4>2. world' = [world EXCEPT ![k] = w]
        BY <1>7, <3>2, <4>1 DEF Delete, TypeOK
      <4>3. w.alive = world[k].alive \ {s}
        BY <4>1 DEF World
      <4>4. \A j \in Conns : world'[j].alive = IF j = k THEN world[j].alive \ {s} ELSE world[j].alive
        BY <4>1, <4>2, <4>3 DEF TypeOK
      <4>5. \A y \in Targets : y \in Alive' <=> y \in Alive /\ ~(y[1] = k /\ y[2] = s)
        BY <4>4 DEF Alive, Targets
      <4>6. \A y \in Targets : y = x <=> y[1] = k /\ y[2] = s
        BY <1>0 DEF Targets
      <4>7. Alive' \subseteq Targets /\ Alive \subseteq Targets
        BY DEF Alive
      <4>8. Alive' = Alive \ {x}
        BY <4>5, <4>6, <4>7
      <4> QED
        BY <4>8
    <3> QED
      BY <3>1, <3>2
  <2>4. Abstract!Fire(c, x, t)
    BY <1>7, <2>2, <2>3 DEF Delete, Abstract!Fire, Armed, ArmedFor, Alive, Targets
  <2>5. x \in Conns \X Streams
    BY <1>0 DEF Targets
  <2> QED
    BY <2>1, <2>4, <2>5, ArmOrFireIsNext
<1> QED
  BY <1>1, <1>2, <1>3, <1>4, <1>5, <1>6, <1>7 DEF Step

LEMMA RefineNext == TypeOK /\ GatesInv /\ [Next]_vars => [Abstract!Next]_(Abstract!vars)
<1> SUFFICES ASSUME TypeOK, GatesInv, [Next]_vars
             PROVE  Abstract!Next \/ (shown' = shown /\ Armed' = Armed /\ Alive' = Alive)
  BY DEF Abstract!vars, Armed, ArmedFor, Alive, Targets
<1>1. CASE UNCHANGED vars
  BY <1>1 DEF vars, calls, Armed, ArmedFor, Alive
<1>2. ASSUME NEW c \in Calls, Step(c)
      PROVE  Abstract!Next \/ (shown' = shown /\ Armed' = Armed /\ Alive' = Alive)
  BY <1>2, RefineStep
<1>3. ASSUME NEW c \in Calls, Call(c)
      PROVE  shown' = shown /\ Armed' = Armed /\ Alive' = Alive
  <2>1. pc[c] # "delete" /\ pc'[c] # "delete" /\ shown' = shown /\ world' = world
    BY <1>3 DEF Call, Start, TypeOK
  <2> QED
    BY <1>3, <2>1, Unarmed
<1>4. CASE OtherUsers
  <2>1. PICK k \in Shared : \E w, movedUp : Edit(k, w, movedUp) /\ w.alive = world[k].alive
    BY <1>4, OtherUsersEdit
  <2>2. UNCHANGED <<shown, calls>> /\ \A j \in Conns : world'[j].alive = world[j].alive
    BY <2>1 DEF Edit, TypeOK
  <2> QED
    BY <2>2 DEF calls, Armed, ArmedFor, Alive, Targets
<1> QED
  BY <1>1, <1>2, <1>3, <1>4 DEF Next

\* delete_stream keeps the promise of the confirmed destructive tools: every
\* behaviour of it, seen through which streams exist, which tokens previews
\* have shown and which call is about to delete, is one of ConfirmedDelete.
THEOREM DeleteStreamRefines == Spec => ImplementsConfirmedDelete
<1>1. TypeOK /\ GatesInv /\ [Next]_vars => GatesInv'
  BY GatesNext
<1>2. TypeOK /\ GatesInv /\ [Next]_vars => [Abstract!Next]_(Abstract!vars)
  BY RefineNext
<1> QED
  BY <1>1, <1>2, GatesInit, RefineInit, TypeCorrect, PTL
     DEF Spec, ImplementsConfirmedDelete, Abstract!Spec

-----------------------------------------------------------------------------
(***************************************************************************)
(* The re-fetch.  At every point of apply(), what has depended on the      *)
(* stream ever since apply() began has been read, or still will be: an     *)
(* event definition not met yet stands behind the pages already walked,    *)
(* and only a listing that moves up could bring it in front of them.       *)
(***************************************************************************)
\* e stands behind the pages call c has walked.
Ahead(c, e) == \E i \in 1..Len(Server(c).defs) :
                  Server(c).defs[i] = e /\ (pc[c] = "event_defs" => (page[c] - 1) * PerPage < i)

Covered(c) ==
  phase[c] = "apply" =>
    /\ req[c].stream \in Server(c).alive =>
         /\ pc[c] = "rules" => stable[c].rules \subseteq Server(c).rules[req[c].stream]
         /\ pc[c] \in {"rules", "pipelines"} => stable[c].pipes \subseteq Server(c).pipes[req[c].stream]
    /\ pc[c] \in {"pipelines", "event_defs", "delete"} => stable[c].rules \subseteq seen[c].rules
    /\ pc[c] \in {"event_defs", "delete"} => stable[c].pipes \subseteq seen[c].pipes
    /\ pc[c] # "delete" =>
         \A e \in stable[c].events :
           /\ Len(Server(c).defs) <= PerPage * MaxPages
           /\ req[c].stream \in Server(c).linked[e]
           /\ Ahead(c, e) \/ (pc[c] = "event_defs" /\ seen[c].events[e] > 0)
    /\ pc[c] = "delete" => \A e \in stable[c].events : seen[c].events[e] > 0

CoveredInv == \A c \in Calls : Covered(c)

LEMMA CoveredInit == Init => CoveredInv
  BY DEF Init, CoveredInv, Covered

LEMMA CoveredFinish ==
  ASSUME TypeOK, NEW c \in Calls, NEW how, Finish(c, how)
  PROVE  Covered(c)'
<1>1. phase'[c] = "build"
  BY DEF TypeOK, Finish
<1> QED
  BY <1>1 DEF Covered

\* The steps that leave the server alone.
LEMMA ReadCovers ==
  ASSUME TypeOK, GatesInv, NEW c \in Calls, Covered(c),
         GetRules(c) \/ GetPipelines(c) \/ GetPage(c)
  PROVE  Covered(c)'
<1> DEFINE w == Server(c)
           s == req[c].stream
<1>0. w \in World /\ s \in Streams /\ seen[c] \in Cascade /\ stable[c] \in Dependents /\ page[c] \in Nat \ {0}
  BY DEF TypeOK, Server, Request
<1>1. CASE phase[c] # "apply"
  BY <1>1 DEF GetRules, GetPipelines, GetPage, Covered
<1>2. CASE phase[c] = "apply" /\ GetRules(c)
  <2>1. /\ pc[c] = "rules" /\ pc'[c] = "pipelines" /\ s \in w.alive
        /\ seen'[c].rules = w.rules[s]
        /\ UNCHANGED <<world, req, stable, page>>
    BY <1>0, <1>2 DEF GetRules, TypeOK, Cascade
  <2>2. \A e \in stable[c].events : Ahead(c, e)'
    BY <1>2, <2>1 DEF Covered, Ahead, Server
  <2> QED
    BY <1>2, <2>1, <2>2 DEF Covered, Server
<1>3. CASE phase[c] = "apply" /\ GetPipelines(c)
  <2>1. /\ pc[c] = "pipelines" /\ pc'[c] = "event_defs" /\ s \in w.alive /\ page'[c] = 1
        /\ seen'[c].rules = seen[c].rules /\ seen'[c].pipes = w.pipes[s]
        /\ UNCHANGED <<world, req, stable>>
    BY <1>0, <1>3 DEF GetPipelines, TypeOK, Cascade
  <2>2. \A e \in stable[c].events : Ahead(c, e)'
    BY <1>3, <2>1 DEF Covered, Ahead, Server
  <2> QED
    BY <1>3, <2>1, <2>2 DEF Covered, Server
<1>4. CASE phase[c] = "apply" /\ GetPage(c)
  <2>1. /\ pc[c] = "event_defs" /\ page'[c] = page[c] + 1 /\ ~LastPage(w, page[c])
        /\ seen'[c] = WithPage(c)
        /\ UNCHANGED <<world, pc, phase, req, stable>>
    BY <1>0, <1>4 DEF GetPage, TypeOK
  <2>2. \A e \in EventDefs : WithPage(c).events[e] =
            IF e \in OnPage(w, page[c]) /\ s \in w.linked[e] THEN seen[c].events[e] + 1 ELSE seen[c].events[e]
    BY <1>0 DEF WithPage, Cascade
  <2>3. WithPage(c).rules = seen[c].rules /\ WithPage(c).pipes = seen[c].pipes
    BY <1>0 DEF WithPage, Cascade
  <2>4. ASSUME NEW e \in stable[c].events
        PROVE  Ahead(c, e)' \/ seen'[c].events[e] > 0
    <3>1. e \in EventDefs /\ seen[c].events[e] \in Nat
      BY <1>0 DEF Dependents, Cascade
    <3>2. CASE seen[c].events[e] > 0
      BY <2>1, <2>2, <3>1, <3>2
    <3>3. CASE ~(seen[c].events[e] > 0)
      <4>1. PICK i \in 1..Len(w.defs) : w.defs[i] = e /\ (page[c] - 1) * PerPage < i
        BY <1>4, <2>1, <3>3 DEF Covered, Ahead
      <4>2. CASE i <= page[c] * PerPage
        <5>1. e \in OnPage(w, page[c])
          BY <4>1, <4>2 DEF OnPage
        <5>2. s \in w.linked[e]
          BY <1>4, <2>1 DEF Covered
        <5> QED
          BY <2>1, <2>2, <3>1, <5>1, <5>2
      <4>3. CASE ~(i <= page[c] * PerPage)
        <5>1. page'[c] - 1 = page[c]
          BY <1>0, <2>1
        <5>2. page[c] * PerPage < i
          BY <1>0, <4>3
        <5> QED
          BY <2>1, <4>1, <5>1, <5>2 DEF Ahead, Server
      <4> QED
        BY <4>2, <4>3
    <3> QED
      BY <3>2, <3>3
  <2> QED
    BY <1>4, <2>1, <2>3, <2>4 DEF Covered, Server
<1> QED
  BY <1>1, <1>2, <1>3, <1>4

LEMMA PagesCover ==
  ASSUME NEW p \in Nat \ {0}, p >= MaxPages
  PROVE  PerPage * MaxPages <= p * PerPage
  OBVIOUS

\* The walk has met everything when the last page is in.
LEMMA LastPageCovers ==
  ASSUME TypeOK, NEW c \in Calls, Covered(c), GotCascade(c), phase[c] = "apply",
         NEW e \in stable[c].events
  PROVE  WithPage(c).events[e] > 0
<1> DEFINE w == Server(c)
           s == req[c].stream
<1>0. w \in World /\ seen[c] \in Cascade /\ stable[c] \in Dependents /\ page[c] \in Nat \ {0}
  BY DEF TypeOK, Server, Request
<1>1. e \in EventDefs /\ seen[c].events[e] \in Nat
  BY <1>0 DEF Dependents, Cascade
<1>2. WithPage(c).events[e] =
        IF e \in OnPage(w, page[c]) /\ s \in w.linked[e] THEN seen[c].events[e] + 1 ELSE seen[c].events[e]
  BY <1>0, <1>1 DEF WithPage, Cascade
<1>3. Len(w.defs) \in Nat /\ Len(w.defs) <= PerPage * MaxPages /\ s \in w.linked[e]
  BY <1>0 DEF Covered, GotCascade, World
<1>4. CASE seen[c].events[e] > 0
  BY <1>1, <1>2, <1>4
<1>5. CASE ~(seen[c].events[e] > 0)
  <2>1. PICK i \in 1..Len(w.defs) : w.defs[i] = e /\ (page[c] - 1) * PerPage < i
    BY <1>5 DEF Covered, Ahead, GotCascade
  <2>2. i <= page[c] * PerPage
    <3>1. CASE Len(w.defs) < page[c] * PerPage
      BY <1>0, <1>3, <2>1, <3>1
    <3>2. CASE page[c] >= MaxPages
      <4>1. PerPage * MaxPages <= page[c] * PerPage
        BY <1>0, <3>2, PagesCover
      <4>2. page[c] * PerPage \in Int /\ PerPage * MaxPages \in Int
        BY <1>0
      <4>3. i \in Int /\ i <= Len(w.defs)
        BY <1>3, <2>1
      <4> QED
        BY <1>3, <4>1, <4>2, <4>3
    <3> QED
      BY <3>1, <3>2 DEF GotCascade, LastPage
  <2>3. e \in OnPage(w, page[c])
    BY <2>1, <2>2 DEF OnPage
  <2> QED
    BY <1>1, <1>2, <1>3, <2>3
<1> QED
  BY <1>4, <1>5

LEMMA CoveredOwnStep ==
  ASSUME TypeOK, GatesInv, NEW c \in Calls, Covered(c), Step(c)
  PROVE  Covered(c)'
<1>1. CASE RequestFails(c)
  BY <1>1, CoveredFinish DEF RequestFails
<1>2. CASE GetStream(c)
  <2>1. CASE req[c].stream \in Immutable
    BY <1>2, <2>1, CoveredFinish DEF GetStream
  <2>2. CASE req[c].stream \notin Immutable
    <3>1. phase'[c] # "apply"
      BY <1>2, <2>2 DEF GetStream, GatesInv, Gated, Reading
    <3> QED
      BY <3>1 DEF Covered
  <2> QED
    BY <2>1, <2>2
<1>3. CASE GetRules(c) \/ GetPipelines(c) \/ GetPage(c)
  BY <1>3, ReadCovers
<1>4. CASE Preview(c)
  BY <1>4, CoveredFinish DEF Preview
<1>5. CASE ConfirmGate(c)
  <2>1. CASE req[c].confirm = {TokenNow(c)}
    <3> DEFINE w == Server(c)
               s == req[c].stream
    <3>1. w \in World /\ s \in Streams
      BY DEF TypeOK, Server, Request
    <3>2. /\ pc'[c] = "rules" /\ stable'[c] = DependentsOf(w, s)
          /\ UNCHANGED <<world, req>>
      BY <1>5, <2>1 DEF ConfirmGate, TypeOK
    <3>3. stable'[c].rules = w.rules[s] /\ stable'[c].pipes = w.pipes[s]
      BY <3>2 DEF DependentsOf
    <3>4. ASSUME NEW e \in stable'[c].events
          PROVE  Len(w.defs) <= PerPage * MaxPages /\ s \in w.linked[e] /\ Ahead(c, e)'
      <4>1. Len(w.defs) \in Nat /\ PerPage * MaxPages \in Nat
        BY <3>1 DEF World
      <4>2. Len(w.defs) <= PerPage * MaxPages /\ e \in Listed(w) /\ s \in w.linked[e]
        BY <3>2, <3>4, <4>1 DEF DependentsOf
      <4>3. Server(c)' = w
        BY <3>2 DEF Server
      <4> QED
        BY <3>2, <4>2, <4>3 DEF Listed, Ahead
    <3> QED
      BY <3>2, <3>3, <3>4 DEF Covered, Server
  <2>2. CASE req[c].confirm # {TokenNow(c)}
    BY <1>5, <2>2, CoveredFinish DEF ConfirmGate
  <2> QED
    BY <2>1, <2>2
<1>6. CASE DriftCheck(c)
  <2>1. CASE token[c] = {TokenNow(c)}
    <3>1. /\ phase[c] = "apply" /\ pc[c] = "event_defs" /\ pc'[c] = "delete"
          /\ seen'[c] = WithPage(c)
          /\ UNCHANGED stable
      BY <1>6, <2>1 DEF DriftCheck, GotCascade, TypeOK
    <3>2. WithPage(c).rules = seen[c].rules /\ WithPage(c).pipes = seen[c].pipes
      BY DEF WithPage, TypeOK, Cascade
    <3>3. \A e \in stable[c].events : WithPage(c).events[e] > 0
      BY <1>6, LastPageCovers DEF DriftCheck
    <3> QED
      BY <3>1, <3>2, <3>3 DEF Covered
  <2>2. CASE token[c] # {TokenNow(c)}
    BY <1>6, <2>2, CoveredFinish DEF DriftCheck
  <2> QED
    BY <2>1, <2>2
<1>7. CASE Delete(c)
  BY <1>7, CoveredFinish DEF Delete
<1> QED
  BY <1>1, <1>2, <1>3, <1>4, <1>5, <1>6, <1>7 DEF Step

\* Another call can only delete a stream.
LEMMA CoveredOtherCall ==
  ASSUME TypeOK, NEW c \in Calls, Step(c) \/ Call(c), NEW d \in Calls, d # c, Covered(d)
  PROVE  Covered(d)'
<1>1. /\ pc'[d] = pc[d] /\ req'[d] = req[d] /\ phase'[d] = phase[d] /\ seen'[d] = seen[d]
      /\ page'[d] = page[d] /\ stable'[d] = stable[d]
  BY OwnLocalsOnly
<1>2. CASE world' = world
  BY <1>1, <1>2 DEF Covered, Ahead, Server
<1>3. CASE world' # world
  <2> DEFINE k == req[c].conn
             s == req[c].stream
             w == [world[k] EXCEPT !.alive = @ \ {s}, !.rules[s] = {}, !.pipes[s] = {}]
             j == req[d].conn
             u == req[d].stream
  <2>1. k \in Conns /\ s \in Streams /\ j \in Conns /\ u \in Streams
        /\ world[k] \in World /\ world[j] \in World
    BY DEF TypeOK, Request
  <2>2. Delete(c)
    BY <1>3 DEF Step, Call, Start, RequestFails, GetStream, GetRules, GetPipelines, GetPage,
                Preview, ConfirmGate, DriftCheck
  <2>3. world' = [world EXCEPT ![k] = w]
    BY <1>3, <2>1, <2>2 DEF Delete, TypeOK
  <2>4. /\ w.alive = world[k].alive \ {s} /\ w.defs = world[k].defs /\ w.linked = world[k].linked
        /\ \A x \in Streams : x # s => w.rules[x] = world[k].rules[x] /\ w.pipes[x] = world[k].pipes[x]
    BY <2>1 DEF World
  <2>5. /\ world'[j].defs = world[j].defs /\ world'[j].linked = world[j].linked
        /\ u \in world'[j].alive =>
             /\ u \in world[j].alive
             /\ world'[j].rules[u] = world[j].rules[u] /\ world'[j].pipes[u] = world[j].pipes[u]
    <3> HIDE DEF w
    <3> QED
      BY <2>1, <2>3, <2>4 DEF TypeOK
  <2>6. \A e : Ahead(d, e)' <=> Ahead(d, e)
    BY <1>1, <2>5 DEF Ahead, Server
  <2> QED
    BY <1>1, <2>5, <2>6 DEF Covered, Server
<1> QED
  BY <1>2, <1>3

\* An edit moves every definition behind where it stood, or has movedUp say so.
LEMMA EditCovers ==
  ASSUME TypeOK, NEW k \in Conns, NEW w \in World, NEW movedUp \in BOOLEAN, Edit(k, w, movedUp),
         w.alive = world[k].alive,
         movedUp \/ \A i \in 1..Len(world[k].defs) :
                       \E j \in 1..Len(w.defs) : i <= j /\ w.defs[j] = world[k].defs[i],
         NEW c \in Calls, Covered(c)
  PROVE  Covered(c)'
<1>1. UNCHANGED <<pc, req, phase, seen, page>> /\ world' = [world EXCEPT ![k] = w]
  BY DEF Edit, calls
<1>2. CASE req[c].conn # k
  <2>1. stable'[c] = stable[c] /\ Server(c)' = Server(c)
    BY <1>1, <1>2 DEF Edit, Server, TypeOK, Request
  <2> QED
    BY <1>1, <2>1 DEF Covered, Ahead
<1>3. CASE req[c].conn = k
  <2> DEFINE s == req[c].stream
             now == DependentsOf(w, s)
  <2>1. Server(c) = world[k] /\ Server(c)' = w /\ world[k] \in World /\ s \in Streams
        /\ page[c] \in Nat \ {0}
    BY <1>1, <1>3 DEF Server, TypeOK, Request
  <2>2. /\ stable'[c].rules = stable[c].rules \intersect now.rules
        /\ stable'[c].pipes = stable[c].pipes \intersect now.pipes
        /\ stable'[c].events = IF movedUp THEN {} ELSE stable[c].events \intersect now.events
    BY <1>3 DEF Edit
  <2>3. now.rules = w.rules[s] /\ now.pipes = w.pipes[s]
    BY DEF DependentsOf
  <2>4. ASSUME NEW e \in stable'[c].events
        PROVE  /\ e \in stable[c].events /\ ~movedUp
               /\ Len(w.defs) <= PerPage * MaxPages /\ s \in w.linked[e]
    <3>1. e \in stable[c].events /\ ~movedUp /\ e \in now.events
      BY <2>2, <2>4
    <3>2. Len(w.defs) \in Nat /\ PerPage * MaxPages \in Nat
      BY DEF World
    <3> QED
      BY <3>1, <3>2 DEF DependentsOf
  <2>5. ASSUME NEW e \in stable'[c].events, Ahead(c, e)
        PROVE  Ahead(c, e)'
    <3>1. PICK i \in 1..Len(world[k].defs) :
             world[k].defs[i] = e /\ (pc[c] = "event_defs" => (page[c] - 1) * PerPage < i)
      BY <2>1, <2>5 DEF Ahead
    <3>2. PICK j \in 1..Len(w.defs) : i <= j /\ w.defs[j] = world[k].defs[i]
      BY <2>4, <3>1
    <3>3. (page[c] - 1) * PerPage \in Int /\ i \in Int /\ j \in Int
      BY <2>1, <3>1, <3>2
    <3>4. (page[c] - 1) * PerPage < i => (page[c] - 1) * PerPage < j
      BY <3>2, <3>3
    <3> QED
      BY <1>1, <2>1, <3>1, <3>2, <3>4 DEF Ahead
  <2>6. Covered(c)'
    <3>1. ASSUME phase'[c] = "apply" PROVE phase[c] = "apply"
      BY <1>1, <3>1
    <3> QED
      BY <1>1, <2>1, <2>2, <2>3, <2>4, <2>5, <3>1 DEF Covered
  <2> QED
    BY <2>6
<1> QED
  BY <1>2, <1>3

LEMMA CoveredOtherUsers ==
  ASSUME TypeOK, OtherUsers, NEW c \in Calls, Covered(c)
  PROVE  Covered(c)'
<1>1. PICK k \in Shared :
        \/ \E s \in Streams, r \in Rules : EditRules(k, s, r)
        \/ \E s \in Streams, p \in Pipelines : EditPipelines(k, s, p)
        \/ \E e \in EventDefs, on \in SUBSET Streams, i \in 1..Len(world[k].defs) + 1 :
              CreateEventDef(k, i, e, on)
        \/ \E i \in 1..Len(world[k].defs) :
              \/ \E on \in SUBSET Streams : UpdateEventDef(k, i, on)
              \/ DeleteEventDef(k, i)
  BY DEF OtherUsers
<1>0. k \in Conns /\ world[k] \in World /\ Len(world[k].defs) \in Nat
  BY DEF TypeOK, World
<1>2. CASE \E s \in Streams, r \in Rules : EditRules(k, s, r)
  <2>1. PICK s \in Streams, r \in Rules : EditRules(k, s, r)
    BY <1>2
  <2> DEFINE w == [world[k] EXCEPT !.rules[s] = IF r \in @ THEN @ \ {r} ELSE @ \union {r}]
  <2>2. w \in World /\ w.alive = world[k].alive /\ w.defs = world[k].defs
    BY <1>0 DEF World
  <2>3. Edit(k, w, FALSE)
    BY <2>1 DEF EditRules
  <2> HIDE DEF w
  <2>4. \A i \in 1..Len(world[k].defs) :
           \E j \in 1..Len(w.defs) : i <= j /\ w.defs[j] = world[k].defs[i]
    <3> TAKE i \in 1..Len(world[k].defs)
    <3>1. i \in 1..Len(w.defs) /\ i <= i /\ w.defs[i] = world[k].defs[i]
      BY <1>0, <2>2
    <3> QED
      BY <3>1
  <2> QED
    BY <1>0, <2>2, <2>3, <2>4, EditCovers
<1>3. CASE \E s \in Streams, p \in Pipelines : EditPipelines(k, s, p)
  <2>1. PICK s \in Streams, p \in Pipelines : EditPipelines(k, s, p)
    BY <1>3
  <2> DEFINE w == [world[k] EXCEPT !.pipes[s] = IF p \in @ THEN @ \ {p} ELSE @ \union {p}]
  <2>2. w \in World /\ w.alive = world[k].alive /\ w.defs = world[k].defs
    BY <1>0 DEF World
  <2>3. Edit(k, w, FALSE)
    BY <2>1 DEF EditPipelines
  <2> HIDE DEF w
  <2>4. \A i \in 1..Len(world[k].defs) :
           \E j \in 1..Len(w.defs) : i <= j /\ w.defs[j] = world[k].defs[i]
    <3> TAKE i \in 1..Len(world[k].defs)
    <3>1. i \in 1..Len(w.defs) /\ i <= i /\ w.defs[i] = world[k].defs[i]
      BY <1>0, <2>2
    <3> QED
      BY <3>1
  <2> QED
    BY <1>0, <2>2, <2>3, <2>4, EditCovers
<1>4. CASE \E e \in EventDefs, on \in SUBSET Streams, i \in 1..Len(world[k].defs) + 1 :
              CreateEventDef(k, i, e, on)
  <2>1. PICK e \in EventDefs, on \in SUBSET Streams, i \in 1..Len(world[k].defs) + 1 :
              CreateEventDef(k, i, e, on)
    BY <1>4
  <2> DEFINE w == [world[k] EXCEPT !.defs = InsertAtPos(@, i, e), !.linked[e] = on]
  <2>2. InsertAtPos(world[k].defs, i, e) \in Seq(EventDefs)
        /\ Len(InsertAtPos(world[k].defs, i, e)) = Len(world[k].defs) + 1
    BY <1>0 DEF World, InsertAtPos
  <2>3. w \in World /\ w.alive = world[k].alive /\ w.defs = InsertAtPos(world[k].defs, i, e)
    BY <1>0, <2>2 DEF World
  <2>4. Edit(k, w, FALSE)
    BY <2>1 DEF CreateEventDef
  <2>5. ASSUME NEW j \in 1..Len(world[k].defs)
        PROVE  \E l \in 1..Len(w.defs) : j <= l /\ w.defs[l] = world[k].defs[j]
    <3> DEFINE l == IF j < i THEN j ELSE j + 1
    <3>1. l \in 1..Len(world[k].defs) + 1 /\ j <= l
      BY <1>0
    <3>2. InsertAtPos(world[k].defs, i, e)[l] = world[k].defs[j]
      BY <1>0, <3>1 DEF InsertAtPos
    <3> QED
      BY <2>2, <2>3, <3>1, <3>2
  <2> HIDE DEF w
  <2> QED
    BY <1>0, <2>3, <2>4, <2>5, EditCovers
<1>5. CASE \E i \in 1..Len(world[k].defs), on \in SUBSET Streams : UpdateEventDef(k, i, on)
  <2>1. PICK i \in 1..Len(world[k].defs), on \in SUBSET Streams : UpdateEventDef(k, i, on)
    BY <1>5
  <2> DEFINE w == [world[k] EXCEPT !.linked[world[k].defs[i]] = on]
  <2>2. w \in World /\ w.alive = world[k].alive /\ w.defs = world[k].defs
    BY <1>0 DEF World
  <2>3. Edit(k, w, FALSE)
    BY <2>1 DEF UpdateEventDef
  <2> HIDE DEF w
  <2>4. \A m \in 1..Len(world[k].defs) :
           \E j \in 1..Len(w.defs) : m <= j /\ w.defs[j] = world[k].defs[m]
    <3> TAKE m \in 1..Len(world[k].defs)
    <3>1. m \in 1..Len(w.defs) /\ m <= m /\ w.defs[m] = world[k].defs[m]
      BY <1>0, <2>2
    <3> QED
      BY <3>1
  <2> QED
    BY <1>0, <2>2, <2>3, <2>4, EditCovers
<1>6. CASE \E i \in 1..Len(world[k].defs) : DeleteEventDef(k, i)
  <2>1. PICK i \in 1..Len(world[k].defs) : DeleteEventDef(k, i)
    BY <1>6
  <2> DEFINE w == [world[k] EXCEPT !.defs = RemoveAtPos(@, i)]
  <2>2. RemoveAtPos(world[k].defs, i) \in Seq(EventDefs)
    BY <1>0 DEF World, RemoveAtPos
  <2>3. w \in World /\ w.alive = world[k].alive
    BY <1>0, <2>2 DEF World
  <2>4. Edit(k, w, TRUE)
    BY <2>1 DEF DeleteEventDef
  <2> HIDE DEF w
  <2> QED
    BY <1>0, <2>3, <2>4, EditCovers
<1> QED
  BY <1>1, <1>2, <1>3, <1>4, <1>5, <1>6

LEMMA CoveredCall ==
  ASSUME TypeOK, GatesInv, NEW c \in Calls, Call(c)
  PROVE  Covered(c)'
<1>1. phase'[c] # "apply"
  BY DEF Call, Start, GatesInv, Gated, Reading
<1> QED
  BY <1>1 DEF Covered

LEMMA CoveredNext == TypeOK /\ GatesInv /\ CoveredInv /\ [Next]_vars => CoveredInv'
<1> SUFFICES ASSUME TypeOK, GatesInv, CoveredInv, [Next]_vars, NEW d \in Calls
             PROVE  Covered(d)'
  BY DEF CoveredInv
<1>0. Covered(d)
  BY DEF CoveredInv
<1>1. CASE UNCHANGED vars
  BY <1>0, <1>1 DEF vars, calls, Covered, Ahead, Server
<1>2. ASSUME NEW c \in Calls, Step(c) \/ Call(c)
      PROVE  Covered(d)'
  <2>1. CASE c = d
    BY <1>0, <1>2, <2>1, CoveredOwnStep, CoveredCall
  <2>2. CASE c # d
    BY <1>0, <1>2, <2>2, CoveredOtherCall
  <2> QED
    BY <2>1, <2>2
<1>3. CASE OtherUsers
  BY <1>0, <1>3, CoveredOtherUsers
<1> QED
  BY <1>1, <1>2, <1>3 DEF Next

LEMMA CoveredEnough == TypeOK /\ GatesInv /\ CoveredInv => NothingStableMissed
<1> SUFFICES ASSUME TypeOK, GatesInv, CoveredInv, NEW c \in Calls, pc[c] = "delete",
                    NEW t \in req[c].confirm
             PROVE  /\ stable[c].rules \subseteq t.cascade.rules
                    /\ stable[c].pipes \subseteq t.cascade.pipes
                    /\ \A e \in stable[c].events : t.cascade.events[e] > 0
  BY DEF NothingStableMissed
<1>1. t = [stream |-> req[c].stream, cascade |-> seen[c]] /\ phase[c] = "apply"
  BY DEF GatesInv, Gated
<1> QED
  BY <1>1 DEF CoveredInv, Covered

\* The cascade that a DELETE was confirmed with misses nothing that depended on
\* the stream all through apply()'s re-fetch, for any number of pages, calls
\* and concurrent edits.
THEOREM RefetchMissesNothing == Spec => []NothingStableMissed
<1>1. TypeOK /\ GatesInv /\ [Next]_vars => GatesInv'
  BY GatesNext
<1>2. TypeOK /\ GatesInv /\ CoveredInv /\ [Next]_vars => CoveredInv'
  BY CoveredNext
<1> QED
  BY <1>1, <1>2, GatesInit, CoveredInit, CoveredEnough, TypeCorrect, PTL DEF Spec
=============================================================================
