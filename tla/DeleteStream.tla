----------------------------- MODULE DeleteStream -----------------------------
(***************************************************************************)
(* delete_stream (tools/streams/delete-stream.js) behind the mutating-tool *)
(* wrapper (tools/_shared/handler.js).  A call previews (dryRun) or        *)
(* applies.  Both run build(): GET the stream, then the cascade pre-flight *)
(* (rules, pipeline connections, a paginated walk of every event           *)
(* definition), then the confirmation token.  An apply must echo the token *)
(* build() has just derived, reads the whole cascade once more, and sends  *)
(* the DELETE only if the token still is the same.                         *)
(*                                                                         *)
(* Every request is one atomic step of the Graylog server, and the code up *)
(* to the next request runs with it; between two requests other calls and  *)
(* other users of the same Graylog servers may do anything the Edit        *)
(* actions allow.  A token is modelled by what it is the hash of.          *)
(***************************************************************************)
EXTENDS Integers, Sequences

CONSTANTS Calls,       \* tool calls; each runs once
          Conns,       \* configured Graylog connections
          Writable,    \* the connections without writable: false
          Streams,     \* stream ids; two servers may use the same one
          Immutable,   \* streams that are not editable (built in)
          Rules, Pipelines, EventDefs,   \* ids of what can depend on a stream
          PerPage,     \* event definitions per page (50 in the code)
          MaxPages,    \* the walk's safety cap (1000 in the code)
          Shared,      \* the connections whose servers other users edit meanwhile
          Worlds,      \* what a Graylog server may hold to begin with
          MaxEdits     \* bound on the edits by other users

World == [alive  : SUBSET Streams,                \* the streams that exist
          rules  : [Streams -> SUBSET Rules],     \* stream rules
          pipes  : [Streams -> SUBSET Pipelines], \* pipelines connected
          defs   : Seq(EventDefs),                \* event definitions, as the server lists them
          linked : [EventDefs -> SUBSET Streams]] \* config.streams of each

ASSUME ConnsAssumption == Writable \subseteq Conns /\ Shared \subseteq Conns
ASSUME SomeAssumption == Conns # {} /\ Streams # {}
ASSUME WorldsAssumption ==
  \A w \in Worlds : w \in World /\ \A i, j \in 1..Len(w.defs) : w.defs[i] = w.defs[j] => i = j
ASSUME PagesAssumption == PerPage \in Nat \ {0} /\ MaxPages \in Nat \ {0}
ASSUME EditsAssumption == MaxEdits \in Nat

VARIABLES
  world,     \* world[k]: the Graylog server behind connection k
  shown,     \* the confirmation tokens that previews have returned to the agent
  pc,        \* the request a call makes next, or how it ended
  req,       \* a call's arguments, connection resolved
  phase,     \* "build" or "apply"
  seen,      \* the cascade read so far in this phase
  page,      \* the page of event definitions to ask for
  token,     \* {} or {build()'s confirmation token}
  stable,    \* history: what has depended on the stream ever since apply() began
  edits      \* bound: edits made by other users

calls == <<pc, req, phase, seen, page, token>>
vars  == <<world, shown, calls, stable, edits>>

-----------------------------------------------------------------------------
Cascade == [rules : SUBSET Rules, pipes : SUBSET Pipelines, events : [EventDefs -> Nat]]
\* computeCascadeHash: sha-256 over the stream id and the three keyed, sorted
\* id lists.  A definition met on two pages is listed, and hashed, twice.
Token   == [stream : Streams, cascade : Cascade]
\* confirm: {}, or {the token the agent echoes}
Request == [conn : Conns, stream : Streams, dryRun : BOOLEAN, confirm : SUBSET Token]

NoRequest == [conn |-> CHOOSE k \in Conns : TRUE, stream |-> CHOOSE s \in Streams : TRUE,
              dryRun |-> TRUE, confirm |-> {}]   \* before the call is made

Reading == {"rules", "pipelines", "event_defs"}
Refused == {"connection_read_only", "graylog_error", "stream_immutable", "cascade_preflight_failed",
            "confirmation_mismatch", "cascade_changed_since_preview"}
Ended   == Refused \union {"preview", "deleted", "delete_failed"}

NothingRead == [rules |-> {}, pipes |-> {}, events |-> [e \in EventDefs |-> 0]]
Dependents  == [rules : SUBSET Rules, pipes : SUBSET Pipelines, events : SUBSET EventDefs]
NoDependent == [rules |-> {}, pipes |-> {}, events |-> {}]

Listed(w) == {w.defs[i] : i \in 1..Len(w.defs)}
\* Everything that depends on stream s in w.  Beyond the safety cap the walk
\* promises nothing about event definitions.
DependentsOf(w, s) ==
  [rules |-> w.rules[s], pipes |-> w.pipes[s],
   events |-> IF Len(w.defs) > PerPage * MaxPages THEN {}
              ELSE {e \in Listed(w) : s \in w.linked[e]}]

TypeOK ==
  /\ world \in [Conns -> World]
  /\ shown \subseteq Token
  /\ pc \in [Calls -> {"idle", "get_stream", "delete"} \union Reading \union Ended]
  /\ req \in [Calls -> Request]
  /\ phase \in [Calls -> {"build", "apply"}]
  /\ seen \in [Calls -> Cascade]
  /\ page \in [Calls -> Nat \ {0}]
  /\ token \in [Calls -> SUBSET Token]
  /\ stable \in [Calls -> Dependents]
  /\ edits \in 0..MaxEdits

Init ==
  /\ world \in [Conns -> Worlds]
  /\ shown = {}
  /\ pc = [c \in Calls |-> "idle"]
  /\ req = [c \in Calls |-> NoRequest]
  /\ phase = [c \in Calls |-> "build"]
  /\ seen = [c \in Calls |-> NothingRead]
  /\ page = [c \in Calls |-> 1]
  /\ token = [c \in Calls |-> {}]
  /\ stable = [c \in Calls |-> NoDependent]
  /\ edits = 0

-----------------------------------------------------------------------------
(* The wrapper and the handler *)

Server(c) == world[req[c].conn]

\* The call returns: its locals are gone.
Finish(c, how) ==
  /\ pc' = [pc EXCEPT ![c] = how]
  /\ phase' = [phase EXCEPT ![c] = "build"]
  /\ seen' = [seen EXCEPT ![c] = NothingRead]
  /\ page' = [page EXCEPT ![c] = 1]
  /\ token' = [token EXCEPT ![c] = {}]
  /\ stable' = [stable EXCEPT ![c] = NoDependent]
  /\ UNCHANGED <<req, edits>>

\* The agent calls the tool, on any connection, echoing any token it was shown
\* or none.  The writable gate comes before anything is sent.
Start(c, k, s, dryRun, confirm) ==
  /\ pc[c] = "idle"
  /\ req' = [req EXCEPT ![c] = [conn |-> k, stream |-> s, dryRun |-> dryRun, confirm |-> confirm]]
  /\ pc' = [pc EXCEPT ![c] = IF k \in Writable THEN "get_stream" ELSE "connection_read_only"]
  /\ UNCHANGED <<world, shown, phase, seen, page, token, stable, edits>>

\* A GET fails: a status of 400 and above, a network error, the 60 s timeout.
\* Inside the cascade pre-flight any failure ends the call: no token.
RequestFails(c) ==
  /\ \/ pc[c] = "get_stream" /\ Finish(c, "graylog_error")
     \/ pc[c] \in Reading /\ Finish(c, "cascade_preflight_failed")
  /\ UNCHANGED <<world, shown>>

GetStream(c) ==
  /\ pc[c] = "get_stream"
  /\ req[c].stream \in Server(c).alive
  /\ IF req[c].stream \in Immutable
     THEN Finish(c, "stream_immutable")
     ELSE /\ pc' = [pc EXCEPT ![c] = "rules"]
          /\ UNCHANGED <<req, phase, seen, page, token, stable, edits>>
  /\ UNCHANGED <<world, shown>>

GetRules(c) ==
  /\ pc[c] = "rules"
  /\ req[c].stream \in Server(c).alive
  /\ seen' = [seen EXCEPT ![c].rules = Server(c).rules[req[c].stream]]
  /\ pc' = [pc EXCEPT ![c] = "pipelines"]
  /\ UNCHANGED <<world, shown, req, phase, page, token, stable, edits>>

\* Mutant of GetPipelines: the walk starts at page 0.
WalkFromPageZero(c) ==
  /\ pc[c] = "pipelines" /\ req[c].stream \in Server(c).alive
  /\ seen' = [seen EXCEPT ![c].pipes = Server(c).pipes[req[c].stream]]
  /\ pc' = [pc EXCEPT ![c] = "event_defs"]
  /\ page' = [page EXCEPT ![c] = 0]
  /\ UNCHANGED <<world, shown, req, phase, token, stable, edits>>

GetPipelines(c) ==
  /\ pc[c] = "pipelines"
  /\ req[c].stream \in Server(c).alive
  /\ seen' = [seen EXCEPT ![c].pipes = Server(c).pipes[req[c].stream]]
  /\ pc' = [pc EXCEPT ![c] = "event_defs"]
  /\ page' = [page EXCEPT ![c] = 1]
  /\ UNCHANGED <<world, shown, req, phase, token, stable, edits>>

OnPage(w, p) ==
  {w.defs[i] : i \in {j \in 1..Len(w.defs) : (p - 1) * PerPage < j /\ j <= p * PerPage}}
\* A page that is not full is the last one; so is page MaxPages.
LastPage(w, p) == Len(w.defs) < p * PerPage \/ p >= MaxPages
\* The cascade once the page the call now asks for has been filtered into it.
WithPage(c) ==
  [seen[c] EXCEPT !.events = [e \in EventDefs |->
     IF e \in OnPage(Server(c), page[c]) /\ req[c].stream \in Server(c).linked[e]
     THEN seen[c].events[e] + 1 ELSE seen[c].events[e]]]
TokenNow(c) == [stream |-> req[c].stream, cascade |-> WithPage(c)]

GetPage(c) ==
  /\ pc[c] = "event_defs"
  /\ ~LastPage(Server(c), page[c])
  /\ seen' = [seen EXCEPT ![c] = WithPage(c)]
  /\ page' = [page EXCEPT ![c] = @ + 1]
  /\ UNCHANGED <<world, shown, pc, req, phase, token, stable, edits>>

GotCascade(c) == pc[c] = "event_defs" /\ LastPage(Server(c), page[c])

\* Dry run: the preview returns the cascade and its token.
Preview(c) ==
  /\ GotCascade(c) /\ phase[c] = "build" /\ req[c].dryRun
  /\ shown' = shown \union {TokenNow(c)}
  /\ Finish(c, "preview")
  /\ UNCHANGED world

\* Mutant of ConfirmGate: a call without confirm is let through.
ConfirmOptional(c) ==
  /\ GotCascade(c) /\ phase[c] = "build" /\ ~req[c].dryRun
  /\ IF req[c].confirm \subseteq {TokenNow(c)}
     THEN /\ phase' = [phase EXCEPT ![c] = "apply"]
          /\ token' = [token EXCEPT ![c] = {TokenNow(c)}]
          /\ seen' = [seen EXCEPT ![c] = NothingRead]
          /\ page' = [page EXCEPT ![c] = 1]
          /\ pc' = [pc EXCEPT ![c] = "rules"]
          /\ stable' = [stable EXCEPT ![c] = DependentsOf(Server(c), req[c].stream)]
          /\ UNCHANGED <<req, edits>>
     ELSE Finish(c, "confirmation_mismatch")
  /\ UNCHANGED <<world, shown>>

\* requireConfirm: apply() never runs unless confirm is the token just derived.
ConfirmGate(c) ==
  /\ GotCascade(c) /\ phase[c] = "build" /\ ~req[c].dryRun
  /\ IF req[c].confirm = {TokenNow(c)}
     THEN /\ phase' = [phase EXCEPT ![c] = "apply"]
          /\ token' = [token EXCEPT ![c] = {TokenNow(c)}]
          /\ seen' = [seen EXCEPT ![c] = NothingRead]
          /\ page' = [page EXCEPT ![c] = 1]
          /\ pc' = [pc EXCEPT ![c] = "rules"]
          /\ stable' = [stable EXCEPT ![c] = DependentsOf(Server(c), req[c].stream)]
          /\ UNCHANGED <<req, edits>>
     ELSE Finish(c, "confirmation_mismatch")
  /\ UNCHANGED <<world, shown>>

\* Mutants of DriftCheck: the second cascade is not compared; a changed one is
\* read again instead of refused.
DriftIgnored(c) ==
  /\ GotCascade(c) /\ phase[c] = "apply"
  /\ pc' = [pc EXCEPT ![c] = "delete"]
  /\ seen' = [seen EXCEPT ![c] = WithPage(c)]
  /\ UNCHANGED <<world, shown, req, phase, page, token, stable, edits>>
DriftReread(c) ==
  /\ GotCascade(c) /\ phase[c] = "apply"
  /\ pc' = [pc EXCEPT ![c] = IF token[c] = {TokenNow(c)} THEN "delete" ELSE "rules"]
  /\ seen' = [seen EXCEPT ![c] = IF token[c] = {TokenNow(c)} THEN WithPage(c) ELSE NothingRead]
  /\ UNCHANGED <<world, shown, req, phase, page, token, stable, edits>>

\* apply(): refuse if the cascade has changed since build().
DriftCheck(c) ==
  /\ GotCascade(c) /\ phase[c] = "apply"
  /\ IF token[c] = {TokenNow(c)}
     THEN /\ pc' = [pc EXCEPT ![c] = "delete"]
          /\ seen' = [seen EXCEPT ![c] = WithPage(c)]
          /\ UNCHANGED <<req, phase, page, token, stable, edits>>
     ELSE Finish(c, "cascade_changed_since_preview")
  /\ UNCHANGED <<world, shown>>

\* The DELETE.  Graylog drops the stream with its rules and connections; the
\* response may be lost, and then the call reports a failure.
Delete(c) ==
  /\ pc[c] = "delete"
  /\ LET k == req[c].conn
         s == req[c].stream
     IN \/ /\ s \in world[k].alive
           /\ world' = [world EXCEPT ![k].alive = @ \ {s}, ![k].rules[s] = {}, ![k].pipes[s] = {}]
           /\ Finish(c, "deleted") \/ Finish(c, "delete_failed")
        \/ UNCHANGED world /\ Finish(c, "delete_failed")
  /\ UNCHANGED shown

-----------------------------------------------------------------------------
(* Other users of the Graylog servers *)

\* Server k becomes w.  Of what depended on a call's stream all along, what w
\* has dropped goes; when the listing of event definitions has moved up, so
\* does every event definition: the page walk may now miss one.
Edit(k, w, movedUp) ==
  /\ edits < MaxEdits
  /\ edits' = edits + 1
  /\ world' = [world EXCEPT ![k] = w]
  /\ stable' = [c \in Calls |->
       IF req[c].conn # k THEN stable[c]
       ELSE LET now == DependentsOf(w, req[c].stream)
            IN [rules  |-> stable[c].rules \intersect now.rules,
                pipes  |-> stable[c].pipes \intersect now.pipes,
                events |-> IF movedUp THEN {} ELSE stable[c].events \intersect now.events]]
  /\ UNCHANGED <<shown, calls>>

EditRules(k, s, r) ==
  /\ s \in world[k].alive \ Immutable   \* Graylog refuses to edit the rules of a built-in stream
  /\ Edit(k, [world[k] EXCEPT !.rules[s] = IF r \in @ THEN @ \ {r} ELSE @ \union {r}], FALSE)
EditPipelines(k, s, p) ==
  /\ s \in world[k].alive
  /\ Edit(k, [world[k] EXCEPT !.pipes[s] = IF p \in @ THEN @ \ {p} ELSE @ \union {p}], FALSE)

InsertAtPos(q, i, e) == [j \in 1..Len(q) + 1 |-> IF j < i THEN q[j] ELSE IF j = i THEN e ELSE q[j - 1]]
RemoveAtPos(q, i) == [j \in 1..Len(q) - 1 |-> IF j < i THEN q[j] ELSE q[j + 1]]

CreateEventDef(k, i, e, on) ==
  /\ e \notin Listed(world[k])
  /\ Edit(k, [world[k] EXCEPT !.defs = InsertAtPos(@, i, e), !.linked[e] = on], FALSE)
UpdateEventDef(k, i, on) ==
  Edit(k, [world[k] EXCEPT !.linked[world[k].defs[i]] = on], FALSE)
DeleteEventDef(k, i) ==
  Edit(k, [world[k] EXCEPT !.defs = RemoveAtPos(@, i)], TRUE)

-----------------------------------------------------------------------------
Step(c) == \/ RequestFails(c) \/ GetStream(c) \/ GetRules(c) \/ GetPipelines(c) \/ GetPage(c)
           \/ Preview(c) \/ ConfirmGate(c) \/ DriftCheck(c) \/ Delete(c)

Call(c) == \E k \in Conns, s \in Streams :
              \/ Start(c, k, s, TRUE, {})
              \/ Start(c, k, s, FALSE, {})
              \/ \E t \in shown : Start(c, k, s, FALSE, {t})

OtherUsers == \E k \in Shared :
  \/ \E s \in Streams, r \in Rules : EditRules(k, s, r)
  \/ \E s \in Streams, p \in Pipelines : EditPipelines(k, s, p)
  \/ \E e \in EventDefs, on \in SUBSET Streams, i \in 1..Len(world[k].defs) + 1 :
        CreateEventDef(k, i, e, on)
  \/ \E i \in 1..Len(world[k].defs) :
        \/ \E on \in SUBSET Streams : UpdateEventDef(k, i, on)
        \/ DeleteEventDef(k, i)

Next == \/ \E c \in Calls : Call(c) \/ Step(c)
        \/ OtherUsers

Spec == Init /\ [][Next]_vars
\* Every request is answered, fails, or times out after 60 s (client.js), and
\* the code behind it then runs.
FairSpec == Spec /\ \A c \in Calls : WF_vars(Step(c))

-----------------------------------------------------------------------------
(* Properties *)

\* When a call is about to send the DELETE, the cascade the agent confirmed
\* holds every rule, pipeline connection and event definition that has
\* depended on the stream ever since apply() began, whatever other users do
\* between the reads (buildCascade, apply).  Event definitions are excused when
\* one was deleted meanwhile, which moves the rest up past the page walk, and
\* when there are more than the walk's cap lets it see.
NothingStableMissed ==
  \A c \in Calls : pc[c] = "delete" =>
    \A t \in req[c].confirm :
      /\ stable[c].rules \subseteq t.cascade.rules
      /\ stable[c].pipes \subseteq t.cascade.pipes
      /\ \A e \in stable[c].events : t.cascade.events[e] > 0

\* Only a call that echoed a token some preview returned, a token that names
\* the stream and that both of the call's own cascade reads reproduced, may
\* send the DELETE (requireConfirm, and the drift check in apply).
DeleteIsConfirmed ==
  \A c \in Calls : pc[c] = "delete" =>
    /\ req[c].conn \in Writable /\ req[c].stream \notin Immutable /\ ~req[c].dryRun
    /\ req[c].confirm = {[stream |-> req[c].stream, cascade |-> seen[c]]}
    /\ req[c].confirm \subseteq shown

\* delete_stream implements the promise of the confirmed destructive tools.
Abstract == INSTANCE ConfirmedDelete WITH
  Targets  <- Conns \X Streams,
  TokensOf <- [x \in Conns \X Streams |-> {t \in Token : t.stream = x[2]}],
  alive    <- {x \in Conns \X Streams : x[2] \in world[x[1]].alive},
  armed    <- [c \in Calls |-> IF pc[c] = "delete"
                 THEN {<<<<req[c].conn, req[c].stream>>, t>> : t \in req[c].confirm} ELSE {}]
ImplementsConfirmedDelete == Abstract!Spec

\* Every call returns: the walk ends whatever others do to the listing.
CallsReturn == \A c \in Calls : pc[c] # "idle" ~> pc[c] \in Ended

\* What docs/ARCHITECTURE.md:291 calls structurally impossible is a stream
\* deleted in a state its agent never reviewed: whatever depends on a stream
\* as it is deleted is in the cascade the agent confirmed.
NoUnreviewedApply ==
  [][\A c \in Calls, k \in Conns, s \in Streams :
       (Delete(c) /\ s \in world[k].alive /\ s \notin world'[k].alive) =>
         \A t \in req[c].confirm :
           /\ world[k].rules[s] \subseteq t.cascade.rules
           /\ world[k].pipes[s] \subseteq t.cascade.pipes
           /\ \A e \in DependentsOf(world[k], s).events : t.cascade.events[e] > 0]_vars
=============================================================================
