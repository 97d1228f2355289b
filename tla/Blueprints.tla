------------------------------ MODULE Blueprints ------------------------------
(***************************************************************************)
(* The blueprints (tools/blueprints) and the two tools that maintain what  *)
(* most of them end in, a stream's pipeline connections                    *)
(* (tools/pipelines/connect-pipelines-to-stream.js and                     *)
(* disconnect-pipelines-from-stream.js).                                   *)
(*                                                                         *)
(* A blueprint is a chain of requests fixed by its arguments; executeChain *)
(* (tools/_shared/blueprint-chain.js) sends them one after the other, puts *)
(* the ids of earlier answers into later requests, and stops at the first  *)
(* failure without undoing anything.  setup_app_monitoring_stack has a     *)
(* walker of its own whose fifth step is two requests.  Connecting and     *)
(* disconnecting read the stream's connections and write them back.        *)
(*                                                                         *)
(* A request is one atomic step of the Graylog server; it may fail, or be  *)
(* carried out and its answer lost (timeout).  An object stands for the    *)
(* call's arguments and the request that made it, which fix its title.     *)
(* The connection to Graylog is a writable one; no tool here has a token.  *)
(***************************************************************************)
EXTENDS Integers, Sequences, FiniteSets

CONSTANTS Slots,       \* tool calls that may be in flight together
          Operations,  \* the arguments agents call the tools with
          Starts,      \* the pipeline connections the server may begin with
          FirstId,     \* the first id it will assign: those below are in use
          MaxCalls,    \* bound: calls made
          MaxMissing,  \* bound: answers of one chain that lack the expected field
          MaxEdits     \* bound: changes made by other users

Id == Nat \ {0}
Missing == 0   \* what a field the server left out reads as

Blueprint == {"setup_app_monitoring_stack", "setup_pipeline_for_stream", "setup_debug_log_dropping",
              "create_app_health_dashboard", "setup_error_alerting", "setup_long_term_archival_index"}
Connecting == {"connect_pipelines_to_stream", "disconnect_pipelines_from_stream"}
\* transforms and pipelines are idle in the tools that do not take them.
Operation == [tool : Blueprint \union Connecting, stream : Id, transforms : 1..20, pipelines : SUBSET Id]
Kinds  == {"stream", "rule", "pipeline", "connection", "search", "view", "event_definition", "index_set"}
Fields == {"id", "stream_id", "none"}
Connection == [stream : Id, pipelines : SUBSET Id]

ASSUME OperationsAssumption == Operations \subseteq Operation /\ Operations # {}
ASSUME StartsAssumption == \A s \in Starts : s \subseteq Connection
ASSUME FirstIdAssumption == FirstId \in Id
ASSUME UnusedAssumption == \A s \in Starts : \A r \in s : \A p \in r.pipelines : p < FirstId
ASSUME BoundsAssumption == MaxCalls \in Nat /\ MaxMissing \in Nat /\ MaxEdits \in Nat

-----------------------------------------------------------------------------
(* The chains *)

\* dependsOn: the answer to request number at, and the field taken from it.
\* checked: an absent field stops the chain.
Needs(at, field, checked) == [at |-> at, field |-> field, checked |-> checked]
Ask(step, kind, deps) == [step |-> step, kind |-> kind, deps |-> deps]

\* createRule for each transform, createPipeline naming the rules by title,
\* connectToStream with the new pipeline's id.
PipelineChain(n) ==
  [k \in 1..n |-> Ask(k, "rule", {})]
    \o <<Ask(n + 1, "pipeline", {}), Ask(n + 2, "connection", {Needs(n + 1, "id", TRUE)})>>

\* Mutant of MonitoringChain: step 4 takes the rule's id for the pipeline's.
MonitoringOffByOne ==
  LET stream == Needs(1, "stream_id", TRUE)
  IN <<Ask(1, "stream", {}), Ask(2, "rule", {}), Ask(3, "pipeline", {}),
       Ask(4, "connection", {stream, Needs(2, "id", TRUE)}),
       Ask(5, "search", {stream}), Ask(5, "view", {stream, Needs(5, "id", FALSE)}),
       Ask(6, "event_definition", {stream})>>
\* POST /api/streams answers with stream_id, everything else with id.  Step 5
\* is two requests, and the search's id goes into the view unchecked.
MonitoringChain ==
  LET stream == Needs(1, "stream_id", TRUE)
  IN <<Ask(1, "stream", {}), Ask(2, "rule", {}), Ask(3, "pipeline", {}),
       Ask(4, "connection", {stream, Needs(3, "id", TRUE)}),
       Ask(5, "search", {stream}), Ask(5, "view", {stream, Needs(5, "id", FALSE)}),
       Ask(6, "event_definition", {stream})>>

Chain(op) ==
  CASE op.tool = "setup_app_monitoring_stack"     -> MonitoringChain
    [] op.tool = "setup_pipeline_for_stream"      -> PipelineChain(op.transforms)
    [] op.tool = "setup_debug_log_dropping"       -> PipelineChain(1)
    [] op.tool = "create_app_health_dashboard"    ->
         <<Ask(1, "search", {}), Ask(2, "view", {Needs(1, "id", TRUE)})>>
    [] op.tool = "setup_error_alerting"           -> <<Ask(1, "event_definition", {})>>
    [] op.tool = "setup_long_term_archival_index" -> <<Ask(1, "index_set", {})>>

Longest == 22   \* 20 transforms, the pipeline, its connection
\* at: which request of the chain made it; refs: the ids in its body
Object == [id : Id, op : Operations, at : 1..Longest, refs : SUBSET Id]
Answer == [field : Fields, id : Nat]

-----------------------------------------------------------------------------
VARIABLES
  objects,    \* what blueprints have made on the server
  conn,       \* the server's pipeline connections, at most one per stream
  nextId,     \* the next id it assigns
  pc,         \* what a call does next, or how it ended
  op,         \* its arguments
  dryRun,
  answers,    \* a blueprint's transcript: the answers so far
  succeeded,  \* the requests it finally reported to have succeeded
  body,       \* the pipeline ids a connecting call is about to write
  raced,      \* history: its stream's connections have changed since it read them
  made,       \* history: the requests of the chain the server carried out
  settled,    \* history: the arguments that some call has applied with success
  ncalls, edits

calls == <<pc, op, dryRun, answers, succeeded, body, made>>
vars  == <<objects, conn, nextId, calls, raced, settled, ncalls, edits>>

Ended == {"previewed", "done", "failed", "partial_failure", "unresolved_dependency"}

TypeOK ==
  /\ objects \in SUBSET Object
  /\ conn \in SUBSET Connection
  /\ nextId \in Id
  /\ pc \in [Slots -> {"idle", "read", "write", "chain"} \union Ended]
  /\ op \in [Slots -> Operations]
  /\ dryRun \in [Slots -> BOOLEAN]
  /\ answers \in [Slots -> Seq(Answer)]
  /\ succeeded \in [Slots -> SUBSET (1..Longest)]
  /\ body \in [Slots -> SUBSET Id]
  /\ raced \in [Slots -> BOOLEAN]
  /\ made \in [Slots -> SUBSET (1..Longest)]
  /\ settled \in SUBSET Operations
  /\ ncalls \in 0..MaxCalls
  /\ edits \in 0..MaxEdits

Init ==
  /\ objects = {}
  /\ conn \in Starts
  /\ nextId = FirstId
  /\ pc = [c \in Slots |-> "idle"]
  /\ op = [c \in Slots |-> CHOOSE o \in Operations : TRUE]
  /\ dryRun = [c \in Slots |-> TRUE]
  /\ answers = [c \in Slots |-> <<>>]
  /\ succeeded = [c \in Slots |-> {}]
  /\ body = [c \in Slots |-> {}]
  /\ raced = [c \in Slots |-> FALSE]
  /\ made = [c \in Slots |-> {}]
  /\ settled = {}
  /\ ncalls = 0
  /\ edits = 0

\* {the set of pipelines connected to stream s}, or {} without a record (404).
Record(s) == {r.pipelines : r \in {x \in conn : x.stream = s}}
Connected(s) == UNION Record(s)
\* POST /api/system/pipelines/connections/to_stream replaces the whole set.
Replace(s, pipelines) ==
  {r \in conn : r.stream # s} \union {[stream |-> s, pipelines |-> pipelines]}
\* Connections become cn at the hand of c: which calls have read a stale set.
Overtaken(cn, c) ==
  [d \in Slots |-> raced[d] \/ (d # c /\ pc[d] = "write" /\ cn # conn
                                  /\ {r \in cn : r.stream = op[d].stream} # {r \in conn : r.stream = op[d].stream})]

-----------------------------------------------------------------------------
(* A call *)

\* No blueprint asks the server anything before it applies: a preview only
\* shows the chain.
Start(c, o, dry) ==
  /\ pc[c] \in {"idle"} \union Ended
  /\ ncalls < MaxCalls /\ ncalls' = ncalls + 1
  /\ op' = [op EXCEPT ![c] = o]
  /\ dryRun' = [dryRun EXCEPT ![c] = dry]
  /\ pc' = [pc EXCEPT ![c] = IF o.tool \in Connecting THEN "read" ELSE IF dry THEN "previewed" ELSE "chain"]
  /\ answers' = [answers EXCEPT ![c] = <<>>]
  /\ succeeded' = [succeeded EXCEPT ![c] = {}]
  /\ made' = [made EXCEPT ![c] = {}]
  /\ body' = [body EXCEPT ![c] = {}]
  /\ raced' = [raced EXCEPT ![c] = FALSE]
  /\ UNCHANGED <<objects, conn, nextId, settled, edits>>

Ends(c, how) ==
  /\ pc' = [pc EXCEPT ![c] = how]
  /\ settled' = settled \union (IF how = "done" THEN {op[c]} ELSE {})

(* Blueprints: executeChain, and the monitoring stack's own walker. *)

Asked(c) == Chain(op[c])[Len(answers[c]) + 1]
\* resolveFieldPath, resolveDottedPath
Resolved(c, d) == answers[c][d.at].field = d.field
Value(c, d) == IF Resolved(c, d) THEN answers[c][d.at].id ELSE Missing
Values(c) == {Value(c, d) : d \in Asked(c).deps}
\* Mutant of CanSend: a missing field goes into the request as it is.
SendAnyway(c) == pc[c] = "chain"
CanSend(c) == pc[c] = "chain" /\ \A d \in Asked(c).deps : d.checked => Resolved(c, d)

\* The transcript's entries without an error: those of earlier steps.
SucceededSteps(c) == {k \in 1..Len(answers[c]) : Chain(op[c])[k].step < Asked(c).step}
Report(c, how) ==
  /\ Ends(c, how)
  /\ succeeded' = [succeeded EXCEPT ![c] = SucceededSteps(c)]
  /\ UNCHANGED <<op, dryRun, answers, body, ncalls, edits>>

Unresolved(c) ==
  /\ pc[c] = "chain" /\ \E d \in Asked(c).deps : d.checked /\ ~Resolved(c, d)
  /\ Report(c, "unresolved_dependency")
  /\ UNCHANGED <<objects, conn, nextId, raced, made>>

\* What the server does with a request: it replaces a stream's connections, or
\* makes an object.  Graylog refuses a view that names no search.
ChainStream(c) == IF op[c].tool = "setup_app_monitoring_stack" THEN answers[c][1].id ELSE op[c].stream
Connects(c) ==
  /\ Asked(c).kind = "connection"
  /\ LET cn == Replace(ChainStream(c), Values(c) \ {ChainStream(c)})
     IN conn' = cn /\ raced' = Overtaken(cn, c)
  /\ UNCHANGED objects
Creates(c) ==
  /\ Asked(c).kind # "connection"
  /\ Asked(c).kind = "view" => \A d \in Asked(c).deps : Resolved(c, d)
  /\ objects' = objects \union {[id |-> nextId, op |-> op[c], at |-> Len(answers[c]) + 1, refs |-> Values(c)]}
  /\ UNCHANGED <<conn, raced>>
Carried(c) ==
  /\ Connects(c) \/ Creates(c)
  /\ nextId' = nextId + 1
  /\ made' = [made EXCEPT ![c] = @ \union {Len(answers[c]) + 1}]
NotCarried == UNCHANGED <<objects, conn, nextId, raced, made>>

Field(kind) == IF kind = "stream" THEN "stream_id" ELSE "id"

\* The next request succeeds.  Its answer may lack the expected field.
Answered(c) ==
  /\ CanSend(c)
  /\ Carried(c)
  /\ \/ answers' = [answers EXCEPT ![c] = Append(@, [field |-> Field(Asked(c).kind), id |-> nextId])]
     \/ /\ Cardinality({k \in 1..Len(answers[c]) : answers[c][k].field = "none"}) < MaxMissing
        /\ answers' = [answers EXCEPT ![c] = Append(@, [field |-> "none", id |-> Missing])]
  /\ IF Len(answers[c]) + 1 = Len(Chain(op[c]))
     THEN Ends(c, "done") /\ succeeded' = [succeeded EXCEPT ![c] = 1..Len(Chain(op[c]))]
     ELSE UNCHANGED <<pc, settled, succeeded>>
  /\ UNCHANGED <<op, dryRun, body, ncalls, edits>>

\* Mutant of ChainFails: the request that failed counts as succeeded.
FailedCounts(c) ==
  /\ CanSend(c)
  /\ Carried(c) \/ NotCarried
  /\ Ends(c, "partial_failure")
  /\ succeeded' = [succeeded EXCEPT ![c] = 1..(Len(answers[c]) + 1)]
  /\ UNCHANGED <<op, dryRun, answers, body, ncalls, edits>>
\* A failed request ends the chain.  It may have been carried out.
ChainFails(c) ==
  /\ CanSend(c)
  /\ Carried(c) \/ NotCarried
  /\ Report(c, "partial_failure")

(* connect_pipelines_to_stream and disconnect_pipelines_from_stream *)

\* Mutant of Wanted: the naive replacement that the tool exists to avoid.
WantedOnly(o, current) ==
  IF o.tool = "connect_pipelines_to_stream" THEN o.pipelines ELSE current \ o.pipelines
Wanted(o, current) ==
  IF o.tool = "connect_pipelines_to_stream" THEN current \union o.pipelines ELSE current \ o.pipelines

\* build(): GET the connections, merge or subtract.  404 counts as none; any
\* other failure ends the call.  A disconnect that found no record writes
\* nothing.
ReadConnections(c) ==
  /\ pc[c] = "read"
  /\ LET current == Connected(op[c].stream)
         wanted  == Wanted(op[c], current)
         noop    == op[c].tool = "disconnect_pipelines_from_stream" /\ Record(op[c].stream) = {}
     IN \/ Ends(c, "failed") /\ UNCHANGED body
        \/ dryRun[c] /\ Ends(c, "previewed") /\ UNCHANGED body
        \/ ~dryRun[c] /\ noop /\ Ends(c, "done") /\ UNCHANGED body
        \/ /\ ~dryRun[c] /\ ~noop
           /\ pc' = [pc EXCEPT ![c] = "write"]
           /\ body' = [body EXCEPT ![c] = wanted]
           /\ UNCHANGED settled
  /\ UNCHANGED <<objects, conn, nextId, op, dryRun, answers, succeeded, made, raced, ncalls, edits>>

WriteConnections(c) ==
  /\ pc[c] = "write"
  /\ LET cn == Replace(op[c].stream, body[c])
     IN \/ /\ conn' = cn /\ raced' = Overtaken(cn, c)
           /\ Ends(c, "done") \/ Ends(c, "failed")
        \/ Ends(c, "failed") /\ UNCHANGED <<conn, raced>>
  /\ UNCHANGED <<objects, nextId, op, dryRun, answers, succeeded, body, made, ncalls, edits>>

-----------------------------------------------------------------------------
\* Another user of Graylog connects or disconnects a pipeline.
Reconnect(s, p) ==
  /\ edits < MaxEdits /\ edits' = edits + 1
  /\ LET cn == Replace(s, IF p \in Connected(s) THEN Connected(s) \ {p} ELSE Connected(s) \union {p})
     IN /\ conn' = cn
        /\ raced' = [c \in Slots |-> raced[c] \/ (pc[c] = "write" /\ op[c].stream = s)]
  /\ UNCHANGED <<objects, nextId, calls, settled, ncalls>>

\* An agent applies a blueprint again only after it has failed.
Call(c) == \E o \in Operations, dry \in BOOLEAN :
  /\ o.tool \in Blueprint /\ ~dry => o \notin settled /\ \A d \in Slots : pc[d] = "chain" => op[d] # o
  /\ Start(c, o, dry)

Step(c) == \/ pc[c] = "chain" /\ (Unresolved(c) \/ Answered(c) \/ ChainFails(c))
           \/ ReadConnections(c) \/ WriteConnections(c)

Next == \/ \E c \in Slots : Call(c) \/ Step(c)
        \/ \E o \in Operations : \E p \in o.pipelines : Reconnect(o.stream, p)

Spec == Init /\ [][Next]_vars

-----------------------------------------------------------------------------
(* Properties *)

Kind(o) == Chain(o.op)[o.at].kind
Made(o, k) == {x \in objects : x.op = o /\ x.at = k}

\* x refers only to objects the same chain made before it, and to all that its
\* chain says; a pipeline comes after every rule it names.
WellMade(x) ==
  /\ \A d \in Chain(x.op)[x.at].deps : \E y \in Made(x.op, d.at) : y.id \in x.refs /\ y.id < x.id
  /\ Cardinality(x.refs) = Cardinality(Chain(x.op)[x.at].deps)
  /\ Kind(x) = "pipeline" =>
       \A k \in 1..(x.at - 1) : Chain(x.op)[k].kind = "rule" => \E y \in Made(x.op, k) : y.id < x.id

\* The ids agents name, and other users with them.
Named == UNION {o.pipelines : o \in Operations}

\* If p is new and named by nobody, a blueprint made it, as a pipeline for s.
MadeFor(p, s) ==
  p >= FirstId /\ p \notin Named =>
    \E x \in objects :
      /\ x.id = p /\ Kind(x) = "pipeline"
      /\ IF x.op.tool = "setup_app_monitoring_stack"
         THEN \E y \in Made(x.op, 1) : y.id = s
         ELSE s = x.op.stream

\* However calls are interleaved and wherever they stop, nothing is wired to the
\* wrong thing: every object refers to what its chain says, made before it; and
\* of what blueprints make only pipelines are ever connected, to the stream the
\* agent named or the chain itself made.
WiredTogether ==
  /\ \A x \in objects : WellMade(x)
  /\ \A r \in conn : \A p \in r.pipelines : MadeFor(p, r.stream)

\* The report a blueprint ends with accounts for what it left on the server:
\* every request it calls succeeded was carried out, every request that was
\* carried out is reported or belongs to the step that failed, and only a
\* complete chain ends without a failure.
ReportAccounts ==
  \A c \in Slots : pc[c] \in {"done", "partial_failure", "unresolved_dependency"} /\ op[c].tool \in Blueprint =>
    /\ succeeded[c] \subseteq made[c]
    /\ \A k \in made[c] \ succeeded[c] : pc[c] # "done" /\ Chain(op[c])[k].step = Asked(c).step
    /\ pc[c] = "done" => made[c] = 1..Len(Chain(op[c]))

\* connect_pipelines_to_stream only adds the pipelines it is asked to, and
\* disconnect_pipelines_from_stream only takes them away and makes no record,
\* unless the stream's connections changed after the call read them.
OnlyAsAsked ==
  [][\A c \in Slots : pc[c] = "write" /\ pc'[c] # "write" /\ ~raced[c] =>
       LET s   == op[c].stream
           now == UNION {r.pipelines : r \in {x \in conn' : x.stream = s}}
       IN IF op[c].tool = "connect_pipelines_to_stream"
          THEN Connected(s) \subseteq now /\ now \subseteq Connected(s) \union op[c].pipelines
          ELSE /\ now \subseteq Connected(s) /\ Connected(s) \subseteq now \union op[c].pipelines
               /\ Record(s) = {} => conn' = conn]_vars

\* services/pipelines.js:50-54 has callers send the final list, since the
\* endpoint replaces it: a blueprint that connects its pipeline to the agent's
\* stream leaves the pipelines that were connected to it connected.
BlueprintKeepsConnections ==
  [][\A c \in Slots : pc[c] = "chain" /\ made'[c] # made[c] /\ Asked(c).kind = "connection" =>
       Connected(ChainStream(c)) \subseteq
         UNION {r.pipelines : r \in {x \in conn' : x.stream = ChainStream(c)}}]_vars

\* blueprint-chain.js:31-33: "retries converge"; repeating a blueprint that
\* failed leaves no object twice.
RetriesConverge == \A x, y \in objects : x.op = y.op /\ x.at = y.at => x = y
=============================================================================
