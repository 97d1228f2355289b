--------------------------- MODULE Blueprints_proofs ---------------------------
(***************************************************************************)
(* Proofs about Blueprints, for any number of calls, blueprints and        *)
(* transforms, and whatever the server answers.                            *)
(***************************************************************************)
EXTENDS Blueprints, SequenceTheorems, FiniteSetTheorems, TLAPS

USE OperationsAssumption, StartsAssumption, FirstIdAssumption, BoundsAssumption

-----------------------------------------------------------------------------
(* The shape of a chain *)

Dep == [at : Nat, field : {"id", "stream_id"}, checked : BOOLEAN]
Asking == [step : Nat, kind : Kinds, deps : SUBSET Dep]

\* A chain is short, its steps are in order, its requests depend on earlier
\* ones only, and only a view may go without a field.
Shaped(s) ==
  /\ s \in Seq(Asking) /\ Len(s) \in 1..Longest
  /\ \A j, k \in 1..Len(s) : j <= k => s[j].step <= s[k].step
  /\ \A k \in 1..Len(s) : \A d \in s[k].deps : d.at \in 1..(k - 1) /\ (s[k].kind # "view" => d.checked)

LEMMA PipelineRequests ==
  ASSUME NEW n \in 1..20
  PROVE  /\ PipelineChain(n) \in Seq(Asking) /\ Len(PipelineChain(n)) = n + 2
         /\ \A k \in 1..n : PipelineChain(n)[k] = Ask(k, "rule", {})
         /\ PipelineChain(n)[n + 1] = Ask(n + 1, "pipeline", {})
         /\ PipelineChain(n)[n + 2] = Ask(n + 2, "connection", {Needs(n + 1, "id", TRUE)})
<1> DEFINE rules == [k \in 1..n |-> Ask(k, "rule", {})]
           last  == <<Ask(n + 1, "pipeline", {}), Ask(n + 2, "connection", {Needs(n + 1, "id", TRUE)})>>
<1>1. rules \in Seq(Asking) /\ Len(rules) = n
  <2>1. \A k \in 1..n : Ask(k, "rule", {}) \in Asking
    BY DEF Ask, Asking, Kinds
  <2>2. rules \in [1..n -> Asking]
    BY <2>1
  <2> QED
    BY <2>2
<1>2. last \in Seq(Asking) /\ Len(last) = 2
  BY DEF Ask, Needs, Asking, Dep, Kinds
<1>3. /\ \A k \in 1..n : rules[k] = Ask(k, "rule", {})
      /\ last[1] = Ask(n + 1, "pipeline", {})
      /\ last[2] = Ask(n + 2, "connection", {Needs(n + 1, "id", TRUE)})
      /\ PipelineChain(n) = rules \o last
  BY DEF PipelineChain
<1> HIDE DEF rules, last
<1> QED
  <2>1. /\ rules \o last \in Seq(Asking) /\ Len(rules \o last) = n + 2
        /\ \A k \in 1..(n + 2) : (rules \o last)[k] = IF k <= n THEN rules[k] ELSE last[k - n]
    <3>1. /\ rules \o last \in Seq(Asking) /\ Len(rules \o last) = Len(rules) + Len(last)
          /\ \A k \in 1..(Len(rules) + Len(last)) :
               (rules \o last)[k] = IF k <= Len(rules) THEN rules[k] ELSE last[k - Len(rules)]
      BY <1>1, <1>2, ConcatProperties
    <3> QED
      BY <1>1, <1>2, <3>1
  <2>2. (rules \o last)[n + 1] = last[1] /\ (rules \o last)[n + 2] = last[2]
    <3>1. n + 1 \in 1..(n + 2) /\ n + 2 \in 1..(n + 2) /\ (n + 1) - n = 1 /\ (n + 2) - n = 2
      OBVIOUS
    <3> QED
      BY <2>1, <3>1
  <2> QED
    BY <1>3, <2>1, <2>2

LEMMA PipelineShaped ==
  ASSUME NEW n \in 1..20
  PROVE  Shaped(PipelineChain(n))
<1>1. /\ PipelineChain(n) \in Seq(Asking) /\ Len(PipelineChain(n)) = n + 2
      /\ \A k \in 1..n : PipelineChain(n)[k] = Ask(k, "rule", {})
      /\ PipelineChain(n)[n + 1] = Ask(n + 1, "pipeline", {})
      /\ PipelineChain(n)[n + 2] = Ask(n + 2, "connection", {Needs(n + 1, "id", TRUE)})
  BY PipelineRequests
<1>2. \A k \in 1..(n + 2) : /\ PipelineChain(n)[k].step = k
                            /\ \A d \in PipelineChain(n)[k].deps : d.at \in 1..(k - 1) /\ d.checked
  <2> TAKE k \in 1..(n + 2)
  <2>1. k \in 1..n \/ k = n + 1 \/ k = n + 2
    OBVIOUS
  <2>2. CASE k \in 1..n
    <3>0. PipelineChain(n)[k] = Ask(k, "rule", {})
      BY <1>1, <2>2
    <3>1. PipelineChain(n)[k].step = k /\ PipelineChain(n)[k].deps = {}
      BY <3>0 DEF Ask
    <3> QED
      BY <3>1
  <2>3. CASE k = n + 1
    BY <1>1, <2>3 DEF Ask
  <2>4. CASE k = n + 2
    BY <1>1, <2>4 DEF Ask, Needs
  <2> QED
    BY <2>1, <2>2, <2>3, <2>4
<1> QED
  BY <1>1, <1>2 DEF Shaped, Longest

LEMMA MonitoringShaped == Shaped(MonitoringChain)
<1> DEFINE s == MonitoringChain
<1>1. s \in Seq(Asking) /\ Len(s) = 7
  BY DEF MonitoringChain, Ask, Needs, Asking, Dep, Kinds
<1>2. /\ s[1].step = 1 /\ s[2].step = 2 /\ s[3].step = 3 /\ s[4].step = 4 /\ s[5].step = 5
      /\ s[6].step = 5 /\ s[7].step = 6
  BY DEF MonitoringChain, Ask
<1>3. \A j, k \in 1..7 : j <= k => s[j].step <= s[k].step
  <2> HIDE DEF s
  <2> QED
    BY <1>2
<1>4. \A k \in 1..7 : \A d \in s[k].deps : d.at \in 1..(k - 1) /\ (s[k].kind # "view" => d.checked)
  <2>1. /\ s[1].deps = {} /\ s[2].deps = {} /\ s[3].deps = {}
        /\ \A d \in s[4].deps : d.at \in {1, 3} /\ d.checked
        /\ \A d \in s[5].deps : d.at = 1 /\ d.checked
        /\ \A d \in s[6].deps : d.at \in {1, 5}
        /\ s[6].kind = "view"
        /\ \A d \in s[7].deps : d.at = 1 /\ d.checked
    BY DEF MonitoringChain, Ask, Needs
  <2> HIDE DEF s
  <2> QED
    BY <2>1
<1> QED
  BY <1>1, <1>3, <1>4 DEF Shaped, Longest

LEMMA ChainShaped ==
  ASSUME NEW o \in Operation, o.tool \in Blueprint
  PROVE  Shaped(Chain(o))
<1>0. o.transforms \in 1..20
  BY DEF Operation
<1>1. CASE o.tool = "setup_app_monitoring_stack"
  BY <1>1, MonitoringShaped DEF Chain
<1>2. CASE o.tool = "setup_pipeline_for_stream"
  BY <1>0, <1>2, PipelineShaped DEF Chain
<1>3. CASE o.tool = "setup_debug_log_dropping"
  BY <1>3, PipelineShaped DEF Chain
<1>4. CASE o.tool = "create_app_health_dashboard"
  <2>1. Chain(o) = <<Ask(1, "search", {}), Ask(2, "view", {Needs(1, "id", TRUE)})>>
    BY <1>4 DEF Chain
  <2> QED
    BY <2>1 DEF Shaped, Ask, Needs, Asking, Dep, Kinds, Longest
<1>5. CASE o.tool = "setup_error_alerting"
  <2>1. Chain(o) = <<Ask(1, "event_definition", {})>>
    BY <1>5 DEF Chain
  <2> QED
    BY <2>1 DEF Shaped, Ask, Asking, Kinds, Longest
<1>6. CASE o.tool = "setup_long_term_archival_index"
  <2>1. Chain(o) = <<Ask(1, "index_set", {})>>
    BY <1>6 DEF Chain
  <2> QED
    BY <2>1 DEF Shaped, Ask, Asking, Kinds, Longest
<1> QED
  BY <1>1, <1>2, <1>3, <1>4, <1>5, <1>6 DEF Blueprint

LEMMA MonitoringConnects ==
  ASSUME NEW k \in 1..Len(MonitoringChain), MonitoringChain[k].kind = "connection"
  PROVE  Needs(1, "stream_id", TRUE) \in MonitoringChain[k].deps
<1> DEFINE s == MonitoringChain
<1>1. Len(s) = 7 /\ Needs(1, "stream_id", TRUE) \in s[4].deps
  BY DEF MonitoringChain, Ask
<1>2. /\ s[1].kind # "connection" /\ s[2].kind # "connection" /\ s[3].kind # "connection"
      /\ s[5].kind # "connection" /\ s[6].kind # "connection" /\ s[7].kind # "connection"
  BY DEF MonitoringChain, Ask
<1>3. \A j \in 1..7 : s[j].kind = "connection" => Needs(1, "stream_id", TRUE) \in s[j].deps
  <2> HIDE DEF s
  <2> TAKE j \in 1..7
  <2>1. j = 1 \/ j = 2 \/ j = 3 \/ j = 4 \/ j = 5 \/ j = 6 \/ j = 7
    OBVIOUS
  <2> QED
    BY <1>1, <1>2, <2>1, Zenon
<1> QED
  BY <1>1, <1>3

-----------------------------------------------------------------------------
(***************************************************************************)
(* The inductive invariant: where a call is in its chain, what the server  *)
(* has carried out of it, and what it has reported.                        *)
(***************************************************************************)
Failed == {"partial_failure", "unresolved_dependency"}

CallOK(c) ==
  /\ pc[c] \in {"read", "write"} => op[c].tool \in Connecting
  /\ pc[c] \in {"chain"} \union Failed => op[c].tool \in Blueprint /\ Len(answers[c]) < Len(Chain(op[c]))
  /\ pc[c] = "chain" => made[c] = 1..Len(answers[c])
  /\ pc[c] \in Failed => /\ made[c] \in {1..Len(answers[c]), 1..(Len(answers[c]) + 1)}
                         /\ succeeded[c] = SucceededSteps(c)
  /\ pc[c] = "done" /\ op[c].tool \in Blueprint =>
       made[c] = 1..Len(Chain(op[c])) /\ succeeded[c] = 1..Len(Chain(op[c]))
  /\ \A k \in 1..Len(answers[c]) : answers[c][k].field # "none" => answers[c][k].id \in Id

Inv == TypeOK /\ \A c \in Slots : CallOK(c)

\* A call whose own state does not change.
LEMMA CallKept ==
  ASSUME NEW c \in Slots, CallOK(c), pc'[c] = pc[c], op'[c] = op[c], answers'[c] = answers[c],
         made'[c] = made[c], succeeded'[c] = succeeded[c]
  PROVE  CallOK(c)'
  BY DEF CallOK, SucceededSteps, Asked

\* The request a chain is about to send.
LEMMA AskedType ==
  ASSUME Inv, NEW c \in Slots, pc[c] = "chain"
  PROVE  /\ op[c] \in Operations /\ op[c] \in Operation /\ op[c].tool \in Blueprint /\ answers[c] \in Seq(Answer)
         /\ Shaped(Chain(op[c]))
         /\ Len(answers[c]) \in Nat /\ Len(answers[c]) + 1 \in 1..Len(Chain(op[c])) /\ Len(answers[c]) + 1 \in 1..Longest
         /\ Asked(c) \in Asking
         /\ \A d \in Asked(c).deps : d.at \in 1..Len(answers[c]) /\ (Asked(c).kind # "view" => d.checked)
<1>1. op[c] \in Operation /\ op[c].tool \in Blueprint /\ answers[c] \in Seq(Answer)
      /\ Len(answers[c]) < Len(Chain(op[c])) /\ op[c] \in Operations
  BY DEF Inv, TypeOK, CallOK
<1>2. Shaped(Chain(op[c]))
  BY <1>1, ChainShaped
<1>3. Len(answers[c]) \in Nat /\ Len(answers[c]) + 1 \in 1..Len(Chain(op[c])) /\ Len(answers[c]) + 1 \in 1..Longest
  <2> DEFINE n == Len(answers[c])
             l == Len(Chain(op[c]))
  <2>1. n \in Nat
    BY <1>1, LenProperties
  <2>2. l \in 1..22
    BY <1>2 DEF Shaped, Longest
  <2>3. n < l
    BY <1>1
  <2> HIDE DEF n, l
  <2>4. n \in Nat /\ n + 1 \in 1..l /\ n + 1 \in 1..22
    BY <2>1, <2>2, <2>3
  <2> QED
    BY <2>4 DEF n, l, Longest
<1>4. Asked(c) \in Asking
  BY <1>2, <1>3 DEF Shaped, Asked
<1> QED
  BY <1>1, <1>2, <1>3, <1>4 DEF Shaped, Asked

LEMMA ValueType ==
  ASSUME Inv, NEW c \in Slots, pc[c] = "chain", NEW d \in Asked(c).deps, Resolved(c, d)
  PROVE  Value(c, d) \in Id
<1>1. d \in Dep /\ d.at \in 1..Len(answers[c])
  BY AskedType DEF Asking
<1>2. answers[c][d.at].field # "none"
  BY <1>1 DEF Resolved, Dep
<1> QED
  BY <1>1, <1>2 DEF Inv, CallOK, Value

LEMMA CarriedType ==
  ASSUME Inv, NEW c \in Slots, CanSend(c), Carried(c)
  PROVE  /\ objects' \in SUBSET Object /\ conn' \in SUBSET Connection /\ nextId' \in Id
         /\ raced' \in [Slots -> BOOLEAN]
         /\ made' = [made EXCEPT ![c] = 1..(Len(answers[c]) + 1)]
<1> DEFINE n == Len(answers[c])
<1>0. pc[c] = "chain"
  BY DEF CanSend
<1>1. /\ op[c] \in Operations /\ op[c] \in Operation /\ n \in Nat /\ n + 1 \in 1..Longest /\ Asked(c) \in Asking
      /\ \A d \in Asked(c).deps : Asked(c).kind # "view" => d.checked
      /\ Shaped(Chain(op[c])) /\ n + 1 \in 1..Len(Chain(op[c]))
  BY <1>0, AskedType
<1>2. made' = [made EXCEPT ![c] = 1..(n + 1)] /\ nextId' \in Id
  <2>1. made[c] = 1..n
    BY <1>0 DEF Inv, CallOK
  <2>2. made[c] \union {n + 1} = 1..(n + 1)
    BY <1>1, <2>1
  <2>3. made' = [made EXCEPT ![c] = made[c] \union {n + 1}]
    BY DEF Carried
  <2>4. nextId' \in Id
    BY DEF Carried, Inv, TypeOK, Id
  <2> QED
    BY <2>2, <2>3, <2>4
<1>3. CASE Connects(c)
  <2>0. \A d \in Asked(c).deps : Resolved(c, d)
    BY <1>1, <1>3 DEF Connects, CanSend
  <2>1. Values(c) \subseteq Id
    BY <1>0, <2>0, ValueType DEF Values
  <2>2. ChainStream(c) \in Id
    <3>1. CASE op[c].tool = "setup_app_monitoring_stack"
      <4> DEFINE d == Needs(1, "stream_id", TRUE)
      <4>1. Chain(op[c]) = MonitoringChain
        BY <3>1 DEF Chain
      <4>2. d \in Asked(c).deps
        BY <1>1, <1>3, <4>1, MonitoringConnects DEF Connects, Asked
      <4>3. Value(c, d) \in Id /\ Resolved(c, d)
        BY <1>0, <2>0, <4>2, ValueType
      <4> QED
        BY <3>1, <4>3 DEF ChainStream, Value, Needs
    <3>2. CASE op[c].tool # "setup_app_monitoring_stack"
      BY <1>1, <3>2 DEF ChainStream, Operation
    <3> QED
      BY <3>1, <3>2
  <2> DEFINE cn == Replace(ChainStream(c), Values(c) \ {ChainStream(c)})
  <2>3. cn \in SUBSET Connection
    BY <2>1, <2>2 DEF Replace, Connection, Inv, TypeOK
  <2>4. Overtaken(cn, c) \in [Slots -> BOOLEAN]
    BY DEF Overtaken, Inv, TypeOK
  <2> QED
    BY <1>2, <1>3, <2>3, <2>4 DEF Connects, Inv, TypeOK
<1>4. CASE Creates(c)
  <2>0. \A d \in Asked(c).deps : Resolved(c, d)
    BY <1>1, <1>4 DEF Creates, CanSend
  <2>1. Values(c) \subseteq Id
    BY <1>0, <2>0, ValueType DEF Values
  <2>2. [id |-> nextId, op |-> op[c], at |-> n + 1, refs |-> Values(c)] \in Object
    BY <1>1, <2>1 DEF Object, Inv, TypeOK
  <2> QED
    BY <1>2, <1>4, <2>2 DEF Creates, Inv, TypeOK
<1> QED
  BY <1>3, <1>4 DEF Carried

-----------------------------------------------------------------------------
(* The invariant holds at first and every step preserves it. *)

LEMMA InvInit ==
  ASSUME Init
  PROVE  Inv
<1>1. (CHOOSE o \in Operations : TRUE) \in Operations
  OBVIOUS
<1>2. TypeOK
  <2>1. answers \in [Slots -> Seq(Answer)]
    BY DEF Init
  <2>2. conn \in SUBSET Connection
    BY DEF Init
  <2> QED
    BY <1>1, <2>1, <2>2 DEF Init, TypeOK
<1>3. \A c \in Slots : CallOK(c)
  BY DEF Init, CallOK, Failed
<1> QED
  BY <1>2, <1>3 DEF Inv

LEMMA InvStart ==
  ASSUME Inv, NEW c \in Slots, NEW o \in Operations, NEW dry \in BOOLEAN, Start(c, o, dry)
  PROVE  Inv'
<1>1. TypeOK'
  <2>1. pc' \in [Slots -> {"idle", "read", "write", "chain"} \union Ended]
    BY DEF Inv, TypeOK, Start, Ended
  <2>2. answers' \in [Slots -> Seq(Answer)]
    BY DEF Inv, TypeOK, Start
  <2> QED
    BY <2>1, <2>2 DEF Inv, TypeOK, Start
<1>2. CallOK(c)'
  <2>1. /\ pc'[c] = IF o.tool \in Connecting THEN "read" ELSE IF dry THEN "previewed" ELSE "chain"
        /\ op'[c] = o /\ answers'[c] = <<>> /\ made'[c] = {} /\ succeeded'[c] = {}
    BY DEF Inv, TypeOK, Start
  <2>2. o \in Operation /\ (o.tool \notin Connecting => o.tool \in Blueprint)
    BY DEF Operation
  <2>3. o.tool \in Blueprint => Len(Chain(o)) > 0
    BY <2>2, ChainShaped DEF Shaped
  <2>4. Len(<<>>) = 0 /\ 1..0 = {}
    OBVIOUS
  <2> QED
    BY <2>1, <2>2, <2>3, <2>4 DEF CallOK, Failed
<1>3. \A d \in Slots : d # c => CallOK(d)'
  BY CallKept DEF Inv, TypeOK, Start
<1> QED
  BY <1>1, <1>2, <1>3 DEF Inv

\* Requests 1 to m of a chain are requests of a chain.
LEMMA Within ==
  ASSUME NEW m \in 1..Longest
  PROVE  1..m \in SUBSET (1..Longest)
<1>1. \A k \in 1..m : k \in 1..Longest
  BY DEF Longest
<1> QED
  BY <1>1, Zenon

\* The type of what a chain's end leaves.
LEMMA ReportType ==
  ASSUME Inv, NEW c \in Slots, pc[c] = "chain"
  PROVE  SucceededSteps(c) \in SUBSET (1..Longest)
<1>1. Len(answers[c]) \in Nat /\ Len(answers[c]) + 1 \in 1..Longest
  BY AskedType
<1>2. 1..(Len(answers[c]) + 1) \in SUBSET (1..Longest)
  BY <1>1, Within
<1>3. SucceededSteps(c) \subseteq 1..(Len(answers[c]) + 1)
  BY <1>1 DEF SucceededSteps
<1> QED
  BY <1>2, <1>3

\* A chain that ends with a failure.
LEMMA InvReport ==
  ASSUME Inv, NEW c \in Slots, pc[c] = "chain", NEW how \in Failed, Report(c, how),
         objects' \in SUBSET Object, conn' \in SUBSET Connection, nextId' \in Id,
         raced' \in [Slots -> BOOLEAN],
         made' = made \/ made' = [made EXCEPT ![c] = 1..(Len(answers[c]) + 1)]
  PROVE  Inv'
<1>0. Len(answers[c]) \in Nat /\ Len(answers[c]) + 1 \in 1..Longest /\ op[c] \in Operations
  BY AskedType
<1>1. TypeOK'
  <2>1. pc' \in [Slots -> {"idle", "read", "write", "chain"} \union Ended] /\ settled' \in SUBSET Operations
    BY <1>0 DEF Inv, TypeOK, Report, Ends, Failed, Ended
  <2>2. succeeded' \in [Slots -> SUBSET (1..Longest)]
    BY ReportType DEF Inv, TypeOK, Report
  <2>3. made' \in [Slots -> SUBSET (1..Longest)]
    <3>1. 1..(Len(answers[c]) + 1) \in SUBSET (1..Longest)
      BY <1>0, Within
    <3> QED
      BY <3>1 DEF Inv, TypeOK
  <2> QED
    BY <2>1, <2>2, <2>3 DEF Inv, TypeOK, Report
<1>2. CallOK(c)'
  <2>1. /\ pc'[c] = how /\ op'[c] = op[c] /\ answers'[c] = answers[c] /\ succeeded'[c] = SucceededSteps(c)
        /\ made'[c] \in {1..Len(answers[c]), 1..(Len(answers[c]) + 1)}
    BY DEF Inv, TypeOK, CallOK, Report, Ends
  <2>2. SucceededSteps(c)' = SucceededSteps(c)
    BY <2>1 DEF SucceededSteps, Asked
  <2> QED
    BY <2>1, <2>2 DEF Inv, CallOK, Failed
<1>3. \A d \in Slots : d # c => CallOK(d)'
  BY CallKept DEF Inv, TypeOK, Report, Ends
<1> QED
  BY <1>1, <1>2, <1>3 DEF Inv

LEMMA InvUnresolved ==
  ASSUME Inv, NEW c \in Slots, Unresolved(c)
  PROVE  Inv'
  BY InvReport DEF Unresolved, Failed, Inv, TypeOK

LEMMA InvChainFails ==
  ASSUME Inv, NEW c \in Slots, ChainFails(c)
  PROVE  Inv'
<1>0. pc[c] = "chain" /\ CanSend(c) /\ Report(c, "partial_failure")
  BY DEF ChainFails, CanSend
<1>1. CASE Carried(c)
  BY <1>0, <1>1, CarriedType, InvReport DEF Failed
<1>2. CASE NotCarried
  BY <1>0, <1>2, InvReport DEF Failed, NotCarried, Inv, TypeOK
<1> QED
  BY <1>1, <1>2 DEF ChainFails

LEMMA InvAnswered ==
  ASSUME Inv, NEW c \in Slots, Answered(c)
  PROVE  Inv'
<1> DEFINE n == Len(answers[c])
           l == Len(Chain(op[c]))
<1>0. pc[c] = "chain" /\ CanSend(c) /\ Carried(c)
  BY DEF Answered, CanSend
<1>1. /\ objects' \in SUBSET Object /\ conn' \in SUBSET Connection /\ nextId' \in Id
      /\ raced' \in [Slots -> BOOLEAN] /\ made' = [made EXCEPT ![c] = 1..(n + 1)]
  BY <1>0, CarriedType
<1>2. /\ op[c] \in Operations /\ op[c].tool \in Blueprint /\ answers[c] \in Seq(Answer) /\ n \in Nat /\ n + 1 \in 1..l
      /\ n + 1 \in 1..Longest /\ l \in 1..Longest
  BY <1>0, AskedType DEF Shaped
<1>3. PICK a \in Answer : /\ answers' = [answers EXCEPT ![c] = Append(answers[c], a)]
                          /\ a.field # "none" => a.id \in Id
  <2>1. CASE answers' = [answers EXCEPT ![c] = Append(answers[c], [field |-> Field(Asked(c).kind), id |-> nextId])]
    <3> DEFINE a == [field |-> Field(Asked(c).kind), id |-> nextId]
    <3>1. nextId \in Id /\ Field(Asked(c).kind) \in Fields
      BY DEF Inv, TypeOK, Fields, Field
    <3>2. a \in Answer /\ a.id \in Id
      BY <3>1 DEF Answer, Id
    <3> QED
      BY <2>1, <3>2
  <2>2. CASE answers' = [answers EXCEPT ![c] = Append(answers[c], [field |-> "none", id |-> Missing])]
    <3> DEFINE a == [field |-> "none", id |-> Missing]
    <3>1. a \in Answer /\ a.field = "none"
      BY DEF Answer, Fields, Missing
    <3> QED
      BY <2>2, <3>1
  <2> QED
    BY <2>1, <2>2 DEF Answered
<1>4. /\ answers'[c] \in Seq(Answer) /\ Len(answers'[c]) = n + 1
      /\ \A k \in 1..n : answers'[c][k] = answers[c][k]
      /\ answers'[c][n + 1] = a
  BY <1>2, <1>3, AppendProperties DEF Inv, TypeOK
<1>5. answers' \in [Slots -> Seq(Answer)]
  BY <1>2, <1>3, AppendProperties DEF Inv, TypeOK
<1>6. \A k \in 1..Len(answers'[c]) : answers'[c][k].field # "none" => answers'[c][k].id \in Id
  <2>1. \A k \in 1..n : answers[c][k].field # "none" => answers[c][k].id \in Id
    BY DEF Inv, CallOK
  <2>2. \A k \in 1..(n + 1) : k \in 1..n \/ k = n + 1
    BY <1>2
  <2> QED
    BY <1>3, <1>4, <2>1, <2>2
<1>7. made'[c] = 1..(n + 1) /\ made' \in [Slots -> SUBSET (1..Longest)] /\ op'[c] = op[c] /\ op' = op
  <2>1. 1..(n + 1) \in SUBSET (1..Longest)
    BY <1>2, Within
  <2> QED
    BY <1>1, <2>1 DEF Inv, TypeOK, Answered
<1>8. \A d \in Slots : d # c => CallOK(d)'
  <2>1. TAKE d \in Slots
  <2>2. HAVE d # c
  <2>3. pc'[d] = pc[d] /\ succeeded'[d] = succeeded[d]
    BY <2>2 DEF Answered, Ends, Inv, TypeOK
  <2>4. op'[d] = op[d] /\ answers'[d] = answers[d] /\ made'[d] = made[d]
    BY <1>1, <1>3, <1>7, <2>2 DEF Inv, TypeOK
  <2> QED
    BY <2>3, <2>4, CallKept DEF Inv
<1>9. CASE n + 1 = l
  <2>1. Ends(c, "done") /\ succeeded' = [succeeded EXCEPT ![c] = 1..l]
    BY <1>9 DEF Answered
  <2>2. /\ pc' = [pc EXCEPT ![c] = "done"] /\ settled' \in SUBSET Operations
        /\ pc' \in [Slots -> {"idle", "read", "write", "chain"} \union Ended]
    BY <1>2, <2>1 DEF Ends, Inv, TypeOK, Ended
  <2>3. succeeded' \in [Slots -> SUBSET (1..Longest)]
    <3>1. 1..l \in SUBSET (1..Longest)
      BY <1>2, Within
    <3> QED
      BY <2>1, <3>1 DEF Inv, TypeOK
  <2>4. TypeOK'
    BY <1>1, <1>5, <1>7, <2>2, <2>3 DEF Answered, Inv, TypeOK
  <2>5. pc'[c] = "done" /\ succeeded'[c] = 1..l
    BY <2>1, <2>2 DEF Inv, TypeOK
  <2>6. CallOK(c)'
    BY <1>6, <1>7, <1>9, <2>5 DEF CallOK, Failed
  <2> QED
    BY <1>8, <2>4, <2>6 DEF Inv
<1>10. CASE n + 1 # l
  <2>1. UNCHANGED <<pc, settled, succeeded>>
    BY <1>10 DEF Answered
  <2>2. TypeOK'
    BY <1>1, <1>5, <1>7, <2>1 DEF Answered, Inv, TypeOK
  <2>3. n + 1 < l
    BY <1>2, <1>10
  <2>4. CallOK(c)'
    BY <1>0, <1>2, <1>4, <1>6, <1>7, <2>1, <2>3 DEF CallOK, Failed
  <2> QED
    BY <1>8, <2>2, <2>4 DEF Inv
<1> QED
  BY <1>9, <1>10

LEMMA ConnectionsType ==
  ASSUME Inv, NEW c \in Slots, NEW s \in Id, NEW p \in SUBSET Id
  PROVE  /\ Replace(s, p) \in SUBSET Connection
         /\ Overtaken(Replace(s, p), c) \in [Slots -> BOOLEAN]
         /\ Connected(s) \in SUBSET Id
<1>1. Replace(s, p) \in SUBSET Connection
  BY DEF Replace, Connection, Inv, TypeOK
<1>2. Overtaken(Replace(s, p), c) \in [Slots -> BOOLEAN]
  BY DEF Overtaken, Inv, TypeOK
<1>3. \A r \in conn : r.pipelines \in SUBSET Id
  BY DEF Connection, Inv, TypeOK
<1> QED
  BY <1>1, <1>2, <1>3 DEF Connected, Record

LEMMA InvReadConnections ==
  ASSUME Inv, NEW c \in Slots, ReadConnections(c)
  PROVE  Inv'
<1>0. /\ pc[c] = "read" /\ op[c] \in Operations /\ op[c] \in Operation /\ op[c].tool \in Connecting
      /\ op[c].stream \in Id /\ op[c].pipelines \in SUBSET Id
  BY DEF ReadConnections, Inv, TypeOK, CallOK, Operation
<1>1. Wanted(op[c], Connected(op[c].stream)) \in SUBSET Id
  BY <1>0, ConnectionsType DEF Wanted
<1>2. PICK how \in {"failed", "previewed", "done", "write"} : pc' = [pc EXCEPT ![c] = how]
  BY DEF ReadConnections, Ends
<1>3. settled' \in SUBSET Operations /\ body' \in [Slots -> SUBSET Id]
  BY <1>0, <1>1 DEF ReadConnections, Ends, Inv, TypeOK
<1>4. TypeOK'
  BY <1>2, <1>3 DEF ReadConnections, Inv, TypeOK, Ended
<1>5. CallOK(c)'
  <2>1. pc'[c] = how /\ op'[c] = op[c] /\ answers'[c] = answers[c]
    BY <1>2 DEF ReadConnections, Inv, TypeOK
  <2>2. op[c].tool \notin Blueprint
    BY <1>0 DEF Connecting, Blueprint
  <2>3. \A k \in 1..Len(answers[c]) : answers[c][k].field # "none" => answers[c][k].id \in Id
    BY DEF Inv, CallOK
  <2> QED
    BY <1>0, <2>1, <2>2, <2>3 DEF CallOK, Failed
<1>6. \A d \in Slots : d # c => CallOK(d)'
  BY <1>2, CallKept DEF Inv, TypeOK, ReadConnections
<1> QED
  BY <1>4, <1>5, <1>6 DEF Inv

LEMMA InvWriteConnections ==
  ASSUME Inv, NEW c \in Slots, WriteConnections(c)
  PROVE  Inv'
<1>0. /\ pc[c] = "write" /\ op[c] \in Operations /\ op[c] \in Operation /\ op[c].tool \in Connecting
      /\ op[c].stream \in Id /\ body[c] \in SUBSET Id
  BY DEF WriteConnections, Inv, TypeOK, CallOK, Operation
<1>1. PICK how \in {"failed", "done"} : Ends(c, how)
  BY DEF WriteConnections
<1>2. conn' \in SUBSET Connection /\ raced' \in [Slots -> BOOLEAN]
  <2>1. CASE conn' = Replace(op[c].stream, body[c]) /\ raced' = Overtaken(conn', c)
    BY <1>0, <2>1, ConnectionsType
  <2>2. CASE UNCHANGED <<conn, raced>>
    BY <2>2 DEF Inv, TypeOK
  <2> QED
    BY <2>1, <2>2 DEF WriteConnections
<1>3. TypeOK'
  BY <1>0, <1>1, <1>2 DEF WriteConnections, Ends, Inv, TypeOK, Ended
<1>4. CallOK(c)'
  <2>1. pc'[c] = how /\ op'[c] = op[c] /\ answers'[c] = answers[c]
    BY <1>1 DEF WriteConnections, Ends, Inv, TypeOK
  <2>2. op[c].tool \notin Blueprint
    BY <1>0 DEF Connecting, Blueprint
  <2>3. \A k \in 1..Len(answers[c]) : answers[c][k].field # "none" => answers[c][k].id \in Id
    BY DEF Inv, CallOK
  <2> QED
    BY <2>1, <2>2, <2>3 DEF CallOK, Failed
<1>5. \A d \in Slots : d # c => CallOK(d)'
  BY <1>1, CallKept DEF Inv, TypeOK, WriteConnections, Ends
<1> QED
  BY <1>3, <1>4, <1>5 DEF Inv

LEMMA InvReconnect ==
  ASSUME Inv, NEW o \in Operations, NEW p \in o.pipelines, Reconnect(o.stream, p)
  PROVE  Inv'
<1> DEFINE s   == o.stream
           now == IF p \in Connected(s) THEN Connected(s) \ {p} ELSE Connected(s) \union {p}
<1>1. s \in Id /\ p \in Id
  BY DEF Operation
<1>2. Replace(s, now) \in SUBSET Connection
  <2>1. Connected(s) \in SUBSET Id
    <3>1. \A r \in conn : r.pipelines \in SUBSET Id
      BY DEF Connection, Inv, TypeOK
    <3> QED
      BY <3>1 DEF Connected, Record
  <2>2. now \in SUBSET Id
    BY <1>1, <2>1
  <2> QED
    BY <1>1, <2>2 DEF Replace, Connection, Inv, TypeOK
<1>3. conn' = Replace(s, now) /\ raced' \in [Slots -> BOOLEAN]
  BY DEF Reconnect, Inv, TypeOK
<1>4. TypeOK'
  <2>1. conn' \in SUBSET Connection
    BY <1>2, <1>3
  <2>2. edits' \in 0..MaxEdits
    BY DEF Reconnect, Inv, TypeOK
  <2>3. UNCHANGED <<objects, nextId, pc, op, dryRun, answers, succeeded, body, made, settled, ncalls>>
    BY DEF Reconnect, calls
  <2> QED
    BY <1>3, <2>1, <2>2, <2>3 DEF Inv, TypeOK
<1>5. \A c \in Slots : CallOK(c)'
  BY CallKept DEF Inv, Reconnect, calls
<1> QED
  BY <1>4, <1>5 DEF Inv

LEMMA InvNext ==
  ASSUME Inv, [Next]_vars
  PROVE  Inv'
<1>1. CASE \E c \in Slots : Call(c)
  BY <1>1, InvStart DEF Call
<1>2. CASE \E c \in Slots : Step(c)
  BY <1>2, InvUnresolved, InvAnswered, InvChainFails, InvReadConnections, InvWriteConnections DEF Step
<1>3. CASE \E o \in Operations : \E p \in o.pipelines : Reconnect(o.stream, p)
  BY <1>3, InvReconnect
<1>4. CASE UNCHANGED vars
  <2>1. TypeOK'
    BY <1>4 DEF vars, calls, Inv, TypeOK
  <2>2. \A c \in Slots : CallOK(c)'
    BY <1>4, CallKept DEF vars, calls, Inv
  <2> QED
    BY <2>1, <2>2 DEF Inv
<1> QED
  BY <1>1, <1>2, <1>3, <1>4 DEF Next

-----------------------------------------------------------------------------
(* Theorems *)

LEMMA InvHolds == Spec => []Inv
  BY InvInit, InvNext, PTL DEF Spec

\* The state has its type: every request of every chain is well formed and its
\* placeholders resolve to ids, whatever the server leaves out of its answers.
THEOREM TypeCorrect == Spec => []TypeOK
<1>1. Inv => TypeOK
  BY DEF Inv
<1> QED
  BY <1>1, InvHolds, PTL

\* What a report says of one call.
LEMMA Accounted ==
  ASSUME Inv, NEW c \in Slots, op[c].tool \in Blueprint, pc[c] \in {"done", "partial_failure", "unresolved_dependency"}
  PROVE  /\ succeeded[c] \subseteq made[c]
         /\ \A k \in made[c] \ succeeded[c] : pc[c] # "done" /\ Chain(op[c])[k].step = Asked(c).step
         /\ pc[c] = "done" => made[c] = 1..Len(Chain(op[c]))
<1> DEFINE n == Len(answers[c])
           s == Chain(op[c])
<1>1. CASE pc[c] = "done"
  BY <1>1 DEF Inv, CallOK
<1>2. CASE pc[c] \in Failed
  <2>1. /\ n \in Nat /\ n + 1 \in 1..Len(s) /\ Shaped(s)
        /\ made[c] \in {1..n, 1..(n + 1)}
        /\ succeeded[c] = {k \in 1..n : s[k].step < s[n + 1].step}
    <3>1. Shaped(s)
      BY ChainShaped DEF Inv, TypeOK
    <3>2. answers[c] \in Seq(Answer) /\ n < Len(s)
      BY <1>2 DEF Inv, TypeOK, CallOK
    <3>3. n \in Nat /\ Len(s) \in Nat
      BY <3>1, <3>2, LenProperties DEF Shaped
    <3>4. n + 1 \in 1..Len(s)
      BY <3>2, <3>3
    <3> QED
      BY <1>2, <3>1, <3>3, <3>4 DEF Inv, CallOK, SucceededSteps, Asked
  <2>2. succeeded[c] \subseteq made[c]
    BY <2>1
  <2>3. \A k \in made[c] \ succeeded[c] : s[k].step = s[n + 1].step
    <3>1. TAKE k \in made[c] \ succeeded[c]
    <3>2. k \in 1..(n + 1) /\ k \in 1..Len(s)
      BY <2>1
    <3>3. CASE k = n + 1
      BY <3>3
    <3>4. CASE k # n + 1
      <4>1. k \in 1..n /\ ~(s[k].step < s[n + 1].step)
        BY <2>1, <3>2, <3>4
      <4>2. s[k].step <= s[n + 1].step /\ s[k].step \in Nat /\ s[n + 1].step \in Nat
        <5>1. k <= n + 1 /\ s[k] \in Asking /\ s[n + 1] \in Asking
          BY <2>1, <3>2, <4>1 DEF Shaped
        <5> HIDE DEF s
        <5> QED
          BY <2>1, <3>2, <5>1 DEF Shaped, Asking
      <4> QED
        BY <4>1, <4>2
    <3> QED
      BY <3>3, <3>4
  <2> QED
    BY <1>2, <2>2, <2>3 DEF Failed, Asked
<1> QED
  BY <1>1, <1>2 DEF Failed

\* The report a blueprint ends with accounts for everything it left on the
\* server, for every chain, wherever it stops and whatever answer is lost.
THEOREM ReportHolds == Spec => []ReportAccounts
<1>1. Inv => ReportAccounts
  BY Accounted DEF ReportAccounts
<1> QED
  BY <1>1, InvHolds, PTL

-----------------------------------------------------------------------------
(***************************************************************************)
(* Connecting and disconnecting.  Unless a stream's connections changed    *)
(* since a call read them, what the call is about to write is still what   *)
(* was asked of what is there.                                             *)
(***************************************************************************)
Records(cn, s) == {r \in cn : r.stream = s}

Fresh(c) == pc[c] = "write" /\ ~raced[c] =>
  /\ body[c] = Wanted(op[c], Connected(op[c].stream))
  /\ op[c].tool = "disconnect_pipelines_from_stream" => Record(op[c].stream) # {}

FreshInv == Inv /\ \A c \in Slots : Fresh(c)

\* A call that keeps waiting to write while its stream's connections stay.
LEMMA FreshKept ==
  ASSUME NEW c \in Slots, Fresh(c), pc'[c] = pc[c], op'[c] = op[c], body'[c] = body[c],
         pc[c] = "write" /\ ~raced'[c] =>
           ~raced[c] /\ Records(conn', op[c].stream) = Records(conn, op[c].stream)
  PROVE  Fresh(c)'
<1>1. SUFFICES ASSUME pc[c] = "write", ~raced'[c]
               PROVE  Fresh(c)'
  BY DEF Fresh
<1>2. ~raced[c] /\ Records(conn', op[c].stream) = Records(conn, op[c].stream)
  BY <1>1
<1>3. \A s : Record(s) = {r.pipelines : r \in Records(conn, s)} /\ Record(s)' = {r.pipelines : r \in Records(conn', s)}
  BY DEF Record, Records
<1>4. Record(op[c].stream)' = Record(op[c].stream) /\ Connected(op[c].stream)' = Connected(op[c].stream)
  BY <1>2, <1>3 DEF Connected
<1> QED
  BY <1>1, <1>2, <1>4 DEF Fresh, Wanted

\* A call that sees another one change connections.
LEMMA OvertakenKeeps ==
  ASSUME Inv, NEW c \in Slots, NEW d \in Slots, d # c, raced' = Overtaken(conn', c), pc[d] = "write", ~raced'[d]
  PROVE  ~raced[d] /\ Records(conn', op[d].stream) = Records(conn, op[d].stream)
  BY DEF Overtaken, Records

\* What a stream's connections are after they were replaced.
LEMMA Replaced ==
  ASSUME NEW s, NEW t, NEW p
  PROVE  /\ Records(Replace(s, p), s) = {[stream |-> s, pipelines |-> p]}
         /\ t # s => Records(Replace(s, p), t) = Records(conn, t)
  BY DEF Records, Replace

LEMMA FreshNext ==
  ASSUME FreshInv, [Next]_vars
  PROVE  \A c \in Slots : Fresh(c)'
<1> USE DEF FreshInv
<1>1. ASSUME NEW c \in Slots, Call(c)
      PROVE  \A d \in Slots : Fresh(d)'
  <2>1. PICK o \in Operations, dry \in BOOLEAN : Start(c, o, dry)
    BY <1>1 DEF Call
  <2>2. pc'[c] # "write"
    BY <2>1 DEF Start, Inv, TypeOK
  <2>3. \A d \in Slots : d # c => Fresh(d)'
    BY <2>1, FreshKept DEF Start, Inv, TypeOK
  <2> QED
    BY <2>2, <2>3 DEF Fresh
<1>2. ASSUME NEW c \in Slots, pc[c] = "chain", Unresolved(c) \/ Answered(c) \/ ChainFails(c)
      PROVE  \A d \in Slots : Fresh(d)'
  <2>1. pc'[c] # "write" /\ body' = body /\ op' = op /\ \A d \in Slots : d # c => pc'[d] = pc[d]
    BY <1>2 DEF Unresolved, Answered, ChainFails, Report, Ends, Inv, TypeOK
  <2>2. (conn' = conn /\ raced' = raced) \/ raced' = Overtaken(conn', c)
    BY <1>2 DEF Unresolved, Answered, ChainFails, Carried, NotCarried, Connects, Creates
  <2>3. ASSUME NEW d \in Slots, d # c
        PROVE  Fresh(d)'
    BY <2>1, <2>2, <2>3, FreshKept, OvertakenKeeps
  <2> QED
    BY <2>1, <2>3 DEF Fresh
<1>3. ASSUME NEW c \in Slots, ReadConnections(c)
      PROVE  \A d \in Slots : Fresh(d)'
  <2>1. op' = op /\ conn' = conn /\ raced' = raced /\ \A d \in Slots : d # c => pc'[d] = pc[d] /\ body'[d] = body[d]
    BY <1>3 DEF ReadConnections, Ends, Inv, TypeOK
  <2>2. Fresh(c)'
    <3>1. CASE pc'[c] # "write"
      BY <3>1 DEF Fresh
    <3>2. CASE pc'[c] = "write"
      <4>1. /\ body'[c] = Wanted(op[c], Connected(op[c].stream))
            /\ ~(op[c].tool = "disconnect_pipelines_from_stream" /\ Record(op[c].stream) = {})
        BY <1>3, <3>2 DEF ReadConnections, Ends, Inv, TypeOK
      <4>2. Connected(op[c].stream)' = Connected(op[c].stream) /\ Record(op[c].stream)' = Record(op[c].stream)
        BY <2>1 DEF Connected, Record
      <4> QED
        BY <2>1, <4>1, <4>2 DEF Fresh, Wanted
    <3> QED
      BY <3>1, <3>2
  <2>3. \A d \in Slots : d # c => Fresh(d)'
    BY <2>1, FreshKept
  <2> QED
    BY <2>2, <2>3
<1>4. ASSUME NEW c \in Slots, WriteConnections(c)
      PROVE  \A d \in Slots : Fresh(d)'
  <2>1. pc'[c] # "write" /\ body' = body /\ op' = op /\ \A d \in Slots : d # c => pc'[d] = pc[d]
    BY <1>4 DEF WriteConnections, Ends, Inv, TypeOK
  <2>2. (conn' = conn /\ raced' = raced) \/ raced' = Overtaken(conn', c)
    BY <1>4 DEF WriteConnections
  <2>3. ASSUME NEW d \in Slots, d # c
        PROVE  Fresh(d)'
    BY <2>1, <2>2, <2>3, FreshKept, OvertakenKeeps
  <2> QED
    BY <2>1, <2>3 DEF Fresh
<1>5. ASSUME NEW o \in Operations, NEW p \in o.pipelines, Reconnect(o.stream, p)
      PROVE  \A d \in Slots : Fresh(d)'
  <2> TAKE d \in Slots
  <2>1. PICK q : conn' = Replace(o.stream, q)
    BY <1>5 DEF Reconnect
  <2>2. pc' = pc /\ op' = op /\ body' = body /\ raced'[d] = (raced[d] \/ (pc[d] = "write" /\ op[d].stream = o.stream))
    BY <1>5 DEF Reconnect, calls
  <2>3. pc[d] = "write" /\ ~raced'[d] => ~raced[d] /\ Records(conn', op[d].stream) = Records(conn, op[d].stream)
    <3>1. SUFFICES ASSUME pc[d] = "write", ~raced'[d]
                   PROVE  ~raced[d] /\ Records(conn', op[d].stream) = Records(conn, op[d].stream)
      OBVIOUS
    <3>2. ~raced[d] /\ op[d].stream # o.stream
      BY <2>2, <3>1
    <3>3. Records(Replace(o.stream, q), op[d].stream) = Records(conn, op[d].stream)
      BY <3>2, Replaced
    <3> QED
      BY <2>1, <3>2, <3>3
  <2> QED
    BY <2>2, <2>3, FreshKept
<1>6. CASE UNCHANGED vars
  BY <1>6, FreshKept DEF vars, calls
<1> QED
  BY <1>1, <1>2, <1>3, <1>4, <1>5, <1>6 DEF Next, Step

\* A call that ends its write has changed only what it was asked to.
LEMMA WritesAsAsked ==
  ASSUME FreshInv, [Next]_vars, NEW c \in Slots, pc[c] = "write", pc'[c] # "write", ~raced[c],
         NEW now, now = UNION {r.pipelines : r \in {x \in conn' : x.stream = op[c].stream}}
  PROVE  IF op[c].tool = "connect_pipelines_to_stream"
         THEN Connected(op[c].stream) \subseteq now /\ now \subseteq Connected(op[c].stream) \union op[c].pipelines
         ELSE /\ now \subseteq Connected(op[c].stream) /\ Connected(op[c].stream) \subseteq now \union op[c].pipelines
              /\ Record(op[c].stream) = {} => conn' = conn
<1> DEFINE s == op[c].stream
<1>1. WriteConnections(c)
  <2>1. ASSUME NEW d \in Slots, Call(d)
        PROVE  FALSE
    BY <2>1 DEF Call, Start, Ended, FreshInv, Inv, TypeOK
  <2>2. ASSUME NEW d \in Slots, Step(d), d # c
        PROVE  FALSE
    BY <2>2 DEF Step, Unresolved, Answered, ChainFails, Report, ReadConnections, WriteConnections, Ends, FreshInv, Inv, TypeOK
  <2>3. ~UNCHANGED vars /\ ~\E o \in Operations : \E p \in o.pipelines : Reconnect(o.stream, p)
    BY DEF vars, calls, Reconnect
  <2>4. Step(c)
    BY <2>1, <2>2, <2>3 DEF Next
  <2> QED
    BY <2>4 DEF Step, ReadConnections
<1>2. /\ body[c] = Wanted(op[c], Connected(s))
      /\ op[c].tool = "disconnect_pipelines_from_stream" => Record(s) # {}
      /\ op[c].tool \in Connecting
  BY DEF FreshInv, Fresh, Inv, CallOK
<1>3. CASE conn' = Replace(s, body[c])
  <2>1. now = body[c]
    <3>1. now = UNION {r.pipelines : r \in Records(Replace(s, body[c]), s)}
      BY <1>3 DEF Records
    <3>2. Records(Replace(s, body[c]), s) = {[stream |-> s, pipelines |-> body[c]]}
      BY Replaced
    <3> QED
      BY <3>1, <3>2
  <2> QED
    BY <1>2, <2>1 DEF Wanted, Connecting
<1>4. CASE conn' = conn
  <2>1. now = Connected(s)
    BY <1>4 DEF Connected, Record
  <2> QED
    BY <1>4, <2>1
<1> QED
  BY <1>1, <1>3, <1>4 DEF WriteConnections

\* Connecting and disconnecting change only what they are asked to, for any
\* number of calls and whatever blueprints and other users do meanwhile, unless
\* the stream's connections changed between the call's read and its write.
THEOREM ConnectsAsAsked == Spec => OnlyAsAsked
<1>1. Init => FreshInv
  BY InvInit DEF FreshInv, Fresh, Init
<1>2. FreshInv /\ [Next]_vars => FreshInv'
  BY InvNext, FreshNext DEF FreshInv
<1>3. FreshInv /\ [Next]_vars =>
        [\A c \in Slots : pc[c] = "write" /\ pc'[c] # "write" /\ ~raced[c] =>
           LET s   == op[c].stream
               now == UNION {r.pipelines : r \in {x \in conn' : x.stream = s}}
           IN IF op[c].tool = "connect_pipelines_to_stream"
              THEN Connected(s) \subseteq now /\ now \subseteq Connected(s) \union op[c].pipelines
              ELSE /\ now \subseteq Connected(s) /\ Connected(s) \subseteq now \union op[c].pipelines
                   /\ Record(s) = {} => conn' = conn]_vars
  BY WritesAsAsked
<1> QED
  BY <1>1, <1>2, <1>3, PTL DEF Spec, OnlyAsAsked
-----------------------------------------------------------------------------
(***************************************************************************)
(* Wiring.  What a chain's answers stand for: each was given for a request *)
(* the server carried out, and no two for the same object.                 *)
(***************************************************************************)

\* What a request takes from earlier ones is one id from each, never from a
\* connection; a connection is of pipelines, to a stream.
Linked(o) ==
  \A k \in 1..Len(Chain(o)) :
    /\ IsFiniteSet(Chain(o)[k].deps)
    /\ \A d, e \in Chain(o)[k].deps : d.at = e.at => d = e
    /\ \A d \in Chain(o)[k].deps : Chain(o)[d.at].kind # "connection"
    /\ Chain(o)[k].kind = "connection" =>
         \A d \in Chain(o)[k].deps : \/ Chain(o)[d.at].kind = "pipeline"
                                     \/ o.tool = "setup_app_monitoring_stack" /\ d.at = 1

LEMMA PipelineLinked ==
  ASSUME NEW o, NEW n \in 1..20, Chain(o) = PipelineChain(n)
  PROVE  Linked(o)
<1> DEFINE s == PipelineChain(n)
<1>1. /\ Len(s) = n + 2
      /\ \A k \in 1..n : s[k].kind = "rule" /\ s[k].deps = {}
      /\ s[n + 1].kind = "pipeline" /\ s[n + 1].deps = {}
      /\ s[n + 2].deps = {Needs(n + 1, "id", TRUE)}
  <2> HIDE DEF s
  <2>1. /\ Len(s) = n + 2
        /\ \A k \in 1..n : s[k] = Ask(k, "rule", {})
        /\ s[n + 1] = Ask(n + 1, "pipeline", {})
        /\ s[n + 2] = Ask(n + 2, "connection", {Needs(n + 1, "id", TRUE)})
    BY PipelineRequests DEF s
  <2>2. \A k \in 1..n : s[k].kind = "rule" /\ s[k].deps = {}
    <3> TAKE k \in 1..n
    <3>1. s[k] = Ask(k, "rule", {})
      BY <2>1
    <3> QED
      BY <3>1 DEF Ask
  <2> QED
    BY <2>1, <2>2 DEF Ask
<1>2. IsFiniteSet({}) /\ IsFiniteSet({Needs(n + 1, "id", TRUE)})
  BY FS_EmptySet, FS_Singleton
<1>3. Needs(n + 1, "id", TRUE).at = n + 1
  BY DEF Needs
<1> HIDE DEF s
<1>4. \A k \in 1..Len(s) :
        /\ IsFiniteSet(s[k].deps)
        /\ \A d, e \in s[k].deps : d.at = e.at => d = e
        /\ \A d \in s[k].deps : s[d.at].kind = "pipeline"
  <2> TAKE k \in 1..Len(s)
  <2>1. k \in 1..n \/ k = n + 1 \/ k = n + 2
    BY <1>1
  <2>2. CASE s[k].deps = {}
    BY <1>2, <2>2
  <2>3. CASE k = n + 2
    BY <1>1, <1>2, <1>3, <2>3
  <2> QED
    BY <1>1, <2>1, <2>2, <2>3
<1> QED
  BY <1>4 DEF Linked, s

LEMMA MonitoringLinked ==
  ASSUME NEW o, o.tool = "setup_app_monitoring_stack", Chain(o) = MonitoringChain
  PROVE  Linked(o)
<1> DEFINE s == MonitoringChain
           stream == Needs(1, "stream_id", TRUE)
           pipeline == Needs(3, "id", TRUE)
           search == Needs(5, "id", FALSE)
<1>1. /\ Len(s) = 7
      /\ s[1].deps = {} /\ s[2].deps = {} /\ s[3].deps = {} /\ s[4].deps = {stream, pipeline}
      /\ s[5].deps = {stream} /\ s[6].deps = {stream, search} /\ s[7].deps = {stream}
  BY DEF MonitoringChain, Ask
<1>2. /\ s[1].kind = "stream" /\ s[2].kind = "rule" /\ s[3].kind = "pipeline" /\ s[4].kind = "connection"
      /\ s[5].kind = "search" /\ s[6].kind = "view" /\ s[7].kind = "event_definition"
  BY DEF MonitoringChain, Ask
<1>3. stream.at = 1 /\ pipeline.at = 3 /\ search.at = 5
  BY DEF Needs
<1>4. /\ IsFiniteSet({}) /\ IsFiniteSet({stream}) /\ IsFiniteSet({stream, pipeline}) /\ IsFiniteSet({stream, search})
  <2>1. IsFiniteSet({stream}) /\ IsFiniteSet({}) /\ IsFiniteSet({pipeline}) /\ IsFiniteSet({search})
    BY FS_Singleton, FS_EmptySet
  <2>2. {stream, pipeline} = {stream} \union {pipeline} /\ {stream, search} = {stream} \union {search}
    OBVIOUS
  <2> QED
    <3>1. IsFiniteSet({stream} \union {pipeline})
      BY <2>1, FS_Union
    <3>2. IsFiniteSet({stream} \union {search})
      BY <2>1, FS_Union
    <3> QED
      BY <2>1, <2>2, <3>1, <3>2, Zenon
<1> HIDE DEF s, stream, pipeline, search
<1>5. \A k \in 1..7 : k = 1 \/ k = 2 \/ k = 3 \/ k = 4 \/ k = 5 \/ k = 6 \/ k = 7
  OBVIOUS
<1>6. \A k \in 1..7 : IsFiniteSet(s[k].deps)
  BY <1>1, <1>4, <1>5, Zenon
<1>7. \A k \in 1..7 : \A d, e \in s[k].deps : d.at = e.at => d = e
  BY <1>1, <1>3, <1>5
<1>8. \A k \in 1..7 : \A d \in s[k].deps : s[d.at].kind # "connection"
  BY <1>1, <1>2, <1>3, <1>5
<1>9. \A k \in 1..7 : s[k].kind = "connection" => \A d \in s[k].deps : s[d.at].kind = "pipeline" \/ d.at = 1
  BY <1>1, <1>2, <1>3, <1>5
<1> QED
  BY <1>1, <1>6, <1>7, <1>8, <1>9 DEF Linked, s

LEMMA ChainLinked ==
  ASSUME NEW o \in Operation, o.tool \in Blueprint
  PROVE  Linked(o)
<1>0. o.transforms \in 1..20
  BY DEF Operation
<1>1. CASE o.tool = "setup_app_monitoring_stack"
  BY <1>1, MonitoringLinked DEF Chain
<1>2. CASE o.tool = "setup_pipeline_for_stream"
  BY <1>0, <1>2, PipelineLinked DEF Chain
<1>3. CASE o.tool = "setup_debug_log_dropping"
  BY <1>3, PipelineLinked DEF Chain
<1>4. CASE o.tool = "create_app_health_dashboard"
  <2> DEFINE s == Chain(o)
  <2>1. /\ Len(s) = 2 /\ s[1].deps = {} /\ s[2].deps = {Needs(1, "id", TRUE)}
        /\ s[1].kind = "search" /\ s[2].kind = "view"
    BY <1>4 DEF Chain, Ask
  <2>2. IsFiniteSet({}) /\ IsFiniteSet({Needs(1, "id", TRUE)}) /\ Needs(1, "id", TRUE).at = 1
    BY FS_EmptySet, FS_Singleton DEF Needs
  <2>3. \A k \in 1..Len(s) : k = 1 \/ k = 2
    BY <2>1
  <2> HIDE DEF s
  <2>4. \A k \in 1..Len(s) :
          /\ IsFiniteSet(s[k].deps) /\ s[k].kind # "connection"
          /\ \A d, e \in s[k].deps : d.at = e.at => d = e
          /\ \A d \in s[k].deps : s[d.at].kind # "connection"
    <3> TAKE k \in 1..Len(s)
    <3>1. CASE k = 1
      BY <2>1, <2>2, <3>1
    <3>2. CASE k = 2
      BY <2>1, <2>2, <3>2
    <3> QED
      BY <2>3, <3>1, <3>2
  <2> QED
    BY <2>4 DEF Linked, s
<1>5. CASE o.tool \in {"setup_error_alerting", "setup_long_term_archival_index"}
  <2> DEFINE s == Chain(o)
  <2>1. Len(s) = 1 /\ s[1].deps = {} /\ s[1].kind # "connection"
    BY <1>5 DEF Chain, Ask
  <2>2. IsFiniteSet({})
    BY FS_EmptySet
  <2>3. \A k \in 1..Len(s) : k = 1
    BY <2>1
  <2> HIDE DEF s
  <2> QED
    BY <2>1, <2>2, <2>3, Zenon DEF Linked, s
<1> QED
  BY <1>1, <1>2, <1>3, <1>4, <1>5 DEF Blueprint

\* Each answer so far is to a request that was carried out, and the ids in them
\* are those the server gave out, in that order.
Answers(c) ==
  pc[c] = "chain" =>
    \A k \in 1..Len(answers[c]) :
      /\ Chain(op[c])[k].kind # "connection" =>
           \E y \in Made(op[c], k) : y.id < nextId /\ (answers[c][k].field # "none" => answers[c][k].id = y.id)
      /\ answers[c][k].field # "none" =>
           /\ answers[c][k].id < nextId
           /\ \A j \in 1..(k - 1) : answers[c][j].field # "none" => answers[c][j].id < answers[c][k].id

\* A connecting call writes what it read and what it was given.
Pending(c) == pc[c] = "write" => \A p \in body[c] : MadeFor(p, op[c].stream)

WireInv == Inv /\ nextId >= FirstId /\ WiredTogether /\ \A c \in Slots : Answers(c) /\ Pending(c)

\* Nothing on the server is taken away and the ids only grow.
Grows == objects \subseteq objects' /\ nextId' \in Nat /\ nextId' >= nextId

LEMMA MadeKept ==
  ASSUME Grows
  PROVE  \A o, k : Made(o, k) \subseteq Made(o, k)'
  BY DEF Grows, Made

LEMMA WellMadeKept ==
  ASSUME Grows, NEW x, WellMade(x)
  PROVE  WellMade(x)'
<1>1. \A o, k : Made(o, k) \subseteq Made(o, k)'
  BY MadeKept
<1>2. \A d \in Chain(x.op)[x.at].deps : \E y \in Made(x.op, d.at)' : y.id \in x.refs /\ y.id < x.id
  BY <1>1 DEF WellMade
<1>3. Kind(x) = "pipeline" =>
        \A k \in 1..(x.at - 1) : Chain(x.op)[k].kind = "rule" => \E y \in Made(x.op, k)' : y.id < x.id
  BY <1>1 DEF WellMade
<1>4. Cardinality(x.refs) = Cardinality(Chain(x.op)[x.at].deps)
  BY DEF WellMade
<1> QED
  BY <1>2, <1>3, <1>4 DEF WellMade

LEMMA MadeForKept ==
  ASSUME Grows, NEW p, NEW s, MadeFor(p, s)
  PROVE  MadeFor(p, s)'
<1>1. \A k, o : Made(o, k) \subseteq Made(o, k)'
  BY MadeKept
<1> QED
  BY <1>1 DEF MadeFor, Grows

\* A call whose own state does not change.
LEMMA AnswersKept ==
  ASSUME Inv, Grows, NEW c \in Slots, Answers(c), pc'[c] = pc[c], op'[c] = op[c], answers'[c] = answers[c]
  PROVE  Answers(c)'
<1>1. SUFFICES ASSUME pc[c] = "chain", NEW k \in 1..Len(answers[c])
               PROVE  /\ Chain(op[c])[k].kind # "connection" =>
                           \E y \in Made(op[c], k)' : y.id < nextId' /\ (answers[c][k].field # "none" => answers[c][k].id = y.id)
                      /\ answers[c][k].field # "none" =>
                           /\ answers[c][k].id < nextId'
                           /\ \A j \in 1..(k - 1) : answers[c][j].field # "none" => answers[c][j].id < answers[c][k].id
  BY DEF Answers
<1>2. /\ nextId \in Nat /\ nextId' \in Nat /\ nextId' >= nextId
      /\ \A y \in objects : y.id \in Nat
      /\ answers[c][k].id \in Nat
  <2>1. answers[c][k] \in Answer
    BY <1>1 DEF Inv, TypeOK
  <2> QED
    BY <2>1 DEF Grows, Inv, TypeOK, Id, Object, Answer
<1>3. ASSUME Chain(op[c])[k].kind # "connection"
      PROVE  \E y \in Made(op[c], k)' : y.id < nextId' /\ (answers[c][k].field # "none" => answers[c][k].id = y.id)
  <2>1. PICK y \in Made(op[c], k) : y.id < nextId /\ (answers[c][k].field # "none" => answers[c][k].id = y.id)
    BY <1>1, <1>3 DEF Answers
  <2> QED
    <3>1. y \in Made(op[c], k)' /\ y.id \in Nat
      BY <1>2, <2>1, MadeKept DEF Made
    <3>2. y.id < nextId'
      BY <1>2, <2>1, <3>1
    <3> QED
      BY <2>1, <3>1, <3>2
<1>4. ASSUME answers[c][k].field # "none"
      PROVE  /\ answers[c][k].id < nextId'
             /\ \A j \in 1..(k - 1) : answers[c][j].field # "none" => answers[c][j].id < answers[c][k].id
  <2>1. /\ answers[c][k].id < nextId
        /\ \A j \in 1..(k - 1) : answers[c][j].field # "none" => answers[c][j].id < answers[c][k].id
    BY <1>1, <1>4 DEF Answers
  <2> QED
    BY <1>2, <2>1
<1> QED
  BY <1>3, <1>4

LEMMA PendingKept ==
  ASSUME Grows, NEW c \in Slots, Pending(c), pc'[c] = pc[c], op'[c] = op[c], body'[c] = body[c]
  PROVE  Pending(c)'
  BY MadeForKept DEF Pending

\* What a request takes from earlier answers: the id of an object each of them
\* made, and never the same one twice.
LEMMA ValueMade ==
  ASSUME WireInv, NEW c \in Slots, pc[c] = "chain", NEW d \in Asked(c).deps, Resolved(c, d)
  PROVE  /\ Chain(op[c])[d.at].kind # "connection"
         /\ answers[c][d.at].id = Value(c, d)
         /\ \E y \in Made(op[c], d.at) : y.id = Value(c, d) /\ y.id < nextId
<1>1. /\ op[c] \in Operation /\ op[c].tool \in Blueprint /\ Len(answers[c]) + 1 \in 1..Len(Chain(op[c]))
      /\ d.at \in 1..Len(answers[c]) /\ d \in Dep
  BY AskedType DEF WireInv, Asking
<1>2. Chain(op[c])[d.at].kind # "connection"
  <2>1. Linked(op[c])
    BY <1>1, ChainLinked
  <2> QED
    BY <1>1, <2>1 DEF Linked, Asked
<1>3. answers[c][d.at].field # "none"
  BY <1>1 DEF Resolved, Dep
<1>4. PICK y \in Made(op[c], d.at) :
        y.id < nextId /\ (answers[c][d.at].field # "none" => answers[c][d.at].id = y.id)
  BY <1>1, <1>2 DEF WireInv, Answers
<1> QED
  BY <1>2, <1>3, <1>4 DEF Value

LEMMA ValuesDiffer ==
  ASSUME WireInv, NEW c \in Slots, pc[c] = "chain", NEW d \in Asked(c).deps, NEW e \in Asked(c).deps,
         Resolved(c, d), Resolved(c, e), d # e
  PROVE  Value(c, d) # Value(c, e)
<1>1. /\ op[c] \in Operation /\ op[c].tool \in Blueprint /\ Len(answers[c]) + 1 \in 1..Len(Chain(op[c]))
      /\ Len(answers[c]) \in Nat
      /\ d.at \in 1..Len(answers[c]) /\ d \in Dep /\ e.at \in 1..Len(answers[c]) /\ e \in Dep
  BY AskedType DEF WireInv, Asking
<1>2. d.at # e.at
  <2>1. Linked(op[c])
    BY <1>1, ChainLinked
  <2> QED
    BY <1>1, <2>1 DEF Linked, Asked
<1>3. answers[c][d.at].field # "none" /\ answers[c][e.at].field # "none"
  BY <1>1 DEF Resolved, Dep
<1>4. \A j, k \in 1..Len(answers[c]) :
        j < k /\ answers[c][j].field # "none" /\ answers[c][k].field # "none" => answers[c][j].id < answers[c][k].id
  <2> TAKE j, k \in 1..Len(answers[c])
  <2>1. j < k => j \in 1..(k - 1)
    BY <1>1
  <2> QED
    BY <2>1 DEF WireInv, Answers
<1>5. answers[c][d.at].id \in Nat /\ answers[c][e.at].id \in Nat
  <2>1. answers[c] \in Seq(Answer)
    BY DEF WireInv, Inv, TypeOK
  <2>2. answers[c][d.at] \in Answer /\ answers[c][e.at] \in Answer
    BY <1>1, <2>1
  <2> QED
    BY <2>2 DEF Answer
<1>6. answers[c][d.at].id # answers[c][e.at].id
  <2>1. d.at < e.at \/ e.at < d.at
    BY <1>1, <1>2
  <2>2. answers[c][d.at].id < answers[c][e.at].id \/ answers[c][e.at].id < answers[c][d.at].id
    BY <1>1, <1>3, <1>4, <2>1, Zenon
  <2> QED
    BY <1>5, <2>2
<1> QED
  BY <1>6 DEF Value

LEMMA ValuesCount ==
  ASSUME WireInv, NEW c \in Slots, pc[c] = "chain", \A d \in Asked(c).deps : Resolved(c, d)
  PROVE  Cardinality(Values(c)) = Cardinality(Asked(c).deps)
<1> DEFINE deps == Asked(c).deps
           f == [d \in deps |-> Value(c, d)]
<1>1. IsFiniteSet(deps)
  <2>1. /\ op[c] \in Operation /\ op[c].tool \in Blueprint /\ Len(answers[c]) + 1 \in 1..Len(Chain(op[c]))
    BY AskedType DEF WireInv
  <2>2. Linked(op[c])
    BY <2>1, ChainLinked
  <2> QED
    BY <2>1, <2>2 DEF Linked, Asked
<1>2. Values(c) = {f[d] : d \in deps}
  BY DEF Values
<1>3. \A d, e \in deps : f[d] = f[e] => d = e
  BY ValuesDiffer
<1>4. ExistsBijection(deps, Values(c))
  <2> HIDE DEF deps
  <2>1. f \in [deps -> Values(c)]
    BY DEF Values, deps
  <2>2. \A t \in Values(c) : \E d \in deps : f[d] = t
    BY <1>2
  <2> HIDE DEF f
  <2>3. f \in Injection(deps, Values(c)) /\ f \in Surjection(deps, Values(c))
    BY <1>3, <2>1, <2>2 DEF Injection, IsInjective, Surjection
  <2> QED
    BY <2>3 DEF ExistsBijection, Bijection
<1> QED
  BY <1>1, <1>4, FS_Bijection

\* The stream a blueprint connects its pipeline to.
LEMMA ConnectsTo ==
  ASSUME WireInv, NEW c \in Slots, pc[c] = "chain", Asked(c).kind = "connection",
         op[c].tool = "setup_app_monitoring_stack", \A d \in Asked(c).deps : Resolved(c, d)
  PROVE  \E y \in Made(op[c], 1) : y.id = ChainStream(c)
<1> DEFINE d == Needs(1, "stream_id", TRUE)
<1>1. Chain(op[c]) = MonitoringChain /\ Len(answers[c]) + 1 \in 1..Len(Chain(op[c]))
  BY AskedType DEF Chain, WireInv
<1>2. d \in Asked(c).deps
  BY <1>1, MonitoringConnects DEF Asked
<1>3. d.at = 1
  BY DEF Needs
<1> HIDE DEF d
<1>4. answers[c][d.at].id = Value(c, d) /\ \E y \in Made(op[c], d.at) : y.id = Value(c, d)
  BY <1>2, ValueMade
<1> QED
  BY <1>3, <1>4 DEF ChainStream

\* What a carried out request leaves is wired together.
LEMMA CarriedWired ==
  ASSUME WireInv, NEW c \in Slots, CanSend(c), Carried(c)
  PROVE  /\ Grows /\ nextId' = nextId + 1
         /\ WiredTogether'
         /\ Asked(c).kind # "connection" =>
              \E y \in objects' : y.op = op[c] /\ y.at = Len(answers[c]) + 1 /\ y.id = nextId
<1> DEFINE n == Len(answers[c])
<1>0. pc[c] = "chain" /\ Inv
  BY DEF CanSend, WireInv
<1>1. /\ op[c] \in Operation /\ op[c].tool \in Blueprint /\ n \in Nat /\ n + 1 \in 1..Len(Chain(op[c]))
      /\ \A d \in Asked(c).deps : d.at \in 1..n /\ (Asked(c).kind # "view" => d.checked)
  BY <1>0, AskedType
<1>2. \A d \in Asked(c).deps : Resolved(c, d)
  BY <1>1 DEF Carried, Connects, Creates, CanSend
<1>3. Grows /\ nextId' = nextId + 1 /\ nextId \in Nat
  BY <1>0 DEF Grows, Carried, Connects, Creates, Inv, TypeOK, Id
<1>4. CASE Connects(c)
  <2>1. \A x \in objects' : WellMade(x)'
    BY <1>3, <1>4, WellMadeKept DEF Connects, WireInv, WiredTogether
  <2>2. ASSUME NEW r \in conn', NEW p \in r.pipelines
        PROVE  MadeFor(p, r.stream)'
    <3>1. CASE r \in conn
      BY <1>3, <3>1, <2>2, MadeForKept DEF WireInv, WiredTogether
    <3>2. CASE r \notin conn
      <4>1. r.stream = ChainStream(c) /\ p \in Values(c) /\ p # ChainStream(c)
        BY <1>4, <2>2, <3>2 DEF Connects, Replace
      <4>2. PICK d \in Asked(c).deps : p = Value(c, d)
        BY <4>1 DEF Values
      <4>3. PICK y \in Made(op[c], d.at) : y.id = p
        BY <1>0, <1>2, <4>2, ValueMade
      <4>4. Chain(op[c])[d.at].kind = "pipeline"
        <5>1. Linked(op[c])
          BY <1>1, ChainLinked
        <5>2. Chain(op[c])[d.at].kind = "pipeline" \/ (op[c].tool = "setup_app_monitoring_stack" /\ d.at = 1)
          BY <1>1, <1>4, <5>1 DEF Linked, Asked, Connects
        <5>3. ~(op[c].tool = "setup_app_monitoring_stack" /\ d.at = 1)
          BY <1>0, <1>2, <4>1, <4>2, ValueMade DEF ChainStream
        <5> QED
          BY <5>2, <5>3
      <4>5. y \in objects /\ y.op = op[c] /\ y.id = p /\ Kind(y) = "pipeline"
        BY <4>3, <4>4 DEF Made, Kind
      <4>6. IF y.op.tool = "setup_app_monitoring_stack"
            THEN \E z \in Made(y.op, 1) : z.id = r.stream
            ELSE r.stream = y.op.stream
        <5>1. CASE y.op.tool = "setup_app_monitoring_stack"
          BY <1>0, <1>2, <1>4, <4>1, <4>5, <5>1, ConnectsTo DEF Connects
        <5>2. CASE y.op.tool # "setup_app_monitoring_stack"
          BY <4>1, <4>5, <5>2 DEF ChainStream
        <5> QED
          BY <5>1, <5>2
      <4>7. MadeFor(p, r.stream)
        BY <4>5, <4>6 DEF MadeFor
      <4> QED
        BY <1>3, <4>7, MadeForKept
    <3> QED
      BY <3>1, <3>2
  <2> QED
    BY <1>3, <1>4, <2>1, <2>2 DEF WiredTogether, Connects
<1>5. CASE Creates(c)
  <2> DEFINE x == [id |-> nextId, op |-> op[c], at |-> n + 1, refs |-> Values(c)]
  <2>1. objects' = objects \union {x} /\ conn' = conn /\ x \in objects'
    BY <1>5 DEF Creates
  <2>2. PICK z : z = x
    OBVIOUS
  <2>3. z.id = nextId /\ z.op = op[c] /\ z.at = n + 1 /\ z.refs = Values(c) /\ Chain(z.op)[z.at] = Asked(c)
    BY <2>2 DEF Asked
  <2>4. WellMade(z)
    <3>1. \A d \in Asked(c).deps : \E y \in Made(z.op, d.at) : y.id \in z.refs /\ y.id < z.id
      <4> TAKE d \in Asked(c).deps
      <4>1. PICK y \in Made(op[c], d.at) : y.id = Value(c, d) /\ y.id < nextId
        BY <1>0, <1>2, ValueMade
      <4> QED
        BY <2>3, <4>1 DEF Values
    <3>2. Cardinality(z.refs) = Cardinality(Asked(c).deps)
      BY <1>0, <1>2, <2>3, ValuesCount
    <3>3. \A k \in 1..(z.at - 1) : Chain(z.op)[k].kind = "rule" => \E y \in Made(z.op, k) : y.id < z.id
      <4> TAKE k \in 1..(z.at - 1)
      <4>1. k \in 1..n
        BY <1>1, <2>3
      <4> QED
        BY <1>0, <2>3, <4>1 DEF WireInv, Answers
    <3> QED
      BY <2>3, <3>1, <3>2, <3>3 DEF WellMade
  <2>5. \A y \in objects' : WellMade(y)'
    <3>1. \A y \in objects' : y \in objects \/ y = z
      BY <2>1, <2>2
    <3> HIDE DEF x
    <3>2. \A y \in objects : WellMade(y)
      BY DEF WireInv, WiredTogether
    <3> QED
      BY <1>3, <2>4, <3>1, <3>2, WellMadeKept
  <2>6. \A r \in conn' : \A p \in r.pipelines : MadeFor(p, r.stream)'
    BY <1>3, <2>1, MadeForKept DEF WireInv, WiredTogether
  <2>7. z \in objects' /\ z.op = op[c] /\ z.at = n + 1 /\ z.id = nextId
    BY <2>1, <2>2, <2>3
  <2> QED
    BY <1>3, <2>5, <2>6, <2>7 DEF WiredTogether
<1> QED
  BY <1>4, <1>5 DEF Carried

LEMMA WireInit ==
  ASSUME Init
  PROVE  WireInv
<1>1. WiredTogether
  <2>1. \A r \in conn : \A p \in r.pipelines : p < FirstId /\ p \in Nat
    BY UnusedAssumption DEF Init, Connection, Id
  <2>2. \A r \in conn : \A p \in r.pipelines : MadeFor(p, r.stream)
    BY <2>1 DEF MadeFor, Id
  <2> QED
    BY <2>2 DEF WiredTogether, Init
<1>2. nextId >= FirstId /\ \A c \in Slots : Answers(c) /\ Pending(c)
  BY DEF Init, Answers, Pending, Id
<1> QED
  BY <1>1, <1>2, InvInit DEF WireInv

\* A step after which the server still has what it had, each of its connections
\* being one it had or one of a pipeline made for it.
LEMMA WiredKept ==
  ASSUME WireInv, objects' = objects, nextId' = nextId,
         NEW s, NEW now, \A p \in now : MadeFor(p, s), conn' = conn \/ conn' = Replace(s, now)
  PROVE  Grows /\ nextId' >= FirstId /\ WiredTogether'
<1>1. Grows /\ nextId' >= FirstId
  BY DEF WireInv, Inv, TypeOK, Grows, Id
<1>2. \A x \in objects' : WellMade(x)'
  BY <1>1, WellMadeKept DEF WireInv, WiredTogether
<1>3. ASSUME NEW r \in conn', NEW p \in r.pipelines
      PROVE  MadeFor(p, r.stream)'
  <2>1. r \in conn \/ (r.stream = s /\ r.pipelines = now)
    BY <1>3 DEF Replace
  <2>2. MadeFor(p, r.stream)
    BY <1>3, <2>1 DEF WireInv, WiredTogether
  <2> QED
    BY <1>1, <2>2, MadeForKept
<1> QED
  BY <1>1, <1>2, <1>3 DEF WiredTogether

LEMMA ServerKept ==
  ASSUME WireInv, objects' = objects, nextId' = nextId, conn' = conn
  PROVE  Grows /\ nextId' >= FirstId /\ WiredTogether'
<1>1. Grows /\ nextId' >= FirstId
  BY DEF WireInv, Inv, TypeOK, Grows, Id
<1> QED
  BY <1>1, WellMadeKept, MadeForKept DEF WireInv, WiredTogether

\* What is connected to a stream is known, or was made for it.
LEMMA ConnectedMadeFor ==
  ASSUME WireInv, NEW s, NEW p \in Connected(s)
  PROVE  MadeFor(p, s)
<1>1. PICK r \in conn : r.stream = s /\ p \in r.pipelines
  BY DEF Connected, Record
<1> QED
  BY <1>1 DEF WireInv, WiredTogether

LEMMA NamedMadeFor ==
  ASSUME NEW o \in Operations, NEW p \in o.pipelines, NEW s
  PROVE  MadeFor(p, s)
  BY DEF MadeFor, Named

LEMMA WireStart ==
  ASSUME WireInv, NEW c \in Slots, Call(c)
  PROVE  WireInv'
<1>1. PICK o \in Operations, dry \in BOOLEAN : Start(c, o, dry)
  BY DEF Call
<1>2. Inv'
  BY <1>1, InvStart DEF WireInv
<1>3. Grows /\ nextId' >= FirstId /\ WiredTogether'
  BY <1>1, ServerKept DEF Start
<1>4. Answers(c)' /\ Pending(c)'
  <2>1. answers'[c] = <<>> /\ pc'[c] # "write"
    BY <1>1 DEF Start, WireInv, Inv, TypeOK
  <2>2. Len(answers'[c]) = 0 /\ 1..0 = {}
    BY <2>1
  <2> QED
    BY <2>1, <2>2 DEF Answers, Pending
<1>5. \A d \in Slots : d # c => Answers(d)' /\ Pending(d)'
  BY <1>1, <1>3, AnswersKept, PendingKept DEF Start, WireInv, Inv, TypeOK
<1> QED
  BY <1>2, <1>3, <1>4, <1>5 DEF WireInv

\* A chain that ends.
LEMMA WireReport ==
  ASSUME WireInv, NEW c \in Slots, Unresolved(c) \/ ChainFails(c)
  PROVE  WireInv'
<1>1. Inv'
  BY InvUnresolved, InvChainFails DEF WireInv
<1>2. Grows /\ nextId' >= FirstId /\ WiredTogether'
  <2>1. CASE CanSend(c) /\ Carried(c)
    BY <2>1, CarriedWired DEF WireInv, Inv, TypeOK, Id
  <2>2. CASE objects' = objects /\ conn' = conn /\ nextId' = nextId
    BY <2>2, ServerKept
  <2> QED
    BY <2>1, <2>2 DEF Unresolved, ChainFails, NotCarried
<1>3. /\ pc'[c] \in Failed /\ op' = op /\ answers' = answers /\ body' = body
      /\ \A d \in Slots : d # c => pc'[d] = pc[d]
  BY DEF Unresolved, ChainFails, Report, Ends, Failed, WireInv, Inv, TypeOK
<1>4. Answers(c)' /\ Pending(c)'
  BY <1>3 DEF Answers, Pending, Failed
<1>5. \A d \in Slots : d # c => Answers(d)' /\ Pending(d)'
  BY <1>2, <1>3, AnswersKept, PendingKept DEF WireInv
<1> QED
  BY <1>1, <1>2, <1>4, <1>5 DEF WireInv

LEMMA WireAnswered ==
  ASSUME WireInv, NEW c \in Slots, Answered(c)
  PROVE  WireInv'
<1> DEFINE n == Len(answers[c])
<1>0. CanSend(c) /\ Carried(c) /\ pc[c] = "chain" /\ Inv
  BY DEF Answered, CanSend, WireInv
<1>1. Inv'
  BY InvAnswered DEF WireInv
<1>2. /\ Grows /\ nextId' = nextId + 1 /\ nextId \in Nat /\ WiredTogether'
      /\ Asked(c).kind # "connection" =>
           \E y \in objects' : y.op = op[c] /\ y.at = n + 1 /\ y.id = nextId
  BY <1>0, CarriedWired DEF Inv, TypeOK, Id
<1>3. PICK a \in Answer : /\ answers' = [answers EXCEPT ![c] = Append(answers[c], a)]
                          /\ a.field # "none" => a.id = nextId
  <2>1. [field |-> "none", id |-> Missing] \in Answer
    BY DEF Answer, Fields, Missing
  <2>2. [field |-> Field(Asked(c).kind), id |-> nextId] \in Answer
    BY <1>2 DEF Answer, Fields, Field
  <2> QED
    BY <2>1, <2>2 DEF Answered
<1>4. /\ n \in Nat /\ answers[c] \in Seq(Answer) /\ op' = op /\ body' = body
      /\ \A d \in Slots : d # c => pc'[d] = pc[d] /\ answers'[d] = answers[d]
      /\ pc'[c] # "write"
  <2>1. n \in Nat /\ answers[c] \in Seq(Answer)
    BY <1>0, AskedType
  <2> QED
    BY <1>0, <1>3, <2>1 DEF Answered, Ends, Inv, TypeOK
<1>5. /\ Len(answers'[c]) = n + 1
      /\ \A k \in 1..n : answers'[c][k] = answers[c][k]
      /\ answers'[c][n + 1] = a
  BY <1>0, <1>3, <1>4, AppendProperties DEF Inv, TypeOK
<1>6. Answers(c)'
  <2>1. SUFFICES ASSUME NEW k \in 1..(n + 1)
                 PROVE  /\ Chain(op[c])[k].kind # "connection" =>
                             \E y \in Made(op[c], k)' : /\ y.id < nextId'
                                                        /\ answers'[c][k].field # "none" => answers'[c][k].id = y.id
                        /\ answers'[c][k].field # "none" =>
                             /\ answers'[c][k].id < nextId'
                             /\ \A j \in 1..(k - 1) :
                                  answers'[c][j].field # "none" => answers'[c][j].id < answers'[c][k].id
    BY <1>4, <1>5 DEF Answers
  <2> DEFINE o == op[c]
             b == answers[c]
  <2>2. \A i \in 1..n :
          /\ Chain(o)[i].kind # "connection" =>
               \E y \in Made(o, i) : y.id < nextId /\ (b[i].field # "none" => b[i].id = y.id)
          /\ b[i].field # "none" =>
               /\ b[i].id < nextId
               /\ \A j \in 1..(i - 1) : b[j].field # "none" => b[j].id < b[i].id
    BY <1>0 DEF WireInv, Answers
  <2>3. (\A i \in 1..n : b[i].id \in Nat) /\ \A y \in objects : y.id \in Nat
    <3>1. \A i \in 1..n : b[i] \in Answer
      BY <1>4
    <3> QED
      BY <1>0, <3>1 DEF Answer, Inv, TypeOK, Object, Id
  <2>4. CASE k \in 1..n
    <3>0. \A j \in 1..(k - 1) : j \in 1..n
      BY <1>4, <2>4
    <3>1. answers'[c][k] = b[k] /\ \A j \in 1..(k - 1) : answers'[c][j] = b[j]
      BY <1>5, <2>4, <3>0
    <3>2. ASSUME Chain(o)[k].kind # "connection"
          PROVE  \E y \in Made(o, k)' : y.id < nextId' /\ (b[k].field # "none" => b[k].id = y.id)
      <4>1. PICK y \in Made(o, k) : y.id < nextId /\ (b[k].field # "none" => b[k].id = y.id)
        BY <2>2, <2>4, <3>2
      <4>2. y \in Made(o, k)' /\ y.id \in Nat
        BY <1>2, <1>4, <2>3, <4>1 DEF Made, Grows
      <4>3. y.id < nextId'
        BY <1>2, <4>1, <4>2
      <4> QED
        BY <4>1, <4>2, <4>3
    <3>3. b[k].field # "none" =>
            /\ b[k].id < nextId'
            /\ \A j \in 1..(k - 1) : b[j].field # "none" => b[j].id < b[k].id
      <4> HIDE DEF b, o
      <4>1. SUFFICES ASSUME b[k].field # "none"
                     PROVE  b[k].id < nextId' /\ \A j \in 1..(k - 1) : b[j].field # "none" => b[j].id < b[k].id
        OBVIOUS
      <4>2. b[k].id < nextId /\ \A j \in 1..(k - 1) : b[j].field # "none" => b[j].id < b[k].id
        BY <2>2, <2>4, <4>1
      <4>3. b[k].id < nextId'
        BY <1>2, <2>3, <2>4, <4>2
      <4> QED
        BY <4>2, <4>3
    <3> QED
      BY <3>1, <3>2, <3>3
  <2>5. CASE k = n + 1
    <3>1. answers'[c][k] = a /\ Chain(o)[k] = Asked(c) /\ \A j \in 1..(k - 1) : j \in 1..n /\ answers'[c][j] = b[j]
      BY <1>4, <1>5, <2>5 DEF Asked
    <3>2. ASSUME Chain(o)[k].kind # "connection"
          PROVE  \E y \in Made(o, k)' : y.id < nextId' /\ (a.field # "none" => a.id = y.id)
      <4>1. PICK y \in objects' : y.op = o /\ y.at = n + 1 /\ y.id = nextId
        BY <1>2, <3>1, <3>2
      <4>2. y \in Made(o, k)'
        BY <1>4, <2>5, <4>1 DEF Made
      <4> QED
        BY <1>2, <1>3, <4>1, <4>2
    <3>3. a.field # "none" => a.id < nextId' /\ \A j \in 1..(k - 1) : b[j].field # "none" => b[j].id < a.id
      BY <1>2, <1>3, <2>2, <3>1
    <3> QED
      BY <3>1, <3>2, <3>3
  <2> QED
    BY <1>4, <2>4, <2>5
<1>7. \A d \in Slots : d # c => Answers(d)' /\ Pending(d)'
  BY <1>0, <1>2, <1>4, AnswersKept, PendingKept DEF WireInv
<1>8. nextId' >= FirstId /\ Pending(c)'
  BY <1>2, <1>4 DEF WireInv, Pending, Id
<1> QED
  BY <1>1, <1>2, <1>6, <1>7, <1>8 DEF WireInv

LEMMA WireRead ==
  ASSUME WireInv, NEW c \in Slots, ReadConnections(c)
  PROVE  WireInv'
<1>1. Inv' /\ op[c] \in Operations
  BY InvReadConnections DEF WireInv, Inv, TypeOK
<1>2. Grows /\ nextId' >= FirstId /\ WiredTogether'
  BY ServerKept DEF ReadConnections
<1>3. /\ op' = op /\ answers' = answers /\ pc'[c] # "chain"
      /\ \A d \in Slots : d # c => pc'[d] = pc[d] /\ body'[d] = body[d]
  BY DEF ReadConnections, Ends, WireInv, Inv, TypeOK
<1>4. Pending(c)'
  <2>1. SUFFICES ASSUME pc'[c] = "write", NEW p \in body'[c]
                 PROVE  MadeFor(p, op[c].stream)'
    BY DEF Pending
  <2>2. body'[c] = Wanted(op[c], Connected(op[c].stream))
    BY <2>1 DEF ReadConnections, Ends, WireInv, Inv, TypeOK
  <2>3. p \in Connected(op[c].stream) \/ p \in op[c].pipelines
    BY <2>1, <2>2 DEF Wanted
  <2>4. PICK s : s = op[c].stream
    OBVIOUS
  <2>5. MadeFor(p, s)
    <3>1. CASE p \in Connected(s)
      BY <3>1, ConnectedMadeFor
    <3>2. CASE p \in op[c].pipelines
      BY <1>1, <3>2, NamedMadeFor
    <3> QED
      BY <2>3, <2>4, <3>1, <3>2
  <2>6. MadeFor(p, s)'
    BY <1>2, <2>5, MadeForKept
  <2> QED
    <3>1. (op[c].stream)' = s
      BY <1>3, <2>4
    <3> QED
      BY <2>6, <3>1
<1>5. Answers(c)' /\ \A d \in Slots : d # c => Answers(d)' /\ Pending(d)'
  BY <1>2, <1>3, AnswersKept, PendingKept DEF WireInv, Answers
<1> QED
  BY <1>1, <1>2, <1>4, <1>5 DEF WireInv

LEMMA WireWrite ==
  ASSUME WireInv, NEW c \in Slots, WriteConnections(c)
  PROVE  WireInv'
<1>1. Inv'
  BY InvWriteConnections DEF WireInv
<1>2. Grows /\ nextId' >= FirstId /\ WiredTogether'
  <2>1. \A p \in body[c] : MadeFor(p, op[c].stream)
    BY DEF WireInv, Pending, WriteConnections
  <2>2. PICK s, now : s = op[c].stream /\ now = body[c]
    OBVIOUS
  <2>3. \A p \in now : MadeFor(p, s)
    BY <2>1, <2>2
  <2>4. objects' = objects /\ nextId' = nextId /\ (conn' = conn \/ conn' = Replace(s, now))
    BY <2>2 DEF WriteConnections
  <2> QED
    BY <2>3, <2>4, WiredKept
<1>3. /\ op' = op /\ answers' = answers /\ body' = body /\ pc'[c] \notin {"chain", "write"}
      /\ \A d \in Slots : d # c => pc'[d] = pc[d]
  BY DEF WriteConnections, Ends, WireInv, Inv, TypeOK
<1>4. Answers(c)' /\ Pending(c)'
  BY <1>3 DEF Answers, Pending
<1>5. \A d \in Slots : d # c => Answers(d)' /\ Pending(d)'
  BY <1>2, <1>3, AnswersKept, PendingKept DEF WireInv
<1> QED
  BY <1>1, <1>2, <1>4, <1>5 DEF WireInv

LEMMA WireReconnect ==
  ASSUME WireInv, NEW o \in Operations, NEW p \in o.pipelines, Reconnect(o.stream, p)
  PROVE  WireInv'
<1> DEFINE s == o.stream
<1>1. Inv'
  BY InvReconnect DEF WireInv
<1>2. PICK now : now = IF p \in Connected(s) THEN Connected(s) \ {p} ELSE Connected(s) \union {p}
  OBVIOUS
<1>3. \A q \in now : MadeFor(q, s)
  BY <1>2, ConnectedMadeFor, NamedMadeFor
<1>4. objects' = objects /\ nextId' = nextId /\ conn' = Replace(s, now)
  BY <1>2 DEF Reconnect
<1>5. Grows /\ nextId' >= FirstId /\ WiredTogether'
  BY <1>3, <1>4, WiredKept
<1>6. \A d \in Slots : Answers(d)' /\ Pending(d)'
  BY <1>5, AnswersKept, PendingKept DEF WireInv, Reconnect, calls
<1> QED
  BY <1>1, <1>5, <1>6 DEF WireInv

LEMMA WireNext ==
  ASSUME WireInv, [Next]_vars
  PROVE  WireInv'
<1>1. CASE UNCHANGED vars
  <2>1. Inv'
    BY InvNext DEF WireInv
  <2>2. Grows /\ nextId' >= FirstId /\ WiredTogether'
    BY <1>1, ServerKept DEF vars
  <2>3. \A d \in Slots : Answers(d)' /\ Pending(d)'
    BY <1>1, <2>2, AnswersKept, PendingKept DEF WireInv, vars, calls
  <2> QED
    BY <2>1, <2>2, <2>3 DEF WireInv
<1> QED
  BY <1>1, WireStart, WireReport, WireAnswered, WireRead, WireWrite, WireReconnect DEF Next, Step

\* However blueprints are interleaved, retried and cut short, and whatever the
\* server leaves out of its answers, no object refers to anything but what its
\* chain says and made before it, and no pipeline a blueprint made is connected
\* to a stream it was not made for.
THEOREM BlueprintsWire == Spec => []WiredTogether
<1>1. Init => WireInv
  BY WireInit
<1>2. WireInv /\ [Next]_vars => WireInv'
  BY WireNext
<1>3. WireInv => WiredTogether
  BY DEF WireInv
<1> QED
  BY <1>1, <1>2, <1>3, PTL DEF Spec
=============================================================================
