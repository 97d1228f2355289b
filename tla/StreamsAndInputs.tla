---------------------------- MODULE StreamsAndInputs ----------------------------
(***************************************************************************)
(* The tools for streams and their rules (tools/streams, delete_stream has *)
(* a module of its own) and for inputs and their extractors (tools/inputs).*)
(* One rule of each stream and one extractor of each input stand for all.  *)
(*                                                                         *)
(* An input's configuration is one field, which may be a secret: which     *)
(* types have it encrypted is in the type catalogue, asked for once.       *)
(***************************************************************************)
EXTENDS MutatingTool, EncryptedFields

CONSTANTS StreamIds, NonEditable,  \* the streams; those with is_editable false
          InputIds, InputTypes, RuleTypes, ExtractorTypes, DocTitles, Values,
          NoDoc, NoCatalogue,      \* model values: there is none; empty cache
          DocOps,                  \* the arguments agents call the tools with
          DocStarts,               \* what the server may hold to begin with
          MaxDocEdits              \* bound: changes made by other users

StreamDoc    == [title : DocTitles, disabled : BOOLEAN]
RuleDoc      == [type : RuleTypes, value : Values]
InputDoc     == [type : InputTypes, title : DocTitles, secret : Stored, running : BOOLEAN]
ExtractorDoc == [type : ExtractorTypes, title : DocTitles, order : Values]
StreamTools    == {"create_stream", "update_stream", "pause_stream", "start_stream"}
RuleDocTools   == {"create_stream_rule", "update_stream_rule", "delete_stream_rule"}
InputTools     == {"create_input", "update_input", "delete_input", "start_input", "stop_input"}
ExtractorTools == {"create_extractor", "update_extractor", "delete_extractor"}
\* title, type, value (of a stream rule, or an extractor's order) and config are {}
\* when omitted.  A creation names the id the server will assign.
DocOp == [tool : StreamTools \union RuleDocTools \union InputTools \union ExtractorTools,
          id : StreamIds \union InputIds, title : SUBSET DocTitles, value : SUBSET Values,
          type : SUBSET (RuleTypes \union InputTypes \union ExtractorTypes), config : SUBSET Given]
DocStart == [streams : [StreamIds -> StreamDoc \union {NoDoc}], rules : [StreamIds -> RuleDoc \union {NoDoc}],
             inputs : [InputIds -> InputDoc \union {NoDoc}],
             extractors : [InputIds -> ExtractorDoc \union {NoDoc}], encrypted : SUBSET InputTypes]

ASSUME DocOpsAssumption ==
  /\ DocOps \subseteq DocOp
  /\ \A op \in DocOps :
       /\ AtMostOne(op.title) /\ AtMostOne(op.value) /\ AtMostOne(op.type) /\ AtMostOne(op.config)
       /\ op.id \in IF op.tool \in StreamTools \union RuleDocTools THEN StreamIds ELSE InputIds
       /\ op.tool \in {"create_stream", "create_input", "create_extractor"} => op.title # {}
       /\ op.tool \in {"create_stream_rule", "create_extractor"} => op.value # {}
       /\ op.tool = "create_stream_rule" => op.type # {} /\ op.type \subseteq RuleTypes
       /\ op.tool = "create_input"       => op.type # {} /\ op.type \subseteq InputTypes /\ op.config # {}
       /\ op.tool = "create_extractor"   => op.type # {} /\ op.type \subseteq ExtractorTypes
       /\ op.config # {} => op.tool \in {"create_input", "update_input"}
ASSUME DocStartsAssumption == DocStarts \subseteq DocStart
ASSUME DocNothingsAssumption ==
  /\ NoDoc \notin StreamDoc \union RuleDoc \union InputDoc \union ExtractorDoc
  /\ NothingGot \notin RuleDoc \union InputDoc \union ExtractorDoc
  /\ \A ts \in SUBSET InputTypes : NoCatalogue # ts
ASSUME DocBoundsAssumption == MaxDocEdits \in Nat

VARIABLES
  streams, streamRules, inputs, extractors,   \* what the server holds
  encrypted,      \* the input types whose configuration field is a secret
  typeCatalogue,  \* getCachedTypeCatalogue's cache: those types as first fetched
  seen,           \* history: the field's values that previews have shown, by input type
  docDrift,       \* history: what changed under an update after it read it
  docEdits        \* bound: changes made by other users

docWorld == <<streams, streamRules, inputs, extractors, encrypted, typeCatalogue, seen, docDrift, docEdits>>
docVars  == <<callVars, docWorld>>
docServer == <<streams, streamRules, inputs, extractors>>

DocFields == {"type", "title", "value", "order"}
DocLabels == {"list", "types", "get_stream", "get_stream_rule", "get_input", "get_extractor",
              "list_extractors", "build", "write"}
DocRead   == RuleDoc \union InputDoc \union ExtractorDoc

DocTypeOK ==
  /\ CallsTypeOK(DocLabels, Request(DocOps, {}), DocRead, {})
  /\ streams \in [StreamIds -> StreamDoc \union {NoDoc}]
  /\ streamRules \in [StreamIds -> RuleDoc \union {NoDoc}]
  /\ inputs \in [InputIds -> InputDoc \union {NoDoc}]
  /\ extractors \in [InputIds -> ExtractorDoc \union {NoDoc}]
  /\ encrypted \in SUBSET InputTypes
  /\ typeCatalogue \in (SUBSET InputTypes) \union {NoCatalogue}
  /\ seen \in SUBSET [type : InputTypes, value : Secrets]
  /\ docDrift \in [Slots -> SUBSET DocFields]
  /\ docEdits \in 0..MaxDocEdits

DocWorldInit ==
  /\ \E s \in DocStarts :
       /\ streams = s.streams /\ streamRules = s.rules /\ inputs = s.inputs
       /\ extractors = s.extractors /\ encrypted = s.encrypted
  /\ typeCatalogue = NoCatalogue
  /\ seen = {}
  /\ docDrift = [c \in Slots |-> {}]
  /\ docEdits = 0
DocInit == CallsInit /\ DocWorldInit

-----------------------------------------------------------------------------
TheOne(S) == CHOOSE x \in S : TRUE
Or(given, current) == IF given # {} THEN TheOne(given) ELSE current    \* given ?? current

DocsUnchanged == UNCHANGED docWorld
DocReturns(c, how) ==
  /\ Finish(c, how)
  /\ docDrift' = [docDrift EXCEPT ![c] = {}]
  /\ UNCHANGED <<docServer, encrypted, typeCatalogue, seen, docEdits>>
\* A call without a confirmation token comes to its gate; a preview may show values.
DocGate(c, g, values) ==
  /\ Gate(c, {}, "write", g)
  /\ seen' = IF req[c].dryRun THEN seen \union values ELSE seen
  /\ docDrift' = IF req[c].dryRun THEN [docDrift EXCEPT ![c] = {}] ELSE docDrift
  /\ UNCHANGED <<docServer, encrypted, docEdits>>

-----------------------------------------------------------------------------
FirstDoc(op) ==
  CASE op.tool \in {"create_stream", "create_extractor"}                  -> "list"
    [] op.tool = "create_input"                                           -> "types"
    [] op.tool \in (StreamTools \ {"create_stream"}) \union RuleDocTools  -> "get_stream"
    [] op.tool = "update_input"                                           -> "get_input"
    [] op.tool = "update_extractor"                                       -> "get_extractor"
    [] op.tool = "delete_input"                                           -> "list_extractors"
    [] op.tool \in {"start_input", "stop_input", "delete_extractor"}      -> "build"
DocBegin(c) == \E op \in DocOps : Begin(c, op, FirstDoc(op)) /\ DocsUnchanged

\* Mutant of Immutable: system streams are like the others.
ImmutableNever(s) == FALSE
Immutable(s) == s \in NonEditable           \* is_editable === false: stream_immutable
GetStream(c) ==
  /\ pc[c] = "get_stream" /\ streams[req[c].op.id] # NoDoc
  /\ \/ Immutable(req[c].op.id) /\ DocReturns(c, "refused")
     \/ /\ ~Immutable(req[c].op.id) /\ req[c].op.tool = "update_stream_rule"
        /\ Continue(c, "get_stream_rule", NothingGot) /\ DocsUnchanged
     \/ /\ ~Immutable(req[c].op.id) /\ req[c].op.tool # "update_stream_rule"
        /\ DocGate(c, NothingGot, {}) /\ UNCHANGED typeCatalogue
\* A GET whose answer the PUT repeats.
GetDoc(c, label, docs) ==
  /\ pc[c] = label /\ docs[req[c].op.id] # NoDoc
  /\ DocGate(c, docs[req[c].op.id], {}) /\ UNCHANGED typeCatalogue
GetStreamRule(c) == GetDoc(c, "get_stream_rule", streamRules)
GetExtractor(c)  == GetDoc(c, "get_extractor", extractors)
GetInput(c) ==
  /\ pc[c] = "get_input" /\ inputs[req[c].op.id] # NoDoc
  /\ Continue(c, "types", inputs[req[c].op.id]) /\ DocsUnchanged
\* The type of the input a call works on: its own, which an update cannot change.
TypeOf(c) == IF req[c].op.tool = "create_input" THEN TheOne(req[c].op.type) ELSE got[c].type
Throws(c, known) == \E g \in req[c].op.config : EncodeForWire(g, TypeOf(c) \in known) = {}
Reveals(c, known) ==
  UNION {{[type |-> TypeOf(c), value |-> v] : v \in Shown(g, TypeOf(c) \in known)} : g \in req[c].op.config}
\* getCachedTypeCatalogue; update_input goes on to its bodies, create_input first to
\* findExistingMatches, which refuses nothing.
KnownTypes == IF typeCatalogue = NoCatalogue THEN encrypted ELSE typeCatalogue
Types(c) ==
  /\ pc[c] = "types"
  /\ typeCatalogue' = KnownTypes
  /\ \/ /\ req[c].op.tool = "create_input" /\ Continue(c, "list", NothingGot)
        /\ UNCHANGED <<docServer, encrypted, seen, docDrift, docEdits>>
     \/ /\ req[c].op.tool = "update_input" /\ ~Throws(c, KnownTypes)
        /\ DocGate(c, got[c], Reveals(c, KnownTypes))
     \/ /\ req[c].op.tool = "update_input" /\ Throws(c, KnownTypes) /\ Finish(c, "refused")
        /\ docDrift' = [docDrift EXCEPT ![c] = {}]
        /\ UNCHANGED <<docServer, encrypted, seen, docEdits>>
List(c) ==
  /\ pc[c] = "list"
  /\ \/ ~Throws(c, typeCatalogue) /\ DocGate(c, NothingGot, Reveals(c, typeCatalogue)) /\ UNCHANGED typeCatalogue
     \/ Throws(c, typeCatalogue) /\ DocReturns(c, "refused")
\* delete_input lists the extractors for the preview, whatever the answer is.
ListExtractors(c) == pc[c] = "list_extractors" /\ DocGate(c, NothingGot, {}) /\ UNCHANGED typeCatalogue
\* A build() that asks the server nothing.
Build(c) == pc[c] = "build" /\ DocGate(c, NothingGot, {}) /\ UNCHANGED typeCatalogue
DocReadFails(c) ==
  \/ pc[c] \in {"list", "get_stream", "get_stream_rule", "get_input", "get_extractor"} /\ DocReturns(c, "refused")
  \/ pc[c] = "types" /\ typeCatalogue = NoCatalogue /\ DocReturns(c, "refused")

-----------------------------------------------------------------------------
\* The server's documents become ss, rs, is and es: what changes under an update
\* that has read the document its PUT repeats.
Differ(a, b, fs) == IF a = NoDoc \/ b = NoDoc THEN fs ELSE {f \in fs : a[f] # b[f]}
DocsDrift(rs, is, es) ==
  [c \in Slots |->
     IF got[c] = NothingGot THEN docDrift[c]
     ELSE LET id == req[c].op.id
          IN docDrift[c] \union
             CASE req[c].op.tool = "update_stream_rule" -> Differ(rs[id], streamRules[id], {"type", "value"})
               [] req[c].op.tool = "update_input"       -> Differ(is[id], inputs[id], {"type", "title"})
               [] req[c].op.tool = "update_extractor"   -> Differ(es[id], extractors[id], {"type", "title", "order"})]
\* A write that the server carries out, and whose answer may be lost.
DocsBecome(c, ss, rs, is, es) ==
  /\ streams' = ss /\ streamRules' = rs /\ inputs' = is /\ extractors' = es
  /\ docDrift' = [DocsDrift(rs, is, es) EXCEPT ![c] = {}]
  /\ \E how \in {"done", "failed"} : Finish(c, how)
  /\ UNCHANGED <<encrypted, typeCatalogue, seen, docEdits>>

\* The PUT of a stream carries the given fields only.
NewStream(op, s) ==
  CASE op.tool = "create_stream" -> [title |-> TheOne(op.title), disabled |-> TRUE]
    [] op.tool = "update_stream" -> [title |-> Or(op.title, streams[s].title), disabled |-> streams[s].disabled]
    [] op.tool = "pause_stream"  -> [title |-> streams[s].title, disabled |-> TRUE]
    [] op.tool = "start_stream"  -> [title |-> streams[s].title, disabled |-> FALSE]
WriteStream(c) ==
  LET op == req[c].op
      s  == op.id
  IN /\ pc[c] = "write" /\ op.tool \in StreamTools
     /\ (streams[s] = NoDoc) = (op.tool = "create_stream")
     /\ DocsBecome(c, [streams EXCEPT ![s] = NewStream(op, s)], streamRules, inputs, extractors)
\* The type is required on the wire: an update repeats the one it has read.
WriteStreamRule(c) ==
  LET op == req[c].op
      s  == op.id
  IN /\ pc[c] = "write" /\ op.tool \in RuleDocTools /\ streams[s] # NoDoc
     /\ (streamRules[s] = NoDoc) = (op.tool = "create_stream_rule")
     /\ \E r \in CASE op.tool = "create_stream_rule" -> {[type |-> TheOne(op.type), value |-> TheOne(op.value)]}
                   [] op.tool = "update_stream_rule" -> {[type  |-> got[c].type,
                                                          value |-> Or(op.value, streamRules[s].value)]}
                   [] op.tool = "delete_stream_rule" -> {NoDoc} :
          DocsBecome(c, streams, [streamRules EXCEPT ![s] = r], inputs, extractors)
\* update_input's wireBody: configuration only when it is given.
InputPut(c, i, secret) ==
  [type    |-> got[c].type,
   title   |-> Or(req[c].op.title, got[c].title),
   secret  |-> secret,
   running |-> inputs[i].running]
\* The secrets that the server may keep: none when it rejects the field.
SecretAfter(c, current) ==
  IF req[c].op.config = {} THEN {current}
  ELSE UNION {Accepted(g, TypeOf(c) \in encrypted, current) :
              g \in UNION {EncodeForWire(h, TypeOf(c) \in typeCatalogue) : h \in req[c].op.config}}
WriteInput(c) ==
  LET op == req[c].op
      i  == op.id
  IN /\ pc[c] = "write" /\ op.tool \in InputTools
     /\ (inputs[i] = NoDoc) = (op.tool = "create_input")
     /\ \E d \in CASE op.tool = "create_input" ->
                        {[type |-> TypeOf(c), title |-> TheOne(op.title), secret |-> x, running |-> TRUE] :
                         x \in SecretAfter(c, NoSecret)}
                   [] op.tool = "update_input" -> {InputPut(c, i, x) : x \in SecretAfter(c, inputs[i].secret)}
                   [] op.tool \in {"start_input", "stop_input"} ->
                        {[inputs[i] EXCEPT !.running = (op.tool = "start_input")]}
                   [] op.tool = "delete_input" -> {NoDoc} :
          DocsBecome(c, streams, streamRules, [inputs EXCEPT ![i] = d],
                     IF d = NoDoc THEN [extractors EXCEPT ![i] = NoDoc] ELSE extractors)
\* Mutant of ExtractorPut: the type is looked for where a read does not have it.
ExtractorPutTypeless(op, current) ==
  [type |-> NoDoc, title |-> Or(op.title, current.title), order |-> Or(op.value, current.order)]
\* update_extractor's mergedBody
ExtractorPut(op, current) ==
  [type |-> current.type, title |-> Or(op.title, current.title), order |-> Or(op.value, current.order)]
WriteExtractor(c) ==
  LET op == req[c].op
      i  == op.id
  IN /\ pc[c] = "write" /\ op.tool \in ExtractorTools /\ inputs[i] # NoDoc
     /\ (extractors[i] = NoDoc) = (op.tool = "create_extractor")
     /\ \E x \in CASE op.tool = "create_extractor" ->
                        {[type |-> TheOne(op.type), title |-> TheOne(op.title), order |-> TheOne(op.value)]}
                   [] op.tool = "update_extractor" -> {ExtractorPut(op, got[c])}
                   [] op.tool = "delete_extractor" -> {NoDoc} :
          DocsBecome(c, streams, streamRules, inputs, [extractors EXCEPT ![i] = x])
DocWriteFails(c) == pc[c] = "write" /\ DocReturns(c, "failed")

\* Another user changes a document; a plugin makes the field of a type a secret.
EditDocs ==
  /\ docEdits < MaxDocEdits
  /\ \/ /\ \E s \in StreamIds, t \in RuleTypes :
             streamRules[s] # NoDoc /\ streamRules[s].type # t /\ streamRules' = [streamRules EXCEPT ![s].type = t]
        /\ UNCHANGED <<streams, inputs, extractors>>
     \/ /\ \E i \in InputIds, t \in DocTitles :
             inputs[i] # NoDoc /\ inputs[i].title # t /\ inputs' = [inputs EXCEPT ![i].title = t]
        /\ UNCHANGED <<streams, streamRules, extractors>>
     \/ /\ \E i \in InputIds, n \in Values :
             extractors[i] # NoDoc /\ extractors[i].order # n /\ extractors' = [extractors EXCEPT ![i].order = n]
        /\ UNCHANGED <<streams, streamRules, inputs>>
  /\ docDrift' = DocsDrift(streamRules', inputs', extractors')
  /\ docEdits' = docEdits + 1
  /\ UNCHANGED <<callVars, encrypted, typeCatalogue, seen>>
Encrypt ==
  /\ \E t \in InputTypes \ encrypted : encrypted' = encrypted \union {t}
  /\ UNCHANGED <<callVars, docServer, typeCatalogue, seen, docDrift, docEdits>>

DocBuild(c) ==
  \/ GetStream(c) \/ GetStreamRule(c) \/ GetInput(c) \/ GetExtractor(c) \/ Types(c) \/ List(c)
  \/ ListExtractors(c) \/ Build(c) \/ DocReadFails(c)
DocWrite(c) == WriteStream(c) \/ WriteStreamRule(c) \/ WriteInput(c) \/ WriteExtractor(c) \/ DocWriteFails(c)
DocStep(c) == DocBegin(c) \/ DocBuild(c) \/ DocWrite(c)
DocNext == (\E c \in Slots : DocStep(c)) \/ EditDocs \/ Encrypt
DocSpec == DocInit /\ [][DocNext]_docVars

-----------------------------------------------------------------------------
\* The calls whose write the server carries out in this step.
Written(c) == pc[c] = "write" /\ pc'[c] # "write" /\ docServer' # docServer
Same(docs, new, ids) == \A i \in ids : new[i] = docs[i]

\* The write of c, as the agent named it.
WrittenAsNamed(c) ==
  LET op == req[c].op
      Kept(docs, new, f, given) == given # {} \/ f \in docDrift[c] \/ new[op.id][f] = docs[op.id][f]
  IN /\ Same(streams, streams', StreamIds \ {op.id}) /\ Same(streamRules, streamRules', StreamIds \ {op.id})
     /\ Same(inputs, inputs', InputIds \ {op.id}) /\ Same(extractors, extractors', InputIds \ {op.id})
     /\ op.tool \in (StreamTools \ {"create_stream"}) \union RuleDocTools => op.id \notin NonEditable
     /\ op.tool = "update_stream_rule" =>
          /\ Kept(streamRules, streamRules', "type", {}) /\ Kept(streamRules, streamRules', "value", op.value)
     /\ op.tool = "update_input" =>
          /\ Kept(inputs, inputs', "type", {}) /\ Kept(inputs, inputs', "title", op.title)
          /\ Kept(inputs, inputs', "secret", op.config) /\ Kept(inputs, inputs', "running", {})
     /\ op.tool = "update_extractor" =>
          /\ Kept(extractors, extractors', "type", {}) /\ Kept(extractors, extractors', "title", op.title)
          /\ Kept(extractors, extractors', "order", op.value)
\* A write touches the one document it is for, no stream that the server marks as
\* not editable, and of an updated document the fields the agent named: a field
\* that a PUT only repeats goes back to an older value where it changed after the
\* call read it, and nowhere else (update-stream-rule.js:67-82,
\* update-input.js:55-98, update-extractor.js:43-70).
OnlyNamedFields == [][\A c \in Slots : Written(c) => WrittenAsNamed(c)]_docVars

\* What c does with the secrets of its call in this step.
KeepsSecrets(c) ==
  /\ \A x \in seen' \ seen : x.type \notin encrypted
  /\ pc'[c] = "write" => \A g \in req[c].op.config :
       g.kind = "string" =>
         UNION {Accepted(h, TypeOf(c) \in encrypted, NoSecret) :
                h \in EncodeForWire(g, TypeOf(c) \in typeCatalogue')} = {g.value}
\* A preview shows the value of a field that the server keeps as a secret only when
\* the type became secret after the connection first fetched the catalogue, and
\* as long as that is not so, a string given for the field does not make the
\* server reject the call (redact.js:30-84, type-catalogue.js:29-39).
SecretsWrapped ==
  [][\A c \in Slots :
       pc[c] \in {"types", "list"} /\ pc'[c] # pc[c] /\ req[c].op.config # {} /\ typeCatalogue' # NoCatalogue =>
         ~(encrypted \subseteq typeCatalogue') \/ KeepsSecrets(c)]_docVars
=============================================================================
