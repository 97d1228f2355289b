------------------------------ MODULE PipelineRules ------------------------------
(***************************************************************************)
(* The pipeline and pipeline-rule tools (tools/pipelines: create, update,  *)
(* delete and simulate a rule; create, update and delete a pipeline) and   *)
(* the rule language they use (pipeline-dsl): the emitter of structured    *)
(* rules, the lint and the function catalogue it looks names up in.        *)
(*                                                                         *)
(* A rule's source is a sequence of tokens, whitespace left out: words,    *)
(* parentheses, the quotation mark that opens or closes a string, and "op" *)
(* for anything else, an escaped quotation mark included.                  *)
(***************************************************************************)
EXTENDS MutatingTool, Listings

CONSTANTS RuleTitles, TitleTokens,  \* rule names, and the tokens in each
          Conditions, Actions,      \* the nodes of structured rules
          RuleSpecs, RawSources,    \* what agents give as structured and ruleSource
          StaticBuiltins,           \* builtins.js
          RuleOrder,                \* rule ids in the order the server lists them
          PipelineIds,
          PerPage, MaxPages,        \* perPage, maxPages
          NoRule, NoPipeline, NotFetched,  \* model values: no such rule, pipeline; empty cache
          RuleTools,                \* the arguments agents call the tools with
          RuleStarts,               \* what the server may hold to begin with
          NewFunctions,             \* the functions a plugin may bring
          MaxRuleEdits              \* bound: changes made by other users

Quote    == "quote"
Keywords == {"rule", "when", "then", "end", "let"}
Reserved == {"if", "true", "false", "null"}
Symbols  == {"(", ")", "op", Quote}
\* The names of functions that the emitter writes by itself.
OwnCalls == {"has_field", "set_field", "remove_field", "rename_field", "lookup_value"}
RuleIds  == {RuleOrder[i] : i \in DOMAIN RuleOrder}
\* A node of a condition or an action: parts are its operands or arguments, word
\* the function, variable or field it names, text the string it holds.
Node(kinds) == [kind : kinds, word : STRING, text : Seq(STRING), parts : Seq(Conditions)]
ConditionKinds == {"string", "literal", "field_ref", "has_field", "function_call",
                   "comparison", "and", "or", "not"}
ActionKinds == {"set_field", "remove_field", "rename_field", "lookup_value",
                "function_call_statement", "let_assignment"}
RuleSpec  == [title : RuleTitles, when : Conditions, then : Seq(Actions)]
RawSource == [title : RuleTitles, tokens : Seq(STRING)]
\* structured, ruleSource and a pipeline's source are {} when omitted.
RuleOp == [tool : {"create_pipeline_rule", "update_pipeline_rule", "delete_pipeline_rule",
                   "simulate_pipeline_rule", "create_pipeline", "update_pipeline", "delete_pipeline"},
           rule : RuleIds, structured : SUBSET RuleSpecs, raw : SUBSET RawSources,
           pipeline : PipelineIds, stages : SUBSET (SUBSET RuleTitles)]
\* computeRuleCascadeHash({ruleId, pipelineIds})
RuleToken == [rule : RuleIds, pipelines : SUBSET PipelineIds]
Walked    == [page : 1..MaxPages, met : BOOLEAN]
Functions == StaticBuiltins \union NewFunctions
RuleStart == [rules : [RuleIds -> RuleTitles \union {NoRule}],
              pipelines : [PipelineIds -> (SUBSET RuleTitles) \union {NoPipeline}],
              functions : SUBSET Functions]

\* Conditions are finite trees.
ASSUME NodesAssumption ==
  /\ Conditions \subseteq Node(ConditionKinds) /\ Actions \subseteq Node(ActionKinds)
  /\ \A T \in SUBSET Conditions : T # {} => \E n \in T : \A i \in DOMAIN n.parts : n.parts[i] \notin T
\* escapeString leaves no quotation mark within a string.
Escaped(text) == \A i \in DOMAIN text : text[i] # Quote
ASSUME TextsAssumption ==
  /\ \A n \in Conditions \union Actions : Escaped(n.text)
  /\ TitleTokens \in [RuleTitles -> Seq(STRING)] /\ \A t \in RuleTitles : Escaped(TitleTokens[t])
\* Literals are strings, which the prover has to be told.
ASSUME WordsAssumption == Keywords \union Symbols \union OwnCalls \subseteq STRING
ASSUME RuleSourcesAssumption == RuleSpecs \subseteq RuleSpec /\ RawSources \subseteq RawSource
ASSUME RuleToolsAssumption ==
  /\ RuleTools \subseteq RuleOp
  /\ \A op \in RuleTools :
       /\ AtMostOne(op.structured) /\ AtMostOne(op.raw) /\ AtMostOne(op.stages)
       /\ op.structured = {} \/ op.raw = {}
       /\ op.tool \in {"create_pipeline_rule", "simulate_pipeline_rule"} => op.structured # {} \/ op.raw # {}
       /\ op.tool = "create_pipeline" => op.stages # {}
ASSUME RuleStartsAssumption == RuleStarts \subseteq RuleStart
ASSUME RuleOrderAssumption == Listable(RuleOrder)
ASSUME RuleNothingsAssumption == NoRule \notin RuleTitles /\ \A fs \in SUBSET Functions : NotFetched # fs
ASSUME RuleBoundsAssumption == PerPage \in Nat \ {0} /\ MaxPages \in Nat \ {0} /\ MaxRuleEdits \in Nat

VARIABLES
  rules,       \* the server's rules: the title of each
  pipelines,   \* the server's pipelines: the rule titles in their stages
  functions,   \* the functions the server's rule parser knows
  catalogue,   \* getMergedCatalogue's cache for the connection
  ruleDrift,   \* history: what changed under a deletion after it read it
  ruleEdits    \* bound: changes made by other users

ruleWorld == <<rules, pipelines, functions, catalogue, ruleDrift, ruleEdits>>
ruleVars  == <<callVars, ruleWorld>>

RuleLabels == {"get_rule", "lint", "parse_rule", "list_rules", "post_rule", "put_rule", "simulate",
               "walk", "reget_rule", "rewalk", "delete_rule",
               "parse_pipeline", "list_pipelines", "post_pipeline", "get_pipeline", "put_pipeline",
               "build_delete", "delete_pipeline"}

RuleTypeOK ==
  /\ CallsTypeOK(RuleLabels, Request(RuleTools, RuleToken), Walked, RuleToken)
  /\ rules \in [RuleIds -> RuleTitles \union {NoRule}]
  /\ pipelines \in [PipelineIds -> (SUBSET RuleTitles) \union {NoPipeline}]
  /\ functions \in SUBSET Functions
  /\ catalogue \in (SUBSET Functions) \union {NotFetched}
  /\ ruleDrift \in [Slots -> SUBSET {"users", "moved"}]
  /\ ruleEdits \in 0..MaxRuleEdits
  /\ \A c \in Slots : pc[c] \in {"walk", "rewalk", "delete_rule"} => got[c] \in Walked

RuleWorldInit ==
  /\ \E s \in RuleStarts : rules = s.rules /\ pipelines = s.pipelines /\ functions = s.functions
  /\ catalogue = NotFetched
  /\ ruleDrift = [c \in Slots |-> {}]
  /\ ruleEdits = 0
RuleInit == CallsInit /\ RuleWorldInit

-----------------------------------------------------------------------------
(* The emitter and the lint.                                               *)

Quoted(text) == <<Quote>> \o text \o <<Quote>>
Call(word, args) == <<word, "(">> \o args \o <<")">>
\* emitArgs, with the emitted arguments: a comma between two of them.
Joined(ss) ==
  LET J[i \in 0..Len(ss)] == CASE i = 0 -> <<>>
                               [] i = 1 -> ss[1]
                               [] OTHER -> J[i - 1] \o <<"op">> \o ss[i]
  IN J[Len(ss)]
\* Mutant of Negated: the parenthesis stays open.
NegatedOpen(operand) == <<"op", "(">> \o operand
Negated(operand) == <<"op", "(">> \o operand \o <<")">>
\* emitExpr, with the emitted operands.
EmitNode(n, parts) ==
  CASE n.kind = "string"                    -> Quoted(n.text)
    [] n.kind \in {"literal", "field_ref"}  -> <<n.word>>
    [] n.kind = "has_field"                 -> Call("has_field", Quoted(n.text))
    [] n.kind = "function_call"             -> Call(n.word, Joined(parts))
    [] n.kind = "comparison"                -> Joined(parts)
    [] n.kind \in {"and", "or"}             -> <<"(">> \o Joined(parts) \o <<")">>
    [] n.kind = "not"                       -> Negated(Joined(parts))
EmitExpr[n \in Conditions] == EmitNode(n, [i \in DOMAIN n.parts |-> EmitExpr[n.parts[i]]])
EmitAction(a) ==
  LET args  == [i \in DOMAIN a.parts |-> EmitExpr[a.parts[i]]]
      field == Quoted(a.text)
  IN CASE a.kind = "set_field"               -> Call("set_field", Joined(<<field>> \o args))
       [] a.kind = "remove_field"            -> Call("remove_field", field)
       [] a.kind = "rename_field"            -> Call("rename_field", Joined(<<field, <<Quote, a.word, Quote>>>>))
       [] a.kind = "lookup_value"            -> Call("set_field", Joined(<<field, Call("lookup_value", Joined(args))>>))
       [] a.kind = "function_call_statement" -> Call(a.word, Joined(args))
       [] a.kind = "let_assignment"          -> <<"let", a.word, "op">> \o Joined(args)
EmitRule(spec) ==
  LET E[i \in 0..Len(spec.then)] == IF i = 0 THEN <<>> ELSE E[i - 1] \o EmitAction(spec.then[i]) \o <<"op">>
  IN <<"rule">> \o Quoted(TitleTokens[spec.title]) \o <<"when">> \o EmitExpr[spec.when]
       \o <<"then">> \o E[Len(spec.then)] \o <<"end">>
Emitted == [s \in RuleSpecs |-> EmitRule(s)]
\* The source a call gives: {} when none.
SourceOf(op) ==
  {[title |-> s.title, tokens |-> Emitted[s]] : s \in op.structured} \union op.raw
HasSource(op) == op.structured # {} \/ op.raw # {}

\* validateRuleSource's scan of the parentheses: what it knows after i tokens.
ParenScan(ts) ==
  LET S[i \in 0..Len(ts)] ==
        IF i = 0 THEN [inString |-> FALSE, parens |-> 0, unbalanced |-> FALSE]
        ELSE LET before == S[i - 1]
                 t      == ts[i]
                 parens == IF t = "(" THEN before.parens + 1
                           ELSE IF t = ")" THEN before.parens - 1 ELSE before.parens
             IN IF before.inString \/ t = Quote
                THEN [before EXCEPT !.inString = before.inString # (t = Quote)]
                ELSE [inString |-> FALSE, parens |-> parens,
                      unbalanced |-> before.unbalanced \/ parens < 0]
  IN S[Len(ts)]
\* The words before an opening parenthesis, inside strings too.
CalledNames(ts) == {ts[i] : i \in {k \in 1..(Len(ts) - 1) : ts[k + 1] = "(" /\ ts[k] \notin Symbols}}
\* Mutant of ParenImbalance: only what is left open counts.
ParenImbalanceAtEnd(ts) == ParenScan(ts).parens > 0
ParenImbalance(ts) == ParenScan(ts).unbalanced \/ ParenScan(ts).parens > 0
\* validateRuleSource finds no error.
LintPasses(ts, known) == ~ParenImbalance(ts) /\ CalledNames(ts) \ Reserved \subseteq known

\* What the grammar of the rule language says of the same tokens.
InString(ts, i) == Cardinality({k \in 1..(i - 1) : ts[k] = Quote}) % 2 = 1
Outside(ts, t, i) == {k \in 1..i : ts[k] = t /\ ~InString(ts, k)}
Nested(ts) ==
  /\ \A i \in 1..Len(ts) : Cardinality(Outside(ts, ")", i)) <= Cardinality(Outside(ts, "(", i))
  /\ Cardinality(Outside(ts, ")", Len(ts))) = Cardinality(Outside(ts, "(", Len(ts)))
Calls(ts) ==
  {ts[i] : i \in {k \in 1..(Len(ts) - 1) : ts[k + 1] = "(" /\ ~InString(ts, k)
                                           /\ ts[k] \notin Symbols \union Keywords \union Reserved}}
\* The same of every source there is, worked out once.
AllTokens == {Emitted[s] : s \in RuleSpecs} \union {src.tokens : src \in RawSources}
WellNested == {ts \in AllTokens : Nested(ts)}
CallsOf == [ts \in AllTokens |-> Calls(ts)]
\* The server's parser accepts these sources at most.
Parses(ts) == ts \in WellNested /\ CallsOf[ts] \subseteq functions

-----------------------------------------------------------------------------
UsersIn(rs, ps, r) == {p \in PipelineIds : ps[p] # NoPipeline /\ rs[r] # NoRule /\ rs[r] \in ps[p]}
\* used_in_pipelines: the server finds a rule in the stages by its title.
Users(r) == UsersIn(rules, pipelines, r)
Listing  == InOrder(RuleOrder, {r \in RuleIds : rules[r] # NoRule})
RulePage(page) == PageOf(Listing, PerPage, page)
\* computeRuleCascadeHash
RuleHash(r, users) == [rule |-> r, pipelines |-> users]

\* The rules become rs and the pipelines ps: what changes under a deletion that
\* has met its rule for the second time, or has begun the second walk.
Flag(holds, name) == IF holds THEN {name} ELSE {}
RulesDrift(rs, ps) ==
  [c \in Slots |->
     ruleDrift[c]
     \union Flag(pc[c] = "delete_rule" /\ UsersIn(rs, ps, req[c].op.rule) # Users(req[c].op.rule), "users")
     \union Flag(/\ pc[c] \in {"rewalk", "delete_rule"}
                 /\ \E r \in RuleIds : (rs[r] = NoRule) # (rules[r] = NoRule), "moved")]
Settled(c, d) == [d EXCEPT ![c] = {}]
RulesUnchanged == UNCHANGED ruleWorld
RuleReturns(c, how) ==
  /\ Finish(c, how)
  /\ ruleDrift' = Settled(c, ruleDrift)
  /\ UNCHANGED <<rules, pipelines, functions, catalogue, ruleEdits>>

-----------------------------------------------------------------------------
FirstOf(op) ==
  CASE op.tool = "create_pipeline_rule"                             -> "lint"
    [] op.tool \in {"update_pipeline_rule", "delete_pipeline_rule"} -> "get_rule"
    [] op.tool = "simulate_pipeline_rule"                           -> "parse_rule"
    [] op.tool = "create_pipeline"                                  -> "parse_pipeline"
    [] op.tool = "update_pipeline"                                  -> "get_pipeline"
    [] op.tool = "delete_pipeline"                                  -> "build_delete"
RuleBegin(c) == \E op \in RuleTools : Begin(c, op, FirstOf(op)) /\ RulesUnchanged

\* The GET of the rule that update and delete start with.
GetRule(c) ==
  /\ pc[c] = "get_rule"
  /\ LET op == req[c].op
     IN \/ rules[op.rule] = NoRule /\ Finish(c, "refused")
        \/ rules[op.rule] # NoRule /\ op.tool = "delete_pipeline_rule"
           /\ Continue(c, "walk", [page |-> 1, met |-> FALSE])
        \/ rules[op.rule] # NoRule /\ op.tool = "update_pipeline_rule" /\ HasSource(op)
           /\ Continue(c, "lint", NothingGot)
        \/ rules[op.rule] # NoRule /\ op.tool = "update_pipeline_rule" /\ ~HasSource(op)
           /\ Gate(c, {}, "put_rule", NothingGot)
  /\ RulesUnchanged
\* getMergedCatalogue, which asks the server once for each connection, and the lint.
Merged == IF catalogue = NotFetched THEN StaticBuiltins \union functions ELSE catalogue
Lint(c) ==
  /\ pc[c] = "lint"
  /\ catalogue' = Merged
  /\ \E src \in SourceOf(req[c].op) :
       \/ ~LintPasses(src.tokens, Merged) /\ Finish(c, "refused")
       \/ LintPasses(src.tokens, Merged) /\ Continue(c, "parse_rule", NothingGot)
  /\ UNCHANGED <<rules, pipelines, functions, ruleDrift, ruleEdits>>
\* preflightParseRule; create_pipeline_rule goes on to findExistingMatches.
ParseRule(c) ==
  /\ pc[c] = "parse_rule"
  /\ \A src \in SourceOf(req[c].op) : Parses(src.tokens)
  /\ CASE req[c].op.tool = "create_pipeline_rule"   -> Continue(c, "list_rules", NothingGot)
       [] req[c].op.tool = "update_pipeline_rule"   -> Gate(c, {}, "put_rule", NothingGot)
       [] req[c].op.tool = "simulate_pipeline_rule" -> Gate(c, {}, "simulate", NothingGot)
  /\ RulesUnchanged
\* existingMatches refuses nothing.
ListRules(c) == pc[c] = "list_rules" /\ Gate(c, {}, "post_rule", NothingGot) /\ RulesUnchanged

\* The walk of discoverReferencingPipelines gives up after this page of n rules.
LastPage(page, n) == n < PerPage \/ page = MaxPages
\* One page of the walk: met says whether it ends at the rule, users what it returns.
WalkTo(c, page, met, users) ==
  LET r  == req[c].op.rule
      rs == RulePage(page)
  IN \/ r \in rs /\ met /\ users = Users(r)
     \/ r \notin rs /\ LastPage(page, Cardinality(rs)) /\ ~met /\ users = {}
WalkOn(c, label) ==
  LET rs == RulePage(got[c].page)
  IN /\ req[c].op.rule \notin rs /\ ~LastPage(got[c].page, Cardinality(rs))
     /\ Continue(c, label, [page |-> got[c].page + 1, met |-> FALSE])
Walk(c) ==
  /\ pc[c] = "walk"
  /\ \/ WalkOn(c, "walk")
     \/ \E met \in BOOLEAN, users \in SUBSET PipelineIds :
          /\ WalkTo(c, got[c].page, met, users)
          /\ Gate(c, {RuleHash(req[c].op.rule, users)}, "reget_rule", NothingGot)
  /\ RulesUnchanged
\* apply() discovers the pipelines once more.
RegetRule(c) ==
  /\ pc[c] = "reget_rule" /\ rules[req[c].op.rule] # NoRule
  /\ Continue(c, "rewalk", [page |-> 1, met |-> FALSE])
  /\ RulesUnchanged
\* Mutant of Confirmed: apply() trusts the token that build() has checked.
ConfirmedBefore(c, users) == TRUE
Confirmed(c, users) == req[c].confirm = {RuleHash(req[c].op.rule, users)}
Rewalk(c) ==
  /\ pc[c] = "rewalk"
  /\ \/ WalkOn(c, "rewalk") /\ RulesUnchanged
     \/ \E met \in BOOLEAN, users \in SUBSET PipelineIds :
          /\ WalkTo(c, got[c].page, met, users)
          /\ \/ Confirmed(c, users)
                /\ Continue(c, "delete_rule", [page |-> got[c].page, met |-> met]) /\ RulesUnchanged
             \/ ~Confirmed(c, users) /\ RuleReturns(c, "failed")   \* cascade_changed_since_preview

\* preflightParsePipeline accepts, and create_pipeline goes on to findExistingMatches.
ParsePipeline(c) ==
  /\ pc[c] = "parse_pipeline"
  /\ \/ req[c].op.tool = "create_pipeline" /\ Continue(c, "list_pipelines", NothingGot)
     \/ req[c].op.tool = "update_pipeline" /\ Gate(c, {}, "put_pipeline", NothingGot)
  /\ RulesUnchanged
ListPipelines(c) == pc[c] = "list_pipelines" /\ Gate(c, {}, "post_pipeline", NothingGot) /\ RulesUnchanged
GetPipeline(c) ==
  /\ pc[c] = "get_pipeline" /\ pipelines[req[c].op.pipeline] # NoPipeline
  /\ \/ req[c].op.stages # {} /\ Continue(c, "parse_pipeline", NothingGot)
     \/ req[c].op.stages = {} /\ Gate(c, {}, "put_pipeline", NothingGot)
  /\ RulesUnchanged
\* delete_pipeline's build() asks the server nothing.
BuildDelete(c) == pc[c] = "build_delete" /\ Gate(c, {}, "delete_pipeline", NothingGot) /\ RulesUnchanged
\* A read fails, or the server's parser refuses: the call is refused, in apply() failed.
RuleReadFails(c) ==
  \/ /\ pc[c] \in {"get_rule", "parse_rule", "list_rules", "walk", "parse_pipeline", "list_pipelines", "get_pipeline"}
     /\ RuleReturns(c, "refused")
  \/ pc[c] = "lint" /\ catalogue = NotFetched /\ RuleReturns(c, "refused")
  \/ pc[c] \in {"reget_rule", "rewalk"} /\ RuleReturns(c, "failed")

-----------------------------------------------------------------------------
\* A write that the server carries out, and whose answer may be lost.
RuleWritten(c, rs, ps) ==
  /\ rules' = rs /\ pipelines' = ps
  /\ ruleDrift' = Settled(c, RulesDrift(rs, ps))
  /\ \E how \in {"done", "failed"} : Finish(c, how)
  /\ UNCHANGED <<functions, catalogue, ruleEdits>>
\* The rule's title is in its source; the PUT has no source when none was given.
PutSource(c) ==
  \/ ~HasSource(req[c].op) /\ RuleWritten(c, rules, pipelines)
  \/ \E src \in SourceOf(req[c].op) :
       Parses(src.tokens) /\ RuleWritten(c, [rules EXCEPT ![req[c].op.rule] = src.title], pipelines)
PostRule(c) == pc[c] = "post_rule" /\ rules[req[c].op.rule] = NoRule /\ PutSource(c)
PutRule(c)  == pc[c] = "put_rule" /\ rules[req[c].op.rule] # NoRule /\ PutSource(c)
\* The simulation changes nothing.
Simulate(c) == pc[c] = "simulate" /\ RuleWritten(c, rules, pipelines)
DeleteRule(c) ==
  /\ pc[c] = "delete_rule" /\ rules[req[c].op.rule] # NoRule
  /\ RuleWritten(c, [rules EXCEPT ![req[c].op.rule] = NoRule], pipelines)
PostPipeline(c) ==
  /\ pc[c] = "post_pipeline" /\ pipelines[req[c].op.pipeline] = NoPipeline
  /\ \E st \in req[c].op.stages : RuleWritten(c, rules, [pipelines EXCEPT ![req[c].op.pipeline] = st])
PutPipeline(c) ==
  LET p == req[c].op.pipeline
  IN /\ pc[c] = "put_pipeline" /\ pipelines[p] # NoPipeline
     /\ \E st \in IF req[c].op.stages = {} THEN {pipelines[p]} ELSE req[c].op.stages :
          RuleWritten(c, rules, [pipelines EXCEPT ![p] = st])
DeletePipeline(c) ==
  /\ pc[c] = "delete_pipeline" /\ pipelines[req[c].op.pipeline] # NoPipeline
  /\ RuleWritten(c, rules, [pipelines EXCEPT ![req[c].op.pipeline] = NoPipeline])
RuleWriteFails(c) ==
  /\ pc[c] \in {"post_rule", "put_rule", "simulate", "delete_rule", "post_pipeline", "put_pipeline", "delete_pipeline"}
  /\ RuleReturns(c, "failed")

\* Another user deletes a rule or takes one out of a pipeline; the server gets a plugin.
EditRules ==
  /\ ruleEdits < MaxRuleEdits
  /\ \/ \E r \in RuleIds : rules[r] # NoRule /\ rules' = [rules EXCEPT ![r] = NoRule] /\ pipelines' = pipelines
     \/ \E p \in PipelineIds, t \in RuleTitles :
          /\ pipelines[p] # NoPipeline /\ t \in pipelines[p]
          /\ pipelines' = [pipelines EXCEPT ![p] = @ \ {t}] /\ rules' = rules
  /\ ruleDrift' = RulesDrift(rules', pipelines')
  /\ ruleEdits' = ruleEdits + 1
  /\ UNCHANGED <<callVars, functions, catalogue>>
LearnFunctions ==
  /\ ~(NewFunctions \subseteq functions)
  /\ functions' = functions \union NewFunctions
  /\ UNCHANGED <<callVars, rules, pipelines, catalogue, ruleDrift, ruleEdits>>

RuleRead(c) ==
  \/ GetRule(c) \/ Lint(c) \/ ParseRule(c) \/ ListRules(c) \/ Walk(c) \/ RegetRule(c) \/ Rewalk(c)
  \/ ParsePipeline(c) \/ ListPipelines(c) \/ GetPipeline(c) \/ BuildDelete(c) \/ RuleReadFails(c)
RuleWrite(c) ==
  \/ PostRule(c) \/ PutRule(c) \/ Simulate(c) \/ DeleteRule(c)
  \/ PostPipeline(c) \/ PutPipeline(c) \/ DeletePipeline(c) \/ RuleWriteFails(c)
RuleStep(c) == RuleBegin(c) \/ RuleRead(c) \/ RuleWrite(c)
RuleNext == (\E c \in Slots : RuleStep(c)) \/ EditRules \/ LearnFunctions
RuleToolsSpec == RuleInit /\ [][RuleNext]_ruleVars

-----------------------------------------------------------------------------
\* A rule goes only after a preview has named the pipelines that use it: at the
\* DELETE they are still the same, unless they changed after apply() read them
\* again, or the second walk of the pages did not meet the rule, because a rule
\* came or went meanwhile or its page is beyond the cap
\* (delete-pipeline-rule.js:92-164, 203-221).
RuleDeletedKnowing ==
  [][\A c \in Slots : pc[c] = "delete_rule" /\ pc'[c] # "delete_rule" /\ rules' # rules =>
       LET r == req[c].op.rule
       IN \E t \in shown :
            /\ t.rule = r
            /\ \/ t.pipelines = Users(r)
               \/ "users" \in ruleDrift[c]
               \/ /\ ~got[c].met /\ t.pipelines = {}
                  /\ "moved" \in ruleDrift[c] \/ Len(Listing) > PerPage * MaxPages]_ruleVars

\* What create_pipeline_rule and update_pipeline_rule send to the server's parser
\* closes every parenthesis that it opens and calls functions of the catalogue
\* only, by the grammar, which does not look inside strings (validate.js:36-113).
LintedBeforeParse ==
  \A c \in Slots : pc[c] = "parse_rule" /\ req[c].op.tool # "simulate_pipeline_rule" =>
    \A src \in SourceOf(req[c].op) : src.tokens \in WellNested /\ CallsOf[src.tokens] \subseteq catalogue

\* The lint refuses a structured rule only for a call of a function that is not in
\* the catalogue as first fetched, for a keyword before an opening parenthesis (a
\* condition that opens with one, a function by that name), or for a string that
\* holds what looks like a call: what the emitter opens it closes (emit.js:28-119).
RefusedWithReason ==
  [][\A c \in Slots : pc[c] = "lint" /\ pc'[c] = "refused" /\ catalogue # NotFetched =>
       \A spec \in req[c].op.structured :
         LET ts == Emitted[spec]
         IN \/ ~(CallsOf[ts] \subseteq catalogue)
            \/ CalledNames(ts) \intersect Keywords # {}
            \/ \E i \in 1..(Len(ts) - 1) : InString(ts, i) /\ ts[i + 1] = "(" /\ ts[i] \notin Symbols]_ruleVars

\* What a comment in validate.js says of the keywords of the grammar: in a source
\* to be linted none of them stands before an opening parenthesis.
KeywordsNeverCalled ==
  \A c \in Slots : pc[c] = "lint" =>
    \A src \in SourceOf(req[c].op) : CalledNames(src.tokens) \intersect Keywords = {}
=============================================================================
