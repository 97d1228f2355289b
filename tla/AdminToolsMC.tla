------------------------------- MODULE AdminToolsMC -------------------------------
(* A small server for each area of AdminTools, and a handful of calls that meet. *)
EXTENDS AdminTools, TLC

MCSym == Permutations(Slots)

\* share_entity: an entity, a user, a team and the connection's own user "s"; "A" is
\* a GRN id typed in upper case.
MCGrn(t, i) == [type |-> t, id |-> i]
MCGrnIds    == {"a", "A", "b", "s", "e"}
MCLower     == [i \in MCGrnIds |-> IF i = "A" THEN "a" ELSE i]
MCEntities  == {MCGrn("stream", "e")}
MCGrantees  == {MCGrn("user", "a"), MCGrn("team", "b"), MCGrn("user", "s")}
MCSharer    == MCGrn("user", "s")
Share(g, u, cap, r) ==
  [entity |-> MCGrn("stream", "e"), grantee |-> g, username |-> u, capability |-> cap, revoke |-> r]
MCShareOps ==
  {Share({MCGrn("user", "A")}, {}, {"view"}, FALSE), Share({}, {"n1"}, {"own"}, FALSE),
   Share({}, {"n1"}, {}, TRUE), Share({MCGrn("team", "b")}, {}, {}, TRUE),
   Share({MCGrn("role", "b")}, {}, {}, TRUE),
   [Share({MCGrn("team", "b")}, {}, {}, TRUE) EXCEPT !.entity = MCGrn("user", "a")]}
Granted(a, b, s) == [g \in MCGrantees |-> IF g.id = "a" THEN a ELSE IF g.id = "b" THEN b ELSE s]
MCShareStarts ==
  {[grants |-> [e \in MCEntities |-> IF adm THEN Granted("own", "view", "none") ELSE Granted("none", "view", "own")],
    titles |-> [g \in MCGrantees |-> IF g.id = "a" THEN "n1" ELSE "n2"], admin |-> adm] : adm \in BOOLEAN}

\* Index sets: the default set, and one that calls and other users work on.
Strategy(a) == [alias |-> a, config |-> "x"]
Class(a)    == [class |-> a, type |-> a, config |-> "x"]
SetCall(tool, s) ==
  [tool |-> tool, set |-> s, title |-> {}, writable |-> {}, rotation |-> {}, retention |-> {},
   deleteIndices |-> FALSE, job |-> {}, timeout |-> 1]
IndexDefs ==
  {[SetCall("create_index_set", "s2") EXCEPT !.title = {"t1"}, !.writable = {TRUE},
      !.rotation = {Strategy("time-based")}, !.retention = {Strategy("delete")}],
   [SetCall("update_index_set", "s2") EXCEPT !.writable = {FALSE}, !.rotation = {Strategy("size-based")}],
   [SetCall("update_index_set", "s2") EXCEPT !.retention = {Strategy("archive")}],
   SetCall("delete_index_set", "s2"), SetCall("set_default_index_set", "s2")}
IndexData ==
  {[SetCall("delete_index_set", "s2") EXCEPT !.deleteIndices = TRUE],
   SetCall("cycle_deflector", "s2"), [SetCall("await_system_job", "s2") EXCEPT !.timeout = 2]}
MCSetOps == IndexDefs \union IndexData
SetDoc1(s) == [title |-> "t1", prefix |-> s, writable |-> TRUE, canBeDefault |-> TRUE,
               rotation |-> Class("time-based"), retention |-> Class("delete")]
MCSetStarts ==
  {[sets |-> [s \in SetIds |-> SetDoc1(s)], default |-> "s1",
    stored |-> [s \in SetIds |-> IF s = "s2" THEN {"i1"} ELSE {}], docs |-> [s \in SetIds |-> 0]]}
MCBackoff == <<1, 2>>

\* Pipeline rules: every kind of node; a name with parentheses in it.
RuleNode(k, w, t, p) == [kind |-> k, word |-> w, text |-> t, parts |-> p]
Field == RuleNode("field_ref", "field", <<>>, <<>>)
Text  == RuleNode("string", "", <<"op">>, <<>>)
Has   == RuleNode("has_field", "", <<"field">>, <<>>)
Called == RuleNode("function_call", "new_fn", <<>>, <<Field, Text>>)
Comp  == RuleNode("comparison", "", <<>>, <<Field, Text>>)
Both  == RuleNode("and", "", <<>>, <<Has, Comp>>)
Neg   == RuleNode("not", "", <<>>, <<Both>>)
MCConditions == {Field, Text, Has, Called, Comp, Both, Neg}
AllActions ==
  <<RuleNode("set_field", "", <<"field">>, <<Text>>), RuleNode("remove_field", "", <<"field">>, <<>>),
    RuleNode("rename_field", "other", <<"field">>, <<>>), RuleNode("lookup_value", "", <<"field">>, <<Text, Field>>),
    RuleNode("function_call_statement", "drop_message", <<>>, <<>>), RuleNode("let_assignment", "x", <<>>, <<Has>>)>>
MCActions == {AllActions[i] : i \in DOMAIN AllActions}
MCRuleTitles == {"r1", "r2", "drop (x)"}
MCTokens == [t \in MCRuleTitles |-> IF t = "drop (x)" THEN <<"drop", "(", "x", ")">> ELSE <<t>>]
Rule(t, w, a) == [title |-> t, when |-> w, then |-> a]
AllOfIt == Rule("r1", Neg, AllActions)
Parens  == Rule("drop (x)", Comp, <<>>)
Unknown == Rule("r1", Called, <<>>)
AndRule == Rule("r2", Both, <<>>)
MCRuleSpecs == {AllOfIt, Parens, Unknown, AndRule}
Unbalanced == [title |-> "r2", tokens |-> <<"rule", Quote, "r2", Quote, "when", "true", "then", ")", "(", "end">>]
Balanced   == [title |-> "r2", tokens |-> <<"rule", Quote, "(", Quote, "when", "has_field", "(", Quote, ")", Quote,
                                            ")", "then", "end">>]
MCRawSources == {Unbalanced, Balanced}
MCBuiltins == {"set_field", "remove_field", "rename_field", "lookup_value", "drop_message", "has_field"}
MCRuleOrder == <<"a", "b", "c">>
RuleCall(tool) == [tool |-> tool, rule |-> "c", structured |-> {}, raw |-> {}, pipeline |-> "p1", stages |-> {}]
Language ==
  {[RuleCall("create_pipeline_rule") EXCEPT !.rule = "b", !.structured = {AllOfIt}],
   [RuleCall("create_pipeline_rule") EXCEPT !.rule = "b", !.raw = {Unbalanced}],
   [RuleCall("update_pipeline_rule") EXCEPT !.structured = {Unknown}],
   [RuleCall("update_pipeline_rule") EXCEPT !.structured = {Parens}],
   RuleCall("update_pipeline_rule"),
   [RuleCall("simulate_pipeline_rule") EXCEPT !.structured = {AndRule}],
   [RuleCall("create_pipeline") EXCEPT !.stages = {{"r1"}}],
   [RuleCall("update_pipeline") EXCEPT !.stages = {{"r2"}}], RuleCall("delete_pipeline")}
Cascade ==
  {[RuleCall("create_pipeline_rule") EXCEPT !.rule = "b", !.raw = {Balanced}], RuleCall("delete_pipeline_rule")}
MCRuleTools == Language \union Cascade
MCRuleStarts ==
  {[rules |-> ("a" :> "r2") @@ ("b" :> NoRule) @@ ("c" :> "r1"), pipelines |-> [p \in PipelineIds |-> {"r1"}],
    functions |-> MCBuiltins]}

\* Streams, inputs and extractors.
DocCall(tool, id) == [tool |-> tool, id |-> id, title |-> {}, value |-> {}, type |-> {}, config |-> {}]
Config(k, v) == [kind |-> k, value |-> v]
StreamOps ==
  {[DocCall("create_stream", "s2") EXCEPT !.title = {"t1"}], [DocCall("update_stream", "s1") EXCEPT !.title = {"t2"}],
   DocCall("pause_stream", "s1"), DocCall("start_stream", "s2"), DocCall("pause_stream", "sys")}
StreamRuleOps ==
  {[DocCall("update_stream", "s1") EXCEPT !.title = {"t2"}],
   [DocCall("create_stream_rule", "s1") EXCEPT !.type = {"exact"}, !.value = {"v1"}],
   [DocCall("update_stream_rule", "s1") EXCEPT !.value = {"v2"}], DocCall("delete_stream_rule", "s1")}
InputOps ==
  {[DocCall("create_input", "i2") EXCEPT !.title = {"t1"}, !.type = {"gelf"}, !.config = {Config("string", "x")}],
   [DocCall("create_input", "i2") EXCEPT !.title = {"t1"}, !.type = {"gelf"}, !.config = {Config("other", "x")}],
   [DocCall("update_input", "i1") EXCEPT !.config = {Config("string", "x")}],
   [DocCall("update_input", "i1") EXCEPT !.config = {Config("keep_value", "x")}, !.title = {"t2"}]}
ExtractorOps ==
  {[DocCall("create_extractor", "i1") EXCEPT !.title = {"t1"}, !.type = {"grok"}, !.value = {"v1"}],
   [DocCall("update_extractor", "i1") EXCEPT !.title = {"t2"}], DocCall("delete_extractor", "i1"),
   DocCall("start_input", "i1"), DocCall("stop_input", "i1"), DocCall("delete_input", "i1")}
MCDocOps == StreamOps \union StreamRuleOps \union InputOps \union ExtractorOps
MCDocStarts ==
  {[streams |-> [s \in StreamIds |-> IF s = "s2" THEN NoDoc ELSE [title |-> "t1", disabled |-> FALSE]],
    rules   |-> [s \in StreamIds |-> IF s = "s1" THEN [type |-> "regex", value |-> "v1"] ELSE NoDoc],
    inputs  |-> [i \in InputIds |-> IF i = "i1" THEN [type |-> "gelf", title |-> "t1", secret |-> "y", running |-> TRUE]
                                    ELSE NoDoc],
    extractors |-> [i \in InputIds |-> IF i = "i1" THEN [type |-> "grok", title |-> "t1", order |-> "v1"] ELSE NoDoc],
    encrypted  |-> e] : e \in {{"gelf"}, {}}}

\* Event definitions and notifications: !(count(source) > 3) && card() == counter(source).
Expr(t, n, b) == [type |-> t, name |-> n, below |-> b]
Count   == Expr("function", <<"count", "source">>, <<>>)
Counter == Expr("function", <<"counter", "source">>, <<>>)
Card    == Expr("function", <<"card", "">>, <<>>)
Three   == Expr("number", <<"3">>, <<>>)
Above   == Expr(">", <<>>, ("left" :> Count) @@ ("right" :> Three))
NotSo   == Expr("!", <<>>, "child" :> Above)
Equal   == Expr("==", <<>>, ("left" :> Card) @@ ("right" :> Counter))
Whole   == Expr("&&", <<>>, ("left" :> NotSo) @@ ("right" :> Equal))
MCExprs == {Count, Counter, Card, Three, Above, NotSo, Equal, Whole}
EventCall(tool, d) ==
  [tool |-> tool, def |-> d, notif |-> "n1", title |-> {}, cond |-> {}, notifs |-> {}, type |-> {}, config |-> {}]
CreateDef(e) == [EventCall("create_event_definition", "b") EXCEPT !.title = {"t1"}, !.cond = {e}, !.notifs = {{"n1"}}]
Unwire == [EventCall("update_event_definition", "a") EXCEPT !.notifs = {{}}]
DefOps ==
  {CreateDef(Whole), [EventCall("update_event_definition", "a") EXCEPT !.cond = {NotSo}], Unwire,
   EventCall("delete_event_definition", "a"), EventCall("enable_event_definition", "a"),
   EventCall("disable_event_definition", "a"), 
   [EventCall("create_event_notification", "a") EXCEPT !.type = {"http"}, !.config = {Config("string", "x")}]}
NotifOps ==
  {CreateDef(Three), Unwire, EventCall("delete_event_notification", "b"),
   [EventCall("update_event_notification", "a") EXCEPT !.type = {"http"}, !.config = {Config("other", "x")}]}
MCEventOps == DefOps \union NotifOps
Def(ns) == [title |-> "t1", cond |-> Three, notifs |-> ns, enabled |-> FALSE]
MCEventStarts ==
  {[defs |-> ("a" :> Def({"n1"})) @@ ("b" :> NoDef) @@ ("c" :> Def({})),
    notifs |-> [n \in NotifIds |-> [type |-> "http", secret |-> "y"]]]}
MCDefOrder == <<"b", "a", "c">>

MCAreaOps ==
  [a \in Areas |->
     CASE a = "share"         -> MCShareOps
       [] a = "index_sets"    -> IndexDefs
       [] a = "index_data"    -> IndexData
       [] a = "language"      -> Language
       [] a = "rules"         -> Cascade
       [] a = "streams"       -> StreamOps
       [] a = "stream_rules"  -> StreamRuleOps
       [] a = "inputs"        -> InputOps
       [] a = "extractors"    -> ExtractorOps
       [] a = "definitions"   -> DefOps
       [] a = "notifications" -> NotifOps]
=============================================================================
