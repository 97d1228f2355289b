------------------------------ MODULE PipelineRulesMC ------------------------------
(* One agent writes a structured rule whose condition is an `and`. *)
EXTENDS PipelineRules, TLC

RuleNode(k, w, t, p) == [kind |-> k, word |-> w, text |-> t, parts |-> p]
Has  == RuleNode("has_field", "", <<"field">>, <<>>)
Both == RuleNode("and", "", <<>>, <<Has, Has>>)
MCConditions == {Has, Both}
Remove == RuleNode("remove_field", "", <<"field">>, <<>>)
MCActions == {Remove}
Simple  == [title |-> "r1", when |-> Has, then |-> <<Remove>>]
AndRule == [title |-> "r2", when |-> Both, then |-> <<Remove>>]
MCRuleSpecs == {Simple, AndRule}
MCTokens == [t \in {"r1", "r2"} |-> <<t>>]
MCBuiltins == {"remove_field", "has_field"}
MCRuleOrder == <<"a", "b">>
MCRuleTools ==
  {[tool |-> "update_pipeline_rule", rule |-> "a", structured |-> {s}, raw |-> {}, pipeline |-> "p1",
    stages |-> {}] : s \in MCRuleSpecs}
MCRuleStarts ==
  {[rules |-> [r \in RuleIds |-> "r1"], pipelines |-> [p \in PipelineIds |-> {"r1"}], functions |-> MCBuiltins]}
=============================================================================
