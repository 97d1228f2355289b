SPECIFICATION RuleToolsSpec
CONSTANTS
  Slots = {c1, c2}
  NoRequest = NoRequest
  NothingGot = NothingGot
  MaxShown = 1
  RuleTitles = {"r1", "r2"}
  TitleTokens <- MCTokens
  Conditions <- MCConditions
  Actions <- MCActions
  RuleSpecs <- MCRuleSpecs
  RawSources = {}
  StaticBuiltins <- MCBuiltins
  RuleOrder <- MCRuleOrder
  PipelineIds = {"p1"}
  PerPage = 1
  MaxPages = 2
  NoRule = NoRule
  NoPipeline = NoPipeline
  NotFetched = NotFetched
  RuleTools <- MCRuleTools
  RuleStarts <- MCRuleStarts
  NewFunctions = {}
  MaxRuleEdits = 0
INVARIANT KeywordsNeverCalled
CHECK_DEADLOCK FALSE
