SPECIFICATION AdminSpec
CONSTANTS
  Slots = {c1, c2}
  NoRequest = NoRequest
  NothingGot = NothingGot
  MaxShown = 1
  AreaOps <- MCAreaOps
  LeftOut = LeftOut

  GrnIds <- MCGrnIds
  Lower <- MCLower
  Names = {"n1", "n2"}
  Entities <- MCEntities
  Grantees <- MCGrantees
  Sharer <- MCSharer
  ShareOps <- MCShareOps
  ShareStarts <- MCShareStarts
  MaxShareEdits = 1

  SetIds = {"s1", "s2"}
  IndexNames = {"i1", "i2"}
  MaxDocs = 1
  JobIds = {"j1"}
  Titles = {"t1", "t2"}
  Configs = {"x"}
  SetOps <- MCSetOps
  SetStarts <- MCSetStarts
  Backoff <- MCBackoff
  NoSet = NoSet
  NoJob = NoJob
  MaxLate = 1
  Touched = {"s2"}
  MaxSetEdits = 1

  RuleTitles <- MCRuleTitles
  TitleTokens <- MCTokens
  Conditions <- MCConditions
  Actions <- MCActions
  RuleSpecs <- MCRuleSpecs
  RawSources <- MCRawSources
  StaticBuiltins <- MCBuiltins
  RuleOrder <- MCRuleOrder
  PipelineIds = {"p1"}
  PerPage = 1
  MaxPages = 2
  NoRule = NoRule
  NoPipeline = NoPipeline
  NotFetched = NotFetched
  RuleTools <- MCRuleTools
  RuleStarts <- MCRuleStarts
  NewFunctions = {"new_fn"}
  MaxRuleEdits = 1

  StreamIds = {"s1", "s2", "sys"}
  NonEditable = {"sys"}
  InputIds = {"i1", "i2"}
  InputTypes = {"gelf"}
  RuleTypes = {"exact", "regex"}
  ExtractorTypes = {"grok"}
  DocTitles = {"t1", "t2"}
  Values = {"v1", "v2"}
  NoDoc = NoDoc
  NoCatalogue = NoCatalogue
  DocOps <- MCDocOps
  DocStarts <- MCDocStarts
  MaxDocEdits = 1

  Secrets = {"x", "y"}
  DefOrder <- MCDefOrder
  NotifIds = {"n1"}
  DefTitles = {"t1"}
  NotifTypes = {"http"}
  EncryptedTypes = {"http"}
  Exprs <- MCExprs
  V6FunctionNames = {"count", "card"}
  DefsPerPage = 1
  MaxDefPages = 2
  NoDef = NoDef
  NoNotif = NoNotif
  EventOps <- MCEventOps
  EventStarts <- MCEventStarts
  MaxEventEdits = 1
INVARIANTS
  AdminTypeOK
  LintedBeforeParse
PROPERTIES
  SharedAsShown
  OthersKept
  DataDeletedKnowing
  SetKeepsRest
  CompletedMeansCleaned
  RuleDeletedKnowing
  RefusedWithReason
  OnlyNamedFields
  SecretsWrapped
  NotificationDeletedKnowing
  AlertsAsAsked
SYMMETRY MCSym
CHECK_DEADLOCK FALSE
