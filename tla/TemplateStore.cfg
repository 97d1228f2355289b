SPECIFICATION TemplateSpec
CONSTANTS
  Procs = {p1, p2}
  Stores <- MCStores
  Foreign = Foreign
  Absent = Absent
  Blank = Blank
  Torn = Torn
  NoLock = NoLock
  NoStore = NoStore
  MaxCrashes = 1
  Tokens = {"a", "b"}
  Wildcard = Wildcard
  Lens = {2}
  Labels = {"l1", "l2"}
  NoLabel = NoLabel
  StoreCalls <- MCStoreCalls
  StoreStarts <- MCStoreStarts
  NoCall = NoCall
  MaxCalls = 2
INVARIANTS
  TemplateTypeOK
  LockKeepsOut
  FileWhole
  SavedIsOurs
  IdsStable
PROPERTIES
  ClustersCover
  KeptUnlessRaced
  EveryLineCounted
  CallsReturn
CHECK_DEADLOCK FALSE
