SPECIFICATION Spec
CONSTANTS
  r1 = r1
  p1 = p1
  e1 = e1
  e2 = e2
  s1 = s1
  s2 = s2
  Calls = {c1, c2}
  Conns = {prod, audit}
  Writable = {prod}
  Shared = {prod}
  Streams = {s1, s2}
  Immutable = {s2}
  Rules = {r1}
  Pipelines = {p1}
  EventDefs = {e1, e2}
  PerPage = 1
  MaxPages = 3
  Worlds <- MCWorlds
  MaxEdits = 2

PROPERTIES NoUnreviewedApply
CHECK_DEADLOCK FALSE
