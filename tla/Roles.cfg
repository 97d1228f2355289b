SPECIFICATION Spec
CONSTANTS
  Admin = Admin
  custom = custom
  u1 = u1
  u2 = u2
  p = p
  edited = edited
  Wildcard = Wildcard
  Blank = Blank
  Slots = {c1, c2}
  RoleNames = {Admin, custom}
  BuiltIn = {Admin}
  ReadOnly = {Admin}
  Users = {u1, u2}
  Perms = {p, Wildcard}
  Descs = {Blank, edited}
  Operations <- MCOperations
  Starts <- MCStarts
  MaxShown = 2
  MaxEdits = 1
INVARIANTS TypeOK ReviewedWrite ReviewedState OnlyKnownPermissions
PROPERTIES LastAdminLostToARace
SYMMETRY SlotSymmetry
