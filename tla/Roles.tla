--------------------------------- MODULE Roles ---------------------------------
(***************************************************************************)
(* The role tools (tools/authz: create_role, update_role, delete_role,     *)
(* assign_role, unassign_role) behind the mutating-tool wrapper, on one    *)
(* writable connection.  Each call runs build() (refusals, pre-flight      *)
(* GETs, the confirmation token), then previews, or compares the token the *)
(* agent echoes with the one just derived and sends its one write.  Unlike *)
(* delete_stream, apply() reads nothing again.                             *)
(*                                                                         *)
(* A request is one atomic step of the Graylog server, together with the   *)
(* code up to the next request.  A token is what it is the hash of.  Role  *)
(* and user names are exact; a permission stands for its resource:action   *)
(* prefix.                                                                 *)
(***************************************************************************)
EXTENDS Integers, FiniteSets

CONSTANTS Slots,       \* tool calls that may be in flight together
          RoleNames, Admin,
          BuiltIn,     \* BUILT_IN_ROLES, the client's own list
          ReadOnly,    \* the roles the server flags read_only
          Users,
          Perms, Wildcard,
          Descs, Blank,
          Operations,  \* the arguments agents call the tools with
          Starts,      \* what the server may hold to begin with
          MaxShown,    \* bound: the tokens previews have shown
          MaxEdits     \* bound: changes made by other users

Tools == {"create_role", "update_role", "delete_role", "assign_role", "unassign_role"}
Role  == [exists : BOOLEAN, perms : SUBSET Perms, desc : Descs, members : SUBSET Users]
\* desc is {} when the argument is omitted; fields a tool does not take are idle.
Operation == [tool : Tools, role : RoleNames, user : Users, perms : SUBSET Perms,
              desc : SUBSET Descs, permitUnknown : BOOLEAN]
\* What the confirmation token pins of the server's state.
Basis == [anchor : SUBSET (Perms \union Users \union RoleNames), desc : Descs]
\* computeRoleCascadeHash: permitUnknownPermissions is not part of it.
Token == [tool : Tools, role : RoleNames, user : Users, perms : SUBSET Perms, basis : Basis]
Request == [op : Operation, dryRun : BOOLEAN, confirm : SUBSET Token]
Start0  == [roles : [RoleNames -> Role], users : SUBSET Users, catalogue : SUBSET Perms]

ASSUME NamesAssumption == Admin \in RoleNames /\ Wildcard \in Perms /\ Blank \in Descs
\* The list holds Admin, and every listed role is read-only on the server.
ASSUME BuiltInAssumption == Admin \in BuiltIn /\ BuiltIn \subseteq ReadOnly /\ ReadOnly \subseteq RoleNames
ASSUME OperationsAssumption ==
  /\ Operations \subseteq Operation /\ Operations # {}
  /\ \A op \in Operations : Cardinality(op.desc) <= 1
ASSUME StartsAssumption == Starts \subseteq Start0
ASSUME BoundsAssumption == MaxShown \in Nat /\ MaxEdits \in Nat

VARIABLES
  role,       \* the server's roles
  users,      \* the server's users
  catalogue,  \* the permissions the server knows; it only grows
  cache,      \* {} or {the catalogue fetched last}; never expires
  shown,      \* tokens that previews have returned
  pc,         \* the next request of a call, or how the last one ended
  req,        \* its arguments
  got,        \* what build() has read
  raced,      \* history: what the token pins has changed since it was read
  edits       \* bound: changes made by other users

vars == <<role, users, catalogue, cache, shown, pc, req, got, raced, edits>>

AnchorOf(op, rl) ==
  CASE op.tool = "create_role" -> {}
    [] op.tool = "update_role" -> rl[op.role].perms
    [] op.tool = "delete_role" -> rl[op.role].members
    [] OTHER                   -> {r \in RoleNames : op.user \in rl[r].members}
\* Mutant of DescOf: an omitted description stays omitted.
DescUnmerged(op, rl) == IF op.desc # {} THEN CHOOSE d \in op.desc : TRUE ELSE op.desc
\* args.description ?? current.description ?? ""
DescOf(op, rl) ==
  IF op.desc # {} THEN CHOOSE d \in op.desc : TRUE
  ELSE IF op.tool = "update_role" THEN rl[op.role].desc ELSE Blank
BasisOf(op, rl) == [anchor |-> AnchorOf(op, rl), desc |-> DescOf(op, rl)]

NothingGot == [basis |-> [anchor |-> {}, desc |-> Blank], admins |-> {}]
NoRequest  == [op |-> CHOOSE op \in Operations : TRUE, dryRun |-> TRUE, confirm |-> {}]
NoRole     == [exists |-> FALSE, perms |-> {}, desc |-> Blank, members |-> {}]

Reading == {"get_role", "get_user", "get_members", "get_admins", "get_catalogue"}
HasRead == {"get_admins", "get_catalogue", "write"}
\* refused: an error before the write; failed: the write erred, or its answer is
\* lost; done: a preview, a write, or assign_role's no_change
Ended   == {"refused", "done", "failed"}

TypeOK ==
  /\ role \in [RoleNames -> Role]
  /\ users \in SUBSET Users
  /\ catalogue \in SUBSET Perms
  /\ cache \in SUBSET (SUBSET Perms)
  /\ shown \in SUBSET Token
  /\ pc \in [Slots -> {"idle", "called", "write"} \union Reading \union Ended]
  /\ req \in [Slots -> Request]
  /\ got \in [Slots -> [basis : Basis, admins : SUBSET Users]]
  /\ raced \in [Slots -> BOOLEAN]
  /\ edits \in 0..MaxEdits

Init ==
  /\ \E s \in Starts : role = s.roles /\ users = s.users /\ catalogue = s.catalogue
  /\ cache = {}
  /\ shown = {}
  /\ pc = [c \in Slots |-> "idle"]
  /\ req = [c \in Slots |-> NoRequest]
  /\ got = [c \in Slots |-> NothingGot]
  /\ raced = [c \in Slots |-> FALSE]
  /\ edits = 0

-----------------------------------------------------------------------------
\* The roles become rl: which pinned readings go stale.
Disturbed(rl) ==
  [c \in Slots |-> raced[c] \/ (pc[c] \in HasRead /\ BasisOf(req[c].op, rl) # BasisOf(req[c].op, role))]

Finish(c, how, rl) ==
  /\ role' = rl
  /\ raced' = [Disturbed(rl) EXCEPT ![c] = FALSE]
  /\ pc' = [pc EXCEPT ![c] = how]
  /\ req' = [req EXCEPT ![c] = NoRequest]
  /\ got' = [got EXCEPT ![c] = NothingGot]
  /\ UNCHANGED <<users, catalogue, edits>>
Refuse(c) == Finish(c, "refused", role) /\ UNCHANGED <<cache, shown>>

\* build() goes on to its next request: b is the basis it has read by now.
Continue(c, next, b) ==
  /\ pc' = [pc EXCEPT ![c] = next]
  /\ got' = [got EXCEPT ![c].basis = b]
  /\ UNCHANGED <<role, users, catalogue, cache, shown, req, raced, edits>>

TokenOf(op, b) == [tool |-> op.tool, role |-> op.role, user |-> op.user, perms |-> op.perms, basis |-> b]

\* Mutants of Built: a missing confirm passes; the token leaves out the state.
BuiltUnconfirmed(c, b, admins) ==
  LET t == TokenOf(req[c].op, b)
  IN \/ /\ req[c].dryRun
        /\ shown' = shown \union {t}
        /\ Finish(c, "done", role)
     \/ /\ ~req[c].dryRun /\ req[c].confirm \subseteq {t}
        /\ pc' = [pc EXCEPT ![c] = "write"]
        /\ got' = [got EXCEPT ![c] = [basis |-> b, admins |-> admins]]
        /\ UNCHANGED <<role, users, catalogue, shown, req, raced, edits>>
BuiltWithoutAnchor(c, b, admins) ==
  LET t == TokenOf(req[c].op, b)
  IN \/ /\ req[c].dryRun
        /\ shown' = shown \union {t}
        /\ Finish(c, "done", role)
     \/ /\ ~req[c].dryRun /\ \E x \in req[c].confirm : [x EXCEPT !.basis = b] = t
        /\ pc' = [pc EXCEPT ![c] = "write"]
        /\ got' = [got EXCEPT ![c] = [basis |-> b, admins |-> admins]]
        /\ UNCHANGED <<role, users, catalogue, shown, req, raced, edits>>

\* build() is done: a dry run shows the token, an apply must echo it.
Built(c, b, admins) ==
  LET t == TokenOf(req[c].op, b)
  IN \/ /\ req[c].dryRun
        /\ shown' = shown \union {t}
        /\ Finish(c, "done", role)
     \/ /\ ~req[c].dryRun /\ req[c].confirm # {t}   \* confirmation_mismatch
        /\ Finish(c, "refused", role)
        /\ UNCHANGED shown
     \/ /\ ~req[c].dryRun /\ req[c].confirm = {t}
        /\ pc' = [pc EXCEPT ![c] = "write"]
        /\ got' = [got EXCEPT ![c] = [basis |-> b, admins |-> admins]]
        /\ UNCHANGED <<role, users, catalogue, shown, req, raced, edits>>

\* validatePermissionsAgainstCatalogue finds nothing unknown.
Known(op, cat) == op.perms \subseteq cat \union {Wildcard}
\* Mutant of Validate: once a catalogue is cached, nothing is validated.
ValidateFirstOnly(c, b) ==
  LET op == req[c].op
  IN \/ (op.permitUnknown \/ cache # {}) /\ Built(c, b, {}) /\ UNCHANGED cache
     \/ ~op.permitUnknown /\ cache = {} /\ Continue(c, "get_catalogue", b)

\* The permissions are validated against the cached catalogue, or the catalogue
\* has to be fetched first.
Validate(c, b) ==
  LET op == req[c].op
  IN \/ /\ op.permitUnknown \/ \E cat \in cache : Known(op, cat)
        /\ Built(c, b, {}) /\ UNCHANGED cache
     \/ ~op.permitUnknown /\ cache = {} /\ Continue(c, "get_catalogue", b)
     \/ ~op.permitUnknown /\ (\E cat \in cache : ~Known(op, cat)) /\ Refuse(c)   \* unknown_permission

-----------------------------------------------------------------------------
(* One call *)

\* The agent calls a tool.  assertRoleIsMutable comes before any request;
\* assigning and unassigning built-in roles is legitimate.
Start(c, op, dryRun, confirm) ==
  /\ pc[c] \in {"idle"} \union Ended
  /\ req' = [req EXCEPT ![c] = [op |-> op, dryRun |-> dryRun, confirm |-> confirm]]
  /\ pc' = [pc EXCEPT ![c] =
       IF op.tool \in {"create_role", "update_role", "delete_role"} /\ op.role \in BuiltIn
       THEN "refused"   \* builtin_role_immutable
       ELSE IF op.tool = "create_role" THEN "called" ELSE "get_role"]
  /\ UNCHANGED <<role, users, catalogue, cache, shown, got, raced, edits>>

\* create_role asks the server for nothing but the catalogue.
CreateRole(c) == pc[c] = "called" /\ Validate(c, BasisOf(req[c].op, role))

RequestFails(c) == pc[c] \in Reading /\ Refuse(c)

\* 404 is role_not_found; read_only is builtin_role_immutable for a change to
\* the role itself.
GetRole(c) ==
  /\ pc[c] = "get_role"
  /\ LET op == req[c].op
     IN \/ /\ \/ ~role[op.role].exists
              \/ op.tool \in {"update_role", "delete_role"} /\ op.role \in ReadOnly
           /\ Refuse(c)
        \/ /\ role[op.role].exists
           /\ \/ op.tool = "update_role" /\ op.role \notin ReadOnly /\ Validate(c, BasisOf(op, role))
              \/ op.tool = "delete_role" /\ op.role \notin ReadOnly /\ Continue(c, "get_members", got[c].basis)
              \/ op.tool \in {"assign_role", "unassign_role"} /\ Continue(c, "get_user", got[c].basis)

\* delete_role: who loses the role.
GetMembers(c) ==
  /\ pc[c] = "get_members"
  /\ IF role[req[c].op.role].exists
     THEN Built(c, BasisOf(req[c].op, role), {}) /\ UNCHANGED cache
     ELSE Refuse(c)

\* assign_role, unassign_role: the user's roles.  404 is user_not_found;
\* unassign_role refuses a user who does not hold the role, and asks for the
\* admins before it takes Admin away.
GetUser(c) ==
  /\ pc[c] = "get_user"
  /\ LET op == req[c].op
     IN IF op.user \notin users \/ (op.tool = "unassign_role" /\ op.user \notin role[op.role].members)
        THEN Refuse(c)
        ELSE IF op.tool = "unassign_role" /\ op.role = Admin
        THEN Continue(c, "get_admins", BasisOf(op, role))
        ELSE Built(c, BasisOf(op, role), {}) /\ UNCHANGED cache

\* Mutant of GetAdmins: the user to be removed counts as remaining.
GuardCountsUser(c) ==
  /\ pc[c] = "get_admins"
  /\ IF role[Admin].members = {}
     THEN Refuse(c)
     ELSE Built(c, got[c].basis, role[Admin].members) /\ UNCHANGED cache

\* The last-admin guard (would_leave_no_admin).
GetAdmins(c) ==
  /\ pc[c] = "get_admins"
  /\ IF role[Admin].members \subseteq {req[c].op.user}
     THEN Refuse(c)
     ELSE Built(c, got[c].basis, role[Admin].members) /\ UNCHANGED cache

GetCatalogue(c) ==
  /\ pc[c] = "get_catalogue"
  /\ cache' = {catalogue}
  /\ IF Known(req[c].op, catalogue)
     THEN Built(c, got[c].basis, {})
     ELSE Finish(c, "refused", role) /\ UNCHANGED shown

\* What Graylog accepts, and what it does with it.  A write that changes nothing
\* is accepted too.
Accepts(op) ==
  CASE op.tool = "create_role" -> ~role[op.role].exists
    [] op.tool \in {"update_role", "delete_role"} -> role[op.role].exists /\ op.role \notin ReadOnly
    [] OTHER -> role[op.role].exists /\ op.user \in users
After(op, b) ==
  CASE op.tool = "create_role" ->
         [role EXCEPT ![op.role] = [exists |-> TRUE, perms |-> op.perms, desc |-> b.desc, members |-> {}]]
    [] op.tool = "update_role" -> [role EXCEPT ![op.role].perms = op.perms, ![op.role].desc = b.desc]
    [] op.tool = "delete_role" -> [role EXCEPT ![op.role] = NoRole]
    [] op.tool = "assign_role" -> [role EXCEPT ![op.role].members = @ \union {op.user}]
    [] op.tool = "unassign_role" -> [role EXCEPT ![op.role].members = @ \ {op.user}]

\* The write.  Its answer may be lost: then the call reports a failure.
Write(c) ==
  /\ pc[c] = "write"
  /\ LET op == req[c].op
         b  == got[c].basis
     IN \/ /\ Accepts(op)
           /\ \/ Finish(c, "failed", After(op, b))
              \/ Finish(c, "done", After(op, b))
        \/ Finish(c, "failed", role)
  /\ UNCHANGED <<cache, shown>>

-----------------------------------------------------------------------------
(* Other users of the Graylog server *)

Edit(rl) ==
  /\ edits < MaxEdits
  /\ edits' = edits + 1
  /\ role' = rl
  /\ raced' = Disturbed(rl)
  /\ UNCHANGED <<cache, shown, pc, req, got>>

EditRole(r, perms, desc) ==
  /\ r \notin ReadOnly
  /\ perms = role[r].perms \/ desc = role[r].desc
  /\ Edit([role EXCEPT ![r] = [exists |-> TRUE, perms |-> perms, desc |-> desc, members |-> @.members]])
  /\ UNCHANGED <<users, catalogue>>
RemoveRole(r) ==
  /\ role[r].exists /\ r \notin ReadOnly
  /\ Edit([role EXCEPT ![r] = NoRole])
  /\ UNCHANGED <<users, catalogue>>
EditMember(r, u) ==
  /\ role[r].exists /\ u \in users
  /\ Edit([role EXCEPT ![r].members = IF u \in @ THEN @ \ {u} ELSE @ \union {u}])
  /\ UNCHANGED <<users, catalogue>>
RemoveUser(u) ==
  /\ u \in users
  /\ users' = users \ {u}
  /\ Edit([r \in RoleNames |-> [role[r] EXCEPT !.members = @ \ {u}]])
  /\ UNCHANGED catalogue
Upgrade ==
  /\ Edit(role)
  /\ \E p \in Perms \ {Wildcard} : catalogue' = catalogue \union {p}
  /\ UNCHANGED users

-----------------------------------------------------------------------------
Step(c) == \/ RequestFails(c) \/ CreateRole(c) \/ GetRole(c) \/ GetMembers(c) \/ GetUser(c)
           \/ GetAdmins(c) \/ GetCatalogue(c) \/ Write(c)

\* An agent previews, or applies with a token it was shown, or with none.
Previewing == {d \in Slots : pc[d] \notin {"idle"} \union Ended /\ req[d].dryRun}
Call(c) == \E op \in Operations :
  \/ Cardinality(shown) + Cardinality(Previewing) < MaxShown /\ Start(c, op, TRUE, {})
  \/ Start(c, op, FALSE, {})
  \/ \E t \in shown : Start(c, op, FALSE, {t})

OtherUsers ==
  \/ \E r \in RoleNames, perms \in SUBSET Perms, desc \in Descs : EditRole(r, perms, desc)
  \/ \E r \in RoleNames : RemoveRole(r)
  \/ \E r \in RoleNames, u \in Users : EditMember(r, u)
  \/ \E u \in Users : RemoveUser(u)
  \/ Upgrade

Next == \/ \E c \in Slots : Call(c) \/ Step(c)
        \/ OtherUsers

Spec == Init /\ [][Next]_vars

-----------------------------------------------------------------------------
(* Properties *)

\* A write is about to be sent only for a call that is not a dry run, on a role
\* the tool may change, and that echoed a token a preview returned, for this
\* very tool, role, user and permission set and for the state its own build()
\* has read (requireConfirm, assertRoleIsMutable, the read_only pre-flight).
ReviewedWrite ==
  \A c \in Slots : pc[c] = "write" =>
    /\ ~req[c].dryRun
    /\ req[c].confirm = {TokenOf(req[c].op, got[c].basis)} /\ req[c].confirm \subseteq shown
    /\ req[c].op.tool \in {"update_role", "delete_role"} => req[c].op.role \notin ReadOnly
    /\ req[c].op.tool = "create_role" => req[c].op.role \notin BuiltIn

\* The permissions, members or roles that the agent reviewed, and the
\* description update_role carries over, are those the write is about to
\* replace, unless they changed after this call itself read them.
ReviewedState ==
  \A c \in Slots : pc[c] = "write" /\ ~raced[c] =>
    \A t \in req[c].confirm : t.basis = BasisOf(req[c].op, role)

\* No role tool empties Admin by itself: the last admin goes only at the hand
\* of other users, or of an unassign_role whose guard saw another admin, who
\* has lost the role since.
LastAdminLostToARace ==
  [][role[Admin].members # {} /\ role'[Admin].members = {} =>
       \/ edits' # edits
       \/ \E c \in Slots : /\ pc[c] = "write" /\ req[c].op.tool = "unassign_role" /\ req[c].op.role = Admin
                           /\ \E u \in got[c].admins : u # req[c].op.user]_vars

\* Unless the caller opts out, a role is given only permissions the server has
\* in its catalogue, and the wildcard, however old the cached catalogue is and
\* whichever call fetched it.
OnlyKnownPermissions ==
  \A c \in Slots :
    pc[c] = "write" /\ req[c].op.tool \in {"create_role", "update_role"} /\ ~req[c].op.permitUnknown
      => Known(req[c].op, catalogue)

\* unassign-role.js:5 calls the last-admin guard "the only thing standing
\* between an agent and instance lockout": some user stays an admin.
AnAdminRemains == role[Admin].members # {}
=============================================================================
