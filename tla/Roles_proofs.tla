----------------------------- MODULE Roles_proofs -----------------------------
(***************************************************************************)
(* Proofs about Roles, for any number of calls, roles, users, permissions  *)
(* and edits by others.                                                    *)
(***************************************************************************)
EXTENDS Roles, TLAPS

USE NamesAssumption, BuiltInAssumption, OperationsAssumption, StartsAssumption, BoundsAssumption

-----------------------------------------------------------------------------
(* Types *)

LEMMA BasisType ==
  ASSUME NEW op \in Operation, NEW rl \in [RoleNames -> Role]
  PROVE  BasisOf(op, rl) \in Basis
<1>0. op.role \in RoleNames /\ op.user \in Users /\ op.desc \in SUBSET Descs /\ rl[op.role] \in Role
  BY DEF Operation
<1>1. AnchorOf(op, rl) \in SUBSET (Perms \union Users \union RoleNames)
  BY <1>0 DEF AnchorOf, Role
<1>2. DescOf(op, rl) \in Descs
  <2>1. CASE op.desc # {}
    BY <1>0, <2>1 DEF DescOf
  <2>2. CASE op.desc = {}
    BY <1>0, <2>2 DEF DescOf, Role
  <2> QED
    BY <2>1, <2>2
<1> QED
  BY <1>1, <1>2 DEF BasisOf, Basis

LEMMA NothingTypes == NothingGot \in [basis : Basis, admins : SUBSET Users] /\ NoRequest \in Request
                      /\ NoRole \in Role
  BY DEF NothingGot, Basis, NoRequest, Request, NoRole, Role

LEMMA TokenType ==
  ASSUME NEW op \in Operation, NEW b \in Basis
  PROVE  TokenOf(op, b) \in Token
  BY DEF Operation, TokenOf, Token

LEMMA AfterType ==
  ASSUME TypeOK, NEW op \in Operation, NEW b \in Basis
  PROVE  After(op, b) \in [RoleNames -> Role]
<1>0. /\ op.role \in RoleNames /\ op.user \in Users /\ op.perms \in SUBSET Perms /\ op.tool \in Tools
      /\ role[op.role] \in Role /\ b.desc \in Descs /\ role \in [RoleNames -> Role]
  BY DEF TypeOK, Operation, Basis
<1>1. CASE op.tool = "create_role"
  <2>1. [exists |-> TRUE, perms |-> op.perms, desc |-> b.desc, members |-> {}] \in Role
    BY <1>0 DEF Role
  <2> QED
    BY <1>0, <1>1, <2>1 DEF After
<1>2. CASE op.tool = "update_role"
  <2>1. [role[op.role] EXCEPT !.perms = op.perms, !.desc = b.desc] \in Role
    BY <1>0 DEF Role
  <2>2. After(op, b) = [role EXCEPT ![op.role] = [role[op.role] EXCEPT !.perms = op.perms, !.desc = b.desc]]
    BY <1>0, <1>2 DEF After, Role
  <2> QED
    BY <1>0, <2>1, <2>2
<1>3. CASE op.tool = "delete_role"
  BY <1>0, <1>3, NothingTypes DEF After
<1>4. CASE op.tool = "assign_role"
  <2>1. [role[op.role] EXCEPT !.members = @ \union {op.user}] \in Role
    BY <1>0 DEF Role
  <2> QED
    BY <1>0, <1>4, <2>1 DEF After
<1>5. CASE op.tool = "unassign_role"
  <2>1. [role[op.role] EXCEPT !.members = @ \ {op.user}] \in Role
    BY <1>0 DEF Role
  <2> QED
    BY <1>0, <1>5, <2>1 DEF After
<1> QED
  BY <1>0, <1>1, <1>2, <1>3, <1>4, <1>5 DEF Tools

\* The parts of TypeOK about roles and calls.
CallTypes ==
  /\ role \in [RoleNames -> Role]
  /\ users \in SUBSET Users /\ catalogue \in SUBSET Perms
  /\ pc \in [Slots -> {"idle", "called", "write"} \union Reading \union Ended]
  /\ req \in [Slots -> Request]
  /\ got \in [Slots -> [basis : Basis, admins : SUBSET Users]]
  /\ raced \in [Slots -> BOOLEAN]
  /\ edits \in 0..MaxEdits

LEMMA FinishType ==
  ASSUME TypeOK, NEW c \in Slots, NEW how \in Ended, NEW rl \in [RoleNames -> Role], Finish(c, how, rl)
  PROVE  CallTypes'
<1>1. raced' \in [Slots -> BOOLEAN]
  <2>1. Disturbed(rl) \in [Slots -> BOOLEAN]
    BY DEF Disturbed, TypeOK
  <2> QED
    BY <2>1 DEF Finish
<1>2. req' \in [Slots -> Request] /\ got' \in [Slots -> [basis : Basis, admins : SUBSET Users]]
  BY NothingTypes DEF Finish, TypeOK
<1> QED
  BY <1>1, <1>2 DEF CallTypes, TypeOK, Finish

LEMMA RefuseType ==
  ASSUME TypeOK, NEW c \in Slots, Refuse(c)
  PROVE  TypeOK'
<1>1. role \in [RoleNames -> Role] /\ "refused" \in Ended /\ Finish(c, "refused", role)
  BY DEF TypeOK, Ended, Refuse
<1>2. CallTypes'
  BY <1>1, FinishType
<1> QED
  BY <1>2 DEF CallTypes, TypeOK, Refuse

LEMMA ContinueType ==
  ASSUME TypeOK, NEW c \in Slots, NEW next \in Reading, NEW b \in Basis, Continue(c, next, b)
  PROVE  TypeOK'
<1>1. got' \in [Slots -> [basis : Basis, admins : SUBSET Users]]
  BY DEF TypeOK, Continue
<1> QED
  BY <1>1 DEF TypeOK, Continue

LEMMA BuiltType ==
  ASSUME TypeOK, NEW c \in Slots, NEW b \in Basis, NEW admins \in SUBSET Users, Built(c, b, admins)
  PROVE  CallTypes' /\ shown' \in SUBSET Token
<1>0. req[c].op \in Operation /\ role \in [RoleNames -> Role]
  BY DEF TypeOK, Request
<1>1. TokenOf(req[c].op, b) \in Token
  BY <1>0, TokenType
<1>2. CASE req[c].dryRun
  BY <1>0, <1>1, <1>2, FinishType DEF Built, Ended, TypeOK
<1>3. CASE ~req[c].dryRun /\ req[c].confirm # {TokenOf(req[c].op, b)}
  BY <1>0, <1>3, FinishType DEF Built, Ended, TypeOK
<1>4. CASE ~req[c].dryRun /\ req[c].confirm = {TokenOf(req[c].op, b)}
  <2>1. /\ pc' = [pc EXCEPT ![c] = "write"]
        /\ got' = [got EXCEPT ![c] = [basis |-> b, admins |-> admins]]
        /\ UNCHANGED <<role, users, catalogue, shown, req, raced, edits>>
    BY <1>4 DEF Built
  <2>2. got' \in [Slots -> [basis : Basis, admins : SUBSET Users]]
    BY <2>1 DEF TypeOK
  <2> QED
    BY <2>1, <2>2 DEF CallTypes, TypeOK
<1> QED
  BY <1>2, <1>3, <1>4

LEMMA EditType ==
  ASSUME TypeOK, NEW rl \in [RoleNames -> Role], Edit(rl),
         users' \in SUBSET Users, catalogue' \in SUBSET Perms
  PROVE  TypeOK'
<1>1. Disturbed(rl) \in [Slots -> BOOLEAN]
  BY DEF Disturbed, TypeOK
<1> QED
  BY <1>1 DEF Edit, TypeOK

LEMMA TypeInit == Init => TypeOK
<1> SUFFICES ASSUME Init PROVE TypeOK
  OBVIOUS
<1>1. role \in [RoleNames -> Role] /\ users \in SUBSET Users /\ catalogue \in SUBSET Perms
  BY DEF Init, Start0
<1> QED
  BY <1>1, NothingTypes DEF Init, TypeOK

LEMMA ValidateType ==
  ASSUME TypeOK, NEW c \in Slots, NEW b \in Basis, Validate(c, b)
  PROVE  TypeOK'
<1>1. CASE Built(c, b, {}) /\ UNCHANGED cache
  BY <1>1, BuiltType DEF TypeOK, CallTypes
<1>2. CASE Continue(c, "get_catalogue", b)
  BY <1>2, ContinueType DEF Reading
<1>3. CASE Refuse(c)
  BY <1>3, RefuseType
<1> QED
  BY <1>1, <1>2, <1>3 DEF Validate

LEMMA TypeStep ==
  ASSUME TypeOK, NEW c \in Slots, Step(c)
  PROVE  TypeOK'
<1>0. /\ req[c].op \in Operation /\ role \in [RoleNames -> Role]
      /\ got[c].basis \in Basis /\ BasisOf(req[c].op, role) \in Basis
  BY BasisType DEF TypeOK, Request
<1>1. CASE RequestFails(c)
  BY <1>1, RefuseType DEF RequestFails
<1>2. CASE CreateRole(c)
  BY <1>0, <1>2, ValidateType DEF CreateRole
<1>3. CASE GetRole(c)
  <2>1. CASE Refuse(c)
    BY <2>1, RefuseType
  <2>2. CASE Validate(c, BasisOf(req[c].op, role))
    BY <1>0, <2>2, ValidateType
  <2>3. CASE Continue(c, "get_members", got[c].basis) \/ Continue(c, "get_user", got[c].basis)
    BY <1>0, <2>3, ContinueType DEF Reading
  <2> QED
    BY <1>3, <2>1, <2>2, <2>3 DEF GetRole
<1>4. CASE GetMembers(c)
  BY <1>0, <1>4, BuiltType, RefuseType DEF GetMembers, TypeOK, CallTypes
<1>5. CASE GetUser(c)
  <2>1. CASE Refuse(c)
    BY <2>1, RefuseType
  <2>2. CASE Continue(c, "get_admins", BasisOf(req[c].op, role))
    BY <1>0, <2>2, ContinueType DEF Reading
  <2>3. CASE Built(c, BasisOf(req[c].op, role), {}) /\ UNCHANGED cache
    BY <1>0, <2>3, BuiltType DEF TypeOK, CallTypes
  <2> QED
    BY <1>5, <2>1, <2>2, <2>3 DEF GetUser
<1>6. CASE GetAdmins(c)
  <2>1. CASE Refuse(c)
    BY <2>1, RefuseType
  <2>2. CASE Built(c, got[c].basis, role[Admin].members) /\ UNCHANGED cache
    <3>1. role[Admin].members \in SUBSET Users
      BY <1>0 DEF Role
    <3> QED
      BY <1>0, <2>2, <3>1, BuiltType DEF TypeOK, CallTypes
  <2> QED
    BY <1>6, <2>1, <2>2 DEF GetAdmins
<1>7. CASE GetCatalogue(c)
  <2>1. cache' \in SUBSET (SUBSET Perms)
    BY <1>7 DEF GetCatalogue, TypeOK
  <2>2. CASE Built(c, got[c].basis, {})
    BY <1>0, <2>1, <2>2, BuiltType DEF TypeOK, CallTypes
  <2>3. CASE Finish(c, "refused", role) /\ UNCHANGED shown
    BY <1>0, <2>1, <2>3, FinishType DEF TypeOK, CallTypes, Ended
  <2> QED
    BY <1>7, <2>2, <2>3 DEF GetCatalogue
<1>8. CASE Write(c)
  <2>1. After(req[c].op, got[c].basis) \in [RoleNames -> Role]
    BY <1>0, AfterType
  <2>2. PICK how \in {"done", "failed"}, rl \in {role, After(req[c].op, got[c].basis)} : Finish(c, how, rl)
    BY <1>8 DEF Write
  <2>3. CallTypes'
    BY <1>0, <2>1, <2>2, FinishType DEF Ended
  <2> QED
    BY <1>8, <2>3 DEF Write, TypeOK, CallTypes
<1> QED
  BY <1>1, <1>2, <1>3, <1>4, <1>5, <1>6, <1>7, <1>8 DEF Step

LEMMA TypeCall ==
  ASSUME TypeOK, NEW c \in Slots, Call(c)
  PROVE  TypeOK'
<1>1. PICK op \in Operations, d \in BOOLEAN, e \in SUBSET Token : Start(c, op, d, e)
  BY DEF Call, TypeOK
<1>2. req' \in [Slots -> Request]
  BY <1>1 DEF Start, TypeOK, Request
<1> QED
  BY <1>1, <1>2 DEF Start, TypeOK, Ended, Reading

LEMMA TypeOtherUsers ==
  ASSUME TypeOK, OtherUsers
  PROVE  TypeOK'
<1>0. role \in [RoleNames -> Role] /\ users \in SUBSET Users /\ catalogue \in SUBSET Perms
  BY DEF TypeOK
<1>1. ASSUME NEW r \in RoleNames, NEW perms \in SUBSET Perms, NEW desc \in Descs, EditRole(r, perms, desc)
      PROVE  TypeOK'
  <2>1. [exists |-> TRUE, perms |-> perms, desc |-> desc, members |-> role[r].members] \in Role
    BY <1>0 DEF Role
  <2>2. [role EXCEPT ![r] = [exists |-> TRUE, perms |-> perms, desc |-> desc, members |-> @.members]]
          \in [RoleNames -> Role]
    BY <1>0, <2>1
  <2> QED
    BY <1>0, <1>1, <2>2, EditType DEF EditRole
<1>2. ASSUME NEW r \in RoleNames, RemoveRole(r)
      PROVE  TypeOK'
  BY <1>0, <1>2, NothingTypes, EditType DEF RemoveRole
<1>3. ASSUME NEW r \in RoleNames, NEW u \in Users, EditMember(r, u)
      PROVE  TypeOK'
  <2>1. [role[r] EXCEPT !.members = IF u \in @ THEN @ \ {u} ELSE @ \union {u}] \in Role
    BY <1>0 DEF Role
  <2>2. [role EXCEPT ![r].members = IF u \in @ THEN @ \ {u} ELSE @ \union {u}] \in [RoleNames -> Role]
    BY <1>0, <2>1
  <2> QED
    BY <1>0, <1>3, <2>2, EditType DEF EditMember
<1>4. ASSUME NEW u \in Users, RemoveUser(u)
      PROVE  TypeOK'
  <2>1. [r \in RoleNames |-> [role[r] EXCEPT !.members = @ \ {u}]] \in [RoleNames -> Role]
    BY <1>0 DEF Role
  <2> QED
    BY <1>0, <1>4, <2>1, EditType DEF RemoveUser
<1>5. ASSUME Upgrade
      PROVE  TypeOK'
  BY <1>0, <1>5, EditType DEF Upgrade
<1> QED
  BY <1>1, <1>2, <1>3, <1>4, <1>5 DEF OtherUsers

LEMMA TypeNext == TypeOK /\ [Next]_vars => TypeOK'
<1>1. ASSUME TypeOK, UNCHANGED vars PROVE TypeOK'
  BY <1>1 DEF TypeOK, vars
<1> QED
  BY <1>1, TypeStep, TypeCall, TypeOtherUsers DEF Next

\* Every variable keeps its type in every behaviour of the role tools.
THEOREM TypeCorrect == Spec => []TypeOK
  BY TypeInit, TypeNext, PTL DEF Spec

-----------------------------------------------------------------------------
(***************************************************************************)
(* The gates.  What each request of build() has established by the time it *)
(* is answered: the properties only speak of the last one, the write.      *)
(***************************************************************************)
Changes == {"update_role", "delete_role"}

\* Which tool a call is at this point, and what has been refused before it.
Routed(pcc, op) ==
  /\ pcc = "called" => op.tool = "create_role"
  /\ pcc = "get_role" => op.tool # "create_role"
  /\ pcc = "get_members" => op.tool = "delete_role"
  /\ pcc = "get_user" => op.tool \in {"assign_role", "unassign_role"}
  /\ pcc = "get_admins" => op.tool = "unassign_role"
  /\ pcc = "get_catalogue" => op.tool \in {"create_role", "update_role"}
  /\ pcc \in {"called", "get_catalogue", "write"} /\ op.tool = "create_role" => op.role \notin BuiltIn
  /\ pcc \in {"get_members", "get_catalogue", "write"} /\ op.tool \in Changes => op.role \notin ReadOnly

\* What holds of a call about to write.
Ready(r, g) ==
  /\ ~r.dryRun /\ r.confirm = {TokenOf(r.op, g.basis)}
  /\ r.op.tool \in {"create_role", "update_role"} /\ ~r.op.permitUnknown => Known(r.op, catalogue)
  /\ r.op.tool = "unassign_role" /\ r.op.role = Admin => \E u \in g.admins : u # r.op.user

Gated(c) ==
  /\ req[c].confirm \subseteq shown
  /\ Routed(pc[c], req[c].op)
  /\ pc[c] = "write" => Ready(req[c], got[c])
  /\ pc[c] \in HasRead /\ ~raced[c] => got[c].basis = BasisOf(req[c].op, role)

CacheOld == \A cat \in cache : cat \subseteq catalogue
Inv == CacheOld /\ \A c \in Slots : Gated(c)

\* A step that leaves a call's locals alone, grows what was shown and the
\* catalogue, and records what it disturbs.
LEMMA GatedKept ==
  ASSUME TypeOK, NEW c \in Slots, Gated(c),
         pc'[c] = pc[c], req'[c] = req[c], got'[c] = got[c],
         shown \subseteq shown', catalogue \subseteq catalogue',
         pc[c] \in HasRead /\ ~raced'[c] => ~raced[c] /\ BasisOf(req[c].op, role') = BasisOf(req[c].op, role)
  PROVE  Gated(c)'
<1>1. Known(req[c].op, catalogue) => Known(req[c].op, catalogue')
  BY DEF Known
<1>2. pc'[c] = "write" => Ready(req[c], got[c])'
  BY <1>1 DEF Gated, Ready
<1>3. BasisOf(req[c].op, role)' = BasisOf(req[c].op, role')
  BY DEF BasisOf, AnchorOf, DescOf
<1> QED
  BY <1>2, <1>3 DEF Gated

LEMMA DisturbedKeeps ==
  ASSUME TypeOK, NEW rl, NEW c \in Slots
  PROVE  pc[c] \in HasRead /\ ~Disturbed(rl)[c] => ~raced[c] /\ BasisOf(req[c].op, rl) = BasisOf(req[c].op, role)
  BY DEF Disturbed

LEMMA GatedFinish ==
  ASSUME TypeOK, NEW c \in Slots, NEW how \in Ended, NEW rl, Finish(c, how, rl),
         shown \subseteq shown', \A d \in Slots : Gated(d)
  PROVE  \A d \in Slots : Gated(d)'
<1> SUFFICES ASSUME NEW d \in Slots PROVE Gated(d)'
  OBVIOUS
<1>1. CASE d = c
  <2>1. pc'[c] = how /\ req'[c] = NoRequest /\ NoRequest.confirm = {}
    BY DEF Finish, TypeOK, NoRequest
  <2> QED
    BY <1>1, <2>1 DEF Gated, Routed, Ended, HasRead
<1>2. CASE d # c
  <2>1. /\ pc'[d] = pc[d] /\ req'[d] = req[d] /\ got'[d] = got[d]
        /\ catalogue' = catalogue /\ role' = rl
    BY <1>2 DEF Finish, TypeOK
  <2>2. raced'[d] = Disturbed(rl)[d]
    BY <1>2 DEF Finish, Disturbed
  <2> QED
    BY <2>1, <2>2, DisturbedKeeps, GatedKept
<1> QED
  BY <1>1, <1>2

LEMMA GatedRefuse ==
  ASSUME TypeOK, NEW c \in Slots, Refuse(c), Inv
  PROVE  Inv'
  BY GatedFinish DEF Refuse, Inv, CacheOld, Ended, Finish

LEMMA GatedContinue ==
  ASSUME TypeOK, Inv, NEW c \in Slots, NEW next \in Reading, NEW b, Continue(c, next, b),
         Routed(next, req[c].op),
         next \in HasRead => b = BasisOf(req[c].op, role) \/ (b = got[c].basis /\ pc[c] \in HasRead)
  PROVE  Inv'
<1>1. CacheOld'
  BY DEF Inv, CacheOld, Continue
<1>2. ASSUME NEW d \in Slots PROVE Gated(d)'
  <2>1. CASE d = c
    <3>1. /\ pc'[c] = next /\ req'[c] = req[c] /\ got'[c].basis = b
          /\ UNCHANGED <<shown, raced, role>> /\ next # "write"
      BY DEF Continue, TypeOK, Reading
    <3>2. BasisOf(req[c].op, role)' = BasisOf(req[c].op, role)
      BY <3>1 DEF BasisOf, AnchorOf, DescOf
    <3> QED
      BY <2>1, <3>1, <3>2 DEF Inv, Gated
  <2>2. CASE d # c
    BY <2>2, GatedKept DEF Inv, Continue, TypeOK
  <2> QED
    BY <2>1, <2>2
<1> QED
  BY <1>1, <1>2 DEF Inv

\* build() ends with the gates behind it.
LEMMA GatedBuilt ==
  ASSUME TypeOK, Inv, NEW c \in Slots, NEW b, NEW admins, Built(c, b, admins),
         Routed("write", req[c].op),
         req[c].op.tool \in {"create_role", "update_role"} /\ ~req[c].op.permitUnknown
           => Known(req[c].op, catalogue),
         req[c].op.tool = "unassign_role" /\ req[c].op.role = Admin => \E u \in admins : u # req[c].op.user,
         b = BasisOf(req[c].op, role) \/ (b = got[c].basis /\ pc[c] \in HasRead)
  PROVE  \A d \in Slots : Gated(d)'
<1>1. CASE ~req[c].dryRun /\ req[c].confirm = {TokenOf(req[c].op, b)}
  <2>1. /\ pc' = [pc EXCEPT ![c] = "write"]
        /\ got' = [got EXCEPT ![c] = [basis |-> b, admins |-> admins]]
        /\ UNCHANGED <<role, catalogue, shown, req, raced>>
    BY <1>1 DEF Built
  <2>2. ASSUME NEW d \in Slots PROVE Gated(d)'
    <3>1. CASE d = c
      <4>1. /\ pc'[c] = "write" /\ got'[c].basis = b /\ got'[c].admins = admins
        BY <2>1 DEF TypeOK
      <4>2. Ready(req[c], got[c])'
        BY <1>1, <2>1, <4>1 DEF Ready, Known
      <4>3. BasisOf(req[c].op, role)' = BasisOf(req[c].op, role)
        BY <2>1 DEF BasisOf, AnchorOf, DescOf
      <4> QED
        BY <2>1, <3>1, <4>1, <4>2, <4>3 DEF Inv, Gated
    <3>2. CASE d # c
      BY <2>1, <3>2, GatedKept DEF Inv, TypeOK
    <3> QED
      BY <3>1, <3>2
  <2> QED
    BY <2>2
<1>2. CASE Finish(c, "done", role) /\ shown \subseteq shown'
  BY <1>2, GatedFinish DEF Inv, Ended
<1>3. CASE Finish(c, "refused", role) /\ UNCHANGED shown
  BY <1>3, GatedFinish DEF Inv, Ended
<1> QED
  BY <1>1, <1>2, <1>3 DEF Built

LEMMA GatedValidate ==
  ASSUME TypeOK, Inv, NEW c \in Slots, Validate(c, BasisOf(req[c].op, role)),
         req[c].op.tool \in {"create_role", "update_role"},
         Routed("get_catalogue", req[c].op), Routed("write", req[c].op)
  PROVE  Inv'
<1>1. CASE /\ req[c].op.permitUnknown \/ \E cat \in cache : Known(req[c].op, cat)
           /\ Built(c, BasisOf(req[c].op, role), {}) /\ UNCHANGED cache
  <2>1. ~req[c].op.permitUnknown => Known(req[c].op, catalogue)
    BY <1>1 DEF Inv, CacheOld, Known
  <2>2. \A d \in Slots : Gated(d)'
    BY <1>1, <2>1, GatedBuilt
  <2>3. catalogue' = catalogue
    BY <1>1 DEF Built, Finish
  <2> QED
    BY <1>1, <2>2, <2>3 DEF Inv, CacheOld
<1>2. CASE Continue(c, "get_catalogue", BasisOf(req[c].op, role))
  BY <1>2, GatedContinue DEF Reading
<1>3. CASE Refuse(c)
  BY <1>3, GatedRefuse
<1> QED
  BY <1>1, <1>2, <1>3 DEF Validate

\* The catalogue grows only, and build() does not change it.
LEMMA BuiltInv ==
  ASSUME Inv, NEW c \in Slots, NEW b, NEW admins, Built(c, b, admins), UNCHANGED cache,
         \A d \in Slots : Gated(d)'
  PROVE  Inv'
<1>1. catalogue' = catalogue
  BY DEF Built, Finish
<1> QED
  BY <1>1 DEF Inv, CacheOld

LEMMA InvStep ==
  ASSUME TypeOK, Inv, NEW c \in Slots, Step(c)
  PROVE  Inv'
<1> DEFINE op == req[c].op
<1>0. op \in Operation /\ op.tool \in Tools /\ Gated(c)
  BY DEF TypeOK, Request, Operation, Inv
<1>1. CASE RequestFails(c)
  BY <1>1, GatedRefuse DEF RequestFails
<1>2. CASE CreateRole(c)
  <2>1. op.tool = "create_role" /\ op.role \notin BuiltIn
    BY <1>0, <1>2 DEF CreateRole, Gated, Routed
  <2>2. Routed("get_catalogue", op) /\ Routed("write", op)
    BY <2>1 DEF Routed, Changes
  <2> QED
    BY <1>2, <2>1, <2>2, GatedValidate DEF CreateRole
<1>3. CASE GetRole(c)
  <2>1. CASE Refuse(c)
    BY <2>1, GatedRefuse
  <2>2. CASE op.tool = "update_role" /\ op.role \notin ReadOnly /\ Validate(c, BasisOf(op, role))
    <3>1. Routed("get_catalogue", op) /\ Routed("write", op)
      BY <2>2 DEF Routed, Changes
    <3> QED
      BY <2>2, <3>1, GatedValidate
  <2>3. CASE op.tool = "delete_role" /\ op.role \notin ReadOnly /\ Continue(c, "get_members", got[c].basis)
    <3>1. Routed("get_members", op)
      BY <2>3 DEF Routed, Changes
    <3> QED
      BY <2>3, <3>1, GatedContinue DEF Reading, HasRead
  <2>4. CASE op.tool \in {"assign_role", "unassign_role"} /\ Continue(c, "get_user", got[c].basis)
    <3>1. Routed("get_user", op)
      BY <2>4 DEF Routed, Changes
    <3> QED
      BY <2>4, <3>1, GatedContinue DEF Reading, HasRead
  <2> QED
    BY <1>3, <2>1, <2>2, <2>3, <2>4 DEF GetRole
<1>4. CASE GetMembers(c)
  <2>1. CASE Refuse(c)
    BY <2>1, GatedRefuse
  <2>2. CASE Built(c, BasisOf(op, role), {}) /\ UNCHANGED cache
    <3>1. op.tool = "delete_role" /\ Routed("write", op)
      BY <1>0, <1>4 DEF GetMembers, Gated, Routed, Changes
    <3>2. \A d \in Slots : Gated(d)'
      BY <2>2, <3>1, GatedBuilt
    <3> QED
      BY <2>2, <3>2, BuiltInv
  <2> QED
    BY <1>4, <2>1, <2>2 DEF GetMembers
<1>5. CASE GetUser(c)
  <2>0. op.tool \in {"assign_role", "unassign_role"}
    BY <1>0, <1>5 DEF GetUser, Gated, Routed
  <2>1. CASE Refuse(c)
    BY <2>1, GatedRefuse
  <2>2. CASE op.tool = "unassign_role" /\ op.role = Admin /\ Continue(c, "get_admins", BasisOf(op, role))
    <3>1. Routed("get_admins", op)
      BY <2>2 DEF Routed, Changes
    <3> QED
      BY <2>2, <3>1, GatedContinue DEF Reading
  <2>3. CASE /\ ~(op.tool = "unassign_role" /\ op.role = Admin)
             /\ Built(c, BasisOf(op, role), {}) /\ UNCHANGED cache
    <3>1. Routed("write", op)
      BY <2>0 DEF Routed, Changes
    <3>2. \A d \in Slots : Gated(d)'
      BY <2>0, <2>3, <3>1, GatedBuilt
    <3> QED
      BY <2>3, <3>2, BuiltInv
  <2> QED
    BY <1>5, <2>1, <2>2, <2>3 DEF GetUser
<1>6. CASE GetAdmins(c)
  <2>1. CASE Refuse(c)
    BY <2>1, GatedRefuse
  <2>2. CASE /\ ~(role[Admin].members \subseteq {op.user})
             /\ Built(c, got[c].basis, role[Admin].members) /\ UNCHANGED cache
    <3>1. op.tool = "unassign_role" /\ Routed("write", op) /\ pc[c] \in HasRead
      BY <1>0, <1>6 DEF GetAdmins, Gated, Routed, Changes, HasRead
    <3>2. \E u \in role[Admin].members : u # op.user
      BY <2>2
    <3>3. \A d \in Slots : Gated(d)'
      BY <2>2, <3>1, <3>2, GatedBuilt
    <3> QED
      BY <2>2, <3>3, BuiltInv
  <2> QED
    BY <1>6, <2>1, <2>2 DEF GetAdmins
<1>7. CASE GetCatalogue(c)
  <2>0. pc[c] = "get_catalogue" /\ cache' = {catalogue}
    BY <1>7 DEF GetCatalogue
  <2>1. CASE Known(op, catalogue) /\ Built(c, got[c].basis, {})
    <3>1. op.tool \in {"create_role", "update_role"} /\ Routed("write", op) /\ pc[c] \in HasRead
      BY <1>0, <2>0 DEF Gated, Routed, Changes, HasRead
    <3>2. \A d \in Slots : Gated(d)'
      BY <2>1, <3>1, GatedBuilt
    <3>3. catalogue' = catalogue
      BY <2>1 DEF Built, Finish
    <3> QED
      BY <2>0, <3>2, <3>3 DEF Inv, CacheOld
  <2>2. CASE Finish(c, "refused", role) /\ UNCHANGED shown
    <3>1. \A d \in Slots : Gated(d)'
      BY <2>2, GatedFinish DEF Inv, Ended
    <3>2. catalogue' = catalogue
      BY <2>2 DEF Finish
    <3> QED
      BY <2>0, <3>1, <3>2 DEF Inv, CacheOld
  <2> QED
    BY <1>7, <2>1, <2>2 DEF GetCatalogue
<1>8. CASE Write(c)
  <2>1. PICK how \in {"done", "failed"}, rl \in {role, After(op, got[c].basis)} : Finish(c, how, rl)
    BY <1>8 DEF Write
  <2>2. UNCHANGED <<cache, shown, catalogue>>
    BY <1>8, <2>1 DEF Write, Finish
  <2>3. \A d \in Slots : Gated(d)'
    BY <2>1, <2>2, GatedFinish DEF Inv, Ended
  <2> QED
    BY <2>2, <2>3 DEF Inv, CacheOld
<1> QED
  BY <1>1, <1>2, <1>3, <1>4, <1>5, <1>6, <1>7, <1>8 DEF Step

LEMMA InvCall ==
  ASSUME TypeOK, Inv, NEW c \in Slots, Call(c)
  PROVE  Inv'
<1>1. PICK op \in Operations, dry \in BOOLEAN, e \in SUBSET shown : Start(c, op, dry, e)
  BY DEF Call
<1>2. UNCHANGED <<role, catalogue, cache, shown, got, raced>>
  BY <1>1 DEF Start
<1>3. ASSUME NEW d \in Slots PROVE Gated(d)'
  <2>1. CASE d = c
    <3>1. req'[c].op = op /\ req'[c].confirm = e
      BY <1>1 DEF Start, TypeOK
    <3>2. pc'[c] \in {"refused", "called", "get_role"}
          /\ (pc'[c] = "called" => op.tool = "create_role" /\ op.role \notin BuiltIn)
          /\ (pc'[c] = "get_role" => op.tool # "create_role")
      BY <1>1 DEF Start, TypeOK
    <3> QED
      BY <1>2, <2>1, <3>1, <3>2 DEF Gated, Routed, HasRead
  <2>2. CASE d # c
    <3>1. pc'[d] = pc[d] /\ req'[d] = req[d]
      BY <1>1, <2>2 DEF Start, TypeOK
    <3> QED
      BY <1>2, <3>1, GatedKept DEF Inv
  <2> QED
    BY <2>1, <2>2
<1> QED
  BY <1>2, <1>3 DEF Inv, CacheOld

\* Whatever other users do is an Edit, and the catalogue never shrinks.
LEMMA OthersEdit ==
  ASSUME OtherUsers
  PROVE  (\E rl : Edit(rl)) /\ catalogue \subseteq catalogue'
  BY DEF OtherUsers, EditRole, RemoveRole, EditMember, RemoveUser, Upgrade

LEMMA InvOtherUsers ==
  ASSUME TypeOK, Inv, OtherUsers
  PROVE  Inv'
<1>1. PICK rl : Edit(rl)
  BY OthersEdit
<1>2. catalogue \subseteq catalogue'
  BY OthersEdit
<1>3. UNCHANGED <<cache, shown, pc, req, got>> /\ role' = rl /\ raced' = Disturbed(rl)
  BY <1>1 DEF Edit
<1>4. \A c \in Slots : Gated(c)'
  BY <1>2, <1>3, DisturbedKeeps, GatedKept DEF Inv
<1> QED
  BY <1>2, <1>3, <1>4 DEF Inv, CacheOld

LEMMA InvInit == Init => Inv
<1> SUFFICES ASSUME Init PROVE Inv
  OBVIOUS
<1>1. NoRequest.confirm = {}
  BY DEF NoRequest
<1> QED
  BY <1>1 DEF Init, Inv, CacheOld, Gated, Routed, HasRead

LEMMA InvNext == TypeOK /\ Inv /\ [Next]_vars => Inv'
<1>1. ASSUME TypeOK, Inv, UNCHANGED vars PROVE Inv'
  <2>1. CacheOld'
    BY <1>1 DEF vars, Inv, CacheOld
  <2>2. \A c \in Slots : Gated(c)'
    BY <1>1, GatedKept DEF vars, Inv
  <2> QED
    BY <2>1, <2>2 DEF Inv
<1> QED
  BY <1>1, InvStep, InvCall, InvOtherUsers DEF Next

LEMMA InvHolds == Spec => [](TypeOK /\ Inv)
<1>1. TypeOK /\ Inv /\ [Next]_vars => Inv'
  BY InvNext
<1> QED
  BY <1>1, InvInit, TypeCorrect, PTL DEF Spec

\* Only a call that echoed a token some preview returned, for this very tool,
\* role, user, permissions and state, on a role the tool may change, writes.
THEOREM WriteReviewed == Spec => []ReviewedWrite
<1>1. TypeOK /\ Inv => ReviewedWrite
  BY DEF Inv, Gated, Routed, Changes, Ready, ReviewedWrite
<1> QED
  BY <1>1, InvHolds, PTL

\* What the agent reviewed is what the write replaces, unless it changed after
\* the applying call read it.
THEOREM StateReviewed == Spec => []ReviewedState
<1>1. TypeOK /\ Inv => ReviewedState
  BY DEF Inv, Gated, Ready, ReviewedState, TokenOf, HasRead
<1> QED
  BY <1>1, InvHolds, PTL

\* The stale catalogue cache never lets an unknown permission through.
THEOREM PermissionsKnown == Spec => []OnlyKnownPermissions
<1>1. TypeOK /\ Inv => OnlyKnownPermissions
  BY DEF Inv, Gated, Ready, OnlyKnownPermissions
<1> QED
  BY <1>1, InvHolds, PTL

\* Admin is emptied only by other users, or by an unassign_role whose guard saw
\* another admin: no other tool can, and its own guard stops it otherwise.
THEOREM LastAdminGuarded == Spec => LastAdminLostToARace
<1> DEFINE Emptied == role[Admin].members # {} /\ role'[Admin].members = {}
           Guarded(c) == /\ pc[c] = "write" /\ req[c].op.tool = "unassign_role" /\ req[c].op.role = Admin
                         /\ \E u \in got[c].admins : u # req[c].op.user
<1>1. ASSUME TypeOK, Inv, Emptied, NEW c \in Slots, Step(c)
      PROVE  Guarded(c)
  <2>1. role' = role => FALSE
    BY <1>1
  <2>2. Write(c)
    BY <1>1, <2>1 DEF Step, RequestFails, CreateRole, GetRole, GetMembers, GetUser, GetAdmins, GetCatalogue,
       Validate, Built, Refuse, Continue, Finish
  <2> DEFINE op == req[c].op
  <2>3. pc[c] = "write" /\ role' = After(op, got[c].basis)
    BY <2>1, <2>2 DEF Write, Finish
  <2>4. op \in Operation /\ op.tool \in Tools /\ op.role \in RoleNames /\ role \in [RoleNames -> Role]
    BY <1>1 DEF TypeOK, Request, Operation
  <2>5. Ready(req[c], got[c]) /\ Routed("write", op)
    BY <1>1, <2>3 DEF Inv, Gated
  <2>6. CASE op.tool = "create_role" \/ op.tool = "delete_role"
    <3>1. op.role # Admin
      BY <2>5, <2>6 DEF Routed, Changes
    <3> QED
      BY <1>1, <2>3, <2>4, <2>6, <3>1 DEF After
  <2>7. CASE op.tool = "update_role"
    <3>1. op.role # Admin
      BY <2>5, <2>7 DEF Routed, Changes
    <3> QED
      BY <1>1, <2>3, <2>4, <2>7, <3>1 DEF After
  <2>8. CASE op.tool = "assign_role"
    <3>1. role' = [role EXCEPT ![op.role].members = @ \union {op.user}]
      BY <2>3, <2>8 DEF After
    <3> QED
      BY <1>1, <2>4, <3>1 DEF Role
  <2>9. CASE op.tool = "unassign_role"
    <3>1. role' = [role EXCEPT ![op.role].members = @ \ {op.user}]
      BY <2>3, <2>9 DEF After
    <3>2. op.role = Admin
      BY <1>1, <2>4, <3>1
    <3> QED
      BY <2>3, <2>5, <2>9, <3>2 DEF Ready
  <2> QED
    BY <2>4, <2>6, <2>7, <2>8, <2>9 DEF Tools
<1>2. ASSUME TypeOK, Inv, Next, Emptied
      PROVE  edits' # edits \/ \E c \in Slots : Guarded(c)
  <2>1. CASE \E c \in Slots : Step(c)
    BY <1>1, <1>2, <2>1
  <2>2. CASE \E c \in Slots : Call(c)
    BY <1>2, <2>2 DEF Call, Start
  <2>3. CASE OtherUsers
    BY <2>3, <1>2, OthersEdit DEF Edit, TypeOK
  <2> QED
    BY <1>2, <2>1, <2>2, <2>3 DEF Next
<1>3. TypeOK /\ Inv /\ [Next]_vars =>
        [Emptied => edits' # edits \/ \E c \in Slots : Guarded(c)]_vars
  BY <1>2
<1> QED
  BY <1>3, InvHolds, PTL DEF Spec, LastAdminLostToARace
=============================================================================
