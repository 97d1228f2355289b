------------------------------- MODULE ShareEntity -------------------------------
(***************************************************************************)
(* share_entity (tools/authz/share-entity.js): grant, change or revoke one *)
(* grantee's capability on a stream, dashboard or search.  Graylog's POST  *)
(* replaces all the grants of an entity, so build() reads the present ones *)
(* (POST .../prepare), merges the one change and sends the whole map; the  *)
(* confirmation token is the hash of that merged map.                      *)
(***************************************************************************)
EXTENDS MutatingTool

CONSTANTS GrnIds, Lower,  \* the id tokens of GRNs, and each in lower case
          Names,          \* user names, the titles of available_grantees
          Entities,       \* the GRNs of the entities that exist
          Grantees,       \* the GRNs of those who can hold a grant
          Sharer,         \* the grantee whose API token the connection uses
          ShareOps,       \* the arguments agents call the tool with
          ShareStarts,    \* what the server may hold to begin with
          MaxShareEdits   \* bound: changes made by other users

ShareableTypes == {"stream", "dashboard", "search"}
GranteeTypes   == {"user", "team", "builtin-team"}
GrnTypes       == ShareableTypes \union GranteeTypes \union {"role"}
\* A string that parseGrn rejects has the type "malformed".
Grn  == [type : GrnTypes \union {"malformed"}, id : GrnIds]
Caps == {"view", "manage", "own"}
None == "none"
\* Map<granteeGrn, capability>; None where the map has no key.
Map  == [Grantees -> Caps \union {None}]

\* granteeGrn or granteeUsername, and capability unless revoke: {} when omitted.
ShareOp == [entity : Grn, grantee : SUBSET Grn, username : SUBSET Names,
            capability : SUBSET Caps, revoke : BOOLEAN]
\* computeShareGrantHash({entityGrn, grants})
ShareToken == [entity : Entities, grants : Map]
ShareGot   == [entity : Entities, grantee : Grantees, body : Map]
ShareStart == [grants : [Entities -> Map], titles : [Grantees -> Names], admin : BOOLEAN]

ASSUME LowerAssumption == Lower \in [GrnIds -> GrnIds]
\* The GRNs the server holds are in lower case.
ASSUME GrnsAssumption ==
  /\ Entities \subseteq Grn /\ \A e \in Entities : e.type \in ShareableTypes /\ Lower[e.id] = e.id
  /\ Grantees \subseteq Grn /\ \A g \in Grantees : g.type \in GranteeTypes /\ Lower[g.id] = g.id
  /\ Sharer \in Grantees
\* ShareEntitySchema's refinements.
ASSUME ShareOpsAssumption ==
  /\ ShareOps \subseteq ShareOp
  /\ \A op \in ShareOps :
       /\ Cardinality(op.grantee) + Cardinality(op.username) = 1
       /\ Cardinality(op.capability) = IF op.revoke THEN 0 ELSE 1
       /\ \A g \in op.grantee : g.type \in GranteeTypes => [g EXCEPT !.id = Lower[g.id]] \in Grantees
ASSUME ShareStartsAssumption == ShareStarts \subseteq ShareStart
ASSUME ShareBoundsAssumption == MaxShareEdits \in Nat

VARIABLES
  grants,      \* the server's grants
  titles,      \* the title each grantee has
  admin,       \* the connection's user may share without owning
  drift,       \* history: the grantees whose grant changed since a call read it
  shareEdits   \* bound: changes made by other users

shareWorld == <<grants, titles, admin, drift, shareEdits>>
shareVars  == <<callVars, shareWorld>>

ShareTypeOK ==
  /\ CallsTypeOK({"prepare", "post_shares"}, Request(ShareOps, ShareToken), ShareGot, ShareToken)
  /\ \A c \in Slots : pc[c] = "post_shares" => got[c] \in ShareGot
  /\ grants \in [Entities -> Map]
  /\ titles \in [Grantees -> Names]
  /\ admin \in BOOLEAN
  /\ drift \in [Slots -> SUBSET Grantees]
  /\ shareEdits \in 0..MaxShareEdits

ShareWorldInit ==
  /\ \E s \in ShareStarts : grants = s.grants /\ titles = s.titles /\ admin = s.admin
  /\ drift = [c \in Slots |-> {}]
  /\ shareEdits = 0
ShareInit == CallsInit /\ ShareWorldInit

-----------------------------------------------------------------------------
\* The lower-case form that goes on the wire.
Canonical(g) == [g EXCEPT !.id = Lower[g.id]]
\* resolveEntityGrn: {} when it throws.
ResolveEntityGrn(g)  == IF g.type \in ShareableTypes THEN {Canonical(g)} ELSE {}
\* resolveGranteeGrn
ResolveGranteeGrn(g) == IF g.type \in GranteeTypes THEN {Canonical(g)} ELSE {}
\* resolveGranteeFromTitle: the candidates; anything but one is an error.  The
\* server does not offer the connection's own user.
TitledAs(name) == {g \in Grantees \ {Sharer} : titles[g] = name}
\* The grantees the arguments may mean.
Named(op) == (UNION {ResolveGranteeGrn(g) : g \in op.grantee})
             \union (UNION {TitledAs(n) : n \in op.username})

\* active_shares: the server leaves out the grant of the connection's own user.
ActiveShares(e) == [grants[e] EXCEPT ![Sharer] = None]
Owners(m) == {g \in Grantees : m[g] = "own"}
\* Mutant of MergeGrants: the body names the one grantee and nobody else.
MergeNothing(active, g, op) ==
  [h \in Grantees |-> IF h # g \/ op.revoke THEN None ELSE CHOOSE k \in op.capability : TRUE]
\* mergeGrants
MergeGrants(active, g, op) ==
  [active EXCEPT ![g] = IF op.revoke THEN None ELSE CHOOSE k \in op.capability : TRUE]

\* The grants become gs: whose entry of what each call has read is out of date.
Drifted(gs) ==
  [c \in Slots |-> IF pc[c] = "post_shares"
                   THEN drift[c] \union {g \in Grantees : gs[got[c].entity][g] # grants[got[c].entity][g]}
                   ELSE drift[c]]
ShareUnread == UNCHANGED <<grants, titles, admin, drift, shareEdits>>

ShareBegin(c) == \E op \in ShareOps : Begin(c, op, "prepare") /\ ShareUnread

\* build(): the merge, the last-owner guard and the token.
MergedShare(c, e, g) ==
  LET op     == req[c].op
      active == ActiveShares(e)
      merged == MergeGrants(active, g, op)
      refuse == \/ op.revoke /\ active[g] = None                       \* not_currently_granted
                \/ Owners(active) # {} /\ Owners(merged) = {}          \* would_leave_entity_ownerless
  IN \/ refuse /\ Finish(c, "refused")
     \/ /\ ~refuse
        /\ Gate(c, {[entity |-> e, grants |-> merged]}, "post_shares",
                [entity |-> e, grantee |-> g, body |-> merged])
\* build(): the references and the read of the present grants.
Prepare(c) ==
  /\ pc[c] = "prepare"
  /\ LET es == ResolveEntityGrn(req[c].op.entity) \intersect Entities
         gs == Named(req[c].op)
     IN \/ (es = {} \/ Cardinality(gs) # 1) /\ Finish(c, "refused")
        \/ Cardinality(gs) = 1 /\ \E e \in es, g \in gs : MergedShare(c, e, g)
  /\ ShareUnread
PrepareFails(c) == pc[c] = "prepare" /\ Finish(c, "refused") /\ ShareUnread

\* The server's answer to POST /api/authz/shares/entities/{grn}: every grant but
\* the connection's own user's is replaced.
Replaced(g) == [grants EXCEPT ![g.entity] = [g.body EXCEPT ![Sharer] = grants[g.entity][Sharer]]]
MayShare(e) == admin \/ grants[e][Sharer] = "own"
PostShares(c) ==
  /\ pc[c] = "post_shares"
  /\ LET gs == Replaced(got[c])
     IN /\ MayShare(got[c].entity)               \* otherwise 403
        /\ Owners(gs[got[c].entity]) # {}        \* otherwise 400
        /\ grants' = gs
        /\ drift' = [Drifted(gs) EXCEPT ![c] = {}]
  /\ \E how \in {"done", "failed"} : Finish(c, how)
  /\ UNCHANGED <<titles, admin, shareEdits>>
\* not_entity_owner, share_validation_failed, any other error, or apply_inconclusive
PostSharesFails(c) ==
  /\ pc[c] = "post_shares"
  /\ Finish(c, "failed")
  /\ drift' = [drift EXCEPT ![c] = {}]
  /\ UNCHANGED <<grants, titles, admin, shareEdits>>

\* Another user changes one grant, leaving the entity an owner.
EditGrant ==
  \E e \in Entities, g \in Grantees, k \in Caps \union {None} :
    LET gs == [grants EXCEPT ![e][g] = k]
    IN /\ shareEdits < MaxShareEdits
       /\ gs # grants /\ Owners(gs[e]) # {}
       /\ grants' = gs
       /\ drift' = Drifted(gs)
       /\ shareEdits' = shareEdits + 1
       /\ UNCHANGED <<callVars, titles, admin>>
\* A user gets another title.
Retitle ==
  \E g \in Grantees, n \in Names :
    /\ shareEdits < MaxShareEdits
    /\ titles' = [titles EXCEPT ![g] = n] /\ titles' # titles
    /\ shareEdits' = shareEdits + 1
    /\ UNCHANGED <<callVars, grants, admin, drift>>

ShareStep(c) == ShareBegin(c) \/ Prepare(c) \/ PrepareFails(c) \/ PostShares(c) \/ PostSharesFails(c)
ShareNext == (\E c \in Slots : ShareStep(c)) \/ EditGrant \/ Retitle
ShareSpec == ShareInit /\ [][ShareNext]_shareVars

-----------------------------------------------------------------------------
Writes(c) == pc[c] = "post_shares" /\ pc'[c] # "post_shares" /\ grants' # grants

\* What share_entity leaves on an entity, the grant of the connection's own user
\* aside, is to the letter the map that a preview has shown for it, however the
\* grants, the titles and the other calls moved between preview and write
\* (share-entity.js:38-43).
SharedAsShown ==
  [][\A c \in Slots : Writes(c) =>
       \E t \in shown : /\ t.entity = got[c].entity
                        /\ \A g \in Grantees \ {Sharer} : grants'[t.entity][g] = t.grants[g]]_shareVars

\* The full replace takes nothing from anybody but the grantee of the call, who
\* ends as asked (unless it is the connection's own user, whose grant the server
\* keeps): whoever else loses or gets back a grant had it changed after the call
\* read it (share-entity.js:27-36).
OthersKept ==
  [][\A c \in Slots : Writes(c) =>
       /\ \A e \in Entities \ {got[c].entity} : grants'[e] = grants[e]
       /\ \A g \in Grantees \ (drift[c] \union {got[c].grantee}) :
            grants'[got[c].entity][g] = grants[got[c].entity][g]
       /\ got[c].grantee # Sharer =>
            grants'[got[c].entity][got[c].grantee] \in
              IF req[c].op.revoke THEN {None} ELSE req[c].op.capability]_shareVars
=============================================================================
