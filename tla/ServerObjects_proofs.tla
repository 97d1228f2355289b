------------------------- MODULE ServerObjects_proofs -------------------------
(***************************************************************************)
(* Proofs about ShareEntity, IndexSets and StreamsAndInputs, for any number *)
(* of calls, any objects on the server, and any edits by others.           *)
(***************************************************************************)
EXTENDS ShareEntity, IndexSets, StreamsAndInputs, Shared_proofs

USE LowerAssumption, GrnsAssumption, ShareOpsAssumption, ShareStartsAssumption, ShareBoundsAssumption

-----------------------------------------------------------------------------
(* share_entity: types *)

ShareCalls == CallsTypeOK({"prepare", "post_shares"}, Request(ShareOps, ShareToken), ShareGot, ShareToken)
ShareWorldTypes ==
  /\ grants \in [Entities -> Map] /\ titles \in [Grantees -> Names] /\ admin \in BOOLEAN
  /\ drift \in [Slots -> SUBSET Grantees] /\ shareEdits \in 0..MaxShareEdits
ShareArmed == \A c \in Slots : pc[c] = "post_shares" => got[c] \in ShareGot

LEMMA ShareTypeParts ==
  /\ ShareTypeOK <=> ShareCalls /\ ShareWorldTypes /\ ShareArmed
  /\ ShareTypeOK' <=> ShareCalls' /\ ShareWorldTypes' /\ ShareArmed'
  BY DEF ShareTypeOK, ShareCalls, ShareWorldTypes, ShareArmed

\* The arguments of a call that has begun.
LEMMA ShareReqFacts ==
  ASSUME ShareCalls, NEW c \in Slots, pc[c] \in {"prepare", "post_shares"}
  PROVE  /\ req[c] \in Request(ShareOps, ShareToken) /\ req[c].op \in ShareOps
         /\ req[c].confirm \in SUBSET ShareToken
  BY DEF ShareCalls, CallsTypeOK, Ended, Request

LEMMA CapabilityGiven ==
  ASSUME NEW op \in ShareOps, ~op.revoke
  PROVE  op.capability \in SUBSET Caps /\ \E k : op.capability = {k} /\ k \in Caps
<1>1. op.capability \in SUBSET Caps /\ Cardinality(op.capability) = 1
  BY DEF ShareOp
<1>2. IsFiniteSet(Caps)
  <2>1. IsFiniteSet({} \union {"view"})
    BY FS_AddElement, FS_EmptySet
  <2>2. IsFiniteSet(({} \union {"view"}) \union {"manage"})
    BY <2>1, FS_AddElement
  <2>3. IsFiniteSet((({} \union {"view"}) \union {"manage"}) \union {"own"})
    BY <2>2, FS_AddElement
  <2>4. Caps = (({} \union {"view"}) \union {"manage"}) \union {"own"}
    BY DEF Caps
  <2> QED
    BY <2>3, <2>4
<1>3. IsFiniteSet(op.capability)
  BY <1>1, <1>2, FS_Subset
<1>4. \E k : op.capability = {k}
  BY <1>1, <1>3, FS_Singleton
<1> QED
  BY <1>1, <1>4

LEMMA MergeType ==
  ASSUME NEW active \in Map, NEW g \in Grantees, NEW op \in ShareOps
  PROVE  MergeGrants(active, g, op) \in Map
<1>1. CASE op.revoke
  BY <1>1 DEF MergeGrants, Map
<1>2. CASE ~op.revoke
  <2>1. (CHOOSE k \in op.capability : TRUE) \in Caps
    BY <1>2, CapabilityGiven
  <2> QED
    BY <1>2, <2>1 DEF MergeGrants, Map
<1> QED
  BY <1>1, <1>2

LEMMA NamedAreGrantees ==
  ASSUME NEW op \in ShareOps PROVE Named(op) \subseteq Grantees
<1>1. op.grantee \in SUBSET Grn
  BY DEF ShareOp
<1>2. ASSUME NEW h, NEW g \in op.grantee, h \in ResolveGranteeGrn(g) PROVE h \in Grantees
  BY <1>1, <1>2 DEF ResolveGranteeGrn, Canonical
<1>3. ASSUME NEW h, NEW n \in op.username, h \in TitledAs(n) PROVE h \in Grantees
  BY <1>3 DEF TitledAs
<1>4. ASSUME NEW h \in Named(op)
      PROVE  (\E g \in op.grantee : h \in ResolveGranteeGrn(g)) \/ (\E n \in op.username : h \in TitledAs(n))
  <2>1. CASE h \in UNION {ResolveGranteeGrn(g) : g \in op.grantee}
    BY <2>1
  <2>2. CASE h \in UNION {TitledAs(n) : n \in op.username}
    BY <2>2
  <2> QED
    BY <1>4, <2>1, <2>2 DEF Named
<1> QED
  BY <1>2, <1>3, <1>4

LEMMA ActiveType ==
  ASSUME grants \in [Entities -> Map], NEW e \in Entities PROVE ActiveShares(e) \in Map
  BY DEF ActiveShares, Map

LEMMA ReplacedType ==
  ASSUME grants \in [Entities -> Map], NEW g \in ShareGot PROVE Replaced(g) \in [Entities -> Map]
<1>1. g.entity \in Entities /\ g.body \in Map
  BY DEF ShareGot
<1>2. [g.body EXCEPT ![Sharer] = grants[g.entity][Sharer]] \in Map
  BY <1>1 DEF Map
<1> QED
  BY <1>1, <1>2 DEF Replaced

LEMMA ShareDriftedType ==
  ASSUME drift \in [Slots -> SUBSET Grantees], NEW gs PROVE Drifted(gs) \in [Slots -> SUBSET Grantees]
  BY DEF Drifted

LEMMA ShareInitType == ShareInit => ShareTypeOK
<1> SUFFICES ASSUME ShareInit PROVE ShareTypeOK
  OBVIOUS
<1>1. ShareCalls /\ ShareArmed
  BY DEF ShareInit, CallsInit, ShareCalls, CallsTypeOK, Ended, ShareArmed
<1>2. ShareWorldTypes
  <2>1. PICK s \in ShareStart : grants = s.grants /\ titles = s.titles /\ admin = s.admin
    BY DEF ShareInit, ShareWorldInit
  <2> QED
    BY <2>1 DEF ShareInit, ShareWorldInit, ShareStart, ShareWorldTypes
<1> QED
  BY <1>1, <1>2, ShareTypeParts

-----------------------------------------------------------------------------
(* share_entity: the invariant *)

\* A write that is on its way carries the map of a preview, for the grantee that
\* the call named.
ShareConfirmed(c) ==
  /\ [entity |-> got[c].entity, grants |-> got[c].body] \in shown
  /\ got[c].body[got[c].grantee] \in IF req[c].op.revoke THEN {None} ELSE req[c].op.capability
\* It leaves the others their grants, but those that have changed since.
ShareFresh(c) ==
  \A g \in Grantees \ (drift[c] \union {got[c].grantee, Sharer}) :
    got[c].body[g] = grants[got[c].entity][g]
ShareInv ==
  /\ ShareTypeOK /\ Echoed
  /\ \A c \in Slots : pc[c] = "post_shares" => ShareConfirmed(c) /\ ShareFresh(c)

LEMMA ShareInvInit == ShareInit => ShareInv
<1> SUFFICES ASSUME ShareInit PROVE ShareInv
  OBVIOUS
<1>1. \A c \in Slots : pc[c] = "idle"
  BY DEF ShareInit, CallsInit
<1> QED
  BY <1>1, ShareInitType DEF ShareInv, Echoed, Ended

\* A step in which only call c moves, not to its write, and the server stands still.
LEMMA ShareQuietStep ==
  ASSUME ShareInv, NEW c \in Slots, OthersStand(c), shown \subseteq shown', ShareUnread,
         ShareCalls', Echoed', pc'[c] # "post_shares"
  PROVE  ShareInv'
<1>1. ShareTypeOK'
  BY ShareTypeParts DEF ShareInv, ShareUnread, ShareWorldTypes, ShareArmed, OthersStand
<1>2. ASSUME NEW d \in Slots, pc'[d] = "post_shares" PROVE ShareConfirmed(d)' /\ ShareFresh(d)'
  <2>1. pc[d] = "post_shares" /\ req'[d] = req[d] /\ got'[d] = got[d]
    BY <1>2 DEF OthersStand
  <2> QED
    BY <2>1 DEF ShareInv, ShareConfirmed, ShareFresh, ShareUnread
<1> QED
  BY <1>1, <1>2 DEF ShareInv

\* The facts that every step starts from.
LEMMA ShareInvFacts ==
  ASSUME ShareInv
  PROVE  ShareTypeOK /\ ShareCalls /\ ShareWorldTypes /\ ShareArmed /\ CallShape /\ Echoed
  BY ShareTypeParts, TypedShape DEF ShareInv, ShareCalls

LEMMA ShareFinishKeeps ==
  ASSUME ShareInv, NEW c \in Slots, NEW how \in Ended, Finish(c, how), ShareUnread
  PROVE  ShareInv'
<1>0. ShareCalls /\ CallShape /\ Echoed
  BY ShareInvFacts
<1>1. ShareCalls'
  BY <1>0, FinishType DEF ShareCalls
<1>2. OthersStand(c) /\ pc'[c] = how /\ shown' = shown
  BY <1>0, FinishMoves
<1>3. Echoed'
  BY <1>0, <1>2, EchoedKept
<1> QED
  BY <1>1, <1>2, <1>3, ShareQuietStep DEF Ended

LEMMA ShareBeginKeeps ==
  ASSUME ShareInv, NEW c \in Slots, ShareBegin(c) PROVE ShareInv'
<1>0. ShareCalls /\ CallShape /\ Echoed
  BY ShareInvFacts
<1>1. PICK op \in ShareOps : Begin(c, op, "prepare") /\ ShareUnread
  BY DEF ShareBegin
<1>2. "prepare" \in {"prepare", "post_shares"} \ Ended
  BY DEF Ended
<1>3. ShareCalls'
  BY <1>0, <1>1, <1>2, BeginType DEF ShareCalls
<1>4. OthersStand(c) /\ pc'[c] = "prepare" /\ shown' = shown /\ req'[c].confirm \subseteq shown
  BY <1>0, <1>1, BeginMoves
<1>5. Echoed'
  BY <1>0, <1>4, EchoedKept
<1> QED
  BY <1>1, <1>3, <1>4, <1>5, ShareQuietStep

\* build() passes the gate with a merged map.
LEMMA MergedKeeps ==
  ASSUME ShareInv, NEW c \in Slots, pc[c] = "prepare", NEW e \in Entities, NEW g \in Grantees,
         MergedShare(c, e, g), ShareUnread
  PROVE  ShareInv'
<1> DEFINE op     == req[c].op
           merged == MergeGrants(ActiveShares(e), g, op)
           body   == [entity |-> e, grantee |-> g, body |-> merged]
           token  == [entity |-> e, grants |-> merged]
<1>0. ShareCalls /\ CallShape /\ Echoed /\ ShareWorldTypes /\ ShareArmed
  BY ShareInvFacts
<1>1. op \in ShareOps /\ req[c] \in Request(ShareOps, ShareToken)
  BY <1>0, ShareReqFacts
<1>2. merged \in Map
  BY <1>0, <1>1, ActiveType, MergeType DEF ShareWorldTypes
<1>3. body \in ShareGot /\ {token} \in SUBSET ShareToken
  BY <1>2 DEF ShareGot, ShareToken
<1>4. CASE Finish(c, "refused")
  BY <1>4, ShareFinishKeeps DEF Ended
<1>5. CASE Gate(c, {token}, "post_shares", body)
  <2>1. ShareCalls'
    BY <1>0, <1>1, <1>3, <1>5, GateType DEF ShareCalls
  <2>2. /\ OthersStand(c) /\ shown \subseteq shown'
        /\ pc'[c] \in {"done", "refused"} \/ Passed(c, {token}, "post_shares", body)
    BY <1>0, <1>5, GateMoves
  <2>3. CASE pc'[c] \in {"done", "refused"}
    <3>1. Echoed'
      BY <1>0, <2>2, <2>3, EchoedKept DEF Ended
    <3> QED
      BY <2>1, <2>2, <2>3, <3>1, ShareQuietStep
  <2>4. CASE Passed(c, {token}, "post_shares", body)
    <3>1. /\ pc'[c] = "post_shares" /\ got'[c] = body /\ req'[c] = req[c] /\ req[c].confirm = {token}
      BY <2>4 DEF Passed
    <3>2. pc[c] \notin Ended
      BY DEF Ended
    <3>3. Echoed'
      BY <1>0, <2>2, <3>1, <3>2, EchoedKept
    <3>4. ShareTypeOK'
      <4>1. ShareArmed'
        BY <1>0, <1>3, <2>2, <3>1 DEF ShareArmed, OthersStand
      <4>2. ShareWorldTypes'
        BY <1>0 DEF ShareWorldTypes, ShareUnread
      <4> QED
        BY <2>1, <4>1, <4>2, ShareTypeParts
    <3>5. ASSUME NEW d \in Slots \ {c}, pc'[d] = "post_shares" PROVE ShareConfirmed(d)' /\ ShareFresh(d)'
      <4>1. pc[d] = "post_shares" /\ req'[d] = req[d] /\ got'[d] = got[d]
        BY <2>2, <3>5 DEF OthersStand
      <4> QED
        BY <2>2, <4>1 DEF ShareInv, ShareConfirmed, ShareFresh, ShareUnread
    <3>6. ShareConfirmed(c)'
      <4>1. token \in shown'
        BY <1>0, <2>2, <3>1, <3>2 DEF Echoed
      <4>2. merged[g] \in IF op.revoke THEN {None} ELSE op.capability
        <5>1. merged[g] = IF op.revoke THEN None ELSE CHOOSE k \in op.capability : TRUE
          BY <1>0, ActiveType DEF MergeGrants, Map, ShareWorldTypes
        <5> QED
          BY <1>1, <5>1, CapabilityGiven
      <4> QED
        BY <3>1, <4>1, <4>2 DEF ShareConfirmed
    <3>7. ShareFresh(c)'
      <4>1. \A h \in Grantees \ {g, Sharer} : merged[h] = grants[e][h]
        BY <1>0 DEF MergeGrants, ActiveShares, Map, ShareWorldTypes
      <4> QED
        BY <3>1, <4>1 DEF ShareFresh, ShareUnread
    <3> QED
      BY <3>3, <3>4, <3>5, <3>6, <3>7 DEF ShareInv
  <2> QED
    BY <2>2, <2>3, <2>4
<1> QED
  BY <1>4, <1>5 DEF MergedShare

LEMMA PrepareKeeps ==
  ASSUME ShareInv, NEW c \in Slots, Prepare(c) PROVE ShareInv'
<1>0. ShareCalls
  BY ShareInvFacts
<1>1. req[c].op \in ShareOps
  BY <1>0, ShareReqFacts DEF Prepare
<1>2. Named(req[c].op) \subseteq Grantees
  BY <1>1, NamedAreGrantees
<1>3. CASE Finish(c, "refused")
  BY <1>3, ShareFinishKeeps DEF Prepare, Ended
<1>4. ASSUME NEW e \in Entities, NEW g \in Grantees, MergedShare(c, e, g) PROVE ShareInv'
  BY <1>4, MergedKeeps DEF Prepare
<1> QED
  BY <1>2, <1>3, <1>4 DEF Prepare

-----------------------------------------------------------------------------
(* share_entity: writes *)

\* The grants become gs: what the calls have read stays as fresh as drift says.
LEMMA ShareDriftKeeps ==
  ASSUME ShareInv, NEW gs \in [Entities -> Map], NEW d \in Slots, pc[d] = "post_shares",
         grants' = gs, drift'[d] = Drifted(gs)[d], got'[d] = got[d]
  PROVE  ShareFresh(d)'
<1>1. got[d] \in ShareGot /\ ShareFresh(d)
  BY ShareInvFacts DEF ShareArmed, ShareInv
<1>2. drift'[d] = drift[d] \union {g \in Grantees : gs[got[d].entity][g] # grants[got[d].entity][g]}
  BY DEF Drifted
<1> QED
  BY <1>1, <1>2 DEF ShareFresh

LEMMA PostKeeps ==
  ASSUME ShareInv, NEW c \in Slots, PostShares(c) \/ PostSharesFails(c) PROVE ShareInv'
<1>0. ShareCalls /\ CallShape /\ Echoed /\ ShareWorldTypes /\ ShareArmed /\ pc[c] = "post_shares"
  BY ShareInvFacts DEF PostShares, PostSharesFails
<1>1. PICK how \in Ended : Finish(c, how)
  BY DEF PostShares, PostSharesFails, Ended
<1>2. ShareCalls'
  BY <1>0, <1>1, FinishType DEF ShareCalls
<1>3. OthersStand(c) /\ pc'[c] = how /\ shown' = shown
  BY <1>0, <1>1, FinishMoves
<1>4. Echoed'
  BY <1>0, <1>3, EchoedKept
<1>5. ShareArmed'
  BY <1>0, <1>3 DEF ShareArmed, OthersStand, Ended
<1>6. got[c] \in ShareGot /\ Replaced(got[c]) \in [Entities -> Map]
  BY <1>0, ReplacedType DEF ShareArmed, ShareWorldTypes
<1>7. ShareWorldTypes'
  <2>1. CASE PostShares(c)
    <3>1. Drifted(Replaced(got[c])) \in [Slots -> SUBSET Grantees]
      BY <1>0, ShareDriftedType DEF ShareWorldTypes
    <3> QED
      BY <1>0, <1>6, <2>1, <3>1 DEF PostShares, ShareWorldTypes
  <2>2. CASE PostSharesFails(c)
    BY <1>0, <2>2 DEF PostSharesFails, ShareWorldTypes
  <2> QED
    BY <2>1, <2>2
<1>8. ASSUME NEW d \in Slots, pc'[d] = "post_shares" PROVE ShareConfirmed(d)' /\ ShareFresh(d)'
  <2>1. d # c /\ pc[d] = "post_shares" /\ req'[d] = req[d] /\ got'[d] = got[d]
    BY <1>3, <1>8 DEF OthersStand, Ended
  <2>2. ShareConfirmed(d)'
    BY <1>3, <2>1 DEF ShareInv, ShareConfirmed
  <2>3. CASE PostShares(c)
    <3>1. grants' = Replaced(got[c]) /\ drift'[d] = Drifted(Replaced(got[c]))[d]
      BY <1>0, <2>1, <2>3, ShareDriftedType DEF PostShares, ShareWorldTypes
    <3> QED
      BY <1>6, <2>1, <2>2, <3>1, ShareDriftKeeps
  <2>4. CASE PostSharesFails(c)
    BY <1>0, <2>1, <2>2, <2>4 DEF PostSharesFails, ShareInv, ShareFresh, ShareWorldTypes
  <2> QED
    BY <2>3, <2>4
<1> QED
  BY <1>2, <1>4, <1>5, <1>7, <1>8, ShareTypeParts DEF ShareInv

LEMMA ShareEditKeeps ==
  ASSUME ShareInv, EditGrant PROVE ShareInv'
<1>0. ShareCalls /\ Echoed /\ ShareWorldTypes /\ ShareArmed
  BY ShareInvFacts
<1>1. PICK e \in Entities, g \in Grantees, k \in Caps \union {None} :
        /\ grants' = [grants EXCEPT ![e][g] = k]
        /\ drift' = Drifted([grants EXCEPT ![e][g] = k])
        /\ shareEdits < MaxShareEdits /\ shareEdits' = shareEdits + 1
        /\ UNCHANGED <<callVars, titles, admin>>
  BY DEF EditGrant
<1>2. [grants EXCEPT ![e][g] = k] \in [Entities -> Map]
  BY <1>0 DEF ShareWorldTypes, Map
<1>3. ShareWorldTypes'
  BY <1>0, <1>1, <1>2, ShareDriftedType DEF ShareWorldTypes
<1>4. ShareCalls' /\ ShareArmed' /\ Echoed'
  BY <1>0, <1>1, EchoedUnmoved DEF ShareCalls, CallsTypeOK, ShareArmed, callVars
<1>5. ASSUME NEW d \in Slots, pc'[d] = "post_shares" PROVE ShareConfirmed(d)' /\ ShareFresh(d)'
  <2>1. pc[d] = "post_shares" /\ got'[d] = got[d] /\ req'[d] = req[d] /\ shown' = shown
    BY <1>1, <1>5 DEF callVars
  <2> QED
    BY <1>1, <1>2, <2>1, ShareDriftKeeps DEF ShareInv, ShareConfirmed
<1> QED
  BY <1>3, <1>4, <1>5, ShareTypeParts DEF ShareInv

LEMMA ShareStillKeeps ==
  ASSUME ShareInv, UNCHANGED callVars, UNCHANGED <<grants, admin, drift>>, ShareWorldTypes' PROVE ShareInv'
<1>1. ShareCalls' /\ ShareArmed' /\ Echoed'
  BY ShareInvFacts, EchoedUnmoved DEF ShareCalls, CallsTypeOK, ShareArmed, callVars
<1>2. \A d \in Slots : pc'[d] = "post_shares" => ShareConfirmed(d)' /\ ShareFresh(d)'
  BY DEF ShareInv, ShareConfirmed, ShareFresh, callVars
<1> QED
  BY <1>1, <1>2, ShareTypeParts DEF ShareInv

LEMMA ShareInvNext == ShareInv /\ [ShareNext]_shareVars => ShareInv'
<1> SUFFICES ASSUME ShareInv, [ShareNext]_shareVars PROVE ShareInv'
  OBVIOUS
<1>1. ASSUME NEW c \in Slots, PrepareFails(c) PROVE ShareInv'
  BY <1>1, ShareFinishKeeps DEF PrepareFails, Ended
<1>2. CASE Retitle
  <2>1. ShareWorldTypes'
    BY <1>2, ShareInvFacts DEF Retitle, ShareWorldTypes
  <2> QED
    BY <1>2, <2>1, ShareStillKeeps DEF Retitle
<1>3. CASE UNCHANGED shareVars
  <2>1. ShareWorldTypes'
    BY <1>3, ShareInvFacts DEF shareVars, shareWorld, ShareWorldTypes
  <2> QED
    BY <1>3, <2>1, ShareStillKeeps DEF shareVars, shareWorld
<1> QED
  BY <1>1, <1>2, <1>3, ShareBeginKeeps, PrepareKeeps, PostKeeps, ShareEditKeeps DEF ShareNext, ShareStep

-----------------------------------------------------------------------------
(* share_entity: theorems *)

\* The state of share_entity calls and of the server keeps its type
\* (share-entity.js:225-374).
THEOREM ShareTypeCorrect == ShareSpec => []ShareTypeOK
<1>1. ShareInv => ShareTypeOK
  BY DEF ShareInv
<1> QED
  BY <1>1, ShareInvInit, ShareInvNext, PTL DEF ShareSpec

\* A step in which a call writes is that call's POST.
LEMMA WriteIsPost ==
  ASSUME ShareInv, [ShareNext]_shareVars, NEW c \in Slots, Writes(c)
  PROVE  PostShares(c) /\ got[c] \in ShareGot /\ grants \in [Entities -> Map]
<1>0. CallShape /\ ShareArmed /\ ShareWorldTypes
  BY ShareInvFacts
<1>1. ~UNCHANGED callVars
  BY DEF Writes, callVars
<1>2. ~EditGrant /\ ~Retitle /\ ~UNCHANGED shareVars
  BY <1>1 DEF EditGrant, Retitle, shareVars
<1>3. ASSUME NEW d \in Slots, ShareStep(d) PROVE d = c /\ PostShares(d)
  <2>1. ~ShareBegin(d) /\ ~PrepareFails(d) /\ ~PostSharesFails(d) /\ ~Prepare(d)
    BY DEF Writes, ShareBegin, PrepareFails, PostSharesFails, Prepare, ShareUnread
  <2>2. PostShares(d)
    BY <1>3, <2>1 DEF ShareStep
  <2>3. PICK how \in Ended : Finish(d, how)
    BY <2>2 DEF PostShares, Ended
  <2>4. OthersStand(d)
    BY <1>0, <2>3, FinishMoves
  <2> QED
    BY <2>2, <2>4 DEF Writes, OthersStand
<1>4. PostShares(c)
  BY <1>2, <1>3 DEF ShareNext
<1> QED
  BY <1>0, <1>4 DEF ShareArmed, ShareWorldTypes, Writes

\* What is left on the entity is the map of a preview (share-entity.js:38-43).
THEOREM SharedAsPreviewed == ShareSpec => SharedAsShown
<1>1. ASSUME ShareInv, [ShareNext]_shareVars, NEW c \in Slots, Writes(c)
      PROVE  \E t \in shown : /\ t.entity = got[c].entity
                              /\ \A g \in Grantees \ {Sharer} : grants'[t.entity][g] = t.grants[g]
  <2>1. PostShares(c) /\ got[c] \in ShareGot /\ grants \in [Entities -> Map] /\ ShareConfirmed(c)
    BY <1>1, WriteIsPost DEF ShareInv, Writes
  <2> DEFINE t == [entity |-> got[c].entity, grants |-> got[c].body]
  <2>2. t \in shown
    BY <2>1 DEF ShareConfirmed
  <2>3. \A g \in Grantees \ {Sharer} : grants'[got[c].entity][g] = got[c].body[g]
    BY <2>1 DEF PostShares, Replaced, ShareGot, Map
  <2> QED
    BY <2>2, <2>3
<1>2. ShareInv /\ [ShareNext]_shareVars =>
        [\A c \in Slots : Writes(c) =>
           \E t \in shown : /\ t.entity = got[c].entity
                            /\ \A g \in Grantees \ {Sharer} : grants'[t.entity][g] = t.grants[g]]_shareVars
  BY <1>1
<1> QED
  BY <1>2, ShareInvInit, ShareInvNext, PTL DEF ShareSpec, SharedAsShown

\* Nobody but the named grantee loses or gets back a grant that did not change
\* under the call (share-entity.js:27-36).
THEOREM OthersKeepTheirs == ShareSpec => OthersKept
<1>1. ASSUME ShareInv, [ShareNext]_shareVars, NEW c \in Slots, Writes(c)
      PROVE  /\ \A e \in Entities \ {got[c].entity} : grants'[e] = grants[e]
             /\ \A g \in Grantees \ (drift[c] \union {got[c].grantee}) :
                  grants'[got[c].entity][g] = grants[got[c].entity][g]
             /\ got[c].grantee # Sharer =>
                  grants'[got[c].entity][got[c].grantee] \in
                    IF req[c].op.revoke THEN {None} ELSE req[c].op.capability
  <2>1. /\ PostShares(c) /\ got[c] \in ShareGot /\ grants \in [Entities -> Map]
        /\ ShareConfirmed(c) /\ ShareFresh(c)
    BY <1>1, WriteIsPost DEF ShareInv, Writes
  <2>2. grants' = [grants EXCEPT ![got[c].entity] = [got[c].body EXCEPT ![Sharer] = grants[got[c].entity][Sharer]]]
    BY <2>1 DEF PostShares, Replaced
  <2>3. /\ got[c].entity \in Entities /\ got[c].grantee \in Grantees /\ got[c].body \in Map
    BY <2>1 DEF ShareGot
  <2>4. /\ \A g \in Grantees \ {Sharer} : grants'[got[c].entity][g] = got[c].body[g]
        /\ grants'[got[c].entity][Sharer] = grants[got[c].entity][Sharer]
    BY <2>1, <2>2, <2>3 DEF Map
  <2>5. \A e \in Entities \ {got[c].entity} : grants'[e] = grants[e]
    BY <2>1, <2>2
  <2> QED
    BY <2>1, <2>3, <2>4, <2>5 DEF ShareConfirmed, ShareFresh
<1>2. ShareInv /\ [ShareNext]_shareVars =>
        [\A c \in Slots : Writes(c) =>
           /\ \A e \in Entities \ {got[c].entity} : grants'[e] = grants[e]
           /\ \A g \in Grantees \ (drift[c] \union {got[c].grantee}) :
                grants'[got[c].entity][g] = grants[got[c].entity][g]
           /\ got[c].grantee # Sharer =>
                grants'[got[c].entity][got[c].grantee] \in
                  IF req[c].op.revoke THEN {None} ELSE req[c].op.capability]_shareVars
  BY <1>1
<1> QED
  BY <1>2, ShareInvInit, ShareInvNext, PTL DEF ShareSpec, OthersKept

HIDE LowerAssumption
HIDE GrnsAssumption
HIDE ShareOpsAssumption
HIDE ShareStartsAssumption
HIDE ShareBoundsAssumption

USE NothingsAssumption, SetOpsAssumption, BackoffAssumption, SetStartsAssumption, SetBoundsAssumption

-----------------------------------------------------------------------------
(* Index sets: types *)

SetCalls == CallsTypeOK(SetLabels, Request(SetOps, SetToken), SetRead \union Wait, SetToken)
SetWorldTypes ==
  /\ sets \in [SetIds -> SetDoc \union {NoSet}] /\ default \in SetIds
  /\ stored \in [SetIds -> SUBSET IndexNames] /\ docs \in [SetIds -> 0..MaxDocs]
  /\ jobs \in [JobIds -> Job \union {NoJob}]
  /\ setDrift \in [Slots -> SUBSET (SetFields \union {"data"})]
  /\ setEdits \in 0..MaxSetEdits
SetGotType(c) ==
  /\ pc[c] \in {"list_indices", "get_stats", "put_set", "delete_data"} => got[c] \in SetRead
  /\ pc[c] = "poll" => got[c] \in Wait

LEMMA IndexTypeParts ==
  /\ IndexTypeOK <=> SetCalls /\ SetWorldTypes /\ \A c \in Slots : SetGotType(c)
  /\ IndexTypeOK' <=> SetCalls' /\ SetWorldTypes' /\ \A c \in Slots : SetGotType(c)'
  BY DEF IndexTypeOK, SetCalls, SetWorldTypes, SetGotType

LEMMA SetReqFacts ==
  ASSUME SetCalls, NEW c \in Slots, pc[c] \in SetLabels
  PROVE  /\ req[c] \in Request(SetOps, SetToken) /\ req[c].op \in SetOps /\ req[c].op \in SetOp
         /\ req[c].op.set \in SetIds /\ pc[c] \notin Ended
  BY DEF SetCalls, CallsTypeOK, Ended, Request, SetLabels, SetOp

LEMMA OnlyOne ==
  ASSUME NEW S, S # {} PROVE Only(S) \in S
  BY DEF Only

LEMMA BlockTypes ==
  /\ \A s \in Strategies(RotationAliases) : Block(s) \in Blocks(RotationAliases)
  /\ \A s \in Strategies(RetentionAliases) : Block(s) \in Blocks(RetentionAliases)
  BY DEF Strategies, Block, Blocks

\* The retention that a call may send is one the server knows.
LEMMA RetentionType ==
  ASSUME NEW op \in SetOp, ~BadAlias(op), op.retention # {}
  PROVE  Block(Only(op.retention)) \in Blocks(RetentionAliases)
<1>1. Only(op.retention) \in op.retention
  BY OnlyOne
<1>2. Only(op.retention) \in Strategies(RetentionAliases \union {"archive"})
  BY <1>1 DEF SetOp
<1>3. Only(op.retention).alias # "archive"
  BY <1>1 DEF BadAlias
<1>4. Only(op.retention) \in Strategies(RetentionAliases)
  BY <1>2, <1>3 DEF Strategies
<1> QED
  BY <1>4, BlockTypes

LEMMA RotationType ==
  ASSUME NEW op \in SetOp, op.rotation # {}
  PROVE  Block(Only(op.rotation)) \in Blocks(RotationAliases)
<1>1. Only(op.rotation) \in Strategies(RotationAliases)
  BY OnlyOne DEF SetOp
<1> QED
  BY <1>1, BlockTypes

LEMMA SetMergedType ==
  ASSUME NEW d \in SetDoc, NEW op \in SetOp, ~BadAlias(op) PROVE MergedSet(d, op) \in SetDoc
<1>1. op.title # {} => Only(op.title) \in Titles
  BY OnlyOne DEF SetOp
<1>2. op.writable # {} => Only(op.writable) \in BOOLEAN
  BY OnlyOne DEF SetOp
<1>3. /\ d.title \in Titles /\ d.prefix \in SetIds /\ d.writable \in BOOLEAN /\ d.canBeDefault \in BOOLEAN
      /\ d.rotation \in Blocks(RotationAliases) /\ d.retention \in Blocks(RetentionAliases)
  BY DEF SetDoc
<1>4. op.rotation # {} => Block(Only(op.rotation)) \in Blocks(RotationAliases)
  BY RotationType
<1>5. op.retention # {} => Block(Only(op.retention)) \in Blocks(RetentionAliases)
  BY RetentionType
<1> QED
  BY <1>1, <1>2, <1>3, <1>4, <1>5 DEF MergedSet, SetDoc

LEMMA SetNewType ==
  ASSUME NEW op \in SetOps, op.tool = "create_index_set", ~BadAlias(op) PROVE NewSet(op) \in SetDoc
<1>0. op \in SetOp /\ op.title # {} /\ op.writable # {} /\ op.rotation # {} /\ op.retention # {}
  OBVIOUS
<1>1. Only(op.title) \in Titles /\ Only(op.writable) \in BOOLEAN /\ op.set \in SetIds
  BY <1>0, OnlyOne DEF SetOp
<1>2. Block(Only(op.rotation)) \in Blocks(RotationAliases)
  BY <1>0, RotationType
<1>3. Block(Only(op.retention)) \in Blocks(RetentionAliases)
  BY <1>0, RetentionType
<1> QED
  BY <1>1, <1>2, <1>3 DEF NewSet, SetDoc

LEMMA SetDriftTypes ==
  ASSUME SetWorldTypes, NEW ss, NEW s, NEW c
  PROVE  /\ SetsDrift(ss) \in [Slots -> SUBSET (SetFields \union {"data"})]
         /\ DataDrift(s) \in [Slots -> SUBSET (SetFields \union {"data"})]
         /\ Undrift(c, SetsDrift(ss)) \in [Slots -> SUBSET (SetFields \union {"data"})]
         /\ Undrift(c, DataDrift(s)) \in [Slots -> SUBSET (SetFields \union {"data"})]
         /\ Undrift(c, setDrift) \in [Slots -> SUBSET (SetFields \union {"data"})]
<1>1. \A a, b : FieldsThatDiffer(a, b) \subseteq SetFields
  BY DEF FieldsThatDiffer
<1>2. SetsDrift(ss) \in [Slots -> SUBSET (SetFields \union {"data"})]
  <2>1. SetsDrift(ss) = [x \in Slots |-> SetsDrift(ss)[x]]
    BY DEF SetsDrift
  <2>2. \A x \in Slots : SetsDrift(ss)[x] \in SUBSET (SetFields \union {"data"})
    BY <1>1 DEF SetsDrift, SetWorldTypes
  <2> QED
    BY <2>1, <2>2
<1>3. DataDrift(s) \in [Slots -> SUBSET (SetFields \union {"data"})]
  BY DEF DataDrift, SetWorldTypes
<1> QED
  BY <1>2, <1>3 DEF Undrift, SetWorldTypes

LEMMA SleptType ==
  ASSUME NEW w \in Wait, NEW late \in Nat PROVE Slept(w, late) \in Wait
<1>1. Len(Backoff) \in Nat /\ Len(Backoff) >= 1 /\ \A i \in 1..Len(Backoff) : Backoff[i] \in Nat
  BY BackoffAssumption
<1>2. w.round \in 0..Len(Backoff) /\ w.left \in Nat /\ w.job \in JobIds
  BY DEF Wait
<1>3. Smaller(w.round + 1, Len(Backoff)) \in 1..Len(Backoff)
  BY <1>1, <1>2 DEF Smaller
<1>4. Delay(w) \in Nat /\ Delay(w) <= w.left
  BY <1>1, <1>2, <1>3 DEF Delay, Smaller
<1>5. (IF Delay(w) + late >= w.left THEN 0 ELSE w.left - Delay(w) - late) \in Nat
  BY <1>2, <1>4
<1> QED
  BY <1>2, <1>3, <1>5 DEF Slept, Wait

-----------------------------------------------------------------------------
(* Index sets: the invariant *)

\* No clean-up job has been about s.
Untouched(s) == \A j \in JobIds : jobs[j] # NoJob => jobs[j].about # s
\* An index set whose data is being removed is gone for good, and its data too when
\* the job says so.
JobsClean ==
  \A j \in JobIds : jobs[j] # NoJob =>
    /\ sets[jobs[j].about] = NoSet
    /\ jobs[j].status \in {"complete", "pruned"} => stored[jobs[j].about] = {}

\* The document that a call has read is the server's, but for the drift.
SetFresh(c) ==
  \A f \in SetFields \ setDrift[c] :
    sets[req[c].op.set] # NoSet /\ got[c].doc[f] = sets[req[c].op.set][f]
\* So are the names and the count.
NamesFresh(c) ==
  Untouched(req[c].op.set) /\ "data" \notin setDrift[c] /\ got[c].listed => got[c].names = stored[req[c].op.set]
CountFresh(c) ==
  Untouched(req[c].op.set) /\ "data" \notin setDrift[c] => got[c].count = docs[req[c].op.set]
\* What is known of a call by the request it is at.
SetCallOk(c) ==
  /\ pc[c] \in {"list_sets", "post_set"} => req[c].op.tool = "create_index_set"
  /\ pc[c] = "get_set" => req[c].op.tool \notin {"create_index_set", "await_system_job"}
  /\ pc[c] \in {"post_set", "put_set"} => ~BadAlias(req[c].op)
  /\ pc[c] = "put_set" => SetFresh(c)
  /\ pc[c] = "list_indices" => ~got[c].listed
  /\ pc[c] \in {"get_stats", "delete_data"} => NamesFresh(c)
  /\ pc[c] = "delete_data" =>
       /\ CountFresh(c)
       /\ [set |-> req[c].op.set, names |-> got[c].names, count |-> got[c].count] \in shown

IndexInv == IndexTypeOK /\ Echoed /\ JobsClean /\ \A c \in Slots : SetCallOk(c)

LEMMA IndexInvFacts ==
  ASSUME IndexInv
  PROVE  /\ SetCalls /\ SetWorldTypes /\ CallShape /\ Echoed /\ JobsClean
         /\ \A c \in Slots : SetGotType(c) /\ SetCallOk(c)
  BY IndexTypeParts, TypedShape DEF IndexInv, SetCalls

LEMMA IndexInvInit == IndexInit => IndexInv
<1> SUFFICES ASSUME IndexInit PROVE IndexInv
  OBVIOUS
<1>1. \A c \in Slots : pc[c] = "idle"
  BY DEF IndexInit, CallsInit
<1>2. SetCalls /\ \A c \in Slots : SetGotType(c)
  BY <1>1 DEF IndexInit, CallsInit, SetCalls, CallsTypeOK, Ended, SetGotType
<1>3. SetWorldTypes
  <2>1. PICK s \in SetStart : sets = s.sets /\ default = s.default /\ stored = s.stored /\ docs = s.docs
    BY DEF IndexInit, SetWorldInit
  <2> QED
    BY <2>1 DEF IndexInit, SetWorldInit, SetStart, SetWorldTypes
<1>4. JobsClean
  BY DEF IndexInit, SetWorldInit, JobsClean
<1>5. Echoed /\ \A c \in Slots : SetCallOk(c)
  BY <1>1 DEF Echoed, Ended, SetCallOk
<1> QED
  BY <1>2, <1>3, <1>4, <1>5, IndexTypeParts DEF IndexInv

UntouchedNext(s) == \A j \in JobIds : jobs'[j] # NoJob => jobs'[j].about # s
\* What a step must do to the server for a call d that stands still.
SetWorldKept(d) ==
  LET s == req[d].op.set
  IN /\ setDrift[d] \subseteq setDrift'[d]
     /\ pc[d] = "put_set" =>
          \A f \in SetFields \ setDrift'[d] :
            sets[s] # NoSet => sets'[s] # NoSet /\ sets'[s][f] = sets[s][f]
     /\ pc[d] \in {"get_stats", "delete_data"} /\ UntouchedNext(s) /\ "data" \notin setDrift'[d] =>
          Untouched(s) /\ stored'[s] = stored[s] /\ docs'[s] = docs[s]

LEMMA SetStandingCall ==
  ASSUME IndexInv, NEW d \in Slots, pc'[d] = pc[d], req'[d] = req[d], got'[d] = got[d],
         shown \subseteq shown', SetWorldKept(d)
  PROVE  SetCallOk(d)' /\ SetGotType(d)'
<1>0. SetCallOk(d) /\ SetGotType(d)
  BY IndexInvFacts
<1>1. pc[d] = "put_set" => SetFresh(d)'
  BY <1>0 DEF SetCallOk, SetFresh, SetWorldKept
<1>2. pc[d] \in {"get_stats", "delete_data"} => NamesFresh(d)'
  BY <1>0 DEF SetCallOk, NamesFresh, SetWorldKept, Untouched, UntouchedNext
<1>3. pc[d] = "delete_data" => CountFresh(d)'
  BY <1>0 DEF SetCallOk, CountFresh, SetWorldKept, Untouched, UntouchedNext
<1>4. SetGotType(d)'
  BY <1>0 DEF SetGotType
<1> QED
  BY <1>0, <1>1, <1>2, <1>3, <1>4 DEF SetCallOk

\* A step of call c.
LEMMA SetCallStep ==
  ASSUME IndexInv, NEW c \in Slots, OthersStand(c), shown \subseteq shown',
         SetCalls', Echoed', SetWorldTypes', JobsClean', SetGotType(c)', SetCallOk(c)',
         \A d \in Slots \ {c} : SetWorldKept(d)
  PROVE  IndexInv'
<1>1. \A d \in Slots \ {c} : SetCallOk(d)' /\ SetGotType(d)'
  BY SetStandingCall DEF OthersStand
<1> QED
  BY <1>1, IndexTypeParts DEF IndexInv

\* A step of the server or of another user.
LEMMA SetWorldStep ==
  ASSUME IndexInv, UNCHANGED callVars, SetWorldTypes', JobsClean', \A d \in Slots : SetWorldKept(d)
  PROVE  IndexInv'
<1>1. \A d \in Slots : SetCallOk(d)' /\ SetGotType(d)'
  BY SetStandingCall DEF callVars
<1>2. SetCalls' /\ Echoed'
  BY IndexInvFacts, EchoedUnmoved DEF SetCalls, CallsTypeOK, callVars
<1> QED
  BY <1>1, <1>2, IndexTypeParts DEF IndexInv

-----------------------------------------------------------------------------
(* Index sets: steps that leave the server alone *)

LEMMA SetQuietWorld ==
  ASSUME IndexInv, UNCHANGED <<sets, default, stored, docs, jobs, setEdits>>
  PROVE  /\ JobsClean'
         /\ \A d \in Slots : setDrift'[d] = setDrift[d] => SetWorldKept(d)
<1>1. JobsClean'
  BY IndexInvFacts DEF JobsClean
<1>2. ASSUME NEW d \in Slots, setDrift'[d] = setDrift[d] PROVE SetWorldKept(d)
  <2>1. \A s : UntouchedNext(s) => Untouched(s)
    BY DEF UntouchedNext, Untouched
  <2> QED
    BY <1>2, <2>1 DEF SetWorldKept
<1> QED
  BY <1>1, <1>2

\* The call moves on, and nothing else.
LEMMA SetQuietStep ==
  ASSUME IndexInv, NEW c \in Slots, OthersStand(c), shown \subseteq shown', SetsUnchanged,
         SetCalls', Echoed', SetGotType(c)', SetCallOk(c)'
  PROVE  IndexInv'
<1>1. SetWorldTypes'
  BY IndexInvFacts DEF SetWorldTypes, SetsUnchanged
<1>2. JobsClean' /\ \A d \in Slots : SetWorldKept(d)
  BY SetQuietWorld DEF SetsUnchanged
<1> QED
  BY <1>1, <1>2, SetCallStep

\* A call that has come to its end.
LEMMA SetEndedOk ==
  ASSUME NEW c \in Slots, pc'[c] \in Ended PROVE SetGotType(c)' /\ SetCallOk(c)'
  BY DEF Ended, SetGotType, SetCallOk

LEMMA SetFinishFacts ==
  ASSUME IndexInv, NEW c \in Slots, NEW how \in Ended, Finish(c, how)
  PROVE  /\ SetCalls' /\ Echoed' /\ OthersStand(c) /\ shown' = shown
         /\ SetGotType(c)' /\ SetCallOk(c)' /\ pc'[c] = how
<1>0. SetCalls /\ CallShape /\ Echoed
  BY IndexInvFacts
<1>1. SetCalls'
  BY <1>0, FinishType DEF SetCalls
<1>2. OthersStand(c) /\ pc'[c] = how /\ shown' = shown
  BY <1>0, FinishMoves
<1> QED
  BY <1>0, <1>1, <1>2, EchoedKept, SetEndedOk

LEMMA FinishQuietly ==
  ASSUME IndexInv, NEW c \in Slots, NEW how \in Ended, Finish(c, how), SetsUnchanged
  PROVE  IndexInv'
  BY SetFinishFacts, SetQuietStep

\* The call ends, and what it has read drifts no more.
LEMMA ReturnedKeeps ==
  ASSUME IndexInv, NEW c \in Slots, NEW how \in Ended, Returned(c, how)
  PROVE  IndexInv'
<1>1. /\ SetCalls' /\ Echoed' /\ OthersStand(c) /\ shown' = shown /\ SetGotType(c)' /\ SetCallOk(c)'
  BY SetFinishFacts DEF Returned
<1>2. SetWorldTypes'
  BY IndexInvFacts, SetDriftTypes DEF Returned, SetWorldTypes
<1>3. JobsClean' /\ \A d \in Slots \ {c} : SetWorldKept(d)
  <2>1. \A d \in Slots \ {c} : setDrift'[d] = setDrift[d]
    BY IndexInvFacts DEF Returned, Undrift, SetWorldTypes
  <2> QED
    BY <2>1, SetQuietWorld DEF Returned
<1> QED
  BY <1>1, <1>2, <1>3, SetCallStep

LEMMA ContinueQuietly ==
  ASSUME IndexInv, NEW c \in Slots, pc[c] \in SetLabels, NEW next \in SetLabels,
         NEW g \in SetRead \union Wait \union {NothingGot}, Continue(c, next, g), SetsUnchanged,
         SetGotType(c)', SetCallOk(c)'
  PROVE  IndexInv'
<1>0. SetCalls /\ CallShape /\ Echoed
  BY IndexInvFacts
<1>1. req[c] \in Request(SetOps, SetToken) /\ pc[c] \notin Ended
  BY <1>0, SetReqFacts
<1>2. SetCalls'
  BY <1>0, <1>1, ContinueType DEF SetCalls
<1>3. OthersStand(c) /\ req'[c] = req[c] /\ shown' = shown
  BY <1>0, ContinueMoves
<1> QED
  BY <1>0, <1>1, <1>2, <1>3, EchoedKept, SetQuietStep

\* The gate: what it takes to go on to the write.
LEMMA SetGateFacts ==
  ASSUME IndexInv, NEW c \in Slots, pc[c] \in SetLabels, NEW next \in SetLabels,
         NEW g \in SetRead \union Wait \union {NothingGot}, NEW token \in SUBSET SetToken,
         Gate(c, token, next, g),
         Passed(c, token, next, g) => SetGotType(c)' /\ SetCallOk(c)'
  PROVE  SetCalls' /\ Echoed' /\ OthersStand(c) /\ shown \subseteq shown' /\ SetGotType(c)' /\ SetCallOk(c)'
<1>0. SetCalls /\ CallShape /\ Echoed
  BY IndexInvFacts
<1>1. req[c] \in Request(SetOps, SetToken) /\ pc[c] \notin Ended
  BY <1>0, SetReqFacts
<1>2. SetCalls'
  BY <1>0, <1>1, GateType DEF SetCalls
<1>3. /\ OthersStand(c) /\ shown \subseteq shown'
      /\ pc'[c] \in {"done", "refused"} \/ Passed(c, token, next, g)
  BY <1>0, GateMoves
<1>4. CASE pc'[c] \in {"done", "refused"}
  <2>1. pc'[c] \in Ended
    BY <1>4 DEF Ended
  <2> QED
    BY <1>0, <1>2, <1>3, <2>1, EchoedKept, SetEndedOk
<1>5. CASE Passed(c, token, next, g)
  BY <1>0, <1>1, <1>2, <1>3, <1>5, EchoedKept DEF Passed
<1> QED
  BY <1>3, <1>4, <1>5

LEMMA SetBeginKeeps ==
  ASSUME IndexInv, NEW c \in Slots, SetBegin(c) PROVE IndexInv'
<1>0. SetCalls /\ CallShape /\ Echoed
  BY IndexInvFacts
<1>1. PICK op \in SetOps : Begin(c, op, FirstRequest(op)) /\ SetsUnchanged
  BY DEF SetBegin
<1>2. FirstRequest(op) \in SetLabels \ Ended
  BY DEF FirstRequest, SetLabels, Ended
<1>3. SetCalls'
  BY <1>0, <1>1, <1>2, BeginType DEF SetCalls
<1>4. OthersStand(c) /\ pc'[c] = FirstRequest(op) /\ shown' = shown /\ req'[c].confirm \subseteq shown
  BY <1>0, <1>1, BeginMoves
<1>5. Echoed'
  BY <1>0, <1>4, EchoedKept
<1>6. req'[c].op = op
  BY <1>0, <1>1 DEF Begin, CallShape
<1>7. SetGotType(c)' /\ SetCallOk(c)'
  BY <1>4, <1>6 DEF FirstRequest, SetGotType, SetCallOk
<1> QED
  BY <1>1, <1>3, <1>4, <1>5, <1>7, SetQuietStep

LEMMA ListSetsKeeps ==
  ASSUME IndexInv, NEW c \in Slots, ListSets(c) PROVE IndexInv'
<1>1. CASE Finish(c, "refused")
  BY <1>1, FinishQuietly DEF ListSets, Ended
<1>2. CASE ~BadAlias(req[c].op) /\ Gate(c, {}, "post_set", NothingGot)
  <2>1. pc[c] \in SetLabels /\ "post_set" \in SetLabels /\ req[c].op.tool = "create_index_set"
    BY IndexInvFacts DEF ListSets, SetLabels, SetCallOk
  <2>2. Passed(c, {}, "post_set", NothingGot) => SetGotType(c)' /\ SetCallOk(c)'
    BY <1>2, <2>1 DEF Passed, SetGotType, SetCallOk
  <2>3. {} \in SUBSET SetToken /\ NothingGot \in SetRead \union Wait \union {NothingGot}
    OBVIOUS
  <2>4. SetCalls' /\ Echoed' /\ OthersStand(c) /\ shown \subseteq shown' /\ SetGotType(c)' /\ SetCallOk(c)'
    BY <1>2, <2>1, <2>2, <2>3, SetGateFacts
  <2> QED
    BY <2>4, SetQuietStep DEF ListSets
<1> QED
  BY <1>1, <1>2 DEF ListSets

LEMMA GetSetKeeps ==
  ASSUME IndexInv, NEW c \in Slots, GetSet(c) PROVE IndexInv'
<1> DEFINE op == req[c].op
           s  == op.set
<1>0. SetCalls /\ SetWorldTypes /\ SetGotType(c) /\ SetCallOk(c) /\ pc[c] = "get_set" /\ SetsUnchanged
  BY IndexInvFacts DEF GetSet
<1>1. pc[c] \in SetLabels /\ op \in SetOps /\ op \in SetOp /\ s \in SetIds
  BY <1>0, SetReqFacts DEF SetLabels
<1>2. CASE Finish(c, "refused")
  BY <1>0, <1>2, FinishQuietly DEF Ended
<1>3. CASE sets[s] # NoSet /\ ~Unfit(s, op) /\ op.deleteIndices /\ Continue(c, "list_indices", ReadOf(s))
  <2>1. ReadOf(s) \in SetRead
    BY <1>0, <1>1, <1>3 DEF ReadOf, SetRead, SetWorldTypes
  <2>2. /\ pc'[c] = "list_indices" /\ got'[c] = ReadOf(s)
    BY <1>0, <1>3, IndexInvFacts, ContinueMoves
  <2>3. SetGotType(c)' /\ SetCallOk(c)'
    BY <2>1, <2>2 DEF SetGotType, SetCallOk, ReadOf
  <2>4. "list_indices" \in SetLabels
    BY DEF SetLabels
  <2> QED
    BY <1>0, <1>1, <1>3, <2>1, <2>3, <2>4, ContinueQuietly
<1>4. CASE sets[s] # NoSet /\ ~Unfit(s, op) /\ ~op.deleteIndices /\ Gate(c, {}, WriteOf(op), ReadOf(s))
  <2>1. ReadOf(s) \in SetRead /\ ReadOf(s).doc = sets[s]
    BY <1>0, <1>1, <1>4 DEF ReadOf, SetRead, SetWorldTypes
  <2>2. op.tool \in {"update_index_set", "delete_index_set", "cycle_deflector", "set_default_index_set"}
    BY <1>0, <1>1 DEF SetCallOk, SetOp, SetTools
  <2>3. /\ WriteOf(op) \in SetLabels /\ WriteOf(op) \notin {"list_sets", "post_set", "get_set", "poll"}
        /\ WriteOf(op) \notin {"list_indices", "get_stats", "delete_data"}
        /\ WriteOf(op) = "put_set" => op.tool = "update_index_set"
    BY <2>2 DEF WriteOf, SetLabels
  <2>4. op.tool = "update_index_set" => ~BadAlias(op)
    BY <1>4 DEF Unfit
  <2>5. ASSUME Passed(c, {}, WriteOf(op), ReadOf(s)) PROVE SetGotType(c)' /\ SetCallOk(c)'
    <3>1. pc'[c] = WriteOf(op) /\ got'[c] = ReadOf(s) /\ req'[c] = req[c]
      BY <2>5 DEF Passed
    <3>2. SetGotType(c)'
      BY <2>1, <2>3, <3>1 DEF SetGotType
    <3>3. SetFresh(c)'
      BY <1>0, <1>4, <2>1, <3>1 DEF SetFresh, SetsUnchanged
    <3> QED
      BY <2>3, <2>4, <3>1, <3>2, <3>3 DEF SetCallOk
  <2>6. SetCalls' /\ Echoed' /\ OthersStand(c) /\ shown \subseteq shown' /\ SetGotType(c)' /\ SetCallOk(c)'
    BY <1>1, <1>4, <2>1, <2>3, <2>5, SetGateFacts
  <2> QED
    BY <1>0, <2>6, SetQuietStep
<1> QED
  BY <1>2, <1>3, <1>4 DEF GetSet

LEMMA ListIndicesKeeps ==
  ASSUME IndexInv, NEW c \in Slots, ListIndices(c) PROVE IndexInv'
<1>0. /\ SetCalls /\ SetWorldTypes /\ CallShape /\ got[c] \in SetRead /\ pc[c] = "list_indices" /\ SetsUnchanged
      /\ pc[c] \in SetLabels /\ "get_stats" \in SetLabels
  BY IndexInvFacts DEF ListIndices, SetGotType, SetLabels
<1>1. req[c].op.set \in SetIds /\ stored[req[c].op.set] \in SUBSET IndexNames
  BY <1>0, SetReqFacts DEF SetWorldTypes
<1>2. PICK g \in SetRead :
        Continue(c, "get_stats", g) /\ (g.listed => g.names = stored[req[c].op.set])
  <2> DEFINE r == [got[c] EXCEPT !.names = stored[req[c].op.set], !.listed = TRUE]
  <2>1. r \in SetRead /\ r.names = stored[req[c].op.set]
    BY <1>0, <1>1 DEF SetRead
  <2>2. ~got[c].listed
    BY <1>0, IndexInvFacts DEF SetCallOk
  <2> QED
    BY <1>0, <2>1, <2>2 DEF ListIndices
<1>3. pc'[c] = "get_stats" /\ got'[c] = g /\ req'[c] = req[c]
  BY <1>0, <1>2, ContinueMoves
<1>4. SetGotType(c)' /\ SetCallOk(c)'
  BY <1>0, <1>2, <1>3 DEF SetGotType, SetCallOk, NamesFresh, SetsUnchanged
<1> QED
  BY <1>0, <1>2, <1>4, ContinueQuietly

LEMMA GetStatsKeeps ==
  ASSUME IndexInv, NEW c \in Slots, GetStats(c) PROVE IndexInv'
<1> DEFINE s     == req[c].op.set
           token == C1Hash(s, got[c].names, docs[s])
           g     == [got[c] EXCEPT !.count = docs[s]]
<1>0. /\ SetCalls /\ SetWorldTypes /\ Echoed /\ SetCallOk(c) /\ got[c] \in SetRead
      /\ pc[c] = "get_stats" /\ pc[c] \in SetLabels /\ "delete_data" \in SetLabels
  BY IndexInvFacts DEF GetStats, SetGotType, SetLabels
<1>1. s \in SetIds /\ docs[s] \in 0..MaxDocs /\ pc[c] \notin Ended
  BY <1>0, SetReqFacts DEF SetWorldTypes
<1>2. {token} \in SUBSET SetToken
  BY <1>0, <1>1 DEF C1Hash, SetToken, SetRead
<1>3. g \in SetRead /\ g.count = docs[s] /\ g.names = got[c].names /\ g.listed = got[c].listed
  BY <1>0, <1>1 DEF SetRead
<1>4. UNCHANGED <<sets, default, stored, docs, jobs, setEdits>> /\ Gate(c, {token}, "delete_data", g)
  BY DEF GetStats
<1>5. ASSUME Passed(c, {token}, "delete_data", g) PROVE SetGotType(c)' /\ SetCallOk(c)'
  <2>1. pc'[c] = "delete_data" /\ got'[c] = g /\ req'[c] = req[c] /\ req[c].confirm = {token}
    BY <1>5 DEF Passed
  <2>2. setDrift' = setDrift
    BY <2>1 DEF GetStats
  <2>3. NamesFresh(c)' /\ CountFresh(c)'
    BY <1>0, <1>3, <1>4, <2>1, <2>2 DEF SetCallOk, NamesFresh, CountFresh, Untouched
  <2>4. token \in shown'
    BY <1>0, <1>1, <1>5, <2>1 DEF Echoed, Passed, Continue
  <2>5. token = [set |-> s, names |-> g.names, count |-> g.count]
    BY <1>3 DEF C1Hash
  <2> QED
    BY <1>3, <2>1, <2>3, <2>4, <2>5 DEF SetGotType, SetCallOk
<1>6. SetCalls' /\ Echoed' /\ OthersStand(c) /\ shown \subseteq shown' /\ SetGotType(c)' /\ SetCallOk(c)'
  <2>1. g \in SetRead \union Wait \union {NothingGot}
    BY <1>3
  <2> HIDE DEF g, token
  <2> QED
    BY <1>0, <1>2, <1>4, <1>5, <2>1, SetGateFacts
<1>7. SetWorldTypes' /\ \A d \in Slots \ {c} : setDrift'[d] = setDrift[d]
  <2>1. setDrift' = setDrift \/ setDrift' = Undrift(c, setDrift)
    BY DEF GetStats
  <2> QED
    BY <1>0, <1>4, <2>1, SetDriftTypes DEF SetWorldTypes, Undrift
<1> QED
  BY <1>4, <1>6, <1>7, SetQuietWorld, SetCallStep

-----------------------------------------------------------------------------
(* Index sets: waiting for a job *)

LEMMA WaitKeeps ==
  ASSUME IndexInv, NEW c \in Slots, Await(c) \/ GetJobs(c) PROVE IndexInv'
<1>0. /\ SetCalls /\ SetWorldTypes /\ CallShape /\ SetsUnchanged /\ pc[c] \in SetLabels
      /\ "get_jobs" \in SetLabels /\ "poll" \in SetLabels
  BY IndexInvFacts DEF Await, GetJobs, SetLabels
<1>1. req[c].op \in SetOp /\ req[c].op.timeout \in Nat /\ req[c].op.job \in SUBSET JobIds
  BY <1>0, SetReqFacts DEF SetOp
<1>2. CASE Finish(c, "done") \/ Finish(c, "refused")
  BY <1>0, <1>2, FinishQuietly DEF Ended
<1>3. CASE Continue(c, "get_jobs", NothingGot)
  <2>1. pc'[c] = "get_jobs"
    BY <1>0, <1>3, ContinueMoves
  <2>2. SetGotType(c)' /\ SetCallOk(c)'
    BY <2>1 DEF SetGotType, SetCallOk
  <2> QED
    BY <1>0, <1>3, <2>2, ContinueQuietly
<1>4. ASSUME NEW j \in JobIds, Continue(c, "poll", [job |-> j, round |-> 0, left |-> req[c].op.timeout])
      PROVE  IndexInv'
  <2> DEFINE w == [job |-> j, round |-> 0, left |-> req[c].op.timeout]
  <2>1. w \in Wait
    <3>1. Len(Backoff) \in Nat
      BY BackoffAssumption
    <3> QED
      BY <1>1, <3>1 DEF Wait
  <2>2. pc'[c] = "poll" /\ got'[c] = w
    BY <1>0, <1>4, ContinueMoves
  <2>3. SetGotType(c)' /\ SetCallOk(c)'
    BY <2>1, <2>2 DEF SetGotType, SetCallOk
  <2> HIDE DEF w
  <2>4. Continue(c, "poll", w)
    BY <1>4 DEF w
  <2> QED
    BY <1>0, <2>1, <2>3, <2>4, ContinueQuietly
<1>5. CASE Await(c)
  <2>1. req[c].op.job # {} => Only(req[c].op.job) \in JobIds
    BY <1>1, OnlyOne
  <2> QED
    BY <1>2, <1>3, <1>4, <1>5, <2>1 DEF Await
<1>6. CASE GetJobs(c)
  <2> DEFINE matches == {j \in JobIds : Listed(j) /\ jobs[j].about = req[c].op.set}
  <2>1. matches # {} => Only(matches) \in JobIds
    BY OnlyOne
  <2>2. Cardinality(matches) = 1 => matches # {}
    <3>1. matches = {} => Cardinality(matches) = 0
      BY FS_EmptySet, Zenon
    <3> HIDE DEF matches
    <3> QED
      BY <3>1
  <2> QED
    BY <1>2, <1>4, <1>6, <2>1, <2>2 DEF GetJobs
<1> QED
  BY <1>5, <1>6

LEMMA PollKeeps ==
  ASSUME IndexInv, NEW c \in Slots, Poll(c) PROVE IndexInv'
<1>0. /\ SetCalls /\ CallShape /\ SetsUnchanged /\ pc[c] = "poll" /\ pc[c] \in SetLabels /\ got[c] \in Wait
  BY IndexInvFacts DEF Poll, SetGotType, SetLabels
<1>1. ASSUME NEW how \in {"done", "failed"}, Finish(c, how) PROVE IndexInv'
  BY <1>0, <1>1, FinishQuietly DEF Ended
<1>2. ASSUME NEW w \in Wait, Continue(c, "poll", w) PROVE IndexInv'
  <2>1. pc'[c] = "poll" /\ got'[c] = w
    BY <1>0, <1>2, ContinueMoves
  <2>2. SetGotType(c)' /\ SetCallOk(c)'
    BY <2>1 DEF SetGotType, SetCallOk
  <2> QED
    BY <1>0, <1>2, <2>2, ContinueQuietly
<1>3. \A late \in 0..MaxLate : Slept(got[c], late) \in Wait
  BY <1>0, SleptType
<1> QED
  BY <1>1, <1>2, <1>3 DEF Poll

-----------------------------------------------------------------------------
(* Index sets: writes, and the server *)

\* The index sets become ss: what that does to a call that stands still.
LEMMA SetsMove ==
  ASSUME IndexInv, NEW ss, NEW d \in Slots, sets' = ss, setDrift'[d] = SetsDrift(ss)[d],
         stored' = stored, docs' = docs, \A s : UntouchedNext(s) => Untouched(s)
  PROVE  SetWorldKept(d)
<1> DEFINE s == req[d].op.set
<1>1. setDrift'[d] = IF pc[d] \in {"list_indices", "get_stats", "put_set", "delete_data"}
                     THEN setDrift[d] \union (IF ss[s] = sets[s] THEN {} ELSE FieldsThatDiffer(ss[s], sets[s]))
                     ELSE setDrift[d]
  BY DEF SetsDrift
<1>2. setDrift[d] \subseteq setDrift'[d]
  BY <1>1
<1>3. ASSUME pc[d] = "put_set", NEW f \in SetFields \ setDrift'[d], sets[s] # NoSet
      PROVE  ss[s] # NoSet /\ ss[s][f] = sets[s][f]
  <2>1. CASE ss[s] = sets[s]
    BY <1>3, <2>1
  <2>2. CASE ss[s] # sets[s]
    <3>1. f \notin FieldsThatDiffer(ss[s], sets[s])
      BY <1>1, <1>3, <2>2
    <3> QED
      BY <1>3, <3>1 DEF FieldsThatDiffer
  <2> QED
    BY <2>1, <2>2
<1> QED
  BY <1>2, <1>3 DEF SetWorldKept

\* The server carries a write out, adding jobs at most.
LEMMA CarriedKeeps ==
  ASSUME IndexInv, NEW c \in Slots, NEW ss \in [SetIds -> SetDoc \union {NoSet}], Carried(c, ss),
         default' \in SetIds, stored' = stored, docs' = docs,
         jobs' \in [JobIds -> Job \union {NoJob}],
         \A j \in JobIds : jobs[j] # NoJob => jobs'[j] = jobs[j],
         JobsClean'
  PROVE  IndexInv'
<1>0. PICK how \in Ended : Finish(c, how)
  BY DEF Carried, Ended
<1>1. SetCalls' /\ Echoed' /\ OthersStand(c) /\ shown' = shown /\ SetGotType(c)' /\ SetCallOk(c)'
  BY <1>0, SetFinishFacts
<1>2. SetWorldTypes'
  BY IndexInvFacts, SetDriftTypes DEF Carried, SetWorldTypes
<1>3. ASSUME NEW d \in Slots \ {c} PROVE SetWorldKept(d)
  <2>1. setDrift'[d] = SetsDrift(ss)[d]
    BY IndexInvFacts, SetDriftTypes DEF Carried, Undrift
  <2>2. \A s : UntouchedNext(s) => Untouched(s)
    BY DEF UntouchedNext, Untouched
  <2> QED
    BY <2>1, <2>2, SetsMove DEF Carried
<1> QED
  BY <1>1, <1>2, <1>3, SetCallStep

LEMMA WritesKeep ==
  ASSUME IndexInv, NEW c \in Slots, PostSet(c) \/ PutSet(c) \/ DeleteSet(c) \/ PutDefault(c)
  PROVE  IndexInv'
<1> DEFINE op == req[c].op
           s  == op.set
<1>0. /\ SetCalls /\ SetWorldTypes /\ JobsClean /\ SetCallOk(c) /\ SetGotType(c) /\ pc[c] \in SetLabels
      /\ stored' = stored /\ docs' = docs /\ jobs' = jobs
  BY IndexInvFacts DEF PostSet, PutSet, DeleteSet, PutDefault, SetLabels
<1>1. op \in SetOps /\ op \in SetOp /\ s \in SetIds
  BY <1>0, SetReqFacts
<1>2. jobs' \in [JobIds -> Job \union {NoJob}] /\ \A j \in JobIds : jobs[j] # NoJob => jobs'[j] = jobs[j]
  BY <1>0 DEF SetWorldTypes
<1>3. CASE PostSet(c)
  <2> DEFINE ss == [sets EXCEPT ![s] = NewSet(op)]
  <2>1. NewSet(op) \in SetDoc
    BY <1>0, <1>1, <1>3, SetNewType DEF PostSet, SetCallOk
  <2>2. ss \in [SetIds -> SetDoc \union {NoSet}]
    BY <1>0, <1>1, <2>1 DEF SetWorldTypes
  <2>3. Carried(c, ss) /\ default' = default
    BY <1>3 DEF PostSet
  <2>4. JobsClean'
    BY <1>0, <1>1, <1>3, <2>3 DEF PostSet, JobsClean, Carried, SetWorldTypes, Job
  <2> QED
    BY <1>0, <1>2, <2>2, <2>3, <2>4, CarriedKeeps DEF SetWorldTypes
<1>4. CASE PutSet(c)
  <2> DEFINE ss == [sets EXCEPT ![s] = MergedSet(got[c].doc, op)]
  <2>1. MergedSet(got[c].doc, op) \in SetDoc
    <3>1. got[c].doc \in SetDoc
      BY <1>0, <1>4 DEF PutSet, SetGotType, SetRead
    <3> QED
      BY <1>0, <1>1, <1>4, <3>1, SetMergedType DEF PutSet, SetCallOk
  <2>2. ss \in [SetIds -> SetDoc \union {NoSet}]
    BY <1>0, <1>1, <2>1 DEF SetWorldTypes
  <2>3. Carried(c, ss) /\ default' = default
    BY <1>4 DEF PutSet
  <2>4. JobsClean'
    BY <1>0, <1>1, <1>4, <2>3 DEF PutSet, JobsClean, Carried, SetWorldTypes, Job
  <2> QED
    BY <1>0, <1>2, <2>2, <2>3, <2>4, CarriedKeeps DEF SetWorldTypes
<1>5. CASE DeleteSet(c)
  <2> DEFINE ss == [sets EXCEPT ![s] = NoSet]
  <2>1. ss \in [SetIds -> SetDoc \union {NoSet}]
    BY <1>0 DEF SetWorldTypes
  <2>2. Carried(c, ss) /\ default' = default
    BY <1>5 DEF DeleteSet
  <2>3. JobsClean'
    BY <1>0, <2>2 DEF JobsClean, Carried, SetWorldTypes, Job
  <2> QED
    BY <1>0, <1>2, <2>1, <2>2, <2>3, CarriedKeeps DEF SetWorldTypes
<1>6. CASE PutDefault(c)
  <2>1. Carried(c, sets) /\ default' = s
    BY <1>6 DEF PutDefault
  <2>2. JobsClean'
    BY <1>0, <2>1 DEF JobsClean, Carried
  <2> QED
    BY <1>0, <1>1, <1>2, <2>1, <2>2, CarriedKeeps DEF SetWorldTypes
<1> QED
  BY <1>3, <1>4, <1>5, <1>6

LEMMA DeleteDataKeeps ==
  ASSUME IndexInv, NEW c \in Slots, DeleteData(c) PROVE IndexInv'
<1> DEFINE s  == req[c].op.set
           ss == [sets EXCEPT ![s] = NoSet]
<1>0. SetCalls /\ SetWorldTypes /\ JobsClean /\ pc[c] \in SetLabels
  BY IndexInvFacts DEF DeleteData, SetLabels
<1>1. s \in SetIds /\ sets[s] # NoSet
  BY <1>0, SetReqFacts DEF DeleteData
<1>2. PICK j \in JobIds :
        jobs[j] = NoJob /\ jobs' = [jobs EXCEPT ![j] = [about |-> s, status |-> "running", atFull |-> FALSE]]
  BY DEF DeleteData
<1>3. [about |-> s, status |-> "running", atFull |-> FALSE] \in Job
  BY <1>1 DEF Job
<1>4. Carried(c, ss) /\ default' = default /\ stored' = stored /\ docs' = docs
  BY DEF DeleteData
<1>5. ss \in [SetIds -> SetDoc \union {NoSet}]
  BY <1>0 DEF SetWorldTypes
<1>6. jobs' \in [JobIds -> Job \union {NoJob}] /\ \A i \in JobIds : jobs[i] # NoJob => jobs'[i] = jobs[i]
  BY <1>0, <1>2, <1>3 DEF SetWorldTypes
<1>7. JobsClean'
  <2>1. ASSUME NEW i \in JobIds, jobs'[i] # NoJob
        PROVE  /\ sets'[jobs'[i].about] = NoSet
               /\ jobs'[i].status \in {"complete", "pruned"} => stored'[jobs'[i].about] = {}
    <3>1. CASE i = j
      <4>1. jobs'[i] = [about |-> s, status |-> "running", atFull |-> FALSE]
        BY <1>0, <1>2, <3>1 DEF SetWorldTypes
      <4> QED
        BY <1>0, <1>1, <1>4, <4>1 DEF Carried, SetWorldTypes
    <3>2. CASE i # j
      <4>1. jobs'[i] = jobs[i] /\ jobs[i] \in Job
        BY <1>0, <1>2, <2>1, <3>2 DEF SetWorldTypes
      <4> QED
        BY <1>0, <1>4, <2>1, <4>1 DEF Carried, SetWorldTypes, JobsClean, Job
    <3> QED
      BY <3>1, <3>2
  <2> QED
    BY <2>1 DEF JobsClean
<1> QED
  BY <1>0, <1>4, <1>5, <1>6, <1>7, CarriedKeeps DEF SetWorldTypes

\* The data of an index set that is there changes.
LEMMA DataMoves ==
  ASSUME IndexInv, NEW t \in SetIds, NEW d \in Slots, sets' = sets, jobs' = jobs,
         setDrift'[d] = DataDrift(t)[d],
         \A s \in SetIds \ {t} : stored'[s] = stored[s] /\ docs'[s] = docs[s]
  PROVE  SetWorldKept(d)
<1> DEFINE s == req[d].op.set
<1>1. setDrift'[d] = IF pc[d] \in {"get_stats", "delete_data"} /\ s = t
                     THEN setDrift[d] \union {"data"} ELSE setDrift[d]
  BY DEF DataDrift
<1>2. pc[d] \in {"get_stats", "delete_data"} => s \in SetIds
  BY IndexInvFacts, SetReqFacts DEF SetLabels
<1>3. ASSUME pc[d] \in {"get_stats", "delete_data"}, UntouchedNext(s), "data" \notin setDrift'[d]
      PROVE  Untouched(s) /\ stored'[s] = stored[s] /\ docs'[s] = docs[s]
  BY <1>1, <1>2, <1>3 DEF UntouchedNext, Untouched
<1>4. setDrift[d] \subseteq setDrift'[d]
  BY <1>1
<1> QED
  BY <1>3, <1>4 DEF SetWorldKept

LEMMA CycleKeeps ==
  ASSUME IndexInv, NEW c \in Slots, Cycle(c) PROVE IndexInv'
<1> DEFINE s == req[c].op.set
<1>0. SetCalls /\ SetWorldTypes /\ JobsClean /\ pc[c] \in SetLabels
  BY IndexInvFacts DEF Cycle, SetLabels
<1>1. s \in SetIds /\ sets[s] # NoSet
  BY <1>0, SetReqFacts DEF Cycle
<1>2. PICK i \in IndexNames : stored' = [stored EXCEPT ![s] = @ \union {i}]
  BY DEF Cycle
<1>3. PICK how \in Ended : Finish(c, how)
  BY DEF Cycle, Ended
<1>4. SetCalls' /\ Echoed' /\ OthersStand(c) /\ shown' = shown /\ SetGotType(c)' /\ SetCallOk(c)'
  BY <1>3, SetFinishFacts
<1>5. SetWorldTypes'
  BY <1>0, <1>2, SetDriftTypes DEF Cycle, SetWorldTypes
<1>6. JobsClean'
  BY <1>0, <1>1, <1>2 DEF Cycle, JobsClean, SetWorldTypes, Job
<1>7. ASSUME NEW d \in Slots \ {c} PROVE SetWorldKept(d)
  <2>1. setDrift'[d] = DataDrift(s)[d]
    BY <1>0, SetDriftTypes DEF Cycle, Undrift
  <2> QED
    BY <1>0, <1>1, <1>2, <2>1, DataMoves DEF Cycle, SetWorldTypes
<1> QED
  BY <1>4, <1>5, <1>6, <1>7, SetCallStep

LEMMA JobKeeps ==
  ASSUME IndexInv, NEW j \in JobIds, JobAdvances(j) \/ JobEnds(j) \/ JobUnlisted(j) PROVE IndexInv'
<1>0. SetWorldTypes /\ JobsClean /\ jobs[j] # NoJob /\ jobs[j] \in Job
  BY IndexInvFacts DEF JobAdvances, JobEnds, JobUnlisted, Listed, SetWorldTypes
<1> DEFINE s == jobs[j].about
<1>1. s \in SetIds /\ sets[s] = NoSet /\ stored[s] \in SUBSET IndexNames
  BY <1>0 DEF JobsClean, Job, SetWorldTypes
<1> DEFINE Moves(new, left) == /\ jobs' = [jobs EXCEPT ![j] = new] /\ new.about = s
                               /\ new.status \in {"complete", "pruned"} => left = {}
                               /\ stored' = [stored EXCEPT ![s] = left]
<1>2. PICK new \in Job, left \in SUBSET stored[s] : Moves(new, left)
  <2>0. stored = [stored EXCEPT ![s] = stored[s]]
    BY <1>0, <1>1 DEF SetWorldTypes
  <2>1. CASE JobAdvances(j)
    <3> DEFINE new == [jobs[j] EXCEPT !.atFull = TRUE]
    <3>1. new \in Job /\ new.about = s /\ new.status = "running" /\ jobs' = [jobs EXCEPT ![j] = new]
      BY <1>0, <2>1 DEF JobAdvances, Job
    <3>2. PICK left \in SUBSET stored[s] : stored' = [stored EXCEPT ![s] = left]
      BY <2>1 DEF JobAdvances
    <3>3. Moves(new, left)
      BY <3>1, <3>2
    <3> QED
      BY <3>1, <3>3
  <2>2. ASSUME jobs' = [jobs EXCEPT ![j] = [about |-> s, status |-> "complete", atFull |-> TRUE]],
               stored' = [stored EXCEPT ![s] = {}]
        PROVE  \E new \in Job, left \in SUBSET stored[s] : Moves(new, left)
    <3> DEFINE new == [about |-> s, status |-> "complete", atFull |-> TRUE]
    <3>1. new \in Job /\ Moves(new, {})
      BY <1>1, <2>2 DEF Job
    <3> QED
      BY <3>1
  <2>3. ASSUME NEW how \in Stopped, jobs' = [jobs EXCEPT ![j].status = how], stored' = stored
        PROVE  \E new \in Job, left \in SUBSET stored[s] : Moves(new, left)
    <3> DEFINE new == [jobs[j] EXCEPT !.status = how]
    <3>1. new \in Job /\ new.about = s /\ new.status \notin {"complete", "pruned"}
      BY <1>0 DEF Job, Stopped
    <3>2. Moves(new, stored[s])
      BY <2>0, <2>3, <3>1
    <3> QED
      BY <3>1, <3>2
  <2>4. CASE JobUnlisted(j)
    <3> DEFINE end == IF jobs[j].status = "complete" THEN "pruned" ELSE "lost"
               new == [jobs[j] EXCEPT !.status = end]
    <3>1. new \in Job /\ new.about = s /\ new.status = end
      BY <1>0 DEF Job, Unlisted
    <3>2. jobs' = [jobs EXCEPT ![j] = new] /\ stored' = stored
      BY <2>4 DEF JobUnlisted
    <3>3. end \in {"complete", "pruned"} => stored[s] = {}
      BY <1>0 DEF JobsClean
    <3>4. Moves(new, stored[s])
      BY <2>0, <3>1, <3>2, <3>3
    <3> QED
      BY <3>1, <3>4
  <2> QED
    BY <2>1, <2>2, <2>3, <2>4 DEF JobEnds
<1>3. UNCHANGED <<callVars, sets, default, docs, setDrift, setEdits>>
  BY DEF JobAdvances, JobEnds, JobUnlisted
<1>4. SetWorldTypes'
  BY <1>0, <1>2, <1>3 DEF SetWorldTypes
<1>5. JobsClean'
  <2>1. \A i \in JobIds \ {j} : jobs'[i] = jobs[i]
    BY <1>2
  <2>2. jobs'[j] = new
    BY <1>0, <1>2 DEF SetWorldTypes
  <2>3. \A t \in SetIds : stored[t] = {} => stored'[t] = {}
    BY <1>0, <1>2 DEF SetWorldTypes
  <2>4. \A i \in JobIds : jobs[i] # NoJob => jobs[i].about \in SetIds
    BY <1>0 DEF SetWorldTypes, Job
  <2>5. sets' = sets
    BY <1>3
  <2>6. ASSUME NEW i \in JobIds, jobs'[i] # NoJob
        PROVE  /\ sets'[jobs'[i].about] = NoSet
               /\ jobs'[i].status \in {"complete", "pruned"} => stored'[jobs'[i].about] = {}
    <3>1. CASE i = j
      <4>1. stored'[s] = left
        BY <1>0, <1>1, <1>2 DEF SetWorldTypes
      <4> QED
        BY <1>1, <1>2, <2>2, <2>5, <3>1, <4>1
    <3>2. CASE i # j
      BY <1>0, <2>1, <2>3, <2>4, <2>5, <2>6, <3>2 DEF JobsClean
    <3> QED
      BY <3>1, <3>2
  <2> QED
    BY <2>6 DEF JobsClean
<1>6. ASSUME NEW d \in Slots PROVE SetWorldKept(d)
  <2> DEFINE t == req[d].op.set
  <2>1. ASSUME UntouchedNext(t) PROVE t # s /\ Untouched(t)
    <3>1. jobs'[j] = new /\ new # NoJob /\ \A i \in JobIds \ {j} : jobs'[i] = jobs[i]
      BY <1>0, <1>2 DEF SetWorldTypes
    <3> QED
      BY <1>2, <2>1, <3>1 DEF UntouchedNext, Untouched
  <2>2. pc[d] \in {"get_stats", "delete_data"} => t \in SetIds
    BY IndexInvFacts, SetReqFacts DEF SetLabels
  <2>3. \A x \in SetIds \ {s} : stored'[x] = stored[x]
    BY <1>0, <1>2 DEF SetWorldTypes
  <2> QED
    BY <1>3, <2>1, <2>2, <2>3 DEF SetWorldKept
<1> QED
  BY <1>3, <1>4, <1>5, <1>6, SetWorldStep

LEMMA SetOthersKeep ==
  ASSUME IndexInv, NEW s \in Touched, Ingest(s) \/ RenameSet(s) PROVE IndexInv'
<1>0. SetWorldTypes /\ JobsClean /\ s \in SetIds /\ sets[s] # NoSet
  BY IndexInvFacts DEF Ingest, RenameSet
<1>1. CASE Ingest(s)
  <2>1. SetWorldTypes'
    <3>1. docs[s] \in 0..MaxDocs /\ docs[s] + 1 \in 0..MaxDocs
      BY <1>0, <1>1 DEF Ingest, SetWorldTypes
    <3>2. setEdits' \in 0..MaxSetEdits
      BY <1>0, <1>1 DEF Ingest, SetWorldTypes
    <3>3. setDrift' \in [Slots -> SUBSET (SetFields \union {"data"})]
      BY <1>0, <1>1, SetDriftTypes DEF Ingest
    <3>4. docs' \in [SetIds -> 0..MaxDocs]
      BY <1>0, <1>1, <3>1 DEF Ingest, SetWorldTypes
    <3> QED
      BY <1>0, <1>1, <3>2, <3>3, <3>4 DEF Ingest, SetWorldTypes
  <2>2. JobsClean'
    BY <1>0, <1>1 DEF Ingest, JobsClean
  <2>3. \A d \in Slots : SetWorldKept(d)
    BY <1>0, <1>1, DataMoves DEF Ingest, SetWorldTypes
  <2> QED
    BY <1>1, <2>1, <2>2, <2>3, SetWorldStep DEF Ingest
<1>2. CASE RenameSet(s)
  <2>1. PICK t \in Titles : /\ sets' = [sets EXCEPT ![s].title = t]
                            /\ setDrift' = SetsDrift([sets EXCEPT ![s].title = t])
    BY <1>2 DEF RenameSet
  <2>2. [sets EXCEPT ![s].title = t] \in [SetIds -> SetDoc \union {NoSet}]
    <3>1. sets[s] \in SetDoc
      BY <1>0 DEF SetWorldTypes
    <3>2. [sets[s] EXCEPT !.title = t] \in SetDoc
      BY <3>1 DEF SetDoc
    <3> QED
      BY <1>0, <3>2 DEF SetWorldTypes
  <2>3. SetWorldTypes'
    <3>1. setEdits' \in 0..MaxSetEdits
      BY <1>0, <1>2 DEF RenameSet, SetWorldTypes
    <3>2. setDrift' \in [Slots -> SUBSET (SetFields \union {"data"})]
      BY <1>0, <2>1, SetDriftTypes
    <3> QED
      BY <1>0, <1>2, <2>1, <2>2, <3>1, <3>2 DEF RenameSet, SetWorldTypes
  <2>4. JobsClean'
    BY <1>0, <1>2, <2>1 DEF RenameSet, JobsClean, SetWorldTypes, Job
  <2>5. ASSUME NEW d \in Slots PROVE SetWorldKept(d)
    <3>1. \A x : UntouchedNext(x) => Untouched(x)
      BY <1>2 DEF RenameSet, UntouchedNext, Untouched
    <3> QED
      BY <1>2, <2>1, <3>1, SetsMove DEF RenameSet
  <2> QED
    BY <1>2, <2>3, <2>4, <2>5, SetWorldStep DEF RenameSet
<1> QED
  BY <1>1, <1>2

LEMMA IndexInvNext == IndexInv /\ [IndexNext]_setVars => IndexInv'
<1> SUFFICES ASSUME IndexInv, [IndexNext]_setVars PROVE IndexInv'
  OBVIOUS
<1>1. ASSUME NEW c \in Slots, SetReadFails(c) \/ SetWriteFails(c) \/ PollFails(c) PROVE IndexInv'
  BY <1>1, ReturnedKeeps DEF SetReadFails, SetWriteFails, PollFails, Ended
<1>2. ASSUME NEW c \in Slots, SetStep(c) PROVE IndexInv'
  BY <1>1, <1>2, SetBeginKeeps, ListSetsKeeps, GetSetKeeps, ListIndicesKeeps, GetStatsKeeps, WritesKeep,
     DeleteDataKeeps, CycleKeeps, WaitKeeps, PollKeeps DEF SetStep, SetWrite
<1>3. CASE UNCHANGED setVars
  <2>1. UNCHANGED callVars /\ SetsUnchanged
    BY <1>3 DEF setVars, setWorld, SetsUnchanged
  <2>2. SetWorldTypes'
    BY <2>1, IndexInvFacts DEF SetWorldTypes, SetsUnchanged
  <2>3. JobsClean' /\ \A d \in Slots : SetWorldKept(d)
    BY <2>1, SetQuietWorld DEF SetsUnchanged
  <2> QED
    BY <2>1, <2>2, <2>3, SetWorldStep
<1> QED
  BY <1>2, <1>3, JobKeeps, SetOthersKeep DEF IndexNext, SetOthers

-----------------------------------------------------------------------------
(* Index sets: theorems *)

\* The state of the index-set calls and of the server keeps its type
\* (src/tools/index-sets, system-job.js).
THEOREM IndexTypeCorrect == IndexSpec => []IndexTypeOK
<1>1. IndexInv => IndexTypeOK
  BY DEF IndexInv
<1> QED
  BY <1>1, IndexInvInit, IndexInvNext, PTL DEF IndexSpec

\* Which action a step of call c is, by the request it leaves.
LEMMA OnlyItsOwn ==
  ASSUME IndexInv, [IndexNext]_setVars, NEW c \in Slots, pc'[c] # pc[c]
  PROVE  SetStep(c)
<1>1. ~SetOthers /\ ~UNCHANGED setVars
  BY DEF SetOthers, JobAdvances, JobEnds, JobUnlisted, Ingest, RenameSet, setVars, callVars
<1>2. ASSUME NEW d \in Slots, SetStep(d), d # c PROVE FALSE
  <2>0. CallShape
    BY IndexInvFacts
  <2>1. OthersStand(d)
    <3>1. ASSUME NEW how, Finish(d, how) PROVE OthersStand(d)
      BY <2>0, <3>1, FinishMoves
    <3>2. ASSUME NEW n, NEW g, Continue(d, n, g) PROVE OthersStand(d)
      BY <2>0, <3>2, ContinueMoves
    <3>3. ASSUME NEW t, NEW n, NEW g, Gate(d, t, n, g) PROVE OthersStand(d)
      BY <2>0, <3>3, GateMoves
    <3>4. ASSUME NEW op, NEW first, Begin(d, op, first) PROVE OthersStand(d)
      BY <2>0, <3>4, BeginMoves
    <3>5. CASE SetBegin(d)
      BY <3>4, <3>5 DEF SetBegin
    <3>6. CASE ListSets(d) \/ GetSet(d) \/ ListIndices(d) \/ GetStats(d)
      BY <3>1, <3>2, <3>3, <3>6 DEF ListSets, GetSet, ListIndices, GetStats
    <3>7. CASE SetReadFails(d) \/ SetWriteFails(d) \/ PollFails(d)
      BY <3>1, <3>7 DEF SetReadFails, SetWriteFails, PollFails, Returned
    <3>8. CASE SetWrite(d)
      BY <3>1, <3>8 DEF SetWrite, PostSet, PutSet, DeleteSet, DeleteData, Cycle, PutDefault, Carried
    <3>9. CASE Await(d) \/ GetJobs(d) \/ Poll(d)
      BY <3>1, <3>2, <3>9 DEF Await, GetJobs, Poll
    <3> QED
      BY <1>2, <3>5, <3>6, <3>7, <3>8, <3>9 DEF SetStep
  <2> QED
    BY <1>2, <2>1 DEF OthersStand
<1> QED
  BY <1>1, <1>2 DEF IndexNext

\* An index set goes with its data only as a preview has shown it
\* (delete-index-set.js:100-163).
THEOREM DataGoesAsPreviewed == IndexSpec => DataDeletedKnowing
<1>1. ASSUME IndexInv, [IndexNext]_setVars, NEW c \in Slots, WritesSets(c, "delete_data")
      PROVE  \E t \in shown :
               /\ t.set = req[c].op.set
               /\ "data" \notin setDrift[c] =>
                    /\ t.count = docs[t.set]
                    /\ got[c].listed => t.names = stored[t.set]
  <2>1. SetStep(c)
    BY <1>1, OnlyItsOwn DEF WritesSets
  <2>2. DeleteData(c)
    BY <1>1, <2>1 DEF WritesSets, SetStep, SetBegin, Begin, Ended, ListSets, GetSet, ListIndices, GetStats,
       SetReadFails, SetWriteFails, Returned, SetWrite, PostSet, PutSet, DeleteSet, Cycle, PutDefault,
       Await, GetJobs, Poll, PollFails
  <2> DEFINE s == req[c].op.set
             t == [set |-> s, names |-> got[c].names, count |-> got[c].count]
  <2>3. sets[s] # NoSet /\ SetCallOk(c) /\ JobsClean
    BY <1>1, <2>2, IndexInvFacts DEF DeleteData
  <2>4. Untouched(s)
    BY <2>3 DEF JobsClean, Untouched
  <2>5. t \in shown /\ NamesFresh(c) /\ CountFresh(c)
    BY <1>1, <2>3 DEF WritesSets, SetCallOk
  <2> QED
    BY <2>4, <2>5 DEF NamesFresh, CountFresh
<1>2. IndexInv /\ [IndexNext]_setVars =>
        [\A c \in Slots : WritesSets(c, "delete_data") =>
           \E t \in shown :
             /\ t.set = req[c].op.set
             /\ "data" \notin setDrift[c] =>
                  /\ t.count = docs[t.set]
                  /\ got[c].listed => t.names = stored[t.set]]_setVars
  BY <1>1
<1> QED
  BY <1>2, IndexInvInit, IndexInvNext, PTL DEF IndexSpec, DataDeletedKnowing

\* A job is reported completed only when the indices are gone, or when the server
\* lists it no more though it did not complete, or at 100 percent though it has not
\* completed (system-job.js:184-203).
THEOREM CompletedIsCleaned == IndexSpec => CompletedMeansCleaned
<1> DEFINE Cleaned(j) == \/ stored[j.about] = {}
                         \/ j.status = "lost"
                         \/ j.atFull /\ j.status \in {"running"} \union Stopped
<1>1. ASSUME IndexInv, [IndexNext]_setVars, NEW c \in Slots,
             pc[c] = "poll", pc'[c] = "done", jobs[got[c].job] # NoJob
      PROVE  Cleaned(jobs[got[c].job])
  <2> DEFINE j == jobs[got[c].job]
  <2>0. CallShape /\ JobsClean /\ got[c].job \in JobIds /\ j \in Job
    BY <1>1, IndexInvFacts DEF SetGotType, Wait, SetWorldTypes
  <2>1. SetStep(c)
    BY <1>1, OnlyItsOwn
  <2>2. Poll(c)
    <3>1. ~PollFails(c)
      BY <1>1, <2>0, FinishMoves DEF PollFails, Returned
    <3> QED
      BY <1>1, <2>1, <3>1 DEF SetStep, SetBegin, Begin, Ended, ListSets, GetSet, ListIndices, GetStats,
         SetReadFails, SetWriteFails, SetWrite, PostSet, PutSet, DeleteSet, DeleteData, Cycle, PutDefault,
         Await, GetJobs
  <2>3. Finished(got[c].job)
    <3>1. ~Finish(c, "failed") /\ \A w : ~Continue(c, "poll", w)
      BY <1>1, <2>0, FinishMoves, ContinueMoves
    <3> QED
      BY <2>2, <3>1 DEF Poll
  <2>4. j.status \in {"complete", "pruned"} => stored[j.about] = {}
    BY <1>1, <2>0 DEF JobsClean
  <2>5. j.status \in Unlisted \/ j.status = "complete" \/ j.atFull
    BY <1>1, <2>3 DEF Finished, Listed
  <2>6. j.status \in {"running", "complete"} \union Stopped \union {"pruned", "lost"}
    BY <2>0 DEF Job, Unlisted
  <2> QED
    BY <2>4, <2>5, <2>6 DEF Unlisted
<1>2. IndexInv /\ [IndexNext]_setVars =>
        [\A c \in Slots : pc[c] = "poll" /\ pc'[c] = "done" /\ jobs[got[c].job] # NoJob =>
           LET j == jobs[got[c].job]
           IN \/ stored[j.about] = {}
              \/ j.status = "lost"
              \/ j.atFull /\ j.status \in {"running"} \union Stopped]_setVars
  BY <1>1
<1> QED
  BY <1>2, IndexInvInit, IndexInvNext, PTL DEF IndexSpec, CompletedMeansCleaned

\* The PUT of the merged index set gives what was asked and keeps the rest
\* (update-index-set.js:111-152).
THEOREM UpdateKeepsTheRest == IndexSpec => SetKeepsRest
<1> DEFINE Kept(c) ==
             LET op  == req[c].op
                 new == sets'[op.set]
             IN /\ \A s \in SetIds \ {op.set} : sets'[s] = sets[s]
                /\ \A f \in SetFields \ (NamedFields(op) \union setDrift[c]) : new[f] = sets[op.set][f]
                /\ op.title # {} => new.title \in op.title
                /\ op.writable # {} => new.writable \in op.writable
                /\ \A x \in op.rotation : new.rotation = [class |-> x.alias, type |-> x.alias, config |-> x.config]
                /\ \A x \in op.retention : new.retention = [class |-> x.alias, type |-> x.alias, config |-> x.config]
<1>1. ASSUME IndexInv, [IndexNext]_setVars, NEW c \in Slots, WritesSets(c, "put_set") PROVE Kept(c)
  <2> DEFINE op == req[c].op
             d  == got[c].doc
             m  == MergedSet(d, op)
  <2>0. /\ SetCalls /\ SetWorldTypes /\ SetFresh(c) /\ got[c] \in SetRead
        /\ pc[c] \in SetLabels /\ pc'[c] # pc[c] /\ pc[c] = "put_set"
    BY <1>1, IndexInvFacts DEF WritesSets, SetGotType, SetCallOk, SetLabels
  <2>1. op \in SetOps /\ op.set \in SetIds
    BY <2>0, SetReqFacts
  <2>2. PutSet(c)
    <3>1. SetStep(c)
      BY <1>1, <2>0, OnlyItsOwn
    <3> QED
      BY <1>1, <3>1 DEF WritesSets, SetStep, SetBegin, Begin, Ended, ListSets, GetSet, ListIndices, GetStats,
         SetReadFails, SetWriteFails, Returned, SetWrite, PostSet, DeleteData, DeleteSet, Cycle, PutDefault,
         Await, GetJobs, Poll, PollFails
  <2>3. sets' = [sets EXCEPT ![op.set] = m]
    BY <2>2 DEF PutSet, Carried
  <2>4. sets'[op.set] = m /\ \A s \in SetIds \ {op.set} : sets'[s] = sets[s]
    BY <2>0, <2>1, <2>3 DEF SetWorldTypes
  <2>5. \A f \in SetFields \ NamedFields(op) : m[f] = d[f]
    <3>1. /\ m["title"] = IF op.title # {} THEN Only(op.title) ELSE d["title"]
          /\ m["prefix"] = d["prefix"] /\ m["canBeDefault"] = d["canBeDefault"]
          /\ m["writable"] = IF op.writable # {} THEN Only(op.writable) ELSE d["writable"]
          /\ m["rotation"] = IF op.rotation # {} THEN Block(Only(op.rotation)) ELSE d["rotation"]
          /\ m["retention"] = IF op.retention # {} THEN Block(Only(op.retention)) ELSE d["retention"]
      BY DEF MergedSet
    <3> QED
      BY <3>1 DEF SetFields, NamedFields
  <2>6. \A f \in SetFields \ (NamedFields(op) \union setDrift[c]) : m[f] = sets[op.set][f]
    BY <2>0, <2>5 DEF SetFresh
  <2>7. /\ op.title # {} => m.title \in op.title
        /\ op.writable # {} => m.writable \in op.writable
    BY OnlyOne DEF MergedSet
  <2>8. \A x \in op.rotation : m.rotation = Block(x)
    BY <2>1, OnlyOne DEF MergedSet, AtMostOne
  <2>9. \A x \in op.retention : m.retention = Block(x)
    BY <2>1, OnlyOne DEF MergedSet, AtMostOne
  <2> HIDE DEF m
  <2> QED
    BY <2>4, <2>6, <2>7, <2>8, <2>9 DEF Block
<1>2. IndexInv /\ [IndexNext]_setVars => [\A c \in Slots : WritesSets(c, "put_set") => Kept(c)]_setVars
  BY <1>1
<1> QED
  BY <1>2, IndexInvInit, IndexInvNext, PTL DEF IndexSpec, SetKeepsRest

HIDE NothingsAssumption
HIDE SetOpsAssumption
HIDE BackoffAssumption
HIDE SetStartsAssumption
HIDE SetBoundsAssumption

-----------------------------------------------------------------------------
(* Streams and inputs: types *)

DocCalls == CallsTypeOK(DocLabels, Request(DocOps, {}), DocRead, {})
DocServerTypes ==
  /\ streams \in [StreamIds -> StreamDoc \union {NoDoc}]
  /\ streamRules \in [StreamIds -> RuleDoc \union {NoDoc}]
  /\ inputs \in [InputIds -> InputDoc \union {NoDoc}]
  /\ extractors \in [InputIds -> ExtractorDoc \union {NoDoc}]
DocWorldTypes ==
  /\ DocServerTypes
  /\ encrypted \in SUBSET InputTypes
  /\ typeCatalogue \in (SUBSET InputTypes) \union {NoCatalogue}
  /\ seen \in SUBSET [type : InputTypes, value : Secrets]
  /\ docDrift \in [Slots -> SUBSET DocFields]
  /\ docEdits \in 0..MaxDocEdits

LEMMA DocTypeParts ==
  /\ DocTypeOK <=> DocCalls /\ DocWorldTypes
  /\ DocTypeOK' <=> DocCalls' /\ DocWorldTypes'
  BY DEF DocTypeOK, DocCalls, DocWorldTypes, DocServerTypes

AllDocTools == StreamTools \union RuleDocTools \union InputTools \union ExtractorTools
LEMMA DocOpFacts ==
  ASSUME NEW op \in DocOps
  PROVE  /\ op.tool \in AllDocTools /\ op.title \in SUBSET DocTitles /\ op.value \in SUBSET Values
         /\ op.config \in SUBSET Given
         /\ op.tool \in StreamTools \union RuleDocTools => op.id \in StreamIds
         /\ op.tool \notin StreamTools \union RuleDocTools => op.id \in InputIds
         /\ op.config # {} => op.tool \in {"create_input", "update_input"}
         /\ op.tool = "create_input" => TheOne(op.type) \in InputTypes
<1>1. op \in DocOp
  BY DocOpsAssumption
<1>2. op.tool = "create_input" => op.type # {} /\ op.type \subseteq InputTypes
  BY DocOpsAssumption
<1>3. op.tool = "create_input" => TheOne(op.type) \in InputTypes
  BY <1>2 DEF TheOne
<1>4. op.id \in IF op.tool \in StreamTools \union RuleDocTools THEN StreamIds ELSE InputIds
  BY DocOpsAssumption
<1>5. op.config # {} => op.tool \in {"create_input", "update_input"}
  BY DocOpsAssumption
<1> QED
  BY <1>1, <1>3, <1>4, <1>5 DEF DocOp, AllDocTools

LEMMA DocReqFacts ==
  ASSUME DocCalls, NEW c \in Slots, pc[c] \in DocLabels
  PROVE  pc[c] \notin Ended /\ req[c] \in Request(DocOps, {}) /\ req[c].op \in DocOps
<1>1. pc[c] \notin Ended
  BY DEF DocLabels, Ended
<1>2. req[c] \in Request(DocOps, {})
  BY <1>1 DEF DocCalls, CallsTypeOK
<1> QED
  BY <1>1, <1>2 DEF Request

LEMMA OrType ==
  ASSUME NEW X, NEW S \in SUBSET X, NEW current \in X PROVE Or(S, current) \in X
  BY DEF Or, TheOne
LEMMA TheOneType ==
  ASSUME NEW X, NEW S \in SUBSET X, S # {} PROVE TheOne(S) \in X
  BY DEF TheOne

\* A field in which two documents do not differ.
LEMMA DifferFacts ==
  ASSUME NEW a, NEW b, NEW fs, NEW f \in fs \ Differ(a, b, fs)
  PROVE  a # NoDoc /\ b # NoDoc /\ a[f] = b[f]
  BY DEF Differ

-----------------------------------------------------------------------------
(* Streams and inputs: the invariant *)

\* a is the document b, but for the fields that have drifted since it was read.
LikeDoc(a, b, fs, drift1) == \A f \in fs \ drift1 : b # NoDoc /\ a[f] = b[f]
Updates == {"update_stream_rule", "update_input", "update_extractor"}
\* A document that a call has kept is one of the server's as it was read.
KeptDoc(c) ==
  LET id == req[c].op.id
  IN /\ pc[c] \in {"types", "write"} /\ req[c].op.tool \in Updates
     /\ req[c].op.tool = "update_stream_rule" =>
          got[c] \in RuleDoc /\ LikeDoc(got[c], streamRules[id], {"type", "value"}, docDrift[c])
     /\ req[c].op.tool = "update_input" =>
          got[c] \in InputDoc /\ LikeDoc(got[c], inputs[id], {"type", "title"}, docDrift[c])
     /\ req[c].op.tool = "update_extractor" =>
          got[c] \in ExtractorDoc /\ LikeDoc(got[c], extractors[id], {"type", "title", "order"}, docDrift[c])
\* What is known of a call by the request it is at.
StreamOnly == (StreamTools \ {"create_stream"}) \union RuleDocTools
DocCallOk(c) ==
  LET tool == req[c].op.tool
  IN /\ got[c] # NothingGot => KeptDoc(c)
     /\ pc[c] = "list" => tool \in {"create_stream", "create_extractor", "create_input"}
     /\ pc[c] = "types" =>
          /\ tool \in {"create_input", "update_input"}
          /\ tool = "update_input" => got[c] # NothingGot
     /\ pc[c] = "get_stream" => tool \in StreamOnly
     /\ pc[c] = "get_stream_rule" => tool = "update_stream_rule" /\ req[c].op.id \notin NonEditable
     /\ pc[c] = "get_input" => tool = "update_input"
     /\ pc[c] = "get_extractor" => tool = "update_extractor"
     /\ pc[c] = "list_extractors" => tool = "delete_input"
     /\ pc[c] = "build" => tool \in {"start_input", "stop_input", "delete_extractor"}
     /\ pc[c] = "write" =>
          /\ tool \in Updates => got[c] # NothingGot
          /\ tool \in StreamOnly => req[c].op.id \notin NonEditable
\* The types that were secret when the catalogue was fetched still are.
CatalogueKnown == typeCatalogue # NoCatalogue => typeCatalogue \subseteq encrypted

DocInv == DocTypeOK /\ Echoed /\ CatalogueKnown /\ \A c \in Slots : DocCallOk(c)

LEMMA DocInvFacts ==
  ASSUME DocInv
  PROVE  /\ DocTypeOK /\ DocCalls /\ DocWorldTypes /\ DocServerTypes /\ CallShape /\ Echoed /\ CatalogueKnown
         /\ \A c \in Slots : DocCallOk(c)
  BY DocTypeParts, TypedShape DEF DocInv, DocCalls, DocWorldTypes

LEMMA DocInvInit == DocInit => DocInv
<1> SUFFICES ASSUME DocInit PROVE DocInv
  OBVIOUS
<1>1. \A c \in Slots : pc[c] = "idle" /\ got[c] = NothingGot
  BY DEF DocInit, CallsInit
<1>2. DocCalls
  BY DEF DocInit, CallsInit, DocCalls, CallsTypeOK, Ended
<1>3. DocWorldTypes
  <2>1. PICK s \in DocStart :
          /\ streams = s.streams /\ streamRules = s.rules /\ inputs = s.inputs
          /\ extractors = s.extractors /\ encrypted = s.encrypted
    BY DocStartsAssumption DEF DocInit, DocWorldInit
  <2>2. DocServerTypes /\ encrypted \in SUBSET InputTypes
    BY <2>1 DEF DocStart, DocServerTypes
  <2> QED
    BY <2>2, DocBoundsAssumption DEF DocInit, DocWorldInit, DocWorldTypes
<1>4. Echoed /\ \A c \in Slots : DocCallOk(c)
  BY <1>1 DEF Echoed, Ended, DocCallOk
<1>5. CatalogueKnown
  BY DEF DocInit, DocWorldInit, CatalogueKnown
<1> QED
  BY <1>2, <1>3, <1>4, <1>5, DocTypeParts DEF DocInv

\* What a step must do to the server for a call d that stands still.
DocWorldKept(d) ==
  \/ streamRules' = streamRules /\ inputs' = inputs /\ extractors' = extractors /\ docDrift'[d] = docDrift[d]
  \/ docDrift'[d] = DocsDrift(streamRules', inputs', extractors')[d]
LEMMA LikeDocKept ==
  ASSUME NEW a, NEW b, NEW b2, NEW fs, NEW drift1, NEW drift2, LikeDoc(a, b, fs, drift1),
         drift1 \union Differ(b2, b, fs) \subseteq drift2
  PROVE  LikeDoc(a, b2, fs, drift2)
  BY DifferFacts DEF LikeDoc
LEMMA DocStandingCall ==
  ASSUME DocInv, NEW d \in Slots, pc'[d] = pc[d], req'[d] = req[d], got'[d] = got[d], DocWorldKept(d)
  PROVE  DocCallOk(d)'
<1> DEFINE id == req[d].op.id
           tool == req[d].op.tool
<1>0. DocCallOk(d)
  BY DocInvFacts
<1>1. ASSUME got[d] # NothingGot PROVE KeptDoc(d)'
  <2>0. KeptDoc(d)
    BY <1>0, <1>1 DEF DocCallOk
  <2>1. CASE streamRules' = streamRules /\ inputs' = inputs /\ extractors' = extractors /\ docDrift'[d] = docDrift[d]
    BY <2>0, <2>1 DEF KeptDoc
  <2>2. CASE docDrift'[d] = DocsDrift(streamRules', inputs', extractors')[d]
    <3>1. docDrift'[d] = docDrift[d] \union
             CASE tool = "update_stream_rule" -> Differ(streamRules'[id], streamRules[id], {"type", "value"})
               [] tool = "update_input"       -> Differ(inputs'[id], inputs[id], {"type", "title"})
               [] tool = "update_extractor"   -> Differ(extractors'[id], extractors[id], {"type", "title", "order"})
      BY <1>1, <2>2 DEF DocsDrift
    <3>2. CASE tool = "update_stream_rule"
      <4>1. LikeDoc(got[d], streamRules'[id], {"type", "value"}, docDrift'[d])
        BY <2>0, <3>1, <3>2, LikeDocKept DEF KeptDoc
      <4> QED
        BY <2>0, <3>2, <4>1 DEF KeptDoc
    <3>3. CASE tool = "update_input"
      <4>1. LikeDoc(got[d], inputs'[id], {"type", "title"}, docDrift'[d])
        BY <2>0, <3>1, <3>3, LikeDocKept DEF KeptDoc
      <4> QED
        BY <2>0, <3>3, <4>1 DEF KeptDoc
    <3>4. CASE tool = "update_extractor"
      <4>1. LikeDoc(got[d], extractors'[id], {"type", "title", "order"}, docDrift'[d])
        BY <2>0, <3>1, <3>4, LikeDocKept DEF KeptDoc
      <4> QED
        BY <2>0, <3>4, <4>1 DEF KeptDoc
    <3> QED
      BY <2>0, <3>2, <3>3, <3>4 DEF KeptDoc, Updates
  <2> QED
    BY <2>1, <2>2 DEF DocWorldKept
<1> QED
  BY <1>0, <1>1 DEF DocCallOk

\* A step of call c.
LEMMA DocCallStep ==
  ASSUME DocInv, NEW c \in Slots, OthersStand(c),
         DocCalls', Echoed', DocWorldTypes', CatalogueKnown', DocCallOk(c)',
         \A d \in Slots \ {c} : DocWorldKept(d)
  PROVE  DocInv'
<1>1. \A d \in Slots \ {c} : DocCallOk(d)'
  BY DocStandingCall DEF OthersStand
<1> QED
  BY <1>1, DocTypeParts DEF DocInv

\* The call moves on, and the server stands still.
LEMMA DocQuietStep ==
  ASSUME DocInv, NEW c \in Slots, OthersStand(c), DocsUnchanged, DocCalls', Echoed', DocCallOk(c)'
  PROVE  DocInv'
<1>1. DocWorldTypes' /\ CatalogueKnown'
  BY DocInvFacts DEF DocWorldTypes, DocServerTypes, CatalogueKnown, DocsUnchanged, docWorld
<1>2. \A d \in Slots : DocWorldKept(d)
  BY DEF DocWorldKept, DocsUnchanged, docWorld
<1> QED
  BY <1>1, <1>2, DocCallStep

-----------------------------------------------------------------------------
(* Streams and inputs: steps *)

LEMMA DocFinishFacts ==
  ASSUME DocInv, NEW c \in Slots, NEW how \in Ended, Finish(c, how)
  PROVE  /\ DocCalls' /\ Echoed' /\ OthersStand(c) /\ DocCallOk(c)' /\ pc'[c] = how
<1>0. DocCalls /\ CallShape /\ Echoed
  BY DocInvFacts
<1>1. DocCalls'
  BY <1>0, FinishType DEF DocCalls
<1>2. OthersStand(c) /\ pc'[c] = how /\ shown' = shown
  BY <1>0, FinishMoves
<1>3. got'[c] = NothingGot
  BY <1>0 DEF Finish, End, CallShape
<1>4. DocCallOk(c)'
  BY <1>2, <1>3 DEF DocCallOk, Ended
<1> QED
  BY <1>0, <1>1, <1>2, <1>4, EchoedKept

LEMMA DocReturnsKeeps ==
  ASSUME DocInv, NEW c \in Slots, NEW how \in Ended, DocReturns(c, how)
  PROVE  DocInv'
<1>1. DocCalls' /\ Echoed' /\ OthersStand(c) /\ DocCallOk(c)'
  BY DocFinishFacts DEF DocReturns
<1>2. DocWorldTypes' /\ CatalogueKnown'
  BY DocInvFacts DEF DocReturns, docServer, DocWorldTypes, DocServerTypes, CatalogueKnown
<1>3. \A d \in Slots \ {c} : DocWorldKept(d)
  BY DocInvFacts DEF DocReturns, docServer, DocWorldKept, DocWorldTypes
<1> QED
  BY <1>1, <1>2, <1>3, DocCallStep

LEMMA DocContinueFacts ==
  ASSUME DocInv, NEW c \in Slots, pc[c] \in DocLabels, NEW next \in DocLabels,
         NEW g \in DocRead \union {NothingGot}, Continue(c, next, g)
  PROVE  /\ DocCalls' /\ Echoed' /\ OthersStand(c)
         /\ pc'[c] = next /\ got'[c] = g /\ req'[c] = req[c]
<1>0. DocCalls /\ CallShape /\ Echoed
  BY DocInvFacts
<1>1. req[c] \in Request(DocOps, {}) /\ pc[c] \notin Ended
  BY <1>0, DocReqFacts
<1>2. DocCalls'
  BY <1>0, <1>1, ContinueType DEF DocCalls
<1>3. OthersStand(c) /\ pc'[c] = next /\ got'[c] = g /\ req'[c] = req[c] /\ shown' = shown
  BY <1>0, ContinueMoves
<1> QED
  BY <1>0, <1>1, <1>2, <1>3, EchoedKept

\* The gate: a preview shows values of the call's input type, and what is known of
\* the call at its write is left to show.
LEMMA DocGateKeeps ==
  ASSUME DocInv, NEW c \in Slots, pc[c] \in DocLabels, NEW g \in DocRead \union {NothingGot},
         NEW values \in SUBSET [type : InputTypes, value : Secrets], DocGate(c, g, values),
         typeCatalogue' \in (SUBSET InputTypes) \union {NoCatalogue}, CatalogueKnown',
         pc'[c] = "write" /\ got'[c] = g /\ req'[c] = req[c] /\ docDrift' = docDrift => DocCallOk(c)'
  PROVE  DocInv'
<1>0. DocCalls /\ CallShape /\ Echoed /\ DocWorldTypes
  BY DocInvFacts
<1>1. req[c] \in Request(DocOps, {}) /\ pc[c] \notin Ended /\ "write" \in DocLabels
  BY <1>0, DocReqFacts DEF DocLabels
<1>2. Gate(c, {}, "write", g)
  BY DEF DocGate
<1>3. DocCalls'
  BY <1>0, <1>1, <1>2, GateType DEF DocCalls
<1>4. /\ OthersStand(c) /\ shown \subseteq shown'
      /\ pc'[c] \in {"done", "refused"} \/ Passed(c, {}, "write", g)
  BY <1>0, <1>2, GateMoves
<1>5. Echoed' /\ DocCallOk(c)'
  <2>1. CASE pc'[c] \in {"done", "refused"}
    <3>1. got'[c] = NothingGot
      <4>1. CASE Continue(c, "write", g)
        BY <1>0, <2>1, <4>1, ContinueMoves
      <4>2. CASE \E how : End(c, how)
        BY <1>0, <4>2 DEF End, CallShape
      <4> QED
        BY <1>2, <4>1, <4>2 DEF Gate, Finish
    <3>2. DocCallOk(c)'
      BY <2>1, <3>1 DEF DocCallOk
    <3> QED
      BY <1>0, <1>4, <2>1, <3>2, EchoedKept DEF Ended
  <2>2. CASE Passed(c, {}, "write", g) /\ pc'[c] \notin {"done", "refused"}
    <3>1. pc'[c] = "write" /\ req'[c] = req[c] /\ got'[c] = g
      BY <2>2 DEF Passed
    <3>2. ~req[c].dryRun
      <4>1. req[c].dryRun => pc'[c] = "done"
        BY <1>0, <1>2, EndMoves DEF Gate
      <4> QED
        BY <2>2, <4>1
    <3>3. docDrift' = docDrift
      BY <3>2 DEF DocGate
    <3> QED
      BY <1>0, <1>1, <1>4, <3>1, <3>3, EchoedKept
  <2> QED
    BY <1>4, <2>1, <2>2
<1>6. DocWorldTypes'
  BY <1>0 DEF DocGate, docServer, DocWorldTypes, DocServerTypes
<1>7. \A d \in Slots \ {c} : DocWorldKept(d)
  BY <1>0 DEF DocGate, docServer, DocWorldKept, DocWorldTypes
<1> QED
  BY <1>3, <1>4, <1>5, <1>6, <1>7, DocCallStep

LEMMA DocBeginKeeps ==
  ASSUME DocInv, NEW c \in Slots, DocBegin(c) PROVE DocInv'
<1>0. DocCalls /\ CallShape /\ Echoed
  BY DocInvFacts
<1>1. PICK op \in DocOps : Begin(c, op, FirstDoc(op)) /\ DocsUnchanged
  BY DEF DocBegin
<1>2. op.tool \in AllDocTools
  BY DocOpFacts
<1>3. /\ FirstDoc(op) \in {"list", "types", "get_stream", "get_input", "get_extractor", "list_extractors", "build"}
      /\ FirstDoc(op) = "list" => op.tool \in {"create_stream", "create_extractor"}
      /\ FirstDoc(op) = "types" => op.tool = "create_input"
      /\ FirstDoc(op) = "get_stream" => op.tool \in StreamOnly
      /\ FirstDoc(op) = "get_input" => op.tool = "update_input"
      /\ FirstDoc(op) = "get_extractor" => op.tool = "update_extractor"
      /\ FirstDoc(op) = "list_extractors" => op.tool = "delete_input"
      /\ FirstDoc(op) = "build" => op.tool \in {"start_input", "stop_input", "delete_extractor"}
  BY <1>2 DEF FirstDoc, AllDocTools, StreamTools, RuleDocTools, InputTools, ExtractorTools, StreamOnly
<1>4. FirstDoc(op) \in DocLabels \ Ended
  BY <1>3 DEF DocLabels, Ended
<1>5. DocCalls'
  BY <1>0, <1>1, <1>4, BeginType DEF DocCalls
<1>6. OthersStand(c) /\ pc'[c] = FirstDoc(op) /\ shown' = shown /\ req'[c].confirm \subseteq shown
  BY <1>0, <1>1, BeginMoves
<1>7. Echoed'
  BY <1>0, <1>6, EchoedKept
<1>8. req'[c].op = op /\ got'[c] = got[c] /\ pc[c] \in Ended
  BY <1>0, <1>1 DEF Begin, CallShape
<1>9. got[c] = NothingGot
  BY <1>8, DocInvFacts DEF DocCallOk, KeptDoc, Ended
<1>10. DocCallOk(c)'
  BY <1>3, <1>6, <1>8, <1>9 DEF DocCallOk
<1> QED
  BY <1>1, <1>5, <1>6, <1>7, <1>10, DocQuietStep

\* A gate without a document, that shows nothing.
LEMMA DocPlainGate ==
  ASSUME DocInv, NEW c \in Slots, pc[c] \in DocLabels, DocGate(c, NothingGot, {}), UNCHANGED typeCatalogue,
         req[c].op.tool \notin Updates, req[c].op.tool \in StreamOnly => req[c].op.id \notin NonEditable
  PROVE  DocInv'
<1>1. typeCatalogue' \in (SUBSET InputTypes) \union {NoCatalogue} /\ CatalogueKnown'
  BY DocInvFacts DEF DocWorldTypes, CatalogueKnown, DocGate
<1>2. pc'[c] = "write" /\ got'[c] = NothingGot /\ req'[c] = req[c] => DocCallOk(c)'
  BY DEF DocCallOk
<1> QED
  BY <1>1, <1>2, DocGateKeeps

LEMMA GetStreamKeeps ==
  ASSUME DocInv, NEW c \in Slots, GetStream(c) PROVE DocInv'
<1>0. pc[c] = "get_stream" /\ pc[c] \in DocLabels /\ req[c].op.tool \in StreamOnly /\ got[c] = NothingGot
  BY DocInvFacts DEF GetStream, DocLabels, DocCallOk, KeptDoc
<1>1. CASE DocReturns(c, "refused")
  BY <1>1, DocReturnsKeeps DEF Ended
<1>2. CASE /\ ~Immutable(req[c].op.id) /\ req[c].op.tool = "update_stream_rule"
           /\ Continue(c, "get_stream_rule", NothingGot) /\ DocsUnchanged
  <2>1. "get_stream_rule" \in DocLabels
    BY DEF DocLabels
  <2>2. /\ DocCalls' /\ Echoed' /\ OthersStand(c)
        /\ pc'[c] = "get_stream_rule" /\ got'[c] = NothingGot /\ req'[c] = req[c]
    BY <1>0, <1>2, <2>1, DocContinueFacts
  <2>3. DocCallOk(c)'
    BY <1>2, <2>2 DEF DocCallOk, Immutable
  <2> QED
    BY <1>2, <2>2, <2>3, DocQuietStep
<1>3. CASE /\ ~Immutable(req[c].op.id) /\ req[c].op.tool # "update_stream_rule"
           /\ DocGate(c, NothingGot, {}) /\ UNCHANGED typeCatalogue
  <2>1. req[c].op.tool \notin Updates
    BY <1>0, <1>3 DEF StreamOnly, StreamTools, RuleDocTools, Updates
  <2> QED
    BY <1>0, <1>3, <2>1, DocPlainGate DEF Immutable
<1> QED
  BY <1>1, <1>2, <1>3 DEF GetStream

LEMMA UpdateFacts ==
  ASSUME DocInv, NEW c \in Slots, pc[c] \in DocLabels
  PROVE  /\ req[c].op \in DocOps
         /\ req[c].op.tool = "update_stream_rule" => req[c].op.id \in StreamIds
         /\ req[c].op.tool \in {"update_input", "update_extractor"} => req[c].op.id \in InputIds
         /\ req[c].op.tool \in StreamOnly => req[c].op.id \in StreamIds
<1>1. req[c].op \in DocOps
  BY DocInvFacts, DocReqFacts
<1> QED
  BY <1>1, DocOpFacts DEF StreamTools, RuleDocTools, StreamOnly

\* The reads whose answer the PUT repeats.
LEMMA GetDocsKeep ==
  ASSUME DocInv, NEW c \in Slots, GetStreamRule(c) \/ GetExtractor(c) PROVE DocInv'
<1>0. pc[c] \in DocLabels
  BY DEF GetStreamRule, GetExtractor, GetDoc, DocLabels
<1>1. UNCHANGED typeCatalogue /\ {} \in SUBSET [type : InputTypes, value : Secrets]
  BY DEF GetStreamRule, GetExtractor, GetDoc
<1>2. encrypted' = encrypted /\ UNCHANGED docServer
  BY DEF GetStreamRule, GetExtractor, GetDoc, DocGate
<1>3. typeCatalogue' \in (SUBSET InputTypes) \union {NoCatalogue} /\ CatalogueKnown'
  BY <1>1, <1>2, DocInvFacts DEF DocWorldTypes, CatalogueKnown
<1>4. CASE GetStreamRule(c)
  <2> DEFINE doc == streamRules[req[c].op.id]
  <2>1. pc[c] = "get_stream_rule" /\ doc # NoDoc /\ DocGate(c, doc, {})
        /\ req[c].op.tool = "update_stream_rule" /\ req[c].op.id \notin NonEditable
    BY <1>4, DocInvFacts DEF GetStreamRule, GetDoc, DocCallOk
  <2>2. doc \in RuleDoc
    BY <1>0, <2>1, UpdateFacts, DocInvFacts DEF DocServerTypes
  <2>3. doc \in DocRead /\ doc # NothingGot
    BY <2>2, DocNothingsAssumption DEF DocRead
  <2>4. ASSUME pc'[c] = "write", got'[c] = doc, req'[c] = req[c] PROVE DocCallOk(c)'
    <3>1. streamRules' = streamRules
      BY <1>2 DEF docServer
    <3>2. LikeDoc(got'[c], streamRules'[req'[c].op.id], {"type", "value"}, docDrift'[c])
      BY <2>1, <2>4, <3>1 DEF LikeDoc
    <3>3. KeptDoc(c)'
      BY <2>1, <2>2, <2>4, <3>2 DEF KeptDoc, Updates
    <3> QED
      BY <2>1, <2>3, <2>4, <3>3 DEF DocCallOk
  <2> HIDE DEF doc
  <2> QED
    BY <1>0, <1>1, <1>3, <2>1, <2>3, <2>4, DocGateKeeps
<1>5. CASE GetExtractor(c)
  <2> DEFINE doc == extractors[req[c].op.id]
  <2>1. pc[c] = "get_extractor" /\ doc # NoDoc /\ DocGate(c, doc, {}) /\ req[c].op.tool = "update_extractor"
    BY <1>5, DocInvFacts DEF GetExtractor, GetDoc, DocCallOk
  <2>2. doc \in ExtractorDoc
    BY <1>0, <2>1, UpdateFacts, DocInvFacts DEF DocServerTypes
  <2>3. doc \in DocRead /\ doc # NothingGot
    BY <2>2, DocNothingsAssumption DEF DocRead
  <2>4. ASSUME pc'[c] = "write", got'[c] = doc, req'[c] = req[c] PROVE DocCallOk(c)'
    <3>1. extractors' = extractors
      BY <1>2 DEF docServer
    <3>2. LikeDoc(got'[c], extractors'[req'[c].op.id], {"type", "title", "order"}, docDrift'[c])
      BY <2>1, <2>4, <3>1 DEF LikeDoc
    <3>3. KeptDoc(c)'
      BY <2>1, <2>2, <2>4, <3>2 DEF KeptDoc, Updates
    <3>4. "update_extractor" \notin StreamOnly
      BY DEF StreamOnly, StreamTools, RuleDocTools
    <3> QED
      BY <2>1, <2>3, <2>4, <3>3, <3>4 DEF DocCallOk
  <2> HIDE DEF doc
  <2> QED
    BY <1>0, <1>1, <1>3, <2>1, <2>3, <2>4, DocGateKeeps
<1> QED
  BY <1>4, <1>5

LEMMA GetInputKeeps ==
  ASSUME DocInv, NEW c \in Slots, GetInput(c) PROVE DocInv'
<1> DEFINE doc == inputs[req[c].op.id]
<1>0. /\ pc[c] = "get_input" /\ pc[c] \in DocLabels /\ doc # NoDoc /\ Continue(c, "types", doc) /\ DocsUnchanged
      /\ req[c].op.tool = "update_input" /\ "types" \in DocLabels
  BY DocInvFacts DEF GetInput, DocCallOk, DocLabels
<1>1. doc \in InputDoc
  BY <1>0, UpdateFacts, DocInvFacts DEF DocServerTypes
<1>2. doc \in DocRead /\ doc # NothingGot
  BY <1>1, DocNothingsAssumption DEF DocRead
<1>3. /\ DocCalls' /\ Echoed' /\ OthersStand(c)
      /\ pc'[c] = "types" /\ got'[c] = doc /\ req'[c] = req[c]
  BY <1>0, <1>2, DocContinueFacts
<1>4. KeptDoc(c)'
  <2>1. inputs' = inputs
    BY <1>0 DEF DocsUnchanged, docWorld
  <2>2. LikeDoc(got'[c], inputs'[req'[c].op.id], {"type", "title"}, docDrift'[c])
    BY <1>0, <1>3, <2>1 DEF LikeDoc
  <2> QED
    BY <1>0, <1>1, <1>3, <2>2 DEF KeptDoc, Updates
<1>5. DocCallOk(c)'
  BY <1>0, <1>2, <1>3, <1>4 DEF DocCallOk
<1> QED
  BY <1>0, <1>3, <1>5, DocQuietStep

\* A preview shows values of the type that the call's input has.
LEMMA RevealsType ==
  ASSUME DocInv, NEW c \in Slots, pc[c] \in {"types", "list"}, NEW known
  PROVE  Reveals(c, known) \in SUBSET [type : InputTypes, value : Secrets]
<1>0. req[c].op \in DocOps /\ DocCallOk(c)
  BY DocInvFacts, DocReqFacts DEF DocLabels
<1>1. ASSUME req[c].op.config # {} PROVE TypeOf(c) \in InputTypes
  <2>1. CASE req[c].op.tool = "create_input"
    BY <1>0, <2>1, DocOpFacts DEF TypeOf
  <2>2. CASE req[c].op.tool = "update_input"
    <3>1. got[c] \in InputDoc
      BY <1>0, <2>2 DEF DocCallOk, KeptDoc
    <3> QED
      BY <2>2, <3>1 DEF TypeOf, InputDoc
  <2> QED
    BY <1>0, <1>1, <2>1, <2>2, DocOpFacts
<1>2. ASSUME NEW g \in req[c].op.config, NEW enc PROVE Shown(g, enc) \subseteq Secrets
  BY <1>0, <1>2, DocOpFacts DEF Shown, Given
<1>3. ASSUME NEW g \in req[c].op.config
      PROVE  {[type |-> TypeOf(c), value |-> v] : v \in Shown(g, TypeOf(c) \in known)}
               \subseteq [type : InputTypes, value : Secrets]
  BY <1>1, <1>2, <1>3
<1> QED
  BY <1>3 DEF Reveals

LEMMA TypesKeeps ==
  ASSUME DocInv, NEW c \in Slots, Types(c) PROVE DocInv'
<1>0. /\ pc[c] = "types" /\ pc[c] \in DocLabels /\ "list" \in DocLabels /\ typeCatalogue' = KnownTypes
      /\ DocCallOk(c) /\ DocWorldTypes
  BY DocInvFacts DEF Types, DocLabels
<1>1. ASSUME encrypted' = encrypted
      PROVE  typeCatalogue' \in (SUBSET InputTypes) \union {NoCatalogue} /\ CatalogueKnown'
  BY <1>0, <1>1, DocInvFacts DEF KnownTypes, CatalogueKnown, DocWorldTypes
<1>2. CASE /\ req[c].op.tool = "create_input" /\ Continue(c, "list", NothingGot)
           /\ UNCHANGED <<docServer, encrypted, seen, docDrift, docEdits>>
  <2>1. /\ DocCalls' /\ Echoed' /\ OthersStand(c)
        /\ pc'[c] = "list" /\ got'[c] = NothingGot /\ req'[c] = req[c]
    BY <1>0, <1>2, DocContinueFacts
  <2>2. DocCallOk(c)'
    BY <1>2, <2>1 DEF DocCallOk
  <2>3. DocWorldTypes' /\ CatalogueKnown'
    BY <1>0, <1>1, <1>2 DEF docServer, DocWorldTypes, DocServerTypes
  <2>4. \A d \in Slots \ {c} : DocWorldKept(d)
    BY <1>2 DEF docServer, DocWorldKept
  <2> QED
    BY <2>1, <2>2, <2>3, <2>4, DocCallStep
<1>3. CASE req[c].op.tool = "update_input" /\ DocGate(c, got[c], Reveals(c, KnownTypes))
  <2>1. got[c] # NothingGot /\ KeptDoc(c) /\ got[c] \in InputDoc
    BY <1>0, <1>3 DEF DocCallOk, KeptDoc
  <2>2. got[c] \in DocRead \union {NothingGot}
    BY <2>1 DEF DocRead
  <2>3. encrypted' = encrypted /\ inputs' = inputs
    BY <1>3 DEF DocGate, docServer
  <2>4. ASSUME pc'[c] = "write", got'[c] = got[c], req'[c] = req[c], docDrift' = docDrift
        PROVE  DocCallOk(c)'
    <3>1. KeptDoc(c)'
      BY <1>3, <2>1, <2>3, <2>4 DEF KeptDoc
    <3>2. "update_input" \notin StreamOnly
      BY DEF StreamOnly, StreamTools, RuleDocTools
    <3> QED
      BY <1>3, <2>1, <2>4, <3>1, <3>2 DEF DocCallOk
  <2>5. Reveals(c, KnownTypes) \in SUBSET [type : InputTypes, value : Secrets]
    BY <1>0, RevealsType
  <2> DEFINE shows == Reveals(c, KnownTypes)
  <2> HIDE DEF shows
  <2>6. DocGate(c, got[c], shows) /\ shows \in SUBSET [type : InputTypes, value : Secrets]
    BY <1>3, <2>5 DEF shows
  <2> QED
    BY <1>0, <1>1, <2>2, <2>3, <2>4, <2>6, DocGateKeeps
<1>4. CASE /\ Finish(c, "refused") /\ docDrift' = [docDrift EXCEPT ![c] = {}]
           /\ UNCHANGED <<docServer, encrypted, seen, docEdits>>
  <2>1. DocCalls' /\ Echoed' /\ OthersStand(c) /\ DocCallOk(c)'
    BY <1>4, DocFinishFacts DEF Ended
  <2>2. DocWorldTypes' /\ CatalogueKnown'
    BY <1>0, <1>1, <1>4 DEF docServer, DocWorldTypes, DocServerTypes
  <2>3. \A d \in Slots \ {c} : DocWorldKept(d)
    BY <1>0, <1>4 DEF docServer, DocWorldKept, DocWorldTypes
  <2> QED
    BY <2>1, <2>2, <2>3, DocCallStep
<1> QED
  BY <1>2, <1>3, <1>4 DEF Types

LEMMA ListKeeps ==
  ASSUME DocInv, NEW c \in Slots, List(c) PROVE DocInv'
<1>0. /\ pc[c] = "list" /\ pc[c] \in DocLabels /\ DocWorldTypes /\ CatalogueKnown
      /\ req[c].op.tool \in {"create_stream", "create_extractor", "create_input"}
  BY DocInvFacts DEF List, DocLabels, DocCallOk
<1>1. CASE DocReturns(c, "refused")
  BY <1>1, DocReturnsKeeps DEF Ended
<1>2. CASE DocGate(c, NothingGot, Reveals(c, typeCatalogue)) /\ UNCHANGED typeCatalogue
  <2> DEFINE shows == Reveals(c, typeCatalogue)
  <2>1. shows \in SUBSET [type : InputTypes, value : Secrets] /\ DocGate(c, NothingGot, shows)
    BY <1>0, <1>2, RevealsType
  <2> HIDE DEF shows
  <2>2. typeCatalogue' \in (SUBSET InputTypes) \union {NoCatalogue} /\ CatalogueKnown'
    BY <1>0, <1>2 DEF DocWorldTypes, CatalogueKnown, DocGate
  <2>3. req[c].op.tool \notin Updates \union StreamOnly
    BY <1>0 DEF Updates, StreamOnly, StreamTools, RuleDocTools
  <2>4. pc'[c] = "write" /\ got'[c] = NothingGot /\ req'[c] = req[c] => DocCallOk(c)'
    BY <2>3 DEF DocCallOk
  <2> QED
    BY <1>0, <2>1, <2>2, <2>4, DocGateKeeps
<1> QED
  BY <1>1, <1>2 DEF List

\* The calls of build() that decide nothing, and those whose reads fail.
LEMMA PlainBuildKeeps ==
  ASSUME DocInv, NEW c \in Slots, ListExtractors(c) \/ Build(c) \/ DocReadFails(c) PROVE DocInv'
<1>1. CASE ListExtractors(c) \/ Build(c)
  <2>1. /\ pc[c] \in DocLabels /\ DocGate(c, NothingGot, {}) /\ UNCHANGED typeCatalogue
        /\ req[c].op.tool \in {"delete_input", "start_input", "stop_input", "delete_extractor"}
    BY <1>1, DocInvFacts DEF ListExtractors, Build, DocLabels, DocCallOk
  <2>2. req[c].op.tool \notin Updates \union StreamOnly
    BY <2>1 DEF Updates, StreamOnly, StreamTools, RuleDocTools
  <2> QED
    BY <2>1, <2>2, DocPlainGate
<1>2. CASE DocReadFails(c)
  BY <1>2, DocReturnsKeeps DEF DocReadFails, Ended
<1> QED
  BY <1>1, <1>2

LEMMA DocsDriftType ==
  ASSUME DocInv, NEW rs, NEW is, NEW es PROVE DocsDrift(rs, is, es) \in [Slots -> SUBSET DocFields]
<1>1. ASSUME NEW d \in Slots, got[d] # NothingGot
      PROVE  (CASE req[d].op.tool = "update_stream_rule" ->
                       Differ(rs[req[d].op.id], streamRules[req[d].op.id], {"type", "value"})
                [] req[d].op.tool = "update_input"       ->
                       Differ(is[req[d].op.id], inputs[req[d].op.id], {"type", "title"})
                [] req[d].op.tool = "update_extractor"   ->
                       Differ(es[req[d].op.id], extractors[req[d].op.id], {"type", "title", "order"}))
               \subseteq DocFields
  <2>1. req[d].op.tool \in Updates
    BY <1>1, DocInvFacts DEF DocCallOk, KeptDoc
  <2>2. \A a, b, fs : Differ(a, b, fs) \subseteq fs
    BY DEF Differ
  <2> QED
    BY <2>1, <2>2 DEF Updates, DocFields
<1>2. \A d \in Slots : docDrift[d] \subseteq DocFields
  BY DocInvFacts DEF DocWorldTypes
<1> QED
  BY <1>1, <1>2 DEF DocsDrift

\* The server's documents after a write.
DocsTyped(ss, rs, is, es) ==
  /\ ss \in [StreamIds -> StreamDoc \union {NoDoc}] /\ rs \in [StreamIds -> RuleDoc \union {NoDoc}]
  /\ is \in [InputIds -> InputDoc \union {NoDoc}] /\ es \in [InputIds -> ExtractorDoc \union {NoDoc}]
LEMMA DocsBecomeKeeps ==
  ASSUME DocInv, NEW c \in Slots, NEW ss, NEW rs, NEW is, NEW es,
         DocsTyped(ss, rs, is, es), DocsBecome(c, ss, rs, is, es)
  PROVE  DocInv'
<1>1. PICK how \in {"done", "failed"} : Finish(c, how)
  BY DEF DocsBecome
<1>2. DocCalls' /\ Echoed' /\ OthersStand(c) /\ DocCallOk(c)'
  BY <1>1, DocFinishFacts DEF Ended
<1>3. DocsDrift(rs, is, es) \in [Slots -> SUBSET DocFields]
  BY DocsDriftType
<1>4. DocWorldTypes' /\ CatalogueKnown'
  BY <1>3, DocInvFacts DEF DocsBecome, DocsTyped, DocWorldTypes, DocServerTypes, CatalogueKnown
<1>5. ASSUME NEW d \in Slots \ {c} PROVE DocWorldKept(d)
  <2>1. streamRules' = rs /\ inputs' = is /\ extractors' = es
    BY DEF DocsBecome
  <2>2. docDrift'[d] = DocsDrift(rs, is, es)[d]
    BY <1>3 DEF DocsBecome
  <2> QED
    BY <2>1, <2>2 DEF DocWorldKept
<1> QED
  BY <1>2, <1>4, <1>5, DocCallStep

\* What is known of a call at its write.
LEMMA DocWriteFacts ==
  ASSUME DocInv, NEW c \in Slots, pc[c] = "write"
  PROVE  /\ DocServerTypes /\ req[c].op \in DocOps /\ req[c].op.title \in SUBSET DocTitles
         /\ req[c].op.value \in SUBSET Values /\ req[c].op.config \in SUBSET Given
         /\ req[c].op.tool \in StreamTools \union RuleDocTools => req[c].op.id \in StreamIds
         /\ req[c].op.tool \in InputTools \union ExtractorTools => req[c].op.id \in InputIds
         /\ req[c].op.tool \in StreamOnly => req[c].op.id \notin NonEditable
         /\ req[c].op.tool \in Updates => KeptDoc(c)
         /\ req[c].op.config # {} => req[c].op.tool \in {"create_input", "update_input"}
<1>1. req[c].op \in DocOps /\ DocCallOk(c) /\ DocServerTypes
  BY DocInvFacts, DocReqFacts DEF DocLabels
<1>2. req[c].op.tool \in InputTools \union ExtractorTools =>
        req[c].op.tool \notin StreamTools \union RuleDocTools
  BY DEF InputTools, ExtractorTools, StreamTools, RuleDocTools
<1>3. req[c].op.tool \in StreamTools \union RuleDocTools => req[c].op.id \in StreamIds
  BY <1>1, DocOpFacts
<1>4. req[c].op.tool \in InputTools \union ExtractorTools => req[c].op.id \in InputIds
  BY <1>1, <1>2, DocOpFacts
<1> QED
  BY <1>1, <1>3, <1>4, DocOpFacts DEF DocCallOk

\* The creations and what they are asked for with.
LEMMA CreationFacts ==
  ASSUME NEW op \in DocOps
  PROVE  /\ op.tool \in {"create_stream", "create_input", "create_extractor"} => TheOne(op.title) \in DocTitles
         /\ op.tool \in {"create_stream_rule", "create_extractor"} => TheOne(op.value) \in Values
         /\ op.tool = "create_stream_rule" => TheOne(op.type) \in RuleTypes
         /\ op.tool = "create_extractor" => TheOne(op.type) \in ExtractorTypes
<1>1. op.title \subseteq DocTitles /\ op.value \subseteq Values
  BY DocOpFacts
<1>2. /\ op.tool \in {"create_stream", "create_input", "create_extractor"} => op.title # {}
      /\ op.tool \in {"create_stream_rule", "create_extractor"} => op.value # {}
  BY DocOpsAssumption
<1>3. /\ op.tool = "create_stream_rule" => op.type # {} /\ op.type \subseteq RuleTypes
      /\ op.tool = "create_extractor"   => op.type # {} /\ op.type \subseteq ExtractorTypes
  BY DocOpsAssumption
<1> QED
  BY <1>1, <1>2, <1>3, TheOneType

LEMMA WriteStreamKeeps ==
  ASSUME DocInv, NEW c \in Slots, WriteStream(c) PROVE DocInv'
<1> DEFINE op == req[c].op
           s == op.id
           new == NewStream(op, s)
<1>1. /\ pc[c] = "write" /\ op.tool \in StreamTools /\ (streams[s] = NoDoc) = (op.tool = "create_stream")
      /\ DocsBecome(c, [streams EXCEPT ![s] = new], streamRules, inputs, extractors)
  BY DEF WriteStream
<1>2. DocServerTypes /\ op \in DocOps /\ op.title \in SUBSET DocTitles /\ s \in StreamIds
  BY <1>1, DocWriteFacts
<1>3. new \in StreamDoc
  <2>1. CASE op.tool = "create_stream"
    BY <1>2, <2>1, CreationFacts DEF NewStream, StreamDoc
  <2>2. CASE op.tool # "create_stream"
    <3>1. streams[s] \in StreamDoc
      BY <1>1, <1>2, <2>2 DEF DocServerTypes
    <3>2. /\ streams[s].title \in DocTitles /\ streams[s].disabled \in BOOLEAN
          /\ Or(op.title, streams[s].title) \in DocTitles
      BY <1>2, <3>1, OrType DEF StreamDoc
    <3>3. op.tool \in {"update_stream", "pause_stream", "start_stream"}
      BY <1>1, <2>2 DEF StreamTools
    <3> QED
      BY <3>2, <3>3 DEF NewStream, StreamDoc
  <2> QED
    BY <2>1, <2>2
<1> HIDE DEF new
<1>4. DocsTyped([streams EXCEPT ![s] = new], streamRules, inputs, extractors)
  BY <1>2, <1>3 DEF DocsTyped, DocServerTypes
<1> QED
  BY <1>1, <1>4, DocsBecomeKeeps

LEMMA WriteStreamRuleKeeps ==
  ASSUME DocInv, NEW c \in Slots, WriteStreamRule(c) PROVE DocInv'
<1> DEFINE op == req[c].op
           s == op.id
<1>1. /\ pc[c] = "write" /\ op.tool \in RuleDocTools /\ streams[s] # NoDoc
      /\ (streamRules[s] = NoDoc) = (op.tool = "create_stream_rule")
  BY DEF WriteStreamRule
<1>2. PICK r \in CASE op.tool = "create_stream_rule" -> {[type |-> TheOne(op.type), value |-> TheOne(op.value)]}
                   [] op.tool = "update_stream_rule" -> {[type  |-> got[c].type,
                                                          value |-> Or(op.value, streamRules[s].value)]}
                   [] op.tool = "delete_stream_rule" -> {NoDoc} :
        DocsBecome(c, streams, [streamRules EXCEPT ![s] = r], inputs, extractors)
  BY DEF WriteStreamRule
<1>3. DocServerTypes /\ op \in DocOps /\ op.value \in SUBSET Values /\ s \in StreamIds
  BY <1>1, DocWriteFacts
<1>4. r \in RuleDoc \union {NoDoc}
  <2>1. CASE op.tool = "create_stream_rule"
    BY <1>2, <1>3, <2>1, CreationFacts DEF RuleDoc
  <2>2. CASE op.tool = "update_stream_rule"
    <3>1. streamRules[s] \in RuleDoc
      BY <1>1, <1>3, <2>2 DEF DocServerTypes
    <3>2. got[c] \in RuleDoc
      BY <1>1, <2>2, DocWriteFacts DEF KeptDoc, Updates
    <3>3. Or(op.value, streamRules[s].value) \in Values /\ got[c].type \in RuleTypes
      BY <1>3, <3>1, <3>2, OrType DEF RuleDoc
    <3> QED
      BY <1>2, <2>2, <3>3 DEF RuleDoc
  <2>3. CASE op.tool = "delete_stream_rule"
    BY <1>2, <2>3
  <2> QED
    BY <1>1, <2>1, <2>2, <2>3 DEF RuleDocTools
<1>5. DocsTyped(streams, [streamRules EXCEPT ![s] = r], inputs, extractors)
  BY <1>3, <1>4 DEF DocsTyped, DocServerTypes
<1> QED
  BY <1>2, <1>5, DocsBecomeKeeps

LEMMA SecretAfterType ==
  ASSUME DocInv, NEW c \in Slots, pc[c] = "write", NEW current \in Stored
  PROVE  SecretAfter(c, current) \subseteq Stored
<1>1. req[c].op.config \subseteq Given
  BY DocWriteFacts
<1> DEFINE wire == UNION {EncodeForWire(h, TypeOf(c) \in typeCatalogue) : h \in req[c].op.config}
           enc == TypeOf(c) \in encrypted
<1>2. wire \subseteq Given
  <2> DEFINE known == TypeOf(c) \in typeCatalogue
  <2>1. known \in BOOLEAN
    OBVIOUS
  <2> HIDE DEF known
  <2>2. ASSUME NEW h \in req[c].op.config PROVE EncodeForWire(h, known) \subseteq Given
    BY <1>1, <2>1, EncodedType
  <2>3. wire = UNION {EncodeForWire(h, known) : h \in req[c].op.config}
    BY DEF known
  <2> QED
    BY <2>2, <2>3
<1>3. enc \in BOOLEAN
  OBVIOUS
<1>4. SecretAfter(c, current) = IF req[c].op.config = {} THEN {current}
                                ELSE UNION {Accepted(g, enc, current) : g \in wire}
  BY DEF SecretAfter
<1> HIDE DEF wire, enc
<1>5. ASSUME NEW g \in wire PROVE Accepted(g, enc, current) \subseteq Stored
  BY <1>2, <1>3, <1>5, AcceptedType
<1> QED
  BY <1>4, <1>5

LEMMA WriteInputKeeps ==
  ASSUME DocInv, NEW c \in Slots, WriteInput(c) PROVE DocInv'
<1> DEFINE op == req[c].op
           i == op.id
<1>1. pc[c] = "write" /\ op.tool \in InputTools /\ (inputs[i] = NoDoc) = (op.tool = "create_input")
  BY DEF WriteInput
<1>2. PICK d \in CASE op.tool = "create_input" ->
                        {[type |-> TypeOf(c), title |-> TheOne(op.title), secret |-> x, running |-> TRUE] :
                         x \in SecretAfter(c, NoSecret)}
                   [] op.tool = "update_input" -> {InputPut(c, i, x) : x \in SecretAfter(c, inputs[i].secret)}
                   [] op.tool \in {"start_input", "stop_input"} ->
                        {[inputs[i] EXCEPT !.running = (op.tool = "start_input")]}
                   [] op.tool = "delete_input" -> {NoDoc} :
        DocsBecome(c, streams, streamRules, [inputs EXCEPT ![i] = d],
                   IF d = NoDoc THEN [extractors EXCEPT ![i] = NoDoc] ELSE extractors)
  BY DEF WriteInput
<1>3. DocServerTypes /\ op \in DocOps /\ op.title \in SUBSET DocTitles /\ i \in InputIds
  BY <1>1, DocWriteFacts
<1>4. op.tool # "create_input" => inputs[i] \in InputDoc
  BY <1>1, <1>3 DEF DocServerTypes
<1>5. d \in InputDoc \union {NoDoc}
  <2>1. CASE op.tool = "create_input"
    <3>1. SecretAfter(c, NoSecret) \subseteq Stored
      BY <1>1, SecretAfterType DEF Stored
    <3>2. TypeOf(c) \in InputTypes /\ TheOne(op.title) \in DocTitles
      BY <1>3, <2>1, DocOpFacts, CreationFacts DEF TypeOf
    <3>3. PICK x \in Stored :
            d = [type |-> TypeOf(c), title |-> TheOne(op.title), secret |-> x, running |-> TRUE]
      BY <1>2, <2>1, <3>1
    <3> QED
      BY <3>2, <3>3 DEF InputDoc
  <2>2. CASE op.tool = "update_input"
    <3>1. got[c] \in InputDoc
      BY <1>1, <2>2, DocWriteFacts DEF KeptDoc, Updates
    <3>2. inputs[i].secret \in Stored /\ inputs[i].running \in BOOLEAN
      BY <1>4, <2>2 DEF InputDoc
    <3>3. SecretAfter(c, inputs[i].secret) \subseteq Stored
      BY <1>1, <3>2, SecretAfterType
    <3>4. got[c].type \in InputTypes /\ Or(op.title, got[c].title) \in DocTitles
      BY <1>3, <3>1, OrType DEF InputDoc
    <3>5. PICK x \in Stored : d = InputPut(c, i, x)
      BY <1>2, <2>2, <3>3
    <3> QED
      BY <3>2, <3>4, <3>5 DEF InputPut, InputDoc
  <2>3. CASE op.tool \in {"start_input", "stop_input"}
    <3>1. d = [inputs[i] EXCEPT !.running = (op.tool = "start_input")]
      BY <1>2, <2>3
    <3> DEFINE on == op.tool = "start_input"
    <3>2. on \in BOOLEAN
      OBVIOUS
    <3>3. d = [inputs[i] EXCEPT !.running = on]
      BY <3>1
    <3> HIDE DEF on
    <3>4. inputs[i] \in InputDoc
      BY <1>4, <2>3
    <3> QED
      BY <3>2, <3>3, <3>4 DEF InputDoc
  <2>4. CASE op.tool = "delete_input"
    BY <1>2, <2>4
  <2> QED
    BY <1>1, <2>1, <2>2, <2>3, <2>4 DEF InputTools
<1> DEFINE es == IF d = NoDoc THEN [extractors EXCEPT ![i] = NoDoc] ELSE extractors
<1>6. es \in [InputIds -> ExtractorDoc \union {NoDoc}]
  BY <1>3 DEF DocServerTypes
<1>7. [inputs EXCEPT ![i] = d] \in [InputIds -> InputDoc \union {NoDoc}]
  BY <1>3, <1>5 DEF DocServerTypes
<1>8. DocsBecome(c, streams, streamRules, [inputs EXCEPT ![i] = d], es)
  BY <1>2
<1> HIDE DEF es
<1>9. DocsTyped(streams, streamRules, [inputs EXCEPT ![i] = d], es)
  BY <1>3, <1>6, <1>7 DEF DocsTyped, DocServerTypes
<1> QED
  BY <1>8, <1>9, DocsBecomeKeeps

LEMMA WriteExtractorKeeps ==
  ASSUME DocInv, NEW c \in Slots, WriteExtractor(c) PROVE DocInv'
<1> DEFINE op == req[c].op
           i == op.id
<1>1. /\ pc[c] = "write" /\ op.tool \in ExtractorTools
      /\ (extractors[i] = NoDoc) = (op.tool = "create_extractor")
  BY DEF WriteExtractor
<1>2. PICK x \in CASE op.tool = "create_extractor" ->
                        {[type |-> TheOne(op.type), title |-> TheOne(op.title), order |-> TheOne(op.value)]}
                   [] op.tool = "update_extractor" -> {ExtractorPut(op, got[c])}
                   [] op.tool = "delete_extractor" -> {NoDoc} :
        DocsBecome(c, streams, streamRules, inputs, [extractors EXCEPT ![i] = x])
  BY DEF WriteExtractor
<1>3. /\ DocServerTypes /\ op \in DocOps /\ op.title \in SUBSET DocTitles /\ op.value \in SUBSET Values
      /\ i \in InputIds
  BY <1>1, DocWriteFacts
<1>4. x \in ExtractorDoc \union {NoDoc}
  <2>1. CASE op.tool = "create_extractor"
    BY <1>2, <1>3, <2>1, CreationFacts DEF ExtractorDoc
  <2>2. CASE op.tool = "update_extractor"
    <3>1. got[c] \in ExtractorDoc
      BY <1>1, <2>2, DocWriteFacts DEF KeptDoc, Updates
    <3>2. /\ got[c].type \in ExtractorTypes /\ Or(op.title, got[c].title) \in DocTitles
          /\ Or(op.value, got[c].order) \in Values
      BY <1>3, <3>1, OrType DEF ExtractorDoc
    <3> QED
      BY <1>2, <2>2, <3>2 DEF ExtractorPut, ExtractorDoc
  <2>3. CASE op.tool = "delete_extractor"
    BY <1>2, <2>3
  <2> QED
    BY <1>1, <2>1, <2>2, <2>3 DEF ExtractorTools
<1>5. DocsTyped(streams, streamRules, inputs, [extractors EXCEPT ![i] = x])
  BY <1>3, <1>4 DEF DocsTyped, DocServerTypes
<1> QED
  BY <1>2, <1>5, DocsBecomeKeeps

\* A step of the server alone.
LEMMA DocServerStep ==
  ASSUME DocInv, UNCHANGED callVars, DocWorldTypes', CatalogueKnown', \A d \in Slots : DocWorldKept(d)
  PROVE  DocInv'
<1>1. \A d \in Slots : DocCallOk(d)'
  BY DocStandingCall DEF callVars
<1>2. DocCalls'
  BY DocInvFacts DEF DocCalls, CallsTypeOK, callVars
<1>3. Echoed'
  BY DocInvFacts, EchoedUnmoved
<1> QED
  BY <1>1, <1>2, <1>3, DocTypeParts DEF DocInv

LEMMA EditDocsKeeps ==
  ASSUME DocInv, EditDocs PROVE DocInv'
<1>0. DocWorldTypes /\ DocServerTypes /\ CatalogueKnown
  BY DocInvFacts
<1>1. DocServerTypes'
  <2>1. CASE /\ \E s \in StreamIds, t \in RuleTypes :
                  streamRules[s] # NoDoc /\ streamRules[s].type # t /\ streamRules' = [streamRules EXCEPT ![s].type = t]
             /\ UNCHANGED <<streams, inputs, extractors>>
    <3>1. PICK s \in StreamIds, t \in RuleTypes :
            streamRules[s] # NoDoc /\ streamRules' = [streamRules EXCEPT ![s].type = t]
      BY <2>1
    <3>2. streamRules[s] \in RuleDoc
      BY <1>0, <3>1 DEF DocServerTypes
    <3>3. [streamRules[s] EXCEPT !.type = t] \in RuleDoc
      BY <3>2 DEF RuleDoc
    <3> QED
      BY <1>0, <2>1, <3>1, <3>3 DEF DocServerTypes
  <2>2. CASE /\ \E i \in InputIds, t \in DocTitles :
                  inputs[i] # NoDoc /\ inputs[i].title # t /\ inputs' = [inputs EXCEPT ![i].title = t]
             /\ UNCHANGED <<streams, streamRules, extractors>>
    <3>1. PICK i \in InputIds, t \in DocTitles :
            inputs[i] # NoDoc /\ inputs' = [inputs EXCEPT ![i].title = t]
      BY <2>2
    <3>2. inputs[i] \in InputDoc
      BY <1>0, <3>1 DEF DocServerTypes
    <3>3. [inputs[i] EXCEPT !.title = t] \in InputDoc
      BY <3>2 DEF InputDoc
    <3> QED
      BY <1>0, <2>2, <3>1, <3>3 DEF DocServerTypes
  <2>3. CASE /\ \E i \in InputIds, n \in Values :
                  extractors[i] # NoDoc /\ extractors[i].order # n /\ extractors' = [extractors EXCEPT ![i].order = n]
             /\ UNCHANGED <<streams, streamRules, inputs>>
    <3>1. PICK i \in InputIds, n \in Values :
            extractors[i] # NoDoc /\ extractors' = [extractors EXCEPT ![i].order = n]
      BY <2>3
    <3>2. extractors[i] \in ExtractorDoc
      BY <1>0, <3>1 DEF DocServerTypes
    <3>3. [extractors[i] EXCEPT !.order = n] \in ExtractorDoc
      BY <3>2 DEF ExtractorDoc
    <3> QED
      BY <1>0, <2>3, <3>1, <3>3 DEF DocServerTypes
  <2> QED
    BY <2>1, <2>2, <2>3 DEF EditDocs
<1>2. PICK rs, is, es : rs = streamRules' /\ is = inputs' /\ es = extractors'
  OBVIOUS
<1>3. docDrift' = DocsDrift(rs, is, es)
  BY <1>2 DEF EditDocs
<1>4. docDrift' \in [Slots -> SUBSET DocFields]
  BY <1>3, DocsDriftType
<1>5. docEdits' \in 0..MaxDocEdits
  BY <1>0, DocBoundsAssumption DEF EditDocs, DocWorldTypes
<1>6. DocWorldTypes' /\ CatalogueKnown'
  BY <1>0, <1>1, <1>4, <1>5 DEF EditDocs, DocWorldTypes, CatalogueKnown
<1>7. \A d \in Slots : DocWorldKept(d)
  BY DEF EditDocs, DocWorldKept
<1> QED
  BY <1>6, <1>7, DocServerStep DEF EditDocs

LEMMA EncryptKeeps ==
  ASSUME DocInv, Encrypt PROVE DocInv'
<1>1. PICK t \in InputTypes \ encrypted : encrypted' = encrypted \union {t}
  BY DEF Encrypt
<1>2. DocWorldTypes' /\ CatalogueKnown'
  BY <1>1, DocInvFacts DEF Encrypt, docServer, DocWorldTypes, DocServerTypes, CatalogueKnown
<1>3. \A d \in Slots : DocWorldKept(d)
  BY DEF Encrypt, docServer, DocWorldKept
<1> QED
  BY <1>2, <1>3, DocServerStep DEF Encrypt

LEMMA DocInvNext == DocInv /\ [DocNext]_docVars => DocInv'
<1> SUFFICES ASSUME DocInv, [DocNext]_docVars PROVE DocInv'
  OBVIOUS
<1>1. ASSUME NEW c \in Slots, DocBuild(c) PROVE DocInv'
  BY <1>1, GetStreamKeeps, GetDocsKeep, GetInputKeeps, TypesKeeps, ListKeeps, PlainBuildKeeps DEF DocBuild
<1>2. ASSUME NEW c \in Slots, DocWrite(c) PROVE DocInv'
  <2>1. CASE DocWriteFails(c)
    BY <2>1, DocReturnsKeeps DEF DocWriteFails, Ended
  <2> QED
    BY <1>2, <2>1, WriteStreamKeeps, WriteStreamRuleKeeps, WriteInputKeeps, WriteExtractorKeeps DEF DocWrite
<1>3. CASE \E c \in Slots : DocStep(c)
  BY <1>1, <1>2, <1>3, DocBeginKeeps DEF DocStep
<1>4. CASE UNCHANGED docVars
  <2>1. UNCHANGED callVars /\ UNCHANGED docWorld
    BY <1>4 DEF docVars
  <2>2. DocWorldTypes' /\ CatalogueKnown'
    BY <2>1, DocInvFacts DEF docWorld, DocWorldTypes, DocServerTypes, CatalogueKnown
  <2>3. \A d \in Slots : DocWorldKept(d)
    BY <2>1 DEF docWorld, DocWorldKept
  <2> QED
    BY <2>1, <2>2, <2>3, DocServerStep
<1> QED
  BY <1>3, <1>4, EditDocsKeeps, EncryptKeeps DEF DocNext

-----------------------------------------------------------------------------
(* Streams and inputs: action properties *)

\* The other calls stand still while a call takes its step.
LEMMA DocMoves ==
  ASSUME DocInv, NEW c \in Slots, DocStep(c) PROVE OthersStand(c)
<1>0. CallShape
  BY DocInvFacts
<1>1. ASSUME NEW how, Finish(c, how) PROVE OthersStand(c)
  BY <1>0, <1>1, FinishMoves
<1>2. ASSUME NEW how, DocReturns(c, how) PROVE OthersStand(c)
  BY <1>1, <1>2 DEF DocReturns
<1>3. ASSUME NEW next, NEW g, Continue(c, next, g) PROVE OthersStand(c)
  BY <1>0, <1>3, ContinueMoves
<1>4. ASSUME NEW g, NEW values, DocGate(c, g, values) PROVE OthersStand(c)
  BY <1>0, <1>4, GateMoves DEF DocGate
<1>5. ASSUME NEW ss, NEW rs, NEW is, NEW es, DocsBecome(c, ss, rs, is, es) PROVE OthersStand(c)
  BY <1>1, <1>5 DEF DocsBecome
<1>6. CASE DocBegin(c)
  BY <1>0, <1>6, BeginMoves DEF DocBegin
<1>7. CASE GetStream(c) \/ GetStreamRule(c) \/ GetInput(c) \/ GetExtractor(c)
  BY <1>2, <1>3, <1>4, <1>7 DEF GetStream, GetStreamRule, GetInput, GetExtractor, GetDoc
<1>8. CASE Types(c) \/ List(c)
  BY <1>1, <1>2, <1>3, <1>4, <1>8 DEF Types, List
<1>9. CASE ListExtractors(c) \/ Build(c) \/ DocReadFails(c)
  BY <1>2, <1>4, <1>9 DEF ListExtractors, Build, DocReadFails
<1>10. CASE DocWrite(c)
  <2>1. CASE WriteStream(c)
    BY <1>5, <2>1 DEF WriteStream
  <2>2. CASE WriteStreamRule(c)
    BY <1>5, <2>2 DEF WriteStreamRule
  <2>3. CASE WriteInput(c)
    BY <1>5, <2>3 DEF WriteInput
  <2>4. CASE WriteExtractor(c)
    BY <1>5, <2>4 DEF WriteExtractor
  <2> QED
    BY <1>2, <1>10, <2>1, <2>2, <2>3, <2>4 DEF DocWrite, DocWriteFails
<1> QED
  BY <1>6, <1>7, <1>8, <1>9, <1>10 DEF DocStep, DocBuild

\* A call whose label changes takes the step itself.
LEMMA DocOwnStep ==
  ASSUME DocInv, [DocNext]_docVars, NEW c \in Slots, pc'[c] # pc[c] PROVE DocStep(c)
<1>1. ASSUME NEW d \in Slots \ {c}, DocStep(d) PROVE FALSE
  BY <1>1, DocMoves DEF OthersStand
<1>2. CASE EditDocs \/ Encrypt \/ UNCHANGED docVars
  BY <1>2 DEF EditDocs, Encrypt, docVars, callVars
<1> QED
  BY <1>1, <1>2 DEF DocNext

\* A step that carries a call's write out is one of its four writes.
LEMMA DocWriteSteps ==
  ASSUME DocInv, [DocNext]_docVars, NEW c \in Slots, Written(c)
  PROVE  WriteStream(c) \/ WriteStreamRule(c) \/ WriteInput(c) \/ WriteExtractor(c)
<1>1. DocStep(c) /\ pc[c] = "write" /\ docServer' # docServer
  BY DocOwnStep DEF Written
<1>2. ~DocBegin(c)
  BY <1>1 DEF DocBegin, Begin, Ended
<1>3. ~DocBuild(c)
  BY <1>1 DEF DocBuild, GetStream, GetStreamRule, GetInput, GetExtractor, GetDoc, Types, List,
              ListExtractors, Build, DocReadFails
<1>4. ~DocWriteFails(c)
  BY <1>1 DEF DocWriteFails, DocReturns
<1> QED
  BY <1>1, <1>2, <1>3, <1>4 DEF DocStep, DocWrite

LEMMA StreamWrittenAsNamed ==
  ASSUME DocInv, NEW c \in Slots, WriteStream(c) PROVE WrittenAsNamed(c)
<1> DEFINE op == req[c].op
           new == NewStream(op, op.id)
<1>1. /\ pc[c] = "write" /\ op.tool \in StreamTools /\ (streams[op.id] = NoDoc) = (op.tool = "create_stream")
      /\ DocsBecome(c, [streams EXCEPT ![op.id] = new], streamRules, inputs, extractors)
  BY DEF WriteStream
<1>2. DocServerTypes /\ op.id \in StreamIds
  BY <1>1, DocWriteFacts
<1> HIDE DEF new
<1>3. /\ streams' = [streams EXCEPT ![op.id] = new]
      /\ streamRules' = streamRules /\ inputs' = inputs /\ extractors' = extractors
  BY <1>1 DEF DocsBecome
<1>4. Same(streams, streams', StreamIds \ {op.id})
  BY <1>2, <1>3 DEF DocServerTypes, Same
<1>5. /\ Same(streamRules, streamRules', StreamIds \ {op.id})
      /\ Same(inputs, inputs', InputIds \ {op.id}) /\ Same(extractors, extractors', InputIds \ {op.id})
  BY <1>3 DEF Same
<1>6. op.tool \notin {"update_stream_rule", "update_input", "update_extractor"}
  BY <1>1 DEF StreamTools
<1>7. op.tool \in (StreamTools \ {"create_stream"}) \union RuleDocTools => op.id \notin NonEditable
  BY <1>1, DocWriteFacts DEF StreamOnly
<1> QED
  BY <1>4, <1>5, <1>6, <1>7 DEF WrittenAsNamed

LEMMA RuleWrittenAsNamed ==
  ASSUME DocInv, NEW c \in Slots, WriteStreamRule(c) PROVE WrittenAsNamed(c)
<1> DEFINE op == req[c].op
<1>1. pc[c] = "write" /\ op.tool \in RuleDocTools
  BY DEF WriteStreamRule
<1>2. PICK r \in CASE op.tool = "create_stream_rule" -> {[type |-> TheOne(op.type), value |-> TheOne(op.value)]}
                   [] op.tool = "update_stream_rule" -> {[type  |-> got[c].type,
                                                          value |-> Or(op.value, streamRules[op.id].value)]}
                   [] op.tool = "delete_stream_rule" -> {NoDoc} :
        DocsBecome(c, streams, [streamRules EXCEPT ![op.id] = r], inputs, extractors)
  BY DEF WriteStreamRule
<1>3. DocServerTypes /\ op.id \in StreamIds /\ op.tool \notin {"update_input", "update_extractor"}
  BY <1>1, DocWriteFacts DEF RuleDocTools
<1>4. /\ streamRules' = [streamRules EXCEPT ![op.id] = r]
      /\ streams' = streams /\ inputs' = inputs /\ extractors' = extractors
  BY <1>2 DEF DocsBecome
<1>5. Same(streamRules, streamRules', StreamIds \ {op.id}) /\ streamRules'[op.id] = r
  <2>1. streamRules \in [StreamIds -> RuleDoc \union {NoDoc}] /\ op.id \in StreamIds
    BY <1>3 DEF DocServerTypes
  <2>2. streamRules' = [streamRules EXCEPT ![op.id] = r]
    BY <1>4
  <2> QED
    BY <2>1, <2>2 DEF Same
<1>6. /\ Same(streams, streams', StreamIds \ {op.id})
      /\ Same(inputs, inputs', InputIds \ {op.id}) /\ Same(extractors, extractors', InputIds \ {op.id})
  BY <1>4 DEF Same
<1>7. ASSUME op.tool = "update_stream_rule"
      PROVE  /\ "type" \in docDrift[c] \/ streamRules'[op.id]["type"] = streamRules[op.id]["type"]
             /\ op.value # {} \/ streamRules'[op.id]["value"] = streamRules[op.id]["value"]
  <2>1. r = [type |-> got[c].type, value |-> Or(op.value, streamRules[op.id].value)]
    BY <1>2, <1>7
  <2>2. "type" \in docDrift[c] \/ got[c]["type"] = streamRules[op.id]["type"]
    BY <1>1, <1>7, DocWriteFacts DEF KeptDoc, LikeDoc, Updates
  <2>3. op.value # {} \/ Or(op.value, streamRules[op.id].value) = streamRules[op.id]["value"]
    BY DEF Or
  <2> QED
    BY <1>5, <2>1, <2>2, <2>3
<1>8. op.tool \in (StreamTools \ {"create_stream"}) \union RuleDocTools => op.id \notin NonEditable
  BY <1>1, DocWriteFacts DEF StreamOnly
<1> QED
  BY <1>3, <1>5, <1>6, <1>7, <1>8 DEF WrittenAsNamed

LEMMA InputWrittenAsNamed ==
  ASSUME DocInv, NEW c \in Slots, WriteInput(c) PROVE WrittenAsNamed(c)
<1> DEFINE op == req[c].op
           i == op.id
<1>1. pc[c] = "write" /\ op.tool \in InputTools
  BY DEF WriteInput
<1>2. PICK d \in CASE op.tool = "create_input" ->
                        {[type |-> TypeOf(c), title |-> TheOne(op.title), secret |-> x, running |-> TRUE] :
                         x \in SecretAfter(c, NoSecret)}
                   [] op.tool = "update_input" -> {InputPut(c, i, x) : x \in SecretAfter(c, inputs[i].secret)}
                   [] op.tool \in {"start_input", "stop_input"} ->
                        {[inputs[i] EXCEPT !.running = (op.tool = "start_input")]}
                   [] op.tool = "delete_input" -> {NoDoc} :
        DocsBecome(c, streams, streamRules, [inputs EXCEPT ![i] = d],
                   IF d = NoDoc THEN [extractors EXCEPT ![i] = NoDoc] ELSE extractors)
  BY DEF WriteInput
<1>3. DocServerTypes /\ i \in InputIds
      /\ op.tool \notin {"update_stream_rule", "update_extractor"} /\ op.tool \notin StreamOnly
  BY <1>1, DocWriteFacts DEF InputTools, StreamOnly, StreamTools, RuleDocTools
<1>4. /\ inputs' = [inputs EXCEPT ![i] = d]
      /\ streams' = streams /\ streamRules' = streamRules
      /\ extractors' = extractors \/ extractors' = [extractors EXCEPT ![i] = NoDoc]
  BY <1>2 DEF DocsBecome
<1>5. Same(inputs, inputs', InputIds \ {i}) /\ inputs'[i] = d
  BY <1>3, <1>4 DEF DocServerTypes, Same
<1>6. Same(extractors, extractors', InputIds \ {i})
  <2>1. CASE extractors' = extractors
    BY <2>1 DEF Same
  <2>2. CASE extractors' = [extractors EXCEPT ![i] = NoDoc]
    BY <1>3, <2>2 DEF DocServerTypes, Same
  <2> QED
    BY <1>4, <2>1, <2>2
<1>7. Same(streams, streams', StreamIds \ {i}) /\ Same(streamRules, streamRules', StreamIds \ {i})
  BY <1>4 DEF Same
<1>8. ASSUME op.tool = "update_input"
      PROVE  /\ "type" \in docDrift[c] \/ inputs'[i]["type"] = inputs[i]["type"]
             /\ op.title # {} \/ "title" \in docDrift[c] \/ inputs'[i]["title"] = inputs[i]["title"]
             /\ op.config # {} \/ inputs'[i]["secret"] = inputs[i]["secret"]
             /\ inputs'[i]["running"] = inputs[i]["running"]
  <2>1. PICK x \in SecretAfter(c, inputs[i].secret) : d = InputPut(c, i, x)
    BY <1>2, <1>8
  <2>2. d = [type |-> got[c].type, title |-> Or(op.title, got[c].title), secret |-> x, running |-> inputs[i].running]
    BY <2>1 DEF InputPut
  <2>3. /\ "type" \in docDrift[c] \/ got[c]["type"] = inputs[i]["type"]
        /\ "title" \in docDrift[c] \/ got[c]["title"] = inputs[i]["title"]
    BY <1>1, <1>8, DocWriteFacts DEF KeptDoc, LikeDoc, Updates
  <2>4. op.title # {} \/ Or(op.title, got[c].title) = got[c]["title"]
    BY DEF Or
  <2>5. op.config # {} \/ x = inputs[i]["secret"]
    BY <2>1 DEF SecretAfter
  <2> QED
    BY <1>5, <2>2, <2>3, <2>4, <2>5
<1> QED
  BY <1>3, <1>5, <1>6, <1>7, <1>8 DEF WrittenAsNamed, StreamOnly

LEMMA ExtractorWrittenAsNamed ==
  ASSUME DocInv, NEW c \in Slots, WriteExtractor(c) PROVE WrittenAsNamed(c)
<1> DEFINE op == req[c].op
           i == op.id
<1>1. pc[c] = "write" /\ op.tool \in ExtractorTools
  BY DEF WriteExtractor
<1>2. PICK x \in CASE op.tool = "create_extractor" ->
                        {[type |-> TheOne(op.type), title |-> TheOne(op.title), order |-> TheOne(op.value)]}
                   [] op.tool = "update_extractor" -> {ExtractorPut(op, got[c])}
                   [] op.tool = "delete_extractor" -> {NoDoc} :
        DocsBecome(c, streams, streamRules, inputs, [extractors EXCEPT ![i] = x])
  BY DEF WriteExtractor
<1>3. DocServerTypes /\ i \in InputIds
      /\ op.tool \notin {"update_stream_rule", "update_input"} /\ op.tool \notin StreamOnly
  BY <1>1, DocWriteFacts DEF ExtractorTools, StreamOnly, StreamTools, RuleDocTools
<1>4. /\ extractors' = [extractors EXCEPT ![i] = x]
      /\ streams' = streams /\ streamRules' = streamRules /\ inputs' = inputs
  BY <1>2 DEF DocsBecome
<1>5. Same(extractors, extractors', InputIds \ {i}) /\ extractors'[i] = x
  BY <1>3, <1>4 DEF DocServerTypes, Same
<1>6. /\ Same(streams, streams', StreamIds \ {i}) /\ Same(streamRules, streamRules', StreamIds \ {i})
      /\ Same(inputs, inputs', InputIds \ {i})
  BY <1>4 DEF Same
<1>7. ASSUME op.tool = "update_extractor"
      PROVE  /\ "type" \in docDrift[c] \/ extractors'[i]["type"] = extractors[i]["type"]
             /\ op.title # {} \/ "title" \in docDrift[c] \/ extractors'[i]["title"] = extractors[i]["title"]
             /\ op.value # {} \/ "order" \in docDrift[c] \/ extractors'[i]["order"] = extractors[i]["order"]
  <2>1. x = [type |-> got[c].type, title |-> Or(op.title, got[c].title), order |-> Or(op.value, got[c].order)]
    BY <1>2, <1>7 DEF ExtractorPut
  <2>2. \A f \in {"type", "title", "order"} : f \in docDrift[c] \/ got[c][f] = extractors[i][f]
    BY <1>1, <1>7, DocWriteFacts DEF KeptDoc, LikeDoc, Updates
  <2>3. /\ op.title # {} \/ Or(op.title, got[c].title) = got[c]["title"]
        /\ op.value # {} \/ Or(op.value, got[c].order) = got[c]["order"]
    BY DEF Or
  <2> QED
    BY <1>5, <2>1, <2>2, <2>3
<1> QED
  BY <1>3, <1>5, <1>6, <1>7 DEF WrittenAsNamed, StreamOnly

\* With the catalogue the server has, what a string becomes on the wire is what the
\* server keeps.
LEMMA StringKept ==
  ASSUME NEW g \in Given, g.kind = "string", NEW enc \in BOOLEAN
  PROVE  UNION {Accepted(h, enc, NoSecret) : h \in EncodeForWire(g, enc)} = {g.value}
<1>1. CASE ~enc
  <2>1. EncodeForWire(g, enc) = {g} /\ Accepted(g, enc, NoSecret) = {g.value}
    BY <1>1 DEF EncodeForWire, Accepted
  <2> QED
    BY <2>1
<1>2. CASE enc
  <2> DEFINE w == [kind |-> "set_value", value |-> g.value]
  <2>1. w.kind = "set_value" /\ w.value = g.value
    OBVIOUS
  <2>2. EncodeForWire(g, enc) = {w}
    BY <1>2 DEF EncodeForWire
  <2> HIDE DEF w
  <2>3. Accepted(w, enc, NoSecret) = {g.value}
    BY <1>2, <2>1 DEF Accepted
  <2> QED
    BY <2>2, <2>3
<1> QED
  BY <1>1, <1>2

\* A type known to be secret is not shown.
LEMMA RevealsNoSecret ==
  ASSUME NEW c, NEW known, NEW x \in Reveals(c, known) PROVE x.type \notin known
<1>1. PICK g \in req[c].op.config :
        x \in {[type |-> TypeOf(c), value |-> v] : v \in Shown(g, TypeOf(c) \in known)}
  BY DEF Reveals
<1>2. PICK v \in Shown(g, TypeOf(c) \in known) : x = [type |-> TypeOf(c), value |-> v]
  BY <1>1
<1> QED
  BY <1>2 DEF Shown

LEMMA SecretsKept ==
  ASSUME DocInv, [DocNext]_docVars, NEW c \in Slots, pc[c] \in {"types", "list"}, pc'[c] # pc[c],
         typeCatalogue' # NoCatalogue, encrypted \subseteq typeCatalogue'
  PROVE  KeepsSecrets(c)
<1>0. DocStep(c) /\ CatalogueKnown'
  BY DocOwnStep, DocInvNext DEF DocInv
<1>1. Types(c) \/ List(c) \/ DocReadFails(c)
  BY <1>0 DEF DocStep, DocBegin, Begin, Ended, DocBuild, GetStream, GetStreamRule, GetInput, GetExtractor, GetDoc,
              ListExtractors, Build, DocWrite, WriteStream, WriteStreamRule, WriteInput, WriteExtractor, DocWriteFails
<1>2. encrypted' = encrypted
  BY <1>1 DEF Types, List, DocReadFails, DocReturns, DocGate
<1>3. typeCatalogue' = encrypted
  BY <1>0, <1>2 DEF CatalogueKnown
<1>4. ASSUME NEW x \in seen' \ seen PROVE x.type \notin encrypted
  <2>1. ASSUME NEW g, DocGate(c, g, Reveals(c, typeCatalogue')) PROVE x.type \notin typeCatalogue'
    <3>1. x \in Reveals(c, typeCatalogue')
      BY <1>4, <2>1 DEF DocGate
    <3>2. PICK known : known = typeCatalogue'
      OBVIOUS
    <3> QED
      BY <3>1, <3>2, RevealsNoSecret
  <2>2. CASE Types(c)
    BY <1>3, <1>4, <2>1, <2>2 DEF Types
  <2>3. CASE List(c)
    BY <1>3, <1>4, <2>1, <2>3 DEF List, DocReturns
  <2>4. CASE DocReadFails(c)
    BY <1>4, <2>4 DEF DocReadFails, DocReturns
  <2> QED
    BY <1>1, <2>2, <2>3, <2>4
<1>5. ASSUME NEW g \in req[c].op.config, g.kind = "string"
      PROVE  UNION {Accepted(h, TypeOf(c) \in encrypted, NoSecret) :
                    h \in EncodeForWire(g, TypeOf(c) \in typeCatalogue')} = {g.value}
  <2>1. g \in Given
    BY <1>5, DocInvFacts, DocReqFacts, DocOpFacts DEF DocLabels
  <2> DEFINE enc == TypeOf(c) \in encrypted
  <2>2. enc \in BOOLEAN
    OBVIOUS
  <2> HIDE DEF enc
  <2>3. UNION {Accepted(h, enc, NoSecret) : h \in EncodeForWire(g, enc)} = {g.value}
    BY <1>5, <2>1, <2>2, StringKept
  <2> QED
    BY <1>3, <2>3 DEF enc
<1> QED
  BY <1>4, <1>5 DEF KeepsSecrets

-----------------------------------------------------------------------------
(* Streams and inputs: theorems *)

\* The state of the tools for streams and inputs and of the server keeps its type
\* (tools/streams, tools/inputs).
THEOREM DocTypeCorrect == DocSpec => []DocTypeOK
<1>1. DocInv => DocTypeOK
  BY DEF DocInv
<1> QED
  BY <1>1, DocInvInit, DocInvNext, PTL DEF DocSpec

\* A write touches the one document it is for, no stream that the server marks as
\* not editable, and of an updated document the fields the agent named, but for
\* fields that a PUT repeats and that changed after the call read them
\* (update-stream-rule.js:67-82, update-input.js:55-98, update-extractor.js:43-70).
THEOREM WritesOnlyNamedFields == DocSpec => OnlyNamedFields
<1>1. DocInv /\ [DocNext]_docVars => [\A c \in Slots : Written(c) => WrittenAsNamed(c)]_docVars
  BY DocWriteSteps, StreamWrittenAsNamed, RuleWrittenAsNamed, InputWrittenAsNamed, ExtractorWrittenAsNamed
<1> QED
  BY <1>1, DocInvInit, DocInvNext, PTL DEF DocSpec, OnlyNamedFields

\* As long as the catalogue a connection has fetched is the server's, no preview
\* shows a secret, and a string for a secret field is one the server takes
\* (redact.js:30-84, type-catalogue.js:29-39).
THEOREM SecretsStayWrapped == DocSpec => SecretsWrapped
<1>1. DocInv /\ [DocNext]_docVars =>
        [\A c \in Slots :
           pc[c] \in {"types", "list"} /\ pc'[c] # pc[c] /\ req[c].op.config # {} /\ typeCatalogue' # NoCatalogue =>
             ~(encrypted \subseteq typeCatalogue') \/ KeepsSecrets(c)]_docVars
  BY SecretsKept
<1> QED
  BY <1>1, DocInvInit, DocInvNext, PTL DEF DocSpec, SecretsWrapped
=============================================================================
