---------------------------------- MODULE Events ----------------------------------
(***************************************************************************)
(* The tools for event definitions and notifications (tools/events):       *)
(* create, update, delete, enable and disable a definition; create, update *)
(* and delete a notification.  What refers to a notification is found by   *)
(* reading every page of the definitions, for the preview and once more    *)
(* before the DELETE.  Conditions written for Graylog 6 are migrated.      *)
(***************************************************************************)
EXTENDS MutatingTool, EncryptedFields, Listings

CONSTANTS DefOrder,         \* definition ids in the order the server lists them
          NotifIds, DefTitles, NotifTypes,
          EncryptedTypes,   \* ENCRYPTED_FIELDS_BY_TYPE: the types whose field is a secret
          Exprs,            \* the nodes of condition expressions
          V6FunctionNames,  \* V6_FUNCTION_NAMES
          DefsPerPage, MaxDefPages,  \* perPage, maxPages
          NoDef, NoNotif,   \* model values: there is none
          EventOps,         \* the arguments agents call the tools with
          EventStarts,      \* what the server may hold to begin with
          MaxEventEdits     \* bound: changes made by other users

DefIds == {DefOrder[i] : i \in DOMAIN DefOrder}
\* A node of an expression.  name is <<function, parameter>> of a node of type
\* "function" with a string parameter, and the ref of a "number-ref"; below holds
\* the nodes in the slots left, right and child.
ExprSlots == {"left", "right", "child"}
-----------------------------------------------------------------------------
(* migrateV6ToV7AggregationConditions                                      *)

IsV6(e) == e.type = "function" /\ Len(e.name) = 2 /\ e.name[1] \in V6FunctionNames
\* v7KeyFor: `function_parameter`, or the function alone for the empty parameter.
V7Key(e) == IF e.name[2] = "" THEN <<e.name[1]>> ELSE e.name
Ref(key) == [type |-> "number-ref", name |-> key, below |-> <<>>]
\* Mutant of Visited: the operand of a negation is not visited.
VisitedTwoSlots == {"left", "right"}
\* The slots that visit descends into.
Visited == ExprSlots
Visit[e \in Exprs] ==
  IF IsV6(e) THEN Ref(V7Key(e))
  ELSE [e EXCEPT !.below = [k \in DOMAIN e.below |-> IF k \in Visited THEN Visit[e.below[k]] ELSE e.below[k]]]
AllExprs == Exprs \union {Visit[e] : e \in Exprs}
\* Reference: the nodes of an expression.
Nodes[e \in AllExprs] == {e} \union UNION {Nodes[e.below[k]] : k \in DOMAIN e.below}
\* The keys an alert compares with at run time, v6 nodes as the server of today would
\* have them.
Keys(e) == {n.name : n \in {m \in Nodes[e] : m.type = "number-ref"}}
           \union {V7Key(n) : n \in {m \in Nodes[e] : IsV6(m)}}
HasV6(e) == \E n \in Nodes[e] : IsV6(n)
-----------------------------------------------------------------------------
DefDoc   == [title : DefTitles, cond : AllExprs, notifs : SUBSET NotifIds, enabled : BOOLEAN]
NotifDoc == [type : NotifTypes, secret : Stored]
DefTools   == {"create_event_definition", "update_event_definition", "delete_event_definition",
               "enable_event_definition", "disable_event_definition"}
NotifTools == {"create_event_notification", "update_event_notification", "delete_event_notification"}
\* title, cond, notifs, type and config are {} when omitted; config comes with type.
EventOp == [tool : DefTools \union NotifTools, def : DefIds, notif : NotifIds, title : SUBSET DefTitles,
            cond : SUBSET Exprs, notifs : SUBSET (SUBSET NotifIds), type : SUBSET NotifTypes,
            config : SUBSET Given]
\* computeNotificationCascadeHash({notificationId, eventDefIds})
NotifToken == [notif : NotifIds, defs : SUBSET DefIds]
DefPages   == [page : 1..MaxDefPages, found : SUBSET DefIds]
EventStart == [defs : [DefIds -> DefDoc \union {NoDef}], notifs : [NotifIds -> NotifDoc \union {NoNotif}]]

\* Nodes as the parser leaves them; a function has no operands, and every tree ends.
ASSUME ExprsAssumption ==
  /\ \A e \in Exprs : /\ e = [type |-> e.type, name |-> e.name, below |-> e.below]
                      /\ DOMAIN e.below \subseteq ExprSlots
                      /\ \A k \in DOMAIN e.below : e.below[k] \in Exprs
                      /\ e.type = "function" => DOMAIN e.below = {}
  /\ \A T \in SUBSET Exprs : T # {} => \E e \in T : \A k \in DOMAIN e.below : e.below[k] \notin T
ASSUME EventOpsAssumption ==
  /\ EventOps \subseteq EventOp
  /\ \A op \in EventOps :
       /\ AtMostOne(op.title) /\ AtMostOne(op.cond) /\ AtMostOne(op.notifs)
       /\ AtMostOne(op.type) /\ AtMostOne(op.config) /\ (op.type = {}) = (op.config = {})
       /\ op.tool = "create_event_definition" => op.title # {} /\ op.cond # {} /\ op.notifs # {}
       /\ op.tool = "create_event_notification" => op.type # {}
       /\ op.cond # {} => op.tool \in {"create_event_definition", "update_event_definition"}
ASSUME EventStartsAssumption == EventStarts \subseteq EventStart
ASSUME DefOrderAssumption == Listable(DefOrder)
ASSUME EventNothingsAssumption == NoDef \notin DefDoc /\ NoNotif \notin NotifDoc /\ NothingGot \notin DefPages
ASSUME EventBoundsAssumption == DefsPerPage \in Nat \ {0} /\ MaxDefPages \in Nat \ {0} /\ MaxEventEdits \in Nat

VARIABLES
  defs,         \* the server's event definitions
  notifs,       \* the server's notifications
  eventDrift,   \* history: what changed since a deletion began its second walk:
                \* definitions, and NoDef when one came or went
  eventEdits    \* bound: changes made by other users

eventWorld == <<defs, notifs, eventDrift, eventEdits>>
eventVars  == <<callVars, eventWorld>>

EventLabels == {"list_definitions", "list_notifications", "get_definition", "get_notification",
                "build_event", "event_write", "walk_defs", "rewalk_defs", "delete_notification"}

EventTypeOK ==
  /\ CallsTypeOK(EventLabels, Request(EventOps, NotifToken), DefPages, NotifToken)
  /\ defs \in [DefIds -> DefDoc \union {NoDef}]
  /\ notifs \in [NotifIds -> NotifDoc \union {NoNotif}]
  /\ eventDrift \in [Slots -> SUBSET (DefIds \union {NoDef})]
  /\ eventEdits \in 0..MaxEventEdits

EventWorldInit ==
  /\ \E s \in EventStarts : defs = s.defs /\ notifs = s.notifs
  /\ eventDrift = [c \in Slots |-> {}]
  /\ eventEdits = 0
EventInit == CallsInit /\ EventWorldInit

EventsUnchanged == UNCHANGED eventWorld
EventReturns(c, how) ==
  /\ Finish(c, how)
  /\ eventDrift' = [eventDrift EXCEPT ![c] = {}]
  /\ UNCHANGED <<defs, notifs, eventEdits>>

-----------------------------------------------------------------------------
FirstEvent(op) ==
  CASE op.tool = "create_event_definition"   -> "list_definitions"
    [] op.tool = "delete_event_definition"   -> "get_definition"
    [] op.tool = "create_event_notification" -> "list_notifications"
    [] op.tool = "update_event_notification" -> "get_notification"
    [] op.tool = "delete_event_notification" -> "walk_defs"
    [] op.tool \in {"update_event_definition", "enable_event_definition", "disable_event_definition"} -> "build_event"
EventBegin(c) == \E op \in EventOps : Begin(c, op, FirstEvent(op)) /\ EventsUnchanged

\* The last request of a build() without a confirmation token, or a build() that
\* asks the server nothing; encodeEncryptedForWire may throw.
Throwing(op) == \E g \in op.config : EncodeForWire(g, \E t \in op.type : t \in EncryptedTypes) = {}
BuildEvent(c) ==
  /\ pc[c] \in {"list_definitions", "list_notifications", "get_definition", "get_notification", "build_event"}
  /\ pc[c] = "get_notification" => notifs[req[c].op.notif] # NoNotif
  /\ \/ Throwing(req[c].op) /\ Finish(c, "refused")
     \/ ~Throwing(req[c].op) /\ Gate(c, {}, "event_write", NothingGot)
  /\ EventsUnchanged
\* delete_event_definition's read is for the preview alone, and may fail.
EventReadFails(c) ==
  \/ pc[c] \in {"list_definitions", "list_notifications", "get_notification", "walk_defs"} /\ EventReturns(c, "refused")
  \/ pc[c] = "rewalk_defs" /\ EventReturns(c, "failed")

\* fetchEventDefsReferencingNotification
DefListing == InOrder(DefOrder, {d \in DefIds : defs[d] # NoDef})
DefsOn(page) == PageOf(DefListing, DefsPerPage, page)
RefersTo(ds, d, n) == ds[d] # NoDef /\ n \in ds[d].notifs
FirstPage == [page |-> 1, found |-> {}]
Reached(c) == IF got[c] = NothingGot THEN FirstPage ELSE got[c]
\* Mutant of Found: what the page adds replaces what was found before.
FoundLast(c) == {d \in DefsOn(Reached(c).page) : RefersTo(defs, d, req[c].op.notif)}
\* What the walk has found when it has read its next page.
Found(c) == Reached(c).found \union {d \in DefsOn(Reached(c).page) : RefersTo(defs, d, req[c].op.notif)}
WalkedAll(c) == Cardinality(DefsOn(Reached(c).page)) < DefsPerPage \/ Reached(c).page = MaxDefPages
NotifHash(n, ds) == [notif |-> n, defs |-> ds]
WalkDefs(c) ==
  /\ pc[c] = "walk_defs"
  /\ \/ ~WalkedAll(c) /\ Continue(c, "walk_defs", [page |-> Reached(c).page + 1, found |-> Found(c)])
     \/ WalkedAll(c) /\ Gate(c, {NotifHash(req[c].op.notif, Found(c))}, "rewalk_defs", NothingGot)
  /\ EventsUnchanged
\* apply() walks again, and compares.
RewalkDefs(c) ==
  /\ pc[c] = "rewalk_defs"
  /\ \/ ~WalkedAll(c) /\ Continue(c, "rewalk_defs", [page |-> Reached(c).page + 1, found |-> Found(c)])
        /\ EventsUnchanged
     \/ WalkedAll(c) /\ req[c].confirm = {NotifHash(req[c].op.notif, Found(c))}
        /\ Continue(c, "delete_notification", NothingGot) /\ EventsUnchanged
     \/ WalkedAll(c) /\ req[c].confirm # {NotifHash(req[c].op.notif, Found(c))}
        /\ EventReturns(c, "failed")            \* cascade_changed_since_preview

-----------------------------------------------------------------------------
\* The definitions become ds: what a deletion in its second walk, or past it, may
\* have missed.
EventsDrift(ds) ==
  [c \in Slots |->
     IF pc[c] \notin {"rewalk_defs", "delete_notification"} THEN eventDrift[c]
     ELSE eventDrift[c]
          \union {d \in DefIds : RefersTo(ds, d, req[c].op.notif) # RefersTo(defs, d, req[c].op.notif)}
          \union {x \in {NoDef} : \E d \in DefIds : (ds[d] = NoDef) # (defs[d] = NoDef)}]
EventsBecome(c, ds, ns) ==
  /\ defs' = ds /\ notifs' = ns
  /\ eventDrift' = [EventsDrift(ds) EXCEPT ![c] = {}]
  /\ \E how \in {"done", "failed"} : Finish(c, how)
  /\ UNCHANGED eventEdits
Given1(S, current) == IF S = {} THEN current ELSE CHOOSE x \in S : TRUE
\* ?schedule=false: the server does not begin to schedule the definition.
Scheduled(current) == current
NewDef(op) ==
  LET old == defs[op.def]
  IN CASE op.tool = "create_event_definition" ->
            [title |-> Given1(op.title, ""), cond |-> Visit[Given1(op.cond, "")],
             notifs |-> Given1(op.notifs, {}), enabled |-> Scheduled(FALSE)]
       [] op.tool = "update_event_definition" ->
            [title   |-> Given1(op.title, old.title),
             cond    |-> IF op.cond = {} THEN old.cond ELSE Visit[Given1(op.cond, "")],
             notifs  |-> Given1(op.notifs, old.notifs),
             enabled |-> Scheduled(old.enabled)]
       [] op.tool = "enable_event_definition"  -> [old EXCEPT !.enabled = TRUE]
       [] op.tool = "disable_event_definition" -> [old EXCEPT !.enabled = FALSE]
       [] op.tool = "delete_event_definition"  -> NoDef
WriteDef(c) ==
  LET op == req[c].op
  IN /\ pc[c] = "event_write" /\ op.tool \in DefTools
     /\ (defs[op.def] = NoDef) = (op.tool = "create_event_definition")
     /\ EventsBecome(c, [defs EXCEPT ![op.def] = NewDef(op)], notifs)
\* A config replaces the type and the field; without one the notification keeps both.
ConfigAfter(op, old) ==
  IF op.config = {} THEN {old}
  ELSE UNION {{[type |-> t, secret |-> x] :
               x \in UNION {Accepted(h, t \in EncryptedTypes, IF old = NoNotif THEN NoSecret ELSE old.secret) :
                            h \in UNION {EncodeForWire(g, t \in EncryptedTypes) : g \in op.config}}} :
              t \in op.type}
WriteNotif(c) ==
  LET op == req[c].op
  IN /\ pc[c] = "event_write" /\ op.tool \in NotifTools
     /\ (notifs[op.notif] = NoNotif) = (op.tool = "create_event_notification")
     /\ \E d \in ConfigAfter(op, notifs[op.notif]) : EventsBecome(c, defs, [notifs EXCEPT ![op.notif] = d])
\* The definitions that refer to it keep an id that means nothing.
DeleteNotif(c) ==
  /\ pc[c] = "delete_notification" /\ notifs[req[c].op.notif] # NoNotif
  /\ EventsBecome(c, defs, [notifs EXCEPT ![req[c].op.notif] = NoNotif])
EventWriteFails(c) == pc[c] \in {"event_write", "delete_notification"} /\ EventReturns(c, "failed")

\* Another user deletes a definition, or wires a notification to one.
EditEvents ==
  /\ eventEdits < MaxEventEdits
  /\ \E d \in DefIds :
       /\ defs[d] # NoDef
       /\ \/ defs' = [defs EXCEPT ![d] = NoDef]
          \/ \E n \in NotifIds \ defs[d].notifs : defs' = [defs EXCEPT ![d].notifs = @ \union {n}]
  /\ eventDrift' = EventsDrift(defs')
  /\ eventEdits' = eventEdits + 1
  /\ UNCHANGED <<callVars, notifs>>

EventStep(c) ==
  \/ EventBegin(c) \/ BuildEvent(c) \/ EventReadFails(c) \/ WalkDefs(c) \/ RewalkDefs(c)
  \/ WriteDef(c) \/ WriteNotif(c) \/ DeleteNotif(c) \/ EventWriteFails(c)
EventNext == (\E c \in Slots : EventStep(c)) \/ EditEvents
EventSpec == EventInit /\ [][EventNext]_eventVars

-----------------------------------------------------------------------------
Deletes(c) == pc[c] = "delete_notification" /\ pc'[c] # "delete_notification" /\ notifs' # notifs

\* A notification goes only after a preview has named every definition that refers
\* to it at the DELETE and no other, a definition excepted that was wired or
\* unwired after apply() began to read the pages again; if a definition came or
\* went meanwhile the pages have shifted, and beyond the cap none is read
\* (delete-event-notification.js:69-102, 113-169).
NotificationDeletedKnowing ==
  [][\A c \in Slots : Deletes(c) =>
       \E t \in shown :
         /\ t.notif = req[c].op.notif
         /\ \/ NoDef \in eventDrift[c]
            \/ Len(DefListing) > DefsPerPage * MaxDefPages
            \/ \A d \in DefIds \ eventDrift[c] : (d \in t.defs) = RefersTo(defs, d, t.notif)]_eventVars

\* Conditions that the tools save have no node of the old form and compare the very
\* keys that the given ones meant; conditions that are not given stay.  A
\* definition begins to be scheduled by enable_event_definition and nothing else
\* (v6-to-v7-migration.js:92-160, update-event-definition.js:42-87).
AlertsAsAsked ==
  [][\A c \in Slots : pc[c] = "event_write" /\ pc'[c] # "event_write" /\ defs' # defs =>
       LET op  == req[c].op
           old == defs[op.def]
           new == defs'[op.def]
       IN new # NoDef =>
            /\ \A e \in op.cond : ~HasV6(new.cond) /\ Keys(new.cond) = Keys(e)
            /\ op.cond = {} => new.cond = old.cond
            /\ op.tool # "enable_event_definition" /\ new.enabled => old # NoDef /\ old.enabled]_eventVars
=============================================================================
