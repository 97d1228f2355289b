------------------------------ MODULE Dashboards ------------------------------
(***************************************************************************)
(* The tools that change dashboards (tools/dashboards).                    *)
(*                                                                         *)
(* Graylog keeps a dashboard as two documents: a view, with the widgets of *)
(* each tab, their positions and the search types that feed them, and the  *)
(* search it is bound to, with the search types of each tab's query.       *)
(* add_widget_from_template and remove_widget read both, compute both and  *)
(* write both back whole, the search first; update_dashboard reads and     *)
(* writes the view; create_dashboard makes the search, then the view.      *)
(*                                                                         *)
(* A request is one atomic step of the Graylog server; it may fail, or be  *)
(* carried out and its answer lost.  A server that refuses a document is   *)
(* one whose request fails.  The ids of new widgets and search types are   *)
(* left to the tools, which draw UUIDs; one counter stands for these and   *)
(* for the ids the server assigns.  Connections are writable, and no tool  *)
(* here has a confirmation token.                                          *)
(***************************************************************************)
EXTENDS Integers, Sequences, FiniteSets

CONSTANTS Slots,       \* tool calls that may be in flight together
          Operations,  \* the arguments agents call the tools with
          Starts,      \* the dashboards and searches the server may begin with
          FirstId,     \* the first new id: those below are in use
          MaxCalls,    \* bound: calls made
          MaxEdits     \* bound: changes made by other users

Id == Nat \ {0}
None == 0   \* no id; of a row: no position supplied

Titles == {"old", "new", "other"}
\* A widget as an agent asks for it: whether it has a search type, and its place.
Piece == [data : BOOLEAN, row : Nat, height : Id]
Changing == {"add_widget_from_template", "remove_widget"}
Operation ==
  [tool : Changing \union {"update_dashboard", "delete_dashboard", "create_dashboard"},
   dashboard : Nat, widget : Nat, title : Titles, pieces : Seq(Piece)]

\* What a tab of the view holds: an object keyed by widget id is a set of
\* records that name the widget.
Tab == [widgets : SUBSET Id, positions : SUBSET [widget : Id, row : Id, height : Id],
        mapping : SUBSET [widget : Id, type : Id]]
\* Tabs and queries are keyed by the same ids; the order of keys is theirs.
IsSearch(s) == DOMAIN s \subseteq Id /\ s = [k \in DOMAIN s |-> s[k]] /\ \A k \in DOMAIN s : s[k] \subseteq Id
IsTabs(t) == /\ DOMAIN t \subseteq Id /\ t = [k \in DOMAIN t |-> t[k]]
             /\ \A k \in DOMAIN t : t[k] \in Tab /\ IsFiniteSet(t[k].positions)
IsView(v) == /\ v = [search |-> v.search, title |-> v.title, tabs |-> v.tabs]
             /\ v.search \in Nat /\ v.title \in Titles /\ IsTabs(v.tabs)

\* f with x set to v, or without x.
With(f, x, v) == [y \in DOMAIN f \union {x} |-> IF y = x THEN v ELSE f[y]]
Without(f, x) == [y \in DOMAIN f \ {x} |-> f[y]]

IsServer(vs, ss) ==
  /\ DOMAIN vs \subseteq Id /\ vs = [d \in DOMAIN vs |-> vs[d]] /\ \A d \in DOMAIN vs : IsView(vs[d])
  /\ DOMAIN ss \subseteq Id /\ ss = [i \in DOMAIN ss |-> ss[i]] /\ \A i \in DOMAIN ss : IsSearch(ss[i])

\* Every id in a view is less than n.
Below(v, n) ==
  \A k \in DOMAIN v.tabs :
    /\ \A w \in v.tabs[k].widgets : w < n
    /\ \A p \in v.tabs[k].positions : p.widget < n
    /\ \A m \in v.tabs[k].mapping : m.widget < n /\ m.type < n

\* A template makes one widget; create_dashboard is given every place.
ASSUME OperationsAssumption ==
  /\ Operations \subseteq Operation /\ Operations # {}
  /\ \A o \in Operations :
       /\ o.tool = "add_widget_from_template" => Len(o.pieces) = 1
       /\ o.tool = "create_dashboard" => \A i \in DOMAIN o.pieces : o.pieces[i].row # None
\* No id is new, and a search belongs to one dashboard.
ASSUME StartsAssumption ==
  \A s \in Starts :
    /\ IsServer(s.views, s.searches)
    /\ \A d \in DOMAIN s.views : d < FirstId /\ s.views[d].search < FirstId /\ Below(s.views[d], FirstId)
    /\ \A i \in DOMAIN s.searches : i < FirstId /\ \A k \in DOMAIN s.searches[i] : \A t \in s.searches[i][k] : t < FirstId
    /\ \A d, e \in DOMAIN s.views : s.views[d].search = s.views[e].search => d = e \/ s.views[d].search = None
ASSUME FirstIdAssumption == FirstId \in Id
ASSUME BoundsAssumption == MaxCalls \in Nat /\ MaxEdits \in Nat

-----------------------------------------------------------------------------
VARIABLES
  views,     \* the server's dashboards, by id
  searches,  \* its searches, by id
  nextId,    \* the next id to be drawn or assigned
  pc,        \* what a call does next, or how it ended
  op,        \* its arguments
  dryRun,
  view,      \* the view it writes, or has read
  search,    \* the search it writes
  widget,    \* the widget it adds or removes
  raced,     \* history: its dashboard has changed since it read the view
  apart,     \* history: changes of which one document was written, not the other
  stale,     \* history: dashboards written from an outdated reading
  placed,    \* history: widgets add_widget_from_template found a place for
  ncalls, edits

calls == <<pc, op, dryRun, view, search, widget>>
vars  == <<views, searches, nextId, calls, raced, apart, stale, placed, ncalls, edits>>

Reading == {"get_view", "get_search", "probe"}
Writing == {"put_search", "put_view", "post_search", "post_view", "delete"}
Ended   == {"previewed", "done", "refused", "failed", "partial_failure", "unresolved_dependency"}
\* Past the reading of the view that a call writes back.
Holding == {"get_search", "put_search", "put_view"}

NoView == [search |-> None, title |-> "old", tabs |-> <<>>]

TypeOK ==
  /\ IsServer(views, searches)
  /\ nextId \in Id
  /\ pc \in [Slots -> {"idle"} \union Reading \union Writing \union Ended]
  /\ op \in [Slots -> Operations]
  /\ dryRun \in [Slots -> BOOLEAN]
  /\ view = [c \in Slots |-> view[c]] /\ \A c \in Slots : IsView(view[c])
  /\ search = [c \in Slots |-> search[c]] /\ \A c \in Slots : IsSearch(search[c])
  /\ widget \in [Slots -> Nat]
  /\ raced \in [Slots -> BOOLEAN]
  /\ apart \in SUBSET [dashboard : Nat, widget : Nat, tool : Changing]
  /\ stale \in SUBSET Nat
  /\ placed \in SUBSET Id
  /\ ncalls \in 0..MaxCalls
  /\ edits \in 0..MaxEdits

-----------------------------------------------------------------------------
(* Whether the two documents agree *)

Types(s, k) == IF s \in DOMAIN searches /\ k \in DOMAIN searches[s] THEN searches[s][k] ELSE {}
Matched(tab) == tab.widgets = {p.widget : p \in tab.positions}

\* Every search type a widget of d needs is there, but for the widgets in blank,
\* and every search type is needed by a widget, but for those in spare.
InStepBut(d, blank, spare) ==
  \A k \in DOMAIN views[d].tabs :
    LET mapping == views[d].tabs[k].mapping
        types   == Types(views[d].search, k)
    IN /\ \A m \in mapping : m.widget \in blank \/ m.type \in types
       /\ \A t \in types : t \in spare \/ \E m \in mapping : m.type = t
\* Each search type feeds one widget, which is there.
Fed(d) ==
  \A k \in DOMAIN views[d].tabs :
    /\ \A m, n \in views[d].tabs[k].mapping : m.type = n.type => m.widget = n.widget
    /\ \A m \in views[d].tabs[k].mapping : m.widget \in views[d].tabs[k].widgets

Init ==
  /\ \E s \in Starts : views = s.views /\ searches = s.searches
  /\ nextId = FirstId
  /\ pc = [c \in Slots |-> "idle"]
  /\ op = [c \in Slots |-> CHOOSE o \in Operations : TRUE]
  /\ dryRun = [c \in Slots |-> TRUE]
  /\ view = [c \in Slots |-> NoView]
  /\ search = [c \in Slots |-> <<>>]
  /\ widget = [c \in Slots |-> None]
  /\ raced = [c \in Slots |-> FALSE]
  /\ apart = {}
  /\ stale = {d \in DOMAIN views : ~(InStepBut(d, {}, {}) /\ Fed(d))}
  /\ placed = {}
  /\ ncalls = 0
  /\ edits = 0

\* Someone other than those in by writes a document of dashboard d.
Overtaken(d, by) ==
  [c \in Slots |-> raced[c] \/ (c \notin by /\ op[c].dashboard = d /\ pc[c] \in Holding)]

-----------------------------------------------------------------------------
(* A call *)

Start(c, o, dry) ==
  /\ pc[c] \in {"idle"} \union Ended
  /\ ncalls < MaxCalls /\ ncalls' = ncalls + 1
  /\ op' = [op EXCEPT ![c] = o]
  /\ dryRun' = [dryRun EXCEPT ![c] = dry]
  /\ pc' = [pc EXCEPT ![c] = IF o.tool = "create_dashboard" THEN "probe" ELSE "get_view"]
  /\ view' = [view EXCEPT ![c] = NoView]
  /\ search' = [search EXCEPT ![c] = <<>>]
  /\ widget' = [widget EXCEPT ![c] = None]
  /\ raced' = [raced EXCEPT ![c] = FALSE]
  /\ UNCHANGED <<views, searches, nextId, apart, stale, placed, edits>>

server  == <<views, searches>>
history == <<raced, apart, stale>>
Goes(c, where) == pc' = [pc EXCEPT ![c] = where]
\* build() has returned: a dry run shows the request and stops.
Built(c, first) == Goes(c, IF dryRun[c] THEN "previewed" ELSE first)
Ends(c, how) ==
  /\ Goes(c, how)
  /\ view' = [view EXCEPT ![c] = NoView]
  /\ search' = [search EXCEPT ![c] = <<>>]
  /\ widget' = [widget EXCEPT ![c] = None]
Stops(c, how) == Ends(c, how) /\ UNCHANGED <<nextId, placed>>

\* A read fails, or a template rejects its options.
RequestFails(c) ==
  /\ pc[c] \in Reading /\ op[c].tool # "delete_dashboard"
  /\ Stops(c, "failed")
  /\ UNCHANGED <<server, op, dryRun, history, ncalls, edits>>

FirstOf(keys) == CHOOSE k \in keys : \A j \in keys : k <= j
TabsWith(v, w) == {k \in DOMAIN v.tabs : w \in v.tabs[k].widgets}

\* What a call needs of the view it has read; without it build() refuses.
Usable(o, v) ==
  /\ v.search # None
  /\ IF o.tool = "remove_widget" THEN TabsWith(v, o.widget) # {} ELSE DOMAIN v.tabs # {}

GetView(c) ==
  /\ pc[c] = "get_view"
  /\ LET d == op[c].dashboard
     IN \/ /\ op[c].tool = "delete_dashboard"   \* the reading only counts widgets
           /\ Built(c, "delete")
           /\ UNCHANGED <<view, search, widget, nextId, placed>>
        \/ /\ op[c].tool = "update_dashboard" /\ d \in DOMAIN views
           /\ view' = [view EXCEPT ![c] = [views[d] EXCEPT !.title = op[c].title]]
           /\ Built(c, "put_view")
           /\ UNCHANGED <<search, widget, nextId, placed>>
        \/ /\ op[c].tool \in Changing /\ d \in DOMAIN views
           /\ IF Usable(op[c], views[d])
              THEN /\ view' = [view EXCEPT ![c] = views[d]]
                   /\ Goes(c, "get_search")
                   /\ UNCHANGED <<search, widget, nextId, placed>>
              ELSE Stops(c, "refused")
  /\ UNCHANGED <<server, op, dryRun, history, ncalls, edits>>

-----------------------------------------------------------------------------
(* Adding a widget, removing one *)

\* Mutant of FreeRow: the heights are left out.
RowAfterLast(positions) ==
  LET rows == {1} \union {p.row : p \in positions}
  IN CHOOSE r \in rows : \A q \in rows : q <= r
\* Mutant of FreeRow: rows count from 0 on a dashboard without a widget.
RowFromZero(positions) ==
  LET ends == {0} \union {p.row + p.height : p \in positions}
  IN CHOOSE r \in ends : \A q \in ends : q <= r
\* The first row below everything.
FreeRow(positions) ==
  LET ends == {1} \union {p.row + p.height : p \in positions}
  IN CHOOSE r \in ends : \A q \in ends : q <= r

Place(w, piece, row) == [widget |-> w, row |-> row, height |-> piece.height]
Feeds(w, piece) == IF piece.data THEN {[widget |-> w, type |-> w]} ELSE {}
Added(tab, w, piece) ==
  [widgets   |-> tab.widgets \union {w},
   positions |-> tab.positions \union
                   {Place(w, piece, IF piece.row = None THEN FreeRow(tab.positions) ELSE piece.row)},
   mapping   |-> tab.mapping \union Feeds(w, piece)]

Removed(tab, w) ==
  [widgets   |-> tab.widgets \ {w},
   positions |-> {p \in tab.positions : p.widget # w},
   mapping   |-> {m \in tab.mapping : m.widget # w}]

\* Mutant of AcceptsTab: a missing query is not noticed.
AcceptsUnqueried(tab, needsQuery, k, s) == Matched(tab)
\* validateWidgetPositionIntegrity, search_query_not_found
AcceptsTab(tab, needsQuery, k, s) == Matched(tab) /\ (needsQuery => k \in DOMAIN s)

At(s, k) == IF k \in DOMAIN s THEN s[k] ELSE {}
\* The two documents, with tab k of the view and the types of query k replaced.
Composes(c, k, tab, types, s) ==
  /\ view' = [view EXCEPT ![c].tabs = With(@, k, tab)]
  /\ search' = [search EXCEPT ![c] = IF k \in DOMAIN s THEN With(s, k, types) ELSE s]

\* The template's widget goes into the first tab.  A text widget has no search
\* type, and only the view is written.
AddTo(c, piece, s) ==
  LET k   == FirstOf(DOMAIN view[c].tabs)
      tab == Added(view[c].tabs[k], nextId, piece)
  IN IF AcceptsTab(tab, piece.data, k, s)
     THEN /\ Composes(c, k, tab, At(s, k) \union {m.type : m \in Feeds(nextId, piece)}, s)
          /\ widget' = [widget EXCEPT ![c] = nextId]
          /\ nextId' = nextId + 1
          /\ placed' = placed \union (IF piece.row = None THEN {nextId} ELSE {})
          /\ Built(c, IF piece.data THEN "put_search" ELSE "put_view")
     ELSE Stops(c, "refused")

\* Mutant of TabOf: the first tab, whether the widget is there or not.
FirstTab(c, w) == FirstOf(DOMAIN view[c].tabs)
TabOf(c, w) == FirstOf(TabsWith(view[c], w))
\* The widget leaves the first tab it is in, and its search types the query.
RemoveFrom(c, w, s) ==
  LET k    == TabOf(c, w)
      tab  == Removed(view[c].tabs[k], w)
      gone == {m.type : m \in {n \in view[c].tabs[k].mapping : n.widget = w}}
  IN IF AcceptsTab(tab, TRUE, k, s)
     THEN /\ Composes(c, k, tab, At(s, k) \ gone, s)
          /\ widget' = [widget EXCEPT ![c] = w]
          /\ Built(c, "put_search")
          /\ UNCHANGED <<nextId, placed>>
     ELSE Stops(c, "refused")

GetSearch(c) ==
  /\ pc[c] = "get_search" /\ view[c].search \in DOMAIN searches
  /\ LET s == searches[view[c].search]
     IN IF op[c].tool = "remove_widget" THEN RemoveFrom(c, op[c].widget, s) ELSE AddTo(c, op[c].pieces[1], s)
  /\ UNCHANGED <<server, op, dryRun, history, ncalls, edits>>

\* create_dashboard looks for dashboards of the same title, for the preview.
\* It draws an id for each widget and puts them into one tab and one query.
Probe(c) ==
  /\ pc[c] = "probe"
  /\ LET pieces == op[c].pieces
         Number(i) == nextId + i - 1
         feeds  == UNION {Feeds(Number(i), pieces[i]) : i \in DOMAIN pieces}
         tab    == [widgets   |-> {Number(i) : i \in DOMAIN pieces},
                    positions |-> {Place(Number(i), pieces[i], pieces[i].row) : i \in DOMAIN pieces},
                    mapping   |-> feeds]
     IN /\ view' = [view EXCEPT ![c] = [search |-> None, title |-> op[c].title, tabs |-> <<tab>>]]
        /\ search' = [search EXCEPT ![c] = <<{m.type : m \in feeds}>>]
        /\ nextId' = nextId + Len(pieces)
  /\ Built(c, "post_search")
  /\ UNCHANGED <<server, op, dryRun, widget, history, placed, ncalls, edits>>

-----------------------------------------------------------------------------
(* Writing, by apply() or executeChain *)

WritesSearch(o) ==
  o.tool = "remove_widget" \/ (o.tool = "add_widget_from_template" /\ o.pieces[1].data)
\* How a call ends when a write fails or its answer is lost.
Failure(c) == Ends(c, IF op[c].tool \in {"update_dashboard", "delete_dashboard"} THEN "failed" ELSE "partial_failure")
Cut(c) == {[dashboard |-> op[c].dashboard, widget |-> widget[c], tool |-> op[c].tool]}
\* c has written a document of its dashboard.
Wrote(c) ==
  /\ raced' = Overtaken(op[c].dashboard, {c})
  /\ stale' = stale \union (IF raced[c] THEN {op[c].dashboard} ELSE {})

PutSearch(c) ==
  /\ pc[c] = "put_search"
  /\ \/ /\ searches' = With(searches, view[c].search, search[c])
        /\ Wrote(c)
        /\ \/ Goes(c, "put_view") /\ UNCHANGED <<view, search, widget, apart>>
           \/ Failure(c) /\ apart' = apart \union Cut(c)
     \/ Failure(c) /\ UNCHANGED <<searches, history>>
  /\ UNCHANGED <<views, nextId, op, dryRun, placed, ncalls, edits>>

PutView(c) ==
  /\ pc[c] = "put_view"
  /\ \/ /\ op[c].dashboard \in DOMAIN views
        /\ views' = With(views, op[c].dashboard, view[c])
        /\ Wrote(c)
        /\ apart' = apart \ (IF op[c].tool = "remove_widget" THEN Cut(c) ELSE {})
        /\ Ends(c, "done") \/ Failure(c)
     \/ /\ Failure(c)
        /\ apart' = apart \union (IF WritesSearch(op[c]) THEN Cut(c) ELSE {})
        /\ UNCHANGED <<views, raced, stale>>
  /\ UNCHANGED <<searches, nextId, op, dryRun, placed, ncalls, edits>>

\* The answer's id goes into the view; an answer without one ends the chain.
PostSearch(c) ==
  /\ pc[c] = "post_search"
  /\ \/ /\ searches' = With(searches, nextId, search[c])
        /\ nextId' = nextId + 1
        /\ \/ /\ Goes(c, "post_view")
              /\ view' = [view EXCEPT ![c].search = nextId]
              /\ UNCHANGED <<search, widget>>
           \/ Ends(c, "unresolved_dependency")
           \/ Failure(c)
     \/ Failure(c) /\ UNCHANGED <<searches, nextId>>
  /\ UNCHANGED <<views, op, dryRun, history, placed, ncalls, edits>>

PostView(c) ==
  /\ pc[c] = "post_view"
  /\ \/ /\ views' = With(views, nextId, view[c])
        /\ nextId' = nextId + 1
        /\ Ends(c, "done") \/ Failure(c)
     \/ Failure(c) /\ UNCHANGED <<views, nextId>>
  /\ UNCHANGED <<searches, op, dryRun, history, placed, ncalls, edits>>

\* The search stays behind.
Delete(c) ==
  /\ pc[c] = "delete"
  /\ \/ /\ op[c].dashboard \in DOMAIN views
        /\ views' = Without(views, op[c].dashboard)
        /\ raced' = Overtaken(op[c].dashboard, {c})
        /\ Ends(c, "done") \/ Failure(c)
     \/ Failure(c) /\ UNCHANGED <<views, raced>>
  /\ UNCHANGED <<searches, nextId, op, dryRun, apart, stale, placed, ncalls, edits>>

-----------------------------------------------------------------------------
(* Other users of Graylog *)

Edits(d) ==
  /\ d \in DOMAIN views
  /\ edits < MaxEdits /\ edits' = edits + 1
  /\ raced' = Overtaken(d, {})
  /\ UNCHANGED <<calls, apart, stale, placed, ncalls>>

Retitle(d) ==
  /\ Edits(d)
  /\ views' = [views EXCEPT ![d].title = "other"]
  /\ UNCHANGED <<searches, nextId>>

\* The web interface saves both documents of a dashboard.
AddInBrowser(d, k) ==
  /\ Edits(d)
  /\ LET s == views[d].search
     IN /\ s \in DOMAIN searches /\ k \in DOMAIN searches[s] \intersect DOMAIN views[d].tabs
        /\ views' = [views EXCEPT ![d].tabs[k] = Added(@, nextId, [data |-> TRUE, row |-> None, height |-> 1])]
        /\ searches' = [searches EXCEPT ![s][k] = @ \union {nextId}]
        /\ nextId' = nextId + 1

DeleteInBrowser(d) ==
  /\ Edits(d)
  /\ views' = Without(views, d)
  /\ UNCHANGED <<searches, nextId>>

Call(c) == \E o \in Operations, dry \in BOOLEAN : Start(c, o, dry)
Step(c) == \/ RequestFails(c) \/ GetView(c) \/ GetSearch(c) \/ Probe(c)
           \/ PutSearch(c) \/ PutView(c) \/ PostSearch(c) \/ PostView(c) \/ Delete(c)
OtherUsers == \E d \in DOMAIN views :
  Retitle(d) \/ DeleteInBrowser(d) \/ \E k \in DOMAIN views[d].tabs : AddInBrowser(d, k)

Next == (\E c \in Slots : Call(c) \/ Step(c)) \/ OtherUsers

Spec == Init /\ [][Next]_vars

-----------------------------------------------------------------------------
(* Properties *)

\* The widgets of which a tool's second document is on its way, or never came.
Unfinished(d, tool) ==
  {a.widget : a \in {b \in apart : b.dashboard = d /\ b.tool = tool}}
    \union {widget[c] : c \in {e \in Slots : pc[e] = "put_view" /\ op[e].dashboard = d /\ op[e].tool = tool}}

\* remove-widget.js:16-21: however calls interleave and wherever they stop, the
\* view and the search of a dashboard are in step: no widget is blank but one
\* whose removal is under way or was cut short, which repeating it mends; no
\* search type is left over but that of an addition under way or cut short.
\* Excepted are dashboards on which a call wrote what it had read before somebody
\* else's change.
InStep ==
  \A d \in DOMAIN views \ stale :
    InStepBut(d, Unfinished(d, "remove_widget"), Unfinished(d, "add_widget_from_template"))

\* add-widget-from-template.js:136-153: a widget placed by the tool lies below
\* every widget that was there before it, also when two additions work out the
\* same row.
PlacedClear ==
  \A d \in DOMAIN views : \A k \in DOMAIN views[d].tabs : \A p, q \in views[d].tabs[k].positions :
    p.widget \in placed /\ q.widget < p.widget => p.row >= q.row + q.height

Widgets(v) == UNION {v.tabs[k].widgets : k \in DOMAIN v.tabs}

\* What a call with arguments o, adding or removing widget w, makes of a view.
AsAsked(o, w, was, is) ==
  LET done == {k \in DOMAIN was.tabs : is.tabs[k] # was.tabs[k]}
  IN /\ is.search = was.search /\ DOMAIN is.tabs = DOMAIN was.tabs
     /\ is.title = IF o.tool = "update_dashboard" THEN o.title ELSE was.title
     /\ CASE o.tool = "add_widget_from_template" ->
               /\ done = {FirstOf(DOMAIN was.tabs)}
               /\ Widgets(is) = Widgets(was) \union {w} /\ w \notin Widgets(was)
          [] o.tool = "remove_widget" ->
               \E k \in done : done = {k} /\ is.tabs[k].widgets = was.tabs[k].widgets \ {o.widget}
          [] OTHER -> done = {}
     /\ \A k \in done : Matched(is.tabs[k])

\* What a call does to a dashboard nobody else has changed since it read it is
\* what it was asked to do and nothing else: one widget more in the first tab,
\* one less, or another title; and after adding or removing, the tab's widgets
\* are those with a position.
OnlyAsAsked ==
  [][\A c \in Slots : pc[c] = "put_view" /\ pc'[c] # pc[c] /\ (pc'[c] = "done" \/ views' # views) /\ ~raced[c] =>
       AsAsked(op[c], widget[c], views[op[c].dashboard], views'[op[c].dashboard])]_vars

\* add-widget-from-template.js:17-21: "when the View update lands and references
\* the new SearchType via widget_mapping, the SearchType already exists".
SearchTypeAlreadyExists ==
  [][\A c \in Slots :
       pc[c] = "put_view" /\ pc'[c] = "done" /\ op[c].tool = "add_widget_from_template" /\ WritesSearch(op[c]) =>
         \E k \in DOMAIN searches[view[c].search] : widget[c] \in searches[view[c].search][k]]_vars
=============================================================================
