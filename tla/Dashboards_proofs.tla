--------------------------- MODULE Dashboards_proofs ---------------------------
(***************************************************************************)
(* Proofs about Dashboards, for any number of calls, dashboards, tabs,     *)
(* widgets and other users' changes.                                       *)
(***************************************************************************)
EXTENDS Dashboards, FiniteSetTheorems, TLAPS

USE OperationsAssumption, StartsAssumption, FirstIdAssumption, BoundsAssumption

-----------------------------------------------------------------------------
(* The first of some keys, the last of some rows *)

\* A finite set of numbers has a largest one: of the sets of all members that
\* are no smaller than a given one, a smallest belongs to it.
LEMMA LargestExists ==
  ASSUME NEW S \in SUBSET Nat, S # {}, IsFiniteSet(S)
  PROVE  \E r \in S : \A q \in S : q <= r
<1> DEFINE Above(m) == {x \in S : m <= x}
           T == {Above(m) : m \in S}
<1>1. T \subseteq FiniteSubsetsOf(S) /\ T # {}
  <2>1. \A m \in S : Above(m) \subseteq S /\ IsFiniteSet(Above(m))
    BY FS_Subset
  <2> QED
    BY <2>1 DEF FiniteSubsetsOf
<1>2. IsWellFoundedOn(StrictSubsetOrdering(S), FiniteSubsetsOf(S))
  BY FS_StrictSubsetOrderingWellFounded
<1>3. PICK U \in T : \A V \in T : ~ (<<V, U>> \in StrictSubsetOrdering(S))
  <2> HIDE DEF T
  <2> QED
    BY <1>1, <1>2, WFMin
<1>4. PICK r \in S : U = Above(r)
  BY <1>3
<1>5. \A q \in S : q <= r
  <2> SUFFICES ASSUME NEW q \in S, ~ (q <= r) PROVE FALSE
    OBVIOUS
  <2>1. r < q
    OBVIOUS
  <2>2. Above(q) \subseteq U /\ r \in U /\ r \notin Above(q)
    <3>1. \A x \in Above(q) : x \in Above(r)
      BY <2>1
    <3>2. r \in Above(r) /\ r \notin Above(q)
      BY <2>1
    <3> QED
      BY <1>4, <3>1, <3>2
  <2>3. Above(q) \in T /\ Above(q) \in SUBSET S /\ U \in SUBSET S
    BY <1>4
  <2>4. <<Above(q), U>> \in StrictSubsetOrdering(S)
    <3> HIDE DEF Above, T
    <3> QED
      BY <2>2, <2>3 DEF StrictSubsetOrdering
  <2> QED
    BY <1>3, <2>3, <2>4
<1> QED
  BY <1>5

\* The least key is as far as possible below one of them.
LEMMA FirstOfType ==
  ASSUME NEW keys, keys \subseteq Id, keys # {}
  PROVE  FirstOf(keys) \in keys
<1>1. PICK m \in keys : TRUE
  OBVIOUS
<1> DEFINE gaps == {g \in 0..m : m - g \in keys}
<1>2. gaps \in SUBSET Nat /\ 0 \in gaps
  BY <1>1 DEF Id
<1>3. IsFiniteSet(gaps)
  <2>1. IsFiniteSet(0..m) /\ gaps \subseteq 0..m
    BY FS_Interval DEF Id
  <2> QED
    BY <2>1, FS_Subset
<1>4. PICK g \in gaps : \A h \in gaps : h <= g
  <2> HIDE DEF gaps
  <2> QED
    BY <1>2, <1>3, LargestExists
<1>5. \A j \in keys : m - g <= j
  <2> SUFFICES ASSUME NEW j \in keys PROVE m - g <= j
    OBVIOUS
  <2>1. j \in Nat /\ m \in Nat /\ g \in 0..m
    BY DEF Id
  <2>2. CASE j <= m
    <3>1. m - j \in 0..m /\ m - (m - j) = j
      BY <2>1, <2>2
    <3>2. m - j \in gaps
      BY <3>1
    <3> QED
      BY <1>4, <2>1, <3>2
  <2>3. CASE m < j
    BY <2>1, <2>3
  <2> QED
    BY <2>1, <2>2, <2>3
<1> QED
  BY <1>5 DEF FirstOf

LEMMA FreeRowBelow ==
  ASSUME NEW P \in SUBSET [widget : Id, row : Id, height : Id], IsFiniteSet(P)
  PROVE  FreeRow(P) \in Id /\ \A p \in P : p.row + p.height <= FreeRow(P)
<1> DEFINE E == {p.row + p.height : p \in P}
           ends == {1} \union E
<1>1. ends \subseteq Id
  BY DEF Id
<1>2. IsFiniteSet(ends)
  <2>1. IsFiniteSet(E)
    <3> DEFINE f == [p \in P |-> p.row + p.height]
    <3>1. f \in Surjection(P, E)
      BY DEF Surjection
    <3> QED
      BY <3>1, FS_Surjection
  <2>2. IsFiniteSet(E \union {1})
    BY <2>1, FS_AddElement
  <2>3. ends = E \union {1}
    OBVIOUS
  <2> QED
    BY <2>2, <2>3
<1>3. FreeRow(P) = CHOOSE r \in ends : \A q \in ends : q <= r
  BY DEF FreeRow
<1>4. \E r \in ends : \A q \in ends : q <= r
  <2>1. ends \in SUBSET Nat /\ ends # {}
    BY <1>1 DEF Id
  <2> HIDE DEF ends
  <2> QED
    BY <1>2, <2>1, LargestExists
<1>5. FreeRow(P) \in ends /\ \A q \in ends : q <= FreeRow(P)
  <2> HIDE DEF ends
  <2> QED
    BY <1>3, <1>4
<1> QED
  BY <1>1, <1>5

-----------------------------------------------------------------------------
(* Documents *)

LEMMA WithType ==
  ASSUME NEW f, NEW x, NEW v
  PROVE  /\ DOMAIN With(f, x, v) = DOMAIN f \union {x}
         /\ With(f, x, v)[x] = v
         /\ \A y \in DOMAIN f : y # x => With(f, x, v)[y] = f[y]
         /\ With(f, x, v) = [y \in DOMAIN With(f, x, v) |-> With(f, x, v)[y]]
BY DEF With

LEMMA WithoutType ==
  ASSUME NEW f, NEW x
  PROVE  /\ DOMAIN Without(f, x) = DOMAIN f \ {x}
         /\ \A y \in DOMAIN f \ {x} : Without(f, x)[y] = f[y]
         /\ Without(f, x) = [y \in DOMAIN Without(f, x) |-> Without(f, x)[y]]
BY DEF Without

LEMMA WithTabs ==
  ASSUME NEW t, IsTabs(t), NEW k \in Id, NEW tab \in Tab, IsFiniteSet(tab.positions)
  PROVE  IsTabs(With(t, k, tab))
<1>1. \A j \in DOMAIN With(t, k, tab) : With(t, k, tab)[j] \in Tab /\ IsFiniteSet(With(t, k, tab)[j].positions)
  BY DEF With, IsTabs
<1>2. DOMAIN With(t, k, tab) \subseteq Id
  BY DEF With, IsTabs
<1> QED
  BY <1>1, <1>2 DEF With, IsTabs

LEMMA WithSearch ==
  ASSUME NEW s, IsSearch(s), NEW k \in Id, NEW types \in SUBSET Id
  PROVE  IsSearch(With(s, k, types))
<1>1. \A j \in DOMAIN With(s, k, types) : With(s, k, types)[j] \subseteq Id
  BY DEF With, IsSearch
<1>2. DOMAIN With(s, k, types) \subseteq Id
  BY DEF With, IsSearch
<1> QED
  BY <1>1, <1>2 DEF With, IsSearch

LEMMA ViewFields ==
  ASSUME NEW v, IsView(v)
  PROVE  /\ v.search \in Nat /\ v.title \in Titles /\ IsTabs(v.tabs)
         /\ \A t : LET u == [v EXCEPT !.tabs = t]
                   IN u.tabs = t /\ u.search = v.search /\ u.title = v.title /\ (IsTabs(t) => IsView(u))
         /\ \A n : LET u == [v EXCEPT !.search = n]
                   IN u.tabs = v.tabs /\ u.search = n /\ u.title = v.title /\ (n \in Nat => IsView(u))
         /\ \A n : LET u == [v EXCEPT !.title = n]
                   IN u.tabs = v.tabs /\ u.search = v.search /\ u.title = n /\ (n \in Titles => IsView(u))
BY DEF IsView

LEMMA NoViewType == IsView(NoView) /\ IsSearch(<<>>) /\ DOMAIN NoView.tabs = {}
<1>1. <<>> = [k \in {} |-> k] /\ DOMAIN <<>> = {}
  OBVIOUS
<1>2. IsTabs(<<>>) /\ IsSearch(<<>>)
  BY <1>1 DEF IsTabs, IsSearch
<1> QED
  BY <1>1, <1>2 DEF NoView, IsView, None, Titles

\* A tab with a widget more: the new widget lies below what was there.
RowFor(tab, piece) == IF piece.row = None THEN FreeRow(tab.positions) ELSE piece.row

LEMMA AddedType ==
  ASSUME NEW tab \in Tab, IsFiniteSet(tab.positions), NEW w \in Id, NEW piece \in Piece
  PROVE  /\ Added(tab, w, piece) \in Tab
         /\ IsFiniteSet(Added(tab, w, piece).positions)
         /\ Added(tab, w, piece).widgets = tab.widgets \union {w}
         /\ RowFor(tab, piece) \in Id
         /\ Added(tab, w, piece).positions =
              tab.positions \union {[widget |-> w, row |-> RowFor(tab, piece), height |-> piece.height]}
         /\ piece.row = None => \A p \in tab.positions : p.row + p.height <= RowFor(tab, piece)
         /\ Added(tab, w, piece).mapping = tab.mapping \union Feeds(w, piece)
         /\ Feeds(w, piece) \subseteq {[widget |-> w, type |-> w]}
<1> DEFINE row == RowFor(tab, piece)
<1>1. /\ tab.widgets \in SUBSET Id /\ tab.positions \in SUBSET [widget : Id, row : Id, height : Id]
      /\ tab.mapping \in SUBSET [widget : Id, type : Id]
  BY DEF Tab
<1>2. FreeRow(tab.positions) \in Id /\ \A p \in tab.positions : p.row + p.height <= FreeRow(tab.positions)
  BY <1>1, FreeRowBelow
<1>3. row \in Id /\ (piece.row = None => \A p \in tab.positions : p.row + p.height <= row) /\ piece.height \in Id
  BY <1>2 DEF Piece, Id, None, RowFor
<1> HIDE DEF row
<1>4. /\ Added(tab, w, piece).widgets = tab.widgets \union {w}
      /\ Added(tab, w, piece).positions = tab.positions \union {[widget |-> w, row |-> row, height |-> piece.height]}
      /\ Added(tab, w, piece).mapping = tab.mapping \union Feeds(w, piece)
      /\ Added(tab, w, piece) = [widgets |-> Added(tab, w, piece).widgets, positions |-> Added(tab, w, piece).positions,
                                 mapping |-> Added(tab, w, piece).mapping]
  BY DEF Added, Place, row, RowFor
<1>5. Feeds(w, piece) \subseteq {[widget |-> w, type |-> w]}
  BY DEF Feeds
<1>6. IsFiniteSet(Added(tab, w, piece).positions)
  <2>1. IsFiniteSet(tab.positions \union {[widget |-> w, row |-> row, height |-> piece.height]})
    BY FS_AddElement
  <2> QED
    BY <1>4, <2>1
<1>7. Added(tab, w, piece) \in Tab
  BY <1>1, <1>3, <1>4, <1>5 DEF Tab
<1> QED
  BY <1>3, <1>4, <1>5, <1>6, <1>7 DEF row

LEMMA RemovedType ==
  ASSUME NEW tab \in Tab, IsFiniteSet(tab.positions), NEW w
  PROVE  /\ Removed(tab, w) \in Tab /\ IsFiniteSet(Removed(tab, w).positions)
         /\ Removed(tab, w).widgets = tab.widgets \ {w}
         /\ Removed(tab, w).positions \subseteq tab.positions
         /\ Removed(tab, w).mapping \subseteq tab.mapping
<1>1. /\ Removed(tab, w) \in Tab
      /\ Removed(tab, w).widgets = tab.widgets \ {w}
      /\ Removed(tab, w).positions \subseteq tab.positions
      /\ Removed(tab, w).mapping \subseteq tab.mapping
  BY DEF Tab, Removed
<1> QED
  BY <1>1, FS_Subset

-----------------------------------------------------------------------------
(* Types *)

Server == IsServer(views, searches) /\ nextId \in Id
Locals ==
  /\ pc \in [Slots -> {"idle"} \union Reading \union Writing \union Ended]
  /\ op \in [Slots -> Operations]
  /\ dryRun \in [Slots -> BOOLEAN]
  /\ view = [c \in Slots |-> view[c]] /\ \A c \in Slots : IsView(view[c])
  /\ search = [c \in Slots |-> search[c]] /\ \A c \in Slots : IsSearch(search[c])
  /\ widget \in [Slots -> Nat]
  /\ ncalls \in 0..MaxCalls
  /\ edits \in 0..MaxEdits
History ==
  /\ raced \in [Slots -> BOOLEAN]
  /\ apart \in SUBSET [dashboard : Nat, widget : Nat, tool : Changing]
  /\ stale \in SUBSET Nat
  /\ placed \in SUBSET Id

LEMMA TypeParts == TypeOK <=> Server /\ Locals /\ History
BY DEF TypeOK, Server, Locals, History

\* What a call's next request says of what the call has established.
Controlled ==
  \A c \in Slots :
    /\ pc[c] = "probe" => op[c].tool = "create_dashboard"
    /\ pc[c] = "get_search" => op[c].tool \in Changing /\ Usable(op[c], view[c])
    /\ pc[c] = "put_search" => op[c].tool \in Changing /\ view[c].search # None

Typed == Server /\ Locals /\ History /\ Controlled

LEMMA OperationType ==
  ASSUME NEW o \in Operations
  PROVE  /\ o.dashboard \in Nat /\ o.widget \in Nat /\ o.title \in Titles /\ o.pieces \in Seq(Piece)
         /\ o.tool = "add_widget_from_template" => o.pieces[1] \in Piece
         /\ o.tool = "create_dashboard" => \A i \in DOMAIN o.pieces : o.pieces[i] \in Piece /\ o.pieces[i].row # None
<1>1. o \in Operation
  OBVIOUS
<1>2. o.dashboard \in Nat /\ o.widget \in Nat /\ o.title \in Titles /\ o.pieces \in Seq(Piece)
  BY <1>1 DEF Operation, Changing
<1>3. o.tool = "add_widget_from_template" => Len(o.pieces) = 1
  OBVIOUS
<1>4. o.tool = "create_dashboard" => \A i \in DOMAIN o.pieces : o.pieces[i].row # None
  OBVIOUS
<1> QED
  BY <1>2, <1>3, <1>4

PCs == {"idle"} \union Reading \union Writing \union Ended

\* A step that sets the locals of one call.
Sets(c, p, o, dry, v, s, w) ==
  /\ pc' = [pc EXCEPT ![c] = p]
  /\ op' = [op EXCEPT ![c] = o]
  /\ dryRun' = [dryRun EXCEPT ![c] = dry]
  /\ view' = [view EXCEPT ![c] = v]
  /\ search' = [search EXCEPT ![c] = s]
  /\ widget' = [widget EXCEPT ![c] = w]

LEMMA SetsLocals ==
  ASSUME Typed, NEW c \in Slots, NEW p \in PCs, NEW o \in Operations, NEW dry \in BOOLEAN,
         NEW v, IsView(v), NEW s, IsSearch(s), NEW w \in Nat, Sets(c, p, o, dry, v, s, w),
         ncalls' \in 0..MaxCalls, edits' \in 0..MaxEdits
  PROVE  /\ Locals'
         /\ pc'[c] = p /\ op'[c] = o /\ view'[c] = v
         /\ \A e \in Slots : e # c => pc'[e] = pc[e] /\ view'[e] = view[e] /\ op'[e] = op[e]
<1> USE DEF Typed, Locals, Sets
<1>1. pc' \in [Slots -> PCs] /\ op' \in [Slots -> Operations] /\ dryRun' \in [Slots -> BOOLEAN]
      /\ widget' \in [Slots -> Nat]
  BY DEF PCs
<1>2. view' = [e \in Slots |-> view'[e]] /\ \A e \in Slots : view'[e] = IF e = c THEN v ELSE view[e]
  OBVIOUS
<1>3. search' = [e \in Slots |-> search'[e]] /\ \A e \in Slots : search'[e] = IF e = c THEN s ELSE search[e]
  OBVIOUS
<1>4. /\ pc'[c] = p /\ op'[c] = o /\ view'[c] = v
      /\ \A e \in Slots : e # c => pc'[e] = pc[e] /\ view'[e] = view[e] /\ op'[e] = op[e]
  OBVIOUS
<1>5. \A e \in Slots : IsView(view'[e]) /\ IsSearch(search'[e])
  BY <1>2, <1>3
<1> QED
  BY <1>1, <1>2, <1>3, <1>4, <1>5 DEF PCs

\* What does not change is set to what it is.
LEMMA Unchanging ==
  ASSUME Typed, NEW c \in Slots
  PROVE  /\ pc = [pc EXCEPT ![c] = pc[c]] /\ pc[c] \in PCs
         /\ op = [op EXCEPT ![c] = op[c]] /\ op[c] \in Operations
         /\ dryRun = [dryRun EXCEPT ![c] = dryRun[c]] /\ dryRun[c] \in BOOLEAN
         /\ view = [view EXCEPT ![c] = view[c]] /\ IsView(view[c])
         /\ search = [search EXCEPT ![c] = search[c]] /\ IsSearch(search[c])
         /\ widget = [widget EXCEPT ![c] = widget[c]] /\ widget[c] \in Nat
         /\ ncalls \in 0..MaxCalls /\ edits \in 0..MaxEdits
BY DEF Typed, Locals, PCs

LEMMA EndsLocals ==
  ASSUME Typed, NEW c \in Slots, NEW how \in Ended, Ends(c, how), UNCHANGED <<op, dryRun, ncalls, edits>>
  PROVE  Locals' /\ Controlled'
<1>1. /\ Locals' /\ pc'[c] = how
      /\ \A e \in Slots : e # c => pc'[e] = pc[e] /\ view'[e] = view[e] /\ op'[e] = op[e]
  <2>1. how \in PCs /\ None \in Nat
    BY DEF PCs, None
  <2>2. Sets(c, how, op[c], dryRun[c], NoView, <<>>, None)
    BY Unchanging DEF Ends, Goes, Sets
  <2> QED
    BY <2>1, <2>2, NoViewType, Unchanging, SetsLocals
<1>2. how \notin {"probe", "get_search", "put_search"}
  BY DEF Ended
<1> QED
  BY <1>1, <1>2 DEF Typed, Controlled

LEMMA StartTyped ==
  ASSUME Typed, NEW c \in Slots, NEW o \in Operations, NEW dry \in BOOLEAN, Start(c, o, dry)
  PROVE  Typed'
<1>1. Server' /\ History'
  BY DEF Typed, Server, History, Start
<1>2. \E p \in {"probe", "get_view"} :
        /\ Locals' /\ pc'[c] = p /\ op'[c] = o /\ (p = "probe" => o.tool = "create_dashboard")
        /\ \A e \in Slots : e # c => pc'[e] = pc[e] /\ view'[e] = view[e] /\ op'[e] = op[e]
  <2> DEFINE p == IF o.tool = "create_dashboard" THEN "probe" ELSE "get_view"
  <2>1. p \in PCs /\ p \in {"probe", "get_view"} /\ None \in Nat /\ (p = "probe" => o.tool = "create_dashboard")
    BY DEF PCs, Reading, None
  <2>2. ncalls' \in 0..MaxCalls /\ edits' \in 0..MaxEdits
    BY DEF Typed, Locals, Start
  <2>3. Sets(c, p, o, dry, NoView, <<>>, None)
    BY DEF Start, Sets
  <2> HIDE DEF p
  <2> QED
    BY <2>1, <2>2, <2>3, NoViewType, SetsLocals
<1> QED
  BY <1>1, <1>2 DEF Typed, Controlled

LEMMA StopsTyped ==
  ASSUME Typed, NEW c \in Slots, NEW how \in Ended, Stops(c, how),
         UNCHANGED <<server, op, dryRun, history, ncalls, edits>>
  PROVE  Typed'
<1>1. Server' /\ History'
  BY DEF Typed, Server, History, Stops, server, history
<1>2. Locals' /\ Controlled'
  BY EndsLocals DEF Stops
<1> QED
  BY <1>1, <1>2 DEF Typed

LEMMA RequestFailsTyped ==
  ASSUME Typed, NEW c \in Slots, RequestFails(c)
  PROVE  Typed'
BY StopsTyped DEF RequestFails, Ended

\* A call that goes on after build().
Documents(c, v, s, w) ==
  /\ view' = [view EXCEPT ![c] = v]
  /\ search' = [search EXCEPT ![c] = s]
  /\ widget' = [widget EXCEPT ![c] = w]

LEMMA BuiltLocals ==
  ASSUME Typed, NEW c \in Slots, NEW first \in Writing, Built(c, first), UNCHANGED <<op, dryRun, ncalls, edits>>,
         NEW v, IsView(v), NEW s, IsSearch(s), NEW w \in Nat, Documents(c, v, s, w),
         first = "put_search" => op[c].tool \in Changing /\ v.search # None
  PROVE  Locals' /\ Controlled'
<1>1. PICK p \in {"previewed", first} : p \in PCs /\ pc' = [pc EXCEPT ![c] = p]
  BY DEF Built, Goes, PCs, Ended
<1>2. /\ Locals' /\ pc'[c] = p /\ op'[c] = op[c] /\ view'[c] = v
      /\ \A e \in Slots : e # c => pc'[e] = pc[e] /\ view'[e] = view[e] /\ op'[e] = op[e]
  <2>1. Sets(c, p, op[c], dryRun[c], v, s, w)
    BY <1>1, Unchanging DEF Sets, Documents
  <2> QED
    BY <1>1, <2>1, Unchanging, SetsLocals
<1> QED
  BY <1>1, <1>2 DEF Typed, Controlled, Writing

LEMMA GetViewTyped ==
  ASSUME Typed, NEW c \in Slots, GetView(c)
  PROVE  Typed'
<1> DEFINE d == op[c].dashboard
<1> USE DEF Typed
<1>1. Server' /\ raced' = raced /\ apart' = apart /\ stale' = stale /\ UNCHANGED <<op, dryRun, ncalls, edits>>
      /\ nextId' = nextId /\ placed' = placed
  BY DEF Server, GetView, server, history, Stops
<1>2. History'
  BY <1>1 DEF History
<1>3. /\ view = [view EXCEPT ![c] = view[c]] /\ IsView(view[c])
      /\ search = [search EXCEPT ![c] = search[c]] /\ IsSearch(search[c])
      /\ widget = [widget EXCEPT ![c] = widget[c]] /\ widget[c] \in Nat
      /\ op[c] \in Operations
  BY DEF Locals
<1>4. d \in DOMAIN views => IsView(views[d])
  BY DEF Server, IsServer
<1>5. CASE op[c].tool = "delete_dashboard" /\ Built(c, "delete") /\ UNCHANGED <<view, search, widget>>
  <2>1. Documents(c, view[c], search[c], widget[c]) /\ "delete" \in Writing
    BY <1>3, <1>5 DEF Documents, Writing
  <2>2. Locals' /\ Controlled'
    BY <1>1, <1>3, <1>5, <2>1, BuiltLocals
  <2> QED
    BY <1>1, <1>2, <2>2
<1>6. CASE /\ op[c].tool = "update_dashboard" /\ d \in DOMAIN views
           /\ view' = [view EXCEPT ![c] = [views[d] EXCEPT !.title = op[c].title]]
           /\ Built(c, "put_view") /\ UNCHANGED <<search, widget>>
  <2>1. IsView([views[d] EXCEPT !.title = op[c].title])
    BY <1>3, <1>4, <1>6, OperationType, ViewFields
  <2>2. Documents(c, [views[d] EXCEPT !.title = op[c].title], search[c], widget[c]) /\ "put_view" \in Writing
    BY <1>3, <1>6 DEF Documents, Writing
  <2>3. Locals' /\ Controlled'
    BY <1>1, <1>3, <1>6, <2>1, <2>2, BuiltLocals
  <2> QED
    BY <1>1, <1>2, <2>3
<1>7. CASE /\ op[c].tool \in Changing /\ d \in DOMAIN views /\ Usable(op[c], views[d])
           /\ view' = [view EXCEPT ![c] = views[d]] /\ Goes(c, "get_search") /\ UNCHANGED <<search, widget>>
  <2>1. Locals'
    BY <1>1, <1>4, <1>7 DEF Locals, Goes, Reading
  <2>2. \A e \in Slots : e # c => pc'[e] = pc[e] /\ view'[e] = view[e] /\ op'[e] = op[e]
    BY <1>1, <1>7 DEF Locals, Goes
  <2>3. pc'[c] = "get_search" /\ view'[c] = views[d] /\ op'[c] = op[c]
    BY <1>1, <1>7 DEF Locals, Goes
  <2>4. Controlled'
    BY <1>7, <2>2, <2>3 DEF Controlled
  <2> QED
    BY <1>1, <1>2, <2>1, <2>4
<1>8. CASE Stops(c, "refused")
  BY <1>8, StopsTyped DEF Ended, GetView
<1> QED
  BY <1>5, <1>6, <1>7, <1>8 DEF GetView

\* The two documents a call writes back after replacing tab k and its query.
LEMMA ComposedLocals ==
  ASSUME Typed, NEW c \in Slots, op[c].tool \in Changing, view[c].search # None,
         NEW k \in DOMAIN view[c].tabs, NEW tab \in Tab, IsFiniteSet(tab.positions),
         NEW types \in SUBSET Id, NEW s, IsSearch(s), Composes(c, k, tab, types, s),
         NEW w \in Nat, widget' = [widget EXCEPT ![c] = w],
         NEW first \in {"put_search", "put_view"}, Built(c, first), UNCHANGED <<op, dryRun, ncalls, edits>>
  PROVE  Locals' /\ Controlled'
<1> DEFINE v == [view[c] EXCEPT !.tabs = With(@, k, tab)]
           q == IF k \in DOMAIN s THEN With(s, k, types) ELSE s
<1>1. k \in Id /\ IsTabs(view[c].tabs)
  BY Unchanging, ViewFields DEF IsTabs
<1>2. IsView(v) /\ v.search # None
  <2>1. IsTabs(With(view[c].tabs, k, tab))
    BY <1>1, WithTabs
  <2> QED
    BY <2>1, Unchanging, ViewFields
<1>3. IsSearch(q)
  BY <1>1, WithSearch
<1>4. Documents(c, v, q, w)
  BY DEF Composes, Typed, Locals, Documents
<1> HIDE DEF v, q
<1>5. first \in Writing
  BY DEF Writing
<1> QED
  BY <1>2, <1>3, <1>4, <1>5, BuiltLocals

LEMMA AddToTyped ==
  ASSUME Typed, NEW c \in Slots, pc[c] = "get_search", NEW s, IsSearch(s), op[c].tool = "add_widget_from_template",
         AddTo(c, op[c].pieces[1], s), UNCHANGED <<server, op, dryRun, history, ncalls, edits>>
  PROVE  Typed'
<1> DEFINE piece == op[c].pieces[1]
           k == FirstOf(DOMAIN view[c].tabs)
           tab == Added(view[c].tabs[k], nextId, piece)
           types == At(s, k) \union {m.type : m \in Feeds(nextId, piece)}
<1>1. piece \in Piece /\ nextId \in Id
  BY Unchanging, OperationType DEF Typed, Server
<1>2. op[c].tool \in Changing /\ view[c].search # None /\ DOMAIN view[c].tabs # {}
  BY DEF Typed, Controlled, Usable
<1>3. k \in DOMAIN view[c].tabs /\ view[c].tabs[k] \in Tab /\ IsFiniteSet(view[c].tabs[k].positions)
  <2>1. IsTabs(view[c].tabs)
    BY Unchanging, ViewFields
  <2> QED
    BY <1>2, <2>1, FirstOfType DEF IsTabs
<1> HIDE DEF piece, k
<1>4. tab \in Tab /\ IsFiniteSet(tab.positions) /\ Feeds(nextId, piece) \subseteq {[widget |-> nextId, type |-> nextId]}
  BY <1>1, <1>3, AddedType
<1>5. types \in SUBSET Id
  BY <1>1, <1>4 DEF At, IsSearch
<1>6. CASE /\ Composes(c, k, tab, types, s)
           /\ widget' = [widget EXCEPT ![c] = nextId]
           /\ nextId' = nextId + 1
           /\ placed' = placed \union (IF piece.row = None THEN {nextId} ELSE {})
           /\ Built(c, IF piece.data THEN "put_search" ELSE "put_view")
  <2>1. nextId \in Nat
    BY <1>1 DEF Id
  <2> HIDE DEF tab, types
  <2>2. Locals' /\ Controlled'
    <3> DEFINE first == IF piece.data THEN "put_search" ELSE "put_view"
    <3>1. first \in {"put_search", "put_view"} /\ Built(c, first)
      BY <1>6
    <3> HIDE DEF first
    <3> QED
      BY <1>2, <1>3, <1>4, <1>5, <1>6, <2>1, <3>1, ComposedLocals
  <2>3. Server' /\ History'
    BY <1>1, <1>6 DEF Typed, Server, History, Id, server, history
  <2> QED
    BY <2>2, <2>3 DEF Typed
<1>7. CASE Stops(c, "refused")
  BY <1>7, StopsTyped DEF Ended
<1> QED
  BY <1>6, <1>7 DEF AddTo, piece, k

LEMMA RemoveFromTyped ==
  ASSUME Typed, NEW c \in Slots, pc[c] = "get_search", NEW s, IsSearch(s), op[c].tool = "remove_widget",
         RemoveFrom(c, op[c].widget, s), UNCHANGED <<server, op, dryRun, history, ncalls, edits>>
  PROVE  Typed'
<1> DEFINE w == op[c].widget
           k == TabOf(c, w)
           tab == Removed(view[c].tabs[k], w)
           gone == {m.type : m \in {n \in view[c].tabs[k].mapping : n.widget = w}}
<1>1. w \in Nat
  BY Unchanging, OperationType
<1>2. op[c].tool \in Changing /\ view[c].search # None /\ TabsWith(view[c], w) # {}
  BY DEF Typed, Controlled, Usable
<1>3. k \in DOMAIN view[c].tabs /\ view[c].tabs[k] \in Tab /\ IsFiniteSet(view[c].tabs[k].positions)
  <2>1. IsTabs(view[c].tabs)
    BY Unchanging, ViewFields
  <2>2. TabsWith(view[c], w) \subseteq DOMAIN view[c].tabs /\ TabsWith(view[c], w) \subseteq Id
    BY <2>1 DEF TabsWith, IsTabs
  <2>3. k \in TabsWith(view[c], w)
    BY <1>2, <2>2, FirstOfType DEF TabOf
  <2> QED
    BY <2>1, <2>2, <2>3 DEF IsTabs
<1> HIDE DEF w, k
<1>4. tab \in Tab /\ IsFiniteSet(tab.positions)
  BY <1>3, RemovedType
<1>5. At(s, k) \ gone \in SUBSET Id
  BY DEF At, IsSearch
<1>6. CASE /\ Composes(c, k, tab, At(s, k) \ gone, s)
           /\ widget' = [widget EXCEPT ![c] = w]
           /\ Built(c, "put_search")
           /\ UNCHANGED <<nextId, placed>>
  <2> HIDE DEF tab, gone
  <2>1. Locals' /\ Controlled'
    BY <1>1, <1>2, <1>3, <1>4, <1>5, <1>6, ComposedLocals
  <2>2. Server' /\ History'
    BY <1>6 DEF Typed, Server, History, server, history
  <2> QED
    BY <2>1, <2>2 DEF Typed
<1>7. CASE Stops(c, "refused")
  BY <1>7, StopsTyped DEF Ended
<1> QED
  BY <1>6, <1>7 DEF RemoveFrom, w, k

LEMMA GetSearchTyped ==
  ASSUME Typed, NEW c \in Slots, GetSearch(c)
  PROVE  Typed'
<1>1. IsSearch(searches[view[c].search])
  BY DEF Typed, Server, IsServer, GetSearch
<1>2. op[c].tool \in Changing
  BY DEF Typed, Controlled, GetSearch
<1>3. CASE op[c].tool = "remove_widget"
  BY <1>1, <1>3, RemoveFromTyped DEF GetSearch
<1>4. CASE op[c].tool = "add_widget_from_template"
  BY <1>1, <1>4, AddToTyped DEF GetSearch
<1> QED
  BY <1>2, <1>3, <1>4 DEF Changing
LEMMA Numbered ==
  ASSUME NEW S, NEW s \in Seq(S)
  PROVE  Len(s) \in Nat /\ DOMAIN s = 1..Len(s) /\ IsFiniteSet(DOMAIN s) /\ \A i \in DOMAIN s : i \in Nat /\ i >= 1
<1>1. Len(s) \in Nat /\ DOMAIN s = 1..Len(s)
  OBVIOUS
<1>2. IsFiniteSet(1..Len(s))
  BY <1>1, FS_Interval
<1> QED
  BY <1>1, <1>2

\* A finite set of numbered pieces has finitely many positions.
LEMMA ProbeTyped ==
  ASSUME Typed, NEW c \in Slots, Probe(c)
  PROVE  Typed'
<1> DEFINE pieces == op[c].pieces
           Number(i) == nextId + i - 1
           feeds  == UNION {Feeds(Number(i), pieces[i]) : i \in DOMAIN pieces}
           positions == {Place(Number(i), pieces[i], pieces[i].row) : i \in DOMAIN pieces}
           tab    == [widgets |-> {Number(i) : i \in DOMAIN pieces}, positions |-> positions, mapping |-> feeds]
           v == [search |-> None, title |-> op[c].title, tabs |-> <<tab>>]
           q == <<{m.type : m \in feeds}>>
<1>1. op[c].title \in Titles /\ pieces \in Seq(Piece) /\ nextId \in Id
      /\ \A i \in DOMAIN pieces : pieces[i] \in Piece /\ pieces[i].row # None
  <2>1. op[c].tool = "create_dashboard"
    BY DEF Typed, Controlled, Probe
  <2> QED
    BY <2>1, Unchanging, OperationType DEF Typed, Server
<1>2. \A i \in DOMAIN pieces : Number(i) \in Id /\ pieces[i].row \in Id /\ pieces[i].height \in Id
  <2> HIDE DEF pieces
  <2>1. \A i \in DOMAIN pieces : i \in Nat /\ i >= 1
    BY <1>1, Numbered
  <2>2. \A i \in DOMAIN pieces : Number(i) \in Id
    BY <1>1, <2>1 DEF Id
  <2>3. \A i \in DOMAIN pieces : pieces[i].row \in Id /\ pieces[i].height \in Id
    BY <1>1 DEF Id, Piece, None
  <2> QED
    BY <2>2, <2>3
<1> HIDE DEF Number
<1>3. positions \subseteq [widget : Id, row : Id, height : Id] /\ IsFiniteSet(positions)
  <2>1. IsFiniteSet(DOMAIN pieces)
    <3> HIDE DEF pieces
    <3> QED
      BY <1>1, Numbered
  <2> DEFINE f == [i \in DOMAIN pieces |-> Place(Number(i), pieces[i], pieces[i].row)]
  <2>2. f \in Surjection(DOMAIN pieces, positions)
    BY DEF Surjection
  <2>3. IsFiniteSet(positions)
    <3> HIDE DEF f, positions
    <3> QED
      BY <2>1, <2>2, FS_Surjection
  <2> QED
    BY <1>2, <2>3 DEF Place
<1>4. feeds \subseteq [widget : Id, type : Id]
  BY <1>2 DEF Feeds
<1>5. tab \in Tab /\ IsFiniteSet(tab.positions)
  BY <1>2, <1>3, <1>4 DEF Tab
<1>6. IsView(v)
  <2> HIDE DEF tab
  <2>1. IsTabs(<<tab>>)
    BY <1>5 DEF IsTabs, Id
  <2> QED
    BY <1>1, <2>1 DEF IsView, None
<1>7. IsSearch(q)
  <2>1. {m.type : m \in feeds} \subseteq Id
    BY <1>4
  <2> HIDE DEF feeds
  <2> QED
    BY <2>1 DEF IsSearch, Id
<1>8. view' = [view EXCEPT ![c] = v] /\ search' = [search EXCEPT ![c] = q]
      /\ Built(c, "post_search") /\ UNCHANGED <<op, dryRun, widget, ncalls, edits>>
  BY DEF Probe, Number
<1>9. Server' /\ History'
  <2>1. nextId' = nextId + Len(pieces)
    BY DEF Probe
  <2>2. nextId' \in Id
    <3>1. Len(pieces) \in Nat
      BY <1>1
    <3> HIDE DEF pieces
    <3> QED
      BY <1>1, <2>1, <3>1 DEF Id
  <2>3. UNCHANGED <<views, searches, raced, apart, stale, placed>>
    BY DEF Probe, server, history
  <2> QED
    BY <2>2, <2>3 DEF Typed, Server, History
<1> HIDE DEF v, q
<1>10. Locals' /\ Controlled'
  <2>1. Documents(c, v, q, widget[c]) /\ "post_search" \in Writing
    BY <1>8, Unchanging DEF Documents, Writing
  <2> QED
    BY <1>6, <1>7, <1>8, <2>1, Unchanging, BuiltLocals
<1> QED
  BY <1>9, <1>10 DEF Typed

LEMMA OvertakenType ==
  ASSUME Typed, NEW d, NEW by
  PROVE  Overtaken(d, by) \in [Slots -> BOOLEAN]
BY DEF Typed, History, Overtaken

LEMMA WithServer ==
  ASSUME IsServer(views, searches), NEW i \in Id
  PROVE  /\ \A v : IsView(v) => IsServer(With(views, i, v), searches)
         /\ \A s : IsSearch(s) => IsServer(views, With(searches, i, s))
<1>1. ASSUME NEW v, IsView(v)
      PROVE  IsServer(With(views, i, v), searches)
  <2>1. \A j \in DOMAIN With(views, i, v) : IsView(With(views, i, v)[j])
    BY <1>1 DEF With, IsServer
  <2>2. DOMAIN With(views, i, v) \subseteq Id
        /\ With(views, i, v) = [j \in DOMAIN With(views, i, v) |-> With(views, i, v)[j]]
    BY DEF With, IsServer
  <2> QED
    BY <2>1, <2>2 DEF IsServer
<1>2. ASSUME NEW s, IsSearch(s)
      PROVE  IsServer(views, With(searches, i, s))
  <2>1. \A j \in DOMAIN With(searches, i, s) : IsSearch(With(searches, i, s)[j])
    BY <1>2 DEF With, IsServer
  <2>2. DOMAIN With(searches, i, s) \subseteq Id
        /\ With(searches, i, s) = [j \in DOMAIN With(searches, i, s) |-> With(searches, i, s)[j]]
    BY DEF With, IsServer
  <2> QED
    BY <2>1, <2>2 DEF IsServer
<1> QED
  BY <1>1, <1>2

LEMMA FailureLocals ==
  ASSUME Typed, NEW c \in Slots, Failure(c), UNCHANGED <<op, dryRun, ncalls, edits>>
  PROVE  Locals' /\ Controlled'
BY EndsLocals DEF Failure, Ended

\* A call that goes on to its next write, with view v.
LEMMA GoesOnLocals ==
  ASSUME Typed, NEW c \in Slots, NEW where \in {"put_view", "post_view"}, Goes(c, where),
         NEW v, IsView(v), view' = [view EXCEPT ![c] = v],
         UNCHANGED <<op, dryRun, search, widget, ncalls, edits>>
  PROVE  Locals' /\ Controlled'
<1>1. where \in PCs /\ where \notin {"probe", "get_search", "put_search"}
  BY DEF PCs, Writing
<1>2. Sets(c, where, op[c], dryRun[c], v, search[c], widget[c])
  BY Unchanging DEF Goes, Sets
<1>3. /\ Locals' /\ pc'[c] = where
      /\ \A e \in Slots : e # c => pc'[e] = pc[e] /\ view'[e] = view[e] /\ op'[e] = op[e]
  BY <1>1, <1>2, Unchanging, SetsLocals
<1> QED
  BY <1>1, <1>3 DEF Typed, Controlled

LEMMA HistoryTyped ==
  ASSUME Typed, NEW c \in Slots, placed' = placed,
         Wrote(c) \/ (stale' = stale /\ (raced' = raced \/ raced' = Overtaken(op[c].dashboard, {c}))),
         \/ apart' \subseteq apart
         \/ op[c].tool \in Changing /\ apart' \subseteq apart \union Cut(c)
  PROVE  History'
<1>1. op[c].dashboard \in Nat /\ widget[c] \in Nat
  BY Unchanging, OperationType
<1>2. apart' \in SUBSET [dashboard : Nat, widget : Nat, tool : Changing]
  BY <1>1 DEF Typed, History, Cut
<1>3. raced' \in [Slots -> BOOLEAN] /\ stale' \in SUBSET Nat
  BY <1>1, OvertakenType DEF Typed, History, Wrote
<1> QED
  BY <1>2, <1>3 DEF Typed, History
LEMMA PutSearchTyped ==
  ASSUME Typed, NEW c \in Slots, PutSearch(c)
  PROVE  Typed'
<1>1. op[c].tool \in Changing /\ view[c].search \in Id
  BY Unchanging, ViewFields DEF Typed, Controlled, PutSearch, Id, None
<1>2. Server'
  <2>1. IsServer(views, With(searches, view[c].search, search[c]))
    BY <1>1, Unchanging, WithServer DEF Typed, Server
  <2> QED
    BY <2>1 DEF Typed, Server, PutSearch, history
<1>3. History'
  <2>1. placed' = placed /\ (Wrote(c) \/ (stale' = stale /\ raced' = raced))
        /\ (apart' \subseteq apart \/ apart' \subseteq apart \union Cut(c))
    BY DEF PutSearch, history
  <2> QED
    BY <1>1, <2>1, HistoryTyped
<1>4. Locals' /\ Controlled'
  <2>1. CASE Failure(c)
    BY <2>1, FailureLocals DEF PutSearch
  <2>2. CASE Goes(c, "put_view") /\ UNCHANGED <<view, search, widget>>
    BY <2>2, Unchanging, GoesOnLocals DEF PutSearch
  <2> QED
    BY <2>1, <2>2 DEF PutSearch
<1> QED
  BY <1>2, <1>3, <1>4 DEF Typed

LEMMA PutViewTyped ==
  ASSUME Typed, NEW c \in Slots, PutView(c)
  PROVE  Typed'
<1>1. Server'
  <2>1. CASE views' = With(views, op[c].dashboard, view[c]) /\ op[c].dashboard \in DOMAIN views
    <3>1. op[c].dashboard \in Id
      BY <2>1 DEF Typed, Server, IsServer
    <3>2. IsServer(With(views, op[c].dashboard, view[c]), searches)
      BY <3>1, Unchanging, WithServer DEF Typed, Server
    <3> QED
      BY <2>1, <3>2 DEF Typed, Server, PutView
  <2>2. CASE views' = views
    BY <2>2 DEF Typed, Server, PutView
  <2> QED
    BY <2>1, <2>2 DEF PutView
<1>2. History'
  <2>1. placed' = placed /\ (Wrote(c) \/ (stale' = stale /\ raced' = raced))
    BY DEF PutView
  <2>2. apart' \subseteq apart \/ (op[c].tool \in Changing /\ apart' \subseteq apart \union Cut(c))
    <3>1. apart' \subseteq apart \/ (WritesSearch(op[c]) /\ apart' \subseteq apart \union Cut(c))
      BY DEF PutView
    <3> QED
      BY <3>1 DEF WritesSearch, Changing
  <2> QED
    BY <2>1, <2>2, HistoryTyped
<1>3. Locals' /\ Controlled'
  BY EndsLocals, FailureLocals DEF PutView, Ended
<1> QED
  BY <1>1, <1>2, <1>3 DEF Typed

LEMMA PostSearchTyped ==
  ASSUME Typed, NEW c \in Slots, PostSearch(c)
  PROVE  Typed'
<1>1. nextId \in Id /\ nextId + 1 \in Id /\ nextId \in Nat
  BY DEF Typed, Server, Id
<1>2. Server'
  <2>1. IsServer(views, With(searches, nextId, search[c]))
    BY <1>1, Unchanging, WithServer DEF Typed, Server
  <2> QED
    BY <1>1, <2>1 DEF Typed, Server, PostSearch
<1>3. History'
  BY DEF Typed, History, PostSearch, history
<1>4. Locals' /\ Controlled'
  <2>1. CASE Failure(c) \/ Ends(c, "unresolved_dependency")
    BY <2>1, FailureLocals, EndsLocals DEF PostSearch, Ended
  <2>2. CASE Goes(c, "post_view") /\ view' = [view EXCEPT ![c].search = nextId] /\ UNCHANGED <<search, widget>>
    <3>1. IsView([view[c] EXCEPT !.search = nextId])
      BY <1>1, Unchanging, ViewFields
    <3>2. view' = [view EXCEPT ![c] = [view[c] EXCEPT !.search = nextId]]
      BY <2>2 DEF Typed, Locals
    <3> QED
      BY <2>2, <3>1, <3>2, GoesOnLocals DEF PostSearch
  <2> QED
    BY <2>1, <2>2 DEF PostSearch
<1> QED
  BY <1>2, <1>3, <1>4 DEF Typed

LEMMA PostViewTyped ==
  ASSUME Typed, NEW c \in Slots, PostView(c)
  PROVE  Typed'
<1>1. nextId \in Id /\ nextId + 1 \in Id
  BY DEF Typed, Server, Id
<1>2. Server'
  <2>1. IsServer(With(views, nextId, view[c]), searches)
    BY <1>1, Unchanging, WithServer DEF Typed, Server
  <2> QED
    BY <1>1, <2>1 DEF Typed, Server, PostView
<1>3. History'
  BY DEF Typed, History, PostView, history
<1>4. Locals' /\ Controlled'
  BY FailureLocals, EndsLocals DEF PostView, Ended
<1> QED
  BY <1>2, <1>3, <1>4 DEF Typed

LEMMA WithoutServer ==
  ASSUME IsServer(views, searches), NEW d
  PROVE  IsServer(Without(views, d), searches)
<1>1. /\ DOMAIN Without(views, d) \subseteq Id
      /\ \A e \in DOMAIN Without(views, d) : IsView(Without(views, d)[e])
      /\ Without(views, d) = [e \in DOMAIN Without(views, d) |-> Without(views, d)[e]]
  BY DEF IsServer, Without
<1> QED
  BY <1>1 DEF IsServer

LEMMA DeleteTyped ==
  ASSUME Typed, NEW c \in Slots, Delete(c)
  PROVE  Typed'
<1>1. Server'
  BY WithoutServer DEF Typed, Server, Delete
<1>2. History'
  <2>1. placed' = placed /\ stale' = stale /\ apart' = apart
        /\ (raced' = raced \/ raced' = Overtaken(op[c].dashboard, {c}))
    BY DEF Delete
  <2> QED
    BY <2>1, HistoryTyped
<1>3. Locals' /\ Controlled'
  BY FailureLocals, EndsLocals DEF Delete, Ended
<1> QED
  BY <1>1, <1>2, <1>3 DEF Typed

\* Other users touch no call.
LEMMA EditsTyped ==
  ASSUME Typed, NEW d, Edits(d), Server'
  PROVE  Typed'
<1>1. History'
  BY OvertakenType DEF Typed, History, Edits
<1>2. Locals' /\ Controlled'
  <2>1. UNCHANGED <<pc, op, dryRun, view, search, widget, ncalls>> /\ edits' \in 0..MaxEdits
    BY DEF Typed, Locals, Edits, calls
  <2> QED
    BY <2>1 DEF Typed, Locals, Controlled
<1> QED
  BY <1>1, <1>2 DEF Typed

LEMMA OtherUsersTyped ==
  ASSUME Typed, OtherUsers
  PROVE  Typed'
<1> USE DEF Typed, Server
<1>1. PICK d \in DOMAIN views : Retitle(d) \/ DeleteInBrowser(d) \/ \E k \in DOMAIN views[d].tabs : AddInBrowser(d, k)
  BY DEF OtherUsers
<1>2. IsView(views[d]) /\ d \in Id /\ IsTabs(views[d].tabs) /\ views = [e \in DOMAIN views |-> views[e]]
  BY ViewFields DEF IsServer
<1>3. ASSUME NEW v, IsView(v)
      PROVE  IsServer([views EXCEPT ![d] = v], searches)
  BY <1>2, <1>3 DEF IsServer
<1>4. CASE Retitle(d)
  <2>1. IsView([views[d] EXCEPT !.title = "other"])
    BY <1>2, ViewFields DEF Titles
  <2>2. Server'
    <3>1. views' = [views EXCEPT ![d] = [views[d] EXCEPT !.title = "other"]] /\ UNCHANGED <<searches, nextId>>
      BY <1>4 DEF Retitle
    <3> QED
      BY <1>3, <2>1, <3>1
  <2> QED
    BY <1>4, <2>2, EditsTyped DEF Retitle
<1>5. CASE DeleteInBrowser(d)
  BY <1>5, EditsTyped, WithoutServer DEF DeleteInBrowser
<1>6. ASSUME NEW k \in DOMAIN views[d].tabs, AddInBrowser(d, k)
      PROVE  Typed'
  <2> DEFINE piece == [data |-> TRUE, row |-> None, height |-> 1]
             tab == Added(views[d].tabs[k], nextId, piece)
             tabs == [views[d].tabs EXCEPT ![k] = tab]
             s == views[d].search
  <2>1. piece \in Piece
    BY DEF Piece, None, Id
  <2>2. tab \in Tab /\ IsFiniteSet(tab.positions)
    <3> HIDE DEF piece
    <3>1. views[d].tabs[k] \in Tab /\ IsFiniteSet(views[d].tabs[k].positions)
      BY <1>2 DEF IsTabs
    <3> QED
      BY <2>1, <3>1, AddedType
  <2> HIDE DEF tab, piece
  <2>3. IsView([views[d] EXCEPT !.tabs = tabs])
    <3>1. IsTabs(tabs)
      BY <1>2, <2>2 DEF IsTabs
    <3> QED
      BY <1>2, <3>1, ViewFields
  <2>4. /\ s \in DOMAIN searches /\ k \in DOMAIN searches[s]
        /\ views' = [views EXCEPT ![d].tabs[k] = tab]
        /\ searches' = [searches EXCEPT ![s][k] = @ \union {nextId}]
        /\ nextId' = nextId + 1
    BY <1>6 DEF AddInBrowser, tab, piece
  <2>5. views' = [views EXCEPT ![d] = [views[d] EXCEPT !.tabs = tabs]]
    BY <2>4
  <2>6. IsSearch([searches[s] EXCEPT ![k] = @ \union {nextId}])
    BY <2>4 DEF IsSearch, IsServer
  <2>7. searches' = [searches EXCEPT ![s] = [searches[s] EXCEPT ![k] = @ \union {nextId}]]
    BY <2>4
  <2>8. IsServer(views', searches)
    BY <1>3, <2>3, <2>5
  <2>9. IsServer(views, searches')
    BY <2>6, <2>7 DEF IsServer
  <2>10. Server'
    <3>1. nextId' \in Id
      BY <2>4 DEF Id
    <3> QED
      BY <2>8, <2>9, <3>1 DEF IsServer
  <2> QED
    BY <1>6, <2>10, EditsTyped DEF AddInBrowser
<1> QED
  BY <1>1, <1>4, <1>5, <1>6

LEMMA InitTyped == Init => Typed
<1> SUFFICES ASSUME Init PROVE Typed
  OBVIOUS
<1>1. Server
  BY DEF Server, Init
<1>2. (CHOOSE o \in Operations : TRUE) \in Operations
  OBVIOUS
<1>3. Locals
  BY <1>2, NoViewType DEF Locals, Init, None
<1>4. History
  BY <1>1 DEF History, Server, IsServer, Init, Id
<1>5. Controlled
  BY DEF Controlled, Init
<1> QED
  BY <1>1, <1>3, <1>4, <1>5 DEF Typed

LEMMA NextTyped == Typed /\ [Next]_vars => Typed'
<1> SUFFICES ASSUME Typed, [Next]_vars PROVE Typed'
  OBVIOUS
<1>1. CASE UNCHANGED vars
  BY <1>1 DEF Typed, Server, Locals, History, Controlled, vars, calls
<1>2. ASSUME NEW c \in Slots, Call(c) PROVE Typed'
  BY <1>2, StartTyped DEF Call
<1>3. ASSUME NEW c \in Slots, Step(c) PROVE Typed'
  BY <1>3, RequestFailsTyped, GetViewTyped, GetSearchTyped, ProbeTyped, PutSearchTyped, PutViewTyped,
     PostSearchTyped, PostViewTyped, DeleteTyped DEF Step
<1>4. CASE OtherUsers
  BY <1>4, OtherUsersTyped
<1> QED
  BY <1>1, <1>2, <1>3, <1>4 DEF Next

\* TypeOK: the documents stay well formed and no call is in a state the code
\* does not have.
THEOREM TypeCorrect == Spec => []TypeOK
<1>1. Typed => TypeOK
  BY TypeParts DEF Typed
<1> QED
  BY <1>1, InitTyped, NextTyped, PTL DEF Spec
-----------------------------------------------------------------------------
(* Widgets placed by the tool *)

\* Among widgets with ids below n, those in pl lie below the earlier ones; the
\* ids of search types are below n as well.
Sound(tabs, n, pl) ==
  \A k \in DOMAIN tabs :
    /\ \A w \in tabs[k].widgets : w < n
    /\ \A m \in tabs[k].mapping : m.type < n
    /\ \A p \in tabs[k].positions :
         /\ p.widget < n
         /\ \A q \in tabs[k].positions : p.widget \in pl /\ q.widget < p.widget => p.row >= q.row + q.height

\* PlacedClear, of what calls hold as well: ids are drawn in order, and a place
\* found below a view's widgets is not given away while the view is held.
Places ==
  /\ \A w \in placed : w < nextId
  /\ \A d \in DOMAIN views : Sound(views[d].tabs, nextId, placed)
  /\ \A c \in Slots : Sound(view[c].tabs, nextId, placed)

Kept(tabs) ==
  \/ tabs = <<>>
  \/ \E d \in DOMAIN views : tabs = views[d].tabs
  \/ \E c \in Slots : tabs = view[c].tabs

\* New ids disturb nothing that is there.
LEMMA PlacesStep ==
  ASSUME Typed, Places, nextId' \in Id, nextId <= nextId',
         placed' \subseteq Id, \A w \in placed' : w < nextId' /\ (w \in placed \/ nextId <= w),
         \A d \in DOMAIN views' : Kept(views'[d].tabs) \/ Sound(views'[d].tabs, nextId', placed'),
         \A c \in Slots : Kept(view'[c].tabs) \/ Sound(view'[c].tabs, nextId', placed')
  PROVE  Places'
<1>1. ASSUME NEW tabs, IsTabs(tabs), Sound(tabs, nextId, placed)
      PROVE  Sound(tabs, nextId', placed')
  <2>0. \A k \in DOMAIN tabs : (\A w \in tabs[k].widgets : w < nextId') /\ \A m \in tabs[k].mapping : m.type < nextId'
    <3>1. \A k \in DOMAIN tabs : (\A w \in tabs[k].widgets : w \in Nat /\ w < nextId)
                              /\ \A m \in tabs[k].mapping : m.type \in Nat /\ m.type < nextId
      BY <1>1 DEF Sound, IsTabs, Tab, Id
    <3> QED
      BY <3>1 DEF Typed, Server, Id
  <2> SUFFICES ASSUME NEW k \in DOMAIN tabs, NEW p \in tabs[k].positions
               PROVE  /\ p.widget < nextId'
                      /\ \A q \in tabs[k].positions :
                           p.widget \in placed' /\ q.widget < p.widget => p.row >= q.row + q.height
    BY <2>0, Zenon DEF Sound
  <2>1. p.widget \in Nat /\ nextId \in Nat /\ nextId' \in Nat
    BY <1>1 DEF Typed, Server, IsTabs, Tab, Id
  <2>2. p.widget < nextId
    BY <1>1 DEF Sound
  <2>3. p.widget \in placed' => p.widget \in placed
    BY <2>1, <2>2
  <2>4. p.widget < nextId'
    BY <2>1, <2>2
  <2> QED
    BY <1>1, <2>3, <2>4 DEF Sound
<1>2. Sound(<<>>, nextId', placed')
  BY DEF Sound
<1>3. \A tabs : Kept(tabs) => Sound(tabs, nextId', placed')
  <2>1. \A d \in DOMAIN views : IsTabs(views[d].tabs)
    BY ViewFields DEF Typed, Server, IsServer
  <2>2. \A c \in Slots : IsTabs(view[c].tabs)
    BY ViewFields DEF Typed, Locals
  <2> QED
    BY <1>1, <1>2, <2>1, <2>2 DEF Kept, Places
<1> QED
  BY <1>3 DEF Places

\* The tabs new are the tabs t, with widget n in tab k.
Adds(new, t, k, n, piece) ==
  /\ k \in DOMAIN t
  /\ DOMAIN new = DOMAIN t
  /\ new[k] = Added(t[k], n, piece)
  /\ \A j \in DOMAIN t : j # k => new[j] = t[j]

LEMMA AddedSound ==
  ASSUME NEW t, IsTabs(t), NEW k, NEW n \in Id, NEW piece \in Piece, NEW pl, NEW new,
         Sound(t, n, pl), IsTabs(new), Adds(new, t, k, n, piece), n \notin pl
  PROVE  /\ Sound(new, n + 1, pl)
         /\ piece.row = None => Sound(new, n + 1, pl \union {n})
<1> USE DEF Adds
<1>1. t[k] \in Tab /\ IsFiniteSet(t[k].positions)
  BY DEF IsTabs
<1> DEFINE row == RowFor(t[k], piece)
<1>2. /\ row \in Id
      /\ new[k].positions = t[k].positions \union {[widget |-> n, row |-> row, height |-> piece.height]}
      /\ piece.row = None => \A p \in t[k].positions : p.row + p.height <= row
  BY <1>1, AddedType
<1> HIDE DEF row
<1>3. \A j \in DOMAIN t : \A p \in t[j].positions : p.widget \in Nat /\ p.row \in Nat /\ p.height \in Nat /\ p.widget < n
  BY DEF IsTabs, Tab, Id, Sound
<1>4. n \in Nat /\ row \in Nat
  BY <1>2 DEF Id
<1>5. \A j \in DOMAIN t : \A p, q \in t[j].positions :
        p.widget \in pl \union {n} /\ q.widget < p.widget => p.row >= q.row + q.height
  BY <1>3, <1>4 DEF Sound
<1>6. \A j \in DOMAIN t : \A p \in t[j].positions : p.widget < n + 1
  BY <1>3, <1>4
<1> DEFINE place == [widget |-> n, row |-> row, height |-> piece.height]
<1>7. \A q \in t[k].positions : ~(n < q.widget) /\ (piece.row = None => row >= q.row + q.height)
  BY <1>2, <1>3, <1>4
<1>8. ASSUME NEW pm \in {pl, pl \union {n}}, piece.row = None \/ pm = pl
      PROVE  Sound(new, n + 1, pm)
  <2>a. \A j \in DOMAIN new : \A m \in new[j].mapping : m.type < n + 1
    <3>1. \A j \in DOMAIN t : \A m \in t[j].mapping : m.type < n /\ m.type \in Nat
      BY DEF Sound, IsTabs, Tab, Id
    <3>2. \A m \in new[k].mapping : m \in t[k].mapping \/ m.type = n
      BY DEF Added, Feeds
    <3> QED
      BY <1>4, <3>1, <3>2
  <2>0. \A j \in DOMAIN new : \A w \in new[j].widgets : w < n + 1
    <3>1. \A j \in DOMAIN t : \A w \in t[j].widgets : w < n /\ w \in Nat
      BY DEF Sound, IsTabs, Tab, Id
    <3>2. new[k].widgets = t[k].widgets \union {n}
      BY DEF Added
    <3> QED
      BY <1>4, <3>1, <3>2
  <2> SUFFICES ASSUME NEW j \in DOMAIN new, NEW p \in new[j].positions
               PROVE  /\ p.widget < n + 1
                      /\ \A q \in new[j].positions :
                           p.widget \in pm /\ q.widget < p.widget => p.row >= q.row + q.height
    BY <2>a, <2>0, Zenon DEF Sound
  <2>1. CASE j # k
    BY <1>5, <1>6, <2>1
  <2>2. CASE j = k
    <3>1. new[j].positions = t[k].positions \union {place}
      BY <1>2, <2>2
    <3>2. place.widget = n /\ place.row = row /\ n < n + 1 /\ ~(n < n)
      BY <1>4
    <3> HIDE DEF place
    <3>3. CASE p = place
      BY <1>7, <1>8, <3>1, <3>2, <3>3
    <3>4. CASE p \in t[k].positions
      BY <1>5, <1>6, <1>7, <3>1, <3>2, <3>4
    <3> QED
      BY <3>1, <3>3, <3>4
  <2> QED
    BY <2>1, <2>2
<1> QED
  BY <1>8
LEMMA RemovedSound ==
  ASSUME NEW t, IsTabs(t), NEW k \in DOMAIN t, NEW w, NEW n, NEW pl, Sound(t, n, pl)
  PROVE  Sound(With(t, k, Removed(t[k], w)), n, pl)
<1>1. \A j \in DOMAIN With(t, k, Removed(t[k], w)) :
        /\ j \in DOMAIN t
        /\ With(t, k, Removed(t[k], w))[j].widgets \subseteq t[j].widgets
        /\ With(t, k, Removed(t[k], w))[j].mapping \subseteq t[j].mapping
        /\ With(t, k, Removed(t[k], w))[j].positions \subseteq t[j].positions
  BY DEF With, Removed
<1> QED
  BY <1>1 DEF Sound

\* Steps that draw no id for a widget, and write what was there.
LEMMA QuietPlaces ==
  ASSUME Typed, Places, nextId' = nextId \/ nextId' = nextId + 1, placed' = placed,
         \A d \in DOMAIN views' : Kept(views'[d].tabs),
         \A c \in Slots : Kept(view'[c].tabs)
  PROVE  Places'
<1>1. nextId \in Nat /\ placed \subseteq Id /\ nextId' \in Id /\ nextId <= nextId'
  BY DEF Typed, Server, History, Id
<1>2. \A w \in placed : w < nextId'
  BY <1>1 DEF Places, Id
<1> QED
  BY <1>1, <1>2, PlacesStep

LEMMA EndsKept ==
  ASSUME Typed, NEW c \in Slots, NEW how, Ends(c, how)
  PROVE  \A e \in Slots : Kept(view'[e].tabs)
<1>1. view' = [view EXCEPT ![c] = NoView] /\ NoView.tabs = <<>>
  BY DEF Ends, NoView
<1>2. \A e \in Slots : view'[e] = IF e = c THEN NoView ELSE view[e]
  BY <1>1 DEF Typed, Locals
<1> QED
  BY <1>1, <1>2 DEF Kept

\* Setting one view, to tabs that were there.
LEMMA SetKept ==
  ASSUME Typed, NEW c \in Slots, NEW v, view' = [view EXCEPT ![c] = v], Kept(v.tabs)
  PROVE  \A e \in Slots : Kept(view'[e].tabs)
<1>1. \A e \in Slots : view'[e] = IF e = c THEN v ELSE view[e]
  BY DEF Typed, Locals
<1> QED
  BY <1>1 DEF Kept

LEMMA WithKept ==
  ASSUME Typed, NEW c \in Slots, NEW d, views' = With(views, d, view[c])
  PROVE  \A e \in DOMAIN views' : Kept(views'[e].tabs)
BY DEF With, Kept

LEMMA StartPlaces ==
  ASSUME Typed, Places, NEW c \in Slots, NEW o \in Operations, NEW dry \in BOOLEAN, Start(c, o, dry)
  PROVE  Places'
<1>1. view' = [view EXCEPT ![c] = NoView] /\ Kept(NoView.tabs)
  BY DEF Start, NoView, Kept
<1> QED
  BY <1>1, SetKept, QuietPlaces DEF Start, Kept

LEMMA StopsPlaces ==
  ASSUME Typed, Places, NEW c \in Slots, NEW how, Stops(c, how), UNCHANGED server
  PROVE  Places'
BY EndsKept, QuietPlaces DEF Stops, server, Kept

LEMMA GetViewPlaces ==
  ASSUME Typed, Places, NEW c \in Slots, GetView(c)
  PROVE  Places'
<1> DEFINE d == op[c].dashboard
<1>1. \A e \in DOMAIN views : Kept(views[e].tabs)
  BY DEF Kept
<1>2. UNCHANGED <<views, nextId, placed>>
  BY DEF GetView, Stops, server
<1>3. \A e \in Slots : Kept(view'[e].tabs)
  <2>1. CASE view' = view
    BY <2>1 DEF Kept
  <2>2. CASE d \in DOMAIN views /\ view' = [view EXCEPT ![c] = [views[d] EXCEPT !.title = op[c].title]]
    <3>1. IsView(views[d])
      BY <2>2 DEF Typed, Server, IsServer
    <3>2. [views[d] EXCEPT !.title = op[c].title].tabs = views[d].tabs
      BY <3>1, ViewFields
    <3> QED
      BY <1>1, <2>2, <3>2, SetKept
  <2>3. CASE d \in DOMAIN views /\ view' = [view EXCEPT ![c] = views[d]]
    BY <1>1, <2>3, SetKept
  <2>4. CASE Stops(c, "refused")
    BY <2>4, EndsKept DEF Stops
  <2> QED
    BY <2>1, <2>2, <2>3, <2>4 DEF GetView
<1> QED
  BY <1>1, <1>2, <1>3, QuietPlaces

\* Steps of one call that set its view to sound tabs.
LEMMA SetPlaces ==
  ASSUME Typed, Places, NEW c \in Slots, NEW v, view' = [view EXCEPT ![c] = v],
         nextId' \in Id, nextId <= nextId', UNCHANGED views,
         placed' \subseteq Id, \A w \in placed' : w < nextId' /\ (w \in placed \/ nextId <= w),
         Sound(v.tabs, nextId', placed')
  PROVE  Places'
<1>1. \A e \in Slots : view'[e] = IF e = c THEN v ELSE view[e]
  BY DEF Typed, Locals
<1>2. \A e \in Slots : Kept(view'[e].tabs) \/ Sound(view'[e].tabs, nextId', placed')
  BY <1>1 DEF Kept
<1>3. \A d \in DOMAIN views' : Kept(views'[d].tabs)
  BY DEF Kept
<1> QED
  BY <1>2, <1>3, PlacesStep

LEMMA AddToPlaces ==
  ASSUME Typed, Places, NEW c \in Slots, pc[c] = "get_search", NEW s, op[c].tool = "add_widget_from_template",
         AddTo(c, op[c].pieces[1], s), UNCHANGED server
  PROVE  Places'
<1> DEFINE piece == op[c].pieces[1]
           t == view[c].tabs
           k == FirstOf(DOMAIN t)
           tab == Added(t[k], nextId, piece)
           types == At(s, k) \union {m.type : m \in Feeds(nextId, piece)}
           v == [view[c] EXCEPT !.tabs = With(@, k, tab)]
<1>1. piece \in Piece /\ nextId \in Id /\ IsView(view[c]) /\ IsTabs(t)
  BY Unchanging, OperationType, ViewFields DEF Typed, Server
<1>2. k \in DOMAIN t /\ k \in Id
  <2>1. DOMAIN t # {}
    BY DEF Typed, Controlled, Usable
  <2> QED
    BY <1>1, <2>1, FirstOfType DEF IsTabs
<1>3. CASE Stops(c, "refused")
  BY <1>3, StopsPlaces
<1>4. CASE /\ Composes(c, k, tab, types, s)
           /\ nextId' = nextId + 1
           /\ placed' = placed \union (IF piece.row = None THEN {nextId} ELSE {})
  <2> HIDE DEF piece, k
  <2>1. tab \in Tab /\ IsFiniteSet(tab.positions)
    BY <1>1, <1>2, AddedType DEF IsTabs
  <2> DEFINE new == With(t, k, tab)
  <2>2. IsTabs(new) /\ DOMAIN new = DOMAIN t /\ new[k] = tab /\ \A j \in DOMAIN t : j # k => new[j] = t[j]
    <3>1. IsTabs(new)
      BY <1>1, <1>2, <2>1, WithTabs
    <3> QED
      BY <1>2, <3>1 DEF With
  <2>3. view' = [view EXCEPT ![c] = v] /\ v.tabs = new
    <3>1. view' = [view EXCEPT ![c] = v]
      BY <1>4 DEF Composes, Typed, Locals
    <3> QED
      BY <1>1, <3>1, ViewFields
  <2>4. nextId \in Nat /\ nextId' = nextId + 1 /\ nextId' \in Id /\ placed \subseteq Id
        /\ nextId \notin placed /\ \A w \in placed : w < nextId'
    BY <1>1, <1>4 DEF Places, Typed, History, Id
  <2>5. Sound(t, nextId, placed)
    BY DEF Places
  <2>6. Sound(new, nextId + 1, placed) /\ (piece.row = None => Sound(new, nextId + 1, placed \union {nextId}))
    <3>1. Adds(new, t, k, nextId, piece)
      BY <1>2, <2>2 DEF Adds
    <3> HIDE DEF t, new
    <3> QED
      BY <1>1, <2>2, <2>4, <2>5, <3>1, AddedSound
  <2>7. Sound(new, nextId', placed')
    BY <1>4, <2>6
  <2>8. placed' \subseteq Id /\ \A w \in placed' : w < nextId' /\ (w \in placed \/ nextId <= w)
    BY <1>1, <1>4, <2>4
  <2>9. nextId <= nextId' /\ UNCHANGED views /\ Sound(v.tabs, nextId', placed')
    BY <2>3, <2>4, <2>7 DEF server
  <2> HIDE DEF v, new
  <2> QED
    BY <2>3, <2>4, <2>8, <2>9, SetPlaces
<1> QED
  BY <1>3, <1>4 DEF AddTo

LEMMA RemoveFromPlaces ==
  ASSUME Typed, Places, NEW c \in Slots, pc[c] = "get_search", NEW s, op[c].tool = "remove_widget",
         RemoveFrom(c, op[c].widget, s), UNCHANGED server
  PROVE  Places'
<1> DEFINE w == op[c].widget
           t == view[c].tabs
           k == TabOf(c, w)
           v == [view[c] EXCEPT !.tabs = With(@, k, Removed(t[k], w))]
<1>1. IsView(view[c]) /\ IsTabs(t)
  BY Unchanging, ViewFields
<1>2. k \in DOMAIN t
  <2>1. TabsWith(view[c], w) # {} /\ TabsWith(view[c], w) \subseteq Id /\ TabsWith(view[c], w) \subseteq DOMAIN t
    BY <1>1 DEF Typed, Controlled, Usable, TabsWith, IsTabs
  <2> QED
    BY <2>1, FirstOfType DEF TabOf
<1>3. CASE Stops(c, "refused")
  BY <1>3, StopsPlaces
<1>4. CASE /\ view' = [view EXCEPT ![c].tabs = With(@, k, Removed(t[k], w))]
           /\ UNCHANGED <<nextId, placed>>
  <2> HIDE DEF k, w
  <2>1. view' = [view EXCEPT ![c] = v]
    BY <1>4 DEF Typed, Locals
  <2>2. Sound(v.tabs, nextId', placed')
    <3>1. Sound(t, nextId, placed)
      BY DEF Places
    <3>2. Sound(With(t, k, Removed(t[k], w)), nextId, placed)
      BY <1>1, <1>2, <3>1, RemovedSound
    <3> QED
      BY <1>1, <1>4, <3>2, ViewFields
  <2>3. nextId' \in Id /\ nextId <= nextId' /\ UNCHANGED views /\ placed' \subseteq Id
        /\ \A x \in placed' : x < nextId' /\ (x \in placed \/ nextId <= x)
    BY <1>4 DEF Typed, Server, History, Places, Id, server
  <2> HIDE DEF v
  <2> QED
    BY <2>1, <2>2, <2>3, SetPlaces
<1> QED
  BY <1>3, <1>4 DEF RemoveFrom, Composes
\* The widgets of a new dashboard have new ids, and none is a placed one.
LEMMA ProbePlaces ==
  ASSUME Typed, Places, NEW c \in Slots, Probe(c)
  PROVE  Places'
<1> DEFINE pieces == op[c].pieces
           Number(i) == nextId + i - 1
           feeds  == UNION {Feeds(Number(i), pieces[i]) : i \in DOMAIN pieces}
           positions == {Place(Number(i), pieces[i], pieces[i].row) : i \in DOMAIN pieces}
           tab    == [widgets |-> {Number(i) : i \in DOMAIN pieces}, positions |-> positions, mapping |-> feeds]
           v == [search |-> None, title |-> op[c].title, tabs |-> <<tab>>]
<1>1. pieces \in Seq(Piece) /\ nextId \in Id /\ placed \subseteq Id /\ \A w \in placed : w < nextId
  BY Unchanging, OperationType DEF Typed, Server, History, Places
<1>2. Len(pieces) \in Nat /\ DOMAIN pieces = 1..Len(pieces)
  BY <1>1
<1>3. view' = [view EXCEPT ![c] = v] /\ UNCHANGED views /\ placed' = placed
  BY DEF Probe, server
<1>4. nextId' = nextId + Len(pieces)
  BY DEF Probe
<1>5. nextId' \in Id /\ nextId <= nextId' /\ placed' \subseteq Id
      /\ \A w \in placed' : w < nextId' /\ (w \in placed \/ nextId <= w)
  <2> HIDE DEF pieces
  <2> QED
    BY <1>1, <1>2, <1>3, <1>4 DEF Id
<1>6. /\ \A p \in positions : p.widget < nextId' /\ p.widget \notin placed
      /\ \A w \in tab.widgets : w < nextId'
      /\ \A m \in tab.mapping : m.type < nextId'
  <2>1. \A i \in 1..Len(pieces) : Number(i) < nextId' /\ Number(i) \notin placed
    <3> HIDE DEF pieces
    <3> QED
      BY <1>1, <1>2, <1>4 DEF Id
  <2> HIDE DEF Number
  <2> QED
    BY <1>2, <2>1 DEF Place, Feeds
<1>7. Sound(v.tabs, nextId', placed')
  <2> HIDE DEF positions
  <2>1. /\ v.tabs = <<tab>> /\ tab.positions = positions /\ \A w \in tab.widgets : w < nextId'
        /\ \A m \in tab.mapping : m.type < nextId'
    BY <1>6
  <2> HIDE DEF v, tab
  <2> QED
    BY <1>3, <1>6, <2>1 DEF Sound
<1> HIDE DEF v
<1> QED
  BY <1>3, <1>5, <1>7, SetPlaces

LEMMA PutSearchPlaces ==
  ASSUME Typed, Places, NEW c \in Slots, PutSearch(c)
  PROVE  Places'
<1>1. Failure(c) \/ view' = view
  BY DEF PutSearch
<1>2. \A e \in Slots : Kept(view'[e].tabs)
  BY <1>1, EndsKept DEF Failure, Kept
<1>3. UNCHANGED <<views, nextId, placed>>
  BY DEF PutSearch
<1> QED
  BY <1>2, <1>3, QuietPlaces DEF Kept

LEMMA PutViewPlaces ==
  ASSUME Typed, Places, NEW c \in Slots, PutView(c)
  PROVE  Places'
<1>1. \A e \in Slots : Kept(view'[e].tabs)
  BY EndsKept DEF PutView, Failure
<1>2. \A d \in DOMAIN views' : Kept(views'[d].tabs)
  BY WithKept DEF PutView, Kept
<1>3. UNCHANGED <<nextId, placed>>
  BY DEF PutView
<1> QED
  BY <1>1, <1>2, <1>3, QuietPlaces

LEMMA PostSearchPlaces ==
  ASSUME Typed, Places, NEW c \in Slots, PostSearch(c)
  PROVE  Places'
<1>1. \A e \in Slots : Kept(view'[e].tabs)
  <2>1. CASE view' = [view EXCEPT ![c].search = nextId]
    <3>1. view' = [view EXCEPT ![c] = [view[c] EXCEPT !.search = nextId]]
      BY <2>1 DEF Typed, Locals
    <3>2. Kept([view[c] EXCEPT !.search = nextId].tabs)
      BY Unchanging, ViewFields DEF Kept
    <3> QED
      BY <3>1, <3>2, SetKept
  <2> QED
    BY <2>1, EndsKept DEF PostSearch, Failure
<1>2. UNCHANGED <<views, placed>> /\ (nextId' = nextId \/ nextId' = nextId + 1)
  BY DEF PostSearch
<1> QED
  BY <1>1, <1>2, QuietPlaces DEF Kept

LEMMA PostViewPlaces ==
  ASSUME Typed, Places, NEW c \in Slots, PostView(c)
  PROVE  Places'
<1>1. \A e \in Slots : Kept(view'[e].tabs)
  BY EndsKept DEF PostView, Failure
<1>2. \A d \in DOMAIN views' : Kept(views'[d].tabs)
  BY WithKept DEF PostView, Kept
<1>3. placed' = placed /\ (nextId' = nextId \/ nextId' = nextId + 1)
  BY DEF PostView
<1> QED
  BY <1>1, <1>2, <1>3, QuietPlaces

LEMMA DeletePlaces ==
  ASSUME Typed, Places, NEW c \in Slots, Delete(c)
  PROVE  Places'
<1>1. \A e \in Slots : Kept(view'[e].tabs)
  BY EndsKept DEF Delete, Failure
<1>2. \A d \in DOMAIN views' : Kept(views'[d].tabs)
  BY DEF Delete, Kept, Without
<1>3. UNCHANGED <<nextId, placed>>
  BY DEF Delete
<1> QED
  BY <1>1, <1>2, <1>3, QuietPlaces

LEMMA OtherUsersPlaces ==
  ASSUME Typed, Places, OtherUsers
  PROVE  Places'
<1>1. PICK d \in DOMAIN views : Retitle(d) \/ DeleteInBrowser(d) \/ \E k \in DOMAIN views[d].tabs : AddInBrowser(d, k)
  BY DEF OtherUsers
<1>2. IsView(views[d]) /\ IsTabs(views[d].tabs) /\ views = [e \in DOMAIN views |-> views[e]]
  BY ViewFields DEF Typed, Server, IsServer
<1>3. placed' = placed /\ \A c \in Slots : Kept(view'[c].tabs)
  BY <1>1 DEF Retitle, DeleteInBrowser, AddInBrowser, Edits, calls, Kept
<1>4. CASE Retitle(d)
  <2>1. views' = [views EXCEPT ![d] = [views[d] EXCEPT !.title = "other"]]
    BY <1>4 DEF Retitle
  <2>2. [views[d] EXCEPT !.title = "other"].tabs = views[d].tabs
    BY <1>2, ViewFields
  <2>3. \A e \in DOMAIN views' : Kept(views'[e].tabs)
    BY <2>1, <2>2 DEF Kept
  <2> QED
    BY <1>3, <1>4, <2>3, QuietPlaces DEF Retitle
<1>5. CASE DeleteInBrowser(d)
  <2>1. \A e \in DOMAIN views' : Kept(views'[e].tabs)
    BY <1>5 DEF DeleteInBrowser, Without, Kept
  <2> QED
    BY <1>3, <1>5, <2>1, QuietPlaces DEF DeleteInBrowser
<1>6. ASSUME NEW k \in DOMAIN views[d].tabs, AddInBrowser(d, k)
      PROVE  Places'
  <2> DEFINE piece == [data |-> TRUE, row |-> None, height |-> 1]
             t == views[d].tabs
             tab == Added(t[k], nextId, piece)
             new == [t EXCEPT ![k] = tab]
  <2>1. piece \in Piece /\ nextId \in Id
    BY DEF Piece, None, Id, Typed, Server
  <2> HIDE DEF piece
  <2>2. tab \in Tab /\ IsFiniteSet(tab.positions)
    <3>1. t[k] \in Tab /\ IsFiniteSet(t[k].positions)
      BY <1>2 DEF IsTabs
    <3> QED
      BY <2>1, <3>1, AddedType
  <2>3. IsTabs(new)
    <3> HIDE DEF tab
    <3> QED
      BY <1>2, <2>2 DEF IsTabs
  <2>4. Adds(new, t, k, nextId, piece)
    BY DEF Adds
  <2>5. nextId' = nextId + 1 /\ nextId' \in Id /\ nextId <= nextId' /\ placed' \subseteq Id /\ nextId \notin placed
        /\ \A w \in placed' : w < nextId' /\ (w \in placed \/ nextId <= w)
    BY <1>3, <1>6, <2>1 DEF AddInBrowser, Places, Typed, History, Id
  <2>6. Sound(new, nextId', placed')
    <3>1. Sound(t, nextId, placed)
      BY DEF Places
    <3> HIDE DEF t, new
    <3>2. Sound(new, nextId + 1, placed)
      BY <1>2, <2>1, <2>3, <2>4, <2>5, <3>1, AddedSound DEF t
    <3> QED
      BY <1>3, <2>5, <3>2
  <2>7. views' = [views EXCEPT ![d] = [views[d] EXCEPT !.tabs = new]]
    BY <1>6 DEF AddInBrowser, piece
  <2>8. [views[d] EXCEPT !.tabs = new].tabs = new
    BY <1>2, ViewFields
  <2>9. \A e \in DOMAIN views' : Kept(views'[e].tabs) \/ Sound(views'[e].tabs, nextId', placed')
    BY <2>6, <2>7, <2>8 DEF Kept
  <2> HIDE DEF t, new
  <2> QED
    BY <1>3, <2>5, <2>9, PlacesStep
<1> QED
  BY <1>1, <1>4, <1>5, <1>6

LEMMA InitPlaces == Init => Places
<1> SUFFICES ASSUME Init PROVE Places
  OBVIOUS
<1>1. PICK s \in Starts : views = s.views /\ searches = s.searches
  BY DEF Init
<1>2. \A d \in DOMAIN views : Below(views[d], nextId)
  BY <1>1 DEF Init
<1>3. \A d \in DOMAIN views : Sound(views[d].tabs, nextId, placed)
  BY <1>2 DEF Sound, Below, Init
<1>4. \A c \in Slots : Sound(view[c].tabs, nextId, placed)
  BY DEF Sound, Init, NoView
<1> QED
  BY <1>3, <1>4 DEF Places, Init

LEMMA NextPlaces == Typed /\ Places /\ [Next]_vars => Places'
<1> SUFFICES ASSUME Typed, Places, [Next]_vars PROVE Places'
  OBVIOUS
<1>1. CASE UNCHANGED vars
  BY <1>1 DEF Places, Sound, vars, calls
<1>2. ASSUME NEW c \in Slots, Call(c) PROVE Places'
  BY <1>2, StartPlaces DEF Call
<1>3. ASSUME NEW c \in Slots, Step(c) PROVE Places'
  <2>1. CASE RequestFails(c)
    BY <2>1, StopsPlaces DEF RequestFails
  <2>2. CASE GetSearch(c)
    <3>1. op[c].tool \in {"add_widget_from_template", "remove_widget"} /\ UNCHANGED server /\ pc[c] = "get_search"
      BY <2>2 DEF Typed, Controlled, GetSearch, Changing
    <3>2. CASE op[c].tool = "remove_widget"
      BY <2>2, <3>1, <3>2, RemoveFromPlaces DEF GetSearch
    <3>3. CASE op[c].tool = "add_widget_from_template"
      BY <2>2, <3>1, <3>3, AddToPlaces DEF GetSearch
    <3> QED
      BY <3>1, <3>2, <3>3
  <2> QED
    BY <1>3, <2>1, <2>2, GetViewPlaces, ProbePlaces, PutSearchPlaces, PutViewPlaces, PostSearchPlaces,
       PostViewPlaces, DeletePlaces DEF Step
<1>4. CASE OtherUsers
  BY <1>4, OtherUsersPlaces
<1> QED
  BY <1>1, <1>2, <1>3, <1>4 DEF Next

\* PlacedClear (add-widget-from-template.js:136-153): no widget placed by the
\* tool lies beside or above one that was there before it.
THEOREM AdditionsPlaced == Spec => []PlacedClear
<1>1. Places => PlacedClear
  BY DEF Places, Sound, PlacedClear
<1> QED
  BY <1>1, InitTyped, NextTyped, InitPlaces, NextPlaces, PTL DEF Spec
-----------------------------------------------------------------------------
(* What a call does to a dashboard *)

\* Dashboards have ids that were drawn.
Drawn == \A d \in DOMAIN views : d < nextId

LEMMA NextDrawn ==
  ASSUME Typed, Drawn, [Next]_vars
  PROVE  Drawn'
<1>1. nextId \in Nat /\ \A d \in DOMAIN views : d \in Nat
  BY DEF Typed, Server, IsServer, Id
<1>2. ASSUME \/ DOMAIN views' \subseteq DOMAIN views /\ (nextId' = nextId \/ nextId' = nextId + 1)
             \/ DOMAIN views' = DOMAIN views \union {nextId} /\ nextId' = nextId + 1
      PROVE  Drawn'
  BY <1>1, <1>2 DEF Drawn
<1>3. CASE UNCHANGED vars
  BY <1>3 DEF Drawn, vars
<1>4. ASSUME NEW c \in Slots, Call(c) PROVE Drawn'
  BY <1>4, <1>2 DEF Call, Start
<1>5. ASSUME NEW c \in Slots, Step(c) PROVE Drawn'
  <2>1. CASE RequestFails(c) \/ GetView(c)
    BY <1>2, <2>1 DEF RequestFails, GetView, Stops, server
  <2>2. CASE GetSearch(c)
    BY <1>2, <2>2 DEF GetSearch, AddTo, RemoveFrom, Stops, server
  <2>3. CASE Probe(c)
    <3>1. Len(op[c].pieces) \in Nat
      BY Unchanging, OperationType
    <3>2. nextId' = nextId + Len(op[c].pieces) /\ views' = views
      BY <2>3 DEF Probe, server
    <3> QED
      BY <1>1, <3>1, <3>2 DEF Drawn
  <2>4. CASE PutSearch(c) \/ PostSearch(c)
    BY <1>2, <2>4 DEF PutSearch, PostSearch
  <2>5. CASE PutView(c)
    BY <1>2, <2>5 DEF PutView, With
  <2>6. CASE PostView(c)
    BY <1>2, <2>6 DEF PostView, With
  <2>7. CASE Delete(c)
    BY <1>2, <2>7 DEF Delete, Without
  <2> QED
    BY <1>5, <2>1, <2>2, <2>3, <2>4, <2>5, <2>6, <2>7 DEF Step
<1>6. CASE OtherUsers
  BY <1>2, <1>6 DEF OtherUsers, Retitle, AddInBrowser, DeleteInBrowser, Without
<1> QED
  BY <1>3, <1>4, <1>5, <1>6 DEF Next

\* A call nobody has overtaken holds the dashboard as it is, or as it was asked
\* to make it.
Holds(c) ==
  pc[c] \in Holding /\ ~raced[c] =>
    LET d == op[c].dashboard
    IN /\ d \in DOMAIN views
       /\ pc[c] = "get_search" => view[c] = views[d]
       /\ pc[c] # "get_search" => AsAsked(op[c], widget[c], views[d], view[c])

\* A step leaves a call alone: its locals, and its dashboard unless it is told.
Spared(c) ==
  /\ pc'[c] = pc[c] /\ op'[c] = op[c] /\ view'[c] = view[c] /\ widget'[c] = widget[c]
  /\ pc[c] \in Holding /\ ~raced'[c] =>
       /\ ~raced[c]
       /\ op[c].dashboard \in DOMAIN views =>
            op[c].dashboard \in DOMAIN views' /\ views'[op[c].dashboard] = views[op[c].dashboard]

LEMMA SparedHolds ==
  ASSUME NEW c \in Slots, Holds(c), Spared(c)
  PROVE  Holds(c)'
BY DEF Holds, Spared

\* A step that changes one call's locals leaves the others'.
LEMMA OthersLocals ==
  ASSUME Typed, NEW e \in Slots, Call(e) \/ Step(e), NEW c \in Slots, c # e
  PROVE  /\ pc'[c] = pc[c] /\ op'[c] = op[c] /\ view'[c] = view[c] /\ widget'[c] = widget[c]
         /\ search'[c] = search[c]
<1> USE DEF Typed, Locals
<1>1. ASSUME NEW how, Ends(e, how), op' = op
      PROVE  /\ pc'[c] = pc[c] /\ op'[c] = op[c] /\ view'[c] = view[c] /\ widget'[c] = widget[c]
             /\ search'[c] = search[c]
  BY <1>1 DEF Ends, Goes
<1>2. CASE Call(e)
  BY <1>2 DEF Call, Start
<1>3. CASE RequestFails(e)
  BY <1>1, <1>3 DEF RequestFails, Stops
<1>4. CASE GetView(e)
  BY <1>1, <1>4 DEF GetView, Built, Goes, Stops
<1>5. CASE GetSearch(e)
  <2>1. CASE Stops(e, "refused") /\ op' = op
    BY <1>1, <2>1 DEF Stops
  <2>2. CASE AddTo(e, op[e].pieces[1], searches[view[e].search]) /\ op' = op
    <3>1. CASE ~ Stops(e, "refused")
      BY <2>2, <3>1 DEF AddTo, Composes, Built, Goes
    <3> QED
      BY <2>1, <2>2, <3>1
  <2>3. CASE RemoveFrom(e, op[e].widget, searches[view[e].search]) /\ op' = op
    <3>1. CASE ~ Stops(e, "refused")
      BY <2>3, <3>1 DEF RemoveFrom, Composes, Built, Goes
    <3> QED
      BY <2>1, <2>3, <3>1
  <2> QED
    BY <1>5, <2>2, <2>3 DEF GetSearch
<1>6. CASE Probe(e)
  BY <1>6 DEF Probe, Built, Goes
<1>7. CASE PutSearch(e)
  BY <1>1, <1>7 DEF PutSearch, Failure, Goes
<1>8. CASE PutView(e)
  BY <1>1, <1>8 DEF PutView, Failure
<1>9. CASE PostSearch(e)
  BY <1>1, <1>9 DEF PostSearch, Failure, Goes
<1>10. CASE PostView(e)
  BY <1>1, <1>10 DEF PostView, Failure
<1>11. CASE Delete(e)
  BY <1>1, <1>11 DEF Delete, Failure
<1> QED
  BY <1>2, <1>3, <1>4, <1>5, <1>6, <1>7, <1>8, <1>9, <1>10, <1>11 DEF Step

\* Whoever changes a dashboard overtakes those that hold it.
LEMMA OthersSpared ==
  ASSUME Typed, Drawn, NEW e \in Slots, Call(e) \/ Step(e), NEW c \in Slots, c # e
  PROVE  Spared(c)
<1> DEFINE d == op[c].dashboard
<1>1. pc'[c] = pc[c] /\ op'[c] = op[c] /\ view'[c] = view[c] /\ widget'[c] = widget[c]
  BY OthersLocals
<1>2. ASSUME raced' = raced \/ raced' = [raced EXCEPT ![e] = FALSE],
             views' = views
      PROVE  Spared(c)
  BY <1>1, <1>2 DEF Spared, Typed, History
<1>3. ASSUME raced' = Overtaken(op[e].dashboard, {e}),
             \A x \in DOMAIN views : x # op[e].dashboard => x \in DOMAIN views' /\ views'[x] = views[x]
      PROVE  Spared(c)
  <2>1. raced'[c] = (raced[c] \/ (op[c].dashboard = op[e].dashboard /\ pc[c] \in Holding))
    BY <1>3 DEF Overtaken
  <2> QED
    BY <1>1, <1>3, <2>1 DEF Spared
<1>4. CASE Call(e)
  BY <1>2, <1>4 DEF Call, Start
<1>5. CASE RequestFails(e) \/ GetView(e) \/ GetSearch(e) \/ Probe(e)
  BY <1>2, <1>5 DEF RequestFails, GetView, GetSearch, Probe, server, history
<1>6. CASE PutSearch(e)
  BY <1>2, <1>3, <1>6 DEF PutSearch, Wrote, history
<1>7. CASE PutView(e)
  BY <1>2, <1>3, <1>7 DEF PutView, Wrote, With
<1>8. CASE PostSearch(e)
  BY <1>2, <1>8 DEF PostSearch, history
<1>9. CASE PostView(e)
  <2>1. nextId \notin DOMAIN views
    BY DEF Drawn, Typed, Server, IsServer, Id
  <2>2. raced' = raced /\ \A x \in DOMAIN views : x \in DOMAIN views' /\ views'[x] = views[x]
    BY <1>9, <2>1 DEF PostView, history, With
  <2> QED
    BY <1>1, <2>2 DEF Spared
<1>10. CASE Delete(e)
  BY <1>2, <1>3, <1>10 DEF Delete, Without
<1> QED
  BY <1>4, <1>5, <1>6, <1>7, <1>8, <1>9, <1>10 DEF Step
LEMMA OtherUsersSpare ==
  ASSUME Typed, OtherUsers, NEW c \in Slots
  PROVE  Spared(c)
<1>1. PICK d \in DOMAIN views : Retitle(d) \/ DeleteInBrowser(d) \/ \E k \in DOMAIN views[d].tabs : AddInBrowser(d, k)
  BY DEF OtherUsers
<1>2. raced' = Overtaken(d, {}) /\ UNCHANGED calls
  BY <1>1 DEF Retitle, DeleteInBrowser, AddInBrowser, Edits
<1>3. raced'[c] = (raced[c] \/ (op[c].dashboard = d /\ pc[c] \in Holding))
  BY <1>2 DEF Overtaken
<1>4. \A x \in DOMAIN views : x # d => x \in DOMAIN views' /\ views'[x] = views[x]
  BY <1>1 DEF Retitle, DeleteInBrowser, AddInBrowser, Without
<1> QED
  BY <1>2, <1>3, <1>4 DEF Spared, calls

\* One widget more in the first tab.
LEMMA AddToAsAsked ==
  ASSUME Typed, Places, NEW c \in Slots, pc[c] = "get_search", NEW s, op[c].tool = "add_widget_from_template",
         AddTo(c, op[c].pieces[1], s), ~ Stops(c, "refused")
  PROVE  AsAsked(op[c], widget'[c], view[c], view'[c])
<1> DEFINE piece == op[c].pieces[1]
           t == view[c].tabs
           k == FirstOf(DOMAIN t)
           tab == Added(t[k], nextId, piece)
           new == With(t, k, tab)
           v == [view[c] EXCEPT !.tabs = new]
<1>1. piece \in Piece /\ nextId \in Id /\ IsView(view[c]) /\ IsTabs(t)
  BY Unchanging, OperationType, ViewFields DEF Typed, Server
<1>2. k \in DOMAIN t
  <2>1. DOMAIN t # {}
    BY DEF Typed, Controlled, Usable
  <2> QED
    BY <1>1, <2>1, FirstOfType DEF IsTabs
<1> HIDE DEF k
<1>3. /\ view' = [view EXCEPT ![c].tabs = With(@, k, tab)]
      /\ widget' = [widget EXCEPT ![c] = nextId]
      /\ Matched(tab)
  BY DEF AddTo, Composes, AcceptsTab, k
<1>4. view'[c] = v /\ widget'[c] = nextId
  BY <1>3 DEF Typed, Locals
<1>5. v.tabs = new /\ v.search = view[c].search /\ v.title = view[c].title
  BY <1>1, ViewFields
<1>6. DOMAIN new = DOMAIN t /\ new[k] = tab /\ \A j \in DOMAIN t : j # k => new[j] = t[j]
  BY <1>2 DEF With
<1>7. tab.widgets = t[k].widgets \union {nextId}
  BY DEF Added
<1>8. nextId \notin Widgets(view[c])
  <2>1. \A j \in DOMAIN t : \A w \in t[j].widgets : w < nextId
    BY DEF Places, Sound
  <2> QED
    BY <1>1, <2>1 DEF Widgets, Id
<1>9. {j \in DOMAIN t : v.tabs[j] # t[j]} = {k}
  <2>1. nextId \notin t[k].widgets
    BY <1>2, <1>8 DEF Widgets
  <2>2. tab # t[k]
    BY <1>7, <2>1
  <2> HIDE DEF new, tab, v
  <2> QED
    BY <1>2, <1>5, <1>6, <2>2
<1>10. Widgets(v) = Widgets(view[c]) \union {nextId}
  <2> HIDE DEF new, tab, v
  <2> QED
    BY <1>2, <1>5, <1>6, <1>7 DEF Widgets
<1> HIDE DEF v, new, tab
<1>11. AsAsked(op[c], nextId, view[c], v)
  BY <1>3, <1>5, <1>6, <1>8, <1>9, <1>10 DEF AsAsked, k
<1> QED
  BY <1>4, <1>11

\* One widget less.
LEMMA RemoveFromAsAsked ==
  ASSUME Typed, NEW c \in Slots, pc[c] = "get_search", NEW s, op[c].tool = "remove_widget",
         RemoveFrom(c, op[c].widget, s), ~ Stops(c, "refused")
  PROVE  AsAsked(op[c], widget'[c], view[c], view'[c])
<1> DEFINE w == op[c].widget
           t == view[c].tabs
           k == TabOf(c, w)
           tab == Removed(t[k], w)
           new == With(t, k, tab)
           v == [view[c] EXCEPT !.tabs = new]
<1>1. IsView(view[c]) /\ IsTabs(t)
  BY Unchanging, ViewFields
<1>2. k \in DOMAIN t /\ w \in t[k].widgets
  <2>1. TabsWith(view[c], w) # {} /\ TabsWith(view[c], w) \subseteq Id
    BY <1>1 DEF Typed, Controlled, Usable, TabsWith, IsTabs
  <2>2. k \in TabsWith(view[c], w)
    BY <2>1, FirstOfType DEF TabOf
  <2> QED
    BY <2>2 DEF TabsWith
<1> HIDE DEF k
<1>3. view' = [view EXCEPT ![c].tabs = With(@, k, tab)] /\ Matched(tab)
  BY DEF RemoveFrom, Composes, AcceptsTab, k
<1>4. view'[c] = v
  BY <1>3 DEF Typed, Locals
<1>5. v.tabs = new /\ v.search = view[c].search /\ v.title = view[c].title
  BY <1>1, ViewFields
<1>6. DOMAIN new = DOMAIN t /\ new[k] = tab /\ \A j \in DOMAIN t : j # k => new[j] = t[j]
  BY <1>2 DEF With
<1>7. tab.widgets = t[k].widgets \ {w}
  BY DEF Removed
<1>8. {j \in DOMAIN t : v.tabs[j] # t[j]} = {k}
  <2>1. tab # t[k]
    BY <1>2, <1>7
  <2> HIDE DEF new, tab, v
  <2> QED
    BY <1>2, <1>5, <1>6, <2>1
<1> HIDE DEF v, new, tab
<1>9. AsAsked(op[c], widget'[c], view[c], v)
  BY <1>3, <1>5, <1>6, <1>7, <1>8 DEF AsAsked
<1> QED
  BY <1>4, <1>9
LEMMA OwnHolds ==
  ASSUME Typed, Places, NEW c \in Slots, Holds(c), Call(c) \/ Step(c)
  PROVE  Holds(c)'
<1> DEFINE d == op[c].dashboard
<1>1. ASSUME pc'[c] \notin Holding
      PROVE  Holds(c)'
  BY <1>1 DEF Holds
<1>2. ASSUME NEW how \in Ended, Ends(c, how)
      PROVE  Holds(c)'
  BY <1>1, <1>2 DEF Ends, Goes, Typed, Locals, Ended, Holding
<1>3. CASE Call(c)
  BY <1>1, <1>3 DEF Call, Start, Typed, Locals, Holding
<1>4. CASE RequestFails(c)
  BY <1>2, <1>4 DEF RequestFails, Stops, Ended
<1>5. CASE GetView(c)
  <2>1. views' = views /\ raced' = raced /\ op' = op
    BY <1>5 DEF GetView, server, history
  <2>2. CASE Built(c, "delete")
    BY <1>1, <2>2 DEF Built, Goes, Typed, Locals, Holding
  <2>3. CASE /\ op[c].tool = "update_dashboard" /\ d \in DOMAIN views
             /\ view' = [view EXCEPT ![c] = [views[d] EXCEPT !.title = op[c].title]]
             /\ Built(c, "put_view")
             /\ UNCHANGED widget
    <3>1. IsView(views[d])
      BY <2>3 DEF Typed, Server, IsServer
    <3>2. view'[c] = [views[d] EXCEPT !.title = op[c].title]
      BY <2>3 DEF Typed, Locals
    <3>3. /\ view'[c].search = views[d].search /\ view'[c].tabs = views[d].tabs /\ view'[c].title = op[c].title
      BY <3>1, <3>2, ViewFields
    <3>4. AsAsked(op[c], widget[c], views[d], view'[c])
      BY <2>3, <3>3 DEF AsAsked
    <3>5. pc'[c] # "get_search"
      BY <2>3 DEF Built, Goes, Typed, Locals
    <3> QED
      BY <2>1, <2>3, <3>4, <3>5 DEF Holds
  <2>4. CASE d \in DOMAIN views /\ view' = [view EXCEPT ![c] = views[d]] /\ Goes(c, "get_search")
    <3>1. view'[c] = views[d] /\ pc'[c] = "get_search"
      BY <2>4 DEF Goes, Typed, Locals
    <3> QED
      BY <2>1, <2>4, <3>1 DEF Holds
  <2>5. CASE Stops(c, "refused")
    BY <1>2, <2>5 DEF Stops, Ended
  <2> QED
    BY <1>5, <2>2, <2>3, <2>4, <2>5 DEF GetView
<1>6. CASE GetSearch(c)
  <2>1. pc[c] = "get_search" /\ views' = views /\ raced' = raced /\ op' = op /\ op[c].tool \in Changing
    BY <1>6 DEF GetSearch, server, history, Typed, Controlled
  <2>2. CASE Stops(c, "refused")
    BY <1>2, <2>2 DEF Stops, Ended
  <2>3. CASE ~ Stops(c, "refused")
    <3>1. AsAsked(op[c], widget'[c], view[c], view'[c]) /\ pc'[c] # "get_search"
      <4>1. CASE op[c].tool = "remove_widget"
        <5>1. RemoveFrom(c, op[c].widget, searches[view[c].search])
          BY <1>6, <4>1 DEF GetSearch
        <5>2. pc'[c] # "get_search"
          BY <2>3, <5>1 DEF RemoveFrom, Built, Goes, Typed, Locals
        <5> QED
          BY <2>1, <2>3, <4>1, <5>1, <5>2, RemoveFromAsAsked
      <4>2. CASE op[c].tool = "add_widget_from_template"
        <5>1. AddTo(c, op[c].pieces[1], searches[view[c].search])
          BY <1>6, <4>2 DEF GetSearch
        <5>2. pc'[c] # "get_search"
          BY <2>3, <5>1 DEF AddTo, Built, Goes, Typed, Locals
        <5> QED
          BY <2>1, <2>3, <4>2, <5>1, <5>2, AddToAsAsked
      <4> QED
        BY <2>1, <4>1, <4>2 DEF Changing
    <3> QED
      BY <2>1, <3>1 DEF Holds, Holding
  <2> QED
    BY <2>2, <2>3
<1>7. CASE Probe(c)
  BY <1>1, <1>7 DEF Probe, Built, Goes, Typed, Locals, Holding
<1>8. CASE PutSearch(c)
  <2>1. CASE Failure(c)
    BY <1>2, <2>1 DEF Failure, Ended
  <2>2. CASE Goes(c, "put_view") /\ UNCHANGED <<view, search, widget>>
    <3>1. UNCHANGED <<views, op>> /\ raced'[c] = raced[c] /\ pc[c] = "put_search"
      BY <1>8 DEF PutSearch, Wrote, Overtaken, history, Typed, History
    <3>2. pc'[c] = "put_view"
      BY <2>2 DEF Goes, Typed, Locals
    <3> QED
      BY <2>2, <3>1, <3>2 DEF Holds, Holding
  <2> QED
    BY <1>8, <2>1, <2>2 DEF PutSearch
<1>9. CASE PutView(c)
  BY <1>2, <1>9 DEF PutView, Failure, Ended
<1>10. CASE PostSearch(c)
  <2>1. CASE Goes(c, "post_view")
    BY <1>1, <2>1 DEF Goes, Typed, Locals, Holding
  <2> QED
    BY <1>2, <1>10, <2>1 DEF PostSearch, Failure, Ended
<1>11. CASE PostView(c)
  BY <1>2, <1>11 DEF PostView, Failure, Ended
<1>12. CASE Delete(c)
  BY <1>2, <1>12 DEF Delete, Failure, Ended
<1> QED
  BY <1>3, <1>4, <1>5, <1>6, <1>7, <1>8, <1>9, <1>10, <1>11, <1>12 DEF Step

Held == \A c \in Slots : Holds(c)

LEMMA NextHeld ==
  ASSUME Typed, Places, Drawn, Held, [Next]_vars
  PROVE  Held'
<1> SUFFICES ASSUME NEW c \in Slots PROVE Holds(c)'
  BY DEF Held
<1>1. Holds(c)
  BY DEF Held
<1>2. CASE UNCHANGED vars
  BY <1>1, <1>2 DEF Holds, vars, calls
<1>3. ASSUME NEW e \in Slots, Call(e) \/ Step(e)
      PROVE  Holds(c)'
  <2>1. CASE c = e
    BY <1>1, <1>3, <2>1, OwnHolds
  <2>2. CASE c # e
    BY <1>1, <1>3, <2>2, OthersSpared, SparedHolds
  <2> QED
    BY <2>1, <2>2
<1>4. CASE OtherUsers
  BY <1>1, <1>4, OtherUsersSpare, SparedHolds
<1> QED
  BY <1>2, <1>3, <1>4 DEF Next

\* Only its own call ends a call's second write, and writes what it holds.
LEMMA WritesHeld ==
  ASSUME Typed, Drawn, Held, [Next]_vars, NEW c \in Slots, pc[c] = "put_view", pc'[c] # pc[c],
         pc'[c] = "done" \/ views' # views, ~raced[c]
  PROVE  AsAsked(op[c], widget[c], views[op[c].dashboard], views'[op[c].dashboard])
<1> DEFINE d == op[c].dashboard
<1>1. Step(c)
  <2>1. ~ UNCHANGED vars
    BY DEF vars, calls
  <2>2. ~ OtherUsers
    BY OtherUsersSpare DEF Spared
  <2>3. \A e \in Slots : e # c => ~ (Call(e) \/ Step(e))
    BY OthersLocals
  <2>4. ~ Call(c)
    BY DEF Call, Start, Ended
  <2> QED
    BY <2>1, <2>2, <2>3, <2>4 DEF Next
<1>2. PutView(c)
  BY <1>1 DEF Step, RequestFails, GetView, GetSearch, Probe, PutSearch, PostSearch, PostView, Delete, Reading
<1>3. views' = With(views, d, view[c])
  <2>1. CASE Failure(c) /\ views' = views
    <3>1. pc'[c] # "done"
      BY <2>1 DEF Failure, Ends, Goes, Typed, Locals
    <3> QED
      BY <2>1, <3>1
  <2> QED
    BY <1>2, <2>1 DEF PutView
<1>4. views'[d] = view[c]
  BY <1>3 DEF With
<1>5. AsAsked(op[c], widget[c], views[d], view[c])
  BY DEF Held, Holds, Holding
<1> QED
  BY <1>4, <1>5

\* OnlyAsAsked (add-widget-from-template.js:126-210, remove-widget.js:91-174):
\* a call nobody has overtaken does what it was asked to, and nothing else.
THEOREM ChangesAsAsked == Spec => OnlyAsAsked
<1>1. Init => Drawn /\ Held
  BY DEF Init, Drawn, Held, Holds, Holding
<1>2. Typed /\ Places /\ Drawn /\ Held /\ [Next]_vars => Drawn' /\ Held'
  BY NextDrawn, NextHeld
<1>3. Typed /\ Drawn /\ Held /\ [Next]_vars =>
        [\A c \in Slots :
           pc[c] = "put_view" /\ pc'[c] # pc[c] /\ (pc'[c] = "done" \/ views' # views) /\ ~raced[c] =>
             AsAsked(op[c], widget[c], views[op[c].dashboard], views'[op[c].dashboard])]_vars
  BY WritesHeld
<1> QED
  BY <1>1, <1>2, <1>3, InitTyped, NextTyped, InitPlaces, NextPlaces, PTL DEF Spec, OnlyAsAsked
-----------------------------------------------------------------------------
(***************************************************************************)
(* InStep.  The view and the search of a dashboard agree, but for widgets  *)
(* and search types whose second document is on its way or never came; and *)
(* a call nobody has overtaken knows the two documents it changes.         *)
(***************************************************************************)
\* The search a view is bound to, as the server has it.
SearchOf(n) == IF n \in DOMAIN searches THEN searches[n] ELSE <<>>

\* Fed, of a view.
FedBy(v) ==
  \A k \in DOMAIN v.tabs :
    /\ \A m, n \in v.tabs[k].mapping : m.type = n.type => m.widget = n.widget
    /\ \A m \in v.tabs[k].mapping : m.widget \in v.tabs[k].widgets

\* InStepBut, of a view and a search, with the tab an exception is made for: a
\* widget is taken from the first tab it is in, and a type added to the first.
Agrees(v, q, blank, spare) ==
  \A k \in DOMAIN v.tabs :
    /\ \A m \in v.tabs[k].mapping :
         m.type \in At(q, k) \/ (m.widget \in blank /\ k = FirstOf(TabsWith(v, m.widget)))
    /\ \A t \in At(q, k) :
         \/ t \in spare /\ k = FirstOf(DOMAIN v.tabs)
         \/ \E m \in v.tabs[k].mapping : m.type = t

\* The widgets of which a tool's second document is on its way, or never came;
\* an addition is none before it has written the search.
Left(d, tool) ==
  {a.widget : a \in {b \in apart : b.dashboard = d /\ b.tool = tool}}
    \union {widget[c] : c \in {e \in Slots : /\ pc[e] = "put_view" /\ op[e].dashboard = d
                                             /\ op[e].tool = tool /\ WritesSearch(op[e])}}
Blank(d) == Left(d, "remove_widget")
Spare(d) == Left(d, "add_widget_from_template")

\* No two dashboards share a search, those on their way to the server included.
Owned ==
  /\ \A d \in DOMAIN views : views[d].search < nextId
  /\ \A d, e \in DOMAIN views : views[d].search = views[e].search => d = e \/ views[d].search = None
HoldsOwned(c) ==
  pc[c] \in Holding =>
    /\ op[c].dashboard < nextId /\ view[c].search < nextId
    /\ op[c].dashboard \in DOMAIN views => view[c].search = views[op[c].dashboard].search
    /\ \A d \in DOMAIN views : view[c].search = views[d].search => d = op[c].dashboard \/ view[c].search = None
HoldsNew(c) ==
  pc[c] = "post_view" =>
    /\ view[c].search < nextId /\ view[c].search # None
    /\ \A d \in DOMAIN views : views[d].search # view[c].search
    /\ \A e \in Slots : e # c /\ pc[e] \in Holding \union {"post_view"} => view[e].search # view[c].search
Bound == Owned /\ \A c \in Slots : HoldsOwned(c) /\ HoldsNew(c)

\* What a call makes of the view u, and of the types of query k.
Leaves(u, v, k) ==
  /\ v.search = u.search /\ k \in DOMAIN u.tabs /\ DOMAIN v.tabs = DOMAIN u.tabs
  /\ \A j \in DOMAIN u.tabs : j # k => v.tabs[j] = u.tabs[j]
New(u, w) == \A k \in DOMAIN u.tabs : w \notin u.tabs[k].widgets /\ \A m \in u.tabs[k].mapping : m.type # w
AddsWidget(u, v, w, piece) ==
  LET k == FirstOf(DOMAIN u.tabs)
  IN /\ Leaves(u, v, k) /\ New(u, w)
     /\ v.tabs[k].widgets = u.tabs[k].widgets \union {w}
     /\ v.tabs[k].mapping = u.tabs[k].mapping \union Feeds(w, piece)
TakesWidget(u, v, w) ==
  LET k == FirstOf(TabsWith(u, w))
  IN /\ Leaves(u, v, k)
     /\ v.tabs[k].widgets = u.tabs[k].widgets \ {w}
     /\ v.tabs[k].mapping = {m \in u.tabs[k].mapping : m.widget # w}
TypesOf(u, w) == {m.type : m \in {n \in u.tabs[FirstOf(TabsWith(u, w))].mapping : n.widget = w}}
Differ(q, r, k) == \A j \in Id : j # k => At(r, j) = At(q, j)

\* What a call nobody has overtaken is about to write, given what is there: p is
\* its next request, r whether it was overtaken, o its arguments, w its widget; u
\* is the view and q the search on the server, v the view and s the search it holds.
Ready(p, r, o, w, u, v, q, s) ==
  /\ p \in {"put_search", "put_view"} /\ ~r =>
       CASE o.tool = "add_widget_from_template" -> AddsWidget(u, v, w, o.pieces[1])
         [] o.tool = "remove_widget"            -> TakesWidget(u, v, w)
         [] OTHER                               -> v.search = u.search /\ v.tabs = u.tabs
  /\ p = "put_search" /\ ~r =>
       IF o.tool = "remove_widget"
       THEN LET k == FirstOf(TabsWith(u, w)) IN Differ(q, s, k) /\ At(s, k) = At(q, k) \ TypesOf(u, w)
       ELSE LET k == FirstOf(DOMAIN u.tabs) IN Differ(q, s, k) /\ At(s, k) = At(q, k) \union {w}
  /\ p = "put_search" => WritesSearch(o)
  /\ p = "put_view" /\ ~r =>
       /\ o.tool = "remove_widget" => At(q, FirstOf(TabsWith(u, w))) \intersect TypesOf(u, w) = {}
       /\ o.tool = "add_widget_from_template" /\ WritesSearch(o) => w \in At(q, FirstOf(DOMAIN u.tabs))
  /\ p \in {"post_search", "post_view"} => FedBy(v) /\ Agrees(v, s, {}, {})
  /\ p = "post_view" => q = s
Readied(c) == Ready(pc[c], raced[c], op[c], widget[c], views[op[c].dashboard], view[c], SearchOf(view[c].search), search[c])

Agree(v, q, blank, spare) == FedBy(v) /\ Agrees(v, q, blank, spare)
Agreed(d) == Agree(views[d], SearchOf(views[d].search), Blank(d), Spare(d))
Stepping == Bound /\ (\A d \in DOMAIN views \ stale : Agreed(d)) /\ \A c \in Slots : Readied(c)

(* Two documents, before and after *)

LEMMA AgreesMore ==
  ASSUME NEW u, NEW v, NEW q, NEW blank, NEW spare, NEW blank2, NEW spare2,
         Agrees(u, q, blank, spare), blank \subseteq blank2, spare \subseteq spare2, v.tabs = u.tabs
  PROVE  Agrees(v, q, blank2, spare2)
<1>1. \A w : TabsWith(v, w) = TabsWith(u, w)
  BY DEF TabsWith
<1> QED
  BY <1>1 DEF Agrees

\* A widget more, with its search type in the query.
LEMMA AdditionAgrees ==
  ASSUME NEW u, NEW v, NEW k, NEW w, NEW piece, NEW q, NEW r, NEW blank, NEW spare, NEW spare2,
         FedBy(u), Agrees(u, q, blank, spare), Leaves(u, v, k), New(u, w),
         v.tabs[k].widgets = u.tabs[k].widgets \union {w},
         v.tabs[k].mapping = u.tabs[k].mapping \union Feeds(w, piece),
         \A j \in DOMAIN u.tabs : j # k => At(r, j) = At(q, j),
         IF piece.data THEN At(r, k) = At(q, k) \union {w} ELSE At(r, k) = At(q, k),
         spare \subseteq spare2 \/ (spare \ {w} \subseteq spare2 /\ k = FirstOf(DOMAIN u.tabs) /\ piece.data)
  PROVE  FedBy(v) /\ Agrees(v, r, blank, spare2)
<1>1. /\ k \in DOMAIN u.tabs /\ DOMAIN v.tabs = DOMAIN u.tabs
      /\ \A j \in DOMAIN u.tabs : j # k => v.tabs[j] = u.tabs[j]
  BY DEF Leaves
<1>2. \A m \in v.tabs[k].mapping : m \in u.tabs[k].mapping \/ (piece.data /\ m = [widget |-> w, type |-> w])
  BY DEF Feeds
<1>3. \A j \in DOMAIN u.tabs : \A m \in u.tabs[j].mapping : m.type # w /\ m.widget # w /\ m.widget \in u.tabs[j].widgets
  BY DEF New, FedBy
<1>4. FedBy(v)
  <2> SUFFICES ASSUME NEW j \in DOMAIN u.tabs
               PROVE  /\ \A m, n \in v.tabs[j].mapping : m.type = n.type => m.widget = n.widget
                      /\ \A m \in v.tabs[j].mapping : m.widget \in v.tabs[j].widgets
    BY <1>1 DEF FedBy
  <2>1. CASE j # k
    BY <1>1, <2>1 DEF FedBy
  <2>2. CASE j = k
    <3>1. \A m, n \in u.tabs[k].mapping : m.type = n.type => m.widget = n.widget
      BY <1>1 DEF FedBy
    <3> QED
      BY <1>1, <1>2, <1>3, <2>2, <3>1
  <2> QED
    BY <2>1, <2>2
<1>5. \A x : x # w => TabsWith(v, x) = TabsWith(u, x)
  <2>1. \A x : x # w => \A j \in DOMAIN u.tabs : x \in v.tabs[j].widgets <=> x \in u.tabs[j].widgets
    BY <1>1
  <2> QED
    BY <1>1, <2>1 DEF TabsWith
<1>6. ASSUME NEW j \in DOMAIN u.tabs, NEW m \in v.tabs[j].mapping
      PROVE  m.type \in At(r, j) \/ (m.widget \in blank /\ j = FirstOf(TabsWith(v, m.widget)))
  <2>1. CASE m \in u.tabs[j].mapping
    <3>1. m.type \in At(q, j) \/ (m.widget \in blank /\ j = FirstOf(TabsWith(u, m.widget)))
      BY <2>1 DEF Agrees
    <3>2. At(q, j) \subseteq At(r, j)
      BY <1>1
    <3>3. TabsWith(v, m.widget) = TabsWith(u, m.widget)
      BY <1>3, <1>5, <2>1
    <3> QED
      BY <3>1, <3>2, <3>3
  <2>2. CASE m \notin u.tabs[j].mapping
    <3>1. j = k /\ piece.data /\ m.type = w
      BY <1>1, <1>2, <1>6, <2>2
    <3> QED
      BY <3>1
  <2> QED
    BY <2>1, <2>2
<1>7. ASSUME NEW j \in DOMAIN u.tabs, NEW t \in At(r, j)
      PROVE  \/ t \in spare2 /\ j = FirstOf(DOMAIN u.tabs)
             \/ \E m \in v.tabs[j].mapping : m.type = t
  <2>1. u.tabs[j].mapping \subseteq v.tabs[j].mapping
    BY <1>1
  <2>2. CASE t \in At(q, j) /\ ~(t = w /\ j = k /\ piece.data)
    <3>1. (t \in spare /\ j = FirstOf(DOMAIN u.tabs)) \/ \E m \in u.tabs[j].mapping : m.type = t
      BY <2>2 DEF Agrees
    <3>2. t \in spare /\ j = FirstOf(DOMAIN u.tabs) => t \in spare2
      BY <2>2
    <3> QED
      BY <2>1, <3>1, <3>2
  <2>3. CASE t = w /\ j = k /\ piece.data
    <3>1. [widget |-> w, type |-> w] \in v.tabs[k].mapping
      BY <2>3 DEF Feeds
    <3> QED
      BY <2>3, <3>1
  <2> QED
    BY <1>1, <1>7, <2>2, <2>3
<1> QED
  BY <1>1, <1>4, <1>6, <1>7 DEF Agrees

\* A widget less, after its types have left the query.
LEMMA RemovalAgrees ==
  ASSUME NEW u, NEW v, NEW w, NEW q, NEW blank, NEW spare, NEW blank2,
         FedBy(u), Agrees(u, q, blank, spare), TakesWidget(u, v, w),
         At(q, FirstOf(TabsWith(u, w))) \intersect TypesOf(u, w) = {}, blank \ {w} \subseteq blank2
  PROVE  FedBy(v) /\ Agrees(v, q, blank2, spare)
<1> DEFINE k == FirstOf(TabsWith(u, w))
<1>1. /\ k \in DOMAIN u.tabs /\ DOMAIN v.tabs = DOMAIN u.tabs
      /\ \A j \in DOMAIN u.tabs : j # k => v.tabs[j] = u.tabs[j]
      /\ v.tabs[k].widgets = u.tabs[k].widgets \ {w}
      /\ v.tabs[k].mapping = {m \in u.tabs[k].mapping : m.widget # w}
      /\ \A m \in u.tabs[k].mapping : m.widget = w => m.type \notin At(q, k)
  BY DEF TakesWidget, Leaves, TypesOf
<1>2. \A w2 : w2 # w => TabsWith(v, w2) = TabsWith(u, w2)
  <2>1. \A x : x # w => \A j \in DOMAIN u.tabs : x \in v.tabs[j].widgets <=> x \in u.tabs[j].widgets
    BY <1>1
  <2> QED
    BY <1>1, <2>1 DEF TabsWith
<1>k. k = FirstOf(TabsWith(u, w))
  OBVIOUS
<1> HIDE DEF k
<1>3. FedBy(v)
  BY <1>1 DEF FedBy
<1>4. ASSUME NEW j \in DOMAIN u.tabs, NEW m \in v.tabs[j].mapping
      PROVE  m.type \in At(q, j) \/ (m.widget \in blank2 /\ j = FirstOf(TabsWith(v, m.widget)))
  <2>1. m \in u.tabs[j].mapping /\ (j = k => m.widget # w)
    BY <1>1, <1>4
  <2>2. m.type \in At(q, j) \/ (m.widget \in blank /\ j = FirstOf(TabsWith(u, m.widget)))
    BY <2>1 DEF Agrees
  <2>3. m.widget = w => m.type \in At(q, j)
    BY <1>k, <2>1, <2>2
  <2> QED
    BY <1>2, <2>2, <2>3
<1>5. ASSUME NEW j \in DOMAIN u.tabs, NEW t \in At(q, j)
      PROVE  \/ t \in spare /\ j = FirstOf(DOMAIN u.tabs)
             \/ \E m \in v.tabs[j].mapping : m.type = t
  <2>1. (t \in spare /\ j = FirstOf(DOMAIN u.tabs)) \/ \E m \in u.tabs[j].mapping : m.type = t
    BY <1>5 DEF Agrees
  <2>2. \A m \in u.tabs[j].mapping : m.type = t => m \in v.tabs[j].mapping
    BY <1>1, <1>5
  <2> QED
    BY <2>1, <2>2
<1> QED
  BY <1>1, <1>3, <1>4, <1>5 DEF Agrees

\* The first of an addition's two writes.
LEMMA TypeAddedAgrees ==
  ASSUME NEW u, NEW w, NEW q, NEW r, NEW blank, NEW spare, NEW spare2, DOMAIN u.tabs \subseteq Id,
         Agrees(u, q, blank, spare), Differ(q, r, FirstOf(DOMAIN u.tabs)),
         At(r, FirstOf(DOMAIN u.tabs)) = At(q, FirstOf(DOMAIN u.tabs)) \union {w}, spare \union {w} \subseteq spare2
  PROVE  Agrees(u, r, blank, spare2)
<1> DEFINE k == FirstOf(DOMAIN u.tabs)
<1>1. \A j \in DOMAIN u.tabs : At(q, j) \subseteq At(r, j) /\ \A t \in At(r, j) : t \in At(q, j) \/ (t = w /\ j = k)
  BY DEF Differ
<1> HIDE DEF k
<1> QED
  BY <1>1 DEF Agrees, k

\* The first of a removal's two writes.
LEMMA TypesTakenAgrees ==
  ASSUME NEW u, NEW w, NEW q, NEW r, NEW blank, NEW spare, NEW blank2, DOMAIN u.tabs \subseteq Id,
         FedBy(u), Agrees(u, q, blank, spare), Differ(q, r, FirstOf(TabsWith(u, w))),
         FirstOf(TabsWith(u, w)) \in DOMAIN u.tabs,
         At(r, FirstOf(TabsWith(u, w))) = At(q, FirstOf(TabsWith(u, w))) \ TypesOf(u, w), blank \union {w} \subseteq blank2
  PROVE  Agrees(u, r, blank2, spare)
<1> DEFINE k == FirstOf(TabsWith(u, w))
<1>1. \A j \in DOMAIN u.tabs : j # k => At(r, j) = At(q, j)
  BY DEF Differ
<1>2. At(r, k) = At(q, k) \ {m.type : m \in {n \in u.tabs[k].mapping : n.widget = w}}
  BY DEF TypesOf
<1>3. k = FirstOf(TabsWith(u, w)) /\ k \in DOMAIN u.tabs
  OBVIOUS
<1> HIDE DEF k
<1>4. \A j \in DOMAIN u.tabs : At(r, j) \subseteq At(q, j)
  BY <1>1, <1>2
<1>5. ASSUME NEW j \in DOMAIN u.tabs, NEW m \in u.tabs[j].mapping
      PROVE  m.type \in At(r, j) \/ (m.widget \in blank2 /\ j = FirstOf(TabsWith(u, m.widget)))
  <2>1. m.type \in At(q, j) \/ (m.widget \in blank /\ j = FirstOf(TabsWith(u, m.widget)))
    BY DEF Agrees
  <2>2. CASE m.type \in At(q, j) /\ m.type \notin At(r, j)
    <3>1. j = k
      BY <1>1, <2>2
    <3>2. PICK n \in u.tabs[k].mapping : n.widget = w /\ n.type = m.type
      BY <1>2, <2>2, <3>1
    <3>3. m.widget = w
      BY <1>3, <3>1, <3>2 DEF FedBy
    <3> QED
      BY <1>3, <3>1, <3>3
  <2> QED
    BY <2>1, <2>2
<1> QED
  BY <1>4, <1>5 DEF Agrees

(* What a step leaves alone *)

LEMMA LeftMore ==
  ASSUME NEW d, NEW tool, NEW c \in Slots, NEW W,
         \A e \in Slots : e # c => pc'[e] = pc[e] /\ op'[e] = op[e] /\ widget'[e] = widget[e],
         \A a \in apart : a.dashboard = d /\ a.tool = tool /\ a.widget \notin W => a \in apart',
         pc[c] = "put_view" /\ op[c].dashboard = d /\ op[c].tool = tool /\ WritesSearch(op[c]) =>
           widget[c] \in W \/ [dashboard |-> d, widget |-> widget[c], tool |-> tool] \in apart'
  PROVE  Left(d, tool) \ W \subseteq Left(d, tool)'
<1> SUFFICES ASSUME NEW x \in Left(d, tool), x \notin W PROVE x \in Left(d, tool)'
  OBVIOUS
<1>1. ASSUME NEW a \in apart, a.dashboard = d, a.tool = tool, a.widget = x
      PROVE  x \in Left(d, tool)'
  BY <1>1 DEF Left
<1>2. ASSUME NEW e \in Slots, pc[e] = "put_view", op[e].dashboard = d, op[e].tool = tool,
             WritesSearch(op[e]), widget[e] = x
      PROVE  x \in Left(d, tool)'
  <2>1. CASE e # c
    <3>1. WritesSearch(op'[e]) = WritesSearch(op[e])
      BY <2>1
    <3> QED
      BY <1>2, <2>1, <3>1 DEF Left
  <2>2. CASE e = c
    <3> DEFINE cut == [dashboard |-> d, widget |-> x, tool |-> tool]
    <3>1. cut \in apart' /\ cut.dashboard = d /\ cut.tool = tool /\ cut.widget = x
      BY <1>2, <2>2
    <3> QED
      BY <3>1 DEF Left
  <2> QED
    BY <2>1, <2>2
<1> QED
  BY <1>1, <1>2 DEF Left

\* What a call that is cut short, or goes on to its second write, leaves.
LEMMA LeftGains ==
  ASSUME NEW c \in Slots, WritesSearch(op[c]), NEW d, NEW tool, op[c].dashboard = d, op[c].tool = tool,
         \/ Cut(c) \subseteq apart'
         \/ pc'[c] = "put_view" /\ op'[c] = op[c] /\ widget'[c] = widget[c]
  PROVE  widget[c] \in Left(d, tool)'
<1>1. CASE Cut(c) \subseteq apart'
  <2> DEFINE cut == [dashboard |-> d, widget |-> widget[c], tool |-> tool]
  <2>1. cut \in apart' /\ cut.dashboard = d /\ cut.tool = tool /\ cut.widget = widget[c]
    BY <1>1 DEF Cut
  <2> QED
    BY <2>1 DEF Left
<1>2. CASE pc'[c] = "put_view" /\ op'[c] = op[c] /\ widget'[c] = widget[c]
  <2>1. WritesSearch(op'[c]) = WritesSearch(op[c])
    BY <1>2
  <2> QED
    BY <1>2, <2>1 DEF Left
<1> QED
  BY <1>1, <1>2

LEMMA LeftUnfinished ==
  ASSUME NEW d, NEW tool
  PROVE  Left(d, tool) \subseteq Unfinished(d, tool)
BY DEF Left, Unfinished

LEMMA ReadyMore ==
  ASSUME NEW p, NEW r, NEW r2, NEW o, NEW w, NEW u, NEW u2, NEW v, NEW q, NEW q2, NEW s,
         Ready(p, r, o, w, u, v, q, s),
         p \in {"put_search", "put_view"} /\ ~r2 => ~r /\ u2 = u /\ q2 = q,
         p = "post_view" => q2 = q
  PROVE  Ready(p, r2, o, w, u2, v, q2, s)
BY DEF Ready

\* The server has a search as it had it.
Same(n) ==
  /\ n \in DOMAIN searches' <=> n \in DOMAIN searches
  /\ n \in DOMAIN searches => searches'[n] = searches[n]

LEMMA SameSearch ==
  ASSUME NEW n, Same(n)
  PROVE  SearchOf(n)' = SearchOf(n)
BY DEF Same, SearchOf

\* A call others have not disturbed is still ready.
LEMMA SparedReady ==
  ASSUME NEW c \in Slots, Readied(c), Spared(c), Holds(c), search'[c] = search[c],
         pc[c] = "post_view" \/ (pc[c] \in Holding /\ ~raced'[c]) => Same(view[c].search)
  PROVE  Readied(c)'
<1>1. /\ pc'[c] = pc[c] /\ op'[c] = op[c] /\ view'[c] = view[c] /\ widget'[c] = widget[c]
      /\ pc[c] \in Holding /\ ~raced'[c] => ~raced[c] /\ views'[op[c].dashboard] = views[op[c].dashboard]
  BY DEF Spared, Holds
<1>2. pc[c] = "post_view" \/ (pc[c] \in Holding /\ ~raced'[c]) =>
        SearchOf(view[c].search)' = SearchOf(view[c].search)
  <2>1. \A n : Same(n) => (IF n \in DOMAIN searches' THEN searches'[n] ELSE <<>>) = SearchOf(n)
    BY DEF Same, SearchOf
  <2> QED
    BY <1>1, <2>1 DEF SearchOf
<1> DEFINE q2 == SearchOf(view[c].search)'
           u2 == views'[op[c].dashboard]
<1>3. Ready(pc[c], raced'[c], op[c], widget[c], u2, view[c], q2, search[c])
  <2>1. Ready(pc[c], raced[c], op[c], widget[c], views[op[c].dashboard], view[c], SearchOf(view[c].search), search[c])
    BY DEF Readied
  <2>2. pc[c] \in {"put_search", "put_view"} /\ ~raced'[c] =>
          ~raced[c] /\ u2 = views[op[c].dashboard] /\ q2 = SearchOf(view[c].search)
    BY <1>1, <1>2 DEF Holding
  <2>3. pc[c] = "post_view" => q2 = SearchOf(view[c].search)
    BY <1>2
  <2> HIDE DEF q2, u2
  <2> QED
    BY <2>1, <2>2, <2>3, ReadyMore
<1> QED
  BY <1>1, <1>3 DEF Readied

\* A dashboard nobody has written is as it was; of one that was, the exceptions
\* that are left are enough.
LEMMA AgreedMore ==
  ASSUME NEW u, NEW v, NEW q, NEW blank, NEW spare, NEW blank2, NEW spare2,
         Agree(u, q, blank, spare), blank \subseteq blank2, spare \subseteq spare2, v.tabs = u.tabs
  PROVE  Agree(v, q, blank2, spare2)
<1>1. FedBy(v)
  BY DEF Agree, FedBy
<1> QED
  BY <1>1, AgreesMore DEF Agree

(* Bound *)

LEMMA Numbers ==
  ASSUME Typed
  PROVE  /\ nextId \in Nat /\ nextId # None
         /\ \A d \in DOMAIN views : d \in Nat /\ IsView(views[d]) /\ views[d].search \in Nat
         /\ \A c \in Slots : IsView(view[c]) /\ view[c].search \in Nat /\ op[c].dashboard \in Nat
BY OperationType, ViewFields DEF Typed, Server, IsServer, Locals, Id, None

\* Steps that bind no dashboard to a search, and begin to hold none.
LEMMA BoundKept ==
  ASSUME Typed, Bound, nextId' \in Nat, nextId <= nextId',
         \A d \in DOMAIN views' : d \in DOMAIN views /\ views'[d].search = views[d].search,
         \A c \in Slots :
           /\ pc'[c] \in Holding => pc[c] \in Holding /\ op'[c] = op[c] /\ view'[c].search = view[c].search
           /\ pc'[c] = "post_view" => pc[c] = "post_view" /\ view'[c].search = view[c].search
  PROVE  Bound'
<1> USE Numbers
<1>1. \A n \in Nat : n < nextId => n < nextId'
  OBVIOUS
<1>2. Owned'
  BY <1>1 DEF Bound, Owned
<1>3. ASSUME NEW c \in Slots PROVE HoldsOwned(c)'
  BY <1>1 DEF Bound, HoldsOwned
<1>4. ASSUME NEW c \in Slots PROVE HoldsNew(c)'
  <2> SUFFICES ASSUME pc'[c] = "post_view"
               PROVE  /\ view'[c].search < nextId' /\ view'[c].search # None
                      /\ \A d \in DOMAIN views' : views'[d].search # view'[c].search
                      /\ \A e \in Slots : e # c /\ pc'[e] \in Holding \union {"post_view"} => view'[e].search # view'[c].search
    BY DEF HoldsNew
  <2>1. HoldsNew(c) /\ pc[c] = "post_view" /\ view'[c].search = view[c].search
    BY DEF Bound
  <2>2. \A e \in Slots : pc'[e] \in Holding \union {"post_view"} =>
          pc[e] \in Holding \union {"post_view"} /\ view'[e].search = view[e].search
    OBVIOUS
  <2> QED
    BY <1>1, <2>1, <2>2 DEF HoldsNew
<1> QED
  BY <1>2, <1>3, <1>4 DEF Bound

\* A call reads a dashboard.
LEMMA GetViewBound ==
  ASSUME Typed, Drawn, Bound, NEW c \in Slots, GetView(c)
  PROVE  Bound'
<1> DEFINE d == op[c].dashboard
<1>1. UNCHANGED <<views, nextId, op>>
  BY DEF GetView, Stops, server
<1>2. \A e \in Slots : e # c => pc'[e] = pc[e] /\ view'[e] = view[e]
  BY OthersLocals DEF Step
<1>3. \/ pc'[c] \notin Holding \union {"post_view"}
      \/ d \in DOMAIN views /\ view'[c].search = views[d].search /\ pc'[c] \in Holding
  <2>1. CASE Built(c, "delete")
    BY <2>1 DEF Built, Goes, Typed, Locals, Holding
  <2>2. CASE d \in DOMAIN views /\ view' = [view EXCEPT ![c] = [views[d] EXCEPT !.title = op[c].title]] /\ Built(c, "put_view")
    <3>1. view'[c] = [views[d] EXCEPT !.title = op[c].title]
      BY <2>2 DEF Typed, Locals
    <3>2. IsView(views[d])
      BY <2>2, Numbers
    <3>3. view'[c].search = views[d].search
      BY <3>1, <3>2, ViewFields
    <3> QED
      BY <2>2, <3>3 DEF Built, Goes, Typed, Locals, Holding
  <2>3. CASE d \in DOMAIN views /\ view' = [view EXCEPT ![c] = views[d]] /\ Goes(c, "get_search")
    BY <2>3 DEF Goes, Typed, Locals, Holding
  <2>4. CASE Stops(c, "refused")
    BY <2>4 DEF Stops, Ends, Goes, Typed, Locals, Holding
  <2> QED
    BY <2>1, <2>2, <2>3, <2>4 DEF GetView
<1>4. CASE pc'[c] \notin Holding \union {"post_view"}
  BY <1>1, <1>2, <1>4, Numbers, BoundKept
<1>5. CASE d \in DOMAIN views /\ view'[c].search = views[d].search /\ pc'[c] \in Holding
  <2>1. Owned'
    BY <1>1 DEF Bound, Owned
  <2>2. ASSUME NEW e \in Slots PROVE HoldsOwned(e)'
    <3>1. CASE e = c
      BY <1>1, <1>5, <3>1 DEF Bound, Owned, Drawn, HoldsOwned
    <3>2. CASE e # c
      BY <1>1, <1>2, <3>2 DEF Bound, HoldsOwned
    <3> QED
      BY <3>1, <3>2
  <2>3. ASSUME NEW e \in Slots PROVE HoldsNew(e)'
    <3>1. CASE e = c
      BY <1>5, <3>1 DEF HoldsNew, Holding
    <3>2. CASE e # c
      <4> SUFFICES ASSUME pc[e] = "post_view"
                   PROVE  HoldsNew(e)'
        BY <1>2, <3>2 DEF HoldsNew
      <4>1. HoldsNew(e) /\ view'[e] = view[e] /\ pc'[e] = pc[e]
        BY <1>2, <3>2 DEF Bound
      <4>2. view'[c].search # view[e].search
        BY <1>5, <4>1 DEF HoldsNew
      <4> QED
        BY <1>1, <1>2, <4>1, <4>2 DEF HoldsNew
    <3> QED
      BY <3>1, <3>2
  <2> QED
    BY <2>1, <2>2, <2>3 DEF Bound
<1> QED
  BY <1>3, <1>4, <1>5

\* A new search is nobody's.
LEMMA PostSearchBound ==
  ASSUME Typed, Bound, NEW c \in Slots, PostSearch(c)
  PROVE  Bound'
<1>1. UNCHANGED <<views, op>> /\ nextId' \in Nat /\ nextId <= nextId'
  BY Numbers DEF PostSearch
<1>2. \A e \in Slots : e # c => pc'[e] = pc[e] /\ view'[e] = view[e]
  BY OthersLocals DEF Step
<1>3. CASE pc'[c] \notin Holding \union {"post_view"}
  BY <1>1, <1>2, <1>3, Numbers, BoundKept
<1>4. CASE Goes(c, "post_view") /\ view' = [view EXCEPT ![c].search = nextId] /\ nextId' = nextId + 1
  <2>1. pc'[c] = "post_view" /\ view'[c].search = nextId
    <3>1. view'[c] = [view[c] EXCEPT !.search = nextId]
      BY <1>4 DEF Typed, Locals
    <3>2. view'[c].search = nextId
      BY <3>1, Numbers, ViewFields
    <3> QED
      BY <1>4, <3>2 DEF Goes, Typed, Locals
  <2>2. \A n \in Nat : n < nextId => n < nextId' /\ n # nextId
    BY <1>4, Numbers
  <2>3. nextId < nextId' /\ nextId # None
    BY <1>4, Numbers
  <2>4. Owned'
    BY <1>1, <2>2, Numbers DEF Bound, Owned
  <2>5. ASSUME NEW e \in Slots PROVE HoldsOwned(e)'
    <3>1. CASE e = c
      BY <2>1, <3>1 DEF HoldsOwned, Holding
    <3>2. CASE e # c
      BY <1>1, <1>2, <2>2, <3>2, Numbers DEF Bound, HoldsOwned
    <3> QED
      BY <3>1, <3>2
  <2>6. ASSUME NEW e \in Slots PROVE HoldsNew(e)'
    <3>1. \A d \in DOMAIN views : views[d].search # nextId
      BY <2>2, Numbers DEF Bound, Owned
    <3>2. \A f \in Slots : f # c /\ pc[f] \in Holding \union {"post_view"} => view[f].search # nextId
      BY <2>2, Numbers DEF Bound, HoldsOwned, HoldsNew
    <3>3. CASE e = c
      BY <1>1, <1>2, <2>1, <2>3, <3>1, <3>2, <3>3 DEF HoldsNew
    <3>4. CASE e # c
      <4> SUFFICES ASSUME pc[e] = "post_view"
                   PROVE  HoldsNew(e)'
        BY <1>2, <3>4 DEF HoldsNew
      <4>1. HoldsNew(e) /\ view'[e] = view[e] /\ pc'[e] = pc[e]
        BY <1>2, <3>4 DEF Bound
      <4>2. view'[c].search # view[e].search
        BY <2>1, <3>2, <3>4
      <4> QED
        BY <1>1, <1>2, <2>2, <4>1, <4>2, Numbers DEF HoldsNew
    <3> QED
      BY <3>3, <3>4
  <2> QED
    BY <2>4, <2>5, <2>6 DEF Bound
<1>5. ASSUME NEW how \in Ended, Ends(c, how)
      PROVE  pc'[c] \notin Holding \union {"post_view"}
  BY <1>5 DEF Ends, Goes, Typed, Locals, Holding, Ended
<1> QED
  BY <1>3, <1>4, <1>5 DEF PostSearch, Failure, Ended

\* A new dashboard is bound to the search made for it.
LEMMA PostViewBound ==
  ASSUME Typed, Drawn, Bound, NEW c \in Slots, PostView(c)
  PROVE  Bound'
<1>1. op' = op /\ nextId' \in Nat /\ nextId <= nextId' /\ pc[c] = "post_view"
  BY Numbers DEF PostView
<1>2. \A e \in Slots : e # c => pc'[e] = pc[e] /\ view'[e] = view[e]
  BY OthersLocals DEF Step
<1>3. pc'[c] \notin Holding \union {"post_view"}
  BY DEF PostView, Failure, Ends, Goes, Typed, Locals, Holding
<1>4. CASE views' = views
  BY <1>1, <1>2, <1>3, <1>4, Numbers, BoundKept
<1>5. CASE views' = With(views, nextId, view[c]) /\ nextId' = nextId + 1
  <2> DEFINE n == view[c].search
  <2>1. n < nextId /\ n # None /\ n \in Nat
        /\ (\A d \in DOMAIN views : views[d].search # n)
        /\ \A e \in Slots : e # c /\ pc[e] \in Holding \union {"post_view"} => view[e].search # n
    BY <1>1, Numbers DEF Bound, HoldsNew
  <2>2. \A x \in Nat : x < nextId => x < nextId' /\ x # nextId
    BY <1>5, Numbers
  <2>3. nextId \notin DOMAIN views
    BY <2>2, Numbers DEF Drawn
  <2>4. /\ DOMAIN views' = DOMAIN views \union {nextId}
        /\ \A d \in DOMAIN views : views'[d] = views[d] /\ d # nextId
        /\ views'[nextId].search = n
    BY <1>5, <2>3 DEF With
  <2> HIDE DEF n
  <2>5. Owned'
    BY <2>1, <2>2, <2>4, Numbers DEF Bound, Owned
  <2>6. ASSUME NEW e \in Slots PROVE HoldsOwned(e)'
    <3>1. CASE e = c
      BY <1>3, <3>1 DEF HoldsOwned
    <3>2. CASE e # c
      BY <1>1, <1>2, <2>1, <2>2, <2>4, <3>2, Numbers DEF Bound, HoldsOwned
    <3> QED
      BY <3>1, <3>2
  <2>7. ASSUME NEW e \in Slots PROVE HoldsNew(e)'
    <3>1. CASE e = c
      BY <1>3, <3>1 DEF HoldsNew
    <3>2. CASE e # c
      <4> SUFFICES ASSUME pc[e] = "post_view"
                   PROVE  HoldsNew(e)'
        BY <1>2, <3>2 DEF HoldsNew
      <4>1. HoldsNew(e) /\ view'[e] = view[e] /\ pc'[e] = pc[e]
        BY <1>2, <3>2 DEF Bound
      <4> QED
        BY <1>1, <1>2, <1>3, <2>1, <2>2, <2>4, <3>2, <4>1, Numbers DEF HoldsNew
    <3> QED
      BY <3>1, <3>2
  <2> QED
    BY <2>5, <2>6, <2>7 DEF Bound
<1> QED
  BY <1>4, <1>5 DEF PostView

\* A step of a call that binds nothing.
LEMMA CallBound ==
  ASSUME Typed, Bound, NEW c \in Slots, Call(c) \/ Step(c), nextId' \in Nat, nextId <= nextId',
         \A d \in DOMAIN views' : d \in DOMAIN views /\ views'[d].search = views[d].search,
         \/ pc'[c] \notin Holding \union {"post_view"}
         \/ pc'[c] \in Holding /\ pc[c] \in Holding /\ op' = op /\ view'[c].search = view[c].search
  PROVE  Bound'
<1>1. \A e \in Slots : e # c => pc'[e] = pc[e] /\ op'[e] = op[e] /\ view'[e] = view[e]
  BY OthersLocals
<1>2. ASSUME NEW e \in Slots
      PROVE  /\ pc'[e] \in Holding => pc[e] \in Holding /\ op'[e] = op[e] /\ view'[e].search = view[e].search
             /\ pc'[e] = "post_view" => pc[e] = "post_view" /\ view'[e].search = view[e].search
  BY <1>1 DEF Holding
<1> QED
  BY <1>2, BoundKept

LEMMA EndsOut ==
  ASSUME Typed, NEW c \in Slots, NEW how \in Ended, Ends(c, how)
  PROVE  pc'[c] = how /\ pc'[c] \notin Holding \union {"post_view", "post_search", "get_view", "probe", "delete"}
BY DEF Ends, Goes, Typed, Locals, Holding, Ended

\* What reading the search makes of the view and the search a call holds.
AddsTo(c, s, k, piece) ==
  /\ Leaves(view[c], view'[c], k)
  /\ view'[c].tabs[k].widgets = view[c].tabs[k].widgets \union {nextId}
  /\ view'[c].tabs[k].mapping = view[c].tabs[k].mapping \union Feeds(nextId, piece)
  /\ widget'[c] = nextId /\ nextId' = nextId + 1
  /\ pc'[c] \in {"previewed", IF piece.data THEN "put_search" ELSE "put_view"}
  /\ piece.data => At(search'[c], k) = At(s, k) \union {nextId} /\ Differ(s, search'[c], k)
TakesFrom(c, s, k, w) ==
  /\ Leaves(view[c], view'[c], k)
  /\ view'[c].tabs[k].widgets = view[c].tabs[k].widgets \ {w}
  /\ view'[c].tabs[k].mapping = {m \in view[c].tabs[k].mapping : m.widget # w}
  /\ widget'[c] = w /\ nextId' = nextId
  /\ pc'[c] \in {"previewed", "put_search"}
  /\ At(search'[c], k) = At(s, k) \ TypesOf(view[c], w)
  /\ Differ(s, search'[c], k)

LEMMA AddToWrites ==
  ASSUME Typed, NEW c \in Slots, pc[c] = "get_search", NEW s, op[c].tool = "add_widget_from_template",
         AddTo(c, op[c].pieces[1], s), ~ Stops(c, "refused"), NEW k, k = FirstOf(DOMAIN view[c].tabs),
         NEW piece, piece = op[c].pieces[1]
  PROVE  AddsTo(c, s, k, piece)
<1> DEFINE t == view[c].tabs
           tab == Added(t[k], nextId, piece)
           types == At(s, k) \union {m.type : m \in Feeds(nextId, piece)}
           new == With(t, k, tab)
           v == [view[c] EXCEPT !.tabs = new]
<1>1. IsView(view[c]) /\ IsTabs(t)
  BY Unchanging, ViewFields
<1>2. k \in DOMAIN t
  <2>1. DOMAIN t # {}
    BY DEF Typed, Controlled, Usable
  <2> QED
    BY <1>1, <2>1, FirstOfType DEF IsTabs
<1>3. /\ Composes(c, k, tab, types, s) /\ AcceptsTab(tab, piece.data, k, s)
      /\ widget' = [widget EXCEPT ![c] = nextId] /\ nextId' = nextId + 1
      /\ Built(c, IF piece.data THEN "put_search" ELSE "put_view")
  BY DEF AddTo
<1>4. view'[c] = v /\ widget'[c] = nextId
  BY <1>3 DEF Composes, Typed, Locals
<1>5. v.tabs = new /\ v.search = view[c].search
  BY <1>1, ViewFields
<1>6. DOMAIN new = DOMAIN t /\ new[k] = tab /\ \A j \in DOMAIN t : j # k => new[j] = t[j]
  BY <1>2 DEF With
<1>7. tab.widgets = t[k].widgets \union {nextId} /\ tab.mapping = t[k].mapping \union Feeds(nextId, piece)
  BY DEF Added
<1>8. pc'[c] \in {"previewed", IF piece.data THEN "put_search" ELSE "put_view"}
  BY <1>3 DEF Built, Goes, Typed, Locals
<1>9. ASSUME piece.data
      PROVE  At(search'[c], k) = At(s, k) \union {nextId} /\ Differ(s, search'[c], k)
  <2>1. k \in DOMAIN s
    BY <1>3, <1>9 DEF AcceptsTab
  <2>2. search'[c] = With(s, k, types)
    BY <1>3, <2>1 DEF Composes, Typed, Locals
  <2>3. types = At(s, k) \union {nextId}
    BY <1>9 DEF Feeds
  <2> HIDE DEF types
  <2>4. At(search'[c], k) = types
    BY <2>2 DEF With, At
  <2>5. \A j : j # k => At(search'[c], j) = At(s, j)
    BY <2>2 DEF With, At
  <2> QED
    BY <2>3, <2>4, <2>5 DEF Differ
<1> HIDE DEF v, new, tab, types
<1>10. Leaves(view[c], view'[c], k)
  BY <1>2, <1>4, <1>5, <1>6 DEF Leaves
<1> QED
  BY <1>3, <1>4, <1>5, <1>6, <1>7, <1>8, <1>9, <1>10 DEF AddsTo

LEMMA RemoveFromWrites ==
  ASSUME Typed, NEW c \in Slots, pc[c] = "get_search", NEW s, op[c].tool = "remove_widget",
         RemoveFrom(c, op[c].widget, s), ~ Stops(c, "refused"), NEW w, w = op[c].widget,
         NEW k, k = FirstOf(TabsWith(view[c], w))
  PROVE  TakesFrom(c, s, k, w)
<1> DEFINE t == view[c].tabs
           tab == Removed(t[k], w)
           gone == {m.type : m \in {n \in view[c].tabs[k].mapping : n.widget = w}}
           new == With(t, k, tab)
           v == [view[c] EXCEPT !.tabs = new]
<1>1. IsView(view[c]) /\ IsTabs(t)
  BY Unchanging, ViewFields
<1>2. k \in DOMAIN t
  <2>1. TabsWith(view[c], w) # {} /\ TabsWith(view[c], w) \subseteq Id /\ TabsWith(view[c], w) \subseteq DOMAIN t
    BY <1>1 DEF Typed, Controlled, Usable, TabsWith, IsTabs
  <2> QED
    BY <2>1, FirstOfType
<1>3. /\ Composes(c, k, tab, At(s, k) \ gone, s) /\ AcceptsTab(tab, TRUE, k, s)
      /\ widget' = [widget EXCEPT ![c] = w] /\ nextId' = nextId
      /\ Built(c, "put_search")
  BY DEF RemoveFrom, TabOf
<1>4. view'[c] = v /\ widget'[c] = w
  BY <1>3 DEF Composes, Typed, Locals
<1>5. v.tabs = new /\ v.search = view[c].search
  BY <1>1, ViewFields
<1>6. DOMAIN new = DOMAIN t /\ new[k] = tab /\ \A j \in DOMAIN t : j # k => new[j] = t[j]
  BY <1>2 DEF With
<1>7. tab.widgets = t[k].widgets \ {w} /\ tab.mapping = {m \in t[k].mapping : m.widget # w}
  BY DEF Removed
<1>8. pc'[c] \in {"previewed", "put_search"}
  BY <1>3 DEF Built, Goes, Typed, Locals
<1>9. At(search'[c], k) = At(s, k) \ TypesOf(view[c], w) /\ Differ(s, search'[c], k)
  <2> DEFINE types == At(s, k) \ gone
  <2>1. k \in DOMAIN s
    BY <1>3 DEF AcceptsTab
  <2>2. search'[c] = With(s, k, types)
    BY <1>3, <2>1 DEF Composes, Typed, Locals
  <2>3. types = At(s, k) \ TypesOf(view[c], w)
    BY DEF TypesOf
  <2> HIDE DEF types
  <2>4. At(search'[c], k) = types
    BY <2>2 DEF With, At
  <2>5. \A j : j # k => At(search'[c], j) = At(s, j)
    BY <2>2 DEF With, At
  <2> QED
    BY <2>3, <2>4, <2>5 DEF Differ
<1> HIDE DEF v, new, tab, gone
<1>10. Leaves(view[c], view'[c], k)
  BY <1>2, <1>4, <1>5, <1>6 DEF Leaves
<1> QED
  BY <1>3, <1>4, <1>5, <1>6, <1>7, <1>8, <1>9, <1>10 DEF TakesFrom

LEMMA StepBound ==
  ASSUME Typed, Drawn, Bound, NEW c \in Slots, Step(c)
  PROVE  Bound'
<1> USE Numbers
<1> DEFINE Out == pc'[c] \notin Holding \union {"post_view"}
           On  == pc'[c] \in Holding /\ pc[c] \in Holding /\ op' = op /\ view'[c].search = view[c].search
<1>1. ASSUME Out \/ On, nextId' \in Nat, nextId <= nextId', views' = views
      PROVE  Bound'
  BY <1>1, CallBound
<1>2. ASSUME NEW how \in Ended, Ends(c, how)
      PROVE  Out
  BY <1>2, EndsOut
<1>3. CASE RequestFails(c)
  <2>1. Out
    BY <1>2, <1>3 DEF RequestFails, Stops, Ended
  <2> QED
    BY <1>1, <1>3, <2>1 DEF RequestFails, Stops, server
<1>4. CASE GetSearch(c)
  <2>1. op[c].tool \in Changing /\ pc[c] = "get_search" /\ UNCHANGED <<views, op>>
    BY <1>4 DEF GetSearch, server, Typed, Controlled
  <2>2. CASE Stops(c, "refused")
    <3>1. Out
      BY <1>2, <2>2 DEF Stops, Ended
    <3> QED
      BY <1>1, <2>1, <2>2, <3>1 DEF Stops
  <2>3. CASE ~ Stops(c, "refused") /\ op[c].tool = "remove_widget"
    <3>1. PICK w, k : w = op[c].widget /\ k = FirstOf(TabsWith(view[c], w))
      OBVIOUS
    <3>2. RemoveFrom(c, op[c].widget, searches[view[c].search])
      BY <1>4, <2>3 DEF GetSearch
    <3>3. Leaves(view[c], view'[c], k) /\ nextId' = nextId /\ pc'[c] \in {"previewed", "put_search"}
      BY <2>1, <2>3, <3>1, <3>2, RemoveFromWrites DEF TakesFrom
    <3>4. Out \/ On
      BY <2>1, <3>3 DEF Leaves, Holding
    <3> QED
      BY <1>1, <2>1, <3>3, <3>4
  <2>4. CASE ~ Stops(c, "refused") /\ op[c].tool = "add_widget_from_template"
    <3>1. PICK piece, k : piece = op[c].pieces[1] /\ k = FirstOf(DOMAIN view[c].tabs)
      OBVIOUS
    <3>2. AddTo(c, op[c].pieces[1], searches[view[c].search])
      BY <1>4, <2>4 DEF GetSearch
    <3>3. Leaves(view[c], view'[c], k) /\ nextId' = nextId + 1
          /\ pc'[c] \in {"previewed", IF piece.data THEN "put_search" ELSE "put_view"}
      BY <2>1, <2>4, <3>1, <3>2, AddToWrites DEF AddsTo
    <3>4. Out \/ On
      BY <2>1, <3>3 DEF Leaves, Holding
    <3> QED
      BY <1>1, <2>1, <3>3, <3>4
  <2> QED
    BY <2>1, <2>2, <2>3, <2>4 DEF Changing
<1>5. CASE Probe(c)
  <2>1. Len(op[c].pieces) \in Nat
    BY Unchanging, OperationType
  <2>2. Out
    BY <1>5 DEF Probe, Built, Goes, Typed, Locals, Holding
  <2>3. nextId' = nextId + Len(op[c].pieces) /\ views' = views
    BY <1>5 DEF Probe, server
  <2>4. nextId' \in Nat /\ nextId <= nextId'
    <3> DEFINE n == Len(op[c].pieces)
    <3>1. n \in Nat /\ nextId' = nextId + n
      BY <2>1, <2>3
    <3> HIDE DEF n
    <3> QED
      BY <3>1
  <2> QED
    BY <1>1, <2>2, <2>3, <2>4
<1>6. CASE PutSearch(c)
  <2>1. UNCHANGED <<views, op, nextId>> /\ pc[c] = "put_search"
    BY <1>6 DEF PutSearch
  <2>2. CASE Failure(c)
    <3>1. Out
      BY <1>2, <2>2 DEF Failure, Ended
    <3> QED
      BY <1>1, <2>1, <3>1
  <2>3. CASE Goes(c, "put_view") /\ view' = view
    <3>1. On
      BY <2>1, <2>3 DEF Goes, Typed, Locals, Holding
    <3> QED
      BY <1>1, <2>1, <3>1
  <2> QED
    BY <1>6, <2>2, <2>3 DEF PutSearch
<1>7. CASE PutView(c)
  <2>1. Out
    BY <1>2, <1>7 DEF PutView, Failure, Ended
  <2>2. HoldsOwned(c) /\ pc[c] \in Holding
    BY <1>7 DEF Bound, PutView, Holding
  <2>3. \A d \in DOMAIN views' : d \in DOMAIN views /\ views'[d].search = views[d].search
    <3>1. CASE views' = views
      BY <3>1
    <3>2. CASE op[c].dashboard \in DOMAIN views /\ views' = With(views, op[c].dashboard, view[c])
      BY <2>2, <3>2 DEF With, HoldsOwned
    <3> QED
      BY <1>7, <3>1, <3>2 DEF PutView
  <2>4. nextId' = nextId
    BY <1>7 DEF PutView
  <2> QED
    BY <1>7, <2>1, <2>3, <2>4, CallBound
<1>8. CASE Delete(c)
  <2>1. Out
    BY <1>2, <1>8 DEF Delete, Failure, Ended
  <2>2. \A d \in DOMAIN views' : d \in DOMAIN views /\ views'[d].search = views[d].search
    BY <1>8 DEF Delete, Without
  <2>3. nextId' = nextId
    BY <1>8 DEF Delete
  <2> QED
    BY <1>8, <2>1, <2>2, <2>3, CallBound
<1> QED
  BY <1>3, <1>4, <1>5, <1>6, <1>7, <1>8, GetViewBound, PostSearchBound, PostViewBound DEF Step

LEMMA NextBound ==
  ASSUME Typed, Drawn, Bound, [Next]_vars
  PROVE  Bound'
<1> USE Numbers
<1>1. CASE UNCHANGED vars
  BY <1>1, BoundKept DEF vars, calls
<1>2. ASSUME NEW c \in Slots, Call(c)
      PROVE  Bound'
  <2>1. pc'[c] \notin Holding \union {"post_view"} /\ UNCHANGED <<views, nextId>>
    BY <1>2 DEF Call, Start, Typed, Locals, Holding
  <2> QED
    BY <1>2, <2>1, CallBound
<1>3. CASE OtherUsers
  <2>1. PICK d \in DOMAIN views : Retitle(d) \/ DeleteInBrowser(d) \/ \E k \in DOMAIN views[d].tabs : AddInBrowser(d, k)
    BY <1>3 DEF OtherUsers
  <2>2. UNCHANGED calls /\ nextId' \in Nat /\ nextId <= nextId'
    <3>1. UNCHANGED calls
      BY <2>1 DEF Retitle, DeleteInBrowser, AddInBrowser, Edits
    <3>2. nextId' = nextId \/ nextId' = nextId + 1
      BY <2>1 DEF Retitle, DeleteInBrowser, AddInBrowser
    <3> QED
      BY <3>1, <3>2
  <2>3. \A e \in DOMAIN views' : e \in DOMAIN views /\ views'[e].search = views[e].search
    <3>1. IsView(views[d])
      OBVIOUS
    <3>2. CASE Retitle(d)
      <4>1. views' = [views EXCEPT ![d] = [views[d] EXCEPT !.title = "other"]]
        BY <3>2 DEF Retitle
      <4>2. [views[d] EXCEPT !.title = "other"].search = views[d].search
        BY <3>1, ViewFields
      <4> QED
        BY <4>1, <4>2
    <3>3. CASE DeleteInBrowser(d)
      BY <3>3 DEF DeleteInBrowser, Without
    <3>4. ASSUME NEW k \in DOMAIN views[d].tabs, AddInBrowser(d, k)
          PROVE  \A e \in DOMAIN views' : e \in DOMAIN views /\ views'[e].search = views[e].search
      <4> DEFINE t == [views[d].tabs EXCEPT ![k] = Added(@, nextId, [data |-> TRUE, row |-> None, height |-> 1])]
      <4>1. views' = [views EXCEPT ![d] = [views[d] EXCEPT !.tabs = t]]
        BY <3>4 DEF AddInBrowser
      <4> HIDE DEF t
      <4>2. [views[d] EXCEPT !.tabs = t].search = views[d].search
        BY <3>1, ViewFields
      <4> QED
        BY <4>1, <4>2
    <3> QED
      BY <2>1, <3>2, <3>3, <3>4
  <2> QED
    BY <2>2, <2>3, BoundKept DEF calls
<1> QED
  BY <1>1, <1>2, <1>3, StepBound DEF Next

(* Readied *)

\* Nobody else writes the search of a dashboard without telling those that hold it.
LEMMA OthersSame ==
  ASSUME Typed, Bound, Held, NEW e \in Slots, Call(e) \/ Step(e), NEW c \in Slots, c # e,
         pc[c] = "post_view" \/ (pc[c] \in Holding /\ ~raced'[c]), Spared(c)
  PROVE  Same(view[c].search)
<1>1. CASE searches' = searches
  BY <1>1 DEF Same
<1>2. CASE PutSearch(e) /\ searches' = With(searches, view[e].search, search[e]) /\ Wrote(e)
  <2>1. view[e].search # view[c].search
    <3>1. pc[e] = "put_search" /\ pc[e] \in Holding /\ view[e].search # None
      BY <1>2 DEF PutSearch, Holding, Typed, Controlled
    <3>2. CASE pc[c] = "post_view"
      BY <3>1, <3>2 DEF Bound, HoldsNew
    <3>3. CASE pc[c] \in Holding /\ ~raced'[c]
      <4>1. op[c].dashboard # op[e].dashboard
        BY <1>2, <3>3 DEF Wrote, Overtaken
      <4>2. op[c].dashboard \in DOMAIN views
        BY <3>3 DEF Spared, Held, Holds
      <4>3. view[c].search = views[op[c].dashboard].search
        BY <3>3, <4>2 DEF Bound, HoldsOwned
      <4> QED
        BY <3>1, <4>1, <4>2, <4>3 DEF Bound, HoldsOwned
    <3> QED
      BY <3>2, <3>3
  <2> QED
    BY <1>2, <2>1 DEF Same, With
<1>3. CASE PostSearch(e) /\ searches' = With(searches, nextId, search[e])
  <2>1. view[c].search # nextId
    <3>1. view[c].search < nextId
      BY DEF Bound, HoldsOwned, HoldsNew
    <3> QED
      BY <3>1, Numbers
  <2> QED
    BY <1>3, <2>1 DEF Same, With
<1>4. CASE Call(e)
  BY <1>1, <1>4 DEF Call, Start
<1>5. CASE Step(e)
  BY <1>1, <1>2, <1>3, <1>5 DEF Step, RequestFails, GetView, GetSearch, Probe, PutSearch, PutView, PostSearch, PostView,
     Delete, server
<1> QED
  BY <1>4, <1>5

LEMMA OtherUsersSame ==
  ASSUME Typed, Bound, Held, OtherUsers, NEW c \in Slots,
         pc[c] = "post_view" \/ (pc[c] \in Holding /\ ~raced'[c]), Spared(c)
  PROVE  Same(view[c].search)
<1>1. PICK d \in DOMAIN views : Retitle(d) \/ DeleteInBrowser(d) \/ \E k \in DOMAIN views[d].tabs : AddInBrowser(d, k)
  BY DEF OtherUsers
<1>2. CASE Retitle(d) \/ DeleteInBrowser(d)
  BY <1>2 DEF Retitle, DeleteInBrowser, Same
<1>3. ASSUME NEW k \in DOMAIN views[d].tabs, AddInBrowser(d, k)
      PROVE  Same(view[c].search)
  <2> DEFINE n == views[d].search
  <2>1. n \in DOMAIN searches /\ n # None /\ raced' = Overtaken(d, {})
    BY <1>3 DEF AddInBrowser, Edits, Typed, Server, IsServer, Id, None
  <2>2. n # view[c].search
    <3>1. CASE pc[c] = "post_view"
      BY <3>1 DEF Bound, HoldsNew
    <3>2. CASE pc[c] \in Holding /\ ~raced'[c]
      <4>1. op[c].dashboard # d
        BY <2>1, <3>2 DEF Overtaken
      <4> QED
        BY <2>1, <3>2, <4>1 DEF Bound, HoldsOwned
    <3> QED
      BY <3>1, <3>2
  <2>3. searches' = [searches EXCEPT ![n][k] = @ \union {nextId}]
    BY <1>3 DEF AddInBrowser
  <2> HIDE DEF n
  <2> QED
    BY <2>2, <2>3 DEF Same
<1> QED
  BY <1>1, <1>2, <1>3

LEMMA NotReady ==
  ASSUME NEW p, NEW r, NEW o, NEW w, NEW u, NEW v, NEW q, NEW s,
         p \notin {"put_search", "put_view", "post_search", "post_view"}
  PROVE  Ready(p, r, o, w, u, v, q, s)
BY DEF Ready

LEMMA OutReadied ==
  ASSUME NEW c \in Slots, pc'[c] \notin {"put_search", "put_view", "post_search", "post_view"}
  PROVE  Readied(c)'
BY NotReady DEF Readied

\* Reading the search prepares the two writes.
LEMMA GetSearchReadied ==
  ASSUME Typed, Places, Held, NEW c \in Slots, GetSearch(c)
  PROVE  Readied(c)'
<1>1. /\ pc[c] = "get_search" /\ UNCHANGED <<views, searches, op, raced>> /\ op[c].tool \in Changing
      /\ view[c].search \in DOMAIN searches
  BY DEF GetSearch, server, history, Typed, Controlled
<1>2. CASE Stops(c, "refused")
  <2>1. pc'[c] = "refused"
    BY <1>2 DEF Stops, Ends, Goes, Typed, Locals
  <2> QED
    BY <2>1, OutReadied
<1> DEFINE u == view[c]
<1> DEFINE s == searches[view[c].search]
<1>3. ~raced'[c] => views'[op'[c].dashboard] = u
  BY <1>1 DEF Held, Holds, Holding
<1>4. SearchOf(view[c].search) = s
  BY <1>1 DEF SearchOf
<1>5. CASE ~ Stops(c, "refused") /\ op[c].tool = "remove_widget"
  <2>1. PICK w, k : w = op[c].widget /\ k = FirstOf(TabsWith(u, w))
    OBVIOUS
  <2>2. RemoveFrom(c, op[c].widget, s)
    BY <1>5 DEF GetSearch
  <2>3. /\ Leaves(u, view'[c], k)
        /\ view'[c].tabs[k].widgets = u.tabs[k].widgets \ {w}
        /\ view'[c].tabs[k].mapping = {m \in u.tabs[k].mapping : m.widget # w}
        /\ widget'[c] = w
        /\ pc'[c] \in {"previewed", "put_search"}
        /\ At(search'[c], k) = At(s, k) \ TypesOf(u, w)
        /\ Differ(s, search'[c], k)
    <3>1. TakesFrom(c, s, k, w)
      BY <1>1, <1>5, <2>1, <2>2, RemoveFromWrites
    <3> QED
      BY <3>1 DEF TakesFrom
  <2>4. TakesWidget(u, view'[c], w)
    BY <2>1, <2>3 DEF TakesWidget
  <2>5. SearchOf(view[c].search)' = s
    BY <1>1, <2>3 DEF SearchOf, Leaves
  <2>6. WritesSearch(op[c])
    BY <1>5 DEF WritesSearch
  <2> HIDE DEF u, s
  <2>7. Ready(pc'[c], raced'[c], op'[c], widget'[c], views'[op'[c].dashboard], view'[c], s, search'[c])
    BY <1>1, <1>3, <1>5, <2>1, <2>3, <2>4, <2>6 DEF Ready
  <2> QED
    BY <2>5, <2>7 DEF Readied
<1>6. CASE ~ Stops(c, "refused") /\ op[c].tool = "add_widget_from_template"
  <2>1. PICK piece, k : piece = op[c].pieces[1] /\ k = FirstOf(DOMAIN u.tabs)
    OBVIOUS
  <2>2. AddTo(c, op[c].pieces[1], s)
    BY <1>6 DEF GetSearch
  <2>3. /\ Leaves(u, view'[c], k)
        /\ view'[c].tabs[k].widgets = u.tabs[k].widgets \union {nextId}
        /\ view'[c].tabs[k].mapping = u.tabs[k].mapping \union Feeds(nextId, piece)
        /\ widget'[c] = nextId
        /\ pc'[c] \in {"previewed", IF piece.data THEN "put_search" ELSE "put_view"}
        /\ piece.data => At(search'[c], k) = At(s, k) \union {nextId} /\ Differ(s, search'[c], k)
    <3>1. AddsTo(c, s, k, piece)
      BY <1>1, <1>6, <2>1, <2>2, AddToWrites
    <3> QED
      BY <3>1 DEF AddsTo
  <2>4. New(u, nextId)
    <3>1. /\ \A j \in DOMAIN u.tabs : \A w \in u.tabs[j].widgets : w < nextId
          /\ \A j \in DOMAIN u.tabs : \A m \in u.tabs[j].mapping : m.type < nextId
      BY DEF Places, Sound
    <3> QED
      BY <3>1, Numbers DEF New
  <2>5. AddsWidget(u, view'[c], nextId, piece)
    BY <2>1, <2>3, <2>4 DEF AddsWidget
  <2>6. SearchOf(view[c].search)' = s
    BY <1>1, <2>3 DEF SearchOf, Leaves
  <2>7. WritesSearch(op[c]) <=> piece.data
    BY <1>6, <2>1 DEF WritesSearch
  <2> HIDE DEF u, s
  <2>8. Ready(pc'[c], raced'[c], op'[c], widget'[c], views'[op'[c].dashboard], view'[c], s, search'[c])
    BY <1>1, <1>3, <1>6, <2>1, <2>3, <2>5, <2>7 DEF Ready
  <2> QED
    BY <2>6, <2>8 DEF Readied
<1> QED
  BY <1>1, <1>2, <1>5, <1>6 DEF Changing

LEMMA GetViewReadied ==
  ASSUME Typed, NEW c \in Slots, GetView(c)
  PROVE  Readied(c)'
<1> DEFINE d == op[c].dashboard
<1>1. UNCHANGED <<views, op>>
  BY DEF GetView, server
<1>2. CASE Built(c, "delete") \/ Goes(c, "get_search") \/ Stops(c, "refused")
  <2>1. pc'[c] \in {"previewed", "delete", "get_search", "refused"}
    BY <1>2 DEF Built, Stops, Ends, Goes, Typed, Locals
  <2> QED
    BY <2>1, OutReadied
<1>3. CASE /\ op[c].tool = "update_dashboard" /\ d \in DOMAIN views
           /\ view' = [view EXCEPT ![c] = [views[d] EXCEPT !.title = op[c].title]]
           /\ Built(c, "put_view")
  <2>1. pc'[c] \in {"previewed", "put_view"}
    BY <1>3 DEF Built, Goes, Typed, Locals
  <2>2. view'[c] = [views[d] EXCEPT !.title = op[c].title]
    BY <1>3 DEF Typed, Locals
  <2>3. IsView(views[d])
    BY <1>3, Numbers
  <2>4. view'[c].search = views[d].search /\ view'[c].tabs = views[d].tabs
    BY <2>2, <2>3, ViewFields
  <2>5. ASSUME NEW r, NEW w, NEW q, NEW s
        PROVE  Ready(pc'[c], r, op[c], w, views[d], view'[c], q, s)
    <3> HIDE DEF d
    <3> QED
      BY <1>3, <2>1, <2>4 DEF Ready
  <2> QED
    BY <1>1, <2>5 DEF Readied
<1> QED
  BY <1>2, <1>3 DEF GetView

\* The documents of a new dashboard agree.
LEMMA ProbeReadied ==
  ASSUME Typed, NEW c \in Slots, Probe(c)
  PROVE  Readied(c)'
<1> DEFINE pieces == op[c].pieces
           Number(i) == nextId + i - 1
           feeds  == UNION {Feeds(Number(i), pieces[i]) : i \in DOMAIN pieces}
           tab    == [widgets |-> {Number(i) : i \in DOMAIN pieces},
                      positions |-> {Place(Number(i), pieces[i], pieces[i].row) : i \in DOMAIN pieces},
                      mapping |-> feeds]
           v == [search |-> None, title |-> op[c].title, tabs |-> <<tab>>]
           q == <<{m.type : m \in feeds}>>
<1>1. view'[c] = v /\ search'[c] = q
  BY DEF Probe, Typed, Locals
<1>2. pc'[c] \in {"previewed", "post_search"}
  BY DEF Probe, Built, Goes, Typed, Locals
<1>3. \A m \in feeds : m.type = m.widget /\ m.widget \in tab.widgets
  <2>1. \A i \in DOMAIN pieces : \A m \in Feeds(Number(i), pieces[i]) : m.type = m.widget /\ m.widget = Number(i)
    BY DEF Feeds
  <2> HIDE DEF Number, pieces
  <2> QED
    BY <2>1
<1>4. tab.mapping = feeds /\ v.tabs = <<tab>>
  OBVIOUS
<1> HIDE DEF tab, feeds, v
<1>5. DOMAIN v.tabs = {1} /\ v.tabs[1] = tab /\ At(q, 1) = {m.type : m \in feeds}
  BY <1>4 DEF At
<1>6. FedBy(v)
  BY <1>3, <1>4, <1>5 DEF FedBy
<1>7. Agrees(v, q, {}, {})
  <2> HIDE DEF q
  <2> QED
    BY <1>4, <1>5 DEF Agrees
<1> HIDE DEF q
<1>8. ASSUME NEW r, NEW o, NEW w, NEW u, NEW z
      PROVE  Ready(pc'[c], r, o, w, u, v, z, q)
  BY <1>2, <1>6, <1>7 DEF Ready
<1> QED
  BY <1>1, <1>8 DEF Readied

\* The first write of two makes room for the second.
LEMMA PutSearchReadied ==
  ASSUME Typed, NEW c \in Slots, Readied(c), PutSearch(c)
  PROVE  Readied(c)'
<1>1. CASE Failure(c)
  <2>1. pc'[c] \in Ended
    BY <1>1 DEF Failure, Ends, Goes, Typed, Locals, Ended
  <2> QED
    BY <2>1, OutReadied DEF Ended
<1>2. CASE /\ searches' = With(searches, view[c].search, search[c]) /\ Wrote(c)
           /\ Goes(c, "put_view") /\ UNCHANGED <<view, search, widget>>
  <2>1. pc[c] = "put_search" /\ pc'[c] = "put_view" /\ UNCHANGED <<views, op>> /\ raced'[c] = raced[c]
    BY <1>2 DEF PutSearch, Goes, Wrote, Overtaken, Typed, Locals, History
  <2>2. SearchOf(view[c].search)' = search[c]
    BY <1>2 DEF SearchOf, With
  <2>3. op[c].tool \in Changing
    BY <2>1 DEF Typed, Controlled
  <2>4. ASSUME NEW r, NEW o, NEW w, NEW u, NEW v, NEW q, NEW s, Ready("put_search", r, o, w, u, v, q, s), o.tool \in Changing
        PROVE  Ready("put_view", r, o, w, u, v, s, s)
    BY <2>4 DEF Ready, Changing
  <2>5. Ready("put_view", raced[c], op[c], widget[c], views[op[c].dashboard], view[c], search[c], search[c])
    BY <2>1, <2>3, <2>4 DEF Readied
  <2> QED
    BY <1>2, <2>1, <2>2, <2>5 DEF Readied
<1> QED
  BY <1>1, <1>2 DEF PutSearch

LEMMA PostSearchReadied ==
  ASSUME Typed, NEW c \in Slots, Readied(c), PostSearch(c)
  PROVE  Readied(c)'
<1>1. CASE Ends(c, "unresolved_dependency") \/ Failure(c)
  <2>1. pc'[c] \in Ended
    BY <1>1 DEF Failure, Ends, Goes, Typed, Locals, Ended
  <2> QED
    BY <2>1, OutReadied DEF Ended
<1>2. CASE /\ searches' = With(searches, nextId, search[c])
           /\ Goes(c, "post_view") /\ view' = [view EXCEPT ![c].search = nextId] /\ UNCHANGED <<search, widget>>
  <2>1. pc[c] = "post_search" /\ pc'[c] = "post_view"
    BY <1>2 DEF PostSearch, Goes, Typed, Locals
  <2>2. view'[c] = [view[c] EXCEPT !.search = nextId] /\ IsView(view[c])
    BY <1>2, Numbers DEF Typed, Locals
  <2>3. view'[c].search = nextId /\ view'[c].tabs = view[c].tabs
    BY <2>2, ViewFields
  <2>4. SearchOf(view[c].search)' = search[c]
    BY <1>2, <2>3 DEF SearchOf, With
  <2>5. FedBy(view[c]) /\ Agrees(view[c], search[c], {}, {})
    BY <2>1 DEF Readied, Ready
  <2>6. Agree(view'[c], search[c], {}, {})
    BY <2>3, <2>5, AgreedMore DEF Agree
  <2>7. ASSUME NEW r, NEW o, NEW w, NEW u
        PROVE  Ready("post_view", r, o, w, u, view'[c], search[c], search[c])
    BY <2>6 DEF Ready, Agree
  <2> QED
    BY <1>2, <2>1, <2>4, <2>7 DEF Readied
<1> QED
  BY <1>1, <1>2 DEF PostSearch

LEMMA OwnReadied ==
  ASSUME Typed, Places, Held, NEW c \in Slots, Readied(c), Call(c) \/ Step(c)
  PROVE  Readied(c)'
<1>1. CASE Call(c)
  <2>1. pc'[c] \in {"probe", "get_view"}
    BY <1>1 DEF Call, Start, Typed, Locals
  <2> QED
    BY <2>1, OutReadied
<1>2. CASE RequestFails(c) \/ PutView(c) \/ PostView(c) \/ Delete(c)
  <2>1. pc'[c] \in Ended
    BY <1>2 DEF RequestFails, PutView, PostView, Delete, Failure, Stops, Ends, Goes, Typed, Locals, Ended
  <2> QED
    BY <2>1, OutReadied DEF Ended
<1> QED
  BY <1>1, <1>2, GetViewReadied, GetSearchReadied, ProbeReadied, PutSearchReadied, PostSearchReadied DEF Step

LEMMA NextReadied ==
  ASSUME Typed, Places, Drawn, Held, Bound, [Next]_vars, NEW c \in Slots, Readied(c)
  PROVE  Readied(c)'
<1>1. Holds(c)
  BY DEF Held
<1>2. CASE UNCHANGED vars
  BY <1>2 DEF Readied, SearchOf, vars, calls
<1>3. ASSUME NEW e \in Slots, Call(e) \/ Step(e)
      PROVE  Readied(c)'
  <2>1. CASE c = e
    BY <1>3, <2>1, OwnReadied
  <2>2. CASE c # e
    <3>1. Spared(c) /\ search'[c] = search[c]
      BY <1>3, <2>2, OthersSpared, OthersLocals
    <3>2. pc[c] = "post_view" \/ (pc[c] \in Holding /\ ~raced'[c]) => Same(view[c].search)
      BY <1>3, <2>2, <3>1, OthersSame
    <3> QED
      BY <1>1, <3>1, <3>2, SparedReady
  <2> QED
    BY <2>1, <2>2
<1>4. CASE OtherUsers
  <2>1. Spared(c)
    BY <1>4, OtherUsersSpare
  <2>2. search'[c] = search[c]
    BY <1>4 DEF OtherUsers, Retitle, DeleteInBrowser, AddInBrowser, Edits, calls
  <2>3. pc[c] = "post_view" \/ (pc[c] \in Holding /\ ~raced'[c]) => Same(view[c].search)
    BY <1>4, <2>1, OtherUsersSame
  <2> QED
    BY <1>1, <2>1, <2>2, <2>3, SparedReady
<1> QED
  BY <1>2, <1>3, <1>4 DEF Next

(* Agreed *)

\* The exceptions of d are still made.
Excepts(d) == Blank(d) \subseteq Blank(d)' /\ Spare(d) \subseteq Spare(d)'

LEMMA AgreedKept ==
  ASSUME NEW d, Agreed(d), views'[d].tabs = views[d].tabs, views'[d].search = views[d].search,
         Same(views[d].search), Excepts(d)
  PROVE  Agreed(d)'
<1>1. SearchOf(views[d].search)' = SearchOf(views[d].search)
  <2>1. \A n : Same(n) => (IF n \in DOMAIN searches' THEN searches'[n] ELSE <<>>) = SearchOf(n)
    BY DEF Same, SearchOf
  <2> QED
    BY <2>1 DEF SearchOf
<1> DEFINE u == views[d]
           v == views'[d]
           q == SearchOf(u.search)
<1>2. Agree(u, q, Blank(d), Spare(d)) /\ v.tabs = u.tabs
  BY DEF Agreed
<1>3. Agree(v, q, Blank(d)', Spare(d)')
  <2> HIDE DEF u, v, q
  <2> QED
    BY <1>2, AgreedMore DEF Excepts
<1> QED
  BY <1>1, <1>3 DEF Agreed

\* A call that is not at its second write leaves the exceptions alone.
LEMMA EarlyExcepts ==
  ASSUME Typed, NEW c \in Slots, Call(c) \/ Step(c), pc[c] # "put_view", apart \subseteq apart', NEW d
  PROVE  Excepts(d)
<1>1. \A e \in Slots : e # c => pc'[e] = pc[e] /\ op'[e] = op[e] /\ widget'[e] = widget[e]
  BY OthersLocals
<1>2. ASSUME NEW tool PROVE Left(d, tool) \ {} \subseteq Left(d, tool)'
  BY <1>1, LeftMore
<1> QED
  BY <1>2 DEF Excepts, Blank, Spare

LEMMA QuietAgreed ==
  ASSUME Typed, NEW c \in Slots, Call(c) \/ RequestFails(c) \/ GetView(c) \/ GetSearch(c) \/ Probe(c), NEW d, Agreed(d)
  PROVE  Agreed(d)'
<1>1. UNCHANGED <<views, searches, apart>> /\ pc[c] # "put_view"
  BY DEF Call, Start, RequestFails, GetView, GetSearch, Probe, server, history, Reading, Ended
<1>2. Excepts(d)
  BY <1>1, EarlyExcepts DEF Step
<1> QED
  BY <1>1, <1>2, AgreedKept DEF Same

\* The first write of two.
LEMMA PutSearchAgreed ==
  ASSUME Typed, Held, Bound, NEW c \in Slots, Readied(c), PutSearch(c),
         NEW d \in DOMAIN views, Agreed(d), d \notin stale'
  PROVE  Agreed(d)'
<1>1. pc[c] = "put_search" /\ UNCHANGED <<views, op>> /\ view[c].search # None /\ op[c].tool \in Changing /\ pc[c] \in Holding
  BY DEF PutSearch, Typed, Controlled, Holding
<1>2. Excepts(d)
  <2>1. apart \subseteq apart' /\ pc[c] # "put_view"
    BY DEF PutSearch, history
  <2> QED
    BY <2>1, EarlyExcepts DEF Step
<1>3. CASE searches' = searches
  BY <1>1, <1>2, <1>3, AgreedKept DEF Same
<1>4. CASE searches' = With(searches, view[c].search, search[c]) /\ d # op[c].dashboard
  <2>1. views[d].search # view[c].search
    BY <1>1, <1>4 DEF Bound, HoldsOwned
  <2>2. Same(views[d].search)
    BY <1>4, <2>1 DEF Same, With
  <2> QED
    BY <1>1, <1>2, <2>2, AgreedKept
<1>5. CASE /\ searches' = With(searches, view[c].search, search[c]) /\ d = op[c].dashboard /\ Wrote(c)
           /\ \/ Goes(c, "put_view") /\ UNCHANGED <<view, search, widget, apart>>
              \/ Failure(c) /\ apart' = apart \union Cut(c)
  <2>1. ~ raced[c]
    BY <1>5 DEF Wrote
  <2>2. view[c].search = views[d].search
    BY <1>1, <1>5 DEF Bound, HoldsOwned
  <2>3. SearchOf(views[d].search)' = search[c]
    BY <1>1, <1>5, <2>2 DEF SearchOf, With
  <2>4. WritesSearch(op[c])
    BY <1>1 DEF Readied, Ready
  <2>5. PICK tool : tool = op[c].tool
    OBVIOUS
  <2>6. widget[c] \in Left(d, tool)'
    <3>1. Cut(c) \subseteq apart' \/ (pc'[c] = "put_view" /\ op'[c] = op[c] /\ widget'[c] = widget[c])
      BY <1>1, <1>5 DEF Goes, Typed, Locals
    <3> QED
      BY <1>5, <2>4, <2>5, <3>1, LeftGains
  <2> DEFINE u == views[d]
             q == SearchOf(u.search)
             r == search[c]
             w == widget[c]
  <2>7. FedBy(u) /\ Agrees(u, q, Blank(d), Spare(d)) /\ DOMAIN u.tabs \subseteq Id
    <3>1. IsTabs(u.tabs)
      BY Numbers, ViewFields
    <3> QED
      BY <3>1 DEF Agreed, Agree, IsTabs
  <2>8. Ready("put_search", FALSE, op[c], w, u, view[c], q, r)
    <3>1. raced[c] = FALSE
      BY <2>1 DEF Typed, History
    <3> QED
      BY <1>1, <1>5, <2>2, <3>1 DEF Readied
  <2>9. CASE tool = "add_widget_from_template"
    <3>1. Differ(q, r, FirstOf(DOMAIN u.tabs)) /\ At(r, FirstOf(DOMAIN u.tabs)) = At(q, FirstOf(DOMAIN u.tabs)) \union {w}
      <4> HIDE DEF u, q, r, w
      <4> QED
        BY <2>5, <2>8, <2>9 DEF Ready
    <3>2. Spare(d) \union {w} \subseteq Spare(d)' /\ Blank(d) \subseteq Blank(d)'
      BY <1>2, <2>6, <2>9 DEF Excepts, Spare
    <3> HIDE DEF u, q, r, w
    <3>3. Agrees(u, r, Blank(d), Spare(d)')
      BY <2>7, <3>1, <3>2, TypeAddedAgrees
    <3>4. Agree(u, r, Blank(d)', Spare(d)')
      BY <2>7, <3>2, <3>3, AgreesMore DEF Agree
    <3> QED
      BY <1>1, <2>3, <3>4 DEF Agreed, u, r
  <2>10. CASE tool = "remove_widget"
    <3>1. /\ Differ(q, r, FirstOf(TabsWith(u, w))) /\ TakesWidget(u, view[c], w)
          /\ At(r, FirstOf(TabsWith(u, w))) = At(q, FirstOf(TabsWith(u, w))) \ TypesOf(u, w)
      <4> HIDE DEF u, q, r, w
      <4> QED
        BY <2>5, <2>8, <2>10 DEF Ready
    <3>2. Blank(d) \union {w} \subseteq Blank(d)' /\ Spare(d) \subseteq Spare(d)'
      BY <1>2, <2>6, <2>10 DEF Excepts, Blank
    <3>3. FirstOf(TabsWith(u, w)) \in DOMAIN u.tabs
      BY <3>1 DEF TakesWidget, Leaves
    <3> HIDE DEF u, q, r, w
    <3>4. Agrees(u, r, Blank(d)', Spare(d))
      BY <2>7, <3>1, <3>2, <3>3, TypesTakenAgrees
    <3>5. Agree(u, r, Blank(d)', Spare(d)')
      BY <2>7, <3>2, <3>4, AgreesMore DEF Agree
    <3> QED
      BY <1>1, <2>3, <3>5 DEF Agreed, u, r
  <2> QED
    BY <1>1, <2>5, <2>9, <2>10 DEF Changing
<1> QED
  BY <1>3, <1>4, <1>5 DEF PutSearch

\* The second write of two.
LEMMA PutViewAgreed ==
  ASSUME Typed, Held, Bound, NEW c \in Slots, Readied(c), PutView(c),
         NEW d \in DOMAIN views, Agreed(d), d \notin stale'
  PROVE  Agreed(d)'
<1> DEFINE w == widget[c]
<1>1. pc[c] = "put_view" /\ UNCHANGED <<searches, op>> /\ pc[c] \in Holding
  BY DEF PutView, Holding
<1>2. \A e \in Slots : e # c => pc'[e] = pc[e] /\ op'[e] = op[e] /\ widget'[e] = widget[e]
  BY OthersLocals DEF Step
<1>3. CASE /\ views' = views
           /\ apart' = apart \union (IF WritesSearch(op[c]) THEN Cut(c) ELSE {})
  <2>1. ASSUME NEW tool PROVE Left(d, tool) \ {} \subseteq Left(d, tool)'
    <3>1. pc[c] = "put_view" /\ op[c].dashboard = d /\ op[c].tool = tool /\ WritesSearch(op[c]) =>
            [dashboard |-> d, widget |-> widget[c], tool |-> tool] \in apart'
      BY <1>3 DEF Cut
    <3> QED
      BY <1>2, <1>3, <3>1, LeftMore
  <2>2. Excepts(d)
    BY <2>1 DEF Excepts, Blank, Spare
  <2> QED
    BY <1>1, <1>3, <2>2, AgreedKept DEF Same
<1>4. CASE /\ views' = With(views, op[c].dashboard, view[c]) /\ d # op[c].dashboard
           /\ apart' = apart \ (IF op[c].tool = "remove_widget" THEN Cut(c) ELSE {})
  <2>1. ASSUME NEW tool PROVE Left(d, tool) \ {} \subseteq Left(d, tool)'
    <3>1. \A a \in apart : a.dashboard = d => a \in apart'
      BY <1>4 DEF Cut
    <3> QED
      BY <1>2, <1>4, <3>1, LeftMore
  <2>2. Excepts(d)
    BY <2>1 DEF Excepts, Blank, Spare
  <2>3. views'[d] = views[d]
    BY <1>4 DEF With
  <2> QED
    BY <1>1, <2>2, <2>3, AgreedKept DEF Same
<1>5. CASE /\ views' = With(views, op[c].dashboard, view[c]) /\ d = op[c].dashboard /\ Wrote(c)
           /\ apart' = apart \ (IF op[c].tool = "remove_widget" THEN Cut(c) ELSE {})
  <2>1. raced[c] = FALSE
    BY <1>5 DEF Wrote, Typed, History
  <2>2. views'[d] = view[c]
    BY <1>5 DEF With
  <2>3. view[c].search = views[d].search
    BY <1>1, <1>5 DEF Bound, HoldsOwned
  <2> DEFINE u == views[d]
             v == view[c]
             q == SearchOf(u.search)
             o == op[c]
  <2>4. FedBy(u) /\ Agrees(u, q, Blank(d), Spare(d))
    BY DEF Agreed, Agree
  <2>5. Ready("put_view", FALSE, o, w, u, v, q, search[c])
    BY <1>1, <1>5, <2>1, <2>3 DEF Readied
  <2>6. ASSUME Agree(v, q, Blank(d)', Spare(d)')
        PROVE  Agreed(d)'
    <3>1. SearchOf(views[d].search)' = q
      BY <1>1, <2>2, <2>3 DEF SearchOf
    <3> QED
      BY <2>2, <2>6, <3>1 DEF Agreed
  <2>7. CASE o.tool = "add_widget_from_template"
    <3>1. \A a \in apart : a \in apart'
      BY <1>5, <2>7
    <3>2. ASSUME NEW tool, NEW W, tool = o.tool /\ WritesSearch(o) => w \in W
          PROVE  Left(d, tool) \ W \subseteq Left(d, tool)'
      BY <1>2, <3>1, <3>2, LeftMore
    <3>3. Blank(d) \subseteq Blank(d)' /\ Spare(d) \ {w} \subseteq Spare(d)'
      <4>1. Left(d, "remove_widget") \ {} \subseteq Left(d, "remove_widget")'
        BY <2>7, <3>2
      <4>2. Left(d, "add_widget_from_template") \ {w} \subseteq Left(d, "add_widget_from_template")'
        BY <3>2
      <4> QED
        BY <4>1, <4>2 DEF Blank, Spare
    <3>4. ~ WritesSearch(o) => Spare(d) \subseteq Spare(d)'
      <4>1. ~ WritesSearch(o) => Left(d, "add_widget_from_template") \ {} \subseteq Left(d, "add_widget_from_template")'
        BY <3>2
      <4> QED
        BY <4>1 DEF Spare
    <3>5. PICK piece, k : piece = o.pieces[1] /\ k = FirstOf(DOMAIN u.tabs)
      OBVIOUS
    <3>6. WritesSearch(o) <=> piece.data
      BY <2>7, <3>5 DEF WritesSearch
    <3>7. AddsWidget(u, v, w, piece) /\ (piece.data => w \in At(q, k))
      <4> HIDE DEF u, v, q, o, w
      <4> QED
        BY <2>5, <2>7, <3>5, <3>6 DEF Ready
    <3> HIDE DEF u, v, q, o, w
    <3>8. /\ Leaves(u, v, k) /\ New(u, w)
          /\ v.tabs[k].widgets = u.tabs[k].widgets \union {w}
          /\ v.tabs[k].mapping = u.tabs[k].mapping \union Feeds(w, piece)
      BY <3>5, <3>7 DEF AddsWidget
    <3>9. /\ IF piece.data THEN At(q, k) = At(q, k) \union {w} ELSE At(q, k) = At(q, k)
          /\ \/ Spare(d) \subseteq Spare(d)'
             \/ Spare(d) \ {w} \subseteq Spare(d)' /\ k = FirstOf(DOMAIN u.tabs) /\ piece.data
      BY <3>3, <3>4, <3>5, <3>6, <3>7
    <3>10. FedBy(v) /\ Agrees(v, q, Blank(d), Spare(d)')
      BY <2>4, <3>8, <3>9, AdditionAgrees
    <3> QED
      BY <2>6, <3>3, <3>10, AgreesMore DEF Agree
  <2>8. CASE o.tool = "remove_widget"
    <3>1. \A a \in apart : a.dashboard = d /\ (a.tool # "remove_widget" \/ a.widget # w) => a \in apart'
      BY <1>5 DEF Cut
    <3>2. Left(d, "remove_widget") \ {w} \subseteq Left(d, "remove_widget")'
      BY <1>2, <3>1, LeftMore
    <3>3. Left(d, "add_widget_from_template") \ {} \subseteq Left(d, "add_widget_from_template")'
      BY <1>2, <2>8, <3>1, LeftMore
    <3>4. Blank(d) \ {w} \subseteq Blank(d)' /\ Spare(d) \subseteq Spare(d)'
      BY <3>2, <3>3 DEF Blank, Spare
    <3> HIDE DEF u, v, q, o, w
    <3>5. TakesWidget(u, v, w) /\ At(q, FirstOf(TabsWith(u, w))) \intersect TypesOf(u, w) = {}
      BY <2>5, <2>8 DEF Ready
    <3>6. FedBy(v) /\ Agrees(v, q, Blank(d)', Spare(d))
      BY <2>4, <3>4, <3>5, RemovalAgrees
    <3> QED
      BY <2>6, <3>4, <3>6, AgreesMore DEF Agree
  <2>9. CASE o.tool \notin {"add_widget_from_template", "remove_widget"}
    <3>1. v.tabs = u.tabs
      <4> HIDE DEF u, v, q, o, w
      <4> QED
        BY <2>5, <2>9 DEF Ready
    <3>2. ASSUME NEW tool \in {"add_widget_from_template", "remove_widget"}
          PROVE  Left(d, tool) \ {} \subseteq Left(d, tool)'
      <4>1. \A a \in apart : a \in apart'
        BY <1>5, <2>9
      <4> QED
        BY <1>2, <2>9, <4>1, LeftMore
    <3>3. Blank(d) \subseteq Blank(d)' /\ Spare(d) \subseteq Spare(d)'
      BY <3>2 DEF Blank, Spare
    <3> HIDE DEF u, v, q, o, w
    <3>4. Agree(v, q, Blank(d)', Spare(d)')
      BY <2>4, <3>1, <3>3, AgreedMore DEF Agree
    <3> QED
      BY <2>6, <3>4
  <2> QED
    BY <2>7, <2>8, <2>9
<1> QED
  BY <1>3, <1>4, <1>5 DEF PutView

\* The other writes touch no search of another dashboard; a new dashboard's two
\* documents were made for each other.
LEMMA PostSearchAgreed ==
  ASSUME Typed, Bound, NEW c \in Slots, PostSearch(c), NEW d \in DOMAIN views, Agreed(d)
  PROVE  Agreed(d)'
<1>1. UNCHANGED <<views, apart>> /\ pc[c] # "put_view"
  BY DEF PostSearch, history
<1>2. Excepts(d)
  BY <1>1, EarlyExcepts DEF Step
<1>3. Same(views[d].search)
  <2>1. views[d].search # nextId
    <3>1. views[d].search < nextId
      BY DEF Bound, Owned
    <3> QED
      BY <3>1, Numbers
  <2> QED
    BY <2>1 DEF PostSearch, Same, With
<1> QED
  BY <1>1, <1>2, <1>3, AgreedKept

LEMMA PostViewAgreed ==
  ASSUME Typed, Drawn, NEW c \in Slots, Readied(c), PostView(c), NEW d \in DOMAIN views',
         d \in DOMAIN views => Agreed(d)
  PROVE  Agreed(d)'
<1>1. UNCHANGED <<searches, apart>> /\ pc[c] = "post_view"
  BY DEF PostView, history
<1>2. Excepts(d)
  BY <1>1, EarlyExcepts DEF Step
<1>3. nextId \notin DOMAIN views
  BY Numbers DEF Drawn
<1>4. CASE d \in DOMAIN views
  <2>1. views'[d] = views[d]
    BY <1>3, <1>4 DEF PostView, With
  <2> QED
    BY <1>1, <1>2, <1>4, <2>1, AgreedKept DEF Same
<1>5. CASE d \notin DOMAIN views
  <2>1. views'[d] = view[c]
    BY <1>5 DEF PostView, With
  <2> DEFINE v == view[c]
             q == search[c]
  <2>2. SearchOf(v.search) = q /\ Agree(v, q, {}, {})
    BY <1>1 DEF Readied, Ready, Agree
  <2>3. SearchOf(views[d].search)' = q
    BY <1>1, <2>1, <2>2 DEF SearchOf
  <2> HIDE DEF v, q
  <2>4. Agree(v, q, Blank(d)', Spare(d)')
    BY <2>2, AgreedMore
  <2> QED
    BY <2>1, <2>3, <2>4 DEF Agreed, v
<1> QED
  BY <1>4, <1>5

LEMMA DeleteAgreed ==
  ASSUME Typed, NEW c \in Slots, Delete(c), NEW d \in DOMAIN views', Agreed(d)
  PROVE  Agreed(d)'
<1>1. UNCHANGED <<searches, apart>> /\ pc[c] # "put_view" /\ views'[d] = views[d]
  BY DEF Delete, Without
<1>2. Excepts(d)
  BY <1>1, EarlyExcepts DEF Step
<1> QED
  BY <1>1, <1>2, AgreedKept DEF Same

\* Other users write both documents at once.
LEMMA OtherUsersAgreed ==
  ASSUME Typed, Places, Bound, OtherUsers, NEW d \in DOMAIN views', d \in DOMAIN views, Agreed(d)
  PROVE  Agreed(d)'
<1>1. PICK e \in DOMAIN views : Retitle(e) \/ DeleteInBrowser(e) \/ \E k \in DOMAIN views[e].tabs : AddInBrowser(e, k)
  BY DEF OtherUsers
<1>2. UNCHANGED <<pc, op, widget, apart>>
  BY <1>1 DEF Retitle, DeleteInBrowser, AddInBrowser, Edits, calls
<1>3. Blank(d)' = Blank(d) /\ Spare(d)' = Spare(d)
  BY <1>2 DEF Blank, Spare, Left
<1>4. Excepts(d)
  BY <1>3 DEF Excepts
<1>5. IsView(views[e]) /\ IsView(views[d])
  BY Numbers
<1>6. CASE Retitle(e)
  <2>1. views' = [views EXCEPT ![e] = [views[e] EXCEPT !.title = "other"]] /\ UNCHANGED searches
    BY <1>6 DEF Retitle
  <2>2. [views[e] EXCEPT !.title = "other"].search = views[e].search /\ [views[e] EXCEPT !.title = "other"].tabs = views[e].tabs
    BY <1>5, ViewFields
  <2>3. views'[d].search = views[d].search /\ views'[d].tabs = views[d].tabs
    BY <2>1, <2>2
  <2> QED
    BY <1>4, <2>1, <2>3, AgreedKept DEF Same
<1>7. CASE DeleteInBrowser(e)
  <2>1. views'[d] = views[d] /\ UNCHANGED searches
    BY <1>7 DEF DeleteInBrowser, Without
  <2> QED
    BY <1>4, <2>1, AgreedKept DEF Same
<1>8. ASSUME NEW k \in DOMAIN views[e].tabs, AddInBrowser(e, k)
      PROVE  Agreed(d)'
  <2> DEFINE piece == [data |-> TRUE, row |-> None, height |-> 1]
             u == views[e]
             s == u.search
             t == [u.tabs EXCEPT ![k] = Added(u.tabs[k], nextId, piece)]
             v == [u EXCEPT !.tabs = t]
             r == [searches[s] EXCEPT ![k] = @ \union {nextId}]
  <2>1. /\ s \in DOMAIN searches /\ s # None /\ k \in DOMAIN searches[s]
        /\ views' = [views EXCEPT ![e] = v]
        /\ searches' = [searches EXCEPT ![s] = r]
    BY <1>8 DEF AddInBrowser, Typed, Server, IsServer, Id, None
  <2>2. CASE d # e
    <3>1. views'[d] = views[d]
      BY <2>1, <2>2
    <3>2. views[d].search # s
      BY <2>1, <2>2 DEF Bound, Owned
    <3>3. Same(views[d].search)
      <4> HIDE DEF s, r
      <4> QED
        BY <2>1, <3>2 DEF Same
    <3> QED
      BY <1>4, <3>1, <3>3, AgreedKept
  <2>3. CASE d = e
    <3>1. v.tabs = t /\ v.search = s
      BY <1>5, ViewFields
    <3>2. views'[d] = v
      BY <2>1, <2>3
    <3>3. SearchOf(s) = searches[s] /\ (s \in DOMAIN searches' /\ searches'[s] = r)
      <4> HIDE DEF s, r
      <4> QED
        BY <2>1 DEF SearchOf
    <3>4. SearchOf(views[d].search)' = r
      BY <3>1, <3>2, <3>3 DEF SearchOf
    <3>5. FedBy(u) /\ Agrees(u, searches[s], Blank(d), Spare(d))
      BY <2>3, <3>3 DEF Agreed, Agree
    <3>6. t[k] = Added(u.tabs[k], nextId, piece) /\ DOMAIN t = DOMAIN u.tabs /\ \A j \in DOMAIN u.tabs : j # k => t[j] = u.tabs[j]
      OBVIOUS
    <3>7. New(u, nextId)
      <4>1. Sound(u.tabs, nextId, placed)
        BY DEF Places
      <4> HIDE DEF u
      <4> QED
        BY <4>1, Numbers DEF Sound, New
    <3>8. At(r, k) = At(searches[s], k) \union {nextId} /\ \A j \in DOMAIN u.tabs : j # k => At(r, j) = At(searches[s], j)
      <4> HIDE DEF s, u
      <4> QED
        BY <2>1 DEF At
    <3>9. piece.data
      OBVIOUS
    <3> HIDE DEF piece
    <3>10. /\ v.tabs[k].widgets = u.tabs[k].widgets \union {nextId}
           /\ v.tabs[k].mapping = u.tabs[k].mapping \union Feeds(nextId, piece)
      BY <3>1, <3>6 DEF Added
    <3> HIDE DEF t
    <3>11. Leaves(u, v, k)
      BY <3>1, <3>6 DEF Leaves
    <3>12. PICK q : q = searches[s]
      OBVIOUS
    <3> HIDE DEF u, v, r, s
    <3>13. FedBy(v) /\ Agrees(v, r, Blank(d), Spare(d))
      BY <3>5, <3>7, <3>8, <3>9, <3>10, <3>11, <3>12, AdditionAgrees
    <3> QED
      BY <1>3, <3>2, <3>4, <3>13 DEF Agreed, Agree
  <2> QED
    BY <2>2, <2>3
<1> QED
  BY <1>1, <1>6, <1>7, <1>8

-----------------------------------------------------------------------------
(* InStep *)

LEMMA NextStepping == Typed /\ Places /\ Drawn /\ Held /\ Stepping /\ [Next]_vars => Stepping'
<1> SUFFICES ASSUME Typed, Places, Drawn, Held, Stepping, [Next]_vars PROVE Stepping'
  OBVIOUS
<1>1. Bound /\ Bound'
  BY NextBound DEF Stepping
<1>2. ASSUME NEW c \in Slots PROVE Readied(c) /\ Readied(c)'
  BY <1>1, NextReadied DEF Stepping
<1>3. ASSUME NEW d \in DOMAIN views', d \notin stale'
      PROVE  Agreed(d)'
  <2>1. stale \subseteq stale'
    <3>1. ASSUME NEW c \in Slots, Call(c) PROVE stale \subseteq stale'
      BY <3>1 DEF Call, Start
    <3>2. ASSUME NEW c \in Slots, Step(c) PROVE stale \subseteq stale'
      BY <3>2 DEF Step, RequestFails, GetView, GetSearch, Probe, PutSearch, PutView, PostSearch, PostView, Delete, Wrote, history
    <3>3. CASE OtherUsers
      BY <3>3 DEF OtherUsers, Retitle, AddInBrowser, DeleteInBrowser, Edits
    <3> QED
      BY <3>1, <3>2, <3>3 DEF Next, vars
  <2>2. d \in DOMAIN views => Agreed(d)
    BY <1>3, <2>1 DEF Stepping
  <2>3. CASE UNCHANGED vars
    BY <2>2, <2>3 DEF Agreed, SearchOf, Blank, Spare, Left, vars, calls
  <2>4. ASSUME NEW c \in Slots, Call(c) \/ Step(c)
        PROVE  Agreed(d)'
    <3>1. CASE PostView(c)
      BY <1>2, <2>2, <3>1, PostViewAgreed
    <3>2. CASE Delete(c)
      <4>1. d \in DOMAIN views
        BY <3>2 DEF Delete, Without
      <4> QED
        BY <2>2, <3>2, <4>1, DeleteAgreed
    <3>3. CASE Call(c) \/ RequestFails(c) \/ GetView(c) \/ GetSearch(c) \/ Probe(c)
      <4>1. d \in DOMAIN views
        BY <3>3 DEF Call, Start, RequestFails, GetView, GetSearch, Probe, server
      <4> QED
        BY <2>2, <3>3, <4>1, QuietAgreed
    <3>4. CASE PutSearch(c) \/ PostSearch(c)
      <4>1. d \in DOMAIN views
        BY <3>4 DEF PutSearch, PostSearch
      <4> QED
        BY <1>1, <1>2, <1>3, <2>2, <3>4, <4>1, PutSearchAgreed, PostSearchAgreed
    <3>5. CASE PutView(c)
      <4>1. d \in DOMAIN views
        BY <3>5 DEF PutView, With
      <4> QED
        BY <1>1, <1>2, <1>3, <2>2, <3>5, <4>1, PutViewAgreed
    <3> QED
      BY <2>4, <3>1, <3>2, <3>3, <3>4, <3>5 DEF Step
  <2>5. CASE OtherUsers
    <3>1. d \in DOMAIN views
      BY <2>5 DEF OtherUsers, Retitle, AddInBrowser, DeleteInBrowser, Without
    <3> QED
      BY <1>1, <2>2, <2>5, <3>1, OtherUsersAgreed
  <2> QED
    BY <2>3, <2>4, <2>5 DEF Next
<1> QED
  BY <1>1, <1>2, <1>3 DEF Stepping

LEMMA InitStepping == Init => Stepping
<1> SUFFICES ASSUME Init PROVE Stepping
  OBVIOUS
<1>1. PICK s \in Starts : views = s.views /\ searches = s.searches
  BY DEF Init
<1>2. Owned
  BY <1>1 DEF Init, Owned
<1>3. \A c \in Slots : pc[c] = "idle"
  BY DEF Init
<1>4. Bound
  BY <1>2, <1>3 DEF Bound, HoldsOwned, HoldsNew, Holding
<1>5. \A c \in Slots : Readied(c)
  BY <1>3, NotReady DEF Readied
<1>6. ASSUME NEW d \in DOMAIN views \ stale
      PROVE  Agreed(d)
  <2>1. InStepBut(d, {}, {}) /\ Fed(d)
    BY <1>6 DEF Init
  <2>2. \A k : Types(views[d].search, k) = At(SearchOf(views[d].search), k)
    BY DEF Types, At, SearchOf
  <2>3. Agrees(views[d], SearchOf(views[d].search), {}, {})
    BY <2>1, <2>2 DEF InStepBut, Agrees
  <2>4. FedBy(views[d])
    BY <2>1 DEF Fed, FedBy
  <2> QED
    BY <2>3, <2>4, AgreedMore DEF Agreed, Agree
<1> QED
  BY <1>4, <1>5, <1>6 DEF Stepping

\* InStep (remove-widget.js:16-21): whatever calls and other users do, and
\* wherever a call is cut short, a dashboard's view and its search agree, but for
\* the widgets whose second document is on its way or never came; dashboards
\* written from an outdated reading are left out.
THEOREM DocumentsInStep == Spec => []InStep
<1>1. Stepping => InStep
  <2> SUFFICES ASSUME Stepping, NEW d \in DOMAIN views \ stale
               PROVE  InStepBut(d, Unfinished(d, "remove_widget"), Unfinished(d, "add_widget_from_template"))
    BY DEF InStep
  <2>1. Agrees(views[d], SearchOf(views[d].search), Blank(d), Spare(d))
    BY DEF Stepping, Agreed, Agree
  <2>2. \A k : Types(views[d].search, k) = At(SearchOf(views[d].search), k)
    BY DEF Types, At, SearchOf
  <2>3. Blank(d) \subseteq Unfinished(d, "remove_widget") /\ Spare(d) \subseteq Unfinished(d, "add_widget_from_template")
    BY LeftUnfinished DEF Blank, Spare
  <2> QED
    BY <2>1, <2>2, <2>3 DEF InStepBut, Agrees
<1>2. Init => Drawn /\ Held
  BY DEF Init, Drawn, Held, Holds, Holding
<1>3. Typed /\ Places /\ Drawn /\ Held /\ [Next]_vars => Drawn' /\ Held'
  BY NextDrawn, NextHeld
<1> QED
  BY <1>1, <1>2, <1>3, InitTyped, NextTyped, InitPlaces, NextPlaces, InitStepping, NextStepping, PTL DEF Spec
=============================================================================
