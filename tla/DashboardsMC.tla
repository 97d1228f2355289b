----------------------------- MODULE DashboardsMC -----------------------------
(* Small instances of Dashboards for TLC. *)
EXTENDS Dashboards, TLC

Do(tool, dashboard, subject, title, pieces) ==
  [tool |-> tool, dashboard |-> dashboard, widget |-> subject, title |-> title, pieces |-> pieces]
Data(row) == [data |-> TRUE, row |-> row, height |-> 2]
Text == [data |-> FALSE, row |-> None, height |-> 1]

Empty == [widgets |-> {}, positions |-> {}, mapping |-> {}]
\* Widget 2, fed by search type 3.
Chart == [widgets |-> {2}, positions |-> {[widget |-> 2, row |-> 1, height |-> 2]},
          mapping |-> {[widget |-> 2, type |-> 3]}]
Orphaned == [Empty EXCEPT !.positions = {[widget |-> 2, row |-> 1, height |-> 2]}]

Server(boundTo, tabs, queries) ==
  [views |-> 1 :> [search |-> boundTo, title |-> "old", tabs |-> tabs], searches |-> 1 :> queries]

\* A dashboard of two tabs, one whose search lacks the query, one with a
\* position left over, one without a tab, one bound to no search.
MCStarts ==
  {Server(1, <<Empty, Chart>>, <<{}, {3}>>), Server(1, <<Empty>>, <<>>), Server(1, <<Orphaned>>, <<{}>>),
   Server(1, <<>>, <<{}>>), Server(None, <<Empty>>, <<{}>>)}

MCOperations ==
  {Do("add_widget_from_template", 1, None, "old", <<Data(None)>>),
   Do("add_widget_from_template", 1, None, "old", <<Text>>),
   Do("remove_widget", 1, 2, "old", <<>>), Do("update_dashboard", 1, None, "new", <<>>),
   Do("delete_dashboard", 1, None, "old", <<>>),
   Do("create_dashboard", None, None, "new", <<Data(1), Data(3)>>)}

\* Two additions to a dashboard of one tab, and nobody else.
AddingStarts == {Server(1, <<Chart>>, <<{3}>>)}
AddingOperations == {Do("add_widget_from_template", 1, None, "old", <<Data(None)>>)}

SlotSymmetry == Permutations(Slots)
=============================================================================
