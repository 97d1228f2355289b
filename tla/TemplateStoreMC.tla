------------------------------ MODULE TemplateStoreMC ------------------------------
(* Two processes; lines of two tokens, which threshold 5 relaxes and 10 does not. *)
EXTENDS TemplateStore, TLC

MCStores == TemplateStores
AA == <<"a", "a">>
AB == <<"a", "b">>
BB == <<"b", "b">>
Base(tool) ==
  [tool |-> tool, lines |-> <<>>, threshold |-> 10, maxChildren |-> 2, id |-> AA, label |-> "l1",
   templates |-> {}, replace |-> FALSE]
Batch(ls, t, m) == [Base("cluster_log_messages") EXCEPT !.lines = ls, !.threshold = t, !.maxChildren = m]
Old(id) == [id |-> id, tokens |-> id, label |-> "l2", count |-> 2]
MCStoreCalls ==
  {Batch(<<AA, AB>>, 5, 2), Batch(<<AB, BB, AA, AA>>, 10, 1), Batch(<<BB, AB, <<"a", Wildcard>>>>, 10, 2),
   Base("rename_template"), Base("delete_template"),
   [Base("import_templates") EXCEPT !.templates = {Old(AB)}],
   [Base("import_templates") EXCEPT !.templates = {Old(BB)}, !.replace = TRUE]}
Learnt == [buckets |-> [n \in Lens |-> <<[id |-> AA, tokens |-> AA]>>], templates |-> {Old(AA)}]
MCStoreStarts == {Absent, Foreign, Learnt}
=============================================================================
