--------------------------------- MODULE Listings ---------------------------------
(***************************************************************************)
(* The lists that the server gives out page by page, as the walks of the   *)
(* pipeline rules (discoverReferencingPipelines) and of the event          *)
(* definitions (fetchEventDefsReferencingNotification) read them.          *)
(***************************************************************************)
EXTENDS Integers, Sequences

\* An order in which the server may list some ids.
Listable(order) ==
  /\ order \in Seq({order[i] : i \in DOMAIN order})
  /\ \A i, j \in DOMAIN order : order[i] = order[j] => i = j

\* The ids of order that are in S, in that order.
InOrder(order, S) ==
  LET L[i \in 0..Len(order)] ==
        IF i = 0 THEN <<>> ELSE IF order[i] \in S THEN Append(L[i - 1], order[i]) ELSE L[i - 1]
  IN L[Len(order)]

\* A page of a list; pages are counted from 1.
PageOf(list, perPage, page) ==
  {list[i] : i \in {k \in DOMAIN list : k > (page - 1) * perPage /\ k <= page * perPage}}
=============================================================================
