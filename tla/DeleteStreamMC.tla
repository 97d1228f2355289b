--------------------------- MODULE DeleteStreamMC ---------------------------
(* A small instance of DeleteStream for TLC: a page holds one event definition. *)
EXTENDS DeleteStream, TLC

CONSTANTS r1, p1, e1, e2, s1, s2

\* Stream s1 is watched by the second of two event definitions, so that a
\* shift of the listing can make the page walk miss it; s2 is built in.
MCWorlds ==
  {[alive |-> Streams, rules |-> [s \in Streams |-> {}], pipes |-> [s \in Streams |-> {}],
    defs |-> <<e1, e2>>, linked |-> (e1 :> {} @@ e2 :> {s1})]}
=============================================================================
