---------------------------- MODULE Shared_proofs -----------------------------
(***************************************************************************)
(* Lemmas about what the tools that run in MutatingTool's wrapper have in  *)
(* common: the steps of the wrapper, whatever a tool's requests, reads and *)
(* tokens are, the pages of the server's listings, and configuration fields *)
(* that may be secret.                                                     *)
(***************************************************************************)
EXTENDS MutatingTool, Listings, EncryptedFields, FiniteSetTheorems, SequenceTheorems,
        FunctionTheorems, TLAPS

-----------------------------------------------------------------------------
(* The wrapper *)

USE MaxShownAssumption

\* A request that a slot has accepted.
LEMMA BeginType ==
  ASSUME NEW Labels, NEW Ops, NEW Gots, NEW Tokens,
         CallsTypeOK(Labels, Request(Ops, Tokens), Gots, Tokens),
         NEW c \in Slots, NEW op \in Ops, NEW first \in Labels \ Ended, Begin(c, op, first)
  PROVE  CallsTypeOK(Labels, Request(Ops, Tokens), Gots, Tokens)'
<1>1. PICK dry \in BOOLEAN, t \in {{}} \union {{x} : x \in shown} :
        req' = [req EXCEPT ![c] = [op |-> op, dryRun |-> dry, confirm |-> t]]
  BY DEF Begin
<1>2. t \in SUBSET Tokens
  BY DEF CallsTypeOK
<1>3. [op |-> op, dryRun |-> dry, confirm |-> t] \in Request(Ops, Tokens)
  BY <1>2 DEF Request
<1> QED
  BY <1>1, <1>3 DEF Begin, CallsTypeOK

LEMMA EndType ==
  ASSUME NEW Labels, NEW Requests, NEW Gots, NEW Tokens,
         CallsTypeOK(Labels, Requests, Gots, Tokens),
         NEW c \in Slots, NEW how \in Ended, End(c, how), shown' \in SUBSET Tokens
  PROVE  CallsTypeOK(Labels, Requests, Gots, Tokens)'
  BY DEF End, CallsTypeOK

LEMMA FinishType ==
  ASSUME NEW Labels, NEW Requests, NEW Gots, NEW Tokens,
         CallsTypeOK(Labels, Requests, Gots, Tokens),
         NEW c \in Slots, NEW how \in Ended, Finish(c, how)
  PROVE  CallsTypeOK(Labels, Requests, Gots, Tokens)'
<1>1. shown' \in SUBSET Tokens
  BY DEF Finish, CallsTypeOK
<1> QED
  BY <1>1, EndType DEF Finish

LEMMA ContinueType ==
  ASSUME NEW Labels, NEW Requests, NEW Gots, NEW Tokens,
         CallsTypeOK(Labels, Requests, Gots, Tokens),
         NEW c \in Slots, req[c] \in Requests, NEW next \in Labels, NEW g \in Gots \union {NothingGot},
         Continue(c, next, g)
  PROVE  CallsTypeOK(Labels, Requests, Gots, Tokens)'
  BY DEF Continue, CallsTypeOK

LEMMA GateType ==
  ASSUME NEW Labels, NEW Requests, NEW Gots, NEW Tokens,
         CallsTypeOK(Labels, Requests, Gots, Tokens),
         NEW c \in Slots, req[c] \in Requests, NEW next \in Labels, NEW g \in Gots \union {NothingGot},
         NEW token \in SUBSET Tokens, Gate(c, token, next, g)
  PROVE  CallsTypeOK(Labels, Requests, Gots, Tokens)'
<1>1. CASE Continue(c, next, g)
  BY <1>1, ContinueType
<1>2. CASE Finish(c, "refused")
  BY <1>2, FinishType DEF Ended
<1>3. CASE shown' = shown \union token /\ End(c, "done")
  <2>1. shown' \in SUBSET Tokens
    BY <1>3 DEF CallsTypeOK
  <2> QED
    BY <1>3, <2>1, EndType DEF Ended
<1> QED
  BY <1>1, <1>2, <1>3 DEF Gate

-----------------------------------------------------------------------------
(* Which variables a step moves *)

CallShape ==
  /\ pc = [c \in Slots |-> pc[c]] /\ req = [c \in Slots |-> req[c]] /\ got = [c \in Slots |-> got[c]]

LEMMA TypedShape ==
  ASSUME NEW Labels, NEW Requests, NEW Gots, NEW Tokens, CallsTypeOK(Labels, Requests, Gots, Tokens)
  PROVE  CallShape
  BY DEF CallsTypeOK, CallShape

\* The calls of the other slots stand still.
OthersStand(c) ==
  \A d \in Slots \ {c} : pc'[d] = pc[d] /\ req'[d] = req[d] /\ got'[d] = got[d]

LEMMA BeginMoves ==
  ASSUME CallShape, NEW c \in Slots, NEW op, NEW first, Begin(c, op, first)
  PROVE  OthersStand(c) /\ pc'[c] = first /\ shown' = shown /\ req'[c].confirm \subseteq shown
<1>1. PICK dry \in BOOLEAN, t \in {{}} \union {{x} : x \in shown} :
        req' = [req EXCEPT ![c] = [op |-> op, dryRun |-> dry, confirm |-> t]]
  BY DEF Begin
<1>2. t \subseteq shown
  OBVIOUS
<1>3. req'[c] = [op |-> op, dryRun |-> dry, confirm |-> t]
  BY <1>1 DEF CallShape
<1>4. req'[c].confirm = t
  BY <1>3
<1> QED
  BY <1>1, <1>2, <1>4 DEF Begin, CallShape, OthersStand

LEMMA EndMoves ==
  ASSUME CallShape, NEW c \in Slots, NEW how, End(c, how)
  PROVE  OthersStand(c) /\ pc'[c] = how
  BY DEF End, CallShape, OthersStand

LEMMA FinishMoves ==
  ASSUME CallShape, NEW c \in Slots, NEW how, Finish(c, how)
  PROVE  OthersStand(c) /\ pc'[c] = how /\ shown' = shown
  BY EndMoves DEF Finish

LEMMA ContinueMoves ==
  ASSUME CallShape, NEW c \in Slots, NEW next, NEW g, Continue(c, next, g)
  PROVE  OthersStand(c) /\ pc'[c] = next /\ got'[c] = g /\ req'[c] = req[c] /\ shown' = shown
  BY DEF Continue, CallShape, OthersStand

\* The call ends at the gate, or goes on to its write with the token confirmed.
Passed(c, token, next, g) ==
  /\ Continue(c, next, g)
  /\ pc'[c] = next /\ got'[c] = g /\ req'[c] = req[c]
  /\ token # {} => req[c].confirm = token
LEMMA GateMoves ==
  ASSUME CallShape, NEW c \in Slots, NEW token, NEW next, NEW g, Gate(c, token, next, g)
  PROVE  /\ OthersStand(c) /\ shown \subseteq shown'
         /\ pc'[c] \in {"done", "refused"} \/ Passed(c, token, next, g)
<1>1. CASE Continue(c, next, g) /\ (token # {} => req[c].confirm = token)
  BY <1>1, ContinueMoves DEF Passed
<1>2. CASE Finish(c, "refused")
  BY <1>2, FinishMoves
<1>3. CASE shown' = shown \union token /\ End(c, "done")
  BY <1>3, EndMoves
<1> QED
  BY <1>1, <1>2, <1>3 DEF Gate

-----------------------------------------------------------------------------
(* Confirmations *)

\* A call echoes tokens that previews have shown.
Echoed == \A c \in Slots : pc[c] \notin Ended => req[c].confirm \subseteq shown

\* A step of one call keeps it, when that call begins, ends, or goes on as it was.
LEMMA EchoedKept ==
  ASSUME Echoed, NEW c \in Slots, OthersStand(c), shown \subseteq shown',
         \/ pc'[c] \in Ended
         \/ pc[c] \notin Ended /\ req'[c] = req[c]
         \/ req'[c].confirm \subseteq shown
  PROVE  Echoed'
  BY DEF Echoed, OthersStand

LEMMA EchoedUnmoved ==
  ASSUME Echoed, UNCHANGED callVars PROVE Echoed'
  BY DEF Echoed, callVars

HIDE MaxShownAssumption

-----------------------------------------------------------------------------
(* Counting, and functions that are defined by it *)

\* Counting up from 0 to n.
LEMMA Counting ==
  ASSUME NEW n \in Nat, NEW T, 0 \in T, \A i \in 1..n : i - 1 \in T => i \in T
  PROVE  0..n \subseteq T
<1> DEFINE Bad == {i \in 0..n : i \notin T}
<1> SUFFICES ASSUME Bad # {} PROVE FALSE
  OBVIOUS
<1>1. PICK x \in Bad : \A y \in Bad : ~(<<y, x>> \in OpToRel(<, Nat))
  <2>1. Bad \subseteq Nat
    OBVIOUS
  <2> HIDE DEF Bad
  <2> QED
    BY <2>1, NatLessThanWellFounded, WFMin
<1>2. x \in 1..n /\ x - 1 \in 0..n
  <2>1. x \in 0..n /\ x # 0
    OBVIOUS
  <2> HIDE DEF Bad
  <2> QED
    BY <2>1
<1>3. <<x - 1, x>> \in OpToRel(<, Nat)
  BY <1>2 DEF OpToRel
<1>4. x - 1 \notin Bad
  BY <1>1, <1>3
<1> QED
  BY <1>1, <1>2, <1>4

\* n steps of a state machine on V from x, the step i being F[i].
Iterates(g, n, V, x, F) == g \in [0..n -> V] /\ g[0] = x /\ \A i \in 1..n : g[i] = F[i][g[i - 1]]
LEMMA Iteration ==
  ASSUME NEW n \in Nat, NEW V, NEW x \in V, NEW F \in [1..n -> [V -> V]]
  PROVE  \E g : Iterates(g, n, V, x, F)
<1> DEFINE Run(k, g) == g \in [0..k -> V] /\ g[0] = x /\ \A i \in 1..k : g[i] = F[i][g[i - 1]]
           T == {k \in 0..n : \E g : Run(k, g)}
<1>1. 0 \in T
  <2>1. Run(0, [i \in 0..0 |-> x])
    OBVIOUS
  <2> HIDE DEF Run
  <2> QED
    BY <2>1
<1>2. ASSUME NEW k \in 1..n, k - 1 \in T PROVE k \in T
  <2>1. PICK f : Run(k - 1, f)
    BY <1>2
  <2> DEFINE g == [i \in 0..k |-> IF i < k THEN f[i] ELSE F[k][f[k - 1]]]
  <2>2. \A i \in 0..(k - 1) : g[i] = f[i] /\ f[i] \in V
    BY <2>1
  <2>3. g[k] = F[k][f[k - 1]] /\ f[k - 1] \in V
    BY <2>1
  <2>4. g \in [0..k -> V]
    <3>1. F[k] \in [V -> V]
      OBVIOUS
    <3>2. \A i \in 0..k : i = k \/ i \in 0..(k - 1)
      OBVIOUS
    <3>3. F[k][f[k - 1]] \in V
      BY <2>3, <3>1
    <3>4. DOMAIN g = 0..k /\ g = [i \in 0..k |-> g[i]]
      OBVIOUS
    <3> HIDE DEF g
    <3>5. \A i \in 0..k : g[i] \in V
      BY <2>2, <2>3, <3>2, <3>3
    <3> QED
      BY <3>4, <3>5
  <2>5. \A i \in 1..k : g[i] = F[i][g[i - 1]]
    <3> SUFFICES ASSUME NEW i \in 1..k PROVE g[i] = F[i][g[i - 1]]
      OBVIOUS
    <3>1. i - 1 \in 0..(k - 1) /\ g[i - 1] = f[i - 1]
      BY <2>2
    <3> HIDE DEF g
    <3>2. CASE i = k
      BY <2>3, <3>1, <3>2
    <3>3. CASE i # k
      <4>1. i \in 1..(k - 1) /\ i \in 0..(k - 1)
        BY <3>3
      <4> QED
        BY <2>1, <2>2, <3>1, <4>1
    <3> QED
      BY <3>2, <3>3
  <2>6. g[0] = x
    BY <2>1, <2>2
  <2> HIDE DEF g
  <2>7. Run(k, g)
    BY <2>4, <2>5, <2>6
  <2> HIDE DEF Run
  <2> QED
    BY <2>7
<1>3. n \in T
  <2> HIDE DEF T
  <2>1. 0..n \subseteq T
    BY <1>1, <1>2, Counting
  <2> QED
    BY <2>1
<1> QED
  BY <1>3 DEF Iterates

-----------------------------------------------------------------------------
(* Listings and their pages *)

Ids(order) == {order[i] : i \in DOMAIN order}

\* The lists that InOrder goes through.
Selects(g, order, S) ==
  /\ g \in [0..Len(order) -> Seq(Ids(order))]
  /\ g[0] = <<>> /\ InOrder(order, S) = g[Len(order)]
  /\ \A i \in 1..Len(order) : g[i] = IF order[i] \in S THEN Append(g[i - 1], order[i]) ELSE g[i - 1]
LEMMA InOrderUnfolds ==
  ASSUME NEW order, Listable(order), NEW S
  PROVE  \E g : Selects(g, order, S)
<1> DEFINE n == Len(order)
           D == Ids(order)
           V == Seq(D)
           Next(l, i) == IF order[i] \in S THEN Append(l, order[i]) ELSE l
           Runs(f) == f = [i \in 0..n |-> IF i = 0 THEN <<>> ELSE Next(f[i - 1], i)]
           R == CHOOSE f : Runs(f)
           F == [i \in 1..n |-> [l \in V |-> Next(l, i)]]
<1>1. n \in Nat /\ DOMAIN order = 1..n /\ order \in Seq(D)
  BY DEF Listable, Ids
<1>2. \A i \in 1..n : order[i] \in D
  BY <1>1 DEF Ids
<1>3. F \in [1..n -> [V -> V]]
  BY <1>2
<1>4. <<>> \in V
  OBVIOUS
<1>5. PICK g \in [0..n -> V] : g[0] = <<>> /\ \A i \in 1..n : g[i] = F[i][g[i - 1]]
  <2> HIDE DEF F, V, n, D, Next
  <2>1. n \in Nat
    BY <1>1
  <2>2. PICK g : Iterates(g, n, V, <<>>, F)
    BY <2>1, <1>3, <1>4, Iteration
  <2> QED
    BY <2>2 DEF Iterates
<1>6. \A i \in 1..n : g[i] = Next(g[i - 1], i)
  <2> HIDE DEF V, Next
  <2>1. \A i \in 1..n : g[i - 1] \in V
    BY <1>1
  <2> QED
    BY <1>5, <2>1
<1>7. Runs(g)
  <2> HIDE DEF V, Next
  <2>1. g = [i \in 0..n |-> g[i]]
    OBVIOUS
  <2>2. \A i \in 0..n : g[i] = IF i = 0 THEN <<>> ELSE Next(g[i - 1], i)
    BY <1>1, <1>5, <1>6
  <2> QED
    BY <2>1, <2>2
<1>8. Runs(R)
  <2> HIDE DEF Runs
  <2> QED
    BY <1>7
<1>9. InOrder(order, S) = R[n]
  BY DEF InOrder
<1>10. R \in [0..n -> V] /\ R[0] = <<>> /\ \A i \in 1..n : R[i] = Next(R[i - 1], i)
  <2> HIDE DEF R, Next, V
  <2>0. R = [i \in 0..n |-> IF i = 0 THEN <<>> ELSE Next(R[i - 1], i)]
    BY <1>8
  <2>1. /\ DOMAIN R = 0..n /\ R = [i \in 0..n |-> R[i]] /\ R[0] = <<>>
        /\ \A i \in 1..n : R[i] = Next(R[i - 1], i)
    <3> HIDE DEF n
    <3>1. DOMAIN R = 0..n /\ R = [i \in 0..n |-> R[i]]
      BY <2>0
    <3>2. \A i \in 0..n : R[i] = IF i = 0 THEN <<>> ELSE Next(R[i - 1], i)
      BY <2>0
    <3> QED
      BY <1>1, <3>1, <3>2
  <2> DEFINE T == {i \in 0..n : R[i] = g[i]}
  <2>2. 0 \in T
    BY <1>1, <1>5, <2>1
  <2>3. \A i \in 1..n : i - 1 \in T => i \in T
    BY <1>6, <2>1
  <2> HIDE DEF T
  <2>4. 0..n \subseteq T
    BY <1>1, <2>2, <2>3, Counting
  <2>5. \A i \in 0..n : R[i] \in V
    BY <2>4 DEF T
  <2> QED
    BY <2>1, <2>5
<1> HIDE DEF R
<1>11. Selects(R, order, S)
  BY <1>9, <1>10 DEF Selects
<1> QED
  BY <1>11

\* A listing has the listed ids, and each of them once.
Lists(list, D, S) ==
  /\ list \in Seq(D) /\ Len(list) \in Nat /\ DOMAIN list = 1..Len(list)
  /\ \A j \in 1..Len(list) : list[j] \in S /\ list[j] \in D
  /\ \A x \in D \intersect S : \E j \in 1..Len(list) : list[j] = x
  /\ \A j, k \in 1..Len(list) : list[j] = list[k] => j = k
LEMMA InOrderLists ==
  ASSUME NEW order, Listable(order), NEW S
  PROVE  Lists(InOrder(order, S), Ids(order), S)
<1> DEFINE n == Len(order)
           D == Ids(order)
<1>1. n \in Nat /\ DOMAIN order = 1..n /\ (\A i \in 1..n : order[i] \in D)
      /\ (\A x \in D : \E i \in 1..n : order[i] = x)
      /\ \A i, j \in 1..n : order[i] = order[j] => i = j
  BY DEF Listable, Ids
<1>0. PICK g : Selects(g, order, S)
  BY InOrderUnfolds
<1>2. /\ g \in [0..n -> Seq(D)] /\ g[0] = <<>> /\ InOrder(order, S) = g[n]
      /\ \A i \in 1..n : g[i] = IF order[i] \in S THEN Append(g[i - 1], order[i]) ELSE g[i - 1]
  BY <1>0 DEF Selects
<1> DEFINE Sound(i) ==
      /\ \A j \in 1..Len(g[i]) : g[i][j] \in S /\ \E m \in 1..i : g[i][j] = order[m]
      /\ \A m \in 1..i : order[m] \in S => \E j \in 1..Len(g[i]) : g[i][j] = order[m]
      /\ \A j, k \in 1..Len(g[i]) : g[i][j] = g[i][k] => j = k
      T == {i \in 0..n : Sound(i)}
<1> HIDE DEF n, D
<1>3. 0 \in T
  BY <1>1, <1>2
<1>4. ASSUME NEW i \in 1..n, i - 1 \in T PROVE i \in T
  <2>0. i - 1 \in 0..n /\ i \in 0..n
    BY <1>1
  <2>1. i - 1 \in 0..n /\ i \in 0..n /\ g[i - 1] \in Seq(D) /\ order[i] \in D /\ Len(g[i - 1]) \in Nat
    <3>1. g[i - 1] \in Seq(D)
      BY <1>2, <2>0
    <3> QED
      BY <1>1, <2>0, <3>1
  <2>2. Sound(i - 1)
    BY <1>4
  <2>3. CASE order[i] \notin S
    <3>1. g[i] = g[i - 1]
      BY <1>2, <2>3
    <3>2. \A m \in 1..i : order[m] \in S => m \in 1..(i - 1)
      BY <2>3
    <3> QED
      BY <2>1, <2>2, <2>3, <3>1, <3>2
  <2>4. CASE order[i] \in S
    <3> DEFINE l == g[i - 1]
    <3>1. g[i] = Append(l, order[i])
      BY <1>2, <2>4
    <3>2. /\ Len(g[i]) = Len(l) + 1 /\ g[i][Len(l) + 1] = order[i]
          /\ \A j \in 1..Len(l) : g[i][j] = l[j]
      BY <2>1, <3>1
    <3>3. \A j \in 1..Len(l) : l[j] # order[i]
      <4>1. ASSUME NEW j \in 1..Len(l), l[j] = order[i] PROVE FALSE
        <5>1. PICK m \in 1..(i - 1) : l[j] = order[m]
          BY <2>2
        <5>2. m \in 1..n /\ m # i
          BY <1>1, <2>1
        <5> QED
          BY <1>1, <4>1, <5>1, <5>2
      <4> QED
        BY <4>1
    <3>4. \A j \in 1..Len(g[i]) : j \in 1..Len(l) \/ j = Len(l) + 1
      BY <2>1, <3>2
    <3>5. \A m \in 1..i : m \in 1..(i - 1) \/ m = i
      BY <1>1
    <3> HIDE DEF l
    <3>6. \A j \in 1..Len(g[i]) : g[i][j] \in S /\ \E m \in 1..i : g[i][j] = order[m]
      <4> SUFFICES ASSUME NEW j \in 1..Len(g[i]) PROVE g[i][j] \in S /\ \E m \in 1..i : g[i][j] = order[m]
        OBVIOUS
      <4>1. CASE j = Len(l) + 1
        BY <1>1, <2>4, <3>2, <4>1
      <4>2. CASE j \in 1..Len(l)
        <5>1. PICK m \in 1..(i - 1) : l[j] = order[m]
          BY <2>2, <4>2 DEF l
        <5>2. m \in 1..i
          OBVIOUS
        <5> QED
          BY <2>2, <3>2, <4>2, <5>1, <5>2 DEF l
      <4> QED
        BY <3>4, <4>1, <4>2
    <3>7. ASSUME NEW m \in 1..i, order[m] \in S PROVE \E j \in 1..Len(g[i]) : g[i][j] = order[m]
      <4>1. CASE m = i
        <5>1. Len(l) + 1 \in 1..Len(g[i])
          BY <2>1, <3>2 DEF l
        <5> QED
          BY <3>2, <4>1, <5>1
      <4>2. CASE m \in 1..(i - 1)
        <5>1. PICK j \in 1..Len(l) : l[j] = order[m]
          BY <2>2, <3>7, <4>2 DEF l
        <5>2. j \in 1..Len(g[i])
          BY <2>1, <3>2 DEF l
        <5> QED
          BY <3>2, <5>1, <5>2
      <4> QED
        BY <3>5, <4>1, <4>2
    <3>8. \A j, k \in 1..Len(g[i]) : g[i][j] = g[i][k] => j = k
      <4>1. \A j, k \in 1..Len(l) : l[j] = l[k] => j = k
        BY <2>2 DEF l
      <4> QED
        BY <3>2, <3>3, <3>4, <4>1
    <3>9. Sound(i)
      BY <3>6, <3>7, <3>8
    <3> QED
      BY <2>1, <3>9
  <2> QED
    BY <2>3, <2>4
<1>5. Sound(n)
  <2> HIDE DEF T
  <2>1. 0..n \subseteq T
    BY <1>1, <1>3, <1>4, Counting
  <2>2. n \in T
    BY <1>1, <2>1
  <2> QED
    BY <2>2 DEF T
<1>6. g[n] \in Seq(D) /\ Len(g[n]) \in Nat /\ DOMAIN g[n] = 1..Len(g[n])
  BY <1>1, <1>2
<1>7. \A j \in 1..Len(g[n]) : g[n][j] \in D
  BY <1>6
<1>8. \A x \in D \intersect S : \E j \in 1..Len(g[n]) : g[n][j] = x
  BY <1>1, <1>5
<1> QED
  BY <1>2, <1>5, <1>6, <1>7, <1>8 DEF Lists, D, n

\* A page that is not full is the last: the list ends in it.
LEMMA ShortPage ==
  ASSUME NEW D, NEW S, NEW list, Lists(list, D, S), NEW perPage \in Nat \ {0}, NEW page \in Nat \ {0},
         Cardinality(PageOf(list, perPage, page)) < perPage
  PROVE  Len(list) < page * perPage
<1> DEFINE low == (page - 1) * perPage
           Full == {k \in DOMAIN list : k > low /\ k <= page * perPage}
<1>1. low \in Nat /\ page * perPage \in Nat /\ page * perPage = low + perPage
  <2>1. page - 1 \in Nat /\ page = (page - 1) + 1
    OBVIOUS
  <2>2. \A m \in Nat : m * perPage \in Nat /\ (m + 1) * perPage = m * perPage + perPage
    OBVIOUS
  <2> QED
    BY <2>1, <2>2
<1> SUFFICES ASSUME ~(Len(list) < page * perPage) PROVE FALSE
  OBVIOUS
<1>2. DOMAIN list = 1..Len(list) /\ Len(list) \in Nat /\ \A j, k \in 1..Len(list) : list[j] = list[k] => j = k
  BY DEF Lists
<1> HIDE DEF low
<1>3. Full = (low + 1)..(low + perPage)
  BY <1>1, <1>2
<1>4. IsFiniteSet(Full) /\ Cardinality(Full) = perPage
  <2>1. low + 1 \in Int /\ low + perPage \in Int
    BY <1>1
  <2> DEFINE a == low + 1
             b == low + perPage
  <2>2. b - a + 1 = perPage /\ ~(a > b)
    BY <1>1
  <2>3. Full = a..b
    BY <1>3
  <2> HIDE DEF a, b
  <2>4. IsFiniteSet(a..b) /\ Cardinality(a..b) = IF a > b THEN 0 ELSE b - a + 1
    BY <2>1, FS_Interval DEF a, b
  <2> QED
    BY <2>2, <2>3, <2>4
<1>5. PageOf(list, perPage, page) = {list[i] : i \in Full}
  BY DEF PageOf, low
<1>6. ExistsBijection(Full, {list[i] : i \in Full})
  <2> DEFINE f == [k \in Full |-> list[k]]
  <2>1. f \in Bijection(Full, {list[i] : i \in Full})
    BY <1>2 DEF Bijection, Injection, Surjection, IsInjective
  <2> HIDE DEF f
  <2> QED
    BY <2>1 DEF ExistsBijection
<1> HIDE DEF Full
<1>7. Cardinality(PageOf(list, perPage, page)) = perPage
  BY <1>4, <1>5, <1>6, FS_Bijection
<1> QED
  BY <1>7

-----------------------------------------------------------------------------
(* Fields that may be secret *)

\* What is put on the wire for a field, and what the server keeps of it.
LEMMA EncodedType ==
  ASSUME NEW g \in Given, NEW enc \in BOOLEAN PROVE EncodeForWire(g, enc) \subseteq Given
<1>1. CASE ~enc \/ g.kind \in {"set_value", "keep_value", "delete_value"}
  BY <1>1 DEF EncodeForWire
<1>2. CASE g.kind = "string" /\ enc
  <2>1. [kind |-> "set_value", value |-> g.value] \in Given
    BY DEF Given
  <2> QED
    BY <1>2, <2>1 DEF EncodeForWire
<1> QED
  BY <1>1, <1>2 DEF EncodeForWire

LEMMA AcceptedType ==
  ASSUME NEW h \in Given, NEW enc \in BOOLEAN, NEW current \in Stored
  PROVE  Accepted(h, enc, current) \subseteq Stored
<1>1. h.kind \in {"string", "set_value", "keep_value", "delete_value", "other"} /\ h.value \in Stored
  BY DEF Given, Stored
<1>2. CASE ~enc
  BY <1>1, <1>2 DEF Accepted
<1>3. CASE enc /\ h.kind \in {"set_value", "keep_value", "delete_value"}
  BY <1>1, <1>3 DEF Accepted, Stored
<1>4. CASE enc /\ h.kind \in {"string", "other"}
  BY <1>1, <1>4 DEF Accepted
<1> QED
  BY <1>1, <1>2, <1>3, <1>4
=============================================================================
