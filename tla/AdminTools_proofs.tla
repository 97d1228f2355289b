-------------------------- MODULE AdminTools_proofs ---------------------------
(***************************************************************************)
(* Proofs about PipelineRules and Events, for any number of calls, rules,  *)
(* definitions and notifications, and about AdminTools, the composition.   *)
(***************************************************************************)
EXTENDS AdminTools, ServerObjects_proofs

-----------------------------------------------------------------------------
(* The lint *)

LEMMA CountUp ==
  ASSUME NEW i \in Nat \ {0}, NEW P
  PROVE  /\ Cardinality((1..i) \intersect P) \in Nat /\ Cardinality((1..(i - 1)) \intersect P) \in Nat
         /\ i \in P => Cardinality((1..i) \intersect P) = Cardinality((1..(i - 1)) \intersect P) + 1
         /\ i \notin P => Cardinality((1..i) \intersect P) = Cardinality((1..(i - 1)) \intersect P)
<1> DEFINE A == (1..(i - 1)) \intersect P
           B == (1..i) \intersect P
<1>1. IsFiniteSet(1..i)
  BY FS_Interval
<1>2. A \subseteq 1..i /\ B \subseteq 1..i
  OBVIOUS
<1>3. IsFiniteSet(A) /\ IsFiniteSet(B)
  BY <1>1, <1>2, FS_Subset
<1>4. Cardinality(A) \in Nat /\ Cardinality(B) \in Nat
  BY <1>3, FS_CardinalityType
<1>5. i \in P => B = A \union {i}
  OBVIOUS
<1>6. i \notin P => B = A
  OBVIOUS
<1>7. i \notin A
  OBVIOUS
<1>8. Cardinality(A \union {i}) = Cardinality(A) + 1
  <2> HIDE DEF A
  <2> QED
    BY <1>3, <1>7, FS_AddElement
<1> QED
  BY <1>4, <1>5, <1>6, <1>8

LEMMA Parity ==
  ASSUME NEW n \in Nat PROVE (n + 1) % 2 = 1 <=> n % 2 # 1
  OBVIOUS

ScanState == [inString : BOOLEAN, parens : Int, unbalanced : BOOLEAN]
Quotes(ts, i) == Cardinality({k \in 1..i : ts[k] = Quote})
Count(ts, t, i) == Cardinality(Outside(ts, t, i))
LEMMA CountSteps ==
  ASSUME NEW ts, NEW i \in Nat \ {0}
  PROVE  /\ Quotes(ts, i) \in Nat /\ Quotes(ts, i - 1) \in Nat
         /\ ts[i] = Quote => Quotes(ts, i) = Quotes(ts, i - 1) + 1
         /\ ts[i] # Quote => Quotes(ts, i) = Quotes(ts, i - 1)
         /\ InString(ts, i) <=> Quotes(ts, i - 1) % 2 = 1
         /\ \A t : /\ Count(ts, t, i) \in Nat /\ Count(ts, t, i - 1) \in Nat
                   /\ ts[i] = t /\ ~InString(ts, i) => Count(ts, t, i) = Count(ts, t, i - 1) + 1
                   /\ ~(ts[i] = t /\ ~InString(ts, i)) => Count(ts, t, i) = Count(ts, t, i - 1)
<1> DEFINE Q == {k \in Nat : ts[k] = Quote}
           P(t) == {k \in Nat : ts[k] = t /\ ~InString(ts, k)}
<1>1. /\ (1..i) \intersect Q = {k \in 1..i : ts[k] = Quote}
      /\ (1..(i - 1)) \intersect Q = {k \in 1..(i - 1) : ts[k] = Quote}
      /\ i \in Q <=> ts[i] = Quote
  OBVIOUS
<1>2. ASSUME NEW t
      PROVE  /\ (1..i) \intersect P(t) = Outside(ts, t, i)
             /\ (1..(i - 1)) \intersect P(t) = Outside(ts, t, i - 1)
             /\ i \in P(t) <=> ts[i] = t /\ ~InString(ts, i)
  BY DEF Outside
<1>3. InString(ts, i) <=> Quotes(ts, i - 1) % 2 = 1
  BY DEF InString, Quotes
<1> HIDE DEF Q, P
<1>4. ASSUME NEW t
      PROVE  /\ Count(ts, t, i) \in Nat /\ Count(ts, t, i - 1) \in Nat
             /\ ts[i] = t /\ ~InString(ts, i) => Count(ts, t, i) = Count(ts, t, i - 1) + 1
             /\ ~(ts[i] = t /\ ~InString(ts, i)) => Count(ts, t, i) = Count(ts, t, i - 1)
  <2>1. /\ Cardinality((1..i) \intersect P(t)) \in Nat /\ Cardinality((1..(i - 1)) \intersect P(t)) \in Nat
        /\ i \in P(t) => Cardinality((1..i) \intersect P(t)) = Cardinality((1..(i - 1)) \intersect P(t)) + 1
        /\ i \notin P(t) => Cardinality((1..i) \intersect P(t)) = Cardinality((1..(i - 1)) \intersect P(t))
    BY CountUp
  <2> QED
    BY <1>2, <2>1 DEF Count
<1>5. /\ Quotes(ts, i) \in Nat /\ Quotes(ts, i - 1) \in Nat
      /\ ts[i] = Quote => Quotes(ts, i) = Quotes(ts, i - 1) + 1
      /\ ts[i] # Quote => Quotes(ts, i) = Quotes(ts, i - 1)
  <2>1. /\ Cardinality((1..i) \intersect Q) \in Nat /\ Cardinality((1..(i - 1)) \intersect Q) \in Nat
        /\ i \in Q => Cardinality((1..i) \intersect Q) = Cardinality((1..(i - 1)) \intersect Q) + 1
        /\ i \notin Q => Cardinality((1..i) \intersect Q) = Cardinality((1..(i - 1)) \intersect Q)
    BY CountUp
  <2> QED
    BY <1>1, <2>1 DEF Quotes
<1> QED
  BY <1>3, <1>4, <1>5

-----------------------------------------------------------------------------
ScanStep(before, t) ==
  LET parens == IF t = "(" THEN before.parens + 1
                ELSE IF t = ")" THEN before.parens - 1 ELSE before.parens
  IN IF before.inString \/ t = Quote
     THEN [before EXCEPT !.inString = before.inString # (t = Quote)]
     ELSE [inString |-> FALSE, parens |-> parens, unbalanced |-> before.unbalanced \/ parens < 0]
ScanStart == [inString |-> FALSE, parens |-> 0, unbalanced |-> FALSE]
\* The states that ParenScan goes through.
Scans(g, ts) ==
  /\ g \in [0..Len(ts) -> ScanState] /\ g[0] = ScanStart /\ ParenScan(ts) = g[Len(ts)]
  /\ \A i \in 1..Len(ts) : g[i] = ScanStep(g[i - 1], ts[i])
LEMMA ScanStepType ==
  ASSUME NEW s \in ScanState, NEW t PROVE ScanStep(s, t) \in ScanState
<1> DEFINE parens == IF t = "(" THEN s.parens + 1
                     ELSE IF t = ")" THEN s.parens - 1 ELSE s.parens
<1>1. parens \in Int /\ (parens < 0) \in BOOLEAN
  BY DEF ScanState
<1>2. s.inString \in BOOLEAN /\ s.unbalanced \in BOOLEAN /\ s.parens \in Int
  BY DEF ScanState
<1> HIDE DEF parens
<1>3. CASE s.inString \/ t = Quote
  <2>1. (s.inString # (t = Quote)) \in BOOLEAN
    OBVIOUS
  <2> DEFINE w == s.inString # (t = Quote)
  <2> HIDE DEF w
  <2>2. [s EXCEPT !.inString = w] \in ScanState
    BY <2>1 DEF ScanState, w
  <2> QED
    BY <1>3, <2>2 DEF ScanStep, w
<1>4. CASE ~(s.inString \/ t = Quote)
  <2> DEFINE u == s.unbalanced \/ parens < 0
  <2>1. u \in BOOLEAN
    BY <1>1, <1>2
  <2> HIDE DEF u
  <2>2. [inString |-> FALSE, parens |-> parens, unbalanced |-> u] \in ScanState
    BY <1>1, <2>1 DEF ScanState
  <2> QED
    BY <1>4, <2>2 DEF ScanStep, parens, u
<1> QED
  BY <1>3, <1>4
LEMMA ScanUnfolds ==
  ASSUME NEW ts \in Seq(STRING)
  PROVE  \E g : Scans(g, ts)
<1> DEFINE n == Len(ts)
           V == ScanState
           Runs(f) == f = [i \in 0..n |-> IF i = 0 THEN ScanStart ELSE ScanStep(f[i - 1], ts[i])]
           R == CHOOSE f : Runs(f)
           F == [i \in 1..n |-> [s \in V |-> ScanStep(s, ts[i])]]
<1>1. n \in Nat
  OBVIOUS
<1>2. F \in [1..n -> [V -> V]]
  BY ScanStepType
<1>3. ScanStart \in V
  BY DEF ScanStart, ScanState
<1>4. PICK g \in [0..n -> V] : g[0] = ScanStart /\ \A i \in 1..n : g[i] = F[i][g[i - 1]]
  <2> HIDE DEF F, V, n
  <2>1. PICK g : Iterates(g, n, V, ScanStart, F)
    BY <1>1, <1>2, <1>3, Iteration
  <2> QED
    BY <2>1 DEF Iterates
<1>5. \A i \in 1..n : g[i] = ScanStep(g[i - 1], ts[i])
  <2> HIDE DEF V
  <2>1. \A i \in 1..n : g[i - 1] \in V
    BY <1>1
  <2> QED
    BY <1>4, <2>1
<1>6. Runs(g)
  <2> HIDE DEF V
  <2>1. g = [i \in 0..n |-> g[i]]
    OBVIOUS
  <2>2. \A i \in 0..n : g[i] = IF i = 0 THEN ScanStart ELSE ScanStep(g[i - 1], ts[i])
    BY <1>1, <1>4, <1>5
  <2> QED
    BY <2>1, <2>2
<1>7. Runs(R)
  <2> HIDE DEF Runs
  <2> QED
    BY <1>6
<1>8. ParenScan(ts) = R[n]
  BY DEF ParenScan, ScanStep, ScanStart
<1>9. R \in [0..n -> V] /\ R[0] = ScanStart /\ \A i \in 1..n : R[i] = ScanStep(R[i - 1], ts[i])
  <2> HIDE DEF R, V, n
  <2>0. R = [i \in 0..n |-> IF i = 0 THEN ScanStart ELSE ScanStep(R[i - 1], ts[i])]
    BY <1>7
  <2>1. /\ DOMAIN R = 0..n /\ R = [i \in 0..n |-> R[i]] /\ R[0] = ScanStart
        /\ \A i \in 1..n : R[i] = ScanStep(R[i - 1], ts[i])
    <3>1. DOMAIN R = 0..n /\ R = [i \in 0..n |-> R[i]]
      BY <2>0
    <3>2. \A i \in 0..n : R[i] = IF i = 0 THEN ScanStart ELSE ScanStep(R[i - 1], ts[i])
      BY <2>0
    <3> QED
      BY <1>1, <3>1, <3>2
  <2> DEFINE T == {i \in 0..n : R[i] = g[i]}
  <2>2. 0 \in T
    BY <1>1, <1>4, <2>1
  <2>3. ASSUME NEW i \in 1..n, i - 1 \in T PROVE i \in T
    <3>1. i \in 0..n /\ R[i - 1] = g[i - 1]
      BY <1>1, <2>3
    <3>2. g[i] = ScanStep(g[i - 1], ts[i]) /\ R[i] = ScanStep(R[i - 1], ts[i])
      BY <1>5, <2>1
    <3> QED
      BY <3>1, <3>2
  <2> HIDE DEF T
  <2>4. 0..n \subseteq T
    BY <1>1, <2>2, <2>3, Counting
  <2>5. \A i \in 0..n : R[i] \in V
    BY <2>4 DEF T
  <2> QED
    BY <2>1, <2>5
<1> HIDE DEF R
<1>10. Scans(R, ts)
  BY <1>8, <1>9 DEF Scans
<1> QED
  BY <1>10
\* What the scan knows after i tokens, in the grammar's terms.
ScanKnows(s, ts, i) ==
  /\ s.inString <=> Quotes(ts, i) % 2 = 1
  /\ s.parens = Count(ts, "(", i) - Count(ts, ")", i)
  /\ ~s.unbalanced => s.parens >= 0 /\ \A j \in 1..i : Count(ts, ")", j) <= Count(ts, "(", j)
LEMMA ScanStepKnows ==
  ASSUME NEW ts, NEW i \in Nat \ {0}, NEW s \in ScanState, ScanKnows(s, ts, i - 1)
  PROVE  ScanKnows(ScanStep(s, ts[i]), ts, i)
<1> DEFINE t == ts[i]
           next == ScanStep(s, t)
           opened == Count(ts, "(", i)
           closed == Count(ts, ")", i)
           openedBefore == Count(ts, "(", i - 1)
           closedBefore == Count(ts, ")", i - 1)
<1>1. s.inString \in BOOLEAN /\ s.unbalanced \in BOOLEAN /\ s.parens \in Int
  BY DEF ScanState
<1>2. /\ Quotes(ts, i) \in Nat /\ Quotes(ts, i - 1) \in Nat
      /\ t = Quote => Quotes(ts, i) = Quotes(ts, i - 1) + 1
      /\ t # Quote => Quotes(ts, i) = Quotes(ts, i - 1)
      /\ InString(ts, i) <=> Quotes(ts, i - 1) % 2 = 1
  BY CountSteps
<1>3. /\ opened \in Nat /\ closed \in Nat /\ openedBefore \in Nat /\ closedBefore \in Nat
      /\ t = "(" /\ ~InString(ts, i) => opened = openedBefore + 1
      /\ ~(t = "(" /\ ~InString(ts, i)) => opened = openedBefore
      /\ t = ")" /\ ~InString(ts, i) => closed = closedBefore + 1
      /\ ~(t = ")" /\ ~InString(ts, i)) => closed = closedBefore
  BY CountSteps
<1>4. s.inString <=> InString(ts, i)
  BY <1>2 DEF ScanKnows
<1>5. s.parens = openedBefore - closedBefore
  BY DEF ScanKnows
<1>6. ~s.unbalanced => s.parens >= 0 /\ \A j \in 1..(i - 1) : Count(ts, ")", j) <= Count(ts, "(", j)
  BY DEF ScanKnows
<1>7. \A j \in 1..i : j = i \/ j \in 1..(i - 1)
  OBVIOUS
<1>8. Quotes(ts, i) % 2 = 1 <=> (Quotes(ts, i - 1) % 2 = 1) # (t = Quote)
  <2>1. CASE t = Quote
    BY <1>2, <2>1, Parity
  <2>2. CASE t # Quote
    BY <1>2, <2>2
  <2> QED
    BY <2>1, <2>2
<1>9. next.inString <=> Quotes(ts, i) % 2 = 1
  <2>1. CASE s.inString \/ t = Quote
    <3>1. next.inString = (s.inString # (t = Quote))
      BY <2>1 DEF ScanStep, ScanState
    <3> QED
      BY <1>1, <1>2, <1>4, <1>8, <3>1
  <2>2. CASE ~(s.inString \/ t = Quote)
    <3>1. next.inString = FALSE
      BY <2>2 DEF ScanStep
    <3> QED
      BY <1>1, <1>2, <1>4, <1>8, <2>2, <3>1
  <2> QED
    BY <2>1, <2>2
<1>10. /\ next.parens = opened - closed
       /\ ~next.unbalanced => ~s.unbalanced /\ next.parens >= 0 /\ closed <= opened
  <2>1. CASE s.inString \/ t = Quote
    <3>1. next.parens = s.parens /\ next.unbalanced = s.unbalanced
      BY <2>1 DEF ScanStep, ScanState
    <3>2. opened = openedBefore /\ closed = closedBefore
      BY <1>3, <1>4, <2>1 DEF Quote
    <3> QED
      BY <1>3, <1>5, <1>6, <3>1, <3>2
  <2>2. CASE ~(s.inString \/ t = Quote)
    <3> DEFINE parens == IF t = "(" THEN s.parens + 1
                         ELSE IF t = ")" THEN s.parens - 1 ELSE s.parens
    <3>1. next.parens = parens /\ next.unbalanced = (s.unbalanced \/ parens < 0)
      BY <2>2 DEF ScanStep
    <3>2. parens = opened - closed
      BY <1>1, <1>3, <1>4, <1>5, <2>2
    <3>3. parens \in Int /\ (parens >= 0 => closed <= opened)
      BY <1>3, <3>2
    <3> HIDE DEF parens
    <3>4. ~next.unbalanced => ~s.unbalanced /\ ~(parens < 0)
      BY <3>1
    <3>5. parens < 0 \/ parens >= 0
      BY <3>3
    <3> QED
      BY <3>1, <3>2, <3>3, <3>4, <3>5
  <2> QED
    BY <2>1, <2>2
<1> QED
  BY <1>6, <1>7, <1>9, <1>10 DEF ScanKnows

\* A source that the lint passes closes every parenthesis it opens, by the grammar,
\* and calls functions of the given catalogue only (validate.js:36-113).
THEOREM LintIsSound ==
  ASSUME NEW ts \in Seq(STRING), NEW known, LintPasses(ts, known)
  PROVE  Nested(ts) /\ Calls(ts) \subseteq known
<1> DEFINE n == Len(ts)
<1>1. n \in Nat
  OBVIOUS
<1>2. PICK g : Scans(g, ts)
  BY ScanUnfolds
<1>3. /\ g \in [0..n -> ScanState] /\ g[0] = ScanStart /\ ParenScan(ts) = g[n]
      /\ \A i \in 1..n : g[i] = ScanStep(g[i - 1], ts[i])
  BY <1>2 DEF Scans
<1> HIDE DEF n
<1> DEFINE T == {i \in 0..n : ScanKnows(g[i], ts, i)}
<1>4. 0 \in T
  <2>1. 1..0 = {} /\ {k \in 1..0 : ts[k] = Quote} = {} /\ \A t : Outside(ts, t, 0) = {}
    BY DEF Outside
  <2>2. Quotes(ts, 0) = 0 /\ \A t : Count(ts, t, 0) = 0
    BY <2>1, FS_EmptySet DEF Quotes, Count
  <2>3. ScanKnows(ScanStart, ts, 0)
    BY <2>1, <2>2 DEF ScanKnows, ScanStart
  <2> QED
    BY <1>1, <1>3, <2>3
<1>5. ASSUME NEW i \in 1..n, i - 1 \in T PROVE i \in T
  <2>1. i \in Nat \ {0} /\ i - 1 \in 0..n /\ i \in 0..n
    BY <1>1
  <2>2. g[i - 1] \in ScanState /\ g[i] = ScanStep(g[i - 1], ts[i])
    BY <1>3, <2>1
  <2>3. ScanKnows(g[i - 1], ts, i - 1)
    BY <1>5
  <2>4. ScanKnows(ScanStep(g[i - 1], ts[i]), ts, i)
    BY <2>1, <2>2, <2>3, ScanStepKnows
  <2> QED
    BY <2>1, <2>2, <2>4
<1>6. ScanKnows(g[n], ts, n)
  <2> HIDE DEF T
  <2>1. 0..n \subseteq T
    BY <1>1, <1>4, <1>5, Counting
  <2> QED
    BY <1>1, <2>1 DEF T
<1>7. ~g[n].unbalanced /\ ~(g[n].parens > 0)
  BY <1>3 DEF LintPasses, ParenImbalance
<1>8. /\ \A j \in 1..n : Count(ts, ")", j) <= Count(ts, "(", j)
      /\ Count(ts, ")", n) = Count(ts, "(", n)
  <2>1. g[n].parens = Count(ts, "(", n) - Count(ts, ")", n)
        /\ \A j \in 1..n : Count(ts, ")", j) <= Count(ts, "(", j)
    BY <1>6, <1>7 DEF ScanKnows
  <2>2. n # 0 => Count(ts, "(", n) \in Nat /\ Count(ts, ")", n) \in Nat
    BY <1>1, CountSteps
  <2>3. CASE n = 0
    <3>1. Outside(ts, "(", 0) = {} /\ Outside(ts, ")", 0) = {}
      BY DEF Outside
    <3> QED
      BY <2>1, <2>3, <3>1 DEF Count
  <2>4. CASE n # 0
    <3>1. n \in 1..n
      BY <1>1, <2>4
    <3> QED
      BY <1>7, <2>1, <2>2, <2>4, <3>1
  <2> QED
    BY <2>3, <2>4
<1>9. Nested(ts)
  BY <1>8 DEF Nested, Count, n
<1>10. Calls(ts) \subseteq known
  <2>1. CalledNames(ts) \ Reserved \subseteq known
    BY DEF LintPasses
  <2>2. Calls(ts) \subseteq CalledNames(ts) \ Reserved
    BY DEF Calls, CalledNames
  <2> QED
    BY <2>1, <2>2
<1> QED
  BY <1>9, <1>10

-----------------------------------------------------------------------------
(* The emitter *)

\* What emitExpr returns for a node, given what g holds for its operands.
EmitBody(g, n) == EmitNode(n, [i \in DOMAIN n.parts |-> g[n.parts[i]]])
\* g is emitExpr on the set S of nodes, which holds the operands of each of its own.
Emits(g, S) ==
  /\ S \subseteq Conditions /\ \A n \in S : \A i \in DOMAIN n.parts : n.parts[i] \in S
  /\ DOMAIN g = S /\ \A n \in S : g[n] = EmitBody(g, n)
EmitSets == {S \in SUBSET Conditions : \E g : Emits(g, S)}

LEMMA LowestCondition ==
  ASSUME NEW T \in SUBSET Conditions, T # {}
  PROVE  \E n \in T : \A i \in DOMAIN n.parts : n.parts[i] \notin T
  BY NodesAssumption

LEMMA NodeFacts ==
  ASSUME NEW n \in Conditions \union Actions
  PROVE  /\ n \in Conditions => n.kind \in ConditionKinds
         /\ n \in Actions => n.kind \in ActionKinds
         /\ n.word \in STRING /\ n.text \in Seq(STRING) /\ Escaped(n.text) /\ n.parts \in Seq(Conditions)
         /\ \A i \in DOMAIN n.parts : n.parts[i] \in Conditions
<1>1. n \in Node(ConditionKinds) \/ n \in Node(ActionKinds)
  BY NodesAssumption
<1>2. n.word \in STRING /\ n.text \in Seq(STRING) /\ n.parts \in Seq(Conditions)
  BY <1>1 DEF Node
<1>3. (n \in Conditions => n.kind \in ConditionKinds) /\ (n \in Actions => n.kind \in ActionKinds)
  BY NodesAssumption DEF Node
<1>4. \A i \in DOMAIN n.parts : n.parts[i] \in Conditions
  BY <1>2
<1> QED
  BY <1>2, <1>3, <1>4, TextsAssumption

LEMMA SameOperands ==
  ASSUME NEW g, NEW h, NEW n, \A i \in DOMAIN n.parts : g[n.parts[i]] = h[n.parts[i]]
  PROVE  EmitBody(g, n) = EmitBody(h, n)
<1>1. [i \in DOMAIN n.parts |-> g[n.parts[i]]] = [i \in DOMAIN n.parts |-> h[n.parts[i]]]
  OBVIOUS
<1> QED
  BY <1>1 DEF EmitBody

LEMMA EmitsAgree ==
  ASSUME NEW S, NEW T, NEW g, NEW h, Emits(g, S), Emits(h, T), NEW x \in S \cap T
  PROVE  g[x] = h[x]
<1> DEFINE D == {n \in S \cap T : g[n] # h[n]}
<1> SUFFICES ASSUME D # {} PROVE FALSE
  OBVIOUS
<1>1. D \in SUBSET Conditions
  BY DEF Emits
<1>2. PICK n \in D : \A i \in DOMAIN n.parts : n.parts[i] \notin D
  <2> HIDE DEF D
  <2> QED
    BY <1>1, LowestCondition
<1>3. \A i \in DOMAIN n.parts : g[n.parts[i]] = h[n.parts[i]]
  BY <1>2 DEF Emits
<1>4. EmitBody(g, n) = EmitBody(h, n)
  BY <1>3, SameOperands
<1>5. g[n] = EmitBody(g, n) /\ h[n] = EmitBody(h, n) /\ g[n] # h[n]
  BY <1>2 DEF Emits
<1> QED
  BY <1>4, <1>5

\* One function emits every node that some function emits.
EmittedHere(n) == CHOOSE x : \E S \in EmitSets : \E g : Emits(g, S) /\ n \in S /\ x = g[n]
LEMMA EmittedHereIs ==
  ASSUME NEW S \in EmitSets, NEW g, Emits(g, S), NEW n \in S
  PROVE  EmittedHere(n) = g[n]
<1>1. \E x : \E T \in EmitSets : \E h : Emits(h, T) /\ n \in T /\ x = h[n]
  OBVIOUS
<1>2. PICK T \in EmitSets : \E h : Emits(h, T) /\ n \in T /\ EmittedHere(n) = h[n]
  BY <1>1 DEF EmittedHere
<1>3. PICK h : Emits(h, T) /\ n \in T /\ EmittedHere(n) = h[n]
  BY <1>2
<1> QED
  BY <1>3, EmitsAgree

LEMMA EmittedTogether ==
  LET U == UNION EmitSets IN Emits([n \in U |-> EmittedHere(n)], U)
<1> DEFINE U == UNION EmitSets
           G == [n \in U |-> EmittedHere(n)]
<1>1. U \subseteq Conditions /\ DOMAIN G = U
  BY DEF EmitSets
<1>2. ASSUME NEW n \in U
      PROVE  (\A i \in DOMAIN n.parts : n.parts[i] \in U) /\ G[n] = EmitBody(G, n)
  <2>1. PICK S \in EmitSets : n \in S
    OBVIOUS
  <2>2. PICK g : Emits(g, S)
    BY DEF EmitSets
  <2>3. \A x \in S : x \in U /\ G[x] = g[x]
    BY <2>2, EmittedHereIs
  <2> HIDE DEF U, G
  <2>4. \A i \in DOMAIN n.parts : n.parts[i] \in S
    BY <2>1, <2>2 DEF Emits
  <2>5. EmitBody(G, n) = EmitBody(g, n)
    BY <2>3, <2>4, SameOperands
  <2>6. g[n] = EmitBody(g, n)
    BY <2>1, <2>2 DEF Emits
  <2> QED
    BY <2>1, <2>3, <2>4, <2>5, <2>6
<1> HIDE DEF U, G
<1>3. Emits(G, U)
  BY <1>1, <1>2 DEF Emits
<1> QED
  BY <1>3 DEF U, G

\* emitExpr returns for every condition.
LEMMA EmitsAll == UNION EmitSets = Conditions
<1> DEFINE U == UNION EmitSets
           g == [n \in U |-> EmittedHere(n)]
<1>0. Emits(g, U)
  BY EmittedTogether
<1>1. U \subseteq Conditions
  BY DEF EmitSets
<1> SUFFICES ASSUME Conditions \ U # {} PROVE FALSE
  BY <1>1
<1>2. PICK n \in Conditions \ U : \A i \in DOMAIN n.parts : n.parts[i] \notin Conditions \ U
  <2> HIDE DEF U
  <2> QED
    BY LowestCondition
<1>3. \A i \in DOMAIN n.parts : n.parts[i] \in U
  BY <1>2, NodeFacts
<1> DEFINE S == U \union {n}
           h == [x \in S |-> IF x = n THEN EmitBody(g, n) ELSE g[x]]
<1> HIDE DEF U, g
<1>4. DOMAIN h = S /\ h[n] = EmitBody(g, n) /\ \A x \in U : h[x] = g[x]
  BY <1>2
<1>5. S \subseteq Conditions /\ \A x \in S : \A i \in DOMAIN x.parts : x.parts[i] \in U
  BY <1>0, <1>1, <1>2, <1>3 DEF Emits
<1> HIDE DEF h
<1>6. ASSUME NEW x \in S PROVE h[x] = EmitBody(h, x)
  <2>1. EmitBody(h, x) = EmitBody(g, x)
    BY <1>4, <1>5, SameOperands
  <2>2. CASE x = n
    BY <1>4, <2>1, <2>2
  <2>3. CASE x # n
    <3>1. x \in U
      BY <2>3
    <3> QED
      BY <1>0, <1>4, <2>1, <3>1 DEF Emits
  <2> QED
    BY <2>2, <2>3
<1>7. Emits(h, S)
  BY <1>4, <1>5, <1>6 DEF Emits
<1>8. S \in EmitSets
  BY <1>5, <1>7 DEF EmitSets
<1> QED
  BY <1>2, <1>8 DEF U

LEMMA EmitUnfolds == \A n \in Conditions : EmitExpr[n] = EmitBody(EmitExpr, n)
<1> DEFINE G == [n \in Conditions |-> EmittedHere(n)]
           Is(f) == f = [n \in Conditions |-> EmitBody(f, n)]
<1>1. Emits(G, Conditions)
  BY EmittedTogether, EmitsAll
<1>2. Is(G)
  <2>1. \A n \in Conditions : G[n] = EmitBody(G, n)
    BY <1>1 DEF Emits
  <2>2. G = [n \in Conditions |-> G[n]]
    OBVIOUS
  <2> HIDE DEF G
  <2>3. [n \in Conditions |-> G[n]] = [n \in Conditions |-> EmitBody(G, n)]
    BY <2>1
  <2> QED
    BY <2>2, <2>3
<1> HIDE DEF G
<1>3. EmitExpr = CHOOSE f : Is(f)
  BY DEF EmitExpr, EmitBody
<1>4. Is(EmitExpr)
  <2> HIDE DEF Is
  <2> QED
    BY <1>2, <1>3
<1> QED
  BY <1>4

-----------------------------------------------------------------------------
\* The scan of the tokens ts takes the state s to the state t.
Runs(ts, s, t) ==
  \E g \in [0..Len(ts) -> ScanState] :
    g[0] = s /\ g[Len(ts)] = t /\ \A i \in 1..Len(ts) : g[i] = ScanStep(g[i - 1], ts[i])
\* The scan with p parentheses open, outside of a string and inside of one.
At(p) == [inString |-> FALSE, parens |-> p, unbalanced |-> FALSE]
In(p) == [inString |-> TRUE, parens |-> p, unbalanced |-> FALSE]
\* The schema takes any text for a word, which the emitter writes as it is; words
\* are meant to be names (of functions, variables and fields) or literals.
WordsAreNames == \A n \in Conditions \union Actions : n.word \notin {"(", ")", Quote}
\* What ts opens it closes, and it closes nothing else.
Whole(ts) == ts \in Seq(STRING) /\ (WordsAreNames => \A p \in Nat : Runs(ts, At(p), At(p)))
Plain(w) == w \in STRING /\ (WordsAreNames => w \notin {"(", ")", Quote})

LEMMA OneWord ==
  ASSUME NEW S, NEW w \in S PROVE <<w>> \in Seq(S)
  OBVIOUS

LEMMA ThreeWords ==
  ASSUME NEW v, NEW w, NEW x PROVE (<<v>> \o <<w>>) \o <<x>> = <<v, w, x>>
<1> DEFINE S == {v, w, x}
           vw == <<v>> \o <<w>>
           vwx == vw \o <<x>>
<1>1. v \in S /\ w \in S /\ x \in S
  OBVIOUS
<1> HIDE DEF S
<1>2. <<v>> \in Seq(S) /\ <<w>> \in Seq(S) /\ <<x>> \in Seq(S)
  BY <1>1, OneWord
<1>3. vw \in Seq(S) /\ Len(vw) = 2 /\ vw[1] = v /\ vw[2] = w
  BY <1>2
<1> HIDE DEF vw
<1>4. vwx \in Seq(S) /\ Len(vwx) = 3 /\ vwx[1] = v /\ vwx[2] = w /\ vwx[3] = x
  <2>1. /\ vwx \in Seq(S) /\ Len(vwx) = Len(vw) + Len(<<x>>)
        /\ \A i \in 1..(Len(vw) + Len(<<x>>)) : vwx[i] = IF i <= Len(vw) THEN vw[i] ELSE <<x>>[i - Len(vw)]
    BY <1>2, <1>3, ConcatProperties
  <2>2. Len(<<x>>) = 1 /\ <<x>>[1] = x
    OBVIOUS
  <2> HIDE DEF vwx
  <2> QED
    BY <1>3, <2>1, <2>2
<1> HIDE DEF vwx
<1>5. vwx = <<v, w, x>>
  BY <1>1, <1>4
<1> QED
  BY <1>5 DEF vwx, vw

\* The words that the emitter writes by itself.
LEMMA OwnWords ==
  /\ \A w \in Symbols \union Keywords \union OwnCalls : w \in STRING /\ <<w>> \in Seq(STRING)
  /\ \A w \in {"op"} \union Keywords \union OwnCalls : Plain(w)
<1>1. \A w \in Symbols \union Keywords \union OwnCalls : w \in STRING
  BY WordsAssumption
<1>2. \A w \in {"op"} \union Keywords \union OwnCalls : w \notin {"(", ")", Quote} /\ w \in STRING
  BY <1>1 DEF Symbols, Keywords, OwnCalls, Quote
<1> QED
  BY <1>1, <1>2, OneWord DEF Plain

LEMMA AtType == \A p \in Nat : At(p) \in ScanState /\ In(p) \in ScanState
  BY DEF At, In, ScanState

LEMMA RunsConcat ==
  ASSUME NEW a \in Seq(STRING), NEW b \in Seq(STRING), NEW s, NEW t, NEW u, Runs(a, s, t), Runs(b, t, u)
  PROVE  Runs(a \o b, s, u)
<1> DEFINE m == Len(a)
           n == Len(b)
           ts == a \o b
<1>1. m \in Nat /\ n \in Nat /\ Len(ts) = m + n
  OBVIOUS
<1>2. (\A i \in 1..m : ts[i] = a[i]) /\ \A i \in (m + 1)..(m + n) : ts[i] = b[i - m]
  BY ConcatProperties
<1>3. PICK g \in [0..m -> ScanState] :
        g[0] = s /\ g[m] = t /\ \A i \in 1..m : g[i] = ScanStep(g[i - 1], a[i])
  BY DEF Runs
<1>4. PICK h \in [0..n -> ScanState] :
        h[0] = t /\ h[n] = u /\ \A i \in 1..n : h[i] = ScanStep(h[i - 1], b[i])
  BY DEF Runs
<1> DEFINE f == [i \in 0..(m + n) |-> IF i <= m THEN g[i] ELSE h[i - m]]
<1> HIDE DEF m, n, ts
<1>5. f \in [0..(m + n) -> ScanState]
  <2>1. ASSUME NEW i \in 0..(m + n) PROVE f[i] \in ScanState
    <3>1. CASE i <= m
      <4>1. i \in 0..m
        BY <1>1, <3>1
      <4> QED
        BY <1>3, <3>1, <4>1
    <3>2. CASE ~(i <= m)
      <4>1. i - m \in 0..n
        BY <1>1, <3>2
      <4> QED
        BY <1>4, <3>2, <4>1
    <3> QED
      BY <3>1, <3>2
  <2>2. f = [i \in 0..(m + n) |-> f[i]]
    OBVIOUS
  <2> HIDE DEF f
  <2> QED
    BY <2>1, <2>2
<1>6. \A i \in 0..m : f[i] = g[i]
  BY <1>1
<1>7. \A i \in m..(m + n) : f[i] = h[i - m]
  <2> SUFFICES ASSUME NEW i \in m..(m + n) PROVE f[i] = h[i - m]
    OBVIOUS
  <2>1. i \in 0..(m + n)
    BY <1>1
  <2>2. CASE i = m
    <3>1. f[m] = g[m] /\ i - m = 0
      BY <1>1, <2>1, <2>2
    <3> QED
      BY <1>3, <1>4, <2>2, <3>1
  <2>3. CASE i # m
    <3>1. ~(i <= m)
      BY <1>1, <2>3
    <3> QED
      BY <2>1, <3>1
  <2> QED
    BY <2>2, <2>3
<1> HIDE DEF f
<1>8. f[0] = s /\ f[m + n] = u
  <2>1. 0 \in 0..m /\ m + n \in m..(m + n) /\ (m + n) - m = n
    BY <1>1
  <2> QED
    BY <1>3, <1>4, <1>6, <1>7, <2>1
<1>9. ASSUME NEW i \in 1..(m + n) PROVE f[i] = ScanStep(f[i - 1], ts[i])
  <2>1. CASE i <= m
    <3>1. i \in 1..m /\ i \in 0..m /\ i - 1 \in 0..m
      BY <1>1, <2>1
    <3> QED
      BY <1>2, <1>3, <1>6, <3>1
  <2>2. CASE ~(i <= m)
    <3>1. /\ i \in (m + 1)..(m + n) /\ i \in m..(m + n) /\ i - 1 \in m..(m + n) /\ i - m \in 1..n
          /\ (i - 1) - m = (i - m) - 1
      BY <1>1, <2>2
    <3>2. f[i] = h[i - m] /\ f[i - 1] = h[(i - m) - 1] /\ ts[i] = b[i - m]
      BY <1>2, <1>7, <3>1
    <3>3. h[i - m] = ScanStep(h[(i - m) - 1], b[i - m])
      BY <1>4, <3>1
    <3> QED
      BY <3>2, <3>3
  <2> QED
    BY <2>1, <2>2
<1> QED
  BY <1>1, <1>5, <1>8, <1>9 DEF Runs, ts

LEMMA RunsWord ==
  ASSUME NEW w, NEW s \in ScanState PROVE Runs(<<w>>, s, ScanStep(s, w))
<1> DEFINE t == ScanStep(s, w)
           g == [i \in 0..1 |-> IF i = 0 THEN s ELSE t]
<1>1. t \in ScanState
  BY ScanStepType
<1>2. Len(<<w>>) = 1 /\ <<w>>[1] = w
  OBVIOUS
<1>3. t = ScanStep(s, w)
  OBVIOUS
<1> HIDE DEF t
<1>4. g \in [0..1 -> ScanState] /\ g[0] = s /\ g[1] = t
  BY <1>1
<1> HIDE DEF g
<1>5. \A i \in 1..1 : g[i] = ScanStep(g[i - 1], <<w>>[i])
  <2>1. \A i \in 1..1 : i = 1
    OBVIOUS
  <2> QED
    BY <1>2, <1>3, <1>4, <2>1
<1>6. Runs(<<w>>, s, t)
  BY <1>2, <1>4, <1>5 DEF Runs
<1> QED
  BY <1>6 DEF t

LEMMA WholeNothing == Whole(<<>>)
<1>1. ASSUME NEW p \in Nat PROVE Runs(<<>>, At(p), At(p))
  <2> DEFINE g == [i \in 0..0 |-> At(p)]
  <2>1. g \in [0..0 -> ScanState] /\ g[0] = At(p)
    BY AtType
  <2> HIDE DEF g
  <2>2. Len(<<>>) = 0 /\ 1..0 = {}
    OBVIOUS
  <2> QED
    BY <2>1, <2>2 DEF Runs
<1> QED
  BY <1>1 DEF Whole

LEMMA WholeConcat ==
  ASSUME NEW a, NEW b, Whole(a), Whole(b) PROVE Whole(a \o b)
<1>1. a \in Seq(STRING) /\ b \in Seq(STRING) /\ a \o b \in Seq(STRING)
  BY ConcatProperties DEF Whole
<1> QED
  BY <1>1, RunsConcat DEF Whole

LEMMA WholeWord ==
  ASSUME NEW w, Plain(w) PROVE Whole(<<w>>)
<1>1. ASSUME NEW p \in Nat, WordsAreNames PROVE ScanStep(At(p), w) = At(p)
  <2>1. ~(p < 0)
    OBVIOUS
  <2> QED
    BY <1>1, <2>1 DEF ScanStep, At, Plain
<1>2. <<w>> \in Seq(STRING)
  BY DEF Plain
<1> QED
  BY <1>1, <1>2, RunsWord, AtType DEF Whole

\* What is within a string does not count.
LEMMA RunsText ==
  ASSUME NEW text \in Seq(STRING), Escaped(text), NEW p \in Nat PROVE Runs(text, In(p), In(p))
<1> DEFINE n == Len(text)
           g == [i \in 0..n |-> In(p)]
<1>1. n \in Nat
  OBVIOUS
<1>2. \A i \in 1..n : text[i] # Quote
  BY DEF Escaped
<1> HIDE DEF n
<1>3. g \in [0..n -> ScanState] /\ g[0] = In(p) /\ g[n] = In(p)
  BY <1>1, AtType
<1>4. \A i \in 1..n : g[i] = In(p) /\ g[i - 1] = In(p)
  BY <1>1
<1> HIDE DEF g
<1>5. ASSUME NEW w, w # Quote PROVE ScanStep(In(p), w) = In(p)
  <2>1. ScanStep(In(p), w) = [In(p) EXCEPT !.inString = TRUE # (w = Quote)]
    BY DEF ScanStep, In
  <2>2. (TRUE # (w = Quote)) = TRUE
    BY <1>5
  <2> QED
    BY <2>1, <2>2 DEF In
<1> QED
  BY <1>2, <1>3, <1>4, <1>5 DEF Runs, n

LEMMA WholeQuoted ==
  ASSUME NEW text \in Seq(STRING), WordsAreNames => Escaped(text) PROVE Whole(Quoted(text))
<1>1. ASSUME NEW p \in Nat PROVE ScanStep(At(p), Quote) = In(p) /\ ScanStep(In(p), Quote) = At(p)
  <2>1. (FALSE # (Quote = Quote)) = TRUE /\ (TRUE # (Quote = Quote)) = FALSE
    OBVIOUS
  <2>2. ScanStep(At(p), Quote) = [At(p) EXCEPT !.inString = FALSE # (Quote = Quote)]
    BY DEF ScanStep, At
  <2>3. ScanStep(In(p), Quote) = [In(p) EXCEPT !.inString = TRUE # (Quote = Quote)]
    BY DEF ScanStep, In
  <2> QED
    BY <2>1, <2>2, <2>3 DEF At, In
<1>2. <<Quote>> \in Seq(STRING) /\ <<Quote>> \o text \in Seq(STRING) /\ Quoted(text) \in Seq(STRING)
  <2>1. <<Quote>> \in Seq(STRING)
    BY OwnWords DEF Symbols
  <2>2. <<Quote>> \o text \in Seq(STRING) /\ (<<Quote>> \o text) \o <<Quote>> \in Seq(STRING)
    BY <2>1
  <2> QED
    BY <2>1, <2>2 DEF Quoted
<1>3. ASSUME NEW p \in Nat, WordsAreNames PROVE Runs(Quoted(text), At(p), At(p))
  <2>1. Runs(<<Quote>>, At(p), In(p)) /\ Runs(<<Quote>>, In(p), At(p))
    BY <1>1, RunsWord, AtType
  <2>2. Runs(<<Quote>> \o text, At(p), In(p))
    BY <1>2, <1>3, <2>1, RunsText, RunsConcat
  <2> QED
    BY <1>2, <2>1, <2>2, RunsConcat DEF Quoted
<1> QED
  BY <1>2, <1>3 DEF Whole

LEMMA WholeParens ==
  ASSUME NEW a, Whole(a) PROVE Whole((<<"(">> \o a) \o <<")">>)
<1>1. ASSUME NEW p \in Nat
      PROVE  ScanStep(At(p), "(") = At(p + 1) /\ ScanStep(At(p + 1), ")") = At(p)
  <2>1. ~(p + 1 < 0) /\ ~(p < 0) /\ (p + 1) - 1 = p
    OBVIOUS
  <2> QED
    BY <2>1 DEF ScanStep, At, Quote
<1>2. a \in Seq(STRING) /\ <<"(">> \in Seq(STRING) /\ <<")">> \in Seq(STRING) /\ <<"(">> \o a \in Seq(STRING)
      /\ (<<"(">> \o a) \o <<")">> \in Seq(STRING)
  <2>1. a \in Seq(STRING) /\ <<"(">> \in Seq(STRING) /\ <<")">> \in Seq(STRING)
    BY OwnWords DEF Whole, Symbols
  <2>2. <<"(">> \o a \in Seq(STRING) /\ (<<"(">> \o a) \o <<")">> \in Seq(STRING)
    BY <2>1
  <2> QED
    BY <2>1, <2>2
<1>3. ASSUME NEW p \in Nat, WordsAreNames PROVE Runs((<<"(">> \o a) \o <<")">>, At(p), At(p))
  <2>1. p + 1 \in Nat
    OBVIOUS
  <2>2. Runs(<<"(">>, At(p), At(p + 1)) /\ Runs(<<")">>, At(p + 1), At(p))
    BY <1>1, <2>1, RunsWord, AtType
  <2>3. Runs(<<"(">> \o a, At(p), At(p + 1))
    BY <1>2, <2>1, <2>2, <1>3, RunsConcat DEF Whole
  <2> QED
    BY <1>2, <2>2, <2>3, RunsConcat
<1> QED
  BY <1>2, <1>3 DEF Whole

LEMMA WholeCall ==
  ASSUME NEW w, Plain(w), NEW a, Whole(a) PROVE Whole((<<w, "(">> \o a) \o <<")">>)
<1>1. a \in Seq(STRING) /\ w \in STRING
  BY DEF Whole, Plain
<1>0. <<w>> \in Seq(STRING) /\ <<"(">> \in Seq(STRING) /\ <<")">> \in Seq(STRING)
  BY <1>1, OneWord, OwnWords DEF Symbols
<1>2. (<<w, "(">> \o a) \o <<")">> = <<w>> \o ((<<"(">> \o a) \o <<")">>)
  <2>1. <<w, "(">> = <<w>> \o <<"(">>
    OBVIOUS
  <2>2. (<<w>> \o <<"(">>) \o a = <<w>> \o (<<"(">> \o a)
    BY <1>0, <1>1, ConcatAssociative
  <2>3. <<"(">> \o a \in Seq(STRING)
    BY <1>0, <1>1
  <2>4. (<<w>> \o (<<"(">> \o a)) \o <<")">> = <<w>> \o ((<<"(">> \o a) \o <<")">>)
    BY <1>0, <2>3, ConcatAssociative
  <2> QED
    BY <2>1, <2>2, <2>4
<1> QED
  BY <1>2, WholeParens, WholeWord, WholeConcat

LEMMA WholeJoined ==
  ASSUME NEW ss \in Seq(Seq(STRING)), \A i \in 1..Len(ss) : Whole(ss[i]) PROVE Whole(Joined(ss))
<1> DEFINE n == Len(ss)
           V == Seq(STRING)
           Next1(i, s) == IF i = 1 THEN ss[1] ELSE s \o <<"op">> \o ss[i]
           Is(f) == f = [i \in 0..n |-> CASE i = 0 -> <<>>
                                          [] i = 1 -> ss[1]
                                          [] OTHER -> f[i - 1] \o <<"op">> \o ss[i]]
           R == CHOOSE f : Is(f)
           F == [i \in 1..n |-> [s \in V |-> Next1(i, s)]]
<1>1. n \in Nat /\ \A i \in 1..n : ss[i] \in V
  OBVIOUS
<1>2. \A i \in 1..n, s \in V : Next1(i, s) \in V
  <2> SUFFICES ASSUME NEW i \in 1..n, NEW s \in V PROVE Next1(i, s) \in V
    OBVIOUS
  <2>1. ss[1] \in V /\ ss[i] \in V
    BY <1>1
  <2>2. <<"op">> \in V
    BY OwnWords DEF Symbols
  <2>3. s \o <<"op">> \in V
    BY <2>2
  <2>4. (s \o <<"op">>) \o ss[i] \in V
    BY <2>1, <2>3
  <2> QED
    BY <2>1, <2>4
<1>3. F \in [1..n -> [V -> V]]
  <2> HIDE DEF Next1, V, n
  <2> QED
    BY <1>2
<1>4. PICK g \in [0..n -> V] : g[0] = <<>> /\ \A i \in 1..n : g[i] = F[i][g[i - 1]]
  <2>1. <<>> \in V
    OBVIOUS
  <2> HIDE DEF F, V, n
  <2>2. PICK g : Iterates(g, n, V, <<>>, F)
    BY <1>1, <1>3, <2>1, Iteration
  <2> QED
    BY <2>2 DEF Iterates
<1>5. \A i \in 1..n : g[i] = Next1(i, g[i - 1])
  <2> HIDE DEF V, Next1, n
  <2>1. \A i \in 1..n : g[i - 1] \in V
    BY <1>1
  <2> QED
    BY <1>4, <2>1
<1>6. Is(g)
  <2> HIDE DEF V, n
  <2>1. \A i \in 0..n : g[i] = CASE i = 0 -> <<>> [] i = 1 -> ss[1] [] OTHER -> g[i - 1] \o <<"op">> \o ss[i]
    <3> SUFFICES ASSUME NEW i \in 0..n
                 PROVE g[i] = CASE i = 0 -> <<>> [] i = 1 -> ss[1] [] OTHER -> g[i - 1] \o <<"op">> \o ss[i]
      OBVIOUS
    <3>1. CASE i = 0
      BY <1>4, <3>1
    <3>2. CASE i # 0
      <4>1. i \in 1..n
        BY <1>1, <3>2
      <4>2. g[i] = Next1(i, g[i - 1])
        BY <1>5, <4>1
      <4> QED
        BY <3>2, <4>2
    <3> QED
      BY <3>1, <3>2
  <2>2. g = [i \in 0..n |-> g[i]]
    OBVIOUS
  <2> QED
    BY <2>1, <2>2
<1>7. Is(R)
  <2> HIDE DEF Is
  <2> QED
    BY <1>6
<1>8. Joined(ss) = R[n]
  BY DEF Joined
<1> DEFINE T == {i \in 0..n : Whole(R[i])}
<1>9. 0 \in T /\ \A i \in 1..n : i - 1 \in T => i \in T
  <2> HIDE DEF R
  <2>1. R[0] = <<>>
    BY <1>1, <1>7
  <2>2. 0 \in T
    BY <1>1, <2>1, WholeNothing
  <2>3. ASSUME NEW i \in 1..n, i - 1 \in T PROVE i \in T
    <3>1. i \in 0..n /\ i # 0 /\ Whole(R[i - 1]) /\ Whole(ss[i]) /\ Whole(<<"op">>)
      <4>1. Whole(<<"op">>)
        BY WholeWord, OwnWords
      <4>2. i \in 0..n /\ i # 0 /\ i - 1 \in 0..n
        BY <1>1
      <4> QED
        BY <2>3, <4>1, <4>2
    <3>2. CASE i = 1
      <4>1. R[i] = ss[1]
        BY <1>7, <3>1, <3>2
      <4> QED
        BY <3>1, <3>2, <4>1
    <3>3. CASE i # 1
      <4>1. R[i] = R[i - 1] \o <<"op">> \o ss[i]
        BY <1>7, <3>1, <3>3
      <4>2. Whole((R[i - 1] \o <<"op">>) \o ss[i])
        BY <3>1, WholeConcat
      <4> QED
        BY <3>1, <4>1, <4>2
    <3> QED
      BY <3>2, <3>3
  <2> QED
    BY <2>2, <2>3
<1> HIDE DEF R
<1>10. n \in T
  <2> HIDE DEF T, n
  <2>1. 0..n \subseteq T
    BY <1>1, <1>9, Counting
  <2> QED
    BY <1>1, <2>1
<1> QED
  BY <1>8, <1>10

\* The operands of a node, emitted.
Operands(n) == [i \in DOMAIN n.parts |-> EmitExpr[n.parts[i]]]
LEMMA OperandsWhole ==
  ASSUME NEW n \in Conditions \union Actions, \A i \in DOMAIN n.parts : Whole(EmitExpr[n.parts[i]])
  PROVE  /\ Operands(n) \in Seq(Seq(STRING))
         /\ \A i \in 1..Len(Operands(n)) : Whole(Operands(n)[i])
<1> DEFINE m == Len(n.parts)
<1>1. n.parts \in Seq(Conditions) /\ m \in Nat /\ DOMAIN n.parts = 1..m
  BY NodeFacts
<1>2. \A i \in 1..m : Whole(EmitExpr[n.parts[i]]) /\ EmitExpr[n.parts[i]] \in Seq(STRING)
  BY <1>1 DEF Whole
<1> HIDE DEF m
<1>3. Operands(n) = [i \in 1..m |-> EmitExpr[n.parts[i]]]
  BY <1>1 DEF Operands
<1>4. [i \in 1..m |-> EmitExpr[n.parts[i]]] \in [1..m -> Seq(STRING)]
  BY <1>2
<1>5. Operands(n) \in Seq(Seq(STRING)) /\ Len(Operands(n)) = m
  <2> DEFINE f == [i \in 1..m |-> EmitExpr[n.parts[i]]]
  <2>1. f \in [1..m -> Seq(STRING)]
    BY <1>4
  <2> HIDE DEF f
  <2>2. f \in Seq(Seq(STRING)) /\ Len(f) = m
    BY <1>1, <2>1, LenProperties, SeqDef
  <2> QED
    BY <1>3, <2>2 DEF f
<1> QED
  BY <1>2, <1>3, <1>5

LEMMA NodeWhole ==
  ASSUME NEW n \in Conditions, \A i \in DOMAIN n.parts : Whole(EmitExpr[n.parts[i]])
  PROVE  Whole(EmitExpr[n])
<1>1. EmitExpr[n] = EmitNode(n, Operands(n))
  BY EmitUnfolds DEF EmitBody, Operands
<1>2. n.kind \in ConditionKinds /\ Plain(n.word) /\ n.text \in Seq(STRING) /\ Escaped(n.text)
  BY NodeFacts DEF Plain, WordsAreNames
<1>3. Whole(Joined(Operands(n)))
  BY OperandsWhole, WholeJoined
<1>4. Whole(Quoted(n.text))
  BY <1>2, WholeQuoted
<1> DEFINE joined == Joined(Operands(n))
<1>5. CASE n.kind = "string"
  BY <1>1, <1>4, <1>5 DEF EmitNode
<1>6. CASE n.kind \in {"literal", "field_ref"}
  <2>1. EmitExpr[n] = <<n.word>>
    BY <1>1, <1>6 DEF EmitNode
  <2> QED
    BY <1>2, <2>1, WholeWord
<1>7. CASE n.kind = "has_field"
  <2>1. EmitExpr[n] = (<<"has_field", "(">> \o Quoted(n.text)) \o <<")">>
    BY <1>1, <1>7 DEF EmitNode, Call
  <2>2. Plain("has_field")
    BY OwnWords DEF OwnCalls
  <2> QED
    BY <1>4, <2>1, <2>2, WholeCall
<1>8. CASE n.kind = "function_call"
  <2>1. EmitExpr[n] = (<<n.word, "(">> \o joined) \o <<")">>
    BY <1>1, <1>8 DEF EmitNode, Call
  <2> QED
    BY <1>2, <1>3, <2>1, WholeCall
<1>9. CASE n.kind = "comparison"
  BY <1>1, <1>3, <1>9 DEF EmitNode
<1>10. CASE n.kind \in {"and", "or"}
  <2>1. EmitExpr[n] = (<<"(">> \o joined) \o <<")">>
    BY <1>1, <1>10 DEF EmitNode
  <2> QED
    BY <1>3, <2>1, WholeParens
<1>11. CASE n.kind = "not"
  <2>1. EmitExpr[n] = (<<"op", "(">> \o joined) \o <<")">>
    BY <1>1, <1>11 DEF EmitNode, Negated
  <2>2. Plain("op")
    BY OwnWords
  <2> QED
    BY <1>3, <2>1, <2>2, WholeCall
<1> QED
  BY <1>2, <1>5, <1>6, <1>7, <1>8, <1>9, <1>10, <1>11 DEF ConditionKinds

\* Every condition is emitted whole.
LEMMA ConditionsWhole == \A n \in Conditions : Whole(EmitExpr[n])
<1> DEFINE T == {n \in Conditions : ~Whole(EmitExpr[n])}
<1> SUFFICES ASSUME T # {} PROVE FALSE
  OBVIOUS
<1>1. PICK n \in T : \A i \in DOMAIN n.parts : n.parts[i] \notin T
  <2>1. T \in SUBSET Conditions
    OBVIOUS
  <2> HIDE DEF T
  <2> QED
    BY <2>1, LowestCondition
<1>2. \A i \in DOMAIN n.parts : Whole(EmitExpr[n.parts[i]])
  BY <1>1, NodeFacts
<1>3. n \in Conditions /\ ~Whole(EmitExpr[n])
  BY <1>1
<1> QED
  BY <1>2, <1>3, NodeWhole

LEMMA WholePair ==
  ASSUME NEW a, NEW b, Whole(a), Whole(b) PROVE Whole(Joined(<<a, b>>))
<1>1. a \in Seq(STRING) /\ b \in Seq(STRING)
  BY DEF Whole
<1>2. <<a, b>> \in Seq(Seq(STRING)) /\ Len(<<a, b>>) = 2 /\ <<a, b>>[1] = a /\ <<a, b>>[2] = b
  BY <1>1
<1>3. \A i \in 1..2 : i = 1 \/ i = 2
  OBVIOUS
<1>4. \A i \in 1..Len(<<a, b>>) : Whole(<<a, b>>[i])
  BY <1>2, <1>3
<1> QED
  BY <1>2, <1>4, WholeJoined

LEMMA WholeFirst ==
  ASSUME NEW a, Whole(a), NEW ss \in Seq(Seq(STRING)), \A i \in 1..Len(ss) : Whole(ss[i])
  PROVE  Whole(Joined(<<a>> \o ss))
<1> DEFINE V == Seq(STRING)
           m == Len(ss)
           all == <<a>> \o ss
<1>1. a \in V /\ ss \in Seq(V) /\ m \in Nat
  BY DEF Whole
<1>2. <<a>> \in Seq(V) /\ Len(<<a>>) = 1 /\ <<a>>[1] = a
  <2> HIDE DEF V
  <2> QED
    BY <1>1, OneWord
<1>3. all \in Seq(V) /\ Len(all) = 1 + m /\ \A i \in 1..(1 + m) : all[i] = IF i <= 1 THEN a ELSE ss[i - 1]
  <2>1. /\ all \in Seq(V) /\ Len(all) = Len(<<a>>) + Len(ss)
        /\ \A i \in 1..(Len(<<a>>) + Len(ss)) : all[i] = IF i <= Len(<<a>>) THEN <<a>>[i] ELSE ss[i - Len(<<a>>)]
    BY <1>1, <1>2, ConcatProperties
  <2>2. \A i \in 1..(1 + m) : i <= 1 => i = 1
    OBVIOUS
  <2> HIDE DEF all, V
  <2> QED
    BY <1>2, <2>1, <2>2
<1> HIDE DEF all
<1>4. ASSUME NEW i \in 1..(1 + m) PROVE Whole(all[i])
  <2>1. CASE i <= 1
    BY <1>3, <2>1
  <2>2. CASE ~(i <= 1)
    <3>1. i - 1 \in 1..m
      BY <1>1, <2>2
    <3> QED
      BY <1>3, <2>2, <3>1
  <2> QED
    BY <2>1, <2>2
<1>5. Whole(Joined(all))
  BY <1>3, <1>4, WholeJoined
<1> QED
  BY <1>5 DEF all

LEMMA ActionsWhole ==
  ASSUME NEW a \in Actions PROVE Whole(EmitAction(a))
<1> DEFINE field == Quoted(a.text)
           args == Operands(a)
<1>1. a.kind \in ActionKinds /\ Plain(a.word) /\ a.word \in STRING /\ a.text \in Seq(STRING) /\ Escaped(a.text)
      /\ \A i \in DOMAIN a.parts : a.parts[i] \in Conditions
  BY NodeFacts DEF Plain, WordsAreNames
<1>2. args \in Seq(Seq(STRING)) /\ \A i \in 1..Len(args) : Whole(args[i])
  BY <1>1, ConditionsWhole, OperandsWhole
<1>3. Whole(field)
  BY <1>1, WholeQuoted
<1>4. Whole(Joined(args))
  <2> HIDE DEF args
  <2> QED
    BY <1>2, WholeJoined
<1>5. /\ Plain("set_field") /\ Plain("remove_field") /\ Plain("rename_field") /\ Plain("lookup_value")
      /\ Plain("let") /\ Plain("op")
  BY OwnWords DEF OwnCalls, Keywords
<1>6. CASE a.kind = "set_field"
  <2>1. EmitAction(a) = (<<"set_field", "(">> \o Joined(<<field>> \o args)) \o <<")">>
    BY <1>6 DEF EmitAction, Operands, Call
  <2> HIDE DEF field, args
  <2>2. Whole(Joined(<<field>> \o args))
    BY <1>2, <1>3, WholeFirst
  <2> QED
    BY <1>5, <2>1, <2>2, WholeCall
<1>7. CASE a.kind = "remove_field"
  <2>1. EmitAction(a) = (<<"remove_field", "(">> \o field) \o <<")">>
    BY <1>7 DEF EmitAction, Call
  <2> QED
    BY <1>3, <1>5, <2>1, WholeCall
<1>8. CASE a.kind = "rename_field"
  <2>1. EmitAction(a) = (<<"rename_field", "(">> \o Joined(<<field, <<Quote, a.word, Quote>>>>)) \o <<")">>
    BY <1>8 DEF EmitAction, Call
  <2>2. Whole(<<Quote, a.word, Quote>>)
    <3>1. <<a.word>> \in Seq(STRING)
      BY <1>1, OneWord
    <3>2. WordsAreNames => Escaped(<<a.word>>)
      BY <1>1 DEF Escaped, Plain
    <3>3. Whole((<<Quote>> \o <<a.word>>) \o <<Quote>>)
      BY <3>1, <3>2, WholeQuoted DEF Quoted
    <3>4. (<<Quote>> \o <<a.word>>) \o <<Quote>> = <<Quote, a.word, Quote>>
      BY ThreeWords
    <3> QED
      BY <3>3, <3>4
  <2> HIDE DEF field
  <2>3. Whole(Joined(<<field, <<Quote, a.word, Quote>>>>))
    BY <1>3, <2>2, WholePair
  <2> QED
    BY <1>5, <2>1, <2>3, WholeCall
<1>9. CASE a.kind = "lookup_value"
  <2> DEFINE call == (<<"lookup_value", "(">> \o Joined(args)) \o <<")">>
  <2>1. EmitAction(a) = (<<"set_field", "(">> \o Joined(<<field, call>>)) \o <<")">>
    BY <1>9 DEF EmitAction, Operands, Call
  <2>2. Whole(call)
    BY <1>4, <1>5, WholeCall
  <2> HIDE DEF field, call
  <2>3. Whole(Joined(<<field, call>>))
    BY <1>3, <2>2, WholePair
  <2> QED
    BY <1>5, <2>1, <2>3, WholeCall
<1>10. CASE a.kind = "function_call_statement"
  <2>1. EmitAction(a) = (<<a.word, "(">> \o Joined(args)) \o <<")">>
    BY <1>10 DEF EmitAction, Operands, Call
  <2> QED
    BY <1>1, <1>4, <2>1, WholeCall
<1>11. CASE a.kind = "let_assignment"
  <2>1. EmitAction(a) = <<"let", a.word, "op">> \o Joined(args)
    BY <1>11 DEF EmitAction, Operands
  <2>2. <<"let", a.word, "op">> = (<<"let">> \o <<a.word>>) \o <<"op">>
    BY ThreeWords
  <2>3. Whole((<<"let">> \o <<a.word>>) \o <<"op">>)
    BY <1>1, <1>5, WholeWord, WholeConcat
  <2> QED
    BY <1>4, <2>1, <2>2, <2>3, WholeConcat
<1> QED
  BY <1>1, <1>6, <1>7, <1>8, <1>9, <1>10, <1>11 DEF ActionKinds

\* The loop over the actions.
LEMMA RulesWhole ==
  ASSUME NEW spec \in RuleSpecs PROVE Whole(EmitRule(spec))
<1> DEFINE as == spec.then
           n == Len(as)
           V == Seq(STRING)
           Add(i, s) == s \o EmitAction(as[i]) \o <<"op">>
           Is(f) == f = [i \in 0..n |-> IF i = 0 THEN <<>> ELSE f[i - 1] \o EmitAction(as[i]) \o <<"op">>]
           R == CHOOSE f : Is(f)
           F == [i \in 1..n |-> [s \in V |-> Add(i, s)]]
<1>1. spec.title \in RuleTitles /\ spec.when \in Conditions /\ as \in Seq(Actions)
  BY RuleSourcesAssumption DEF RuleSpec
<1>2. n \in Nat /\ \A i \in 1..n : as[i] \in Actions
  BY <1>1
<1>3. Whole(<<"op">>) /\ <<"op">> \in V
  BY WholeWord, OwnWords DEF Whole
<1> HIDE DEF as, n
<1>4. \A i \in 1..n : Whole(EmitAction(as[i])) /\ EmitAction(as[i]) \in V
  BY <1>2, ActionsWhole DEF Whole
<1>5. F \in [1..n -> [V -> V]]
  <2>1. \A i \in 1..n, s \in V : Add(i, s) \in V
    <3> SUFFICES ASSUME NEW i \in 1..n, NEW s \in V PROVE Add(i, s) \in V
      OBVIOUS
    <3> DEFINE e == EmitAction(as[i])
    <3>1. e \in V
      BY <1>4
    <3> HIDE DEF e
    <3>2. s \o e \in V
      BY <3>1
    <3>3. (s \o e) \o <<"op">> \in V
      BY <1>3, <3>2
    <3> QED
      BY <3>3 DEF e
  <2> HIDE DEF Add, V
  <2> QED
    BY <2>1
<1>6. PICK g \in [0..n -> V] : g[0] = <<>> /\ \A i \in 1..n : g[i] = F[i][g[i - 1]]
  <2>1. <<>> \in V
    OBVIOUS
  <2> HIDE DEF F, V
  <2>2. PICK g : Iterates(g, n, V, <<>>, F)
    BY <1>2, <1>5, <2>1, Iteration
  <2> QED
    BY <2>2 DEF Iterates
<1>7. \A i \in 1..n : g[i] = Add(i, g[i - 1])
  <2> HIDE DEF V, Add
  <2>1. \A i \in 1..n : g[i - 1] \in V
    BY <1>2
  <2> QED
    BY <1>6, <2>1
<1>8. Is(g)
  <2> HIDE DEF V
  <2>1. \A i \in 0..n : g[i] = IF i = 0 THEN <<>> ELSE g[i - 1] \o EmitAction(as[i]) \o <<"op">>
    <3> SUFFICES ASSUME NEW i \in 0..n
                 PROVE  g[i] = IF i = 0 THEN <<>> ELSE g[i - 1] \o EmitAction(as[i]) \o <<"op">>
      OBVIOUS
    <3>1. CASE i = 0
      BY <1>6, <3>1
    <3>2. CASE i # 0
      <4>1. i \in 1..n
        BY <1>2, <3>2
      <4>2. g[i] = Add(i, g[i - 1])
        BY <1>7, <4>1
      <4> QED
        BY <3>2, <4>2
    <3> QED
      BY <3>1, <3>2
  <2>2. g = [i \in 0..n |-> g[i]]
    OBVIOUS
  <2> QED
    BY <2>1, <2>2
<1>9. Is(R)
  <2> HIDE DEF Is
  <2> QED
    BY <1>8
<1>10. EmitRule(spec) = (((((<<"rule">> \o Quoted(TitleTokens[spec.title])) \o <<"when">>) \o EmitExpr[spec.when])
                           \o <<"then">>) \o R[n]) \o <<"end">>
  BY DEF EmitRule, as, n
<1> DEFINE T == {i \in 0..n : Whole(R[i])}
<1>11. 0 \in T /\ \A i \in 1..n : i - 1 \in T => i \in T
  <2> HIDE DEF R
  <2>1. 0 \in T
    BY <1>2, <1>9, WholeNothing
  <2>2. ASSUME NEW i \in 1..n, i - 1 \in T PROVE i \in T
    <3>1. i \in 0..n /\ i # 0 /\ Whole(R[i - 1])
      BY <1>2, <2>2
    <3>2. R[i] = (R[i - 1] \o EmitAction(as[i])) \o <<"op">>
      BY <1>9, <3>1
    <3>3. Whole((R[i - 1] \o EmitAction(as[i])) \o <<"op">>)
      BY <1>3, <1>4, <3>1, WholeConcat
    <3> QED
      BY <3>1, <3>2, <3>3
  <2> QED
    BY <2>1, <2>2
<1> HIDE DEF R
<1>12. Whole(R[n])
  <2>1. 0..n \subseteq T
    <3> HIDE DEF T
    <3> QED
      BY <1>2, <1>11, Counting
  <2> QED
    BY <1>2, <2>1
<1>13. Whole(<<"rule">>) /\ Whole(<<"when">>) /\ Whole(<<"then">>) /\ Whole(<<"end">>)
  BY WholeWord, OwnWords DEF Keywords
<1>14. Whole(Quoted(TitleTokens[spec.title])) /\ Whole(EmitExpr[spec.when])
  BY <1>1, TextsAssumption, WholeQuoted, ConditionsWhole
<1> QED
  BY <1>10, <1>12, <1>13, <1>14, WholeConcat

LEMMA TokensTyped == AllTokens \subseteq Seq(STRING)
<1>1. \A s \in RuleSpecs : Emitted[s] \in Seq(STRING)
  BY RulesWhole DEF Emitted, Whole
<1>2. \A src \in RawSources : src.tokens \in Seq(STRING)
  BY RuleSourcesAssumption DEF RawSource
<1> QED
  BY <1>1, <1>2 DEF AllTokens

\* What is emitted closes every parenthesis that it opens.
LEMMA WholePasses ==
  ASSUME NEW ts, Whole(ts), WordsAreNames PROVE ~ParenImbalance(ts)
<1> DEFINE n == Len(ts)
<1>1. ts \in Seq(STRING) /\ n \in Nat /\ 0 \in Nat
  BY DEF Whole
<1>2. PICK g : Scans(g, ts)
  BY <1>1, ScanUnfolds
<1>3. g[0] = At(0) /\ ParenScan(ts) = g[n] /\ \A i \in 1..n : g[i] = ScanStep(g[i - 1], ts[i])
  BY <1>2 DEF Scans, ScanStart, At
<1>4. PICK h \in [0..n -> ScanState] :
        h[0] = At(0) /\ h[n] = At(0) /\ \A i \in 1..n : h[i] = ScanStep(h[i - 1], ts[i])
  BY <1>1 DEF Whole, Runs
<1> DEFINE T == {i \in 0..n : g[i] = h[i]}
<1> HIDE DEF n
<1>5. 0 \in T
  BY <1>1, <1>3, <1>4
<1>6. ASSUME NEW i \in 1..n, i - 1 \in T PROVE i \in T
  <2>1. i \in 0..n
    BY <1>1
  <2> QED
    BY <1>3, <1>4, <1>6, <2>1
<1>7. n \in T
  <2> HIDE DEF T
  <2>1. 0..n \subseteq T
    BY <1>1, <1>5, <1>6, Counting
  <2> QED
    BY <1>1, <2>1
<1>8. ParenScan(ts) = At(0)
  BY <1>3, <1>4, <1>7
<1> QED
  BY <1>8 DEF ParenImbalance, At

-----------------------------------------------------------------------------
(* Pipelines and rules: types *)

RuleCalls == CallsTypeOK(RuleLabels, Request(RuleTools, RuleToken), Walked, RuleToken)
RuleWorldTypes ==
  /\ rules \in [RuleIds -> RuleTitles \union {NoRule}]
  /\ pipelines \in [PipelineIds -> (SUBSET RuleTitles) \union {NoPipeline}]
  /\ functions \in SUBSET Functions
  /\ catalogue \in (SUBSET Functions) \union {NotFetched}
  /\ ruleDrift \in [Slots -> SUBSET {"users", "moved"}]
  /\ ruleEdits \in 0..MaxRuleEdits
RuleArmed(c) == pc[c] \in {"walk", "rewalk", "delete_rule"} => got[c] \in Walked

LEMMA RuleTypeParts ==
  /\ RuleTypeOK <=> RuleCalls /\ RuleWorldTypes /\ \A c \in Slots : RuleArmed(c)
  /\ RuleTypeOK' <=> RuleCalls' /\ RuleWorldTypes' /\ \A c \in Slots : RuleArmed(c)'
  BY DEF RuleTypeOK, RuleCalls, RuleWorldTypes, RuleArmed

LEMMA RuleReqFacts ==
  ASSUME RuleCalls, NEW c \in Slots, pc[c] \in RuleLabels
  PROVE  /\ pc[c] \notin Ended
         /\ req[c] \in Request(RuleTools, RuleToken) /\ req[c].op \in RuleTools /\ req[c].op \in RuleOp
         /\ req[c].op.rule \in RuleIds /\ req[c].confirm \in SUBSET RuleToken
<1>1. pc[c] \notin Ended
  BY DEF RuleLabels, Ended
<1>2. req[c] \in Request(RuleTools, RuleToken)
  BY <1>1 DEF RuleCalls, CallsTypeOK
<1>3. req[c].op \in RuleTools /\ req[c].confirm \in SUBSET RuleToken
  BY <1>2 DEF Request
<1>4. req[c].op \in RuleOp
  BY <1>3, RuleToolsAssumption
<1>5. req[c].op.rule \in RuleIds
  BY <1>4 DEF RuleOp
<1> QED
  BY <1>1, <1>2, <1>3, <1>4, <1>5

\* The sources of a call.
LEMMA SourceFacts ==
  ASSUME NEW op \in RuleTools
  PROVE  /\ \A src \in SourceOf(op) : src.title \in RuleTitles /\ src.tokens \in AllTokens
         /\ \A s1, s2 \in SourceOf(op) : s1 = s2
<1>1. /\ op.structured \subseteq RuleSpecs /\ op.raw \subseteq RawSources
      /\ AtMostOne(op.structured) /\ AtMostOne(op.raw) /\ (op.structured = {} \/ op.raw = {})
  BY RuleToolsAssumption DEF RuleOp
<1>2. ASSUME NEW s \in op.structured
      PROVE  [title |-> s.title, tokens |-> Emitted[s]].title \in RuleTitles
             /\ [title |-> s.title, tokens |-> Emitted[s]].tokens \in AllTokens
  <2>1. s \in RuleSpecs /\ s.title \in RuleTitles
    BY <1>1, RuleSourcesAssumption DEF RuleSpec
  <2>2. Emitted[s] \in AllTokens
    BY <2>1 DEF AllTokens
  <2> QED
    BY <2>1, <2>2
<1>3. ASSUME NEW src \in op.raw PROVE src.title \in RuleTitles /\ src.tokens \in AllTokens
  BY <1>1, RuleSourcesAssumption DEF RawSource, AllTokens
<1>4. \A src \in SourceOf(op) :
        src \in op.raw \/ \E s \in op.structured : src = [title |-> s.title, tokens |-> Emitted[s]]
  BY DEF SourceOf
<1>5. \A s1, s2 \in SourceOf(op) : s1 = s2
  BY <1>1, <1>4 DEF AtMostOne
<1> QED
  BY <1>2, <1>3, <1>4, <1>5

LEMMA MergedCatalogueType ==
  ASSUME RuleWorldTypes PROVE Merged \in SUBSET Functions /\ Merged # NotFetched
<1>1. StaticBuiltins \union functions \in SUBSET Functions
  BY DEF RuleWorldTypes, Functions
<1>2. Merged \in SUBSET Functions
  BY <1>1 DEF RuleWorldTypes, Merged
<1> QED
  BY <1>2, RuleNothingsAssumption

LEMMA RuleDriftType ==
  ASSUME ruleDrift \in [Slots -> SUBSET {"users", "moved"}], NEW rs, NEW ps, NEW c \in Slots
  PROVE  /\ RulesDrift(rs, ps) \in [Slots -> SUBSET {"users", "moved"}]
         /\ Settled(c, ruleDrift) \in [Slots -> SUBSET {"users", "moved"}]
         /\ Settled(c, RulesDrift(rs, ps)) \in [Slots -> SUBSET {"users", "moved"}]
<1>1. RulesDrift(rs, ps) \in [Slots -> SUBSET {"users", "moved"}]
  BY DEF RulesDrift, Flag
<1> QED
  BY <1>1 DEF Settled

-----------------------------------------------------------------------------
(* Pipelines and rules: the invariant *)

RuleWriters == {"create_pipeline_rule", "update_pipeline_rule"}
\* The sources of a call pass the grammar and the catalogue.
SourcesPass(c) ==
  /\ catalogue # NotFetched
  /\ \A src \in SourceOf(req[c].op) : src.tokens \in WellNested /\ CallsOf[src.tokens] \subseteq catalogue
\* r comes after the first n rules that the server lists, if at all.
RuleBeyond(r, n) == \A k \in DOMAIN Listing : Listing[k] = r => k > n
\* The second walk has not met the rule on the pages before.
RuleAhead(c) ==
  /\ ~got[c].met
  /\ "moved" \notin ruleDrift[c] =>
       rules[req[c].op.rule] # NoRule /\ RuleBeyond(req[c].op.rule, (got[c].page - 1) * PerPage)
\* A preview has shown the pipelines that use the rule, but for what has changed since.
RuleCovered(c) ==
  \E t \in shown :
    /\ t.rule = req[c].op.rule
    /\ \/ t.pipelines = Users(req[c].op.rule)
       \/ "users" \in ruleDrift[c]
       \/ /\ ~got[c].met /\ t.pipelines = {}
          /\ "moved" \in ruleDrift[c] \/ Len(Listing) > PerPage * MaxPages
\* What is known of a call by the request it is at.
RuleCallOk(c) ==
  /\ RuleArmed(c)
  /\ pc[c] = "lint" => req[c].op.tool \in RuleWriters /\ HasSource(req[c].op)
  /\ pc[c] = "parse_rule" =>
       /\ req[c].op.tool \in RuleWriters \union {"simulate_pipeline_rule"}
       /\ req[c].op.tool \in RuleWriters => SourcesPass(c)
  /\ pc[c] = "rewalk" => RuleAhead(c)
  /\ pc[c] = "delete_rule" => RuleCovered(c)

RuleInv == RuleTypeOK /\ Echoed /\ \A c \in Slots : RuleCallOk(c)

LEMMA RuleInvFacts ==
  ASSUME RuleInv
  PROVE  RuleTypeOK /\ RuleCalls /\ RuleWorldTypes /\ CallShape /\ Echoed /\ \A c \in Slots : RuleCallOk(c)
  BY RuleTypeParts, TypedShape DEF RuleInv, RuleCalls

LEMMA RuleInvInit == RuleInit => RuleInv
<1> SUFFICES ASSUME RuleInit PROVE RuleInv
  OBVIOUS
<1>1. \A c \in Slots : pc[c] = "idle"
  BY DEF RuleInit, CallsInit
<1>2. RuleCalls
  BY DEF RuleInit, CallsInit, RuleCalls, CallsTypeOK, Ended
<1>3. RuleWorldTypes
  <2>1. PICK s \in RuleStart : rules = s.rules /\ pipelines = s.pipelines /\ functions = s.functions
    BY RuleStartsAssumption DEF RuleInit, RuleWorldInit
  <2> QED
    BY <2>1, RuleBoundsAssumption DEF RuleInit, RuleWorldInit, RuleStart, RuleWorldTypes
<1>4. Echoed /\ \A c \in Slots : RuleCallOk(c)
  BY <1>1 DEF Echoed, Ended, RuleCallOk, RuleArmed
<1> QED
  BY <1>2, <1>3, <1>4, RuleTypeParts DEF RuleInv, RuleCallOk

\* The rules that the server lists.
Existing == {r \in RuleIds : rules[r] # NoRule}
LEMMA ListingFacts ==
  Lists(Listing, RuleIds, Existing)
<1>1. RuleIds = Ids(RuleOrder)
  BY DEF RuleIds, Ids
<1>2. Lists(InOrder(RuleOrder, Existing), Ids(RuleOrder), Existing)
  BY InOrderLists, RuleOrderAssumption
<1> QED
  BY <1>1, <1>2 DEF Listing, Existing

\* What a step must do to the server for a call d that stands still.
RuleWorldKept(d) ==
  /\ catalogue' = catalogue \/ catalogue = NotFetched
  /\ \/ rules' = rules /\ pipelines' = pipelines /\ ruleDrift'[d] = ruleDrift[d]
     \/ ruleDrift'[d] = RulesDrift(rules', pipelines')[d]
LEMMA RuleStandingCall ==
  ASSUME RuleInv, NEW d \in Slots, pc'[d] = pc[d], req'[d] = req[d], got'[d] = got[d],
         shown \subseteq shown', RuleWorldKept(d)
  PROVE  RuleCallOk(d)'
<1>0. RuleCallOk(d)
  BY RuleInvFacts
<1>1. RuleArmed(d)'
  BY <1>0 DEF RuleCallOk, RuleArmed
<1>2. SourcesPass(d) => SourcesPass(d)'
  BY DEF SourcesPass, RuleWorldKept
<1>3. ASSUME pc[d] \in {"rewalk", "delete_rule"}
      PROVE  ruleDrift[d] \subseteq ruleDrift'[d] /\ ("moved" \notin ruleDrift'[d] => Listing' = Listing
                /\ \A r \in RuleIds : rules[r] # NoRule => rules'[r] # NoRule)
  <2>1. CASE rules' = rules /\ ruleDrift'[d] = ruleDrift[d]
    <3>1. Listing' = Listing
      BY <2>1 DEF Listing
    <3> QED
      BY <2>1, <3>1
  <2>2. CASE ruleDrift'[d] = RulesDrift(rules', pipelines')[d]
    <3>1. ruleDrift'[d] = ruleDrift[d]
            \union Flag(pc[d] = "delete_rule" /\ UsersIn(rules', pipelines', req[d].op.rule) # Users(req[d].op.rule), "users")
            \union Flag(/\ pc[d] \in {"rewalk", "delete_rule"}
                        /\ \E r \in RuleIds : (rules'[r] = NoRule) # (rules[r] = NoRule), "moved")
      BY <2>2 DEF RulesDrift
    <3>2. ASSUME "moved" \notin ruleDrift'[d]
          PROVE  \A r \in RuleIds : rules'[r] = NoRule <=> rules[r] = NoRule
      BY <1>3, <3>1, <3>2 DEF Flag
    <3>3. ASSUME "moved" \notin ruleDrift'[d] PROVE Listing' = Listing
      <4>1. {r \in RuleIds : rules'[r] # NoRule} = {r \in RuleIds : rules[r] # NoRule}
        BY <3>2, <3>3
      <4> QED
        BY <4>1 DEF Listing
    <3> QED
      BY <3>1, <3>2, <3>3
  <2> QED
    BY <2>1, <2>2 DEF RuleWorldKept
<1>4. ASSUME pc[d] = "rewalk" PROVE RuleAhead(d)'
  <2>0. RuleAhead(d) /\ got[d] \in Walked
    BY <1>0, <1>4 DEF RuleCallOk, RuleArmed
  <2>1. ~got'[d].met
    BY <2>0 DEF RuleAhead
  <2>2. ASSUME "moved" \notin ruleDrift'[d]
        PROVE  rules'[req[d].op.rule] # NoRule
               /\ \A k \in DOMAIN Listing' : Listing'[k] = req[d].op.rule => k > (got[d].page - 1) * PerPage
    <3>1. req[d].op.rule \in RuleIds
      BY <1>4, RuleInvFacts, RuleReqFacts DEF RuleLabels
    <3> QED
      BY <1>3, <1>4, <2>0, <2>2, <3>1 DEF RuleAhead, RuleBeyond
  <2> QED
    BY <2>1, <2>2 DEF RuleAhead, RuleBeyond
<1>5. ASSUME pc[d] = "delete_rule" PROVE RuleCovered(d)'
  <2>1. PICK t \in shown :
          /\ t.rule = req[d].op.rule
          /\ \/ t.pipelines = Users(req[d].op.rule)
             \/ "users" \in ruleDrift[d]
             \/ /\ ~got[d].met /\ t.pipelines = {}
                /\ "moved" \in ruleDrift[d] \/ Len(Listing) > PerPage * MaxPages
    BY <1>0, <1>5 DEF RuleCallOk, RuleCovered
  <2>2. ruleDrift[d] \subseteq ruleDrift'[d] /\ ("moved" \notin ruleDrift'[d] => Listing' = Listing)
    BY <1>3, <1>5
  <2>3. "users" \notin ruleDrift'[d] => Users(req[d].op.rule)' = Users(req[d].op.rule)
    <3>0. Users(req[d].op.rule)' = UsersIn(rules', pipelines', req[d].op.rule)
      BY DEF Users
    <3>1. CASE rules' = rules /\ pipelines' = pipelines
      BY <3>0, <3>1 DEF Users
    <3>2. CASE ruleDrift'[d] = RulesDrift(rules', pipelines')[d]
      <4>1. Flag(pc[d] = "delete_rule" /\ UsersIn(rules', pipelines', req[d].op.rule) # Users(req[d].op.rule), "users")
              \subseteq ruleDrift'[d]
        BY <3>2 DEF RulesDrift
      <4> QED
        BY <1>5, <3>0, <4>1 DEF Flag
    <3> QED
      BY <3>1, <3>2 DEF RuleWorldKept
  <2>4. t \in shown' /\ t.rule = req'[d].op.rule
    BY <2>1
  <2>5. \/ t.pipelines = Users(req[d].op.rule)'
        \/ "users" \in ruleDrift'[d]
        \/ /\ ~got'[d].met /\ t.pipelines = {}
           /\ "moved" \in ruleDrift'[d] \/ Len(Listing') > PerPage * MaxPages
    BY <2>1, <2>2, <2>3
  <2> QED
    BY <2>4, <2>5 DEF RuleCovered
<1> QED
  BY <1>0, <1>1, <1>2, <1>4, <1>5 DEF RuleCallOk

\* A step of call c.
LEMMA RuleCallStep ==
  ASSUME RuleInv, NEW c \in Slots, OthersStand(c), shown \subseteq shown',
         RuleCalls', Echoed', RuleWorldTypes', RuleCallOk(c)',
         \A d \in Slots \ {c} : RuleWorldKept(d)
  PROVE  RuleInv'
<1>1. \A d \in Slots \ {c} : RuleCallOk(d)'
  BY RuleStandingCall DEF OthersStand
<1> QED
  BY <1>1, RuleTypeParts DEF RuleInv, RuleCallOk

\* A step of the server or of another user.
LEMMA RuleWorldStep ==
  ASSUME RuleInv, UNCHANGED callVars, RuleWorldTypes', \A d \in Slots : RuleWorldKept(d)
  PROVE  RuleInv'
<1>1. \A d \in Slots : RuleCallOk(d)'
  BY RuleStandingCall DEF callVars
<1>2. RuleCalls' /\ Echoed'
  BY RuleInvFacts, EchoedUnmoved DEF RuleCalls, CallsTypeOK, callVars
<1> QED
  BY <1>1, <1>2, RuleTypeParts DEF RuleInv, RuleCallOk

-----------------------------------------------------------------------------
(* Pipelines and rules: reads *)

RulePlain == {"get_rule", "list_rules", "post_rule", "put_rule", "simulate", "reget_rule",
              "parse_pipeline", "list_pipelines", "post_pipeline", "get_pipeline", "put_pipeline",
              "build_delete", "delete_pipeline"}
LEMMA RulePlainOk ==
  ASSUME NEW c \in Slots, pc'[c] \in RulePlain \union Ended PROVE RuleCallOk(c)'
  BY DEF RulePlain, Ended, RuleCallOk, RuleArmed

\* The call moves on, and nothing else.
LEMMA RuleQuietStep ==
  ASSUME RuleInv, NEW c \in Slots, OthersStand(c), shown \subseteq shown', RulesUnchanged,
         RuleCalls', Echoed', RuleCallOk(c)'
  PROVE  RuleInv'
<1>1. RuleWorldTypes'
  BY RuleInvFacts DEF RuleWorldTypes, RulesUnchanged, ruleWorld
<1>2. \A d \in Slots : RuleWorldKept(d)
  BY DEF RuleWorldKept, RulesUnchanged, ruleWorld
<1> QED
  BY <1>1, <1>2, RuleCallStep

LEMMA RuleFinishFacts ==
  ASSUME RuleInv, NEW c \in Slots, NEW how \in Ended, Finish(c, how)
  PROVE  /\ RuleCalls' /\ Echoed' /\ OthersStand(c) /\ shown' = shown
         /\ RuleCallOk(c)' /\ pc'[c] = how
<1>0. RuleCalls /\ CallShape /\ Echoed
  BY RuleInvFacts
<1>1. RuleCalls'
  BY <1>0, FinishType DEF RuleCalls
<1>2. OthersStand(c) /\ pc'[c] = how /\ shown' = shown
  BY <1>0, FinishMoves
<1> QED
  BY <1>0, <1>1, <1>2, EchoedKept, RulePlainOk

LEMMA RuleFinishKeeps ==
  ASSUME RuleInv, NEW c \in Slots, NEW how \in Ended, Finish(c, how), RulesUnchanged
  PROVE  RuleInv'
  BY RuleFinishFacts, RuleQuietStep

\* The call ends, and what it has read drifts no more.
LEMMA RuleReturnsKeeps ==
  ASSUME RuleInv, NEW c \in Slots, NEW how \in Ended, RuleReturns(c, how)
  PROVE  RuleInv'
<1>1. RuleCalls' /\ Echoed' /\ OthersStand(c) /\ shown' = shown /\ RuleCallOk(c)'
  BY RuleFinishFacts DEF RuleReturns
<1>2. RuleWorldTypes'
  BY RuleInvFacts, RuleDriftType DEF RuleReturns, RuleWorldTypes
<1>3. \A d \in Slots \ {c} : RuleWorldKept(d)
  BY RuleInvFacts DEF RuleReturns, Settled, RuleWorldKept, RuleWorldTypes
<1> QED
  BY <1>1, <1>2, <1>3, RuleCallStep

LEMMA RuleContinueFacts ==
  ASSUME RuleInv, NEW c \in Slots, pc[c] \in RuleLabels, NEW next \in RuleLabels,
         NEW g \in Walked \union {NothingGot}, Continue(c, next, g)
  PROVE  /\ RuleCalls' /\ Echoed' /\ OthersStand(c) /\ shown' = shown
         /\ pc'[c] = next /\ got'[c] = g /\ req'[c] = req[c]
<1>0. RuleCalls /\ CallShape /\ Echoed
  BY RuleInvFacts
<1>1. req[c] \in Request(RuleTools, RuleToken) /\ pc[c] \notin Ended
  BY <1>0, RuleReqFacts
<1>2. RuleCalls'
  BY <1>0, <1>1, ContinueType DEF RuleCalls
<1>3. OthersStand(c) /\ pc'[c] = next /\ got'[c] = g /\ req'[c] = req[c] /\ shown' = shown
  BY <1>0, ContinueMoves
<1> QED
  BY <1>0, <1>1, <1>2, <1>3, EchoedKept

LEMMA RuleContinueKeeps ==
  ASSUME RuleInv, NEW c \in Slots, pc[c] \in RuleLabels, NEW next \in RulePlain,
         Continue(c, next, NothingGot), RulesUnchanged
  PROVE  RuleInv'
<1>1. next \in RuleLabels
  BY DEF RulePlain, RuleLabels
<1>2. RuleCalls' /\ Echoed' /\ OthersStand(c) /\ shown' = shown /\ pc'[c] = next
  BY <1>1, RuleContinueFacts
<1> QED
  BY <1>2, RulePlainOk, RuleQuietStep

LEMMA RuleGateKeeps ==
  ASSUME RuleInv, NEW c \in Slots, pc[c] \in RuleLabels, NEW next \in RulePlain,
         NEW token \in SUBSET RuleToken, Gate(c, token, next, NothingGot), RulesUnchanged
  PROVE  RuleInv'
<1>0. RuleCalls /\ CallShape /\ Echoed
  BY RuleInvFacts
<1>1. req[c] \in Request(RuleTools, RuleToken) /\ pc[c] \notin Ended /\ next \in RuleLabels
  BY <1>0, RuleReqFacts DEF RulePlain, RuleLabels
<1>2. RuleCalls'
  BY <1>0, <1>1, GateType DEF RuleCalls
<1>3. /\ OthersStand(c) /\ shown \subseteq shown'
      /\ pc'[c] \in {"done", "refused"} \/ Passed(c, token, next, NothingGot)
  BY <1>0, GateMoves
<1>4. Echoed' /\ RuleCallOk(c)'
  <2>1. CASE pc'[c] \in {"done", "refused"}
    BY <1>0, <1>3, <2>1, EchoedKept, RulePlainOk DEF Ended
  <2>2. CASE Passed(c, token, next, NothingGot)
    <3>1. pc'[c] = next /\ req'[c] = req[c]
      BY <2>2 DEF Passed
    <3> QED
      BY <1>0, <1>1, <1>3, <3>1, EchoedKept, RulePlainOk
  <2> QED
    BY <1>3, <2>1, <2>2
<1> QED
  BY <1>2, <1>3, <1>4, RuleQuietStep

LEMMA RuleBeginKeeps ==
  ASSUME RuleInv, NEW c \in Slots, RuleBegin(c) PROVE RuleInv'
<1>0. RuleCalls /\ CallShape /\ Echoed
  BY RuleInvFacts
<1>1. PICK op \in RuleTools : Begin(c, op, FirstOf(op)) /\ RulesUnchanged
  BY DEF RuleBegin
<1>2. op \in RuleOp
  BY RuleToolsAssumption
<1>3. op.tool \in {"create_pipeline_rule", "update_pipeline_rule", "delete_pipeline_rule", "simulate_pipeline_rule",
                   "create_pipeline", "update_pipeline", "delete_pipeline"}
  BY <1>2 DEF RuleOp
<1>4. /\ FirstOf(op) \in {"lint", "get_rule", "parse_rule", "parse_pipeline", "get_pipeline", "build_delete"}
      /\ FirstOf(op) = "lint" => op.tool = "create_pipeline_rule"
      /\ FirstOf(op) = "parse_rule" => op.tool = "simulate_pipeline_rule"
  BY <1>3 DEF FirstOf
<1>5. FirstOf(op) \in RuleLabels \ Ended
  BY <1>4 DEF RuleLabels, Ended
<1>6. RuleCalls'
  BY <1>0, <1>1, <1>5, BeginType DEF RuleCalls
<1>7. OthersStand(c) /\ pc'[c] = FirstOf(op) /\ shown' = shown /\ req'[c].confirm \subseteq shown
  BY <1>0, <1>1, BeginMoves
<1>8. Echoed'
  BY <1>0, <1>7, EchoedKept
<1>9. req'[c].op = op
  BY <1>0, <1>1 DEF Begin, CallShape
<1>10. RuleCallOk(c)'
  <2>1. op.tool = "create_pipeline_rule" => HasSource(op)
    BY RuleToolsAssumption DEF HasSource
  <2> QED
    BY <1>4, <1>7, <1>9, <2>1 DEF RuleCallOk, RuleArmed, RuleWriters
<1> QED
  BY <1>1, <1>6, <1>7, <1>8, <1>10, RuleQuietStep

LEMMA GetRuleKeeps ==
  ASSUME RuleInv, NEW c \in Slots, GetRule(c) PROVE RuleInv'
<1> DEFINE op == req[c].op
<1>0. pc[c] = "get_rule" /\ pc[c] \in RuleLabels /\ RulesUnchanged
  BY DEF GetRule, RuleLabels
<1>1. CASE Finish(c, "refused")
  BY <1>0, <1>1, RuleFinishKeeps DEF Ended
<1>2. CASE Continue(c, "walk", [page |-> 1, met |-> FALSE])
  <2> DEFINE g == [page |-> 1, met |-> FALSE]
  <2>1. g \in Walked /\ "walk" \in RuleLabels
    BY RuleBoundsAssumption DEF Walked, RuleLabels
  <2> HIDE DEF g
  <2>2. RuleCalls' /\ Echoed' /\ OthersStand(c) /\ shown' = shown /\ pc'[c] = "walk" /\ got'[c] = g
    BY <1>0, <1>2, <2>1, RuleContinueFacts DEF g
  <2>3. RuleCallOk(c)'
    BY <2>1, <2>2 DEF RuleCallOk, RuleArmed
  <2> QED
    BY <1>0, <2>2, <2>3, RuleQuietStep
<1>3. CASE op.tool = "update_pipeline_rule" /\ HasSource(op) /\ Continue(c, "lint", NothingGot)
  <2>1. "lint" \in RuleLabels
    BY DEF RuleLabels
  <2>2. RuleCalls' /\ Echoed' /\ OthersStand(c) /\ shown' = shown /\ pc'[c] = "lint" /\ req'[c] = req[c]
    BY <1>0, <1>3, <2>1, RuleContinueFacts
  <2>3. RuleCallOk(c)'
    BY <1>3, <2>2 DEF RuleCallOk, RuleArmed, RuleWriters
  <2> QED
    BY <1>0, <2>2, <2>3, RuleQuietStep
<1>4. CASE Gate(c, {}, "put_rule", NothingGot)
  <2>1. "put_rule" \in RulePlain
    BY DEF RulePlain
  <2> QED
    BY <1>0, <1>4, <2>1, RuleGateKeeps
<1> QED
  BY <1>1, <1>2, <1>3, <1>4 DEF GetRule

\* A source that the lint passes passes the grammar and the catalogue.
LEMMA LintedPasses ==
  ASSUME NEW ts \in AllTokens, NEW known, LintPasses(ts, known)
  PROVE  ts \in WellNested /\ CallsOf[ts] \subseteq known
<1>1. ts \in Seq(STRING)
  BY TokensTyped
<1>2. Nested(ts) /\ Calls(ts) \subseteq known
  BY <1>1, LintIsSound
<1> QED
  BY <1>2 DEF WellNested, CallsOf

LEMMA LintKeeps ==
  ASSUME RuleInv, NEW c \in Slots, Lint(c) PROVE RuleInv'
<1>0. pc[c] = "lint" /\ pc[c] \in RuleLabels /\ RuleWorldTypes
  BY RuleInvFacts DEF Lint, RuleLabels
<1>1. RuleWorldTypes'
  BY <1>0, MergedCatalogueType DEF Lint, RuleWorldTypes
<1>2. \A d \in Slots : RuleWorldKept(d)
  BY DEF Lint, RuleWorldKept, Merged
<1>3. PICK src \in SourceOf(req[c].op) :
        \/ Finish(c, "refused")
        \/ LintPasses(src.tokens, Merged) /\ Continue(c, "parse_rule", NothingGot)
  BY DEF Lint
<1>4. CASE Finish(c, "refused")
  <2>1. RuleCalls' /\ Echoed' /\ OthersStand(c) /\ shown' = shown /\ RuleCallOk(c)'
    BY <1>4, RuleFinishFacts DEF Ended
  <2> QED
    BY <1>1, <1>2, <2>1, RuleCallStep
<1>5. CASE LintPasses(src.tokens, Merged) /\ Continue(c, "parse_rule", NothingGot)
  <2>1. "parse_rule" \in RuleLabels
    BY DEF RuleLabels
  <2>2. /\ RuleCalls' /\ Echoed' /\ OthersStand(c) /\ shown' = shown
        /\ pc'[c] = "parse_rule" /\ req'[c] = req[c]
    BY <1>0, <1>5, <2>1, RuleContinueFacts
  <2>3. req[c].op \in RuleTools
    BY <1>0, RuleInvFacts, RuleReqFacts
  <2>4. src.tokens \in AllTokens /\ \A s \in SourceOf(req[c].op) : s = src
    BY <2>3, SourceFacts
  <2>5. src.tokens \in WellNested /\ CallsOf[src.tokens] \subseteq Merged
    BY <1>5, <2>4, LintedPasses
  <2>6. SourcesPass(c)'
    <3>1. catalogue' = Merged /\ Merged # NotFetched
      BY <1>0, MergedCatalogueType DEF Lint
    <3> QED
      BY <2>2, <2>4, <2>5, <3>1 DEF SourcesPass
  <2>7. req[c].op.tool \in RuleWriters
    BY <1>0, RuleInvFacts DEF RuleCallOk
  <2>8. RuleCallOk(c)'
    BY <2>2, <2>6, <2>7 DEF RuleCallOk, RuleArmed
  <2> QED
    BY <1>1, <1>2, <2>2, <2>8, RuleCallStep
<1> QED
  BY <1>3, <1>4, <1>5

LEMMA ParseRuleGoes ==
  ASSUME RuleInv, NEW c \in Slots, ParseRule(c)
  PROVE  \/ Continue(c, "list_rules", NothingGot)
         \/ Gate(c, {}, "put_rule", NothingGot)
         \/ Gate(c, {}, "simulate", NothingGot)
<1>1. req[c].op.tool \in {"create_pipeline_rule", "update_pipeline_rule", "simulate_pipeline_rule"}
  BY RuleInvFacts DEF ParseRule, RuleCallOk, RuleWriters
<1>2. CASE req[c].op.tool = "create_pipeline_rule"
  BY <1>2 DEF ParseRule
<1>3. CASE req[c].op.tool = "update_pipeline_rule"
  BY <1>3 DEF ParseRule
<1>4. CASE req[c].op.tool = "simulate_pipeline_rule"
  BY <1>4 DEF ParseRule
<1> QED
  BY <1>1, <1>2, <1>3, <1>4

LEMMA ParseRuleKeeps ==
  ASSUME RuleInv, NEW c \in Slots, ParseRule(c) PROVE RuleInv'
<1>0. pc[c] = "parse_rule" /\ pc[c] \in RuleLabels /\ RulesUnchanged
  BY DEF ParseRule, RuleLabels
<1>2. \/ Continue(c, "list_rules", NothingGot)
      \/ Gate(c, {}, "put_rule", NothingGot)
      \/ Gate(c, {}, "simulate", NothingGot)
  BY ParseRuleGoes
<1>3. {"list_rules", "put_rule", "simulate"} \subseteq RulePlain
  BY DEF RulePlain
<1> QED
  BY <1>0, <1>2, <1>3, RuleContinueKeeps, RuleGateKeeps

\* Requests that only lead to the next one, or to the gate of a tool that asks for
\* no confirmation.
LEMMA PlainReadsKeep ==
  ASSUME RuleInv, NEW c \in Slots,
         ListRules(c) \/ ParsePipeline(c) \/ ListPipelines(c) \/ GetPipeline(c) \/ BuildDelete(c)
  PROVE  RuleInv'
<1>1. pc[c] \in RuleLabels /\ RulesUnchanged
  BY DEF ListRules, ParsePipeline, ListPipelines, GetPipeline, BuildDelete, RuleLabels
<1>2. \E next \in RulePlain : Continue(c, next, NothingGot) \/ Gate(c, {}, next, NothingGot)
  <2>1. {"post_rule", "list_pipelines", "put_pipeline", "post_pipeline", "parse_pipeline", "delete_pipeline"}
          \subseteq RulePlain
    BY DEF RulePlain
  <2>2. CASE ListRules(c)
    BY <2>1, <2>2 DEF ListRules
  <2>3. CASE ParsePipeline(c)
    BY <2>1, <2>3 DEF ParsePipeline
  <2>4. CASE ListPipelines(c)
    BY <2>1, <2>4 DEF ListPipelines
  <2>5. CASE GetPipeline(c)
    BY <2>1, <2>5 DEF GetPipeline
  <2>6. CASE BuildDelete(c)
    BY <2>1, <2>6 DEF BuildDelete
  <2> QED
    BY <2>2, <2>3, <2>4, <2>5, <2>6
<1> QED
  BY <1>1, <1>2, RuleContinueKeeps, RuleGateKeeps

\* A walk turns a page.
LEMMA WalkOnFacts ==
  ASSUME RuleInv, NEW c \in Slots, pc[c] \in {"walk", "rewalk"}, WalkOn(c, pc[c])
  PROVE  /\ RuleCalls' /\ Echoed' /\ OthersStand(c) /\ shown' = shown
         /\ pc'[c] = pc[c] /\ req'[c] = req[c]
         /\ got'[c] = [page |-> got[c].page + 1, met |-> FALSE] /\ got'[c] \in Walked
<1> DEFINE g == [page |-> got[c].page + 1, met |-> FALSE]
<1>1. got[c] \in Walked /\ pc[c] \in RuleLabels
  BY RuleInvFacts DEF RuleCallOk, RuleArmed, RuleLabels
<1>2. got[c].page \in 1..MaxPages /\ got[c].page # MaxPages
  BY <1>1 DEF Walked, WalkOn, LastPage
<1>3. got[c].page + 1 \in 1..MaxPages
  BY <1>2, RuleBoundsAssumption
<1>4. g \in Walked
  BY <1>3 DEF Walked
<1>5. Continue(c, pc[c], g)
  BY DEF WalkOn
<1> HIDE DEF g
<1>6. /\ RuleCalls' /\ Echoed' /\ OthersStand(c) /\ shown' = shown
      /\ pc'[c] = pc[c] /\ got'[c] = g /\ req'[c] = req[c]
  BY <1>1, <1>4, <1>5, RuleContinueFacts
<1> QED
  BY <1>4, <1>6 DEF g

LEMMA RuleHashType ==
  ASSUME NEW r \in RuleIds, NEW users \in SUBSET PipelineIds
  PROVE  {RuleHash(r, users)} \in SUBSET RuleToken
  BY DEF RuleHash, RuleToken

LEMMA WalkKeeps ==
  ASSUME RuleInv, NEW c \in Slots, Walk(c) PROVE RuleInv'
<1>0. pc[c] = "walk" /\ pc[c] \in RuleLabels /\ RulesUnchanged
  BY DEF Walk, RuleLabels
<1>1. CASE WalkOn(c, "walk")
  <2>1. /\ RuleCalls' /\ Echoed' /\ OthersStand(c) /\ shown' = shown
        /\ pc'[c] = "walk" /\ got'[c] \in Walked
    BY <1>0, <1>1, WalkOnFacts
  <2>2. RuleCallOk(c)'
    BY <2>1 DEF RuleCallOk, RuleArmed
  <2> QED
    BY <1>0, <2>1, <2>2, RuleQuietStep
<1>2. ASSUME NEW users \in SUBSET PipelineIds,
             Gate(c, {RuleHash(req[c].op.rule, users)}, "reget_rule", NothingGot)
      PROVE  RuleInv'
  <2>1. req[c].op.rule \in RuleIds /\ "reget_rule" \in RulePlain
    BY <1>0, RuleInvFacts, RuleReqFacts DEF RulePlain
  <2>2. {RuleHash(req[c].op.rule, users)} \in SUBSET RuleToken
    BY <2>1, RuleHashType
  <2> QED
    BY <1>0, <1>2, <2>1, <2>2, RuleGateKeeps
<1> QED
  BY <1>1, <1>2 DEF Walk

LEMMA RegetRuleKeeps ==
  ASSUME RuleInv, NEW c \in Slots, RegetRule(c) PROVE RuleInv'
<1> DEFINE g == [page |-> 1, met |-> FALSE]
<1>0. /\ pc[c] = "reget_rule" /\ pc[c] \in RuleLabels /\ RulesUnchanged
      /\ rules[req[c].op.rule] # NoRule /\ Continue(c, "rewalk", g)
  BY DEF RegetRule, RuleLabels
<1>1. g \in Walked /\ "rewalk" \in RuleLabels /\ g.page = 1 /\ g.met = FALSE
  BY RuleBoundsAssumption DEF Walked, RuleLabels
<1> HIDE DEF g
<1>2. /\ RuleCalls' /\ Echoed' /\ OthersStand(c) /\ shown' = shown
      /\ pc'[c] = "rewalk" /\ got'[c] = g /\ req'[c] = req[c]
  BY <1>0, <1>1, RuleContinueFacts
<1>3. \A k \in DOMAIN Listing : k > (g.page - 1) * PerPage
  <2>1. (g.page - 1) * PerPage = 0
    BY <1>1, RuleBoundsAssumption
  <2> QED
    BY <2>1, ListingFacts DEF Lists
<1>4. rules' = rules
  BY <1>0 DEF RulesUnchanged, ruleWorld
<1>5. Listing' = Listing
  BY <1>4 DEF Listing
<1>6. RuleAhead(c)'
  BY <1>0, <1>1, <1>2, <1>3, <1>4, <1>5 DEF RuleAhead, RuleBeyond
<1>7. RuleCallOk(c)'
  BY <1>1, <1>2, <1>6 DEF RuleCallOk, RuleArmed
<1> QED
  BY <1>0, <1>2, <1>7, RuleQuietStep

\* A page without the rule: it comes after that page, if at all.
LEMMA PageTurned ==
  ASSUME NEW r, NEW page \in Nat \ {0}, RuleBeyond(r, (page - 1) * PerPage), r \notin RulePage(page)
  PROVE  RuleBeyond(r, page * PerPage)
<1>1. ASSUME NEW k \in DOMAIN Listing, Listing[k] = r PROVE k > page * PerPage
  <2>1. k \in Nat /\ page * PerPage \in Nat
    BY ListingFacts, RuleBoundsAssumption DEF Lists
  <2>2. k > (page - 1) * PerPage
    BY <1>1 DEF RuleBeyond
  <2>3. ~(k <= page * PerPage)
    BY <1>1, <2>2 DEF RulePage, PageOf
  <2> QED
    BY <2>1, <2>3
<1> QED
  BY <1>1 DEF RuleBeyond

\* The second walk ends without the rule only if rules have come or gone, or the
\* list goes on beyond the cap.
LEMMA MissedWhy ==
  ASSUME NEW r \in RuleIds, rules[r] # NoRule, NEW page \in 1..MaxPages,
         RuleBeyond(r, (page - 1) * PerPage), r \notin RulePage(page),
         LastPage(page, Cardinality(RulePage(page)))
  PROVE  Len(Listing) > PerPage * MaxPages
<1>0. PerPage \in Nat \ {0} /\ MaxPages \in Nat \ {0} /\ page \in Nat \ {0}
  BY RuleBoundsAssumption
<1>1. RuleBeyond(r, page * PerPage)
  BY <1>0, PageTurned
<1>2. PICK k \in 1..Len(Listing) : Listing[k] = r
  BY ListingFacts DEF Lists, Existing
<1>3. k \in DOMAIN Listing /\ Len(Listing) \in Nat
  BY ListingFacts DEF Lists
<1>4. k > page * PerPage
  BY <1>1, <1>2, <1>3 DEF RuleBeyond
<1>5. page * PerPage \in Nat
  BY <1>0
<1>6. Len(Listing) > page * PerPage
  BY <1>3, <1>4, <1>5
<1>7. ~(Cardinality(RulePage(page)) < PerPage)
  <2>1. ASSUME Cardinality(RulePage(page)) < PerPage PROVE FALSE
    <3>1. Cardinality(PageOf(Listing, PerPage, page)) < PerPage
      BY <2>1 DEF RulePage
    <3>2. Len(Listing) < page * PerPage
      BY <1>0, <3>1, ListingFacts, ShortPage
    <3> QED
      BY <1>3, <1>5, <1>6, <3>2
  <2> QED
    BY <2>1
<1>8. page = MaxPages
  BY <1>7 DEF LastPage
<1>9. MaxPages * PerPage = PerPage * MaxPages
  BY <1>0
<1> QED
  BY <1>6, <1>8, <1>9

LEMMA RewalkKeeps ==
  ASSUME RuleInv, NEW c \in Slots, Rewalk(c) PROVE RuleInv'
<1> DEFINE r == req[c].op.rule
           page == got[c].page
<1>0. /\ pc[c] = "rewalk" /\ pc[c] \in RuleLabels /\ RuleAhead(c) /\ got[c] \in Walked /\ r \in RuleIds
  BY RuleInvFacts, RuleReqFacts DEF Rewalk, RuleLabels, RuleCallOk, RuleArmed
<1>1. page \in 1..MaxPages /\ page \in Nat \ {0}
  BY <1>0, RuleBoundsAssumption DEF Walked
<1>2. CASE WalkOn(c, "rewalk") /\ RulesUnchanged
  <2>1. /\ RuleCalls' /\ Echoed' /\ OthersStand(c) /\ shown' = shown
        /\ pc'[c] = "rewalk" /\ req'[c] = req[c]
        /\ got'[c] = [page |-> page + 1, met |-> FALSE] /\ got'[c] \in Walked
    BY <1>0, <1>2, WalkOnFacts
  <2>2. rules' = rules /\ ruleDrift' = ruleDrift
    BY <1>2 DEF RulesUnchanged, ruleWorld
  <2>3. Listing' = Listing
    BY <2>2 DEF Listing
  <2>4. ASSUME "moved" \notin ruleDrift[c] PROVE rules[r] # NoRule /\ RuleBeyond(r, page * PerPage)
    <3>1. rules[r] # NoRule /\ RuleBeyond(r, (page - 1) * PerPage)
      BY <1>0, <2>4 DEF RuleAhead
    <3> QED
      BY <1>1, <1>2, <3>1, PageTurned DEF WalkOn
  <2>5. got'[c].met = FALSE /\ got'[c].page - 1 = page
    BY <1>1, <2>1
  <2>6. RuleAhead(c)'
    BY <2>1, <2>2, <2>3, <2>4, <2>5 DEF RuleAhead, RuleBeyond
  <2>7. RuleCallOk(c)'
    BY <2>1, <2>6 DEF RuleCallOk, RuleArmed
  <2> QED
    BY <1>2, <2>1, <2>7, RuleQuietStep
<1>3. ASSUME NEW met \in BOOLEAN, NEW users \in SUBSET PipelineIds, WalkTo(c, page, met, users),
             Confirmed(c, users), Continue(c, "delete_rule", [page |-> page, met |-> met]), RulesUnchanged
      PROVE  RuleInv'
  <2> DEFINE g == [page |-> page, met |-> met]
  <2>1. g \in Walked /\ "delete_rule" \in RuleLabels /\ g.met = met
    BY <1>1 DEF Walked, RuleLabels
  <2> HIDE DEF g
  <2>2. /\ RuleCalls' /\ Echoed' /\ OthersStand(c) /\ shown' = shown
        /\ pc'[c] = "delete_rule" /\ got'[c] = g /\ req'[c] = req[c]
    BY <1>0, <1>3, <2>1, RuleContinueFacts DEF g
  <2>3. rules' = rules /\ ruleDrift' = ruleDrift /\ pipelines' = pipelines
    BY <1>3 DEF RulesUnchanged, ruleWorld
  <2>4. Listing' = Listing
    BY <2>3 DEF Listing
  <2> DEFINE t == RuleHash(r, users)
  <2>5. t \in shown /\ t.rule = r /\ t.pipelines = users
    <3>1. req[c].confirm \subseteq shown
      BY <1>0, RuleInvFacts DEF Echoed, Ended
    <3> QED
      BY <1>3, <3>1 DEF Confirmed, RuleHash
  <2>6. \/ users = Users(r)
        \/ ~met /\ users = {} /\ ("moved" \in ruleDrift[c] \/ Len(Listing) > PerPage * MaxPages)
    <3>1. CASE r \in RulePage(page) /\ met /\ users = Users(r)
      BY <3>1
    <3>2. CASE r \notin RulePage(page) /\ LastPage(page, Cardinality(RulePage(page))) /\ ~met /\ users = {}
      <4>1. CASE "moved" \in ruleDrift[c]
        BY <3>2, <4>1
      <4>2. CASE "moved" \notin ruleDrift[c]
        <5>1. rules[r] # NoRule /\ RuleBeyond(r, (page - 1) * PerPage)
          BY <1>0, <4>2 DEF RuleAhead
        <5>2. Len(Listing) > PerPage * MaxPages
          BY <1>0, <1>1, <3>2, <5>1, MissedWhy
        <5> QED
          BY <3>2, <5>2
      <4> QED
        BY <4>1, <4>2
    <3> QED
      BY <1>3, <3>1, <3>2 DEF WalkTo
  <2>7. Users(r)' = UsersIn(rules', pipelines', req'[c].op.rule)
    BY DEF Users
  <2>8. Users(r)' = Users(r)
    BY <2>2, <2>3, <2>7 DEF Users
  <2>9. RuleCovered(c)'
    <3> HIDE DEF t
    <3>1. t \in shown' /\ t.rule = req'[c].op.rule
      BY <2>2, <2>5
    <3>2. \/ t.pipelines = Users(req[c].op.rule)'
          \/ /\ ~got'[c].met /\ t.pipelines = {}
             /\ "moved" \in ruleDrift'[c] \/ Len(Listing') > PerPage * MaxPages
      BY <2>1, <2>2, <2>3, <2>4, <2>5, <2>6, <2>8
    <3> QED
      BY <3>1, <3>2 DEF RuleCovered
  <2>10. RuleCallOk(c)'
    BY <2>1, <2>2, <2>9 DEF RuleCallOk, RuleArmed
  <2> QED
    BY <1>3, <2>2, <2>10, RuleQuietStep
<1>4. CASE RuleReturns(c, "failed")
  BY <1>4, RuleReturnsKeeps DEF Ended
<1> QED
  BY <1>2, <1>3, <1>4 DEF Rewalk

LEMMA RuleReadFailsKeeps ==
  ASSUME RuleInv, NEW c \in Slots, RuleReadFails(c) PROVE RuleInv'
<1>1. \E how \in Ended : RuleReturns(c, how)
  BY DEF RuleReadFails, Ended
<1> QED
  BY <1>1, RuleReturnsKeeps

-----------------------------------------------------------------------------
(* Pipelines and rules: writes *)

RuleMap     == [RuleIds -> RuleTitles \union {NoRule}]
PipelineMap == [PipelineIds -> (SUBSET RuleTitles) \union {NoPipeline}]
LEMMA RuleWrittenKeeps ==
  ASSUME RuleInv, NEW c \in Slots, NEW rs \in RuleMap, NEW ps \in PipelineMap, RuleWritten(c, rs, ps)
  PROVE  RuleInv'
<1>1. PICK how \in Ended : Finish(c, how)
  BY DEF RuleWritten, Ended
<1>2. RuleCalls' /\ Echoed' /\ OthersStand(c) /\ shown' = shown /\ RuleCallOk(c)'
  BY <1>1, RuleFinishFacts
<1>3. RuleWorldTypes
  BY RuleInvFacts
<1>4. /\ RulesDrift(rs, ps) \in [Slots -> SUBSET {"users", "moved"}]
      /\ Settled(c, RulesDrift(rs, ps)) \in [Slots -> SUBSET {"users", "moved"}]
  BY <1>3, RuleDriftType DEF RuleWorldTypes
<1>5. RuleWorldTypes'
  BY <1>3, <1>4 DEF RuleWritten, RuleWorldTypes, RuleMap, PipelineMap
<1>6. ASSUME NEW d \in Slots \ {c} PROVE RuleWorldKept(d)
  <2>1. rules' = rs /\ pipelines' = ps /\ catalogue' = catalogue
        /\ ruleDrift' = Settled(c, RulesDrift(rs, ps))
    BY DEF RuleWritten
  <2>2. ruleDrift'[d] = RulesDrift(rs, ps)[d]
    BY <1>4, <2>1 DEF Settled
  <2> QED
    BY <2>1, <2>2 DEF RuleWorldKept
<1> QED
  BY <1>2, <1>5, <1>6, RuleCallStep

LEMMA RuleWriteKeeps ==
  ASSUME RuleInv, NEW c \in Slots, RuleWrite(c) PROVE RuleInv'
<1> DEFINE op == req[c].op
<1>0. rules \in RuleMap /\ pipelines \in PipelineMap
  BY RuleInvFacts DEF RuleWorldTypes, RuleMap, PipelineMap
<1>1. ASSUME pc[c] \in RuleLabels
      PROVE  /\ op \in RuleTools /\ op.rule \in RuleIds /\ op.pipeline \in PipelineIds
             /\ op.stages \in SUBSET (SUBSET RuleTitles)
  BY <1>1, RuleInvFacts, RuleReqFacts DEF RuleOp
<1>2. CASE PostRule(c) \/ PutRule(c)
  <2>1. pc[c] \in RuleLabels /\ PutSource(c)
    BY <1>2 DEF PostRule, PutRule, RuleLabels
  <2>2. CASE RuleWritten(c, rules, pipelines)
    BY <1>0, <2>2, RuleWrittenKeeps
  <2>3. ASSUME NEW src \in SourceOf(op), RuleWritten(c, [rules EXCEPT ![op.rule] = src.title], pipelines)
        PROVE  RuleInv'
    <3>1. src.title \in RuleTitles
      BY <1>1, <2>1, SourceFacts
    <3>2. [rules EXCEPT ![op.rule] = src.title] \in RuleMap
      BY <1>0, <1>1, <2>1, <3>1 DEF RuleMap
    <3> QED
      BY <1>0, <2>3, <3>2, RuleWrittenKeeps
  <2> QED
    BY <2>1, <2>2, <2>3 DEF PutSource
<1>3. CASE Simulate(c)
  BY <1>0, <1>3, RuleWrittenKeeps DEF Simulate
<1>4. CASE DeleteRule(c)
  <2>1. pc[c] \in RuleLabels /\ RuleWritten(c, [rules EXCEPT ![op.rule] = NoRule], pipelines)
    BY <1>4 DEF DeleteRule, RuleLabels
  <2>2. [rules EXCEPT ![op.rule] = NoRule] \in RuleMap
    BY <1>0, <1>1, <2>1 DEF RuleMap
  <2> QED
    BY <1>0, <2>1, <2>2, RuleWrittenKeeps
<1>5. ASSUME NEW ps \in (SUBSET RuleTitles) \union {NoPipeline}, pc[c] \in RuleLabels,
             RuleWritten(c, rules, [pipelines EXCEPT ![op.pipeline] = ps])
      PROVE  RuleInv'
  <2>1. [pipelines EXCEPT ![op.pipeline] = ps] \in PipelineMap
    BY <1>0, <1>1, <1>5 DEF PipelineMap
  <2> QED
    BY <1>0, <1>5, <2>1, RuleWrittenKeeps
<1>6. CASE PostPipeline(c)
  <2>1. pc[c] \in RuleLabels
    BY <1>6 DEF PostPipeline, RuleLabels
  <2> QED
    BY <1>1, <1>5, <1>6, <2>1 DEF PostPipeline
<1>7. CASE PutPipeline(c)
  <2>1. pc[c] \in RuleLabels
    BY <1>7 DEF PutPipeline, RuleLabels
  <2>2. pipelines[op.pipeline] \in (SUBSET RuleTitles) \union {NoPipeline}
    BY <1>0, <1>1, <2>1 DEF PipelineMap
  <2> QED
    BY <1>1, <1>5, <1>7, <2>1, <2>2 DEF PutPipeline
<1>8. CASE DeletePipeline(c)
  <2>1. pc[c] \in RuleLabels
    BY <1>8 DEF DeletePipeline, RuleLabels
  <2> QED
    BY <1>5, <1>8, <2>1 DEF DeletePipeline
<1>9. CASE RuleWriteFails(c)
  BY <1>9, RuleReturnsKeeps DEF RuleWriteFails, Ended
<1> QED
  BY <1>2, <1>3, <1>4, <1>6, <1>7, <1>8, <1>9 DEF RuleWrite

LEMMA EditRulesKeeps ==
  ASSUME RuleInv, EditRules PROVE RuleInv'
<1>0. RuleWorldTypes
  BY RuleInvFacts
<1>1. UNCHANGED callVars /\ catalogue' = catalogue /\ functions' = functions
      /\ ruleDrift' = RulesDrift(rules', pipelines') /\ ruleEdits < MaxRuleEdits /\ ruleEdits' = ruleEdits + 1
  BY DEF EditRules
<1>2. rules' \in RuleMap /\ pipelines' \in PipelineMap
  BY <1>0 DEF EditRules, RuleWorldTypes, RuleMap, PipelineMap
<1>3. RulesDrift(rules', pipelines') \in [Slots -> SUBSET {"users", "moved"}]
  BY <1>0 DEF RulesDrift, Flag, RuleWorldTypes
<1>4. ruleEdits' \in 0..MaxRuleEdits
  BY <1>0, <1>1, RuleBoundsAssumption DEF RuleWorldTypes
<1>5. RuleWorldTypes'
  BY <1>0, <1>1, <1>2, <1>3, <1>4 DEF RuleWorldTypes, RuleMap, PipelineMap
<1>6. \A d \in Slots : RuleWorldKept(d)
  BY <1>1 DEF RuleWorldKept
<1> QED
  BY <1>1, <1>5, <1>6, RuleWorldStep

LEMMA LearnKeeps ==
  ASSUME RuleInv, LearnFunctions \/ UNCHANGED ruleVars PROVE RuleInv'
<1>1. UNCHANGED <<callVars, rules, pipelines, catalogue, ruleDrift, ruleEdits>>
  BY DEF LearnFunctions, ruleVars, ruleWorld
<1>2. functions' \in SUBSET Functions
  BY RuleInvFacts DEF LearnFunctions, RuleWorldTypes, Functions, ruleVars, ruleWorld
<1>3. RuleWorldTypes'
  BY <1>1, <1>2, RuleInvFacts DEF RuleWorldTypes
<1>4. \A d \in Slots : RuleWorldKept(d)
  BY <1>1 DEF RuleWorldKept
<1> QED
  BY <1>1, <1>3, <1>4, RuleWorldStep

LEMMA RuleInvNext == RuleInv /\ [RuleNext]_ruleVars => RuleInv'
<1> SUFFICES ASSUME RuleInv, [RuleNext]_ruleVars PROVE RuleInv'
  OBVIOUS
<1>1. ASSUME NEW c \in Slots, RuleRead(c) PROVE RuleInv'
  BY <1>1, GetRuleKeeps, LintKeeps, ParseRuleKeeps, PlainReadsKeep, WalkKeeps, RegetRuleKeeps, RewalkKeeps,
     RuleReadFailsKeeps DEF RuleRead
<1>2. ASSUME NEW c \in Slots, RuleStep(c) PROVE RuleInv'
  BY <1>1, <1>2, RuleBeginKeeps, RuleWriteKeeps DEF RuleStep
<1> QED
  BY <1>2, EditRulesKeeps, LearnKeeps DEF RuleNext

LEMMA RuleMoves ==
  ASSUME RuleInv, NEW c \in Slots, RuleStep(c) PROVE OthersStand(c)
<1>0. CallShape
  BY RuleInvFacts
<1>1. ASSUME NEW how, Finish(c, how) PROVE OthersStand(c)
  BY <1>0, <1>1, FinishMoves
<1>2. ASSUME NEW how, RuleReturns(c, how) PROVE OthersStand(c)
  BY <1>1, <1>2 DEF RuleReturns
<1>3. ASSUME NEW next, NEW g, Continue(c, next, g) PROVE OthersStand(c)
  BY <1>0, <1>3, ContinueMoves
<1>4. ASSUME NEW token, NEW next, Gate(c, token, next, NothingGot) PROVE OthersStand(c)
  BY <1>0, <1>4, GateMoves
<1>5. ASSUME NEW rs, NEW ps, RuleWritten(c, rs, ps) PROVE OthersStand(c)
  BY <1>1, <1>5 DEF RuleWritten
<1>6. CASE RuleBegin(c)
  BY <1>0, <1>6, BeginMoves DEF RuleBegin
<1>7. CASE GetRule(c) \/ Lint(c)
  BY <1>1, <1>3, <1>4, <1>7 DEF GetRule, Lint
<1>8. CASE ParseRule(c)
  <2>1. \/ Continue(c, "list_rules", NothingGot)
        \/ Gate(c, {}, "put_rule", NothingGot)
        \/ Gate(c, {}, "simulate", NothingGot)
    BY <1>8, ParseRuleGoes
  <2> QED
    BY <1>3, <1>4, <2>1
<1>9. CASE ListRules(c) \/ Walk(c) \/ RegetRule(c)
  BY <1>3, <1>4, <1>9 DEF ListRules, Walk, WalkOn, RegetRule
<1>10. CASE Rewalk(c)
  BY <1>2, <1>3, <1>10 DEF Rewalk, WalkOn
<1>11. CASE ParsePipeline(c) \/ ListPipelines(c) \/ GetPipeline(c) \/ BuildDelete(c)
  BY <1>3, <1>4, <1>11 DEF ParsePipeline, ListPipelines, GetPipeline, BuildDelete
<1>12. CASE RuleReadFails(c) \/ RuleWriteFails(c)
  BY <1>2, <1>12 DEF RuleReadFails, RuleWriteFails
<1>13. CASE PostRule(c) \/ PutRule(c)
  BY <1>5, <1>13 DEF PostRule, PutRule, PutSource
<1>14. CASE Simulate(c) \/ DeleteRule(c) \/ PostPipeline(c) \/ PutPipeline(c) \/ DeletePipeline(c)
  BY <1>5, <1>14 DEF Simulate, DeleteRule, PostPipeline, PutPipeline, DeletePipeline
<1> QED
  BY <1>6, <1>7, <1>8, <1>9, <1>10, <1>11, <1>12, <1>13, <1>14 DEF RuleStep, RuleRead, RuleWrite

\* A call whose lint ends it, with a catalogue at hand, is refused by the lint.
LEMMA LintRefuses ==
  ASSUME RuleInv, [RuleNext]_ruleVars, NEW c \in Slots,
         pc[c] = "lint", pc'[c] = "refused", catalogue # NotFetched
  PROVE  \E src \in SourceOf(req[c].op) : ~LintPasses(src.tokens, catalogue)
<1>1. ASSUME NEW d \in Slots \ {c}, RuleStep(d) PROVE FALSE
  BY <1>1, RuleMoves DEF OthersStand
<1>2. ~EditRules /\ ~LearnFunctions /\ ~UNCHANGED ruleVars
  BY DEF EditRules, LearnFunctions, ruleVars, callVars
<1>3. RuleStep(c)
  BY <1>1, <1>2 DEF RuleNext
<1>4. ~RuleBegin(c) /\ ~GetRule(c) /\ ~ParseRule(c) /\ ~ListRules(c) /\ ~Walk(c) /\ ~RegetRule(c) /\ ~Rewalk(c)
  BY DEF RuleBegin, Begin, Ended, GetRule, ParseRule, ListRules, Walk, RegetRule, Rewalk
<1>5. ~ParsePipeline(c) /\ ~ListPipelines(c) /\ ~GetPipeline(c) /\ ~BuildDelete(c) /\ ~RuleReadFails(c)
  BY DEF ParsePipeline, ListPipelines, GetPipeline, BuildDelete, RuleReadFails
<1>6. ~RuleWrite(c)
  BY DEF RuleWrite, PostRule, PutRule, Simulate, DeleteRule, PostPipeline, PutPipeline, DeletePipeline, RuleWriteFails
<1>7. Lint(c)
  BY <1>3, <1>4, <1>5, <1>6 DEF RuleStep, RuleRead
<1>8. ~Continue(c, "parse_rule", NothingGot)
  <2>1. ASSUME Continue(c, "parse_rule", NothingGot) PROVE pc'[c] = "parse_rule"
    BY <2>1, RuleInvFacts, ContinueMoves
  <2> QED
    BY <2>1
<1>9. Merged = catalogue
  BY DEF Merged
<1> QED
  BY <1>7, <1>8, <1>9 DEF Lint

\* What RefusedWithReason says of the tokens of a refused rule.
HasReason(ts, known) ==
  \/ ~(CallsOf[ts] \subseteq known)
  \/ CalledNames(ts) \intersect Keywords # {}
  \/ \E i \in 1..(Len(ts) - 1) : InString(ts, i) /\ ts[i + 1] = "(" /\ ts[i] \notin Symbols
LEMMA RefusalHasReason ==
  ASSUME WordsAreNames, NEW spec \in RuleSpecs, NEW known, ~LintPasses(Emitted[spec], known)
  PROVE  HasReason(Emitted[spec], known)
<1> DEFINE ts == Emitted[spec]
<1>1. Whole(ts)
  BY RulesWhole DEF Emitted
<1>2. CallsOf[ts] = Calls(ts)
  BY DEF CallsOf, AllTokens
<1>0. ~LintPasses(ts, known)
  OBVIOUS
<1> SUFFICES HasReason(ts, known)
  OBVIOUS
<1> HIDE DEF ts
<1>3. ~(CalledNames(ts) \ Reserved \subseteq known)
  <2>1. ~ParenImbalance(ts)
    BY <1>1, WholePasses
  <2> QED
    BY <1>0, <2>1 DEF LintPasses
<1>4. PICK k \in 1..(Len(ts) - 1) :
        ts[k + 1] = "(" /\ ts[k] \notin Symbols /\ ts[k] \notin Reserved /\ ts[k] \notin known
  BY <1>3 DEF CalledNames
<1>5. CASE InString(ts, k)
  BY <1>4, <1>5 DEF HasReason
<1>6. CASE ts[k] \in Keywords
  <2>1. ts[k] \in CalledNames(ts)
    BY <1>4 DEF CalledNames
  <2> QED
    BY <1>6, <2>1 DEF HasReason
<1>7. CASE ~InString(ts, k) /\ ts[k] \notin Keywords
  <2>1. ts[k] \in Calls(ts)
    BY <1>4, <1>7 DEF Calls
  <2> QED
    BY <1>2, <1>4, <2>1 DEF HasReason
<1> QED
  BY <1>5, <1>6, <1>7

-----------------------------------------------------------------------------
(* Pipelines and rules: theorems *)

\* The state of the rule and pipeline tools and of the server keeps its type
\* (tools/pipelines).
THEOREM RuleTypeCorrect == RuleToolsSpec => []RuleTypeOK
<1>1. RuleInv => RuleTypeOK
  BY DEF RuleInv
<1> QED
  BY <1>1, RuleInvInit, RuleInvNext, PTL DEF RuleToolsSpec

\* What reaches the server's parser to be created or updated is well nested and
\* calls functions of the catalogue only (validate.js:36-113).
THEOREM ParsedIsLinted == RuleToolsSpec => []LintedBeforeParse
<1>1. RuleInv => LintedBeforeParse
  <2> SUFFICES ASSUME RuleInv, NEW c \in Slots, pc[c] = "parse_rule", req[c].op.tool # "simulate_pipeline_rule",
                      NEW src \in SourceOf(req[c].op)
               PROVE  src.tokens \in WellNested /\ CallsOf[src.tokens] \subseteq catalogue
    BY DEF LintedBeforeParse
  <2> QED
    BY RuleInvFacts DEF RuleCallOk, SourcesPass
<1> QED
  BY <1>1, RuleInvInit, RuleInvNext, PTL DEF RuleToolsSpec

\* A rule goes only after a preview has named the pipelines that use it, but for
\* what drifts after apply() reads them again and for rules that the second walk
\* cannot meet (delete-pipeline-rule.js:92-164, 203-221).
THEOREM RuleGoesAsPreviewed == RuleToolsSpec => RuleDeletedKnowing
<1>1. RuleInv => [\A c \in Slots : pc[c] = "delete_rule" /\ pc'[c] # "delete_rule" /\ rules' # rules =>
                    LET r == req[c].op.rule
                    IN \E t \in shown :
                         /\ t.rule = r
                         /\ \/ t.pipelines = Users(r)
                            \/ "users" \in ruleDrift[c]
                            \/ /\ ~got[c].met /\ t.pipelines = {}
                               /\ "moved" \in ruleDrift[c] \/ Len(Listing) > PerPage * MaxPages]_ruleVars
  BY RuleInvFacts DEF RuleCallOk, RuleCovered
<1> QED
  BY <1>1, RuleInvInit, RuleInvNext, PTL DEF RuleToolsSpec, RuleDeletedKnowing

\* The lint refuses a structured rule only for a function that the catalogue does not
\* have, a keyword before a parenthesis, or what looks like a call in a string; its
\* parentheses never are the reason, if the words in it are names (emit.js:28-119,
\* validate.js:36-113).
THEOREM RefusalsHaveReasons == WordsAreNames => (RuleToolsSpec => RefusedWithReason)
<1> SUFFICES ASSUME WordsAreNames PROVE RuleToolsSpec => RefusedWithReason
  OBVIOUS
<1>1. ASSUME RuleInv, [RuleNext]_ruleVars, NEW c \in Slots,
             pc[c] = "lint", pc'[c] = "refused", catalogue # NotFetched, NEW spec \in req[c].op.structured
      PROVE  HasReason(Emitted[spec], catalogue)
  <2>1. PICK src \in SourceOf(req[c].op) : ~LintPasses(src.tokens, catalogue)
    BY <1>1, LintRefuses
  <2>2. req[c].op \in RuleTools /\ req[c].op \in RuleOp
    <3>1. pc[c] \in RuleLabels
      BY <1>1 DEF RuleLabels
    <3> QED
      BY <1>1, <3>1, RuleInvFacts, RuleReqFacts
  <2>3. spec \in RuleSpecs
    BY <1>1, <2>2 DEF RuleOp
  <2>4. src.tokens = Emitted[spec]
    <3> DEFINE own == [title |-> spec.title, tokens |-> Emitted[spec]]
    <3>1. own \in SourceOf(req[c].op) /\ own.tokens = Emitted[spec]
      BY <1>1 DEF SourceOf
    <3> HIDE DEF own
    <3> QED
      BY <2>1, <2>2, <3>1, SourceFacts
  <2> QED
    BY <2>1, <2>3, <2>4, RefusalHasReason
<1>2. RuleInv /\ [RuleNext]_ruleVars =>
        [\A c \in Slots : pc[c] = "lint" /\ pc'[c] = "refused" /\ catalogue # NotFetched =>
           \A spec \in req[c].op.structured :
             LET ts == Emitted[spec]
             IN \/ ~(CallsOf[ts] \subseteq catalogue)
                \/ CalledNames(ts) \intersect Keywords # {}
                \/ \E i \in 1..(Len(ts) - 1) : InString(ts, i) /\ ts[i + 1] = "(" /\ ts[i] \notin Symbols]_ruleVars
  BY <1>1 DEF HasReason
<1> QED
  BY <1>2, RuleInvInit, RuleInvNext, PTL DEF RuleToolsSpec, RefusedWithReason

-----------------------------------------------------------------------------
(* Events: types *)

EventCalls == CallsTypeOK(EventLabels, Request(EventOps, NotifToken), DefPages, NotifToken)
EventWorldTypes ==
  /\ defs \in [DefIds -> DefDoc \union {NoDef}]
  /\ notifs \in [NotifIds -> NotifDoc \union {NoNotif}]
  /\ eventDrift \in [Slots -> SUBSET (DefIds \union {NoDef})]
  /\ eventEdits \in 0..MaxEventEdits

LEMMA EventTypeParts ==
  /\ EventTypeOK <=> EventCalls /\ EventWorldTypes
  /\ EventTypeOK' <=> EventCalls' /\ EventWorldTypes'
  BY DEF EventTypeOK, EventCalls, EventWorldTypes

LEMMA EventReqFacts ==
  ASSUME EventCalls, NEW c \in Slots, pc[c] \in EventLabels
  PROVE  /\ pc[c] \notin Ended
         /\ req[c] \in Request(EventOps, NotifToken) /\ req[c].op \in EventOps /\ req[c].op \in EventOp
         /\ req[c].op.notif \in NotifIds /\ req[c].op.def \in DefIds
<1>1. pc[c] \notin Ended
  BY DEF EventLabels, Ended
<1>2. req[c] \in Request(EventOps, NotifToken)
  BY <1>1 DEF EventCalls, CallsTypeOK
<1>3. req[c].op \in EventOps
  BY <1>2 DEF Request
<1>4. req[c].op \in EventOp
  BY <1>3, EventOpsAssumption
<1>5. req[c].op.notif \in NotifIds /\ req[c].op.def \in DefIds
  BY <1>4 DEF EventOp
<1> QED
  BY <1>1, <1>2, <1>3, <1>4, <1>5

LEMMA Given1Type ==
  ASSUME NEW X, NEW S \in SUBSET X, NEW current, S = {} => current \in X
  PROVE  Given1(S, current) \in X
<1>1. CASE S = {}
  BY <1>1 DEF Given1
<1>2. CASE S # {}
  BY <1>2 DEF Given1
<1> QED
  BY <1>1, <1>2

LEMMA GivenNotifs ==
  ASSUME NEW S \in SUBSET (SUBSET NotifIds), NEW current, S = {} => current \in SUBSET NotifIds
  PROVE  Given1(S, current) \in SUBSET NotifIds
<1> DEFINE X == SUBSET NotifIds
<1>1. S \in SUBSET X /\ (S = {} => current \in X)
  OBVIOUS
<1> HIDE DEF X
<1>2. Given1(S, current) \in X
  BY <1>1, Given1Type
<1> QED
  BY <1>2 DEF X

LEMMA NewDefType ==
  ASSUME EventWorldTypes, NEW op \in EventOps, op.tool \in DefTools,
         (defs[op.def] = NoDef) = (op.tool = "create_event_definition")
  PROVE  NewDef(op) \in DefDoc \union {NoDef}
<1> DEFINE old == defs[op.def]
<1>0. /\ op.def \in DefIds /\ op.title \in SUBSET DefTitles /\ op.cond \in SUBSET Exprs
      /\ op.notifs \in SUBSET (SUBSET NotifIds)
      /\ op.tool = "create_event_definition" => op.title # {} /\ op.cond # {} /\ op.notifs # {}
  BY EventOpsAssumption DEF EventOp
<1>1. \A e \in Exprs : Visit[e] \in AllExprs
  BY DEF AllExprs
<1>2. op.cond # {} => Visit[Given1(op.cond, "")] \in AllExprs
  BY <1>0, <1>1, Given1Type
<1>3. CASE op.tool = "create_event_definition"
  <2>1. Given1(op.title, "") \in DefTitles
    BY <1>0, <1>3, Given1Type
  <2>2. Given1(op.notifs, {}) \in SUBSET NotifIds
    BY <1>0, <1>3, GivenNotifs
  <2> QED
    BY <1>0, <1>2, <1>3, <2>1, <2>2 DEF NewDef, DefDoc, Scheduled
<1>4. CASE op.tool # "create_event_definition"
  <2>1. old \in DefDoc
    BY <1>0, <1>4 DEF EventWorldTypes
  <2>2. /\ old.title \in DefTitles /\ old.cond \in AllExprs /\ old.notifs \in SUBSET NotifIds
        /\ old.enabled \in BOOLEAN
    BY <2>1 DEF DefDoc
  <2>3. CASE op.tool = "update_event_definition"
    <3>1. Given1(op.title, old.title) \in DefTitles
      BY <1>0, <2>2, Given1Type
    <3>3. Given1(op.notifs, old.notifs) \in SUBSET NotifIds
      BY <1>0, <2>2, GivenNotifs
    <3>2. (IF op.cond = {} THEN old.cond ELSE Visit[Given1(op.cond, "")]) \in AllExprs
      BY <1>2, <2>2
    <3> QED
      BY <2>2, <2>3, <3>1, <3>2, <3>3 DEF NewDef, DefDoc, Scheduled
  <2>4. CASE op.tool = "enable_event_definition"
    BY <2>1, <2>4 DEF NewDef, DefDoc
  <2>5. CASE op.tool = "disable_event_definition"
    BY <2>1, <2>5 DEF NewDef, DefDoc
  <2>6. CASE op.tool = "delete_event_definition"
    BY <2>6 DEF NewDef
  <2> QED
    BY <1>4, <2>3, <2>4, <2>5, <2>6 DEF DefTools
<1> QED
  BY <1>3, <1>4

LEMMA ConfigAfterType ==
  ASSUME NEW op \in EventOps, NEW old \in NotifDoc \union {NoNotif}
  PROVE  ConfigAfter(op, old) \subseteq NotifDoc \union {NoNotif}
<1> DEFINE current == IF old = NoNotif THEN NoSecret ELSE old.secret
<1>0. op.type \in SUBSET NotifTypes /\ op.config \in SUBSET Given
  BY EventOpsAssumption DEF EventOp
<1>1. current \in Stored
  BY DEF Stored, NotifDoc
<1> HIDE DEF current
<1>2. ASSUME NEW d \in ConfigAfter(op, old), op.config # {} PROVE d \in NotifDoc
  <2>1. PICK t \in op.type : d \in {[type |-> t, secret |-> x] :
               x \in UNION {Accepted(h, t \in EncryptedTypes, current) :
                            h \in UNION {EncodeForWire(g, t \in EncryptedTypes) : g \in op.config}}}
    BY <1>2 DEF ConfigAfter, current
  <2>2. PICK g \in op.config : \E h \in EncodeForWire(g, t \in EncryptedTypes) :
          \E x \in Accepted(h, t \in EncryptedTypes, current) : d = [type |-> t, secret |-> x]
    BY <2>1
  <2>3. \A h \in EncodeForWire(g, t \in EncryptedTypes) : Accepted(h, t \in EncryptedTypes, current) \subseteq Stored
    <3> DEFINE enc == t \in EncryptedTypes
    <3>1. enc \in BOOLEAN /\ g \in Given
      BY <1>0
    <3> HIDE DEF enc
    <3>2. \A h \in EncodeForWire(g, enc) : Accepted(h, enc, current) \subseteq Stored
      BY <1>1, <3>1, EncodedType, AcceptedType
    <3> QED
      BY <3>2 DEF enc
  <2> QED
    BY <1>0, <2>1, <2>2, <2>3 DEF NotifDoc
<1> QED
  BY <1>2 DEF ConfigAfter

LEMMA EventsDriftType ==
  ASSUME eventDrift \in [Slots -> SUBSET (DefIds \union {NoDef})], NEW ds, NEW c \in Slots
  PROVE  /\ EventsDrift(ds) \in [Slots -> SUBSET (DefIds \union {NoDef})]
         /\ [EventsDrift(ds) EXCEPT ![c] = {}] \in [Slots -> SUBSET (DefIds \union {NoDef})]
         /\ [eventDrift EXCEPT ![c] = {}] \in [Slots -> SUBSET (DefIds \union {NoDef})]
<1>1. ASSUME NEW d \in Slots PROVE EventsDrift(ds)[d] \subseteq DefIds \union {NoDef}
  BY DEF EventsDrift
<1>2. EventsDrift(ds) \in [Slots -> SUBSET (DefIds \union {NoDef})]
  BY <1>1 DEF EventsDrift
<1> QED
  BY <1>2

-----------------------------------------------------------------------------
(* Events: the invariant *)

DefBeyond(d, n) == \A k \in DOMAIN DefListing : DefListing[k] = d => k > n
\* The second walk has found what refers to the notification on the pages before,
\* but for what has changed since.
DefsAhead(c) ==
  NoDef \notin eventDrift[c] =>
    \A d \in DefIds \ eventDrift[c] :
      /\ d \in Reached(c).found => RefersTo(defs, d, req[c].op.notif)
      /\ RefersTo(defs, d, req[c].op.notif) =>
           d \in Reached(c).found \/ DefBeyond(d, (Reached(c).page - 1) * DefsPerPage)
\* A preview has shown what refers to the notification, but for what has changed since.
NotifCovered(c) ==
  \E t \in shown :
    /\ t.notif = req[c].op.notif
    /\ \/ NoDef \in eventDrift[c]
       \/ Len(DefListing) > DefsPerPage * MaxDefPages
       \/ \A d \in DefIds \ eventDrift[c] : (d \in t.defs) = RefersTo(defs, d, t.notif)
EventCallOk(c) ==
  /\ pc[c] = "rewalk_defs" => DefsAhead(c)
  /\ pc[c] = "delete_notification" => NotifCovered(c)

EventInv == EventTypeOK /\ Echoed /\ \A c \in Slots : EventCallOk(c)

LEMMA EventInvFacts ==
  ASSUME EventInv
  PROVE  EventTypeOK /\ EventCalls /\ EventWorldTypes /\ CallShape /\ Echoed /\ \A c \in Slots : EventCallOk(c)
  BY EventTypeParts, TypedShape DEF EventInv, EventCalls

LEMMA EventInvInit == EventInit => EventInv
<1> SUFFICES ASSUME EventInit PROVE EventInv
  OBVIOUS
<1>1. \A c \in Slots : pc[c] = "idle"
  BY DEF EventInit, CallsInit
<1>2. EventCalls
  BY DEF EventInit, CallsInit, EventCalls, CallsTypeOK, Ended
<1>3. EventWorldTypes
  <2>1. PICK s \in EventStart : defs = s.defs /\ notifs = s.notifs
    BY EventStartsAssumption DEF EventInit, EventWorldInit
  <2> QED
    BY <2>1, EventBoundsAssumption DEF EventInit, EventWorldInit, EventStart, EventWorldTypes
<1>4. Echoed /\ \A c \in Slots : EventCallOk(c)
  BY <1>1 DEF Echoed, Ended, EventCallOk
<1> QED
  BY <1>2, <1>3, <1>4, EventTypeParts DEF EventInv

DefsThere == {d \in DefIds : defs[d] # NoDef}
LEMMA DefListingFacts ==
  Lists(DefListing, DefIds, DefsThere)
<1>1. DefIds = Ids(DefOrder)
  BY DEF DefIds, Ids
<1>2. Lists(InOrder(DefOrder, DefsThere), Ids(DefOrder), DefsThere)
  BY InOrderLists, DefOrderAssumption
<1> QED
  BY <1>1, <1>2 DEF DefListing, DefsThere

\* What a step must do to the server for a call d that stands still.
EventWorldKept(d) ==
  \/ defs' = defs /\ eventDrift'[d] = eventDrift[d]
  \/ eventDrift'[d] = EventsDrift(defs')[d]
LEMMA EventStandingCall ==
  ASSUME EventInv, NEW d \in Slots, pc'[d] = pc[d], req'[d] = req[d], got'[d] = got[d],
         shown \subseteq shown', EventWorldKept(d)
  PROVE  EventCallOk(d)'
<1> DEFINE n == req[d].op.notif
<1>0. EventCallOk(d)
  BY EventInvFacts
<1>1. ASSUME pc[d] \in {"rewalk_defs", "delete_notification"}
      PROVE  /\ eventDrift[d] \subseteq eventDrift'[d]
             /\ NoDef \notin eventDrift'[d] => DefListing' = DefListing
             /\ \A e \in DefIds \ eventDrift'[d] : RefersTo(defs', e, n) = RefersTo(defs, e, n)
  <2>1. CASE defs' = defs /\ eventDrift'[d] = eventDrift[d]
    <3>1. DefListing' = DefListing
      BY <2>1 DEF DefListing
    <3> QED
      BY <2>1, <3>1
  <2>2. CASE eventDrift'[d] = EventsDrift(defs')[d]
    <3>1. eventDrift'[d] = eventDrift[d]
             \union {e \in DefIds : RefersTo(defs', e, n) # RefersTo(defs, e, n)}
             \union {x \in {NoDef} : \E e \in DefIds : (defs'[e] = NoDef) # (defs[e] = NoDef)}
      BY <1>1, <2>2 DEF EventsDrift
    <3>2. ASSUME NoDef \notin eventDrift'[d] PROVE DefListing' = DefListing
      <4>1. \A e \in DefIds : defs'[e] = NoDef <=> defs[e] = NoDef
        BY <3>1, <3>2
      <4>2. {e \in DefIds : defs'[e] # NoDef} = {e \in DefIds : defs[e] # NoDef}
        BY <4>1
      <4> QED
        BY <4>2 DEF DefListing
    <3>3. \A e \in DefIds \ eventDrift'[d] : RefersTo(defs', e, n) = RefersTo(defs, e, n)
      BY <3>1
    <3> QED
      BY <3>1, <3>2, <3>3
  <2> QED
    BY <2>1, <2>2 DEF EventWorldKept
<1>2. ASSUME pc[d] = "rewalk_defs" PROVE DefsAhead(d)'
  <2>0. DefsAhead(d) /\ Reached(d)' = Reached(d)
    BY <1>0, <1>2 DEF EventCallOk, Reached
  <2>1. ASSUME NoDef \notin eventDrift'[d], NEW e \in DefIds \ eventDrift'[d]
        PROVE  /\ e \in Reached(d).found => RefersTo(defs', e, n)
               /\ RefersTo(defs', e, n) =>
                    e \in Reached(d).found
                    \/ \A k \in DOMAIN DefListing' : DefListing'[k] = e => k > (Reached(d).page - 1) * DefsPerPage
    <3>1. e \in DefIds \ eventDrift[d] /\ NoDef \notin eventDrift[d]
          /\ RefersTo(defs', e, n) = RefersTo(defs, e, n) /\ DefListing' = DefListing
      BY <1>1, <1>2, <2>1
    <3> QED
      BY <2>0, <3>1 DEF DefsAhead, DefBeyond
  <2> QED
    BY <2>0, <2>1 DEF DefsAhead, DefBeyond
<1>3. ASSUME pc[d] = "delete_notification" PROVE NotifCovered(d)'
  <2>1. PICK t \in shown :
          /\ t.notif = n
          /\ \/ NoDef \in eventDrift[d]
             \/ Len(DefListing) > DefsPerPage * MaxDefPages
             \/ \A e \in DefIds \ eventDrift[d] : (e \in t.defs) = RefersTo(defs, e, t.notif)
    BY <1>0, <1>3 DEF EventCallOk, NotifCovered
  <2>2. t \in shown' /\ t.notif = req'[d].op.notif
    BY <2>1
  <2>3. \/ NoDef \in eventDrift'[d]
        \/ Len(DefListing') > DefsPerPage * MaxDefPages
        \/ \A e \in DefIds \ eventDrift'[d] : (e \in t.defs) = RefersTo(defs', e, t.notif)
    BY <1>1, <1>3, <2>1
  <2> QED
    BY <2>2, <2>3 DEF NotifCovered
<1> QED
  BY <1>0, <1>2, <1>3 DEF EventCallOk

\* A step of call c.
LEMMA EventCallStep ==
  ASSUME EventInv, NEW c \in Slots, OthersStand(c), shown \subseteq shown',
         EventCalls', Echoed', EventWorldTypes', EventCallOk(c)',
         \A d \in Slots \ {c} : EventWorldKept(d)
  PROVE  EventInv'
<1>1. \A d \in Slots \ {c} : EventCallOk(d)'
  BY EventStandingCall DEF OthersStand
<1> QED
  BY <1>1, EventTypeParts DEF EventInv

\* The call moves on, and nothing else.
LEMMA EventQuietStep ==
  ASSUME EventInv, NEW c \in Slots, OthersStand(c), shown \subseteq shown', EventsUnchanged,
         EventCalls', Echoed', EventCallOk(c)'
  PROVE  EventInv'
<1>1. EventWorldTypes'
  BY EventInvFacts DEF EventWorldTypes, EventsUnchanged, eventWorld
<1>2. \A d \in Slots : EventWorldKept(d)
  BY DEF EventWorldKept, EventsUnchanged, eventWorld
<1> QED
  BY <1>1, <1>2, EventCallStep

EventPlain == EventLabels \ {"rewalk_defs", "delete_notification"}
LEMMA EventPlainOk ==
  ASSUME NEW c \in Slots, pc'[c] \in EventPlain \union Ended PROVE EventCallOk(c)'
  BY DEF EventPlain, Ended, EventCallOk

LEMMA EventFinishFacts ==
  ASSUME EventInv, NEW c \in Slots, NEW how \in Ended, Finish(c, how)
  PROVE  /\ EventCalls' /\ Echoed' /\ OthersStand(c) /\ shown' = shown
         /\ EventCallOk(c)' /\ pc'[c] = how
<1>0. EventCalls /\ CallShape /\ Echoed
  BY EventInvFacts
<1>1. EventCalls'
  BY <1>0, FinishType DEF EventCalls
<1>2. OthersStand(c) /\ pc'[c] = how /\ shown' = shown
  BY <1>0, FinishMoves
<1> QED
  BY <1>0, <1>1, <1>2, EchoedKept, EventPlainOk

LEMMA EventFinishKeeps ==
  ASSUME EventInv, NEW c \in Slots, NEW how \in Ended, Finish(c, how), EventsUnchanged
  PROVE  EventInv'
  BY EventFinishFacts, EventQuietStep

LEMMA EventReturnsKeeps ==
  ASSUME EventInv, NEW c \in Slots, NEW how \in Ended, EventReturns(c, how)
  PROVE  EventInv'
<1>1. EventCalls' /\ Echoed' /\ OthersStand(c) /\ shown' = shown /\ EventCallOk(c)'
  BY EventFinishFacts DEF EventReturns
<1>2. EventWorldTypes'
  BY EventInvFacts, EventsDriftType DEF EventReturns, EventWorldTypes
<1>3. \A d \in Slots \ {c} : EventWorldKept(d)
  BY EventInvFacts DEF EventReturns, EventWorldKept, EventWorldTypes
<1> QED
  BY <1>1, <1>2, <1>3, EventCallStep

LEMMA EventContinueFacts ==
  ASSUME EventInv, NEW c \in Slots, pc[c] \in EventLabels, NEW next \in EventLabels,
         NEW g \in DefPages \union {NothingGot}, Continue(c, next, g)
  PROVE  /\ EventCalls' /\ Echoed' /\ OthersStand(c) /\ shown' = shown
         /\ pc'[c] = next /\ got'[c] = g /\ req'[c] = req[c]
<1>0. EventCalls /\ CallShape /\ Echoed
  BY EventInvFacts
<1>1. req[c] \in Request(EventOps, NotifToken) /\ pc[c] \notin Ended
  BY <1>0, EventReqFacts
<1>2. EventCalls'
  BY <1>0, <1>1, ContinueType DEF EventCalls
<1>3. OthersStand(c) /\ pc'[c] = next /\ got'[c] = g /\ req'[c] = req[c] /\ shown' = shown
  BY <1>0, ContinueMoves
<1> QED
  BY <1>0, <1>1, <1>2, <1>3, EchoedKept

\* The gate, whatever the next request is: what is left to show is what is known of
\* the call at that request.
LEMMA EventGateKeeps ==
  ASSUME EventInv, NEW c \in Slots, pc[c] \in EventLabels, NEW next \in EventLabels,
         NEW token \in SUBSET NotifToken, Gate(c, token, next, NothingGot), EventsUnchanged,
         Passed(c, token, next, NothingGot) => EventCallOk(c)'
  PROVE  EventInv'
<1>0. EventCalls /\ CallShape /\ Echoed
  BY EventInvFacts
<1>1. req[c] \in Request(EventOps, NotifToken) /\ pc[c] \notin Ended
  BY <1>0, EventReqFacts
<1>2. EventCalls'
  BY <1>0, <1>1, GateType DEF EventCalls
<1>3. /\ OthersStand(c) /\ shown \subseteq shown'
      /\ pc'[c] \in {"done", "refused"} \/ Passed(c, token, next, NothingGot)
  BY <1>0, GateMoves
<1>4. Echoed' /\ EventCallOk(c)'
  <2>1. CASE pc'[c] \in {"done", "refused"}
    BY <1>0, <1>3, <2>1, EchoedKept, EventPlainOk DEF Ended
  <2>2. CASE Passed(c, token, next, NothingGot)
    <3>1. pc'[c] = next /\ req'[c] = req[c]
      BY <2>2 DEF Passed
    <3> QED
      BY <1>0, <1>1, <1>3, <2>2, <3>1, EchoedKept
  <2> QED
    BY <1>3, <2>1, <2>2
<1> QED
  BY <1>2, <1>3, <1>4, EventQuietStep

-----------------------------------------------------------------------------
(* Events: steps *)

LEMMA EventBeginKeeps ==
  ASSUME EventInv, NEW c \in Slots, EventBegin(c) PROVE EventInv'
<1>0. EventCalls /\ CallShape /\ Echoed
  BY EventInvFacts
<1>1. PICK op \in EventOps : Begin(c, op, FirstEvent(op)) /\ EventsUnchanged
  BY DEF EventBegin
<1>2. op.tool \in DefTools \union NotifTools
  BY EventOpsAssumption DEF EventOp
<1>3. FirstEvent(op) \in {"list_definitions", "get_definition", "list_notifications", "get_notification",
                          "walk_defs", "build_event"}
  BY <1>2 DEF FirstEvent, DefTools, NotifTools
<1>4. FirstEvent(op) \in EventLabels \ Ended /\ FirstEvent(op) \in EventPlain
  BY <1>3 DEF EventLabels, EventPlain, Ended
<1>5. EventCalls'
  BY <1>0, <1>1, <1>4, BeginType DEF EventCalls
<1>6. OthersStand(c) /\ pc'[c] = FirstEvent(op) /\ shown' = shown /\ req'[c].confirm \subseteq shown
  BY <1>0, <1>1, BeginMoves
<1>7. Echoed'
  BY <1>0, <1>6, EchoedKept
<1>8. EventCallOk(c)'
  BY <1>4, <1>6, EventPlainOk
<1> QED
  BY <1>1, <1>5, <1>6, <1>7, <1>8, EventQuietStep

LEMMA BuildEventKeeps ==
  ASSUME EventInv, NEW c \in Slots, BuildEvent(c) PROVE EventInv'
<1>0. pc[c] \in EventLabels /\ EventsUnchanged /\ "event_write" \in EventLabels
  BY DEF BuildEvent, EventLabels
<1>1. CASE Finish(c, "refused")
  BY <1>0, <1>1, EventFinishKeeps DEF Ended
<1>2. CASE Gate(c, {}, "event_write", NothingGot)
  <2>1. Passed(c, {}, "event_write", NothingGot) => EventCallOk(c)'
    BY EventPlainOk DEF Passed, EventPlain, EventLabels
  <2> QED
    BY <1>0, <1>2, <2>1, EventGateKeeps
<1> QED
  BY <1>1, <1>2 DEF BuildEvent

LEMMA ReachedType ==
  ASSUME EventInv, NEW c \in Slots
  PROVE  Reached(c) \in DefPages /\ Found(c) \in SUBSET DefIds /\ Reached(c).page \in Nat \ {0}
<1>1. FirstPage \in DefPages
  BY EventBoundsAssumption DEF FirstPage, DefPages
<1>2. Reached(c) \in DefPages
  BY <1>1, EventInvFacts DEF Reached, EventCalls, CallsTypeOK
<1>3. DefsOn(Reached(c).page) \subseteq DefIds
  BY DefListingFacts DEF DefsOn, PageOf, Lists
<1> QED
  BY <1>2, <1>3, EventBoundsAssumption DEF DefPages, Found

\* A walk turns a page.
LEMMA DefsTurned ==
  ASSUME EventInv, NEW c \in Slots, pc[c] \in {"walk_defs", "rewalk_defs"}, ~WalkedAll(c),
         Continue(c, pc[c], [page |-> Reached(c).page + 1, found |-> Found(c)])
  PROVE  /\ EventCalls' /\ Echoed' /\ OthersStand(c) /\ shown' = shown
         /\ pc'[c] = pc[c] /\ req'[c] = req[c]
         /\ Reached(c)' = [page |-> Reached(c).page + 1, found |-> Found(c)]
<1> DEFINE g == [page |-> Reached(c).page + 1, found |-> Found(c)]
<1>1. Reached(c) \in DefPages /\ Found(c) \in SUBSET DefIds /\ pc[c] \in EventLabels
  BY ReachedType DEF EventLabels
<1>2. Reached(c).page \in 1..MaxDefPages /\ Reached(c).page # MaxDefPages
  BY <1>1 DEF DefPages, WalkedAll
<1>3. Reached(c).page + 1 \in 1..MaxDefPages
  BY <1>2, EventBoundsAssumption
<1>4. g \in DefPages
  BY <1>1, <1>3 DEF DefPages
<1>5. Continue(c, pc[c], g)
  OBVIOUS
<1> HIDE DEF g
<1>6. /\ EventCalls' /\ Echoed' /\ OthersStand(c) /\ shown' = shown
      /\ pc'[c] = pc[c] /\ got'[c] = g /\ req'[c] = req[c]
  BY <1>1, <1>4, <1>5, EventContinueFacts
<1>7. Reached(c)' = g
  BY <1>4, <1>6, EventNothingsAssumption DEF Reached
<1> QED
  BY <1>6, <1>7 DEF g

\* What is known of the definitions once the page is read too.
LEMMA DefsPageRead ==
  ASSUME EventInv, NEW c \in Slots, pc[c] = "rewalk_defs", NoDef \notin eventDrift[c],
         NEW d \in DefIds \ eventDrift[c]
  PROVE  /\ d \in Found(c) => RefersTo(defs, d, req[c].op.notif)
         /\ RefersTo(defs, d, req[c].op.notif) =>
              d \in Found(c) \/ DefBeyond(d, Reached(c).page * DefsPerPage)
<1> DEFINE page == Reached(c).page
           n == req[c].op.notif
<1>0. page \in Nat \ {0} /\ DefsPerPage \in Nat \ {0}
  BY ReachedType, EventBoundsAssumption
<1>1. /\ d \in Reached(c).found => RefersTo(defs, d, n)
      /\ RefersTo(defs, d, n) => d \in Reached(c).found \/ DefBeyond(d, (page - 1) * DefsPerPage)
  BY EventInvFacts DEF EventCallOk, DefsAhead
<1> HIDE DEF page
<1>2. ASSUME RefersTo(defs, d, n), d \notin Found(c) PROVE DefBeyond(d, page * DefsPerPage)
  <2>1. d \notin Reached(c).found /\ d \notin DefsOn(page)
    BY <1>2 DEF Found, page
  <2>2. DefBeyond(d, (page - 1) * DefsPerPage)
    BY <1>1, <1>2, <2>1
  <2>3. ASSUME NEW k \in DOMAIN DefListing, DefListing[k] = d PROVE k > page * DefsPerPage
    <3>1. k \in Nat /\ page * DefsPerPage \in Nat
      BY <1>0, DefListingFacts DEF Lists
    <3>2. k > (page - 1) * DefsPerPage
      BY <2>2, <2>3 DEF DefBeyond
    <3>3. ~(k <= page * DefsPerPage)
      BY <2>1, <2>3, <3>2 DEF DefsOn, PageOf
    <3> QED
      BY <3>1, <3>3
  <2> QED
    BY <2>3 DEF DefBeyond
<1> QED
  BY <1>1, <1>2 DEF Found, page

\* The walk ends short of a definition only beyond the cap.
LEMMA DefsAllRead ==
  ASSUME EventInv, NEW c \in Slots, WalkedAll(c), NEW d \in DefIds, defs[d] # NoDef,
         DefBeyond(d, Reached(c).page * DefsPerPage)
  PROVE  Len(DefListing) > DefsPerPage * MaxDefPages
<1> DEFINE page == Reached(c).page
<1>0. page \in Nat \ {0} /\ DefsPerPage \in Nat \ {0} /\ MaxDefPages \in Nat \ {0}
  BY ReachedType, EventBoundsAssumption
<1>1. WalkedAll(c) <=> Cardinality(DefsOn(page)) < DefsPerPage \/ page = MaxDefPages
  BY DEF WalkedAll
<1>2. DefBeyond(d, page * DefsPerPage)
  OBVIOUS
<1> HIDE DEF page
<1>3. PICK k \in 1..Len(DefListing) : DefListing[k] = d
  BY DefListingFacts DEF Lists, DefsThere
<1>4. k \in DOMAIN DefListing /\ Len(DefListing) \in Nat
  BY DefListingFacts DEF Lists
<1>5. k > page * DefsPerPage
  BY <1>2, <1>3, <1>4 DEF DefBeyond
<1>6. page * DefsPerPage \in Nat
  BY <1>0
<1>7. Len(DefListing) > page * DefsPerPage
  BY <1>4, <1>5, <1>6
<1>8. ~(Cardinality(DefsOn(page)) < DefsPerPage)
  <2>1. ASSUME Cardinality(DefsOn(page)) < DefsPerPage PROVE FALSE
    <3>1. Cardinality(PageOf(DefListing, DefsPerPage, page)) < DefsPerPage
      BY <2>1 DEF DefsOn
    <3>2. Len(DefListing) < page * DefsPerPage
      BY <1>0, <3>1, DefListingFacts, ShortPage
    <3> QED
      BY <1>4, <1>6, <1>7, <3>2
  <2> QED
    BY <2>1
<1>9. page = MaxDefPages
  BY <1>1, <1>8
<1>10. MaxDefPages * DefsPerPage = DefsPerPage * MaxDefPages
  BY <1>0
<1> QED
  BY <1>7, <1>9, <1>10

LEMMA WalkDefsKeeps ==
  ASSUME EventInv, NEW c \in Slots, WalkDefs(c) PROVE EventInv'
<1>0. pc[c] = "walk_defs" /\ pc[c] \in EventLabels /\ EventsUnchanged /\ "rewalk_defs" \in EventLabels
  BY DEF WalkDefs, EventLabels
<1>1. CASE ~WalkedAll(c) /\ Continue(c, "walk_defs", [page |-> Reached(c).page + 1, found |-> Found(c)])
  <2>1. EventCalls' /\ Echoed' /\ OthersStand(c) /\ shown' = shown /\ pc'[c] = pc[c]
    BY <1>0, <1>1, DefsTurned
  <2>2. EventCallOk(c)'
    BY <1>0, <2>1, EventPlainOk DEF EventPlain
  <2> QED
    BY <1>0, <2>1, <2>2, EventQuietStep
<1>2. CASE Gate(c, {NotifHash(req[c].op.notif, Found(c))}, "rewalk_defs", NothingGot)
  <2>1. req[c].op.notif \in NotifIds /\ Found(c) \in SUBSET DefIds
    BY <1>0, EventInvFacts, EventReqFacts, ReachedType
  <2>2. {NotifHash(req[c].op.notif, Found(c))} \in SUBSET NotifToken
    BY <2>1 DEF NotifHash, NotifToken
  <2>3. ASSUME Passed(c, {NotifHash(req[c].op.notif, Found(c))}, "rewalk_defs", NothingGot)
        PROVE  EventCallOk(c)'
    <3>1. pc'[c] = "rewalk_defs" /\ got'[c] = NothingGot /\ req'[c] = req[c]
      BY <2>3 DEF Passed
    <3>2. Reached(c)' = FirstPage
      BY <3>1 DEF Reached
    <3>3. defs' = defs /\ eventDrift' = eventDrift
      BY <1>0 DEF EventsUnchanged, eventWorld
    <3>4. \A k \in DOMAIN DefListing' : k > (FirstPage.page - 1) * DefsPerPage
      <4>1. DefListing' = DefListing
        BY <3>3 DEF DefListing
      <4>2. (FirstPage.page - 1) * DefsPerPage = 0
        BY EventBoundsAssumption DEF FirstPage
      <4> QED
        BY <4>1, <4>2, DefListingFacts DEF Lists
    <3>5. DefsAhead(c)'
      BY <3>2, <3>4 DEF DefsAhead, DefBeyond, FirstPage
    <3> QED
      BY <3>1, <3>5 DEF EventCallOk
  <2> QED
    BY <1>0, <1>2, <2>2, <2>3, EventGateKeeps
<1> QED
  BY <1>1, <1>2 DEF WalkDefs

LEMMA RewalkDefsKeeps ==
  ASSUME EventInv, NEW c \in Slots, RewalkDefs(c) PROVE EventInv'
<1> DEFINE n == req[c].op.notif
<1>0. pc[c] = "rewalk_defs" /\ pc[c] \in EventLabels /\ "delete_notification" \in EventLabels
  BY DEF RewalkDefs, EventLabels
<1>1. CASE /\ ~WalkedAll(c) /\ Continue(c, "rewalk_defs", [page |-> Reached(c).page + 1, found |-> Found(c)])
           /\ EventsUnchanged
  <2>1. /\ EventCalls' /\ Echoed' /\ OthersStand(c) /\ shown' = shown /\ pc'[c] = pc[c] /\ req'[c] = req[c]
        /\ Reached(c)' = [page |-> Reached(c).page + 1, found |-> Found(c)]
    BY <1>0, <1>1, DefsTurned
  <2>2. defs' = defs /\ eventDrift' = eventDrift
    BY <1>1 DEF EventsUnchanged, eventWorld
  <2>3. DefListing' = DefListing
    BY <2>2 DEF DefListing
  <2>4. Reached(c)'.found = Found(c) /\ Reached(c)'.page - 1 = Reached(c).page
    BY <2>1, ReachedType
  <2>5. DefsAhead(c)'
    <3>1. ASSUME NoDef \notin eventDrift[c], NEW d \in DefIds \ eventDrift[c]
          PROVE  /\ d \in Found(c) => RefersTo(defs, d, n)
                 /\ RefersTo(defs, d, n) => d \in Found(c)
                      \/ \A k \in DOMAIN DefListing : DefListing[k] = d => k > Reached(c).page * DefsPerPage
      BY <1>0, <3>1, DefsPageRead DEF DefBeyond
    <3> QED
      BY <2>1, <2>2, <2>3, <2>4, <3>1 DEF DefsAhead, DefBeyond
  <2>6. EventCallOk(c)'
    BY <1>0, <2>1, <2>5 DEF EventCallOk
  <2> QED
    BY <1>1, <2>1, <2>6, EventQuietStep
<1>2. CASE /\ WalkedAll(c) /\ req[c].confirm = {NotifHash(n, Found(c))}
           /\ Continue(c, "delete_notification", NothingGot) /\ EventsUnchanged
  <2>1. /\ EventCalls' /\ Echoed' /\ OthersStand(c) /\ shown' = shown
        /\ pc'[c] = "delete_notification" /\ req'[c] = req[c]
    BY <1>0, <1>2, EventContinueFacts
  <2>2. defs' = defs /\ eventDrift' = eventDrift
    BY <1>2 DEF EventsUnchanged, eventWorld
  <2>3. DefListing' = DefListing
    BY <2>2 DEF DefListing
  <2> DEFINE t == NotifHash(n, Found(c))
  <2>4. t \in shown /\ t.notif = n /\ t.defs = Found(c)
    <3>1. req[c].confirm \subseteq shown
      BY <1>0, EventInvFacts DEF Echoed, Ended
    <3> QED
      BY <1>2, <3>1 DEF NotifHash
  <2> HIDE DEF t
  <2>5. \/ NoDef \in eventDrift[c]
        \/ Len(DefListing) > DefsPerPage * MaxDefPages
        \/ \A d \in DefIds \ eventDrift[c] : (d \in Found(c)) = RefersTo(defs, d, n)
    <3> SUFFICES ASSUME NoDef \notin eventDrift[c], ~(Len(DefListing) > DefsPerPage * MaxDefPages),
                        NEW d \in DefIds \ eventDrift[c]
                 PROVE  (d \in Found(c)) = RefersTo(defs, d, n)
      OBVIOUS
    <3>1. /\ d \in Found(c) => RefersTo(defs, d, n)
          /\ RefersTo(defs, d, n) => d \in Found(c) \/ DefBeyond(d, Reached(c).page * DefsPerPage)
      BY <1>0, DefsPageRead
    <3>2. RefersTo(defs, d, n) => ~DefBeyond(d, Reached(c).page * DefsPerPage)
      BY <1>2, DefsAllRead DEF RefersTo
    <3>3. RefersTo(defs, d, n) \in BOOLEAN
      BY DEF RefersTo
    <3> QED
      BY <3>1, <3>2, <3>3
  <2>6. NotifCovered(c)'
    BY <2>1, <2>2, <2>3, <2>4, <2>5 DEF NotifCovered
  <2>7. EventCallOk(c)'
    BY <2>1, <2>6 DEF EventCallOk
  <2> QED
    BY <1>2, <2>1, <2>7, EventQuietStep
<1>3. CASE EventReturns(c, "failed")
  BY <1>3, EventReturnsKeeps DEF Ended
<1> QED
  BY <1>1, <1>2, <1>3 DEF RewalkDefs

LEMMA EventsBecomeKeeps ==
  ASSUME EventInv, NEW c \in Slots, NEW ds \in [DefIds -> DefDoc \union {NoDef}],
         NEW ns \in [NotifIds -> NotifDoc \union {NoNotif}], EventsBecome(c, ds, ns)
  PROVE  EventInv'
<1>1. PICK how \in Ended : Finish(c, how)
  BY DEF EventsBecome, Ended
<1>2. EventCalls' /\ Echoed' /\ OthersStand(c) /\ shown' = shown /\ EventCallOk(c)'
  BY <1>1, EventFinishFacts
<1>3. EventWorldTypes
  BY EventInvFacts
<1>4. /\ EventsDrift(ds) \in [Slots -> SUBSET (DefIds \union {NoDef})]
      /\ [EventsDrift(ds) EXCEPT ![c] = {}] \in [Slots -> SUBSET (DefIds \union {NoDef})]
  BY <1>3, EventsDriftType DEF EventWorldTypes
<1>5. EventWorldTypes'
  BY <1>3, <1>4 DEF EventsBecome, EventWorldTypes
<1>6. ASSUME NEW d \in Slots \ {c} PROVE EventWorldKept(d)
  <2>1. defs' = ds /\ eventDrift' = [EventsDrift(ds) EXCEPT ![c] = {}]
    BY DEF EventsBecome
  <2>2. eventDrift'[d] = EventsDrift(ds)[d]
    BY <1>4, <2>1
  <2> QED
    BY <2>1, <2>2 DEF EventWorldKept
<1> QED
  BY <1>2, <1>5, <1>6, EventCallStep

LEMMA EventWritesKeep ==
  ASSUME EventInv, NEW c \in Slots, WriteDef(c) \/ WriteNotif(c) \/ DeleteNotif(c) PROVE EventInv'
<1> DEFINE op == req[c].op
<1>0. /\ EventWorldTypes /\ op \in EventOps /\ op.def \in DefIds /\ op.notif \in NotifIds
      /\ defs \in [DefIds -> DefDoc \union {NoDef}] /\ notifs \in [NotifIds -> NotifDoc \union {NoNotif}]
  <2>1. pc[c] \in EventLabels
    BY DEF WriteDef, WriteNotif, DeleteNotif, EventLabels
  <2> QED
    BY <2>1, EventInvFacts, EventReqFacts DEF EventWorldTypes
<1>1. CASE WriteDef(c)
  <2>1. NewDef(op) \in DefDoc \union {NoDef}
    BY <1>0, <1>1, NewDefType DEF WriteDef
  <2>2. [defs EXCEPT ![op.def] = NewDef(op)] \in [DefIds -> DefDoc \union {NoDef}]
    BY <1>0, <2>1
  <2> QED
    BY <1>0, <1>1, <2>2, EventsBecomeKeeps DEF WriteDef
<1>2. CASE WriteNotif(c)
  <2>1. PICK d \in ConfigAfter(op, notifs[op.notif]) : EventsBecome(c, defs, [notifs EXCEPT ![op.notif] = d])
    BY <1>2 DEF WriteNotif
  <2>2. d \in NotifDoc \union {NoNotif}
    BY <1>0, ConfigAfterType
  <2>3. [notifs EXCEPT ![op.notif] = d] \in [NotifIds -> NotifDoc \union {NoNotif}]
    BY <1>0, <2>2
  <2> QED
    BY <1>0, <2>1, <2>3, EventsBecomeKeeps
<1>3. CASE DeleteNotif(c)
  <2>1. [notifs EXCEPT ![op.notif] = NoNotif] \in [NotifIds -> NotifDoc \union {NoNotif}]
    BY <1>0
  <2> QED
    BY <1>0, <1>3, <2>1, EventsBecomeKeeps DEF DeleteNotif
<1> QED
  BY <1>1, <1>2, <1>3

LEMMA EditEventsKeeps ==
  ASSUME EventInv, EditEvents \/ UNCHANGED eventVars PROVE EventInv'
<1>0. EventWorldTypes
  BY EventInvFacts
<1>1. UNCHANGED callVars /\ notifs' = notifs
  BY DEF EditEvents, eventVars, eventWorld
<1>2. EventCalls' /\ Echoed'
  BY <1>1, EventInvFacts, EchoedUnmoved DEF EventCalls, CallsTypeOK, callVars
<1>3. \A d \in Slots : EventWorldKept(d)
  BY DEF EditEvents, EventWorldKept, eventVars, eventWorld
<1>4. EventWorldTypes'
  <2>1. CASE EditEvents
    <3>1. PICK d \in DefIds :
            /\ defs[d] # NoDef
            /\ \/ defs' = [defs EXCEPT ![d] = NoDef]
               \/ \E n \in NotifIds \ defs[d].notifs : defs' = [defs EXCEPT ![d].notifs = @ \union {n}]
      BY <2>1 DEF EditEvents
    <3>2. defs[d] \in DefDoc
      BY <1>0, <3>1 DEF EventWorldTypes
    <3>3. ASSUME NEW n \in NotifIds PROVE [defs[d] EXCEPT !.notifs = @ \union {n}] \in DefDoc
      BY <3>2 DEF DefDoc
    <3>4. defs' \in [DefIds -> DefDoc \union {NoDef}]
      <4>1. CASE defs' = [defs EXCEPT ![d] = NoDef]
        BY <1>0, <4>1 DEF EventWorldTypes
      <4>2. ASSUME NEW n \in NotifIds, defs' = [defs EXCEPT ![d].notifs = @ \union {n}]
            PROVE  defs' \in [DefIds -> DefDoc \union {NoDef}]
        <5>1. defs' = [defs EXCEPT ![d] = [defs[d] EXCEPT !.notifs = @ \union {n}]]
          BY <4>2
        <5> QED
          BY <1>0, <3>3, <5>1 DEF EventWorldTypes
      <4> QED
        BY <3>1, <4>1, <4>2
    <3>5. eventDrift' \in [Slots -> SUBSET (DefIds \union {NoDef})]
      <4>1. eventDrift' = EventsDrift(defs')
        BY <2>1 DEF EditEvents
      <4>2. ASSUME NEW e \in Slots PROVE EventsDrift(defs')[e] \subseteq DefIds \union {NoDef}
        BY <1>0 DEF EventsDrift, EventWorldTypes
      <4> QED
        BY <4>1, <4>2 DEF EventsDrift
    <3>6. eventEdits' \in 0..MaxEventEdits
      BY <1>0, <2>1, EventBoundsAssumption DEF EditEvents, EventWorldTypes
    <3> QED
      BY <1>0, <1>1, <3>4, <3>5, <3>6 DEF EventWorldTypes
  <2>2. CASE UNCHANGED eventVars
    BY <1>0, <2>2 DEF eventVars, eventWorld, EventWorldTypes
  <2> QED
    BY <2>1, <2>2
<1>5. \A d \in Slots : EventCallOk(d)'
  BY <1>1, <1>3, EventStandingCall DEF callVars
<1> QED
  BY <1>2, <1>4, <1>5, EventTypeParts DEF EventInv

LEMMA EventInvNext == EventInv /\ [EventNext]_eventVars => EventInv'
<1> SUFFICES ASSUME EventInv, [EventNext]_eventVars PROVE EventInv'
  OBVIOUS
<1>1. ASSUME NEW c \in Slots, EventReadFails(c) \/ EventWriteFails(c) PROVE EventInv'
  <2>1. \E how \in Ended : EventReturns(c, how)
    BY <1>1 DEF EventReadFails, EventWriteFails, Ended
  <2> QED
    BY <2>1, EventReturnsKeeps
<1>2. ASSUME NEW c \in Slots, EventStep(c) PROVE EventInv'
  BY <1>1, <1>2, EventBeginKeeps, BuildEventKeeps, WalkDefsKeeps, RewalkDefsKeeps, EventWritesKeep DEF EventStep
<1> QED
  BY <1>2, EditEventsKeeps DEF EventNext

-----------------------------------------------------------------------------
(* Events: conditions *)

\* What visit() returns for a node, given what g holds for the nodes below it.
VisitBody(g, e) ==
  IF IsV6(e) THEN Ref(V7Key(e))
  ELSE [e EXCEPT !.below = [k \in DOMAIN e.below |-> IF k \in Visited THEN g[e.below[k]] ELSE e.below[k]]]
\* g is visit() on the set S of nodes, which holds what is below each of its own.
Visits(g, S) ==
  /\ S \subseteq Exprs /\ \A e \in S : \A k \in DOMAIN e.below : e.below[k] \in S
  /\ DOMAIN g = S /\ \A e \in S : g[e] = VisitBody(g, e)
VisitSets == {S \in SUBSET Exprs : \E g : Visits(g, S)}

\* A node that holds of none below it is met in every set that is not empty.
LEMMA LowestNode ==
  ASSUME NEW T \in SUBSET Exprs, T # {}
  PROVE  \E e \in T : \A k \in DOMAIN e.below : e.below[k] \notin T
  BY ExprsAssumption

\* Agreement below a node is agreement on the node.
LEMMA SameBelow ==
  ASSUME NEW g, NEW h, NEW e, \A k \in DOMAIN e.below : g[e.below[k]] = h[e.below[k]]
  PROVE  VisitBody(g, e) = VisitBody(h, e)
<1>1. [k \in DOMAIN e.below |-> IF k \in Visited THEN g[e.below[k]] ELSE e.below[k]]
        = [k \in DOMAIN e.below |-> IF k \in Visited THEN h[e.below[k]] ELSE e.below[k]]
  OBVIOUS
<1> QED
  BY <1>1 DEF VisitBody

LEMMA VisitsAgree ==
  ASSUME NEW S, NEW T, NEW g, NEW h, Visits(g, S), Visits(h, T), NEW x \in S \cap T
  PROVE  g[x] = h[x]
<1> DEFINE D == {e \in S \cap T : g[e] # h[e]}
<1> SUFFICES ASSUME D # {} PROVE FALSE
  OBVIOUS
<1>1. D \in SUBSET Exprs
  BY DEF Visits
<1>2. PICK e \in D : \A k \in DOMAIN e.below : e.below[k] \notin D
  <2> HIDE DEF D
  <2> QED
    BY <1>1, LowestNode
<1>3. \A k \in DOMAIN e.below : g[e.below[k]] = h[e.below[k]]
  BY <1>2 DEF Visits
<1>4. VisitBody(g, e) = VisitBody(h, e)
  BY <1>3, SameBelow
<1>5. g[e] = VisitBody(g, e) /\ h[e] = VisitBody(h, e) /\ g[e] # h[e]
  BY <1>2 DEF Visits
<1> QED
  BY <1>4, <1>5

\* One function visits every node that some function visits.
VisitHere(e) == CHOOSE x : \E S \in VisitSets : \E g : Visits(g, S) /\ e \in S /\ x = g[e]
LEMMA VisitHereIs ==
  ASSUME NEW S \in VisitSets, NEW g, Visits(g, S), NEW e \in S
  PROVE  VisitHere(e) = g[e]
<1>1. \E x : \E T \in VisitSets : \E h : Visits(h, T) /\ e \in T /\ x = h[e]
  OBVIOUS
<1>2. PICK T \in VisitSets : \E h : Visits(h, T) /\ e \in T /\ VisitHere(e) = h[e]
  BY <1>1 DEF VisitHere
<1>3. PICK h : Visits(h, T) /\ e \in T /\ VisitHere(e) = h[e]
  BY <1>2
<1> QED
  BY <1>3, VisitsAgree

LEMMA VisitedTogether ==
  LET U == UNION VisitSets IN Visits([e \in U |-> VisitHere(e)], U)
<1> DEFINE U == UNION VisitSets
           G == [e \in U |-> VisitHere(e)]
<1>1. U \subseteq Exprs /\ DOMAIN G = U
  BY DEF VisitSets
<1>2. ASSUME NEW e \in U
      PROVE  (\A k \in DOMAIN e.below : e.below[k] \in U) /\ G[e] = VisitBody(G, e)
  <2>1. PICK S \in VisitSets : e \in S
    OBVIOUS
  <2>2. PICK g : Visits(g, S)
    BY DEF VisitSets
  <2>3. \A x \in S : x \in U /\ G[x] = g[x]
    BY <2>2, VisitHereIs
  <2> HIDE DEF U, G
  <2>4. \A k \in DOMAIN e.below : e.below[k] \in S
    BY <2>1, <2>2 DEF Visits
  <2>5. VisitBody(G, e) = VisitBody(g, e)
    BY <2>3, <2>4, SameBelow
  <2>6. g[e] = VisitBody(g, e)
    BY <2>1, <2>2 DEF Visits
  <2> QED
    BY <2>1, <2>3, <2>4, <2>5, <2>6
<1> HIDE DEF U, G
<1>3. Visits(G, U)
  BY <1>1, <1>2 DEF Visits
<1> QED
  BY <1>3 DEF U, G

\* visit() returns for every tree.
LEMMA VisitsAll == UNION VisitSets = Exprs
<1> DEFINE U == UNION VisitSets
           g == [e \in U |-> VisitHere(e)]
<1>0. Visits(g, U)
  BY VisitedTogether
<1>1. U \subseteq Exprs
  BY DEF VisitSets
<1> SUFFICES ASSUME Exprs \ U # {} PROVE FALSE
  BY <1>1
<1>2. PICK e \in Exprs \ U : \A k \in DOMAIN e.below : e.below[k] \notin Exprs \ U
  <2> HIDE DEF U
  <2> QED
    BY LowestNode
<1>3. \A k \in DOMAIN e.below : e.below[k] \in U
  BY <1>2, ExprsAssumption
<1> DEFINE S == U \union {e}
           h == [x \in S |-> IF x = e THEN VisitBody(g, e) ELSE g[x]]
<1> HIDE DEF U, g
<1>4. DOMAIN h = S /\ h[e] = VisitBody(g, e) /\ \A x \in U : h[x] = g[x]
  BY <1>2
<1>5. S \subseteq Exprs /\ \A x \in S : \A k \in DOMAIN x.below : x.below[k] \in U
  BY <1>0, <1>1, <1>2, <1>3 DEF Visits
<1> HIDE DEF h
<1>6. ASSUME NEW x \in S PROVE h[x] = VisitBody(h, x)
  <2>1. VisitBody(h, x) = VisitBody(g, x)
    BY <1>4, <1>5, SameBelow
  <2>2. CASE x = e
    BY <1>4, <2>1, <2>2
  <2>3. CASE x # e
    <3>1. x \in U
      BY <2>3
    <3> QED
      BY <1>0, <1>4, <2>1, <3>1 DEF Visits
  <2> QED
    BY <2>2, <2>3
<1>7. Visits(h, S)
  BY <1>4, <1>5, <1>6 DEF Visits
<1>8. S \in VisitSets
  BY <1>5, <1>7 DEF VisitSets
<1> QED
  BY <1>2, <1>8 DEF U

LEMMA VisitUnfolds == \A e \in Exprs : Visit[e] = VisitBody(Visit, e)
<1> DEFINE G == [e \in Exprs |-> VisitHere(e)]
<1>1. Visits(G, Exprs)
  BY VisitedTogether, VisitsAll
<1>2. G = [e \in Exprs |-> VisitBody(G, e)]
  <2>1. \A e \in Exprs : G[e] = VisitBody(G, e)
    BY <1>1 DEF Visits
  <2>2. G = [e \in Exprs |-> G[e]]
    OBVIOUS
  <2> HIDE DEF G
  <2>3. [e \in Exprs |-> G[e]] = [e \in Exprs |-> VisitBody(G, e)]
    BY <2>1
  <2> QED
    BY <2>2, <2>3
<1> HIDE DEF G
<1>3. \E f : f = [e \in Exprs |-> VisitBody(f, e)]
  BY <1>2
<1>4. Visit = CHOOSE f : f = [e \in Exprs |-> VisitBody(f, e)]
  BY DEF Visit, VisitBody
<1>5. Visit = [e \in Exprs |-> VisitBody(Visit, e)]
  BY <1>3, <1>4
<1> QED
  BY <1>5

\* The nodes met from e going down: what every set with e and all below its own holds.
Down(e) == {n \in AllExprs : \A S \in SUBSET AllExprs :
              e \in S /\ (\A x \in S : \A k \in DOMAIN x.below : x.below[k] \in S) => n \in S}

\* A node that is kept keeps all but what is below it.
LEMMA VisitKeeps ==
  ASSUME NEW e \in Exprs, ~IsV6(e)
  PROVE  /\ Visit[e].type = e.type /\ Visit[e].name = e.name
         /\ DOMAIN Visit[e].below = DOMAIN e.below
         /\ \A k \in DOMAIN e.below : Visit[e].below[k] = Visit[e.below[k]]
<1> DEFINE b == [k \in DOMAIN e.below |-> Visit[e.below[k]]]
<1>0. e = [type |-> e.type, name |-> e.name, below |-> e.below] /\ DOMAIN e.below \subseteq Visited
  BY ExprsAssumption DEF Visited
<1>1. [k \in DOMAIN e.below |-> IF k \in Visited THEN Visit[e.below[k]] ELSE e.below[k]] = b
  BY <1>0
<1>2. Visit[e] = [e EXCEPT !.below = b]
  BY <1>1, VisitUnfolds DEF VisitBody
<1>3. DOMAIN b = DOMAIN e.below /\ \A k \in DOMAIN e.below : b[k] = Visit[e.below[k]]
  OBVIOUS
<1> HIDE DEF b
<1>4. [e EXCEPT !.below = b] = [type |-> e.type, name |-> e.name, below |-> b]
  BY <1>0
<1>5. /\ [type |-> e.type, name |-> e.name, below |-> b].type = e.type
      /\ [type |-> e.type, name |-> e.name, below |-> b].name = e.name
      /\ [type |-> e.type, name |-> e.name, below |-> b].below = b
  OBVIOUS
<1> QED
  BY <1>2, <1>3, <1>4, <1>5

LEMMA VisitReplaces ==
  ASSUME NEW e \in Exprs, IsV6(e)
  PROVE  /\ Visit[e].type = "number-ref" /\ Visit[e].name = V7Key(e) /\ DOMAIN Visit[e].below = {}
<1>1. Visit[e] = Ref(V7Key(e))
  BY VisitUnfolds DEF VisitBody
<1>2. DOMAIN <<>> = {}
  OBVIOUS
<1> QED
  BY <1>1, <1>2 DEF Ref

LEMMA BelowAll ==
  ASSUME NEW e \in AllExprs PROVE \A k \in DOMAIN e.below : e.below[k] \in AllExprs
<1>1. CASE e \in Exprs
  BY <1>1, ExprsAssumption DEF AllExprs
<1>2. ASSUME NEW x \in Exprs, e = Visit[x] PROVE \A k \in DOMAIN e.below : e.below[k] \in AllExprs
  <2>1. CASE IsV6(x)
    BY <1>2, <2>1, VisitReplaces
  <2>2. CASE ~IsV6(x)
    <3>1. \A k \in DOMAIN x.below : x.below[k] \in Exprs
      BY ExprsAssumption
    <3> QED
      BY <1>2, <2>2, <3>1, VisitKeeps DEF AllExprs
  <2> QED
    BY <2>1, <2>2
<1> QED
  BY <1>1, <1>2 DEF AllExprs

LEMMA DownUnfolds ==
  ASSUME NEW e \in AllExprs
  PROVE  Down(e) = {e} \union UNION {Down(e.below[k]) : k \in DOMAIN e.below}
<1> DEFINE R == {e} \union UNION {Down(e.below[k]) : k \in DOMAIN e.below}
<1>0. \A k \in DOMAIN e.below : e.below[k] \in AllExprs
  BY BelowAll
<1>1. R \subseteq AllExprs
  BY DEF Down
<1>2. ASSUME NEW x \in R PROVE \A k \in DOMAIN x.below : x.below[k] \in R
  <2>1. CASE x = e
    <3>1. \A k \in DOMAIN e.below : e.below[k] \in Down(e.below[k])
      BY <1>0 DEF Down
    <3> QED
      BY <2>1, <3>1
  <2>2. ASSUME NEW j \in DOMAIN e.below, x \in Down(e.below[j])
        PROVE  \A k \in DOMAIN x.below : x.below[k] \in R
    <3> SUFFICES ASSUME NEW k \in DOMAIN x.below PROVE x.below[k] \in Down(e.below[j])
      OBVIOUS
    <3>1. x.below[k] \in AllExprs
      BY <1>1, BelowAll
    <3> QED
      BY <2>2, <3>1 DEF Down
  <2> QED
    BY <2>1, <2>2
<1>3. Down(e) \subseteq R
  <2>1. e \in R
    OBVIOUS
  <2> HIDE DEF R
  <2> QED
    BY <1>1, <1>2, <2>1 DEF Down
<1>4. R \subseteq Down(e)
  <2>1. e \in Down(e)
    BY DEF Down
  <2>2. ASSUME NEW k \in DOMAIN e.below, NEW n \in Down(e.below[k]) PROVE n \in Down(e)
    BY <2>2 DEF Down
  <2> QED
    BY <2>1, <2>2
<1> QED
  BY <1>3, <1>4

LEMMA NodesUnfold ==
  \A e \in AllExprs : Nodes[e] = {e} \union UNION {Nodes[e.below[k]] : k \in DOMAIN e.below}
<1> DEFINE N == [e \in AllExprs |-> Down(e)]
<1>1. ASSUME NEW e \in AllExprs PROVE N[e] = {e} \union UNION {N[e.below[k]] : k \in DOMAIN e.below}
  <2>1. \A k \in DOMAIN e.below : N[e.below[k]] = Down(e.below[k])
    BY BelowAll
  <2>2. {N[e.below[k]] : k \in DOMAIN e.below} = {Down(e.below[k]) : k \in DOMAIN e.below}
    BY <2>1
  <2>3. N[e] = Down(e)
    OBVIOUS
  <2> HIDE DEF N
  <2> QED
    BY <2>2, <2>3, DownUnfolds
<1>2. N = [e \in AllExprs |-> N[e]]
  OBVIOUS
<1> HIDE DEF N
<1> DEFINE Is(f) == f = [e \in AllExprs |-> {e} \union UNION {f[e.below[k]] : k \in DOMAIN e.below}]
<1>3. Is(N)
  <2>1. [e \in AllExprs |-> N[e]] = [e \in AllExprs |-> {e} \union UNION {N[e.below[k]] : k \in DOMAIN e.below}]
    BY <1>1
  <2> QED
    BY <1>2, <2>1
<1>4. Nodes = CHOOSE f : Is(f)
  BY DEF Nodes
<1>5. Is(Nodes)
  <2> HIDE DEF Is
  <2> QED
    BY <1>3, <1>4
<1> QED
  BY <1>5

\* The key that a node itself compares with.
OwnKeys(n) == {x \in {n.name} : n.type = "number-ref"} \union {x \in {V7Key(n)} : IsV6(n)}
LEMMA KeysUnfold ==
  ASSUME NEW e \in AllExprs
  PROVE  /\ Keys(e) = OwnKeys(e) \union UNION {Keys(e.below[k]) : k \in DOMAIN e.below}
         /\ HasV6(e) <=> IsV6(e) \/ \E k \in DOMAIN e.below : HasV6(e.below[k])
<1>1. Nodes[e] = {e} \union UNION {Nodes[e.below[k]] : k \in DOMAIN e.below}
  BY NodesUnfold
<1>2. HasV6(e) <=> IsV6(e) \/ \E k \in DOMAIN e.below : HasV6(e.below[k])
  BY <1>1 DEF HasV6
<1>3. \A x, f : x \in Keys(f) <=> \E n \in Nodes[f] : x \in OwnKeys(n)
  <2> SUFFICES ASSUME NEW x, NEW f PROVE x \in Keys(f) <=> \E n \in Nodes[f] : x \in OwnKeys(n)
    OBVIOUS
  <2>1. x \in Keys(f) <=> \/ \E n \in Nodes[f] : n.type = "number-ref" /\ x = n.name
                          \/ \E n \in Nodes[f] : IsV6(n) /\ x = V7Key(n)
    BY Zenon DEF Keys
  <2>2. \A n : x \in OwnKeys(n) <=> (n.type = "number-ref" /\ x = n.name) \/ (IsV6(n) /\ x = V7Key(n))
    BY DEF OwnKeys
  <2> QED
    BY <2>1, <2>2
<1>4. \A x : x \in Keys(e) <=> x \in OwnKeys(e) \/ \E k \in DOMAIN e.below : x \in Keys(e.below[k])
  BY <1>1, <1>3
<1> QED
  BY <1>2, <1>4

\* The migration leaves no node of the old form, and the keys as they were meant.
Migrated(e) == ~HasV6(Visit[e]) /\ Keys(Visit[e]) = Keys(e)
LEMMA VisitMigrates == \A e \in Exprs : Migrated(e)
<1> DEFINE T == {e \in Exprs : ~Migrated(e)}
<1> SUFFICES ASSUME T # {} PROVE FALSE
  OBVIOUS
<1>1. PICK e \in T : \A k \in DOMAIN e.below : e.below[k] \notin T
  <2>1. T \in SUBSET Exprs
    OBVIOUS
  <2> HIDE DEF T
  <2> QED
    BY <2>1, LowestNode
<1> DEFINE v == Visit[e]
<1>2. e \in Exprs /\ e \in AllExprs /\ v \in AllExprs
  BY <1>1 DEF AllExprs
<1>3. \A k \in DOMAIN e.below : e.below[k] \in Exprs /\ Migrated(e.below[k])
  BY <1>1, ExprsAssumption
<1>4. ~Migrated(e)
  BY <1>1
<1>5. /\ Keys(e) = OwnKeys(e) \union UNION {Keys(e.below[k]) : k \in DOMAIN e.below}
      /\ Keys(v) = OwnKeys(v) \union UNION {Keys(v.below[k]) : k \in DOMAIN v.below}
      /\ HasV6(v) <=> IsV6(v) \/ \E k \in DOMAIN v.below : HasV6(v.below[k])
  <2> HIDE DEF T, v
  <2> QED
    BY <1>2, KeysUnfold
<1> HIDE DEF T
<1>6. CASE IsV6(e)
  <2>1. v.type = "number-ref" /\ v.name = V7Key(e) /\ DOMAIN v.below = {} /\ DOMAIN e.below = {}
    <3>1. e.type = "function"
      BY <1>6 DEF IsV6
    <3> QED
      BY <1>2, <1>6, <3>1, VisitReplaces, ExprsAssumption
  <2> HIDE DEF v
  <2>2. ~IsV6(v) /\ e.type # "number-ref"
    BY <1>6, <2>1 DEF IsV6
  <2>3. OwnKeys(v) = {V7Key(e)} /\ OwnKeys(e) = {V7Key(e)}
    BY <1>6, <2>1, <2>2 DEF OwnKeys
  <2>4. Keys(v) = Keys(e) /\ ~HasV6(v)
    BY <1>5, <2>1, <2>2, <2>3
  <2> QED
    BY <1>4, <2>4 DEF Migrated, v
<1>7. CASE ~IsV6(e)
  <2>1. /\ v.type = e.type /\ v.name = e.name /\ DOMAIN v.below = DOMAIN e.below
        /\ \A k \in DOMAIN e.below : v.below[k] = Visit[e.below[k]]
    BY <1>2, <1>7, VisitKeeps
  <2> HIDE DEF v
  <2>2. ~IsV6(v)
    BY <1>7, <2>1 DEF IsV6
  <2>3. OwnKeys(v) = OwnKeys(e)
    BY <1>7, <2>1, <2>2 DEF OwnKeys
  <2>4. \A k \in DOMAIN e.below : ~HasV6(v.below[k]) /\ Keys(v.below[k]) = Keys(e.below[k])
    BY <1>3, <2>1 DEF Migrated
  <2>5. {Keys(v.below[k]) : k \in DOMAIN v.below} = {Keys(e.below[k]) : k \in DOMAIN e.below}
    BY <2>1, <2>4
  <2>6. Keys(v) = Keys(e) /\ ~HasV6(v)
    BY <1>5, <2>1, <2>2, <2>3, <2>4, <2>5
  <2> QED
    BY <1>4, <2>6 DEF Migrated, v
<1> QED
  BY <1>6, <1>7

LEMMA EventMoves ==
  ASSUME EventInv, NEW c \in Slots, EventStep(c) PROVE OthersStand(c)
<1>0. CallShape
  BY EventInvFacts
<1>1. ASSUME NEW how, Finish(c, how) PROVE OthersStand(c)
  BY <1>0, <1>1, FinishMoves
<1>2. ASSUME NEW how, EventReturns(c, how) PROVE OthersStand(c)
  BY <1>1, <1>2 DEF EventReturns
<1>3. ASSUME NEW next, NEW g, Continue(c, next, g) PROVE OthersStand(c)
  BY <1>0, <1>3, ContinueMoves
<1>4. ASSUME NEW token, NEW next, Gate(c, token, next, NothingGot) PROVE OthersStand(c)
  BY <1>0, <1>4, GateMoves
<1>5. ASSUME NEW ds, NEW ns, EventsBecome(c, ds, ns) PROVE OthersStand(c)
  BY <1>1, <1>5 DEF EventsBecome
<1>6. CASE EventBegin(c)
  BY <1>0, <1>6, BeginMoves DEF EventBegin
<1>7. CASE BuildEvent(c) \/ EventReadFails(c) \/ EventWriteFails(c)
  BY <1>1, <1>2, <1>4, <1>7 DEF BuildEvent, EventReadFails, EventWriteFails
<1>8. CASE WalkDefs(c)
  BY <1>3, <1>4, <1>8 DEF WalkDefs
<1>9. CASE RewalkDefs(c)
  BY <1>2, <1>3, <1>9 DEF RewalkDefs
<1>10. CASE WriteDef(c) \/ WriteNotif(c) \/ DeleteNotif(c)
  BY <1>5, <1>10 DEF WriteDef, WriteNotif, DeleteNotif
<1> QED
  BY <1>6, <1>7, <1>8, <1>9, <1>10 DEF EventStep

\* A step in which a call's write changes the definitions is WriteDef.
LEMMA DefWriteStep ==
  ASSUME EventInv, [EventNext]_eventVars, NEW c \in Slots,
         pc[c] = "event_write", pc'[c] # "event_write", defs' # defs
  PROVE  WriteDef(c)
<1>1. ASSUME NEW d \in Slots \ {c}, EventStep(d) PROVE FALSE
  BY <1>1, EventMoves DEF OthersStand
<1>2. ~EditEvents /\ ~UNCHANGED eventVars
  BY DEF EditEvents, eventVars, callVars
<1>3. EventStep(c)
  BY <1>1, <1>2 DEF EventNext
<1>4. ~EventBegin(c) /\ ~BuildEvent(c) /\ ~EventReadFails(c) /\ ~WalkDefs(c) /\ ~RewalkDefs(c)
  BY DEF EventBegin, EventsUnchanged, eventWorld, BuildEvent, EventReadFails, EventReturns, WalkDefs, RewalkDefs
<1>5. ~WriteNotif(c) /\ ~DeleteNotif(c) /\ ~EventWriteFails(c)
  BY DEF WriteNotif, DeleteNotif, EventsBecome, EventWriteFails, EventReturns
<1> QED
  BY <1>3, <1>4, <1>5 DEF EventStep

\* The one condition that is given is the one that is migrated.
LEMMA GivenMigrates ==
  ASSUME NEW S \in SUBSET Exprs, AtMostOne(S), NEW e \in S
  PROVE  ~HasV6(Visit[Given1(S, "")]) /\ Keys(Visit[Given1(S, "")]) = Keys(e)
<1>1. Given1(S, "") \in S
  BY DEF Given1
<1>2. Given1(S, "") = e
  BY <1>1 DEF AtMostOne
<1> QED
  BY <1>2, VisitMigrates DEF Migrated

\* What AlertsAsAsked asks of the definition that op saves.
AsAsked(op, old, new) ==
  /\ \A e \in op.cond : ~HasV6(new.cond) /\ Keys(new.cond) = Keys(e)
  /\ op.cond = {} => new.cond = old.cond
  /\ op.tool # "enable_event_definition" /\ new.enabled => old # NoDef /\ old.enabled
LEMMA NewDefAsAsked ==
  ASSUME EventWorldTypes, NEW op \in EventOps, op.tool \in DefTools,
         (defs[op.def] = NoDef) = (op.tool = "create_event_definition"), NewDef(op) # NoDef
  PROVE  AsAsked(op, defs[op.def], NewDef(op))
<1> DEFINE old == defs[op.def]
           new == NewDef(op)
           migrated == Visit[Given1(op.cond, "")]
<1>0. /\ op.def \in DefIds /\ op.cond \in SUBSET Exprs /\ AtMostOne(op.cond)
      /\ op.tool = "create_event_definition" => op.cond # {}
      /\ op.cond # {} => op.tool \in {"create_event_definition", "update_event_definition"}
  BY EventOpsAssumption DEF EventOp
<1>1. \A e \in op.cond : ~HasV6(migrated) /\ Keys(migrated) = Keys(e)
  BY <1>0, GivenMigrates
<1> HIDE DEF migrated
<1>2. CASE op.tool = "create_event_definition"
  <2>1. new.cond = migrated /\ new.enabled = FALSE
    BY <1>2 DEF NewDef, Scheduled, migrated
  <2> HIDE DEF new
  <2>2. op.cond # {}
    BY <1>0, <1>2
  <2>3. AsAsked(op, old, new)
    BY <1>1, <2>1, <2>2 DEF AsAsked
  <2> QED
    BY <2>3 DEF new
<1>3. CASE op.tool # "create_event_definition"
  <2>1. old # NoDef /\ old \in DefDoc
    BY <1>0, <1>3 DEF EventWorldTypes
  <2>2. CASE op.tool = "update_event_definition"
    <3>1. /\ new.cond = IF op.cond = {} THEN old.cond ELSE migrated
          /\ new.enabled = old.enabled
      BY <2>2 DEF NewDef, Scheduled, migrated
    <3> HIDE DEF new, old
    <3>2. AsAsked(op, old, new)
      BY <1>1, <2>1, <3>1 DEF AsAsked
    <3> QED
      BY <3>2 DEF new, old
  <2>3. CASE op.tool \in {"enable_event_definition", "disable_event_definition"}
    <3>1. op.cond = {}
      BY <1>0, <2>3
    <3>2. new.cond = old.cond /\ (op.tool = "disable_event_definition" => new.enabled = FALSE)
      <4>1. CASE op.tool = "enable_event_definition"
        <5>1. new = [old EXCEPT !.enabled = TRUE]
          BY <4>1 DEF NewDef
        <5> HIDE DEF new, old
        <5> QED
          BY <2>1, <4>1, <5>1 DEF DefDoc
      <4>2. CASE op.tool = "disable_event_definition"
        <5>1. new = [old EXCEPT !.enabled = FALSE]
          BY <4>2 DEF NewDef
        <5> HIDE DEF new, old
        <5> QED
          BY <2>1, <4>2, <5>1 DEF DefDoc
      <4> QED
        BY <2>3, <4>1, <4>2
    <3> HIDE DEF new, old
    <3>3. AsAsked(op, old, new)
      BY <2>3, <3>1, <3>2 DEF AsAsked
    <3> QED
      BY <3>3 DEF new, old
  <2>4. CASE op.tool = "delete_event_definition"
    BY <2>4 DEF NewDef
  <2> QED
    BY <1>3, <2>2, <2>3, <2>4 DEF DefTools
<1> QED
  BY <1>2, <1>3

-----------------------------------------------------------------------------
(* Events: theorems *)

\* The state of the event tools and of the server keeps its type (tools/events).
THEOREM EventTypeCorrect == EventSpec => []EventTypeOK
<1>1. EventInv => EventTypeOK
  BY DEF EventInv
<1> QED
  BY <1>1, EventInvInit, EventInvNext, PTL DEF EventSpec

\* A notification goes only after a preview has named every definition that refers
\* to it and no other, but for what drifts after apply() begins to read the pages
\* again and for what is beyond the cap (delete-event-notification.js:69-102, 113-169).
THEOREM NotificationGoesAsPreviewed == EventSpec => NotificationDeletedKnowing
<1>1. EventInv => [\A c \in Slots : Deletes(c) =>
                     \E t \in shown :
                       /\ t.notif = req[c].op.notif
                       /\ \/ NoDef \in eventDrift[c]
                          \/ Len(DefListing) > DefsPerPage * MaxDefPages
                          \/ \A d \in DefIds \ eventDrift[c] : (d \in t.defs) = RefersTo(defs, d, t.notif)]_eventVars
  BY EventInvFacts DEF EventCallOk, NotifCovered, Deletes
<1> QED
  BY <1>1, EventInvInit, EventInvNext, PTL DEF EventSpec, NotificationDeletedKnowing

\* Conditions that the tools save have no node of the old form and compare the very
\* keys that the given ones meant, for every expression; conditions that are not
\* given stay, and a definition begins to be scheduled by enable_event_definition
\* alone (v6-to-v7-migration.js:92-160, update-event-definition.js:42-87).
THEOREM AlertsSavedAsAsked == EventSpec => AlertsAsAsked
<1>1. ASSUME EventInv, [EventNext]_eventVars, NEW c \in Slots,
             pc[c] = "event_write", pc'[c] # "event_write", defs' # defs, defs'[req[c].op.def] # NoDef
      PROVE  AsAsked(req[c].op, defs[req[c].op.def], defs'[req[c].op.def])
  <2> DEFINE op == req[c].op
  <2>0. WriteDef(c)
    BY <1>1, DefWriteStep
  <2>1. /\ op.tool \in DefTools /\ (defs[op.def] = NoDef) = (op.tool = "create_event_definition")
        /\ defs' = [defs EXCEPT ![op.def] = NewDef(op)]
    BY <2>0 DEF WriteDef, EventsBecome
  <2>2. EventWorldTypes /\ op \in EventOps /\ op.def \in DefIds
    <3>1. pc[c] \in EventLabels
      BY <1>1 DEF EventLabels
    <3> QED
      BY <1>1, <3>1, EventInvFacts, EventReqFacts
  <2>3. defs'[op.def] = NewDef(op)
    BY <2>1, <2>2 DEF EventWorldTypes
  <2> HIDE DEF op
  <2>4. AsAsked(op, defs[op.def], NewDef(op))
    BY <1>1, <2>1, <2>2, <2>3, NewDefAsAsked DEF op
  <2> QED
    BY <2>3, <2>4 DEF op
<1>2. EventInv /\ [EventNext]_eventVars =>
        [\A c \in Slots : pc[c] = "event_write" /\ pc'[c] # "event_write" /\ defs' # defs =>
           LET op  == req[c].op
               old == defs[op.def]
               new == defs'[op.def]
           IN new # NoDef =>
                /\ \A e \in op.cond : ~HasV6(new.cond) /\ Keys(new.cond) = Keys(e)
                /\ op.cond = {} => new.cond = old.cond
                /\ op.tool # "enable_event_definition" /\ new.enabled => old # NoDef /\ old.enabled]_eventVars
  BY <1>1 DEF AsAsked
<1> QED
  BY <1>2, EventInvInit, EventInvNext, PTL DEF EventSpec, AlertsAsAsked

-----------------------------------------------------------------------------
(* The tools side by side *)

\* What begins in an area begins as its component does.
LEMMA AreaBegins ==
  ASSUME AdminInit
  PROVE  /\ area \in Areas
         /\ area = "share"      => ShareInit
         /\ area \in SetAreas   => IndexInit
         /\ area \in RuleAreas  => RuleInit
         /\ area \in DocAreas   => DocInit
         /\ area \in EventAreas => EventInit
<1> USE DEF SetAreas, RuleAreas, DocAreas, EventAreas
<1>1. CallsInit
  BY DEF AdminInit
<1>2. area = "share" => ShareWorldInit
  BY DEF AdminInit
<1>3. area \in SetAreas => SetWorldInit
  BY DEF AdminInit
<1>4. area \in RuleAreas => RuleWorldInit
  BY DEF AdminInit
<1>5. area \in DocAreas => DocWorldInit
  BY DEF AdminInit
<1>6. area \in EventAreas => EventWorldInit
  BY DEF AdminInit
<1>7. area \in Areas
  BY DEF AdminInit, Areas
<1> HIDE DEF SetAreas, RuleAreas, DocAreas, EventAreas
<1> QED
  BY <1>1, <1>2, <1>3, <1>4, <1>5, <1>6, <1>7 DEF ShareInit, IndexInit, RuleInit, DocInit, EventInit

\* A step of the tools is, in each area, a step of its component.
LEMMA AreaSteps ==
  ASSUME [AdminNext]_adminVars
  PROVE  /\ area' = area
         /\ area = "share"      => [ShareNext]_shareVars
         /\ area \in SetAreas   => [IndexNext]_setVars
         /\ area \in RuleAreas  => [RuleNext]_ruleVars
         /\ area \in DocAreas   => [DocNext]_docVars
         /\ area \in EventAreas => [EventNext]_eventVars
<1>1. CASE ShareTools
  BY <1>1 DEF ShareTools, SetAreas, RuleAreas, DocAreas, EventAreas
<1>2. CASE IndexTools
  BY <1>2 DEF IndexTools, SetAreas, RuleAreas, DocAreas, EventAreas
<1>3. CASE PipelineTools
  BY <1>3 DEF PipelineTools, SetAreas, RuleAreas, DocAreas, EventAreas
<1>4. CASE DocTools
  BY <1>4 DEF DocTools, SetAreas, RuleAreas, DocAreas, EventAreas
<1>5. CASE AlertTools
  BY <1>5 DEF AlertTools, SetAreas, RuleAreas, DocAreas, EventAreas
<1>6. CASE UNCHANGED adminVars
  BY <1>6 DEF adminVars, shareVars, setVars, ruleVars, docVars, eventVars
<1> QED
  BY <1>1, <1>2, <1>3, <1>4, <1>5, <1>6 DEF AdminNext

AdminInv ==
  /\ area \in Areas
  /\ area = "share"       => ShareInv
  /\ area \in SetAreas    => IndexInv
  /\ area \in RuleAreas   => RuleInv
  /\ area \in DocAreas    => DocInv
  /\ area \in EventAreas  => EventInv

LEMMA AdminInvInit == AdminInit => AdminInv
  BY AreaBegins, ShareInvInit, IndexInvInit, RuleInvInit, DocInvInit, EventInvInit DEF AdminInv

LEMMA AdminInvNext == AdminInv /\ [AdminNext]_adminVars => AdminInv'
<1> SUFFICES ASSUME AdminInv, [AdminNext]_adminVars PROVE AdminInv'
  OBVIOUS
<1>1. area' = area /\ area \in Areas
  BY AreaSteps DEF AdminInv
<1>2. area = "share" => ShareInv'
  BY AreaSteps, ShareInvNext DEF AdminInv
<1>3. area \in SetAreas => IndexInv'
  BY AreaSteps, IndexInvNext DEF AdminInv
<1>4. area \in RuleAreas => RuleInv'
  BY AreaSteps, RuleInvNext DEF AdminInv
<1>5. area \in DocAreas => DocInv'
  BY AreaSteps, DocInvNext DEF AdminInv
<1>6. area \in EventAreas => EventInv'
  BY AreaSteps, EventInvNext DEF AdminInv
<1> QED
  BY <1>1, <1>2, <1>3, <1>4, <1>5, <1>6 DEF AdminInv

\* In every area the state is one of its component's, whatever tools run there
\* (tools/_register.js).
THEOREM AdminTypeCorrect == AdminSpec => []AdminTypeOK
<1>1. AdminInv => AdminTypeOK
  BY DEF AdminInv, AdminTypeOK, ShareInv, IndexInv, RuleInv, DocInv, EventInv
<1> QED
  BY <1>1, AdminInvInit, AdminInvNext, PTL DEF AdminSpec

\* The tools side by side implement, in each area, the specification of its
\* component: what is proved of the five components holds of the tools as they are
\* registered (tools/_register.js).
THEOREM AreasImplementComponents ==
  AdminSpec => /\ area = "share"      => ShareSpec
               /\ area \in SetAreas   => IndexSpec
               /\ area \in RuleAreas  => RuleToolsSpec
               /\ area \in DocAreas   => DocSpec
               /\ area \in EventAreas => EventSpec
<1>1. AdminInit => /\ area = "share"      => ShareInit
                   /\ area \in SetAreas   => IndexInit
                   /\ area \in RuleAreas  => RuleInit
                   /\ area \in DocAreas   => DocInit
                   /\ area \in EventAreas => EventInit
  BY AreaBegins
<1>2. area = "share" /\ [AdminNext]_adminVars => [ShareNext]_shareVars /\ (area = "share")'
  BY AreaSteps
<1>3. area \in SetAreas /\ [AdminNext]_adminVars => [IndexNext]_setVars /\ (area \in SetAreas)'
  BY AreaSteps
<1>4. area \in RuleAreas /\ [AdminNext]_adminVars => [RuleNext]_ruleVars /\ (area \in RuleAreas)'
  BY AreaSteps
<1>5. area \in DocAreas /\ [AdminNext]_adminVars => [DocNext]_docVars /\ (area \in DocAreas)'
  BY AreaSteps
<1>6. area \in EventAreas /\ [AdminNext]_adminVars => [EventNext]_eventVars /\ (area \in EventAreas)'
  BY AreaSteps
<1>7. AdminSpec /\ area = "share" => ShareSpec
  BY <1>1, <1>2, PTL DEF AdminSpec, ShareSpec
<1>8. AdminSpec /\ area \in SetAreas => IndexSpec
  BY <1>1, <1>3, PTL DEF AdminSpec, IndexSpec
<1>9. AdminSpec /\ area \in RuleAreas => RuleToolsSpec
  BY <1>1, <1>4, PTL DEF AdminSpec, RuleToolsSpec
<1>10. AdminSpec /\ area \in DocAreas => DocSpec
  BY <1>1, <1>5, PTL DEF AdminSpec, DocSpec
<1>11. AdminSpec /\ area \in EventAreas => EventSpec
  BY <1>1, <1>6, PTL DEF AdminSpec, EventSpec
<1> QED
  BY <1>7, <1>8, <1>9, <1>10, <1>11, PTL
=============================================================================
