---------------------------- MODULE TemplateStore_proofs ----------------------------
(***************************************************************************)
(* Proofs about the template store.  The first part is about Drain3: what  *)
(* the clustering of a batch keeps, for any lines and templates.  The      *)
(* second is about StoreFile, the protocol of the store's file, for any    *)
(* number of processes, stores and crashes.  The third shows that the      *)
(* tools of TemplateStore save through that protocol, so that the same     *)
(* holds under them, and what is in the stores that they save.             *)
(***************************************************************************)
EXTENDS TemplateStore, SequenceTheorems, FiniteSetTheorems, TLAPS

-----------------------------------------------------------------------------
(* The clustering: what cluster() keeps while it goes through the lines *)

\* Counting up from 0 to n.
LEMMA Counting ==
  ASSUME NEW n \in Nat, NEW T, 0 \in T, \A i \in 1..n : i - 1 \in T => i \in T
  PROVE  0..n \subseteq T
<1> DEFINE Bad == {i \in 0..n : i \notin T}
<1> SUFFICES ASSUME Bad # {} PROVE FALSE
  OBVIOUS
<1>1. PICK x \in Bad : \A y \in Bad : ~(<<y, x>> \in OpToRel(<, Nat))
  <2>1. Bad \subseteq Nat
    OBVIOUS
  <2> HIDE DEF Bad
  <2> QED
    BY <2>1, NatLessThanWellFounded, WFMin
<1>2. x \in 1..n /\ x - 1 \in 0..n
  <2>1. x \in 0..n /\ x # 0
    OBVIOUS
  <2> HIDE DEF Bad
  <2> QED
    BY <2>1
<1>3. <<x - 1, x>> \in OpToRel(<, Nat)
  BY <1>2 DEF OpToRel
<1>4. x - 1 \notin Bad
  BY <1>1, <1>3
<1> QED
  BY <1>1, <1>2, <1>4

LEMMA ClusterSteps ==
  ASSUME NEW buckets, NEW lines, Len(lines) \in Nat, NEW threshold, NEW maxChildren,
         NEW G, Nothing(buckets) \in G[0],
         \A i \in 1..Len(lines) : \A r \in G[i - 1] :
           Assign(r, lines[i], threshold, maxChildren) \in G[i]
  PROVE  Cluster(buckets, lines, threshold, maxChildren) \in G[Len(lines)]
<1> DEFINE n == Len(lines)
           Next(r, i) == Assign(r, lines[i], threshold, maxChildren)
           Runs(k, f) == f = [i \in 0..k |-> IF i = 0 THEN Nothing(buckets) ELSE Next(f[i - 1], i)]
           T == {k \in 0..n : \E f : Runs(k, f)}
           R == CHOOSE f : Runs(n, f)
           U == {k \in 0..n : R[k] \in G[k]}
<1>1. 0 \in T
  <2>1. Runs(0, [i \in 0..0 |-> Nothing(buckets)])
    OBVIOUS
  <2> HIDE DEF Runs
  <2> QED
    BY <2>1
<1>2. ASSUME NEW k \in 1..n, k - 1 \in T PROVE k \in T
  <2>1. PICK f : Runs(k - 1, f)
    BY <1>2
  <2> DEFINE g == [i \in 0..k |-> IF i < k THEN f[i] ELSE Next(f[k - 1], k)]
  <2>2. \A i \in 0..k : g[i] = IF i = 0 THEN Nothing(buckets) ELSE Next(g[i - 1], i)
    <3>1. \A i \in 0..(k - 1) : f[i] = IF i = 0 THEN Nothing(buckets) ELSE Next(f[i - 1], i)
      BY <2>1
    <3> HIDE DEF Next
    <3> SUFFICES ASSUME NEW i \in 0..k
                 PROVE g[i] = IF i = 0 THEN Nothing(buckets) ELSE Next(g[i - 1], i)
      OBVIOUS
    <3>2. CASE i = 0
      BY <3>1, <3>2
    <3>3. CASE i # 0 /\ i < k
      <4>1. g[i] = f[i] /\ g[i - 1] = f[i - 1] /\ i \in 0..(k - 1)
        BY <3>3
      <4> QED
        BY <3>1, <3>3, <4>1
    <3>4. CASE i = k
      <4>1. g[i] = Next(f[k - 1], k) /\ g[k - 1] = f[k - 1]
        BY <3>4
      <4> QED
        BY <3>4, <4>1
    <3> QED
      BY <3>2, <3>3, <3>4
  <2>3. Runs(k, g)
    <3> HIDE DEF Next
    <3>1. DOMAIN g = 0..k /\ g = [i \in 0..k |-> g[i]]
      OBVIOUS
    <3> HIDE DEF g
    <3> QED
      BY <2>2, <3>1
  <2> HIDE DEF Runs, g
  <2> QED
    BY <2>3
<1>3. n \in T
  <2> HIDE DEF T, Runs
  <2>1. 0..n \subseteq T
    BY <1>1, <1>2, Counting
  <2> QED
    BY <2>1
<1>4. Runs(n, R)
  BY <1>3
<1>5. Cluster(buckets, lines, threshold, maxChildren) = R[n]
  BY DEF Cluster
<1>6. \A i \in 0..n : R[i] = IF i = 0 THEN Nothing(buckets) ELSE Next(R[i - 1], i)
  <2> HIDE DEF R, Next
  <2> QED
    BY <1>4
<1> HIDE DEF R
<1>7. 0 \in U
  BY <1>6
<1>8. ASSUME NEW k \in 1..n, k - 1 \in U PROVE k \in U
  <2>1. R[k] = Next(R[k - 1], k) /\ R[k - 1] \in G[k - 1]
    BY <1>6, <1>8
  <2> QED
    BY <2>1
<1>9. n \in U
  <2> HIDE DEF U
  <2>1. 0..n \subseteq U
    BY <1>7, <1>8, Counting
  <2> QED
    BY <2>1
<1> QED
  BY <1>5, <1>9

-----------------------------------------------------------------------------
LEMMA LineFacts ==
  ASSUME NEW line \in Lines
  PROVE  /\ Len(line) \in Lens /\ Len(line) \in Nat \ {0} /\ DOMAIN line = 1..Len(line)
         /\ line \in [1..Len(line) -> Tokens \union {Wildcard}]
<1>1. PICK n \in Lens : line \in [1..n -> Tokens \union {Wildcard}]
  BY DEF Lines
<1>2. n \in Nat \ {0} /\ Len(line) = n
  BY <1>1, LensAssumption
<1> QED
  BY <1>1, <1>2

\* The bucket b with its template at k taken out and t put last.
LEMMA YoungestFacts ==
  ASSUME NEW b \in Seq(Template), NEW k \in 1..Len(b), NEW t \in Template
  PROVE  LET y == Append(Without(b, k), t)
         IN /\ y \in Seq(Template) /\ Len(y) = Len(b)
            /\ \A i \in 1..Len(b) : y[i] = IF i < k THEN b[i] ELSE IF i < Len(b) THEN b[i + 1] ELSE t
<1> DEFINE p == SubSeq(b, 1, k - 1)
           q == SubSeq(b, k + 1, Len(b))
<1>0. Len(b) \in Nat /\ \A i \in 1..Len(b) : b[i] \in Template
  BY LenProperties, ElementOfSeq
<1>1. /\ p \in Seq(Template) /\ Len(p) = k - 1
      /\ \A i \in 1..(k - 1) : p[i] = b[i]
  <2>1. \A i \in 1..(k - 1) : b[i] \in Template
    BY <1>0
  <2>2. /\ p \in Seq(Template) /\ Len(p) = IF 1 <= k - 1 THEN k - 1 - 1 + 1 ELSE 0
        /\ \A i \in 1..(k - 1 - 1 + 1) : p[i] = b[1 + i - 1]
    BY <1>0, <2>1, SubSeqProperties
  <2> HIDE DEF p
  <2> QED
    BY <1>0, <2>2
<1>2. /\ q \in Seq(Template) /\ Len(q) = Len(b) - k
      /\ \A i \in 1..(Len(b) - k) : q[i] = b[k + i]
  <2>1. \A i \in (k + 1)..Len(b) : b[i] \in Template
    BY <1>0
  <2>2. /\ q \in Seq(Template) /\ Len(q) = IF k + 1 <= Len(b) THEN Len(b) - (k + 1) + 1 ELSE 0
        /\ \A i \in 1..(Len(b) - (k + 1) + 1) : q[i] = b[(k + 1) + i - 1]
    BY <1>0, <2>1, SubSeqProperties
  <2> HIDE DEF q
  <2> QED
    BY <1>0, <2>2
<1>3. Without(b, k) = p \o q
  BY DEF Without
<1> HIDE DEF p, q
<1>4. /\ p \o q \in Seq(Template) /\ Len(p \o q) = Len(p) + Len(q)
      /\ \A i \in 1..(Len(p) + Len(q)) : (p \o q)[i] = IF i <= Len(p) THEN p[i] ELSE q[i - Len(p)]
  BY <1>1, <1>2, ConcatProperties
<1> DEFINE w == p \o q
<1>5. /\ w \in Seq(Template) /\ Len(w) = Len(b) - 1
      /\ \A i \in 1..(Len(b) - 1) : w[i] = IF i < k THEN b[i] ELSE b[i + 1]
  <2>1. \A i \in 1..(Len(b) - 1) : w[i] = IF i < k THEN b[i] ELSE b[i + 1]
    <3> TAKE i \in 1..(Len(b) - 1)
    <3>1. CASE i < k
      BY <1>0, <1>1, <1>2, <1>4, <3>1
    <3>2. CASE ~(i < k)
      <4>1. i - (k - 1) \in 1..(Len(b) - k) /\ k + (i - (k - 1)) = i + 1
        BY <1>0, <3>2
      <4>2. w[i] = q[i - (k - 1)]
        BY <1>0, <1>1, <1>2, <1>4, <3>2
      <4> QED
        BY <1>2, <3>2, <4>1, <4>2
    <3> QED
      BY <3>1, <3>2
  <2> QED
    BY <1>0, <1>1, <1>2, <1>4, <2>1
<1> HIDE DEF w
<1>6. /\ Append(w, t) \in Seq(Template) /\ Len(Append(w, t)) = Len(w) + 1
      /\ \A i \in 1..Len(w) : Append(w, t)[i] = w[i]
      /\ Append(w, t)[Len(w) + 1] = t
  BY <1>5, AppendProperties
<1>7. ASSUME NEW i \in 1..Len(b)
      PROVE  Append(w, t)[i] = IF i < k THEN b[i] ELSE IF i < Len(b) THEN b[i + 1] ELSE t
  <2>1. CASE i < Len(b)
    BY <1>0, <1>5, <1>6, <2>1
  <2>2. CASE i = Len(b)
    BY <1>0, <1>5, <1>6, <2>2
  <2>3. i < Len(b) \/ i = Len(b)
    BY <1>0
  <2> QED
    BY <2>1, <2>2, <2>3
<1> QED
  BY <1>0, <1>3, <1>5, <1>6, <1>7 DEF w

LEMMA PushedFacts ==
  ASSUME NEW b \in Seq(Template), NEW t \in Template, NEW m \in Nat
  PROVE  LET y == Pushed(b, t, m)
         IN /\ y \in Seq(Template)
            /\ \E d \in {0, 1} :
                 /\ Len(y) = Len(b) + 1 - d
                 /\ \A i \in 1..Len(y) : y[i] = IF i + d <= Len(b) THEN b[i + d] ELSE t
<1> DEFINE w == Append(b, t)
<1>0. Len(b) \in Nat
  BY LenProperties
<1>1. /\ w \in Seq(Template) /\ Len(w) = Len(b) + 1
      /\ \A i \in 1..Len(b) : w[i] = b[i]
      /\ w[Len(b) + 1] = t
  BY AppendProperties
<1>2. Pushed(b, t, m) = IF Len(w) > m THEN Tail(w) ELSE w
  BY DEF Pushed
<1> HIDE DEF w
<1>3. CASE Len(w) > m
  <2>1. /\ Tail(w) \in Seq(Template) /\ Len(Tail(w)) = Len(w) - 1
        /\ \A i \in 1..Len(Tail(w)) : Tail(w)[i] = w[i + 1]
    <3>1. w # <<>>
      BY <1>0, <1>1, EmptySeq
    <3> QED
      BY <1>1, <3>1, HeadTailProperties
  <2>2. \A i \in 1..Len(b) : Tail(w)[i] = IF i + 1 <= Len(b) THEN b[i + 1] ELSE t
    BY <1>0, <1>1, <2>1
  <2> QED
    BY <1>0, <1>1, <1>2, <1>3, <2>1, <2>2
<1>4. CASE ~(Len(w) > m)
  <2>1. \A i \in 1..(Len(b) + 1) : w[i] = IF i + 0 <= Len(b) THEN b[i + 0] ELSE t
    BY <1>0, <1>1
  <2> QED
    BY <1>0, <1>1, <1>2, <1>4, <2>1
<1> QED
  BY <1>3, <1>4

LEMMA AssignCases ==
  ASSUME NEW r, NEW line \in Lines, NEW threshold, NEW maxChildren
  PROVE  \/ /\ Similar(r.buckets[Len(line)], line, threshold) = {}
            /\ Assign(r, line, threshold, maxChildren) = Learn(r, line, maxChildren)
         \/ \E k \in Similar(r.buckets[Len(line)], line, threshold) :
              /\ k \in DOMAIN r.buckets[Len(line)]
              /\ Assign(r, line, threshold, maxChildren) = Reinforce(r, line, k)
<1> DEFINE ks == Similar(r.buckets[Len(line)], line, threshold)
<1>1. ks \subseteq DOMAIN r.buckets[Len(line)]
  BY DEF Similar, Best
<1>2. Assign(r, line, threshold, maxChildren) =
        IF ks = {} THEN Learn(r, line, maxChildren) ELSE Reinforce(r, line, CHOOSE k \in ks : TRUE)
  BY DEF Assign
<1> HIDE DEF ks
<1>3. CASE ks # {}
  <2>1. (CHOOSE k \in ks : TRUE) \in ks
    BY <1>3
  <2> QED
    BY <1>1, <1>2, <1>3, <2>1 DEF ks
<1> QED
  BY <1>2, <1>3 DEF ks

Touched == UNION {[ids -> Lines] : ids \in SUBSET Lines}
\* What cluster() keeps has the types it should.
Results == [buckets : Buckets, assigned : Seq(Lines), touched : Touched, evicted : SUBSET Lines]

LEMMA RelaxType ==
  ASSUME NEW tokens \in Lines, NEW line \in Lines
  PROVE  Relax(tokens, line) \in Lines
<1>1. PICK n \in Lens : tokens \in [1..n -> Tokens \union {Wildcard}]
  BY DEF Lines
<1>2. Relax(tokens, line) \in [1..n -> Tokens \union {Wildcard}]
  BY <1>1 DEF Relax
<1> QED
  BY <1>2 DEF Lines

LEMMA TouchType ==
  ASSUME NEW touched \in Touched,
         NEW id \in Lines, NEW tokens \in Lines, NEW before
  PROVE  Touch(touched, id, tokens, before) \in Touched
<1>1. PICK ids \in SUBSET Lines : touched \in [ids -> Lines]
  BY DEF Touched
<1>2. Touch(touched, id, tokens, before) \in [ids \union {id} -> Lines]
  BY <1>1 DEF Touch
<1> QED
  BY <1>2 DEF Touched

LEMMA AssignType ==
  ASSUME NEW r \in Results, NEW line \in Lines, NEW threshold, NEW m \in Nat
  PROVE  Assign(r, line, threshold, m) \in Results
<1> DEFINE n == Len(line)
           b == r.buckets[n]
<1>1. n \in Lens /\ b \in Seq(Template) /\ r.buckets \in [Lens -> Seq(Template)]
  BY LineFacts DEF Results, Buckets
<1>2. /\ r.assigned \in Seq(Lines) /\ r.evicted \in SUBSET Lines
      /\ r.touched \in Touched
  BY DEF Results
<1>3. ASSUME NEW k \in DOMAIN b, Assign(r, line, threshold, m) = Reinforce(r, line, k)
      PROVE  Assign(r, line, threshold, m) \in Results
  <2> DEFINE t == b[k]
             relaxed == Relax(t.tokens, line)
             new == [id |-> t.id, tokens |-> relaxed]
             bs == [r.buckets EXCEPT ![n] = Append(Without(@, k), new)]
             as == Append(r.assigned, t.id)
             ts == Touch(r.touched, t.id, relaxed, t.tokens)
  <2>1. k \in 1..Len(b) /\ t \in Template
    <3> HIDE DEF b
    <3>1. k \in 1..Len(b)
      BY <1>1, LenProperties
    <3> QED
      BY <1>1, <3>1, ElementOfSeq
  <2>2. t.id \in Lines /\ relaxed \in Lines /\ new \in Template
    BY <2>1, RelaxType DEF Template
  <2>3. Reinforce(r, line, k) = [buckets |-> bs, assigned |-> as, touched |-> ts, evicted |-> r.evicted]
    BY DEF Reinforce
  <2>4. Append(Without(b, k), new) \in Seq(Template)
    BY <1>1, <2>1, <2>2, YoungestFacts
  <2>5. bs \in Buckets
    BY <1>1, <2>4 DEF Buckets
  <2>6. as \in Seq(Lines)
    BY <1>2, <2>2, AppendProperties
  <2>7. ts \in Touched
    BY <1>2, <2>2, TouchType
  <2> HIDE DEF bs, as, ts
  <2>8. [buckets |-> bs, assigned |-> as, touched |-> ts, evicted |-> r.evicted] \in Results
    BY <1>2, <2>5, <2>6, <2>7 DEF Results
  <2> QED
    BY <1>3, <2>3, <2>8
<1>4. ASSUME Assign(r, line, threshold, m) = Learn(r, line, m)
      PROVE  Assign(r, line, threshold, m) \in Results
  <2> DEFINE new == [id |-> line, tokens |-> line]
             after == Pushed(b, new, m)
             bs == [r.buckets EXCEPT ![n] = after]
             as == Append(r.assigned, line)
             ts == Touch(r.touched, line, line, line)
             es == r.evicted \union (({b[i].id : i \in DOMAIN b} \union {line})
                                      \ {after[i].id : i \in DOMAIN after})
  <2>1. new \in Template
    BY DEF Template
  <2>2. after \in Seq(Template)
    BY <1>1, <2>1, PushedFacts
  <2>3. Learn(r, line, m) = [buckets |-> bs, assigned |-> as, touched |-> ts, evicted |-> es]
    BY DEF Learn
  <2>4. bs \in Buckets
    BY <1>1, <2>2 DEF Buckets
  <2>5. as \in Seq(Lines)
    BY <1>2, AppendProperties
  <2>6. ts \in Touched
    BY <1>2, TouchType
  <2>7. \A i \in DOMAIN b : b[i].id \in Lines
    <3> HIDE DEF b
    <3>1. \A i \in DOMAIN b : b[i] \in Template
      BY <1>1, LenProperties, ElementOfSeq
    <3> QED
      BY <3>1 DEF Template
  <2>8. es \in SUBSET Lines
    BY <1>2, <2>7
  <2> HIDE DEF bs, as, ts, es
  <2>9. [buckets |-> bs, assigned |-> as, touched |-> ts, evicted |-> es] \in Results
    BY <2>4, <2>5, <2>6, <2>8 DEF Results
  <2> QED
    BY <1>4, <2>3, <2>9
<1> QED
  BY <1>3, <1>4, AssignCases

LEMMA NothingType ==
  ASSUME NEW buckets \in Buckets PROVE Nothing(buckets) \in Results
<1>1. <<>> \in Seq(Lines)
  BY EmptySeq
<1>2. <<>> \in [{} -> Lines]
  OBVIOUS
<1> QED
  BY <1>1, <1>2 DEF Nothing, Results, Touched

LEMMA ClusterType ==
  ASSUME NEW buckets \in Buckets, NEW lines \in Seq(Lines), NEW threshold, NEW m \in Nat
  PROVE  Cluster(buckets, lines, threshold, m) \in Results
<1> DEFINE G == [i \in 0..Len(lines) |-> Results]
<1>0. Len(lines) \in Nat /\ \A i \in 1..Len(lines) : lines[i] \in Lines
  BY LenProperties, ElementOfSeq
<1>2. Nothing(buckets) \in G[0]
  BY <1>0, NothingType
<1>3. \A i \in 1..Len(lines) : \A r \in G[i - 1] : Assign(r, lines[i], threshold, m) \in G[i]
  BY <1>0, AssignType
<1>4. G[Len(lines)] = Results
  BY <1>0
<1> HIDE DEF G
<1> QED
  BY <1>0, <1>2, <1>3, <1>4, ClusterSteps

-----------------------------------------------------------------------------
LEMMA ScoreFacts ==
  ASSUME NEW tokens, NEW line \in Lines
  PROVE  /\ Score(tokens, line) \in Nat /\ Score(tokens, line) <= Len(line)
         /\ Covers(tokens, line) => Score(tokens, line) = Len(line)
<1> DEFINE S == {i \in DOMAIN line : Matches(tokens[i], line[i])}
<1>1. Len(line) \in Nat /\ DOMAIN line = 1..Len(line)
  BY LineFacts
<1>2. IsFiniteSet(1..Len(line)) /\ Cardinality(1..Len(line)) = Len(line)
  <2>1. IsFiniteSet(1..Len(line)) /\ Cardinality(1..Len(line)) = IF 1 > Len(line) THEN 0 ELSE Len(line) - 1 + 1
    BY <1>1, FS_Interval
  <2> QED
    BY <1>1, <2>1
<1>3. S \subseteq 1..Len(line)
  BY <1>1
<1>4. Cardinality(S) \in Nat /\ Cardinality(S) <= Len(line)
  <2> HIDE DEF S
  <2>1. IsFiniteSet(S) /\ Cardinality(S) <= Cardinality(1..Len(line))
    BY <1>2, <1>3, FS_Subset
  <2>2. Cardinality(S) \in Nat
    BY <2>1, FS_CardinalityType
  <2> QED
    BY <1>2, <2>1, <2>2
<1>5. ASSUME Covers(tokens, line) PROVE S = 1..Len(line)
  BY <1>1, <1>5 DEF Covers, Matches
<1>6. Score(tokens, line) = Cardinality(S)
  BY DEF Score
<1> HIDE DEF S
<1> QED
  BY <1>2, <1>4, <1>5, <1>6

\* A line that a template covers finds a template.
LEMMA CoveredIsSimilar ==
  ASSUME NEW b \in Seq(Template), NEW line \in Lines, NEW threshold \in 0..10,
         NEW k \in DOMAIN b, Covers(b[k].tokens, line)
  PROVE  Similar(b, line, threshold) # {}
<1> DEFINE S(j) == Score(b[j].tokens, line)
           Full == {j \in DOMAIN b : S(j) = Len(line)}
<1>0. DOMAIN b \subseteq Nat /\ Len(line) \in Nat \ {0}
  BY LenProperties, LineFacts
<1>1. \A j \in DOMAIN b : S(j) \in Nat /\ S(j) <= Len(line)
  BY ScoreFacts
<1>2. k \in Full
  BY ScoreFacts
<1>3. PICK x \in Full : \A y \in Full : ~(<<y, x>> \in OpToRel(<, Nat))
  <2>1. Full \subseteq Nat /\ Full # {}
    BY <1>0, <1>2
  <2> HIDE DEF Full
  <2> QED
    BY <2>1, NatLessThanWellFounded, WFMin
<1>4. x \in DOMAIN b /\ x \in Nat /\ S(x) = Len(line)
  BY <1>0
<1>5. ASSUME NEW j \in DOMAIN b PROVE S(j) <= S(x) /\ (j < x => S(j) < S(x))
  <2>1. j < x => j \notin Full
    BY <1>0, <1>3, <1>4 DEF OpToRel
  <2> HIDE DEF S
  <2> QED
    BY <1>0, <1>1, <1>4, <2>1
<1>6. x \in Best(b, line)
  <2>1. S(x) > 0
    <3> HIDE DEF S
    <3> QED
      BY <1>0, <1>4
  <2> QED
    BY <1>4, <1>5, <2>1 DEF Best
<1>7. 10 * S(x) >= threshold * Len(line)
  <2> HIDE DEF S
  <2>1. threshold * Len(line) <= 10 * Len(line)
    BY <1>0
  <2> QED
    BY <1>0, <1>4, <2>1
<1> QED
  BY <1>6, <1>7 DEF Similar

LEMMA RelaxCovers ==
  ASSUME NEW tokens, NEW line, NEW earlier, Covers(tokens, earlier), DOMAIN line = DOMAIN earlier
  PROVE  Covers(Relax(tokens, line), earlier) /\ Covers(Relax(tokens, line), line)
  BY DEF Covers, Relax

\* Of the templates of r: the first i lines are assigned to ones that are touched,
\* which are as reported, and cover their lines unless they have been evicted.
Reports(r, lines, i) ==
  /\ SoundBuckets(r.buckets)
  /\ Len(r.assigned) = i
  /\ \A n \in Lens : \A k \in DOMAIN r.buckets[n] :
       r.buckets[n][k].id \in DOMAIN r.touched =>
         r.touched[r.buckets[n][k].id] = r.buckets[n][k].tokens
  /\ \A j \in 1..i :
       /\ r.assigned[j] \in DOMAIN r.touched
       /\ \/ r.assigned[j] \in r.evicted
          \/ \E k \in DOMAIN r.buckets[Len(lines[j])] :
               LET t == r.buckets[Len(lines[j])][k]
               IN t.id = r.assigned[j] /\ Covers(t.tokens, lines[j])

\* s follows r: a line is assigned to id, whose template is of its length and has the
\* tokens now; the other templates of s are of r, and those of r are in s, relaxed
\* at most, or evicted.
Assigns(r, s, line, id, tokens) ==
  LET b == r.buckets[Len(line)]
      c == s.buckets[Len(line)]
  IN /\ s.assigned = Append(r.assigned, id)
     /\ \E before : s.touched = Touch(r.touched, id, tokens, before)
     /\ r.evicted \subseteq s.evicted
     /\ DOMAIN id = 1..Len(line) /\ Covers(tokens, line)
     /\ \A n \in Lens \ {Len(line)} : s.buckets[n] = r.buckets[n]
     /\ SoundBucket(c, Len(line))
     /\ id \in s.evicted \/ \E k \in DOMAIN c : c[k].id = id
     /\ \A k \in DOMAIN c :
          \/ c[k].id = id /\ c[k].tokens = tokens
          \/ c[k].id # id /\ \E l \in DOMAIN b : b[l] = c[k]
     /\ \A l \in DOMAIN b :
          \/ b[l].id \in s.evicted
          \/ \E k \in DOMAIN c :
               /\ c[k].id = b[l].id
               /\ \A x \in Lines : Len(x) = Len(line) /\ Covers(b[l].tokens, x) => Covers(c[k].tokens, x)

LEMMA ReportsStep ==
  ASSUME NEW r \in Results, NEW s \in Results, NEW lines \in Seq(Lines), NEW i \in 1..Len(lines),
         Reports(r, lines, i - 1), NEW id \in Lines, NEW tokens, Assigns(r, s, lines[i], id, tokens)
  PROVE  Reports(s, lines, i)
<1> DEFINE n == Len(lines[i])
           b == r.buckets[n]
           c == s.buckets[n]
<1>0. /\ Len(lines) \in Nat /\ lines[i] \in Lines /\ n \in Lens /\ n \in Nat
      /\ \A j \in 1..i : lines[j] \in Lines /\ Len(lines[j]) \in Lens
  BY LenProperties, ElementOfSeq, LineFacts
<1>a. /\ s.assigned = Append(r.assigned, id)
      /\ \E before : s.touched = Touch(r.touched, id, tokens, before)
      /\ r.evicted \subseteq s.evicted
      /\ DOMAIN id = 1..n /\ Covers(tokens, lines[i])
      /\ \A m \in Lens \ {n} : s.buckets[m] = r.buckets[m]
      /\ SoundBucket(c, n)
      /\ id \in s.evicted \/ \E k \in DOMAIN c : c[k].id = id
  BY DEF Assigns
<1>b. ASSUME NEW k \in DOMAIN c
      PROVE  \/ c[k].id = id /\ c[k].tokens = tokens
             \/ c[k].id # id /\ \E l \in DOMAIN b : b[l] = c[k]
  BY DEF Assigns
<1>c. ASSUME NEW l \in DOMAIN b
      PROVE  \/ b[l].id \in s.evicted
             \/ \E k \in DOMAIN c :
                  /\ c[k].id = b[l].id
                  /\ \A x \in Lines : Len(x) = n /\ Covers(b[l].tokens, x) => Covers(c[k].tokens, x)
  BY DEF Assigns
<1>1. SoundBuckets(s.buckets)
  BY <1>a DEF Reports, SoundBuckets
<1>2. /\ Len(s.assigned) = i /\ s.assigned[i] = id
      /\ \A j \in 1..(i - 1) : s.assigned[j] = r.assigned[j]
  <2>1. r.assigned \in Seq(Lines) /\ Len(r.assigned) = i - 1
    BY DEF Results, Reports
  <2>2. /\ Len(Append(r.assigned, id)) = Len(r.assigned) + 1
        /\ \A j \in 1..Len(r.assigned) : Append(r.assigned, id)[j] = r.assigned[j]
        /\ Append(r.assigned, id)[Len(r.assigned) + 1] = id
    BY <2>1, AppendProperties
  <2> QED
    BY <1>0, <1>a, <2>1, <2>2
<1>3. /\ DOMAIN s.touched = DOMAIN r.touched \union {id} /\ s.touched[id] = tokens
      /\ \A x \in DOMAIN r.touched : x # id => s.touched[x] = r.touched[x]
  BY <1>a DEF Touch
<1>4. ASSUME NEW m \in Lens, NEW k \in DOMAIN s.buckets[m],
             s.buckets[m][k].id \in DOMAIN s.touched
      PROVE  s.touched[s.buckets[m][k].id] = s.buckets[m][k].tokens
  <2> DEFINE t == s.buckets[m][k]
  <2>1. CASE m # n
    <3>1. s.buckets[m] = r.buckets[m]
      BY <1>a, <2>1
    <3>2. DOMAIN t.id = 1..m
      BY <1>4, <3>1 DEF Reports, SoundBuckets, SoundBucket
    <3>3. 1..m # 1..n
      <4>1. m \in Nat \ {0} /\ n \in Nat \ {0}
        BY <1>0, LensAssumption
      <4> QED
        BY <2>1, <4>1
    <3>4. t.id # id
      BY <1>a, <3>2, <3>3
    <3>5. t.id \in DOMAIN r.touched => r.touched[t.id] = t.tokens
      BY <1>4, <3>1 DEF Reports
    <3> HIDE DEF t
    <3> QED
      BY <1>3, <1>4, <3>4, <3>5 DEF t
  <2>2. CASE m = n
    <3>1. \/ t.id = id /\ t.tokens = tokens
          \/ t.id # id /\ \E l \in DOMAIN b : b[l] = t
      BY <1>4, <1>b, <2>2
    <3>2. \A l \in DOMAIN b : b[l].id \in DOMAIN r.touched => r.touched[b[l].id] = b[l].tokens
      BY <1>0 DEF Reports
    <3>3. t.id \in DOMAIN s.touched
      BY <1>4
    <3> HIDE DEF t, b
    <3>4. s.touched[t.id] = t.tokens
      BY <1>3, <3>1, <3>2, <3>3
    <3> QED
      BY <3>4 DEF t
  <2> QED
    BY <2>1, <2>2
<1>5. ASSUME NEW j \in 1..i
      PROVE  /\ s.assigned[j] \in DOMAIN s.touched
             /\ \/ s.assigned[j] \in s.evicted
                \/ \E k \in DOMAIN s.buckets[Len(lines[j])] :
                     LET t == s.buckets[Len(lines[j])][k]
                     IN t.id = s.assigned[j] /\ Covers(t.tokens, lines[j])
  <2>1. CASE j = i
    <3>1. s.assigned[j] = id
      BY <1>2, <2>1
    <3>2. ASSUME NEW k \in DOMAIN c, c[k].id = id PROVE c[k].tokens = tokens
      BY <1>b, <3>2
    <3> QED
      BY <1>3, <1>a, <2>1, <3>1, <3>2
  <2>2. CASE j # i
    <3>1. j \in 1..(i - 1) /\ s.assigned[j] = r.assigned[j]
      BY <1>0, <1>2, <2>2
    <3>2. s.assigned[j] \in DOMAIN s.touched
      BY <1>3, <3>1 DEF Reports
    <3>3. CASE r.assigned[j] \in r.evicted
      BY <1>a, <3>1, <3>2, <3>3
    <3>4. CASE r.assigned[j] \notin r.evicted
      <4>1. PICK k \in DOMAIN r.buckets[Len(lines[j])] :
              /\ r.buckets[Len(lines[j])][k].id = r.assigned[j]
              /\ Covers(r.buckets[Len(lines[j])][k].tokens, lines[j])
        BY <3>1, <3>4 DEF Reports
      <4>2. CASE Len(lines[j]) # n
        <5>1. s.buckets[Len(lines[j])] = r.buckets[Len(lines[j])]
          BY <1>0, <1>a, <4>2
        <5> QED
          BY <3>1, <3>2, <4>1, <5>1
      <4>3. CASE Len(lines[j]) = n
        <5>1. \/ b[k].id \in s.evicted
              \/ \E m \in DOMAIN c : c[m].id = b[k].id /\ Covers(c[m].tokens, lines[j])
          BY <1>0, <1>c, <4>1, <4>3
        <5> QED
          BY <3>1, <3>2, <4>1, <4>3, <5>1
      <4> QED
        BY <4>2, <4>3
    <3> QED
      BY <3>3, <3>4
  <2> QED
    BY <2>1, <2>2
<1> QED
  BY <1>1, <1>2, <1>4, <1>5 DEF Reports

\* Where the templates of a bucket were, after the one at k has become the youngest.
Before(k, n, j) == IF j < k THEN j ELSE IF j < n THEN j + 1 ELSE k
LEMMA BeforeFacts ==
  ASSUME NEW n \in Nat, NEW k \in 1..n
  PROVE  /\ \A j \in 1..n : Before(k, n, j) \in 1..n /\ (Before(k, n, j) = k <=> j = n)
         /\ \A j, l \in 1..n : Before(k, n, j) = Before(k, n, l) => j = l
         /\ \A l \in 1..n : \E j \in 1..n : Before(k, n, j) = l
<1>1. ASSUME NEW l \in 1..n PROVE \E j \in 1..n : Before(k, n, j) = l
  <2>1. CASE l < k
    BY <2>1 DEF Before
  <2>2. CASE l = k
    <3>1. Before(k, n, n) = l /\ n \in 1..n
      BY <2>2 DEF Before
    <3> QED
      BY <3>1
  <2>3. CASE l > k
    <3>1. Before(k, n, l - 1) = l /\ l - 1 \in 1..n
      BY <2>3 DEF Before
    <3> QED
      BY <3>1
  <2> QED
    BY <2>1, <2>2, <2>3
<1>2. \A j \in 1..n : Before(k, n, j) \in 1..n /\ (Before(k, n, j) = k <=> j = n)
  BY DEF Before
<1>3. \A j, l \in 1..n : Before(k, n, j) = Before(k, n, l) => j = l
  BY DEF Before
<1> QED
  BY <1>1, <1>2, <1>3

LEMMA ReinforceReports ==
  ASSUME NEW r \in Results, NEW lines \in Seq(Lines), NEW i \in 1..Len(lines),
         Reports(r, lines, i - 1),
         NEW k \in DOMAIN r.buckets[Len(lines[i])],
         Reinforce(r, lines[i], k) \in Results
  PROVE  Reports(Reinforce(r, lines[i], k), lines, i)
<1> DEFINE line == lines[i]
           n == Len(line)
           b == r.buckets[n]
           t == b[k]
           relaxed == Relax(t.tokens, line)
           new == [id |-> t.id, tokens |-> relaxed]
           c == Append(Without(b, k), new)
           s == Reinforce(r, line, k)
           At(j) == Before(k, Len(b), j)
<1>0. line \in Lines /\ n \in Lens /\ DOMAIN line = 1..n
  BY LenProperties, ElementOfSeq, LineFacts
<1>1. b \in Seq(Template) /\ r.buckets \in [Lens -> Seq(Template)]
  BY <1>0 DEF Results, Buckets
<1>2. /\ Len(b) \in Nat /\ DOMAIN b = 1..Len(b) /\ k \in 1..Len(b)
      /\ \A j \in 1..Len(b) : b[j] \in Template
  <2> HIDE DEF b
  <2> QED
    BY <1>1, LenProperties, ElementOfSeq DEF b
<1>3. t \in Template /\ t.id \in Lines /\ t.tokens \in Lines
  BY <1>2 DEF Template
<1>4. relaxed \in Lines /\ new \in Template
  BY <1>0, <1>3, RelaxType DEF Template
<1>5. /\ c \in Seq(Template) /\ Len(c) = Len(b)
      /\ \A j \in 1..Len(b) : c[j] = IF j < k THEN b[j] ELSE IF j < Len(b) THEN b[j + 1] ELSE new
  <2> HIDE DEF b, new
  <2> QED
    BY <1>1, <1>2, <1>4, YoungestFacts
<1>6. DOMAIN c = 1..Len(b)
  BY <1>5, LenProperties
<1>7. /\ \A j \in 1..Len(b) : At(j) \in 1..Len(b) /\ (At(j) = k <=> j = Len(b))
      /\ \A j, l \in 1..Len(b) : At(j) = At(l) => j = l
      /\ \A l \in 1..Len(b) : \E j \in 1..Len(b) : At(j) = l
  <2> DEFINE len == Len(b)
  <2>1. len \in Nat /\ k \in 1..len
    BY <1>2
  <2> HIDE DEF len
  <2>2. \A j \in 1..len : Before(k, len, j) \in 1..len /\ (Before(k, len, j) = k <=> j = len)
    BY <2>1, BeforeFacts
  <2>3. \A j, l \in 1..len : Before(k, len, j) = Before(k, len, l) => j = l
    BY <2>1, BeforeFacts
  <2>4. \A l \in 1..len : \E j \in 1..len : Before(k, len, j) = l
    BY <2>1, BeforeFacts
  <2> QED
    BY <2>2, <2>3, <2>4 DEF len
<1>8. \A j \in 1..Len(b) : c[j] = IF j = Len(b) THEN new ELSE b[At(j)]
  <2> TAKE j \in 1..Len(b)
  <2>1. Len(b) \in Nat /\ k \in 1..Len(b)
    BY <1>2
  <2>2. c[j] = IF j < k THEN b[j] ELSE IF j < Len(b) THEN b[j + 1] ELSE new
    BY <1>5
  <2> HIDE DEF b, c, new
  <2> QED
    BY <2>1, <2>2 DEF Before
<1>9. SoundBucket(b, n)
  BY <1>0 DEF Reports, SoundBuckets
<1>10. DOMAIN t.id = 1..n /\ Covers(t.tokens, t.id)
  BY <1>2, <1>9 DEF SoundBucket
<1>11. Covers(relaxed, t.id) /\ Covers(relaxed, line)
  BY <1>0, <1>10, RelaxCovers
<1> HIDE DEF At
<1>12. ASSUME NEW j \in 1..Len(b) PROVE c[j].id = b[At(j)].id
  <2>1. CASE j = Len(b)
    <3>1. At(j) = k /\ c[j] = new /\ b[k] = t
      BY <1>7, <1>8, <2>1
    <3>2. c[j].id = t.id
      <4>1. new.id = t.id
        OBVIOUS
      <4> HIDE DEF c, new
      <4> QED
        BY <3>1, <4>1
    <3> QED
      BY <3>1, <3>2
  <2>2. CASE j # Len(b)
    BY <1>8, <2>2
  <2> QED
    BY <2>1, <2>2
<1>13. SoundBucket(c, n)
  <2>1. ASSUME NEW j \in DOMAIN c, NEW l \in DOMAIN c, c[j].id = c[l].id PROVE j = l
    <3>1. /\ j \in 1..Len(b) /\ l \in 1..Len(b)
          /\ At(j) \in DOMAIN b /\ At(l) \in DOMAIN b /\ b[At(j)].id = b[At(l)].id
      <4> HIDE DEF b, c
      <4> QED
        BY <1>2, <1>6, <1>7, <1>12, <2>1
    <3>2. At(j) = At(l)
      <4> HIDE DEF b
      <4> QED
        BY <1>9, <3>1 DEF SoundBucket
    <3> HIDE DEF b
    <3> QED
      BY <1>7, <3>1, <3>2
  <2>2. ASSUME NEW j \in DOMAIN c PROVE Covers(c[j].tokens, c[j].id) /\ DOMAIN c[j].id = 1..n
    <3>1. CASE j = Len(b)
      <4>1. c[j] = new /\ new.id = t.id /\ new.tokens = relaxed
        BY <1>6, <1>8, <3>1
      <4> HIDE DEF b, c, t, new, relaxed
      <4> QED
        BY <1>10, <1>11, <4>1
    <3>2. CASE j # Len(b)
      <4>1. c[j] = b[At(j)] /\ At(j) \in DOMAIN b
        BY <1>2, <1>6, <1>7, <1>8, <3>2
      <4> HIDE DEF b, c
      <4> QED
        BY <1>9, <4>1 DEF SoundBucket
    <3> QED
      BY <3>1, <3>2
  <2> HIDE DEF c
  <2> QED
    BY <2>1, <2>2 DEF SoundBucket
<1>14. /\ s.buckets = [r.buckets EXCEPT ![n] = c] /\ s.assigned = Append(r.assigned, t.id)
       /\ s.touched = Touch(r.touched, t.id, relaxed, t.tokens) /\ s.evicted = r.evicted
  BY DEF Reinforce
<1>15. s.buckets[n] = c /\ \A l \in Lens \ {n} : s.buckets[l] = r.buckets[l]
  BY <1>0, <1>1, <1>14
<1> HIDE DEF c, s, relaxed
<1>16. \E j \in DOMAIN c : c[j].id = t.id
  <2>1. Len(b) \in 1..Len(b)
    BY <1>2
  <2> QED
    BY <1>6, <1>8, <2>1
<1>17. ASSUME NEW j \in DOMAIN c
       PROVE  \/ c[j].id = t.id /\ c[j].tokens = relaxed
              \/ c[j].id # t.id /\ \E l \in DOMAIN b : b[l] = c[j]
  <2> HIDE DEF b
  <2>1. CASE j = Len(b)
    BY <1>6, <1>8, <2>1
  <2>2. CASE j # Len(b)
    <3>1. c[j] = b[At(j)] /\ At(j) # k /\ At(j) \in DOMAIN b
      BY <1>2, <1>6, <1>7, <1>8, <2>2
    <3>2. b[At(j)].id # b[k].id
      BY <1>2, <1>9, <3>1 DEF SoundBucket
    <3> QED
      BY <3>1, <3>2
  <2> QED
    BY <2>1, <2>2
<1>18. ASSUME NEW l \in DOMAIN b
       PROVE  \E j \in DOMAIN c :
                /\ c[j].id = b[l].id
                /\ \A x \in Lines : Len(x) = n /\ Covers(b[l].tokens, x) => Covers(c[j].tokens, x)
  <2>1. PICK j \in 1..Len(b) : At(j) = l
    BY <1>2, <1>7
  <2>2. CASE j = Len(b)
    <3>1. l = k /\ c[j] = new
      BY <1>7, <1>8, <2>1, <2>2
    <3>2. ASSUME NEW x \in Lines, Len(x) = n, Covers(t.tokens, x) PROVE Covers(relaxed, x)
      BY <1>0, <3>2, LineFacts, RelaxCovers DEF relaxed
    <3> QED
      BY <1>6, <3>1, <3>2
  <2>3. CASE j # Len(b)
    <3>1. c[j] = b[l]
      BY <1>8, <2>1, <2>3
    <3> QED
      BY <1>6, <3>1
  <2> QED
    BY <2>2, <2>3
<1>19. Reports(r, lines, i - 1) /\ s \in Results
  BY DEF s
<1>20. Assigns(r, s, line, t.id, relaxed)
  <2>1. \E before : s.touched = Touch(r.touched, t.id, relaxed, before)
    BY <1>14
  <2>2. s.assigned = Append(r.assigned, t.id) /\ r.evicted \subseteq s.evicted
    BY <1>14
  <2> HIDE DEF n, t
  <2> QED
    BY <1>10, <1>11, <1>13, <1>15, <1>16, <1>17, <1>18, <2>1, <2>2 DEF Assigns, b, n
<1>21. Reports(s, lines, i)
  BY <1>3, <1>19, <1>20, ReportsStep
<1> QED
  BY <1>21 DEF s

LEMMA LearnReports ==
  ASSUME NEW r \in Results, NEW lines \in Seq(Lines), NEW i \in 1..Len(lines),
         NEW threshold \in 0..10, NEW m \in Nat,
         Reports(r, lines, i - 1),
         Similar(r.buckets[Len(lines[i])], lines[i], threshold) = {},
         Learn(r, lines[i], m) \in Results
  PROVE  Reports(Learn(r, lines[i], m), lines, i)
<1> DEFINE line == lines[i]
           n == Len(line)
           b == r.buckets[n]
           new == [id |-> line, tokens |-> line]
           c == Pushed(b, new, m)
           s == Learn(r, line, m)
<1>0. line \in Lines /\ n \in Lens /\ DOMAIN line = 1..n
  BY LenProperties, ElementOfSeq, LineFacts
<1>1. b \in Seq(Template) /\ r.buckets \in [Lens -> Seq(Template)]
  BY <1>0 DEF Results, Buckets
<1>2. Len(b) \in Nat /\ DOMAIN b = 1..Len(b)
  <2> HIDE DEF b
  <2> QED
    BY <1>1, LenProperties DEF b
<1>3. new \in Template
  BY <1>0 DEF Template
<1>4. /\ c \in Seq(Template)
      /\ \E d \in {0, 1} :
           /\ Len(c) = Len(b) + 1 - d
           /\ \A j \in 1..Len(c) : c[j] = IF j + d <= Len(b) THEN b[j + d] ELSE new
  <2> HIDE DEF b, new
  <2> QED
    BY <1>1, <1>3, PushedFacts
<1>5. PICK d \in {0, 1} :
        /\ Len(c) = Len(b) + 1 - d
        /\ \A j \in 1..Len(c) : c[j] = IF j + d <= Len(b) THEN b[j + d] ELSE new
  BY <1>4
<1>6. DOMAIN c = 1..Len(c)
  BY <1>4, LenProperties
<1>7. SoundBucket(b, n)
  BY <1>0 DEF Reports, SoundBuckets
<1>8. ASSUME NEW j \in DOMAIN b PROVE b[j].id # line
  <2> SUFFICES ASSUME b[j].id = line PROVE FALSE
    OBVIOUS
  <2>1. Covers(b[j].tokens, line)
    BY <1>7 DEF SoundBucket
  <2> HIDE DEF b, line
  <2> QED
    BY <1>0, <1>1, <2>1, CoveredIsSimilar DEF b, line
<1>9. Covers(line, line)
  BY DEF Covers
<1>10. /\ s.buckets = [r.buckets EXCEPT ![n] = c] /\ s.assigned = Append(r.assigned, line)
       /\ s.touched = Touch(r.touched, line, line, line)
       /\ s.evicted = r.evicted \union (({b[j].id : j \in DOMAIN b} \union {line})
                                         \ {c[j].id : j \in DOMAIN c})
  BY DEF Learn
<1>11. s.buckets[n] = c /\ \A l \in Lens \ {n} : s.buckets[l] = r.buckets[l]
  BY <1>0, <1>1, <1>10
<1> HIDE DEF c, s, b
<1>12. ASSUME NEW j \in DOMAIN c
       PROVE  IF j + d <= Len(b) THEN c[j] = b[j + d] /\ j + d \in DOMAIN b
              ELSE c[j] = new /\ j = Len(c)
  BY <1>2, <1>5, <1>6
<1>13. SoundBucket(c, n)
  <2>1. ASSUME NEW j \in DOMAIN c, NEW l \in DOMAIN c, c[j].id = c[l].id PROVE j = l
    <3>1. CASE j + d <= Len(b) /\ l + d <= Len(b)
      <4>1. j + d = l + d
        BY <1>7, <1>12, <2>1, <3>1 DEF SoundBucket
      <4> QED
        BY <1>5, <1>6, <4>1
    <3>2. CASE ~(j + d <= Len(b)) /\ ~(l + d <= Len(b))
      BY <1>12, <3>2
    <3>3. CASE (j + d <= Len(b)) # (l + d <= Len(b))
      BY <1>8, <1>12, <2>1, <3>3
    <3> QED
      BY <3>1, <3>2, <3>3
  <2>2. ASSUME NEW j \in DOMAIN c PROVE Covers(c[j].tokens, c[j].id) /\ DOMAIN c[j].id = 1..n
    BY <1>0, <1>7, <1>9, <1>12 DEF SoundBucket
  <2> QED
    BY <2>1, <2>2 DEF SoundBucket
<1>14. line \in s.evicted \/ \E j \in DOMAIN c : c[j].id = line
  BY <1>10
<1>15. ASSUME NEW j \in DOMAIN c
       PROVE  \/ c[j].id = line /\ c[j].tokens = line
              \/ c[j].id # line /\ \E l \in DOMAIN b : b[l] = c[j]
  BY <1>8, <1>12
<1>16. ASSUME NEW l \in DOMAIN b
       PROVE  \/ b[l].id \in s.evicted
              \/ \E j \in DOMAIN c :
                   /\ c[j].id = b[l].id
                   /\ \A x \in Lines : Len(x) = n /\ Covers(b[l].tokens, x) => Covers(c[j].tokens, x)
  <2>1. CASE \A j \in DOMAIN c : c[j].id # b[l].id
    BY <1>10, <2>1
  <2>2. ASSUME NEW j \in DOMAIN c, c[j].id = b[l].id PROVE c[j] = b[l]
    <3>1. PICK q \in DOMAIN b : b[q] = c[j]
      BY <1>8, <1>15, <2>2
    <3> QED
      BY <1>7, <2>2, <3>1 DEF SoundBucket
  <2> QED
    BY <2>1, <2>2
<1>17. Reports(r, lines, i - 1) /\ s \in Results
  BY DEF s
<1>18. r.evicted \subseteq s.evicted
  BY <1>10
<1>19. Assigns(r, s, line, line, line)
  <2>1. \E before : s.touched = Touch(r.touched, line, line, before)
    BY <1>10
  <2>2. s.assigned = Append(r.assigned, line)
    BY <1>10
  <2> HIDE DEF n
  <2> QED
    BY <1>0, <1>9, <1>11, <1>13, <1>14, <1>15, <1>16, <1>18, <2>1, <2>2 DEF Assigns, b, n
<1>20. Reports(s, lines, i)
  BY <1>0, <1>17, <1>19, ReportsStep
<1> QED
  BY <1>20 DEF s

LEMMA AssignReports ==
  ASSUME NEW r \in Results, NEW lines \in Seq(Lines), NEW i \in 1..Len(lines),
         NEW threshold \in 0..10, NEW m \in Nat, Reports(r, lines, i - 1)
  PROVE  Reports(Assign(r, lines[i], threshold, m), lines, i)
<1>1. lines[i] \in Lines
  BY LenProperties, ElementOfSeq
<1>2. Assign(r, lines[i], threshold, m) \in Results
  BY <1>1, AssignType
<1>3. CASE /\ Similar(r.buckets[Len(lines[i])], lines[i], threshold) = {}
           /\ Assign(r, lines[i], threshold, m) = Learn(r, lines[i], m)
  BY <1>2, <1>3, LearnReports
<1>4. ASSUME NEW k \in DOMAIN r.buckets[Len(lines[i])],
             Assign(r, lines[i], threshold, m) = Reinforce(r, lines[i], k)
      PROVE  Reports(Assign(r, lines[i], threshold, m), lines, i)
  BY <1>2, <1>4, ReinforceReports
<1> QED
  BY <1>1, <1>3, <1>4, AssignCases

\* Each line of a batch is reported under a template that covers it, or was evicted.
LEMMA ClusterReports ==
  ASSUME NEW buckets \in Buckets, NEW lines \in Seq(Lines), NEW threshold \in 0..10, NEW m \in Nat,
         SoundBuckets(buckets)
  PROVE  Reports(Cluster(buckets, lines, threshold, m), lines, Len(lines))
<1> DEFINE G == [i \in 0..Len(lines) |-> {r \in Results : Reports(r, lines, i)}]
<1>0. Len(lines) \in Nat /\ \A i \in 1..Len(lines) : lines[i] \in Lines
  BY LenProperties, ElementOfSeq
<1>1. Nothing(buckets) \in G[0]
  <2>1. Nothing(buckets) \in Results
    BY NothingType
  <2>2. Reports(Nothing(buckets), lines, 0)
    BY EmptySeq DEF Nothing, Reports
  <2> QED
    BY <1>0, <2>1, <2>2
<1>2. \A i \in 1..Len(lines) : \A r \in G[i - 1] : Assign(r, lines[i], threshold, m) \in G[i]
  BY <1>0, AssignType, AssignReports
<1>3. G[Len(lines)] = {r \in Results : Reports(r, lines, Len(lines))}
  BY <1>0
<1> HIDE DEF G
<1> QED
  BY <1>0, <1>1, <1>2, <1>3, ClusterSteps

-----------------------------------------------------------------------------
(* The tools: the stores they make *)

LEMMA EmptyStoreFacts == EmptyStore \in TemplateStores /\ SoundBuckets(EmptyStore.buckets)
<1>1. NoBuckets \in Buckets
  BY EmptySeq DEF NoBuckets, Buckets
<1>2. \A n \in Lens : NoBuckets[n] = <<>> /\ DOMAIN NoBuckets[n] = {}
  BY DEF NoBuckets
<1> QED
  BY <1>1, <1>2 DEF EmptyStore, TemplateStores, SoundBuckets, SoundBucket

LEMMA UnderstoodFacts ==
  ASSUME Stores = TemplateStores, NEW content
  PROVE  Understood(content) \in TemplateStores
  BY EmptyStoreFacts DEF Understood

LEMMA ClusteredFacts ==
  ASSUME NEW op \in StoreCalls, NEW s \in TemplateStores
  PROVE  /\ Clustered(op, s) \in Results
         /\ SoundBuckets(s.buckets) => Reports(Clustered(op, s), op.lines, Len(op.lines))
<1>1. /\ op.lines \in Seq(Lines) /\ op.threshold \in 0..10 /\ op.maxChildren \in Nat
      /\ s.buckets \in Buckets
  BY StoreCallsAssumption DEF StoreCall, TemplateStores
<1> QED
  BY <1>1, ClusterType, ClusterReports DEF Clustered

LEMMA TallyType ==
  ASSUME NEW r \in Results, NEW id PROVE Tally(r, id) \in Nat
<1> DEFINE S == {i \in DOMAIN r.assigned : r.assigned[i] = id}
<1>1. Len(r.assigned) \in Nat /\ DOMAIN r.assigned = 1..Len(r.assigned)
  BY LenProperties DEF Results
<1>2. IsFiniteSet(1..Len(r.assigned)) /\ S \subseteq 1..Len(r.assigned)
  BY <1>1, FS_Interval
<1> HIDE DEF S
<1>3. IsFiniteSet(S)
  BY <1>2, FS_Subset
<1>4. Cardinality(S) \in Nat
  BY <1>3, FS_CardinalityType
<1> QED
  BY <1>4 DEF Tally, S

\* A clustering makes entries of entries.
LEMMA CountedType ==
  ASSUME NEW ts \in SUBSET Entry, NEW r \in Results
  PROVE  Counted(ts, r) \in SUBSET Entry
<1>1. PICK ids \in SUBSET Lines : r.touched \in [ids -> Lines]
  BY DEF Results, Touched
<1>2. ASSUME NEW t \in ts, t.id \in DOMAIN r.touched
      PROVE  Reinforced(t, r.touched[t.id], Tally(r, t.id)) \in Entry
  <2>1. t \in Entry /\ r.touched[t.id] \in Lines /\ Tally(r, t.id) \in Nat
    BY <1>1, <1>2, TallyType
  <2>2. t.count + Tally(r, t.id) \in Nat
    BY <2>1 DEF Entry
  <2> QED
    BY <2>1, <2>2 DEF Reinforced, Entry
<1>3. ASSUME NEW i \in DOMAIN r.touched
      PROVE  [id |-> i, tokens |-> r.touched[i], label |-> NoLabel, count |-> Tally(r, i)] \in Entry
  BY <1>1, TallyType DEF Entry
<1> QED
  BY <1>2, <1>3 DEF Counted

LEMMA NewStoreType ==
  ASSUME NEW op \in StoreCalls, NEW s \in TemplateStores
  PROVE  NewStore(op, s) \in TemplateStores
<1>0. /\ op \in StoreCall /\ op.tool \in StoreTools
      /\ s.buckets \in Buckets /\ s.templates \in SUBSET Entry
  BY StoreCallsAssumption DEF StoreCall, TemplateStores
<1>1. CASE op.tool = "cluster_log_messages"
  <2>1. /\ Clustered(op, s).buckets \in Buckets
        /\ Counted(s.templates, Clustered(op, s)) \in SUBSET Entry
    BY <1>0, ClusteredFacts, CountedType DEF Results
  <2> QED
    BY <1>1, <2>1 DEF NewStore, TemplateStores
<1>2. CASE op.tool = "rename_template"
  <2> DEFINE ts == {IF t.id = op.id THEN [t EXCEPT !.label = op.label] ELSE t : t \in s.templates}
  <2>1. op.label \in Labels
    BY <1>0 DEF StoreCall
  <2>2. ts \in SUBSET Entry
    BY <1>0, <2>1 DEF Entry
  <2>3. NewStore(op, s) = [s EXCEPT !.templates = ts]
    BY <1>2 DEF NewStore
  <2> HIDE DEF ts
  <2> QED
    BY <2>2, <2>3 DEF TemplateStores
<1>3. CASE op.tool = "delete_template"
  BY <1>0, <1>3 DEF NewStore, EntryOf, TemplateStores
<1>4. CASE op.tool = "import_templates"
  <2>1. Imported(op, s.templates) \in SUBSET Entry
    BY <1>0 DEF Imported, StoreCall
  <2>2. NewStore(op, s) = [s EXCEPT !.templates = Imported(op, s.templates)]
    BY <1>4 DEF NewStore
  <2> QED
    BY <2>1, <2>2 DEF TemplateStores
<1> QED
  BY <1>0, <1>1, <1>2, <1>3, <1>4 DEF StoreTools

\* Only a clustering changes the buckets.
LEMMA NewStoreSound ==
  ASSUME NEW op \in StoreCalls, NEW s \in TemplateStores, SoundBuckets(s.buckets)
  PROVE  SoundBuckets(NewStore(op, s).buckets)
<1>0. op.tool \in StoreTools /\ s = [buckets |-> s.buckets, templates |-> s.templates]
  BY StoreCallsAssumption DEF StoreCall, TemplateStores
<1>1. CASE op.tool = "cluster_log_messages"
  <2>1. SoundBuckets(Clustered(op, s).buckets)
    BY ClusteredFacts DEF Reports
  <2> QED
    BY <1>1, <2>1 DEF NewStore
<1>2. CASE op.tool # "cluster_log_messages"
  <2>1. NewStore(op, s).buckets = s.buckets
    BY <1>0, <1>2 DEF NewStore, StoreTools
  <2> QED
    BY <2>1
<1> QED
  BY <1>1, <1>2

\* What a call makes of a store that is loaded is a store that a load understands.
LEMMA TheStoresAreClosed == ASSUME Stores = TemplateStores PROVE StoresClosed
  BY EmptyStoreFacts, NewStoreType DEF StoresClosed

\* A call takes an entry away, or renames it, only when it asks to, and counts on.
Gone(op, t)  == \/ op.tool = "import_templates" /\ (op.replace \/ t.id \in Ids(op.templates))
                \/ op.tool = "delete_template" /\ t.id = op.id
Named(op, t) == op.tool = "rename_template" /\ t.id = op.id
LEMMA NewStoreKeeps ==
  ASSUME NEW op \in StoreCalls, NEW s \in TemplateStores, NEW t \in s.templates
  PROVE  Gone(op, t) \/ \E n \in EntryOf(NewStore(op, s).templates, t.id) :
                           n.count >= t.count /\ (Named(op, t) \/ n.label = t.label)
<1>0. op \in StoreCall /\ op.tool \in StoreTools /\ t \in Entry /\ t.count \in Nat
  BY StoreCallsAssumption DEF StoreCall, TemplateStores, Entry
<1>1. CASE op.tool = "cluster_log_messages"
  <2> DEFINE r == Clustered(op, s)
             n == Reinforced(t, r.touched[t.id], Tally(r, t.id))
  <2>1. NewStore(op, s).templates = Counted(s.templates, r)
    BY <1>1 DEF NewStore
  <2>2. Tally(r, t.id) \in Nat
    BY ClusteredFacts, TallyType
  <2>3. CASE t.id \notin DOMAIN r.touched
    <3>1. t \in Counted(s.templates, r)
      BY <2>3 DEF Counted
    <3> QED
      BY <1>0, <2>1, <3>1 DEF EntryOf
  <2>4. CASE t.id \in DOMAIN r.touched
    <3>1. n \in Counted(s.templates, r)
      BY <2>4 DEF Counted
    <3>2. n.id = t.id /\ n.label = t.label /\ n.count = t.count + Tally(r, t.id)
      BY <1>0 DEF Reinforced, Entry
    <3>3. n.count >= t.count
      BY <1>0, <2>2, <3>2
    <3> HIDE DEF n
    <3> QED
      BY <2>1, <3>1, <3>2, <3>3 DEF EntryOf
  <2> QED
    BY <2>3, <2>4
<1>2. CASE op.tool = "rename_template"
  <2> DEFINE n == IF t.id = op.id THEN [t EXCEPT !.label = op.label] ELSE t
  <2>1. n \in NewStore(op, s).templates
    BY <1>2 DEF NewStore, TemplateStores
  <2>2. n.id = t.id /\ n.count = t.count /\ (t.id # op.id => n.label = t.label)
    BY <1>0 DEF Entry
  <2> HIDE DEF n
  <2> QED
    BY <1>0, <1>2, <2>1, <2>2 DEF EntryOf, Named
<1>3. CASE op.tool = "delete_template"
  <2>1. NewStore(op, s).templates = s.templates \ EntryOf(s.templates, op.id)
    BY <1>3 DEF NewStore, TemplateStores
  <2> QED
    BY <1>0, <1>3, <2>1 DEF EntryOf, Gone
<1>4. CASE op.tool = "import_templates"
  <2>1. NewStore(op, s).templates = Imported(op, s.templates)
    BY <1>4 DEF NewStore, TemplateStores
  <2> QED
    BY <1>0, <1>4, <2>1 DEF EntryOf, Imported, Gone
<1> QED
  BY <1>0, <1>1, <1>2, <1>3, <1>4 DEF StoreTools

-----------------------------------------------------------------------------
(* The file: types *)

USE ContentsAssumption, CrashesAssumption

PcLabels == {"idle"} \union Saving
LEMMA LabelFacts ==
  /\ \A l \in Holding : l \in Saving
  /\ {"acquire", "stat", "break"} \subseteq Saving /\ "idle" \notin Saving
  /\ \A l \in Saving : l # "idle"
  BY DEF Saving, Holding

LEMMA GotoType ==
  ASSUME FileTypeOK, NEW p \in Procs, NEW label \in PcLabels, pc[p] # "idle", Goto(p, label)
  PROVE  /\ pc' \in [Procs -> PcLabels]
         /\ mem' \in [Procs -> Stores \union {NoStore}]
         /\ \A q \in Procs : pc'[q] \in Saving => mem'[q] \in Stores
<1>1. pc[p] \in Saving /\ mem[p] \in Stores
  BY DEF FileTypeOK, PcLabels
<1>2. pc' = [pc EXCEPT ![p] = label]
  BY DEF Goto
<1>3. CASE label = "idle"
  <2>1. mem' = [mem EXCEPT ![p] = NoStore]
    BY <1>3 DEF Goto
  <2> QED
    BY <1>2, <1>3, <2>1, LabelFacts DEF FileTypeOK, PcLabels
<1>4. CASE label # "idle"
  <2>1. mem' = mem
    BY <1>4 DEF Goto
  <2> QED
    BY <1>1, <1>2, <2>1 DEF FileTypeOK, PcLabels
<1> QED
  BY <1>3, <1>4

LEMMA FileInitType == FileInit => FileTypeOK
<1> SUFFICES ASSUME FileInit PROVE FileTypeOK
  OBVIOUS
<1>1. /\ pc \in [Procs -> {"idle"} \union Saving]
      /\ \A p \in Procs : pc[p] \in Saving => mem[p] \in Stores
  BY LabelFacts DEF FileInit, NoSaves
<1>2. mem \in [Procs -> Stores \union {NoStore}] /\ fd \in [Procs -> {"none", "tmp", "file", "gone"}]
  BY DEF FileInit, NoSaves
<1>3. lock \in [owner : Procs, stale : BOOLEAN] \union {NoLock}
  BY DEF FileInit, NoSaves
<1>4. crashes \in 0..MaxCrashes
  BY DEF FileInit, NoSaves
<1>5. aged \in BOOLEAN /\ stolen \in BOOLEAN
  BY DEF FileInit, NoSaves
<1>6. file \in Contents /\ tmp \in Contents
  BY DEF FileInit, NoSaves, Contents
<1> QED
  BY <1>1, <1>2, <1>3, <1>4, <1>5, <1>6 DEF FileTypeOK

LEMMA UnlinkedType ==
  ASSUME FileTypeOK, NEW p \in Procs, Unlinked(p)
  PROVE  lock' = NoLock /\ stolen' \in BOOLEAN
  BY DEF Unlinked, FileTypeOK

LEMMA MovedType ==
  ASSUME FileTypeOK PROVE Moved \in [Procs -> {"none", "tmp", "file", "gone"}]
  BY DEF Moved, FileTypeOK

\* What Goto leaves to show of FileTypeOK'.
RestTypes ==
  /\ file \in Contents /\ tmp \in Contents
  /\ lock \in [owner : Procs, stale : BOOLEAN] \union {NoLock}
  /\ fd \in [Procs -> {"none", "tmp", "file", "gone"}]
  /\ aged \in BOOLEAN /\ stolen \in BOOLEAN
  /\ crashes \in 0..MaxCrashes

LEMMA StepType ==
  ASSUME FileTypeOK, NEW p \in Procs, NEW label \in PcLabels, pc[p] # "idle", Goto(p, label), RestTypes'
  PROVE  FileTypeOK'
  BY GotoType DEF RestTypes, FileTypeOK, PcLabels

LEMMA WriteType ==
  ASSUME FileTypeOK, NEW p \in Procs, NEW label \in PcLabels,
         NEW onTmp \in SUBSET Contents, NEW onFile \in SUBSET Contents, Write(p, label, onTmp, onFile)
  PROVE  FileTypeOK'
<1>1. file' \in Contents /\ tmp' \in Contents
  BY DEF Write, FileTypeOK
<1>2. fd' \in [Procs -> {"none", "tmp", "file", "gone"}]
  BY DEF Write, FileTypeOK
<1>3. RestTypes'
  BY <1>1, <1>2 DEF Write, FileTypeOK, RestTypes
<1> QED
  BY <1>3, StepType DEF Write

LEMMA WrittenType ==
  ASSUME NEW content, NEW store \in Stores PROVE Written(content, store) \in SUBSET Contents
  BY DEF Written, Contents, Whole

LEMMA FileStepType ==
  ASSUME FileTypeOK, NEW p \in Procs, FileStep(p) PROVE FileTypeOK'
<1>0. /\ "acquire" \in PcLabels /\ "open" \in PcLabels /\ "stat" \in PcLabels /\ "break" \in PcLabels
      /\ "write" \in PcLabels /\ "rename" \in PcLabels /\ "release" \in PcLabels
      /\ "release_failed" \in PcLabels /\ "idle" \in PcLabels
  BY DEF PcLabels, Saving, Holding
<1>1. CASE OpenLock(p)
  <2>1. RestTypes'
    BY <1>1 DEF OpenLock, FileTypeOK, RestTypes
  <2> QED
    BY <1>0, <1>1, <2>1, StepType DEF OpenLock
<1>2. CASE LockExists(p)
  <2>1. RestTypes'
    BY <1>2 DEF LockExists, FileTypeOK, RestTypes
  <2> QED
    BY <1>0, <1>2, <2>1, StepType DEF LockExists
<1>3. CASE StatLock(p)
  <2>1. RestTypes'
    BY <1>3 DEF StatLock, FileTypeOK, RestTypes
  <2> QED
    BY <1>0, <1>3, <2>1, StepType DEF StatLock, AfterStat
<1>4. CASE BreakLock(p)
  <2>1. RestTypes'
    BY <1>4, UnlinkedType DEF BreakLock, FileTypeOK, RestTypes
  <2> QED
    BY <1>0, <1>4, <2>1, StepType DEF BreakLock
<1>5. CASE OpenTmp(p)
  <2>1. RestTypes'
    BY <1>5 DEF OpenTmp, FileTypeOK, RestTypes, Contents
  <2> QED
    BY <1>0, <1>5, <2>1, StepType DEF OpenTmp
<1>6. CASE WriteTmp(p)
  <2>1. mem[p] \in Stores
    BY <1>6 DEF WriteTmp, Write, FileTypeOK, Saving, Holding
  <2> QED
    BY <1>0, <1>6, <2>1, WriteType, WrittenType DEF WriteTmp
<1>7. CASE WriteFails(p)
  <2>1. {tmp, Torn} \in SUBSET Contents /\ {file, Torn} \in SUBSET Contents
    BY DEF FileTypeOK, Contents
  <2> QED
    BY <1>0, <1>7, <2>1, WriteType DEF WriteFails, AfterShortWrite
<1>8. CASE RenameTmp(p)
  <2>1. RestTypes'
    BY <1>8, MovedType DEF RenameTmp, FileTypeOK, RestTypes, Contents
  <2> QED
    BY <1>0, <1>8, <2>1, StepType DEF RenameTmp
<1>9. CASE OperationFails(p)
  <2>1. RestTypes'
    BY <1>9 DEF OperationFails, FileTypeOK, RestTypes
  <2> QED
    BY <1>0, <1>9, <2>1, StepType DEF OperationFails, AfterFailure
<1>10. CASE Release(p)
  <2>1. RestTypes'
    BY <1>10, UnlinkedType DEF Release, FileTypeOK, RestTypes
  <2> QED
    BY <1>0, <1>10, <2>1, StepType DEF Release
<1> QED
  BY <1>1, <1>2, <1>3, <1>4, <1>5, <1>6, <1>7, <1>8, <1>9, <1>10 DEF FileStep

LEMMA FileNextType == FileTypeOK /\ [FileNext]_fileVars => FileTypeOK'
<1> SUFFICES ASSUME FileTypeOK, [FileNext]_fileVars PROVE FileTypeOK'
  OBVIOUS
<1>1. ASSUME NEW p \in Procs, NEW store \in Stores, Save(p, store) PROVE FileTypeOK'
  <2>1. "acquire" \in PcLabels
    BY DEF PcLabels, Saving
  <2> QED
    BY <1>1, <2>1 DEF Save, FileTypeOK, PcLabels
<1>2. ASSUME NEW p \in Procs, Crash(p) PROVE FileTypeOK'
  <2>1. RestTypes'
    BY <1>2 DEF Crash, FileTypeOK, RestTypes
  <2> QED
    BY <1>2, <2>1, StepType DEF Crash, PcLabels
<1>3. CASE LockAges
  BY <1>3 DEF LockAges, FileTypeOK
<1>4. CASE UNCHANGED fileVars
  BY <1>4 DEF fileVars, FileTypeOK
<1> QED
  BY <1>1, <1>2, <1>3, <1>4, FileStepType DEF FileNext

\* The files, the lock and the processes keep their types (template-store.js:47-83).
THEOREM FileTypeCorrect == FileSpec => []FileTypeOK
<1>1. FileInit => FileTypeOK
  BY FileInitType
<1>2. FileTypeOK /\ [FileNext]_fileVars => FileTypeOK'
  BY FileNextType
<1> QED
  BY <1>1, <1>2, PTL DEF FileSpec

-----------------------------------------------------------------------------
(* The lock *)

\* While no lock has been removed under its holder, whoever holds it is its owner.
HolderOwns == ~stolen => \A p \in Procs : Holds(p) => lock # NoLock /\ lock.owner = p
\* While no lock has turned 30 s old, there is nothing to break.
NothingToBreak ==
  ~aged => /\ ~stolen /\ ~LockIsStale
           /\ \A p \in Procs : pc[p] # "break"
LockInv == FileTypeOK /\ HolderOwns /\ NothingToBreak

LEMMA LockInit == FileInit => LockInv
<1> SUFFICES ASSUME FileInit PROVE LockInv
  OBVIOUS
<1>1. \A p \in Procs : pc[p] = "idle"
  BY DEF FileInit, NoSaves
<1>2. HolderOwns
  BY <1>1 DEF HolderOwns, Holds, Holding
<1>3. NothingToBreak
  BY <1>1 DEF NothingToBreak, LockIsStale, FileInit, NoSaves
<1> QED
  BY <1>2, <1>3, FileInitType DEF LockInv

\* A step of p that leaves the lock alone, and in which nobody comes to hold it.
LEMMA LockKept ==
  ASSUME LockInv, FileTypeOK', UNCHANGED <<lock, aged, stolen>>,
         \A q \in Procs : Holds(q)' => Holds(q),
         \A q \in Procs : pc'[q] = "break" => pc[q] = "break" \/ LockIsStale
  PROVE  LockInv'
<1>1. HolderOwns'
  BY DEF LockInv, HolderOwns
<1>2. NothingToBreak'
  BY DEF LockInv, NothingToBreak, LockIsStale
<1> QED
  BY <1>1, <1>2 DEF LockInv

LEMMA LockStep ==
  ASSUME LockInv, FileTypeOK', NEW p \in Procs, FileStep(p) PROVE LockInv'
<1>0. pc \in [Procs -> {"idle"} \union Saving] /\ FileTypeOK
  BY DEF LockInv, FileTypeOK
<1>1. CASE OpenLock(p)
  <2>0. [owner |-> p, stale |-> FALSE] \in [owner : Procs, stale : BOOLEAN]
    OBVIOUS
  <2>1. lock' # NoLock /\ lock'.owner = p /\ ~lock'.stale
    BY <1>1, <2>0 DEF OpenLock
  <2>2. \A q \in Procs \ {p} : pc'[q] = pc[q]
    BY <1>0, <1>1 DEF OpenLock, Goto
  <2>3. pc'[p] = "open"
    BY <1>0, <1>1 DEF OpenLock, Goto
  <2>4. HolderOwns'
    BY <1>1, <2>1, <2>2 DEF OpenLock, LockInv, HolderOwns, Holds
  <2>5. NothingToBreak'
    BY <1>1, <2>1, <2>2, <2>3 DEF OpenLock, LockInv, NothingToBreak, LockIsStale
  <2> QED
    BY <2>4, <2>5 DEF LockInv
<1>2. CASE LockExists(p)
  BY <1>0, <1>2, LockKept DEF LockExists, Goto, Holds, Holding
<1>3. CASE StatLock(p)
  BY <1>0, <1>3, LockKept DEF StatLock, AfterStat, Goto, Holds, Holding
<1>4. CASE BreakLock(p)
  <2>1. pc'[p] \in {"idle", "acquire"} /\ \A q \in Procs \ {p} : pc'[q] = pc[q]
    BY <1>0, <1>4 DEF BreakLock, Goto
  <2>2. aged /\ aged'
    BY <1>4 DEF BreakLock, LockInv, NothingToBreak, FileTypeOK
  <2>3. ASSUME ~stolen', NEW q \in Procs, Holds(q)' PROVE FALSE
    <3>1. q # p /\ Holds(q)
      BY <2>1, <2>3 DEF Holds, Holding
    <3>2. ~stolen /\ ~(lock # NoLock /\ lock.owner = q /\ Holds(q))
      BY <1>4, <2>3, <3>1 DEF BreakLock, Unlinked
    <3> QED
      BY <3>1, <3>2 DEF LockInv, HolderOwns
  <2>4. HolderOwns'
    BY <2>3 DEF HolderOwns
  <2> QED
    BY <2>2, <2>4 DEF LockInv, NothingToBreak
<1>5. CASE OpenTmp(p)
  BY <1>0, <1>5, LockKept DEF OpenTmp, Goto, Holds, Holding
<1>6. CASE WriteTmp(p) \/ WriteFails(p)
  <2>1. /\ pc[p] = "write" /\ UNCHANGED <<lock, aged, stolen>>
        /\ pc' \in {[pc EXCEPT ![p] = "rename"], [pc EXCEPT ![p] = "release_failed"]}
    BY <1>6 DEF WriteTmp, WriteFails, AfterShortWrite, Write, Goto
  <2> QED
    BY <1>0, <2>1, LockKept DEF Holds, Holding
<1>7. CASE RenameTmp(p)
  BY <1>0, <1>7, LockKept DEF RenameTmp, Goto, Holds, Holding
<1>8. CASE OperationFails(p)
  BY <1>0, <1>8, LockKept DEF OperationFails, AfterFailure, Goto, Holds, Holding
<1>9. CASE Release(p)
  <2>1. Holds(p) /\ pc' = [pc EXCEPT ![p] = "idle"] /\ aged' = aged
    BY <1>9 DEF Release, Goto, Holds, Holding
  <2>2. CASE UNCHANGED <<lock, stolen>>
    BY <1>0, <2>1, <2>2, LockKept DEF Holds, Holding
  <2>3. CASE Unlinked(p)
    <3>1. ASSUME NEW q \in Procs, Holds(q)', ~stolen' PROVE FALSE
      <4>1. q # p /\ Holds(q)
        BY <1>0, <2>1, <3>1 DEF Holds, Holding
      <4>2. ~stolen /\ ~(lock # NoLock /\ lock.owner = q /\ Holds(q))
        BY <2>3, <3>1, <4>1 DEF Unlinked
      <4> QED
        BY <4>1, <4>2 DEF LockInv, HolderOwns
    <3>2. HolderOwns'
      BY <3>1 DEF HolderOwns
    <3>3. ASSUME ~aged' PROVE ~stolen'
      <4>1. ~stolen /\ lock.owner = p
        BY <2>1, <3>3 DEF LockInv, NothingToBreak, HolderOwns
      <4> QED
        BY <2>3, <4>1 DEF Unlinked
    <3>4. ~LockIsStale'
      BY <2>3 DEF Unlinked, LockIsStale
    <3>5. ASSUME ~aged', NEW q \in Procs PROVE pc'[q] # "break"
      BY <1>0, <2>1, <3>5 DEF LockInv, NothingToBreak
    <3> QED
      BY <3>2, <3>3, <3>4, <3>5 DEF LockInv, NothingToBreak
  <2> QED
    BY <1>9, <2>2, <2>3 DEF Release
<1> QED
  BY <1>1, <1>2, <1>3, <1>4, <1>5, <1>6, <1>7, <1>8, <1>9 DEF FileStep

LEMMA LockNext == LockInv /\ [FileNext]_fileVars => LockInv'
<1> SUFFICES ASSUME LockInv, [FileNext]_fileVars PROVE LockInv'
  OBVIOUS
<1>0. pc \in [Procs -> {"idle"} \union Saving] /\ FileTypeOK
  BY DEF LockInv, FileTypeOK
<1>t. FileTypeOK'
  BY <1>0, FileNextType
<1>1. ASSUME NEW p \in Procs, NEW store \in Stores, Save(p, store) PROVE LockInv'
  BY <1>0, <1>t, <1>1, LockKept DEF Save, Holds, Holding
<1>2. ASSUME NEW p \in Procs, Crash(p) PROVE LockInv'
  BY <1>0, <1>t, <1>2, LockKept DEF Crash, Goto, Holds, Holding
<1>3. CASE LockAges
  <2>1. lock \in [owner : Procs, stale : BOOLEAN]
    BY <1>0, <1>3 DEF LockAges, FileTypeOK
  <2>2. lock' # NoLock /\ lock'.owner = lock.owner
    BY <1>3, <2>1 DEF LockAges
  <2>3. HolderOwns'
    BY <1>3, <2>2 DEF LockAges, LockInv, HolderOwns, Holds
  <2> QED
    BY <1>3, <1>t, <2>3 DEF LockAges, LockInv, NothingToBreak
<1>4. CASE UNCHANGED fileVars
  BY <1>t, <1>4, LockKept DEF fileVars, Holds
<1> QED
  BY <1>1, <1>2, <1>3, <1>4, <1>t, LockStep DEF FileNext

\* Whichever processes die in a save or fail in one, two never hold the lock
\* together while none has turned 30 s old (template-store.js:47-66, 72-83).
THEOREM TheLockKeepsOut == FileSpec => []LockKeepsOut
<1>1. LockInv => LockKeepsOut
  BY DEF LockInv, HolderOwns, NothingToBreak, LockKeepsOut
<1> QED
  BY <1>1, LockInit, LockNext, PTL DEF FileSpec

-----------------------------------------------------------------------------
(* The store's file *)

\* What holds of the files while no lock has been removed under its holder: only
\* the holder has a file open, the temporary one, and it renames what it has
\* written whole.
FilesWhole ==
  /\ file \in Whole \union {Absent}
  /\ \A p \in Procs :
       /\ pc[p] = "write" => fd[p] = "tmp" /\ tmp = Blank
       /\ pc[p] = "rename" => tmp = mem[p]
       /\ pc[p] = "release" => file = mem[p]
       /\ fd[p] # "none" => pc[p] = "write"
FileInv == LockInv /\ (~stolen => FilesWhole)

LEMMA FileInvInit == FileInit => FileInv
  BY LockInit DEF FileInit, NoSaves, FileInv, FilesWhole

LEMMA OneHolder ==
  ASSUME LockInv, ~stolen, NEW p \in Procs, Holds(p)
  PROVE  \A q \in Procs \ {p} : pc[q] \notin Holding
  BY DEF LockInv, HolderOwns, Holds

\* Nobody but p moves.
OnlyMoves(p) ==
  \A q \in Procs \ {p} : pc'[q] = pc[q] /\ mem'[q] = mem[q] /\ fd'[q] = fd[q]

\* A step of the holder keeps the files whole when it does for its own part.
LEMMA HolderKeeps ==
  ASSUME FileInv, ~stolen, NEW p \in Procs, Holds(p), OnlyMoves(p),
         file' \in Whole \union {Absent},
         pc'[p] = "write" => fd'[p] = "tmp" /\ tmp' = Blank,
         pc'[p] = "rename" => tmp' = mem'[p],
         pc'[p] = "release" => file' = mem'[p],
         fd'[p] # "none" => pc'[p] = "write"
  PROVE  FilesWhole'
<1>1. \A q \in Procs \ {p} : pc'[q] \notin Holding /\ fd'[q] = "none"
  BY OneHolder DEF FileInv, FilesWhole, OnlyMoves, Holding
<1> QED
  BY <1>1 DEF FilesWhole, Holding

\* A step that leaves the files alone, and in which p alone moves, to where nothing
\* is asked of it.
LEMMA FilesKept ==
  ASSUME FileInv, ~stolen, NEW p \in Procs, OnlyMoves(p), UNCHANGED <<file, tmp>>,
         pc'[p] \notin {"write", "rename", "release"}, fd'[p] = "none"
  PROVE  FilesWhole'
  BY DEF FileInv, FilesWhole, OnlyMoves

LEMMA FilesStep ==
  ASSUME FileInv, NEW p \in Procs, FileStep(p), ~stolen' PROVE FilesWhole'
<1>0. /\ pc \in [Procs -> {"idle"} \union Saving] /\ FileTypeOK /\ FilesWhole /\ ~stolen
      /\ mem \in [Procs -> Stores \union {NoStore}]
      /\ fd \in [Procs -> {"none", "tmp", "file", "gone"}]
      /\ pc[p] \in Saving => mem[p] \in Stores
  <2>1. stolen => stolen'
    BY DEF FileStep, OpenLock, LockExists, StatLock, BreakLock, Unlinked, OpenTmp, WriteTmp, WriteFails,
           Write, RenameTmp, OperationFails, Release
  <2> QED
    BY <2>1 DEF FileInv, LockInv, FileTypeOK
<1>m. ASSUME NEW label, Goto(p, label)
      PROVE  /\ pc'[p] = label /\ \A q \in Procs \ {p} : pc'[q] = pc[q] /\ mem'[q] = mem[q]
             /\ label # "idle" => mem' = mem
  BY <1>0, <1>m DEF Goto
<1>1. CASE OpenLock(p)
  <2>1. fd[p] = "none"
    BY <1>0, <1>1 DEF OpenLock, FilesWhole
  <2> QED
    BY <1>0, <1>m, <1>1, <2>1, FilesKept DEF OpenLock, OnlyMoves
<1>2. CASE LockExists(p) \/ StatLock(p) \/ BreakLock(p)
  <2>1. /\ fd[p] = "none" /\ UNCHANGED <<file, tmp, fd>>
        /\ Goto(p, "idle") \/ Goto(p, "stat") \/ Goto(p, "break") \/ Goto(p, "acquire")
    BY <1>0, <1>2 DEF LockExists, StatLock, AfterStat, BreakLock, FilesWhole
  <2> QED
    BY <1>0, <1>m, <2>1, FilesKept DEF OnlyMoves
<1>3. CASE OpenTmp(p)
  <2>1. Holds(p) /\ pc'[p] = "write" /\ fd'[p] = "tmp" /\ tmp' = Blank /\ file' = file
    BY <1>0, <1>m, <1>3 DEF OpenTmp, Holds, Holding
  <2>2. OnlyMoves(p)
    BY <1>0, <1>m, <1>3 DEF OpenTmp, OnlyMoves
  <2> QED
    BY <1>0, <2>1, <2>2, HolderKeeps DEF FilesWhole
<1>4. CASE WriteTmp(p) \/ WriteFails(p)
  <2>1. pc[p] = "write" /\ fd[p] = "tmp" /\ tmp = Blank /\ Holds(p) /\ mem[p] \in Stores
    BY <1>0, <1>4 DEF WriteTmp, WriteFails, Write, FilesWhole, Holds, Holding, Saving
  <2>2. file' = file /\ fd' = [fd EXCEPT ![p] = "none"]
    BY <1>4, <2>1 DEF WriteTmp, WriteFails, Write
  <2>3. \/ Goto(p, "rename") /\ tmp' = mem[p]
        \/ Goto(p, "release_failed")
    BY <1>4, <2>1 DEF WriteTmp, WriteFails, AfterShortWrite, Write, Written
  <2>4. OnlyMoves(p) /\ fd'[p] = "none"
    BY <1>0, <1>m, <2>2, <2>3 DEF OnlyMoves
  <2>5. pc'[p] # "write" /\ pc'[p] # "release" /\ (pc'[p] = "rename" => tmp' = mem'[p])
    BY <1>m, <2>3
  <2> QED
    BY <1>0, <2>1, <2>2, <2>4, <2>5, HolderKeeps DEF FilesWhole
<1>5. CASE RenameTmp(p)
  <2>1. Holds(p) /\ tmp = mem[p] /\ mem[p] \in Stores /\ file' = tmp /\ fd[p] = "none"
    BY <1>0, <1>5 DEF RenameTmp, FilesWhole, Holds, Holding, Saving
  <2>2. \A q \in Procs : fd[q] = "none"
    BY <1>0, <2>1, OneHolder DEF FileInv, FilesWhole, Holding
  <2>3. \A q \in Procs : fd'[q] = "none"
    BY <1>5, <2>2 DEF RenameTmp, Moved
  <2>4. pc'[p] = "release" /\ mem' = mem /\ OnlyMoves(p)
    BY <1>m, <1>5, <2>2, <2>3 DEF RenameTmp, OnlyMoves
  <2> QED
    BY <1>0, <2>1, <2>3, <2>4, HolderKeeps DEF Whole
<1>6. CASE OperationFails(p)
  <2>1. /\ fd[p] = "none" /\ UNCHANGED <<file, tmp, fd>>
        /\ Goto(p, "idle") \/ Goto(p, "release_failed")
    BY <1>0, <1>6 DEF OperationFails, AfterFailure, FilesWhole
  <2> QED
    BY <1>0, <1>m, <2>1, FilesKept DEF OnlyMoves
<1>7. CASE Release(p)
  <2>1. fd[p] = "none" /\ UNCHANGED <<file, tmp, fd>> /\ Goto(p, "idle")
    BY <1>0, <1>7 DEF Release, FilesWhole
  <2> QED
    BY <1>0, <1>m, <2>1, FilesKept DEF OnlyMoves
<1> QED
  BY <1>1, <1>2, <1>3, <1>4, <1>5, <1>6, <1>7 DEF FileStep

LEMMA FileInvNext == FileInv /\ [FileNext]_fileVars => FileInv'
<1> SUFFICES ASSUME FileInv, [FileNext]_fileVars PROVE FileInv'
  OBVIOUS
<1>0. /\ pc \in [Procs -> {"idle"} \union Saving] /\ mem \in [Procs -> Stores \union {NoStore}]
      /\ fd \in [Procs -> {"none", "tmp", "file", "gone"}]
  BY DEF FileInv, LockInv, FileTypeOK
<1>l. LockInv'
  BY LockNext DEF FileInv
<1>1. ASSUME NEW p \in Procs, NEW store \in Stores, Save(p, store), ~stolen' PROVE FilesWhole'
  <2>1. ~stolen /\ fd[p] = "none"
    BY <1>1 DEF Save, FileInv, FilesWhole
  <2> QED
    BY <1>0, <1>1, <2>1, FilesKept DEF Save, OnlyMoves
<1>2. ASSUME NEW p \in Procs, Crash(p), ~stolen' PROVE FilesWhole'
  BY <1>0, <1>2, FilesKept DEF Crash, Goto, OnlyMoves
<1>3. ASSUME LockAges, ~stolen' PROVE FilesWhole'
  BY <1>3 DEF LockAges, FileInv, FilesWhole
<1>4. ASSUME UNCHANGED fileVars, ~stolen' PROVE FilesWhole'
  BY <1>4 DEF fileVars, FileInv, FilesWhole
<1> QED
  BY <1>l, <1>1, <1>2, <1>3, <1>4, FilesStep DEF FileNext, FileInv

\* The file is empty or torn only after a process has removed the lock of another
\* that was writing: no crash, full disk or failed call does it alone
\* (template-store.js:68-83).
THEOREM TheFileIsWhole == FileSpec => []FileWhole
<1>1. FileInv => FileWhole
  BY DEF FileInv, FilesWhole, FileWhole, Whole
<1> QED
  BY <1>1, FileInvInit, FileInvNext, PTL DEF FileSpec

\* What is reported saved is in the file, under the same exception
\* (template-store.js:72-83).
THEOREM WhatIsSavedIsOurs == FileSpec => []SavedIsOurs
<1>1. FileInv => SavedIsOurs
  BY DEF FileInv, FilesWhole, SavedIsOurs
<1> QED
  BY <1>1, FileInvInit, FileInvNext, PTL DEF FileSpec

-----------------------------------------------------------------------------
(* The tools: what they save *)

LEMMA TemplateInitIsFileInit == TemplateInit => FileInit
  BY StoreStartsAssumption DEF TemplateInit, FileInit, Whole

LEMMA TemplateStepIsFileStep ==
  ASSUME Stores = TemplateStores, [TemplateNext]_storeVars PROVE [FileNext]_fileVars
<1>1. ASSUME NEW p \in Procs, NEW op \in StoreCalls, Call(p, op) PROVE FileNext
  <2>1. Understood(file) \in Stores \union {EmptyStore}
    BY DEF Understood
  <2>2. NewStore(op, Understood(file)) \in Stores
    BY <2>1, TheStoresAreClosed DEF StoresClosed
  <2> QED
    BY <1>1, <2>2 DEF Call, FileNext
<1>2. ASSUME NEW p \in Procs, Operation(p) PROVE FileNext
  BY <1>2 DEF Operation, FileNext
<1>3. CASE Age
  BY <1>3 DEF Age, FileNext
<1>4. CASE UNCHANGED storeVars
  BY <1>4 DEF storeVars
<1> QED
  BY <1>1, <1>2, <1>3, <1>4 DEF TemplateNext

\* The tools implement the protocol of the store's file: loading, clustering,
\* renaming, deleting and importing add nothing to it but the store that is saved
\* (cluster-errors.js:100-151, template-mgmt.js:46-125, template-store.js:72-83).
THEOREM ToolsUseTheProtocol ==
  ASSUME Stores = TemplateStores PROVE TemplateSpec => FileSpec
  BY TemplateInitIsFileInit, TemplateStepIsFileStep, PTL DEF TemplateSpec, FileSpec

\* Under the tools the store's file is empty or torn only after a lock was removed
\* under a process that was writing (template-store.js:68-83).
THEOREM TemplateFileWhole ==
  ASSUME Stores = TemplateStores PROVE TemplateSpec => []FileWhole
  BY ToolsUseTheProtocol, TheFileIsWhole, PTL

\* Under the tools the lock keeps the others out while none has turned 30 s old
\* (template-store.js:47-66).
THEOREM TemplateLockKeepsOut ==
  ASSUME Stores = TemplateStores PROVE TemplateSpec => []LockKeepsOut
  BY ToolsUseTheProtocol, TheLockKeepsOut, PTL

\* Under the tools a save that reports success has its own store in the file
\* (template-store.js:72-83).
THEOREM TemplateSavedIsOurs ==
  ASSUME Stores = TemplateStores PROVE TemplateSpec => []SavedIsOurs
  BY ToolsUseTheProtocol, WhatIsSavedIsOurs, PTL

LEMMA ToolsType ==
  ASSUME Stores = TemplateStores, TemplateTypeOK, [TemplateNext]_storeVars PROVE TemplateTypeOK'
<1>1. FileTypeOK'
  BY TemplateStepIsFileStep, FileNextType DEF TemplateTypeOK
<1>2. /\ call \in [Procs -> StoreCalls \union {NoCall}] /\ raced \in [Procs -> BOOLEAN]
      /\ calls \in 0..MaxCalls /\ MaxCalls \in Nat
  BY StoreCallsAssumption DEF TemplateTypeOK
<1>3. ASSUME NEW p \in Procs, NEW op \in StoreCalls, Call(p, op) PROVE TemplateTypeOK'
  BY <1>1, <1>2, <1>3 DEF Call, TemplateTypeOK
<1>4. ASSUME NEW p \in Procs, Operation(p) PROVE TemplateTypeOK'
  <2>1. call' \in [Procs -> StoreCalls \union {NoCall}]
    BY <1>2, <1>4 DEF Operation
  <2>2. raced' \in [Procs -> BOOLEAN]
    BY <1>2, <1>4 DEF Operation
  <2> QED
    BY <1>1, <1>2, <1>4, <2>1, <2>2 DEF Operation, TemplateTypeOK
<1>5. CASE Age \/ UNCHANGED storeVars
  BY <1>1, <1>2, <1>5 DEF Age, storeVars, TemplateTypeOK
<1> QED
  BY <1>3, <1>4, <1>5 DEF TemplateNext

LEMMA ToolsInit ==
  ASSUME TemplateInit PROVE TemplateTypeOK /\ FileInv
<1>1. FileTypeOK /\ FileInv
  BY TemplateInitIsFileInit, FileInitType, FileInvInit
<1>2. /\ call \in [Procs -> StoreCalls \union {NoCall}] /\ raced \in [Procs -> BOOLEAN]
      /\ calls \in 0..MaxCalls
  BY StoreCallsAssumption DEF TemplateInit
<1> QED
  BY <1>1, <1>2 DEF TemplateTypeOK

\* The tools keep the types of the files, the lock and the processes; what is saved
\* is a store that a load understands (cluster-errors.js:100-151,
\* template-mgmt.js:46-125).
THEOREM ToolsTypeCorrect ==
  ASSUME Stores = TemplateStores PROVE TemplateSpec => []TemplateTypeOK
<1>1. TemplateInit => TemplateTypeOK
  BY ToolsInit
<1>2. TemplateTypeOK /\ [TemplateNext]_storeVars => TemplateTypeOK'
  BY ToolsType
<1> QED
  BY <1>1, <1>2, PTL DEF TemplateSpec

-----------------------------------------------------------------------------
(* The tools: what is in the stores *)

Sound(content) == content \in Stores => SoundBuckets(content.buckets)
SoundInv ==
  /\ TemplateTypeOK
  /\ Sound(file) /\ Sound(tmp) /\ \A p \in Procs : Sound(mem[p])

LEMMA GotoMem ==
  ASSUME FileTypeOK, NEW p \in Procs, NEW label, Goto(p, label)
  PROVE  \A q \in Procs : mem'[q] \in {mem[q], NoStore}
  BY DEF Goto, FileTypeOK

\* A step of a save moves contents about, and makes no new ones.
LEMMA FileStepMoves ==
  ASSUME FileTypeOK, NEW p \in Procs, FileStep(p) \/ Crash(p)
  PROVE  /\ \A q \in Procs : mem'[q] \in {mem[q], NoStore}
         /\ file' \in {file, tmp, mem[p], Torn}
         /\ tmp' \in {tmp, mem[p], Torn, Blank, Absent}
<1>1. \E label : Goto(p, label)
  BY DEF FileStep, Crash, OpenLock, LockExists, StatLock, BreakLock, OpenTmp, WriteTmp, WriteFails, Write,
         RenameTmp, OperationFails, Release
<1>2. \A q \in Procs : mem'[q] \in {mem[q], NoStore}
  BY <1>1, GotoMem
<1>3. CASE WriteTmp(p) \/ WriteFails(p)
  BY <1>2, <1>3 DEF WriteTmp, WriteFails, Write, Written
<1>4. CASE OpenTmp(p) \/ RenameTmp(p)
  BY <1>2, <1>4 DEF OpenTmp, RenameTmp
<1>5. CASE UNCHANGED <<file, tmp>>
  BY <1>2, <1>5
<1> QED
  BY <1>3, <1>4, <1>5 DEF FileStep, Crash, OpenLock, LockExists, StatLock, BreakLock, OperationFails, Release

LEMMA SoundNext ==
  ASSUME Stores = TemplateStores, SoundInv, [TemplateNext]_storeVars PROVE SoundInv'
<1>0. TemplateTypeOK' /\ FileTypeOK
  BY ToolsType DEF SoundInv, TemplateTypeOK
<1>1. Sound(Torn) /\ Sound(Blank) /\ Sound(Absent) /\ Sound(NoStore)
  BY DEF Sound
<1>2. ASSUME NEW p \in Procs, NEW op \in StoreCalls, Call(p, op) PROVE SoundInv'
  <2>1. Understood(file) \in TemplateStores /\ SoundBuckets(Understood(file).buckets)
    BY UnderstoodFacts, EmptyStoreFacts DEF Understood, SoundInv, Sound
  <2>2. Sound(NewStore(op, Understood(file)))
    BY <2>1, NewStoreSound DEF Sound
  <2>3. \A q \in Procs : mem'[q] \in {mem[q], NewStore(op, Understood(file))}
    BY <1>0, <1>2 DEF Call, Save, FileTypeOK
  <2>4. \A q \in Procs : Sound(mem'[q])
    BY <2>2, <2>3 DEF SoundInv
  <2>5. UNCHANGED <<file, tmp>>
    BY <1>2 DEF Call, Save
  <2> QED
    BY <1>0, <2>4, <2>5 DEF SoundInv, Sound
<1>3. ASSUME NEW p \in Procs, Operation(p) PROVE SoundInv'
  <2>1. /\ \A q \in Procs : mem'[q] \in {mem[q], NoStore}
        /\ file' \in {file, tmp, mem[p], Torn}
        /\ tmp' \in {tmp, mem[p], Torn, Blank, Absent}
    BY <1>0, <1>3, FileStepMoves DEF Operation
  <2>2. Sound(file') /\ Sound(tmp') /\ \A q \in Procs : Sound(mem'[q])
    BY <1>1, <2>1 DEF SoundInv
  <2> QED
    BY <1>0, <2>2 DEF SoundInv, Sound
<1>4. CASE Age \/ UNCHANGED storeVars
  BY <1>0, <1>4 DEF Age, LockAges, storeVars, fileVars, SoundInv, Sound
<1> QED
  BY <1>2, <1>3, <1>4 DEF TemplateNext

LEMMA SoundInit == ASSUME TemplateInit PROVE SoundInv
<1>1. TemplateTypeOK
  BY ToolsInit
<1>2. Sound(file)
  BY StoreStartsAssumption DEF TemplateInit, Sound
<1>3. Sound(tmp) /\ \A p \in Procs : Sound(mem[p])
  BY DEF TemplateInit, NoSaves, Sound
<1> QED
  BY <1>1, <1>2, <1>3 DEF SoundInv

\* In a store that is saved the ids of a bucket's templates differ, and each template
\* covers the line its id was made from, whatever lines were clustered by any of the
\* processes before (drain3.js:7-26, 51-100).
THEOREM IdsStayStable ==
  ASSUME Stores = TemplateStores PROVE TemplateSpec => []IdsStable
<1>1. TemplateInit => SoundInv
  BY SoundInit
<1>2. SoundInv /\ [TemplateNext]_storeVars => SoundInv'
  BY SoundNext
<1>3. SoundInv => IdsStable
  BY DEF SoundInv, IdsStable, Sound, TemplateTypeOK, FileTypeOK
<1> QED
  BY <1>1, <1>2, <1>3, PTL DEF TemplateSpec

LEMMA CoverStep ==
  ASSUME Stores = TemplateStores, SoundInv,
         NEW p \in Procs, NEW op \in StoreCalls, op.tool = "cluster_log_messages"
  PROVE  LET r == Clustered(op, Understood(file))
         IN \A i \in DOMAIN r.assigned :
              \/ r.assigned[i] \in r.evicted
              \/ Covers(r.touched[r.assigned[i]], op.lines[i])
<1> DEFINE r == Clustered(op, Understood(file))
<1>1. Understood(file) \in TemplateStores /\ SoundBuckets(Understood(file).buckets)
  BY UnderstoodFacts, EmptyStoreFacts DEF Understood, SoundInv, Sound
<1>2. Reports(r, op.lines, Len(op.lines)) /\ r \in Results
  BY <1>1, ClusteredFacts
<1>3. op.lines \in Seq(Lines)
  BY StoreCallsAssumption DEF StoreCall
<1> HIDE DEF r
<1>4. DOMAIN r.assigned = 1..Len(op.lines)
  BY <1>2, LenProperties DEF Reports, Results
<1>5. ASSUME NEW i \in 1..Len(op.lines), r.assigned[i] \notin r.evicted
      PROVE  Covers(r.touched[r.assigned[i]], op.lines[i])
  <2>1. Len(op.lines[i]) \in Lens
    BY <1>3, LenProperties, ElementOfSeq, LineFacts
  <2>2. r.assigned[i] \in DOMAIN r.touched
    BY <1>2 DEF Reports
  <2>3. PICK k \in DOMAIN r.buckets[Len(op.lines[i])] :
          LET t == r.buckets[Len(op.lines[i])][k]
          IN t.id = r.assigned[i] /\ Covers(t.tokens, op.lines[i])
    BY <1>2, <1>5 DEF Reports
  <2>4. r.touched[r.assigned[i]] = r.buckets[Len(op.lines[i])][k].tokens
    BY <1>2, <2>1, <2>2, <2>3 DEF Reports
  <2> QED
    BY <2>3, <2>4
<1> QED
  BY <1>4, <1>5 DEF r

\* A line is reported under a template that covers it, unless that was evicted in the
\* same batch, for any lines, threshold and number of templates to keep
\* (drain3.js:51-100, cluster-errors.js:99-166).
THEOREM LinesAreCovered ==
  ASSUME Stores = TemplateStores PROVE TemplateSpec => ClustersCover
<1>1. TemplateInit => SoundInv
  BY SoundInit
<1>2. SoundInv /\ [TemplateNext]_storeVars => SoundInv'
  BY SoundNext
<1> DEFINE Covered ==
      \A p \in Procs, op \in StoreCalls :
        Begins(p, op) /\ op.tool = "cluster_log_messages" =>
          LET r == Clustered(op, Understood(file))
          IN \A i \in DOMAIN r.assigned :
               \/ r.assigned[i] \in r.evicted
               \/ Covers(r.touched[r.assigned[i]], op.lines[i])
<1>3. SoundInv => Covered
  BY CoverStep
<1>4. SoundInv /\ [TemplateNext]_storeVars => [Covered]_storeVars
  BY <1>3
<1> HIDE DEF Covered
<1>5. TemplateSpec => [][Covered]_storeVars
  BY <1>1, <1>2, <1>4, PTL DEF TemplateSpec
<1> QED
  BY <1>5 DEF ClustersCover, Covered

-----------------------------------------------------------------------------
(* The tools: what a save takes the place of *)

\* Where the file is still to be replaced.
Pending == {"acquire", "stat", "break", "open", "write", "rename"}
\* While nobody has overtaken it, a call is about to save what it makes of the file.
SavesOnTop ==
  \A p \in Procs : pc[p] \in Pending /\ ~raced[p] /\ ~stolen =>
                    call[p] \in StoreCalls /\ mem[p] = NewStore(call[p], Understood(file))
KeepInv == TemplateTypeOK /\ FileInv /\ SavesOnTop

\* A step of p's save; p stays, ends, or replaces the file.
LEMMA PendingStep ==
  ASSUME KeepInv, NEW p \in Procs, FileStep(p) \/ Crash(p), ~stolen'
  PROVE  /\ ~stolen /\ pc[p] # "idle"
         /\ \A q \in Procs \ {p} : pc'[q] = pc[q] /\ mem'[q] = mem[q]
         /\ pc'[p] \in Pending => pc[p] \in Pending /\ mem'[p] = mem[p] /\ file' = file
<1>0. /\ pc \in [Procs -> {"idle"} \union Saving] /\ mem \in [Procs -> Stores \union {NoStore}]
      /\ pc[p] = "write" /\ ~stolen => fd[p] = "tmp"
  BY DEF KeepInv, TemplateTypeOK, FileTypeOK, FileInv, FilesWhole
<1>1. ~stolen
  BY DEF FileStep, Crash, OpenLock, LockExists, StatLock, BreakLock, OpenTmp, WriteTmp, WriteFails, Write,
         RenameTmp, OperationFails, Release, Unlinked
<1>2. ASSUME NEW label, Goto(p, label), pc[p] # "idle",
             label \in Pending => pc[p] \in Pending /\ file' = file
      PROVE  /\ ~stolen /\ pc[p] # "idle"
             /\ \A q \in Procs \ {p} : pc'[q] = pc[q] /\ mem'[q] = mem[q]
             /\ pc'[p] \in Pending => pc[p] \in Pending /\ mem'[p] = mem[p] /\ file' = file
  <2>1. "idle" \notin Pending
    BY DEF Pending
  <2>2. pc' = [pc EXCEPT ![p] = label] /\ mem' = IF label = "idle" THEN [mem EXCEPT ![p] = NoStore] ELSE mem
    BY <1>2 DEF Goto
  <2> QED
    BY <1>0, <1>1, <1>2, <2>1, <2>2
<1>3. CASE OpenLock(p) \/ LockExists(p)
  BY <1>2, <1>3 DEF OpenLock, LockExists, Pending
<1>4. CASE StatLock(p) \/ BreakLock(p)
  BY <1>2, <1>4 DEF StatLock, AfterStat, BreakLock, Pending
<1>5. CASE OpenTmp(p)
  BY <1>2, <1>5 DEF OpenTmp, Pending
<1>6. CASE WriteTmp(p)
  BY <1>0, <1>1, <1>2, <1>6 DEF WriteTmp, Write, Pending
<1>7. CASE WriteFails(p)
  BY <1>2, <1>7 DEF WriteFails, Write, AfterShortWrite, Pending
<1>8. CASE RenameTmp(p)
  BY <1>2, <1>8 DEF RenameTmp, Pending
<1>9. CASE OperationFails(p)
  BY <1>2, <1>9 DEF OperationFails, AfterFailure, Pending
<1>10. CASE Release(p) \/ Crash(p)
  BY <1>2, <1>10 DEF Release, Crash, Pending
<1> QED
  BY <1>3, <1>4, <1>5, <1>6, <1>7, <1>8, <1>9, <1>10 DEF FileStep

LEMMA KeepNext ==
  ASSUME Stores = TemplateStores, KeepInv, [TemplateNext]_storeVars PROVE KeepInv'
<1>0. TemplateTypeOK' /\ FileInv'
  BY ToolsType, TemplateStepIsFileStep, FileInvNext DEF KeepInv
<1>t. /\ pc \in [Procs -> {"idle"} \union Saving] /\ mem \in [Procs -> Stores \union {NoStore}]
      /\ call \in [Procs -> StoreCalls \union {NoCall}] /\ raced \in [Procs -> BOOLEAN]
  BY DEF KeepInv, TemplateTypeOK, FileTypeOK
<1>1. ASSUME NEW p \in Procs, NEW op \in StoreCalls, Call(p, op),
             NEW q \in Procs, pc'[q] \in Pending, ~raced'[q], ~stolen'
      PROVE  call'[q] \in StoreCalls /\ mem'[q] = NewStore(call'[q], Understood(file'))
  <2>1. CASE q = p
    BY <1>t, <1>1, <2>1 DEF Call, Save
  <2>2. CASE q # p
    BY <1>t, <1>1, <2>2 DEF Call, Save, KeepInv, SavesOnTop
  <2> QED
    BY <2>1, <2>2
<1>2. ASSUME NEW p \in Procs, Operation(p),
             NEW q \in Procs, pc'[q] \in Pending, ~raced'[q], ~stolen'
      PROVE  call'[q] \in StoreCalls /\ mem'[q] = NewStore(call'[q], Understood(file'))
  <2>1. /\ ~stolen /\ pc[p] # "idle"
        /\ \A x \in Procs \ {p} : pc'[x] = pc[x] /\ mem'[x] = mem[x]
        /\ pc'[p] \in Pending => pc[p] \in Pending /\ mem'[p] = mem[p] /\ file' = file
    BY <1>2, PendingStep DEF Operation
  <2>2. call'[q] = call[q]
    BY <1>t, <1>2, <2>1 DEF Operation, Pending
  <2>3. file' = file /\ ~raced[q]
    <3>1. CASE file' = file
      BY <1>2, <3>1 DEF Operation
    <3>2. CASE file' # file
      <4>1. q # p /\ pc[q] # "idle"
        BY <1>2, <2>1, <3>2 DEF Pending
      <4>2. raced'[q]
        BY <1>2, <3>2, <4>1 DEF Operation
      <4> QED
        BY <1>2, <4>2
    <3> QED
      BY <3>1, <3>2
  <2>4. pc[q] \in Pending /\ mem'[q] = mem[q]
    BY <1>2, <2>1
  <2> QED
    BY <2>1, <2>2, <2>3, <2>4 DEF KeepInv, SavesOnTop
<1>3. ASSUME Age \/ UNCHANGED storeVars,
             NEW q \in Procs, pc'[q] \in Pending, ~raced'[q], ~stolen'
      PROVE  call'[q] \in StoreCalls /\ mem'[q] = NewStore(call'[q], Understood(file'))
  BY <1>3 DEF Age, LockAges, storeVars, fileVars, KeepInv, SavesOnTop
<1>4. SavesOnTop'
  BY <1>1, <1>2, <1>3 DEF TemplateNext, SavesOnTop
<1> QED
  BY <1>0, <1>4 DEF KeepInv

\* A save that replaces the very store it loaded has that store in hand, and puts in
\* its place what its call makes of it.
LEMMA SavedOnTop ==
  ASSUME KeepInv, [TemplateNext]_storeVars, NEW p \in Procs, SavesUnraced(p)
  PROVE  call[p] \in StoreCalls /\ file' = NewStore(call[p], Understood(file))
<1>t. pc \in [Procs -> {"idle"} \union Saving]
  BY DEF KeepInv, TemplateTypeOK, FileTypeOK
<1>1. pc[p] = "rename" /\ pc'[p] = "release" /\ ~raced[p] /\ ~stolen
  BY DEF SavesUnraced
<1>2. call[p] \in StoreCalls /\ mem[p] = NewStore(call[p], Understood(file)) /\ tmp = mem[p]
  BY <1>1 DEF KeepInv, SavesOnTop, Pending, FileInv, FilesWhole
<1>3. PICK q \in Procs : (\E op \in StoreCalls : Call(q, op)) \/ Operation(q)
  BY <1>1 DEF TemplateNext, Age, LockAges, storeVars, fileVars
<1>4. ~ \E op \in StoreCalls : Call(q, op)
  BY <1>t, <1>1 DEF Call, Save
<1>5. q = p
  BY <1>t, <1>1, <1>3, <1>4 DEF Operation, FileStep, Crash, OpenLock, LockExists, StatLock, BreakLock, OpenTmp,
     WriteTmp, WriteFails, Write, RenameTmp, OperationFails, Release, Goto
<1>6. RenameTmp(p)
  BY <1>t, <1>1, <1>3, <1>4, <1>5 DEF Operation, FileStep, Crash, OpenLock, LockExists, StatLock, BreakLock,
     OpenTmp, WriteTmp, WriteFails, Write, OperationFails, AfterFailure, Release, Goto
<1> QED
  BY <1>2, <1>6 DEF RenameTmp

LEMMA KeptStep ==
  ASSUME Stores = TemplateStores, KeepInv, [TemplateNext]_storeVars, NEW p \in Procs, SavesUnraced(p),
         NEW t \in Entries(file)
  PROVE  Gone(call[p], t) \/ \E n \in EntryOf(Entries(file'), t.id) :
                               n.count >= t.count /\ (Named(call[p], t) \/ n.label = t.label)
<1>1. call[p] \in StoreCalls /\ file' = NewStore(call[p], Understood(file))
  BY SavedOnTop
<1>2. Understood(file) \in TemplateStores /\ t \in Understood(file).templates
  BY UnderstoodFacts DEF Entries
<1>3. Entries(file') = NewStore(call[p], Understood(file)).templates
  BY <1>1, <1>2, NewStoreType DEF Entries, Understood
<1> QED
  BY <1>1, <1>2, <1>3, NewStoreKeeps

\* A save on top of the store that was loaded loses no entry, label or count but those
\* its call was asked to, for any calls of any number of processes
\* (cluster-errors.js:112-151, template-mgmt.js:46-125).
THEOREM NothingLostUnlessRaced ==
  ASSUME Stores = TemplateStores PROVE TemplateSpec => KeptUnlessRaced
<1>1. TemplateInit => KeepInv
  BY ToolsInit DEF TemplateInit, NoSaves, KeepInv, SavesOnTop, Pending
<1>2. KeepInv /\ [TemplateNext]_storeVars => KeepInv'
  BY KeepNext
<1> DEFINE Kept ==
      \A p \in Procs : SavesUnraced(p) =>
        \A t \in Entries(file) :
          LET op    == call[p]
              gone  == \/ op.tool = "import_templates" /\ (op.replace \/ t.id \in Ids(op.templates))
                       \/ op.tool = "delete_template" /\ t.id = op.id
              named == op.tool = "rename_template" /\ t.id = op.id
          IN gone \/ \E n \in EntryOf(Entries(file'), t.id) :
                       n.count >= t.count /\ (named \/ n.label = t.label)
<1>3. KeepInv /\ [TemplateNext]_storeVars => Kept
  BY KeptStep DEF Gone, Named
<1>4. KeepInv /\ [TemplateNext]_storeVars => [Kept]_storeVars
  BY <1>3
<1> HIDE DEF Kept
<1>5. TemplateSpec => [][Kept]_storeVars
  BY <1>1, <1>2, <1>4, PTL DEF TemplateSpec
<1> QED
  BY <1>5 DEF KeptUnlessRaced, Kept
=============================================================================
