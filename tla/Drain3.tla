---------------------------------- MODULE Drain3 ----------------------------------
(***************************************************************************)
(* The clustering of log lines (clustering/strategies/drain3.js): templates*)
(* are kept in a bucket for each number of tokens, a line goes to the most *)
(* similar one, which is relaxed to cover it, and a line that is like none *)
(* begins a template.  A line is the sequence of its tokens after          *)
(* normalizeMessage (clustering/preprocess.js) has put wildcards.          *)
(***************************************************************************)
EXTENDS Integers, Sequences, FiniteSets

CONSTANTS Tokens,  \* words of log lines
          Wildcard, \* model value: WILDCARD
          Lens     \* the numbers of tokens of the lines

Lines == UNION {[1..n -> Tokens \union {Wildcard}] : n \in Lens}
\* A line without tokens is skipped.
ASSUME LensAssumption == Lens \subseteq Nat \ {0}

\* An id is a hash of the tokens a template began with; here it is these tokens.
Template == [id : Lines, tokens : Lines]
\* { lengthBuckets: { [len]: { templates } } }
Buckets == [Lens -> Seq(Template)]
NoBuckets == [n \in Lens |-> <<>>]
-----------------------------------------------------------------------------
Matches(a, b) == a = b \/ Wildcard \in {a, b}
\* similarity, times the length.
Score(tokens, line) == Cardinality({i \in DOMAIN line : Matches(tokens[i], line[i])})
\* Mutant of Relax: tokens that differ are dropped.
RelaxDropping(tokens, line) == SubSeq(tokens, 1, Cardinality({i \in DOMAIN line : tokens[i] = line[i]}))
\* relax
Relax(tokens, line) == [i \in DOMAIN tokens |-> IF tokens[i] = line[i] THEN tokens[i] ELSE Wildcard]
\* The first template of the highest score, when that is not 0.
Best(bucket, line) ==
  {k \in DOMAIN bucket :
     /\ Score(bucket[k].tokens, line) > 0
     /\ \A j \in DOMAIN bucket :
          /\ Score(bucket[j].tokens, line) <= Score(bucket[k].tokens, line)
          /\ j < k => Score(bucket[j].tokens, line) < Score(bucket[k].tokens, line)}
\* Mutant of Similar: the threshold itself is not enough.
SimilarBeyond(bucket, line, threshold) ==
  {k \in Best(bucket, line) : 10 * Score(bucket[k].tokens, line) > threshold * Len(line)}
\* The threshold is given in tenths.
Similar(bucket, line, threshold) ==
  {k \in Best(bucket, line) : 10 * Score(bucket[k].tokens, line) >= threshold * Len(line)}
Without(bucket, k) == SubSeq(bucket, 1, k - 1) \o SubSeq(bucket, k + 1, Len(bucket))
\* push, and shift on overflow.
Pushed(bucket, t, maxChildren) ==
  LET longer == Append(bucket, t) IN IF Len(longer) > maxChildren THEN Tail(longer) ELSE longer

\* What cluster() keeps while it goes through the lines: the buckets, the id each line
\* is assigned to, the touched templates by id, and (history) the ids it has evicted.
Nothing(buckets) == [buckets |-> buckets, assigned |-> <<>>, touched |-> <<>>, evicted |-> {}]
\* Mutant of Touch: what is reported is the template before it is relaxed.
TouchBefore(touched, id, tokens, before) ==
  [i \in DOMAIN touched \union {id} |-> IF i = id THEN before ELSE touched[i]]
Touch(touched, id, tokens, before) ==
  [i \in DOMAIN touched \union {id} |-> IF i = id THEN tokens ELSE touched[i]]
\* A line that is similar to the template at k: it is relaxed, and becomes the youngest.
Reinforce(r, line, k) ==
  LET n       == Len(line)
      t       == r.buckets[n][k]
      relaxed == Relax(t.tokens, line)
  IN [buckets  |-> [r.buckets EXCEPT ![n] = Append(Without(@, k), [id |-> t.id, tokens |-> relaxed])],
      assigned |-> Append(r.assigned, t.id),
      touched  |-> Touch(r.touched, t.id, relaxed, t.tokens),
      evicted  |-> r.evicted]
\* A line that begins a template.
Learn(r, line, maxChildren) ==
  LET n     == Len(line)
      after == Pushed(r.buckets[n], [id |-> line, tokens |-> line], maxChildren)
      Ids(b) == {b[i].id : i \in DOMAIN b}
  IN [buckets  |-> [r.buckets EXCEPT ![n] = after],
      assigned |-> Append(r.assigned, line),
      touched  |-> Touch(r.touched, line, line, line),
      evicted  |-> r.evicted \union ((Ids(r.buckets[n]) \union {line}) \ Ids(after))]
Assign(r, line, threshold, maxChildren) ==
  LET ks == Similar(r.buckets[Len(line)], line, threshold)
  IN IF ks = {} THEN Learn(r, line, maxChildren) ELSE Reinforce(r, line, CHOOSE k \in ks : TRUE)
Cluster(buckets, lines, threshold, maxChildren) ==
  LET R[i \in 0..Len(lines)] ==
        IF i = 0 THEN Nothing(buckets) ELSE Assign(R[i - 1], lines[i], threshold, maxChildren)
  IN R[Len(lines)]
-----------------------------------------------------------------------------
\* Reference: a template covers a line when they differ at wildcards only.
Covers(tokens, line) ==
  /\ DOMAIN tokens = DOMAIN line
  /\ \A i \in DOMAIN line : tokens[i] = Wildcard \/ tokens[i] = line[i]
\* Reference: the templates of each length have ids of their own, and each covers the
\* line that its id was made from.
SoundBucket(b, n) ==
  /\ \A i, j \in DOMAIN b : b[i].id = b[j].id => i = j
  /\ \A i \in DOMAIN b : Covers(b[i].tokens, b[i].id) /\ DOMAIN b[i].id = 1..n
SoundBuckets(buckets) == \A n \in Lens : SoundBucket(buckets[n], n)
=============================================================================
