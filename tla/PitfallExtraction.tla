-------------------------- MODULE PitfallExtraction --------------------------
(***************************************************************************)
(* How a consolidation turns debug episodes into pitfalls: the episodes of *)
(* one entity are clustered bottom-up, a cluster that is large enough      *)
(* becomes a pitfall, and pitfalls that say the same are merged.           *)
(*                                                                         *)
(* Episodes are the numbers 1..n.  embedded is the set of those that have  *)
(* a vector; cosine[i][j] and words[i][j] are the similarity of two        *)
(* vectors and the overlap of two summaries, in percent.  A pitfall is a   *)
(* record with its entity, signature, occurrences and the bag of its       *)
(* sources, as a sequence.                                                 *)
(***************************************************************************)
EXTENDS Integers, Sequences, SequencesExt, FiniteSetsExt

MergeThreshold == 85
LexicalMergeThreshold == 30
DedupThreshold == 90
MaxEpisodicsPerEntity == 50

(* Means are counted in such parts: exact for up to ten pairs.             *)
Parts == 2520
Mean(pairs, of) ==
    (Parts * MapThenSumSet(LAMBDA p : of[p[1]][p[2]], pairs)) \div Cardinality(pairs)

(* The mean over the pairs that have vectors, or over the words of all     *)
(* pairs when there is no such pair.                                       *)
ClusterSimilarity(a, b, embedded, cosine, words) ==
    LET seen == (ToSet(a) \cap embedded) \X (ToSet(b) \cap embedded)
        all == ToSet(a) \X ToSet(b)
    IN  IF seen # {} THEN Mean(seen, cosine) ELSE Mean(all, words)

(* The threshold of words holds only when no episode has a vector.         *)
Threshold(embedded) ==
    Parts * (IF embedded = {} THEN LexicalMergeThreshold ELSE MergeThreshold)

(* The first of the closest pairs becomes one cluster, if they are close   *)
(* enough.                                                                 *)
MergeClosest(clusters, embedded, cosine, words) ==
    LET n == Len(clusters)
        sim(p) == ClusterSimilarity(clusters[p[1]], clusters[p[2]], embedded, cosine, words)
        near == {p \in (1..n) \X (1..n) :
                    p[1] < p[2] /\ sim(p) > 0 /\ sim(p) >= Threshold(embedded)}
        closest == {p \in near : \A q \in near : sim(p) >= sim(q)}
        before(p, q) == p[1] < q[1] \/ (p[1] = q[1] /\ p[2] <= q[2])
    IN  IF near = {} THEN clusters
        ELSE LET best == CHOOSE p \in closest : \A q \in closest : before(p, q)
             IN  RemoveAt([clusters EXCEPT ![best[1]] = @ \o clusters[best[2]]], best[2])

(* Every merge leaves one cluster less, so n - 1 rounds reach the end.     *)
SubCluster(n, embedded, cosine, words) ==
    FoldLeft(LAMBDA clusters, round : MergeClosest(clusters, embedded, cosine, words),
             [i \in 1..n |-> <<i>>], [round \in 1..n - 1 |-> round])

-----------------------------------------------------------------------------
(* Deduplication.  alike[i][j]: the similarity of the signatures of the    *)
(* i-th and the j-th pitfall, if both could be embedded.                   *)
SaysTheSame(pitfalls, i, j, embedded, alike) ==
    /\ pitfalls[i].entity = pitfalls[j].entity
    /\ IF {i, j} \subseteq embedded THEN alike[i][j] >= DedupThreshold
       ELSE pitfalls[i].signature = pitfalls[j].signature

(* The next pitfall that is in no group leads one with the later ones that *)
(* say the same as the leader.                                             *)
WithGroup(groups, pitfalls, i, embedded, alike) ==
    LET taken == UNION {ToSet(groups[g]) : g \in 1..Len(groups)}
        same == {j \in (i + 1)..Len(pitfalls) :
                    j \notin taken /\ SaysTheSame(pitfalls, i, j, embedded, alike)}
    IN  IF i \in taken THEN groups
        ELSE Append(groups, <<i>> \o SetToSortSeq(same, <))

DedupGroups(pitfalls, embedded, alike) ==
    FoldLeft(LAMBDA groups, i : WithGroup(groups, pitfalls, i, embedded, alike),
             << >>, [i \in 1..Len(pitfalls) |-> i])

(* The one that occurred more often keeps its identity and signature, with *)
(* the occurrences and the sources of both.                                *)
MergedWith(primary, other) ==
    LET kept == IF other.occurrences > primary.occurrences THEN other ELSE primary
        lost == IF other.occurrences > primary.occurrences THEN primary ELSE other
    IN  [kept EXCEPT !.occurrences = @ + lost.occurrences, !.sources = @ \o lost.sources]

MergedGroup(pitfalls, group) ==
    FoldLeft(LAMBDA primary, j : MergedWith(primary, pitfalls[j]), pitfalls[group[1]], Tail(group))

Deduplicated(pitfalls, embedded, alike) ==
    LET groups == DedupGroups(pitfalls, embedded, alike) IN
    [g \in 1..Len(groups) |-> MergedGroup(pitfalls, groups[g])]

(* The pitfalls of one entity: one for every cluster that is large enough. *)
(* signature[c]: what the model, or the most representative summary, says. *)
Extracted(entity, n, minClusterSize, embedded, cosine, words, signature) ==
    LET m == IF n > MaxEpisodicsPerEntity THEN MaxEpisodicsPerEntity ELSE n
        clusters == SelectSeq(SubCluster(m, embedded, cosine, words),
                              LAMBDA c : Len(c) >= minClusterSize)
    IN  IF n < minClusterSize THEN << >>
        ELSE [k \in 1..Len(clusters) |->
                 [entity |-> entity, signature |-> signature[clusters[k]],
                  occurrences |-> Len(clusters[k]), sources |-> clusters[k]]]
=============================================================================
