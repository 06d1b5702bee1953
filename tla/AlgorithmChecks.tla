--------------------------- MODULE AlgorithmChecks ---------------------------
(***************************************************************************)
(* The pure algorithms of Retrieval, PitfallExtraction and Condensation    *)
(* against what they promise, over every small input.  TLC evaluates the   *)
(* assumptions before it starts a run of a module that extends this one.   *)
(***************************************************************************)
EXTENDS Retrieval, PitfallExtraction, Condensation

Upto(S, n) == UNION {[1..k -> S] : k \in 0..n}
IdsOf(s) == {s[i].id : i \in 1..Len(s)}

-----------------------------------------------------------------------------
(* sortScoredEpisodics (an exchange sort) orders by score, then by weight, *)
(* and loses and doubles nothing.                                          *)
Items(n) ==
    LET scores == Upto([score : 1..2, weight : 1..2], n) IN
    {[i \in 1..Len(s) |-> [score |-> s[i].score, mem |-> [id |-> i, weight |-> s[i].weight]]] :
        s \in scores}

ASSUME ExchangeSortSorts ==
    \A items \in Items(4) :
        LET r == Ranked(items) IN
        /\ Len(r) = Len(items) /\ ToSet(r) = ToSet(items)
        /\ \A i, j \in 1..Len(r) : i < j => ~Behind(r[i], r[j])

(* Three memories as the channels see them.                                *)
Channels == [cosine : {NoScore, 1, 2}, overlap : 0..2, surprise : {0, 1}]
Table(views) ==
    [i \in 1..3 |-> [id |-> i, weight |-> 20 - i, project |-> "vat", language |-> "go",
        task |-> "debug", retired |-> FALSE, at |-> i, cosine |-> views[i].cosine,
        overlap |-> views[i].overlap, surprise |-> views[i].surprise]]
Tables == {Table(views) : views \in [1..3 -> Channels]}
PlainTables == {t \in Tables : \A i \in 1..3 : t[i].surprise = 0}
Recall(boost, limit, newest) ==
    [project |-> "vat", language |-> "", task |-> "", minWeight |-> 0, window |-> 0..9,
     obsolete |-> FALSE, channels |-> {"embedding", "text"}, boost |-> boost,
     newest |-> newest, limit |-> limit]

(* The doc of rrfRanked: a memory is found when either channel finds it,   *)
(* and one that is ahead in both is ahead in the fusion.                   *)
ASSUME FusionFindsWhatAChannelFinds ==
    \A t \in PlainTables :
        LET answer == RankedEpisodes(t, Recall(0, 3, FALSE))
            place(i) == CHOOSE k \in 1..Len(answer) : answer[k].id = i
        IN  /\ IdsOf(answer) = {i \in 1..3 : t[i].cosine # NoScore \/ t[i].overlap > 0}
            /\ \A i, j \in IdsOf(answer) :
                  t[i].cosine > t[j].cosine /\ t[i].overlap > t[j].overlap => place(i) < place(j)

(* "promoting high-surprise memories above otherwise-equal peers": to make *)
(* one memory surprising moves it ahead or leaves it.                      *)
ASSUME SurprisePromotes ==
    \A t \in PlainTables, i \in 1..3 :
        LET answer(s) == RankedEpisodes(s, Recall(25, 3, FALSE))
            place(s) == CHOOSE k \in 0..3 :
                            IF i \in IdsOf(s) THEN k > 0 /\ k <= Len(s) /\ s[k].id = i ELSE k = 0
        IN  place(answer([t EXCEPT ![i].surprise = 1])) <= place(answer(t))

(* "rank-then-sort": asking for the most recent changes the order of the   *)
(* best limit memories, never which they are.                              *)
ASSUME NewestOnlyReorders ==
    \A t \in PlainTables, limit \in 1..2 :
        LET recent == RankedEpisodes(t, Recall(0, limit, TRUE)) IN
        /\ IdsOf(recent) = IdsOf(RankedEpisodes(t, Recall(0, limit, FALSE)))
        /\ \A i, j \in 1..Len(recent) : i < j => recent[i].at > recent[j].at

(* Without a vector of the query the recall of a prefetch falls back to    *)
(* words: it then finds what the lexical channel of the fusion finds.      *)
ASSUME FallbackFindsTheWords ==
    \A t \in PlainTables, limit \in 1..2, newest \in BOOLEAN :
        LET silent == [i \in 1..3 |-> [t[i] EXCEPT !.cosine = NoScore]]
            words(s) == {s[i].overlap : i \in 1..Len(s)}
            recall == LexicalRecall(t, "vat", 0..9, limit, newest)
            fused == RankedEpisodes(silent, Recall(0, limit, newest))
        IN  words(recall) = words(fused) /\ Len(recall) = Len(fused)

-----------------------------------------------------------------------------
(* Memories of two languages as search_memories meets them.                *)
Kept == [weight : {0, 9, 11}, language : {"go", "py"}, retired : BOOLEAN]
Shelves ==
    {[i \in 1..Len(s) |-> [id |-> i, weight |-> s[i].weight, project |-> "vat",
        language |-> s[i].language, task |-> "debug", retired |-> s[i].retired, at |-> i,
        cosine |-> 50 + i, overlap |-> 1, surprise |-> 0]] : s \in Upto(Kept, 2)}
Context(task, language) == [project |-> "vat", language |-> language, task |-> task]

(* The soft weights of task and language never show: the language is       *)
(* filtered by the store before, and the store hands over no more rows     *)
(* than the gate lets through.                                             *)
ASSUME SoftWeightsNeverShow ==
    \A shelf \in Shelves, task \in BOOLEAN, language \in {"", "go"}, max \in 1..2 :
        LET found == Candidates(shelf, Context(task, language), FALSE, max) IN
        Gated(shelf, Context(task, language), FALSE, max)
            = FilterAndRank(found, Context(FALSE, ""), max)

(* include_dormant shows no retired memory, and may hide an active one     *)
(* (the rows of the retired ones count against the store's limit).         *)
ASSUME DormantShowsNothingMore ==
    \A shelf \in Shelves, max \in 1..2 :
        IdsOf(Gated(shelf, Context(FALSE, ""), TRUE, max))
            \subseteq IdsOf(Gated(shelf, Context(FALSE, ""), FALSE, max))
ASSUME DormantMayHide ==
    \E shelf \in Shelves :
        IdsOf(Gated(shelf, Context(FALSE, ""), TRUE, 1))
            # IdsOf(Gated(shelf, Context(FALSE, ""), FALSE, 1))

(* Error-aware search: of the pitfalls of the entity the answer has three, *)
(* and none that is left out was corrected by the user, or hit more often, *)
(* when one that is shown was not.                                         *)
Urgent == [corrected : BOOLEAN, occurrences : 1..2, weight : {20}]
ASSUME MostUrgentAreShown ==
    \A s \in [1..4 -> Urgent] :
        LET pitfalls == [i \in 1..4 |-> s[i] @@ [id |-> i]]
            shown == IdsOf(SearchMemories(<< >>, << >>, pitfalls, Context(FALSE, ""), FALSE, 1, 10))
        IN  /\ Cardinality(shown) = 3
            /\ \A i \in shown, j \in (1..4) \ shown :
                  /\ s[j].corrected => s[i].corrected
                  /\ s[j].corrected = s[i].corrected => s[j].occurrences <= s[i].occurrences

-----------------------------------------------------------------------------
(* The risk of an edit. *)
Risky == [status : {"confirmed", "proposed", "suppressed"}, occurrences : {1, 2, 4},
          weight : {11, 20}, trust : {2, 5}, fading : {10, 100}]

(* Another pitfall never makes an edit look safer, one that may not be     *)
(* shown changes nothing, and complexity alone raises no risk.             *)
ASSUME RiskGrows ==
    \A p, q \in Risky, c \in {0, 50, 100} :
        /\ RiskOf(<<p, q>>, c) >= RiskOf(<<p>>, c)
        /\ ~Injectable(q) => RiskOf(<<p, q>>, c) = RiskOf(<<p>>, c)
        /\ RiskOf(<<p>>, c) <= RiskOf(<<p>>, 100)
        /\ RiskOf(<< >>, c) = 0

-----------------------------------------------------------------------------
(* Clustering of up to three episodes. *)
Grid(n, S) == {[i \in 1..n |-> [j \in 1..n |-> IF i = j THEN 100 ELSE s[{i, j}]]] :
                  s \in [{{i, j} : i, j \in 1..n} -> S]}

(* Every episode is in one cluster, and no two clusters are left that are  *)
(* close enough to merge.                                                  *)
ASSUME ClusteringEnds ==
    \A cosine \in Grid(3, {0, 84, 90}), words \in Grid(3, {0, 60}), embedded \in SUBSET (1..3) :
        LET clusters == SubCluster(3, embedded, cosine, words) IN
        /\ FlattenSeq(clusters) \in [1..3 -> 1..3]
        /\ ToSet(FlattenSeq(clusters)) = 1..3
        /\ \A k, l \in 1..Len(clusters) : k < l =>
              ClusterSimilarity(clusters[k], clusters[l], embedded, cosine, words)
                  < Threshold(embedded)

(* An episode is evidence of one pitfall at most, and of one whose cluster *)
(* is as large as the deployment asks for.                                 *)
ASSUME EvidenceIsCountedOnce ==
    \A cosine \in Grid(3, {0, 90}), embedded \in SUBSET (1..3), min \in 1..4 :
        LET said == [c \in UNION {[1..n -> 1..3] : n \in 1..3} |-> "x"]
            pitfalls == Extracted("a", 3, min, embedded, cosine, cosine, said)
            sources == FlattenSeq([k \in 1..Len(pitfalls) |-> pitfalls[k].sources])
        IN  /\ Cardinality(ToSet(sources)) = Len(sources)
            /\ \A k \in 1..Len(pitfalls) :
                  pitfalls[k].occurrences = Len(pitfalls[k].sources)
                      /\ pitfalls[k].occurrences >= min

(* Pitfalls of two entities as the clusters leave them.                    *)
Found(s) == [i \in 1..3 |-> [id |-> i, entity |-> s[i].entity, signature |-> s[i].signature,
                             occurrences |-> s[i].occurrences, sources |-> <<i>>]]
FoundPitfalls ==
    {Found(s) : s \in [1..3 -> [entity : {"a", "b"}, signature : {"x", "y"}, occurrences : 2..4]]}
Times(s) == FoldLeft(LAMBDA sum, p : sum + p.occurrences, 0, s)

(* Deduplication loses no source and no occurrence, and never merges       *)
(* pitfalls of two entities.                                               *)
ASSUME DeduplicationKeepsEvidence ==
    \A pitfalls \in FoundPitfalls, embedded \in {{}, 1..3}, alike \in Grid(3, {80, 95}) :
        LET kept == Deduplicated(pitfalls, embedded, alike) IN
        /\ Times(kept) = Times(pitfalls)
        /\ ToSet(FlattenSeq([k \in 1..Len(kept) |-> kept[k].sources])) = 1..3
        /\ \A k \in 1..Len(kept), i \in 1..3 :
              i \in ToSet(kept[k].sources) => pitfalls[i].entity = kept[k].entity

(* With vectors the result may still hold two pitfalls of one entity that  *)
(* are above the threshold: a group is compared with its leader, and       *)
(* leaves with the signature of the member that occurred most.             *)
ASSUME NearDuplicatesMayStay ==
    \E pitfalls \in FoundPitfalls, alike \in Grid(3, {80, 95}) :
        LET kept == Deduplicated(pitfalls, 1..3, alike) IN
        \E k, l \in 1..Len(kept) : k < l /\ kept[k].entity = kept[l].entity
                                        /\ alike[kept[k].id][kept[l].id] >= DedupThreshold

-----------------------------------------------------------------------------
(* Recalls of up to three texts made of two pieces.                        *)
Texts == (SUBSET {"fact", "detail"}) \ {{}}
Recalls(entities) ==
    {[i \in 1..Len(s) |-> [id |-> i, pieces |-> s[i].pieces, entity |-> s[i].entity,
                           size |-> i]] :
        s \in Upto([pieces : Texts, entity : entities], 3)}
Best1(s) == IF s = << >> THEN {} ELSE {s[1].id}
InOrder(s) == \A i, j \in 1..Len(s) : i < j => s[i].id < s[j].id

(* Condensing never reorders, shows no text that another shown one         *)
(* contains, keeps the best of a recall, and goes beyond its budget with   *)
(* that one alone; pitfalls of two entities never collapse.                *)
ASSUME CondensationKeepsTheBest ==
    \A eps \in Recalls({"a"}), pits \in Recalls({"a", "b"}), budget \in {0, 3, 5} :
        LET shown == Condensed(eps, pits, {}, budget) IN
        /\ InOrder(shown.episodes) /\ InOrder(shown.pitfalls)
        /\ Best1(eps) \subseteq IdsOf(shown.episodes)
        /\ Best1(pits) \subseteq IdsOf(shown.pitfalls)
        /\ \A e, f \in ToSet(shown.episodes) : e.pieces \subseteq f.pieces => e = f
        /\ budget > 0 /\ Tokens(shown.episodes) + Tokens(shown.pitfalls) > budget =>
              Len(shown.episodes) <= 1 /\ Len(shown.pitfalls) <= 1
        /\ budget = 0 =>
              {p.entity : p \in ToSet(shown.pitfalls)} = {p.entity : p \in ToSet(pits)}

(* The file says that suppression loses no independent information.  It    *)
(* does when the shorter of two texts is ranked first: the longer one      *)
(* contains it, counts as redundant, and its detail is not shown.          *)
ASSUME DetailMayBeLost ==
    \E eps \in Recalls({"a"}) :
        UNION {e.pieces : e \in ToSet(Condensed(eps, << >>, {}, 0).episodes)}
            # UNION {e.pieces : e \in ToSet(eps)}
=============================================================================
