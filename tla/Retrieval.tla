------------------------------ MODULE Retrieval ------------------------------
(***************************************************************************)
(* How a search chooses and orders what it answers: the ranking of the     *)
(* SQLite backend, the gate and the mixing of search_memories and POST     *)
(* /search, the recall of a prefetch, and the risk of an edit.             *)
(*                                                                         *)
(* A memory is a record.  cosine is its similarity to the query, NoScore   *)
(* when it has no vector of the query's dimension; overlap is the lexical  *)
(* overlap with the query, 0 for none; surprise is 0 or 1; at is the time  *)
(* of the event.  Scores are whole numbers: only their order matters.      *)
(* Ties that sort.Slice or SQL leave open are settled by SortSeq.          *)
(***************************************************************************)
EXTENDS MemoryModels, Sequences, SequencesExt, TLC

NoScore == -100

Best(s, ahead(_, _), limit) ==
    LET sorted == SortSeq(s, ahead) IN SubSeq(sorted, 1, Least(limit, Len(s)))

Scored(mems, keep(_), score(_)) ==
    LET kept == SelectSeq(mems, keep) IN
    [i \in 1..Len(kept) |-> [mem |-> kept[i], score |-> score(kept[i])]]
Memories(items) == [i \in 1..Len(items) |-> items[i].mem]

-----------------------------------------------------------------------------
(* The ranking of the store. *)

(* The better score is ahead, with equal scores the heavier memory.        *)
Behind(a, b) == a.score < b.score \/ (a.score = b.score /\ a.mem.weight < b.mem.weight)

Exchanged(s, i, j) ==
    IF Behind(s[i], s[j]) THEN [s EXCEPT ![i] = s[j], ![j] = s[i]] ELSE s

(* Every position is compared with every later one, in turn.               *)
Pairs(n) == FlattenSeq([i \in 1..n |-> [k \in 1..n - i |-> <<i, i + k>>]])
Ranked(items) == FoldLeft(LAMBDA s, p : Exchanged(s, p[1], p[2]), items, Pairs(Len(items)))

Semantic(mems) == Scored(mems, LAMBDA m : m.cosine # NoScore, LAMBDA m : m.cosine)
Lexical(mems) == Scored(mems, LAMBDA m : m.overlap > 0, LAMBDA m : m.overlap)

(* The 1-based rank of m in a list, 0 when it is not in it.                *)
RankIn(list, m) ==
    LET at == {i \in 1..Len(list) : list[i].mem.id = m.id} IN
    IF at = {} THEN 0 ELSE CHOOSE i \in at : TRUE

RrfK == 60

(* Rank r is worth 1/(RrfK + r), counted in shares of a common multiple of *)
(* the denominators that occur.                                            *)
Whole(n) == FoldLeft(LAMBDA u, r : u * (RrfK + r), 1, [r \in 1..n |-> r])
Share(whole, r) == IF r = 0 THEN 0 ELSE whole \div (RrfK + r)

(* A surprising memory counts boost hundredths more.                       *)
Surprised(score, boost, m) == score * (100 + boost * m.surprise)

(* Reciprocal rank fusion; a memory no channel ranks is left out.          *)
Fused(mems, boost) ==
    LET sem == Ranked(Semantic(mems))
        lex == Ranked(Lexical(mems))
        whole == Whole(Len(mems))
        sum(m) == Share(whole, RankIn(sem, m)) + Share(whole, RankIn(lex, m))
    IN  Scored(mems, LAMBDA m : sum(m) > 0, LAMBDA m : Surprised(sum(m), boost, m))

Heavier(a, b) == a.weight > b.weight
Newer(a, b) == a.at > b.at

(* The best limit of a ranking, then by time if the most recent are asked. *)
Top(ranked, limit, newest) ==
    LET best == SubSeq(Memories(ranked), 1, Least(limit, Len(ranked))) IN
    IF newest THEN SortSeq(best, Newer) ELSE best

RankPool == 5000

(* window: the times the query covers; the text of "" filters nothing.     *)
Wanted(m, q) ==
    /\ q.project # "" => m.project = q.project
    /\ q.language # "" => m.language = q.language
    /\ q.task # "" => m.task = q.task
    /\ m.weight >= q.minWeight
    /\ m.retired => q.obsolete
    /\ m.at \in q.window

(* channels: which of the query's text and its embedding the caller gives; *)
(* limit is positive (the code takes 10 for anything else).                *)
RankedEpisodes(table, q) ==
    LET inGo == "embedding" \in q.channels \/ q.boost > 0
        wanted == SelectSeq(table, LAMBDA m : Wanted(m, q))
        fetch == IF inGo THEN RankPool ELSE q.limit
        found == IF q.newest THEN Best(wanted, Newer, fetch) ELSE Best(wanted, Heavier, fetch)
        plain == IF "embedding" \in q.channels THEN Semantic(found)
                 ELSE Scored(found, LAMBDA m : TRUE, LAMBDA m : m.weight)
        scores == IF q.channels = {"embedding", "text"} THEN Fused(found, q.boost)
                  ELSE [i \in 1..Len(plain) |->
                           [plain[i] EXCEPT !.score = Surprised(@, q.boost, plain[i].mem)]]
    IN  IF inGo THEN Top(Ranked(scores), q.limit, q.newest) ELSE found

-----------------------------------------------------------------------------
(* search_memories and POST /search. *)

(* Tenths: a task of the request adds 2, a shared language 1.              *)
SoftBoost(m, ctx) ==
    10 + (IF ctx.task THEN 2 ELSE 0)
       + (IF ctx.language # "" /\ m.language = ctx.language THEN 1 ELSE 0)

(* 0.01: of the weights counted here only 0 is below it.                   *)
CoolingThreshold == 1

(* An empty project of the request matches no stored one.                  *)
FilterAndRank(found, ctx, limit) ==
    Best(SelectSeq(found, LAMBDA m : /\ m.project = ctx.project
                                     /\ ~m.retired
                                     /\ m.weight >= CoolingThreshold),
         LAMBDA a, b : a.weight * SoftBoost(a, ctx) > b.weight * SoftBoost(b, ctx), limit)

(* The rows the store hands to the gate: at most maxCandidates.            *)
Candidates(table, ctx, dormant, maxCandidates) ==
    RankedEpisodes(table, [project |-> ctx.project, language |-> ctx.language,
        task |-> "", minWeight |-> 0, window |-> Nat, obsolete |-> dormant,
        channels |-> {"embedding"}, boost |-> 0, newest |-> FALSE, limit |-> maxCandidates])

Gated(table, ctx, dormant, maxCandidates) ==
    FilterAndRank(Candidates(table, ctx, dormant, maxCandidates), ctx, maxCandidates)

(* User-corrected first, then the more frequent, then the heavier.         *)
MoreUrgent(p, q) ==
    IF p.corrected # q.corrected THEN p.corrected
    ELSE IF p.occurrences # q.occurrences THEN p.occurrences > q.occurrences
    ELSE p.weight > q.weight

(* Episodes count with their weight, matching rules with one half, at most *)
(* three pitfalls of the entity with 0.6: in twentieths 10 and 12.         *)
SearchMemories(table, rules, pitfalls, ctx, dormant, maxCandidates, topK) ==
    LET rated(s, score(_)) == Scored(s, LAMBDA x : TRUE, score)
        all == rated(Gated(table, ctx, dormant, maxCandidates), LAMBDA m : m.weight)
                 \o rated(rules, LAMBDA x : 10)
                 \o rated(Best(pitfalls, MoreUrgent, 3), LAMBDA x : 12)
    IN  Memories(Best(all, LAMBDA a, b : a.score > b.score, topK))

-----------------------------------------------------------------------------
(* The recall of a prefetch and of prepare_edit_context. *)

(* No vector: the recent episodes of all projects, then those of this one  *)
(* that share words with the query.                                        *)
LexicalRecall(recent, project, window, limit, newest) ==
    LET pool == SelectSeq(recent, LAMBDA m : /\ project # "" => m.project = project
                                             /\ m.at \in window)
        lex == Lexical(pool)
        ahead(a, b) == a.score > b.score
    IN  Top(SortSeq(lex, ahead), limit, newest)

MinPitfallWeight == 10
PitfallPool == 50

(* The heaviest pitfalls, injectable ones that match the query.            *)
RetrievePitfalls(table, limit) ==
    LET pool == Best(SelectSeq(table, LAMBDA p : p.weight >= MinPitfallWeight), Heavier, PitfallPool)
        shown == SelectSeq(pool, LAMBDA p : Injectable(p) /\ p.overlap > 0)
    IN  Best(shown, LAMBDA p, q : p.overlap > q.overlap, limit)

(* A pitfall's share of the risk in units of 1/1500: three occurrences,    *)
(* full trust and no time gone by are the whole; fading is what is left    *)
(* after the time since the last occurrence, in percent.                   *)
WholeRisk == 3 * MaxTrust * 100
Contribution(p) == Least(p.occurrences, 3) * p.trust * p.fading

(* Percent; an unset complexity counts as the lowest.                      *)
ComplexityFactor(c) == IF c <= 0 THEN 50 ELSE IF c > 100 THEN 150 ELSE 50 + c

RiskOf(pitfalls, complexity) ==
    LET total == FoldLeft(LAMBDA sum, p : IF Injectable(p) THEN sum + Contribution(p) ELSE sum,
                          0, pitfalls)
    IN  Least(100 * WholeRisk, Least(WholeRisk, total) * ComplexityFactor(complexity))

RiskyPitfalls(pitfalls) ==
    Best(SelectSeq(pitfalls, Injectable), LAMBDA p, q : Contribution(p) > Contribution(q), 3)
=============================================================================
