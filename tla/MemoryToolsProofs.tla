-------------------------- MODULE MemoryToolsProofs --------------------------
(***************************************************************************)
(* Theorems about MemoryTools for any ids, calls, workloads and failures.  *)
(***************************************************************************)
EXTENDS MemoryTools, FiniteSetTheorems, TLAPS

-----------------------------------------------------------------------------
(* The arithmetic of weights, and the rows it is done on.                  *)

LEMMA ClampedTyped == ASSUME NEW w \in Int PROVE Clamped(w) \in 0..Full
BY DEF Clamped, Least, Full

LEMMA BehaviourTyped == ASSUME NEW a \in SearchActions PROVE BehaviourDelta(a) \in Int
BY DEF BehaviourDelta, SearchActions

LEMMA FeedbackTyped ==
    ASSUME NEW w \in Int, NEW f \in Nat, NEW a \in SearchActions
    PROVE  ApplyFeedback(w, f, a).weight \in 0..Full /\ ApplyFeedback(w, f, a).freq \in Nat
<1> DEFINE d == BehaviourDelta(a)
           e == IF d < 0 THEN -d ELSE d
<1>1. d \in Int
  BY BehaviourTyped
<1> HIDE DEF d
<1>2. w + d \in Int /\ f + e \in Nat
  BY <1>1
<1>3. Clamped(w + d) \in 0..Full
  BY <1>2, ClampedTyped
<1>4. ApplyFeedback(w, f, a) = [weight |-> Clamped(w + d), freq |-> f + e]
  BY DEF ApplyFeedback, d
<1> QED
  BY <1>2, <1>3, <1>4

LEMMA Weights == 0..Full \subseteq Nat /\ Full \in Nat
BY DEF Full

LEMMA BoostedTyped ==
    ASSUME NEW row \in EpisodeRow
    PROVE  /\ Boosted(row) \in EpisodeRow
           /\ Boosted(row).stored = row.stored /\ Boosted(row).retired = row.retired
<1>1. row.weight \in Nat
  BY DEF EpisodeRow
<1>2. (row.weight * 3) \div 2 \in Nat
  BY <1>1
<1> QED
  BY <1>2 DEF Boosted, EpisodeRow

LEMMA TouchedTyped ==
    ASSUME NEW row \in EpisodeRow
    PROVE  Touched(row).weight \in Nat /\ Touched(row).freq \in Nat
<1>1. row.freq \in Nat
  BY DEF EpisodeRow
<1>2. row.freq + Full \in Nat
  BY <1>1, Weights
<1> QED
  BY <1>2, Weights DEF Touched, EpisodeRow

LEMMA TrustedTyped ==
    ASSUME NEW row \in EpisodeRow
    PROVE  Trusted(row) \in EpisodeRow /\ Trusted(row).stored = row.stored
           /\ Trusted(row).retired = row.retired
<1>1. row.trust \in 1..MaxTrust
  BY DEF EpisodeRow
<1>2. Least(MaxTrust, row.trust + 1) \in 1..MaxTrust
  BY <1>1 DEF Least, MaxTrust
<1> QED
  BY <1>2 DEF EpisodeRow, Trusted

LEMMA NewRowsTyped ==
    /\ NewEpisode \in EpisodeRow /\ NewEpisode.stored /\ NoEpisode \in EpisodeRow
    /\ ~NoEpisode.stored
    /\ NewRule \in RuleRow
<1>1. DefaultTrust \in 1..MaxTrust
  BY DEF DefaultTrust, MaxTrust
<1> QED
  BY <1>1, Weights DEF NewEpisode, NoEpisode, NewRule, NoRule, RuleRow, EpisodeRow

-----------------------------------------------------------------------------
(* The tables and the store's methods.                                     *)

(* Neo4j bounds neither the weight nor the protection level.               *)
Bounded(row) ==
    backend # "neo4jpg" => row.weight \in 0..Full /\ row.protection \in 0..ProtectionLevelMax

PitfallsTyped ==
    /\ pitfall \in [Pitfalls -> PitfallRow]
    /\ \A p \in Pitfalls : Bounded(pitfall[p])

TablesTyped ==
    /\ backend \in Backends
    /\ episode \in [Episodes -> EpisodeRow]
    /\ rule \in [Rules -> RuleRow]
    /\ PitfallsTyped

SameLife(old, new) == new.stored = old.stored /\ new.retired = old.retired

LEMMA EpisodeReweighed ==
    ASSUME TablesTyped, NEW m, NEW w, NEW f,
           m \in Episodes => w \in Nat /\ f \in Nat, UpdateEpisodicWeight(m, w, f)
    PROVE  /\ episode' \in [Episodes -> EpisodeRow]
           /\ \A n \in Episodes : SameLife(episode[n], episode'[n])
<1> DEFINE new == On(Sqlite!UpdateEpisodicWeight(episode[m], w, f),
                     Memory!UpdateEpisodicWeight(episode[m], w, f),
                     Neo4j!UpdateEpisodicWeight(episode[m], w, f))
<1>1. ASSUME m \in Episodes PROVE new \in EpisodeRow /\ SameLife(episode[m], new)
  <2>1. episode[m] \in EpisodeRow
    BY <1>1 DEF TablesTyped
  <2> QED
    BY <1>1, <2>1 DEF On, SameLife, EpisodeRow, Sqlite!UpdateEpisodicWeight, Sqlite!Updated,
                Memory!UpdateEpisodicWeight, Neo4j!UpdateEpisodicWeight, Neo4j!Matched
<1>2. episode' = [episode EXCEPT ![m] = new]
  BY DEF UpdateEpisodicWeight
<1> HIDE DEF new
<1> QED
  BY <1>1, <1>2 DEF TablesTyped, SameLife

LEMMA EpisodeWritten ==
    ASSUME TablesTyped, NEW m, NEW row, m \in Episodes => row \in EpisodeRow,
           WriteEpisodic(m, row)
    PROVE  /\ episode' \in [Episodes -> EpisodeRow]
           /\ episode' = [episode EXCEPT ![m] = row]
<1>1. episode' = [episode EXCEPT ![m] = row]
  BY DEF WriteEpisodic, On, Sqlite!WriteEpisodic, Memory!WriteEpisodic, Neo4j!WriteEpisodic
<1> QED
  BY <1>1 DEF TablesTyped

LEMMA EpisodeRetired ==
    ASSUME TablesTyped, NEW m, MarkObsolete(m)
    PROVE  /\ episode' \in [Episodes -> EpisodeRow]
           /\ \A n \in Episodes : /\ episode'[n].stored = episode[n].stored
                                  /\ episode[n].retired => episode'[n].retired
<1> DEFINE new == On(Sqlite!MarkObsolete(episode[m]), Memory!MarkObsolete(episode[m]),
                     Neo4j!MarkObsolete(episode[m]))
<1>1. ASSUME m \in Episodes
      PROVE  new \in EpisodeRow /\ new.stored = episode[m].stored
             /\ (episode[m].retired => new.retired)
  <2>1. episode[m] \in EpisodeRow
    BY <1>1 DEF TablesTyped
  <2> QED
    BY <2>1 DEF On, EpisodeRow, Sqlite!MarkObsolete, Sqlite!Updated, Memory!MarkObsolete,
                Neo4j!MarkObsolete, Neo4j!Matched
<1>2. episode' = [episode EXCEPT ![m] = new]
  BY DEF MarkObsolete
<1> HIDE DEF new
<1> QED
  BY <1>1, <1>2 DEF TablesTyped

LEMMA EpisodesDeleted ==
    ASSUME TablesTyped, DeleteEpisodicByProject
    PROVE  /\ episode' \in [Episodes -> EpisodeRow]
           /\ \A n \in Episodes : episode'[n] = episode[n] \/ ~episode'[n].stored
<1>1. DOMAIN episode = Episodes
  BY DEF TablesTyped
<1>2. episode' = episode \/ episode' = [m \in Episodes |-> NoEpisode]
  BY <1>1 DEF DeleteEpisodicByProject, On, Sqlite!DeleteEpisodicByProject,
              Memory!DeleteEpisodicByProject, Sqlite!NoEpisode, Memory!NoEpisode, NoEpisode,
              Sqlite!DefaultTrust, Memory!DefaultTrust, DefaultTrust
<1> QED
  BY <1>2, NewRowsTyped DEF TablesTyped

LEMMA RuleReweighed ==
    ASSUME TablesTyped, NEW r, NEW w, NEW f,
           r \in Rules => w \in Nat /\ f \in Nat, UpdateSemanticWeight(r, w, f)
    PROVE  rule' \in [Rules -> RuleRow]
<1> DEFINE new == On(Sqlite!UpdateSemanticWeight(rule[r], w, f),
                     Memory!UpdateSemanticWeight(rule[r], w, f),
                     Neo4j!UpdateSemanticWeight(rule[r], w, f))
<1>1. ASSUME r \in Rules PROVE new \in RuleRow
  <2>1. rule[r] \in RuleRow
    BY <1>1 DEF TablesTyped
  <2> QED
    BY <1>1, <2>1 DEF On, RuleRow, EpisodeRow, Sqlite!UpdateSemanticWeight, Sqlite!Updated,
                Memory!UpdateSemanticWeight, Neo4j!UpdateSemanticWeight, Neo4j!Matched
<1>2. rule' = [rule EXCEPT ![r] = new]
  BY DEF UpdateSemanticWeight
<1> HIDE DEF new
<1> QED
  BY <1>1, <1>2 DEF TablesTyped

LEMMA RuleRetired ==
    ASSUME TablesTyped, NEW r, MarkSemanticObsolete(r)
    PROVE  rule' \in [Rules -> RuleRow]
<1> DEFINE new == On(Sqlite!MarkSemanticObsolete(rule[r]), Memory!MarkSemanticObsolete(rule[r]),
                     rule[r])
<1>1. ASSUME r \in Rules PROVE new \in RuleRow
  <2>1. rule[r] \in RuleRow
    BY <1>1 DEF TablesTyped
  <2> QED
    BY <2>1 DEF On, RuleRow, EpisodeRow, Sqlite!MarkSemanticObsolete, Sqlite!Updated,
                Memory!MarkSemanticObsolete
<1>2. rule' = [rule EXCEPT ![r] = new]
  BY DEF MarkSemanticObsolete
<1> HIDE DEF new
<1> QED
  BY <1>1, <1>2 DEF TablesTyped

LEMMA RuleWritten ==
    ASSUME TablesTyped, NEW r, WriteSemantic(r, NewRule)
    PROVE  rule' \in [Rules -> RuleRow]
<1>1. rule' = [rule EXCEPT ![r] = NewRule]
  BY DEF WriteSemantic, On, Sqlite!WriteSemantic, Memory!WriteSemantic, Neo4j!WriteSemantic
<1> QED
  BY <1>1, NewRowsTyped DEF TablesTyped

(* A pitfall row after a method that neither judges nor replaces it.       *)
SameVerdict(old, new) ==
    /\ new.stored = old.stored /\ new.status = old.status /\ new.suppressed = old.suppressed
    /\ ~old.stored => new = old

OnePitfall(p) == \A q \in Pitfalls \ {p} : pitfall'[q] = pitfall[q]

LEMMA BoundsKept ==
    /\ \A w \in Int : Sqlite!Clamped(w) \in 0..Full /\ Memory!Clamped(w) \in 0..Full
    /\ \A n \in 0..ProtectionLevelMax :
          /\ Sqlite!Least(Sqlite!ProtectionLevelMax, n + 1) \in 0..ProtectionLevelMax
          /\ Memory!Least(Memory!ProtectionLevelMax, n + 1) \in 0..ProtectionLevelMax
    /\ \A n \in Nat :
          /\ Sqlite!Least(Sqlite!ProtectionLevelMax, n + 1) \in Nat
          /\ Memory!Least(Memory!ProtectionLevelMax, n + 1) \in Nat
    /\ ProtectionLevelMax \in Nat
BY DEF Sqlite!Clamped, Sqlite!Least, Sqlite!Full, Sqlite!ProtectionLevelMax, Memory!Clamped,
       Memory!Least, Memory!Full, Memory!ProtectionLevelMax, Full, ProtectionLevelMax

LEMMA DeltasTyped ==
    ASSUME NEW a \in PitfallFeedbackActions
    PROVE  /\ Sqlite!WeightDelta(a) \in Int /\ Memory!WeightDelta(a) \in Int
           /\ Neo4j!WeightDelta(a) \in Int
BY DEF PitfallFeedbackActions, Sqlite!WeightDelta, Memory!WeightDelta, Neo4j!WeightDelta

LEMMA PitfallReweighed ==
    ASSUME TablesTyped, backend' = backend, NEW p, NEW w \in 0..Full,
           UpdatePitfallWeight(p, w), ~UpdateRefused(pitfall[p])
    PROVE  PitfallsTyped' /\ \A q \in Pitfalls : SameVerdict(pitfall[q], pitfall'[q])
<1> DEFINE new == On(Sqlite!UpdatePitfallWeight(pitfall[p], w),
                     Memory!UpdatePitfallWeight(pitfall[p], w),
                     Neo4j!UpdatePitfallWeight(pitfall[p], w))
<1>0. w \in Int
  BY Weights
<1>1. ASSUME p \in Pitfalls
      PROVE  new \in PitfallRow /\ SameVerdict(pitfall[p], new) /\ Bounded(new)
  <2>1. pitfall[p] \in PitfallRow /\ Bounded(pitfall[p])
    BY <1>1 DEF TablesTyped, PitfallsTyped
  <2> QED
    BY <1>0, <2>1 DEF On, SameVerdict, Bounded, PitfallRow, UpdateRefused,
       Sqlite!UpdatePitfallWeight, Sqlite!Updated, Memory!UpdatePitfallWeight,
       Memory!UpdateRefused, Neo4j!UpdatePitfallWeight, Neo4j!Matched
<1>2. pitfall' = [pitfall EXCEPT ![p] = new]
  BY DEF UpdatePitfallWeight
<1> HIDE DEF new
<1> QED
  BY <1>1, <1>2 DEF TablesTyped, PitfallsTyped, SameVerdict, Bounded

Rated(row, a, w, ad, pr) ==
    [row EXCEPT !.weight = w, !.adopted = IF a = "adopted" THEN ad ELSE @,
                !.protection = IF a = "recurred" THEN pr ELSE @]

LEMMA RatedRow ==
    ASSUME NEW row \in PitfallRow, NEW w \in Int, NEW ad \in Nat, NEW pr \in Nat, NEW a
    PROVE  /\ Rated(row, a, w, ad, pr) \in PitfallRow
           /\ Rated(row, a, w, ad, pr).weight = w
           /\ SameVerdict(row, Rated(row, a, w, ad, pr)) \/ ~row.stored
           /\ Rated(row, a, w, ad, pr).protection \in {pr, row.protection}
BY DEF PitfallRow, Rated, SameVerdict

LEMMA PitfallRated ==
    ASSUME TablesTyped, backend' = backend, NEW p, NEW a \in PitfallFeedbackActions,
           ApplyPitfallFeedback(p, a), ~UpdateRefused(pitfall[p])
    PROVE  PitfallsTyped' /\ \A q \in Pitfalls : SameVerdict(pitfall[q], pitfall'[q])
<1> DEFINE new == On(Sqlite!ApplyPitfallFeedback(pitfall[p], a),
                     Memory!ApplyPitfallFeedback(pitfall[p], a),
                     Neo4j!ApplyPitfallFeedback(pitfall[p], a))
<1>1. ASSUME p \in Pitfalls
      PROVE  new \in PitfallRow /\ SameVerdict(pitfall[p], new) /\ Bounded(new)
  <2>1. pitfall[p] \in PitfallRow /\ Bounded(pitfall[p])
    BY <1>1 DEF TablesTyped, PitfallsTyped
  <2>2. DEFINE s == Sqlite!Clamped(pitfall[p].weight + Sqlite!WeightDelta(a))
               m == Memory!Clamped(pitfall[p].weight + Memory!WeightDelta(a))
               n == pitfall[p].weight + Neo4j!WeightDelta(a)
               one == pitfall[p].adopted + 1
               up == pitfall[p].protection + 1
               sup == Sqlite!Least(Sqlite!ProtectionLevelMax, up)
               mup == Memory!Least(Memory!ProtectionLevelMax, up)
  <2>3. pitfall[p].weight \in Int /\ pitfall[p].adopted \in Nat /\ pitfall[p].protection \in Nat
    BY <2>1 DEF PitfallRow
  <2>4. s \in Int /\ s \in 0..Full /\ m \in Int /\ m \in 0..Full /\ n \in Int
    BY <2>3, DeltasTyped, BoundsKept, Weights
  <2>5. one \in Nat /\ up \in Nat /\ sup \in Nat /\ mup \in Nat
    BY <2>3, BoundsKept
  <2>6. backend # "neo4jpg" => sup \in 0..ProtectionLevelMax /\ mup \in 0..ProtectionLevelMax
    BY <2>1, <2>3, BoundsKept DEF Bounded
  <2> HIDE DEF s, m, n, one, up, sup, mup
  <2>7. /\ Sqlite!ApplyPitfallFeedback(pitfall[p], a) =
              Sqlite!Updated(pitfall[p], Rated(pitfall[p], a, s, one, sup))
        /\ Memory!ApplyPitfallFeedback(pitfall[p], a) =
              Rated(pitfall[p], a, m, one, mup)
        /\ Neo4j!ApplyPitfallFeedback(pitfall[p], a) =
              Neo4j!Matched(pitfall[p], Rated(pitfall[p], a, n, one, up))
    BY Zenon DEF Sqlite!ApplyPitfallFeedback, Memory!ApplyPitfallFeedback,
          Neo4j!ApplyPitfallFeedback, Rated, s, m, n, one, up, sup, mup
  <2>8. CASE backend = "sqlite"
    <3>1. new = IF pitfall[p].stored
                THEN Rated(pitfall[p], a, s, one, sup)
                ELSE pitfall[p]
      BY <2>7, <2>8 DEF On, Sqlite!Updated
    <3> HIDE DEF new
    <3>2. CASE pitfall[p].stored
      BY <2>1, <2>4, <2>5, <2>6, <2>8, <3>1, <3>2, RatedRow DEF Bounded
    <3>3. CASE ~pitfall[p].stored
      BY <2>1, <3>1, <3>3 DEF SameVerdict
    <3> QED
      BY <3>2, <3>3
  <2>9. CASE backend = "memory"
    <3>1. /\ pitfall[p].stored
          /\ new = Rated(pitfall[p], a, m, one, mup)
      BY <2>7, <2>9 DEF On, UpdateRefused, Memory!UpdateRefused
    <3> HIDE DEF new
    <3> QED
      BY <2>1, <2>4, <2>5, <2>6, <2>9, <3>1, RatedRow DEF Bounded
  <2>10. CASE backend = "neo4jpg"
    <3>1. new = IF pitfall[p].stored
                THEN Rated(pitfall[p], a, n, one, up)
                ELSE pitfall[p]
      BY <2>7, <2>10 DEF On, Neo4j!Matched
    <3> HIDE DEF new
    <3> QED
      BY <2>1, <2>4, <2>5, <2>6, <2>10, <3>1, RatedRow DEF SameVerdict, Bounded
  <2> QED
    BY <2>8, <2>9, <2>10 DEF TablesTyped, Backends
<1>2. pitfall' = [pitfall EXCEPT ![p] = new]
  BY DEF ApplyPitfallFeedback
<1> HIDE DEF new
<1> QED
  BY <1>1, <1>2 DEF TablesTyped, PitfallsTyped, SameVerdict, Bounded

(* The counters: shown and suppressed are the only fields that move.       *)
LEMMA CountersTyped ==
    ASSUME NEW row \in PitfallRow, NEW s \in {0, 1}, NEW t \in {0, 1}
    PROVE  /\ \A new \in {Sqlite!AddPitfallCounters(row, s, t), Memory!AddPitfallCounters(row, s, t),
                           Neo4j!AddPitfallCounters(row, s, t)} :
                /\ new \in PitfallRow
                /\ new.stored = row.stored /\ new.status = row.status
                /\ new.weight = row.weight /\ new.protection = row.protection
                /\ row.stored => new.suppressed = row.suppressed + t
           /\ ~row.stored => /\ Sqlite!AddPitfallCounters(row, s, t) = row
                             /\ Neo4j!AddPitfallCounters(row, s, t) = row
<1> DEFINE sh == row.shown + s
           su == row.suppressed + t
           kept(x, n) == [row EXCEPT !.shown = x, !.suppressed = n]
<1>1. row.shown \in Nat /\ row.suppressed \in Nat
  BY DEF PitfallRow
<1>2. /\ sh \in Nat /\ Sqlite!NotNegative(sh) = sh
      /\ su \in Nat /\ Sqlite!NotNegative(su) = su
  BY <1>1 DEF Sqlite!NotNegative
<1>3. /\ (IF s > 0 THEN row.shown + s ELSE row.shown) = sh
      /\ (IF t > 0 THEN row.suppressed + t ELSE row.suppressed) = su
  BY <1>1
<1>4. /\ Sqlite!AddPitfallCounters(row, s, t) =
            IF row.stored
            THEN [row EXCEPT !.shown = Sqlite!NotNegative(sh), !.suppressed = Sqlite!NotNegative(su)]
            ELSE row
      /\ Neo4j!AddPitfallCounters(row, s, t) = IF row.stored THEN kept(sh, su) ELSE row
  BY DEF Sqlite!AddPitfallCounters, Sqlite!Updated, Neo4j!AddPitfallCounters, Neo4j!Matched
<1>5. Memory!AddPitfallCounters(row, s, t) =
         [row EXCEPT !.shown = IF s > 0 THEN @ + s ELSE @,
                     !.suppressed = IF t > 0 THEN @ + t ELSE @]
  BY DEF Memory!AddPitfallCounters
<1>6. Memory!AddPitfallCounters(row, s, t) = kept(sh, su)
  BY <1>3, <1>5
<1>7. kept(sh, su) \in PitfallRow
  BY <1>2 DEF PitfallRow
<1>8. /\ kept(sh, su).stored = row.stored /\ kept(sh, su).status = row.status
      /\ kept(sh, su).weight = row.weight /\ kept(sh, su).protection = row.protection
      /\ kept(sh, su).suppressed = su
  BY DEF PitfallRow
<1>9. /\ Sqlite!AddPitfallCounters(row, s, t) \in {kept(sh, su), row}
      /\ Neo4j!AddPitfallCounters(row, s, t) \in {kept(sh, su), row}
      /\ row.stored => /\ Sqlite!AddPitfallCounters(row, s, t) = kept(sh, su)
                       /\ Neo4j!AddPitfallCounters(row, s, t) = kept(sh, su)
      /\ ~row.stored => /\ Sqlite!AddPitfallCounters(row, s, t) = row
                        /\ Neo4j!AddPitfallCounters(row, s, t) = row
  BY <1>2, <1>4
<1> HIDE DEF kept, sh
<1> QED
  BY <1>6, <1>7, <1>8, <1>9

LEMMA PitfallCounted ==
    ASSUME TablesTyped, backend' = backend, NEW p, NEW s \in {0, 1}, NEW t \in {0, 1},
           AddPitfallCounters(p, s, t), ~UpdateRefused(pitfall[p])
    PROVE  /\ PitfallsTyped'
           /\ \A q \in Pitfalls :
                /\ pitfall'[q].stored = pitfall[q].stored
                /\ pitfall'[q].status = pitfall[q].status
                /\ ~pitfall[q].stored => pitfall'[q] = pitfall[q]
                /\ pitfall[q].stored =>
                     pitfall'[q].suppressed = pitfall[q].suppressed + IF q = p THEN t ELSE 0
<1> DEFINE new == On(Sqlite!AddPitfallCounters(pitfall[p], s, t),
                     Memory!AddPitfallCounters(pitfall[p], s, t),
                     Neo4j!AddPitfallCounters(pitfall[p], s, t))
<1>1. new \in {Sqlite!AddPitfallCounters(pitfall[p], s, t),
               Memory!AddPitfallCounters(pitfall[p], s, t),
               Neo4j!AddPitfallCounters(pitfall[p], s, t)}
  BY DEF On
<1>2. ~pitfall[p].stored => new \in {Sqlite!AddPitfallCounters(pitfall[p], s, t),
                                     Neo4j!AddPitfallCounters(pitfall[p], s, t)}
  BY DEF On, UpdateRefused, Memory!UpdateRefused
<1>3. pitfall' = [pitfall EXCEPT ![p] = new]
  BY DEF AddPitfallCounters
<1> HIDE DEF new
<1>4. \A q \in Pitfalls : pitfall[q] \in PitfallRow /\ Bounded(pitfall[q])
  BY DEF TablesTyped, PitfallsTyped
<1>5. ASSUME p \in Pitfalls
      PROVE  /\ new \in PitfallRow /\ Bounded(new)
             /\ new.stored = pitfall[p].stored /\ new.status = pitfall[p].status
             /\ pitfall[p].stored => new.suppressed = pitfall[p].suppressed + t
             /\ ~pitfall[p].stored => new = pitfall[p]
  BY <1>1, <1>2, <1>4, <1>5, CountersTyped DEF Bounded
<1>6. PitfallsTyped'
  BY <1>3, <1>5, <1>4 DEF TablesTyped, PitfallsTyped, Bounded
<1>7. DOMAIN pitfall = Pitfalls
  BY DEF TablesTyped, PitfallsTyped
<1>8. \A q \in Pitfalls : pitfall'[q] = IF q = p THEN new ELSE pitfall[q]
  BY <1>3, <1>7
<1>9. \A q \in Pitfalls : pitfall[q].suppressed \in Nat
  BY <1>4 DEF PitfallRow
<1> QED
  BY <1>5, <1>6, <1>8, <1>9

LEMMA PitfallTouched ==
    ASSUME TablesTyped, backend' = backend, NEW p, TouchPitfall(p), ~UpdateRefused(pitfall[p])
    PROVE  PitfallsTyped' /\ \A q \in Pitfalls : SameVerdict(pitfall[q], pitfall'[q])
<1> DEFINE new == On(Sqlite!TouchPitfall(pitfall[p]), Memory!TouchPitfall(pitfall[p]),
                     Neo4j!TouchPitfall(pitfall[p]))
           hit == [pitfall[p] EXCEPT !.occurrences = pitfall[p].occurrences + 1]
<1>1. new \in {hit, pitfall[p]} /\ (~pitfall[p].stored => new = pitfall[p])
  BY DEF On, Sqlite!TouchPitfall, Memory!TouchPitfall, Neo4j!TouchPitfall, Neo4j!Matched,
         UpdateRefused, Memory!UpdateRefused
<1>2. ASSUME p \in Pitfalls
      PROVE  new \in PitfallRow /\ SameVerdict(pitfall[p], new) /\ Bounded(new)
  <2>1. pitfall[p] \in PitfallRow /\ Bounded(pitfall[p])
    BY <1>2 DEF TablesTyped, PitfallsTyped
  <2>2. pitfall[p].occurrences + 1 \in Nat
    BY <2>1 DEF PitfallRow
  <2>3. /\ hit \in PitfallRow /\ hit.stored = pitfall[p].stored /\ hit.status = pitfall[p].status
        /\ hit.suppressed = pitfall[p].suppressed /\ hit.weight = pitfall[p].weight
        /\ hit.protection = pitfall[p].protection
    BY <2>1, <2>2 DEF PitfallRow
  <2> HIDE DEF new, hit
  <2> QED
    BY <1>1, <2>1, <2>3 DEF SameVerdict, Bounded
<1>3. pitfall' = [pitfall EXCEPT ![p] = new]
  BY DEF TouchPitfall
<1> HIDE DEF new
<1> QED
  BY <1>2, <1>3 DEF TablesTyped, PitfallsTyped, SameVerdict, Bounded

LEMMA PitfallJudged ==
    ASSUME TablesTyped, backend' = backend, NEW p, NEW status \in {"confirmed", "suppressed"},
           UpdatePitfallStatus(p, status), ~UpdateRefused(pitfall[p])
    PROVE  /\ PitfallsTyped'
           /\ \A q \in Pitfalls :
                /\ pitfall'[q].stored = pitfall[q].stored
                /\ pitfall'[q].suppressed = pitfall[q].suppressed
                /\ ~pitfall[q].stored => pitfall'[q] = pitfall[q]
                /\ pitfall[q].stored =>
                     pitfall'[q].status = IF q = p THEN status ELSE pitfall[q].status
<1> DEFINE new == On(Sqlite!UpdatePitfallStatus(pitfall[p], status),
                     Memory!UpdatePitfallStatus(pitfall[p], status),
                     Neo4j!UpdatePitfallStatus(pitfall[p], status))
           judged == [pitfall[p] EXCEPT !.status = status]
<1>1. /\ Sqlite!Normalize(status) = status /\ Memory!Normalize(status) = status
      /\ Neo4j!Normalize(status) = status
  BY DEF Sqlite!Normalize, Memory!Normalize, Neo4j!Normalize, Sqlite!Statuses,
         Memory!Statuses, Neo4j!Statuses
<1>2. ASSUME p \in Pitfalls
      PROVE  /\ new \in PitfallRow /\ Bounded(new)
             /\ new.stored = pitfall[p].stored /\ new.suppressed = pitfall[p].suppressed
             /\ pitfall[p].stored => new.status = status
             /\ ~pitfall[p].stored => new = pitfall[p]
  <2>1. pitfall[p] \in PitfallRow /\ Bounded(pitfall[p])
    BY <1>2 DEF TablesTyped, PitfallsTyped
  <2>2. /\ judged \in PitfallRow /\ judged.status = status /\ judged.stored = pitfall[p].stored
        /\ judged.suppressed = pitfall[p].suppressed /\ judged.weight = pitfall[p].weight
        /\ judged.protection = pitfall[p].protection
    BY <2>1 DEF PitfallRow, Statuses
  <2>3. [pitfall[p] EXCEPT !.status = status,
                           !.retired = pitfall[p].retired \/ status = "obsolete"] = judged
    BY <2>1 DEF PitfallRow
  <2>4. /\ new \in {judged, pitfall[p]}
        /\ pitfall[p].stored => new = judged
        /\ ~pitfall[p].stored => new = pitfall[p]
    BY <1>1, <2>3 DEF On, Sqlite!UpdatePitfallStatus, Memory!UpdatePitfallStatus,
       Neo4j!UpdatePitfallStatus, Neo4j!Matched, Sqlite!Updated, UpdateRefused,
       Memory!UpdateRefused
  <2> HIDE DEF new, judged
  <2> QED
    BY <2>1, <2>2, <2>4 DEF Bounded
<1>3. pitfall' = [pitfall EXCEPT ![p] = new]
  BY DEF UpdatePitfallStatus
<1> HIDE DEF new
<1>4. DOMAIN pitfall = Pitfalls
  BY DEF TablesTyped, PitfallsTyped
<1>5. \A q \in Pitfalls : pitfall'[q] = IF q = p THEN new ELSE pitfall[q]
  BY <1>3, <1>4
<1>6. PitfallsTyped'
  BY <1>2, <1>3, <1>5 DEF TablesTyped, PitfallsTyped, Bounded
<1> QED
  BY <1>2, <1>5, <1>6

LEMMA PitfallWritten ==
    ASSUME TablesTyped, backend' = backend, NEW p, NEW row,
           p \in Pitfalls => row \in PitfallRow /\ Bounded(row),
           WritePitfall(p, row)
    PROVE  PitfallsTyped' /\ pitfall' = [pitfall EXCEPT ![p] = row]
<1> DEFINE new == On(Sqlite!WritePitfall(pitfall[p], row), Memory!WritePitfall(pitfall[p], row),
                     Neo4j!WritePitfall(pitfall[p], row))
<1>1. ASSUME p \in Pitfalls PROVE new = row
  <2>1. row \in PitfallRow /\ row.status \in Statuses
    BY <1>1 DEF PitfallRow
  <2>2. /\ Sqlite!Normalize(row.status) = row.status
        /\ Neo4j!Normalize(row.status) = row.status
    BY <2>1 DEF Sqlite!Normalize, Neo4j!Normalize, Sqlite!Statuses, Neo4j!Statuses, Statuses
  <2>3. [row EXCEPT !.status = row.status] = row
    BY <2>1 DEF PitfallRow
  <2> QED
    BY <2>2, <2>3 DEF On, Sqlite!WritePitfall, Memory!WritePitfall, Neo4j!WritePitfall
<1>2. pitfall' = [pitfall EXCEPT ![p] = new]
  BY DEF WritePitfall
<1> HIDE DEF new
<1>3. DOMAIN pitfall = Pitfalls
  BY DEF TablesTyped, PitfallsTyped
<1>4. pitfall' = [pitfall EXCEPT ![p] = row]
  BY <1>1, <1>2, <1>3
<1> QED
  BY <1>4 DEF TablesTyped, PitfallsTyped, Bounded

-----------------------------------------------------------------------------
(* Types.  A call that is about to write from a row it read holds a row of *)
(* the right table, and the pitfall it would write back is within bounds.  *)

Fields == {"op", "id", "arg", "pc", "copy", "cur", "todo", "updated", "skipped", "failed",
           "found", "counted", "raised", "outcome"}

HoldsEpisode(r) ==
    \/ r.op = "touch" /\ r.pc = "update"
    \/ r.op = "feedback" /\ r.pc \in {"update", "boost", "summary", "trust"}
    \/ r.op = "write" /\ r.pc = "merge"
HoldsOwn(r) == r.op = "feedback" /\ r.pc = "update"
Relinks(r) == r.op = "link" /\ r.pc = "write"

CallTyped(r) ==
    /\ DOMAIN r = Fields
    /\ r.op = "feedback" => r.arg \in SearchActions
    /\ r.op = "rate" => r.arg \in PitfallFeedbackActions
    /\ HoldsOwn(r) \/ Relinks(r) \/ (r.op = "touch" /\ r.pc = "update") => r.cur = r.id
    /\ HoldsEpisode(r) /\ r.cur \in Episodes => r.copy \in EpisodeRow
    /\ HoldsOwn(r) /\ r.cur \in Rules => r.copy \in RuleRow
    /\ (HoldsOwn(r) \/ Relinks(r)) /\ r.cur \in Pitfalls => r.copy \in PitfallRow /\ Bounded(r.copy)

CallsTyped ==
    /\ call = [c \in Calls |-> call[c]]
    /\ \A c \in Calls : CallTyped(call[c])

LinesTyped ==
    /\ DOMAIN line = Calls
    /\ \A c \in Calls : DOMAIN line[c] = Kinds
    /\ \A c \in Calls : \A k \in Kinds : "todo" \in DOMAIN line[c][k] /\ line[c][k].todo \subseteq SUBSET Episodes

CacheTyped == hot # NoPool => backend = "sqlite" /\ hot \subseteq Episodes

TypeInv ==
    /\ TablesTyped /\ CallsTyped /\ LinesTyped /\ CacheTyped
    /\ faults \in 0..MaxFaults

(* What one action of c does to the calls: the others stand still.         *)
Advances(c) ==
    /\ call' = [d \in Calls |-> call'[d]]
    /\ \A d \in Calls \ {c} : call'[d] = call[d]
    /\ call'[c].op = call[c].op /\ call'[c].id = call[c].id

LEMMA Advanced ==
    ASSUME CallsTyped, NEW c \in Calls, Advances(c), CallTyped(call'[c]), backend' = backend
    PROVE  CallsTyped'
BY DEF CallsTyped, CallTyped, Advances, Bounded

LEMMA EndTyped ==
    ASSUME CallsTyped, NEW c \in Calls, NEW o, End(c, o)
    PROVE  Advances(c) /\ CallTyped(call'[c]) /\ call'[c].pc = "done" /\ call'[c].outcome = o
BY DEF CallsTyped, CallTyped, Advances, End, Ended, HoldsEpisode, HoldsOwn, Relinks, Fields

LEMMA FaultsTyped ==
    ASSUME faults \in 0..MaxFaults, NEW refused, Succeeds(refused) \/ Fails(refused) \/ FailsLate
    PROVE  faults' \in 0..MaxFaults
BY IdsAssumption DEF Succeeds, Fails, FailsLate, IdsAssumption

(* A row of an episode in hand was read in this step, or it was in hand    *)
(* before, and the step left its life as it is or wrote it to the table.   *)
Keeps(c) ==
    LET r == call'[c] IN
    HoldsEpisode(r) /\ r.cur \in Episodes =>
        \/ r.copy = episode[r.cur] /\ r.copy.stored /\ episode' = episode
        \/ /\ HoldsEpisode(call[c]) /\ r.cur = call[c].cur /\ SameLife(call[c].copy, r.copy)
           /\ SameLife(episode[r.cur], episode'[r.cur]) \/ episode'[r.cur] = r.copy

Typed(c) == TablesTyped' /\ CacheTyped' /\ Advances(c) /\ CallTyped(call'[c]) /\ Keeps(c)

LEMMA NothingTyped ==
    ASSUME TypeInv, backend' = backend, NothingStored \/ OnlyEdges
    PROVE  TablesTyped' /\ CacheTyped'
BY DEF TypeInv, NothingStored, OnlyEdges, tables, TablesTyped, PitfallsTyped, Bounded, CacheTyped

LEMMA EpisodeTyped ==
    ASSUME TypeInv, backend' = backend, OnlyEpisode, episode' \in [Episodes -> EpisodeRow]
    PROVE  TablesTyped' /\ CacheTyped'
BY DEF TypeInv, OnlyEpisode, TablesTyped, PitfallsTyped, Bounded, CacheTyped

LEMMA RuleTyped ==
    ASSUME TypeInv, backend' = backend, OnlyRule, rule' \in [Rules -> RuleRow]
    PROVE  TablesTyped' /\ CacheTyped'
BY DEF TypeInv, OnlyRule, TablesTyped, PitfallsTyped, Bounded, CacheTyped

LEMMA PitfallTyped ==
    ASSUME TypeInv, backend' = backend, OnlyPitfall, PitfallsTyped'
    PROVE  TablesTyped' /\ CacheTyped'
BY DEF TypeInv, OnlyPitfall, TablesTyped, PitfallsTyped, Bounded, CacheTyped

LEMMA EndStep ==
    ASSUME TypeInv, NEW c \in Calls, NEW o, End(c, o), TablesTyped', CacheTyped'
    PROVE  Typed(c)
<1>1. Advances(c) /\ CallTyped(call'[c]) /\ call'[c].pc = "done"
  BY EndTyped DEF TypeInv
<1>2. Keeps(c)
  BY <1>1 DEF Keeps, HoldsEpisode
<1> QED
  BY <1>1, <1>2 DEF Typed

LEMMA FailedTyped ==
    ASSUME TypeInv, NEW c \in Calls, NEW o, backend' = backend, NothingStored, End(c, o)
    PROVE  Typed(c)
BY NothingTyped, EndStep

LEMMA TouchReadTyped ==
    ASSUME TypeInv, NEW c \in Calls, backend' = backend, TouchRead(c)
    PROVE  Typed(c)
<1>1. NothingStored /\ episode' = episode
  BY DEF TouchRead, NothingStored, tables
<1>2. CASE End(c, "error")
  BY <1>1, <1>2, FailedTyped
<1>3. CASE /\ call' = [call EXCEPT ![c].pc = "update", ![c].copy = episode[call[c].id],
                                   ![c].cur = call[c].id]
           /\ episode[call[c].id].stored
  <2>1. Advances(c) /\ call'[c].copy = episode[call[c].id] /\ call'[c].cur = call[c].id
        /\ call'[c].op = "touch" /\ DOMAIN call'[c] = Fields
    BY <1>3 DEF TypeInv, CallsTyped, CallTyped, Advances, Fields, TouchRead, Touching, At
  <2>2. call[c].id \in Episodes => episode[call[c].id] \in EpisodeRow
    BY DEF TypeInv, TablesTyped
  <2>3. Keeps(c)
    BY <1>1, <1>3, <2>1 DEF Keeps
  <2> QED
    BY <1>1, <2>1, <2>2, <2>3, NothingTyped DEF Typed, Advances, CallTyped, HoldsOwn, Relinks,
       HoldsEpisode
<1> QED
  BY <1>2, <1>3 DEF TouchRead, Succeeds

LEMMA TouchUpdateTyped ==
    ASSUME TypeInv, NEW c \in Calls, backend' = backend, TouchUpdate(c)
    PROVE  Typed(c)
<1> DEFINE m == call[c].id
           new == Touched(call[c].copy)
<1>1. CASE NothingStored /\ End(c, "error")
  BY <1>1, FailedTyped
<1>2. CASE /\ UpdateEpisodicWeight(m, new.weight, new.freq)
           /\ call' = [call EXCEPT ![c] = Ended([@ EXCEPT !.counted = Full], "ok")]
  <2>1. m \in Episodes => call[c].copy \in EpisodeRow
    BY DEF TypeInv, CallsTyped, CallTyped, HoldsEpisode, TouchUpdate, Touching, At
  <2>2. m \in Episodes => new.weight \in Nat /\ new.freq \in Nat
    BY <2>1, TouchedTyped
  <2>3. Advances(c) /\ CallTyped(call'[c]) /\ call'[c].pc = "done"
    BY <1>2 DEF TypeInv, CallsTyped, CallTyped, Advances, Ended, HoldsEpisode, HoldsOwn,
       Relinks, Fields, TouchUpdate, Touching, At
  <2> HIDE DEF new, m
  <2>4. episode' \in [Episodes -> EpisodeRow] /\ OnlyEpisode
    BY <1>2, <2>2, EpisodeReweighed DEF TypeInv, UpdateEpisodicWeight
  <2> QED
    BY <2>3, <2>4, EpisodeTyped DEF Typed, Keeps, HoldsEpisode
<1> QED
  BY <1>1, <1>2 DEF TouchUpdate

(* A call that holds nothing afterwards.                                   *)
Quiet(r) == ~HoldsEpisode(r) /\ ~HoldsOwn(r) /\ ~Relinks(r)
Same(r, s) ==
    /\ DOMAIN s = Fields /\ s.op = r.op /\ s.id = r.id
    /\ r.op \in {"feedback", "rate"} => s.arg = r.arg

LEMMA CallChanges ==
    ASSUME CallsTyped, NEW c \in Calls, NEW r, call' = [call EXCEPT ![c] = r], Same(call[c], r)
    PROVE  Advances(c) /\ call'[c] = r
BY DEF CallsTyped, Advances, Same

LEMMA QuietTyped ==
    ASSUME CallsTyped, NEW c \in Calls, NEW r, Same(call[c], r), Quiet(r)
    PROVE  CallTyped(r)
BY DEF CallsTyped, CallTyped, Quiet, Same, HoldsEpisode, HoldsOwn, Relinks

LEMMA QuietStep ==
    ASSUME TypeInv, NEW c \in Calls, NEW r, call' = [call EXCEPT ![c] = r],
           Same(call[c], r), Quiet(r), TablesTyped', CacheTyped'
    PROVE  Typed(c)
<1>1. Advances(c) /\ call'[c] = r /\ CallTyped(r)
  BY CallChanges, QuietTyped DEF TypeInv
<1>2. Keeps(c)
  BY <1>1 DEF Keeps, Quiet
<1> QED
  BY <1>1, <1>2 DEF Typed

LEMMA NextSourceDone ==
    ASSUME NEW r, DOMAIN r = Fields, r.op = "feedback"
    PROVE  Same(r, NextSource(r)) /\ Quiet(NextSource(r))
<1> DEFINE left == r.todo \ {r.cur}
           rest == [r EXCEPT !.todo = left, !.copy = NoCopy, !.cur = NoId]
           done == [rest EXCEPT !.pc = "done", !.copy = NoCopy, !.cur = NoId, !.outcome = "ok"]
           more == [rest EXCEPT !.pc = "source"]
<1>1. NextSource(r) \in {done, more}
  BY DEF NextSource, Ended
<1>2. Same(r, rest)
  BY DEF Same, Fields
<1>3. Same(r, done) /\ done.pc = "done"
  BY <1>2 DEF Same, Fields
<1>4. Same(r, more) /\ more.pc = "source"
  BY <1>2 DEF Same, Fields
<1> HIDE DEF done, more
<1> QED
  BY <1>1, <1>3, <1>4 DEF Same, Quiet, HoldsEpisode, HoldsOwn, Relinks

LEMMA SourceDone ==
    ASSUME NEW r, DOMAIN r = Fields, r.op = "feedback", NEW m
    PROVE  /\ Same(r, Skipped(r, m)) /\ Quiet(Skipped(r, m))
           /\ Same(r, FailedSource(r)) /\ Quiet(FailedSource(r))
           /\ Same(r, Corrected(r)) /\ Quiet(Corrected(r))
<1> DEFINE s == [r EXCEPT !.skipped = @ \cup {m}, !.cur = m]
           f == [r EXCEPT !.failed = @ \cup {r.cur}]
           u == [r EXCEPT !.updated = @ \cup {r.cur}]
<1>1. Same(r, s) /\ Same(r, f) /\ Same(r, u)
  BY DEF Same, Fields
<1>2. Skipped(r, m) = NextSource(s) /\ FailedSource(r) = NextSource(f) /\ Corrected(r) = NextSource(u)
  BY DEF Skipped, FailedSource, Corrected
<1> HIDE DEF s, f, u
<1>3. /\ Same(s, NextSource(s)) /\ Quiet(NextSource(s))
      /\ Same(f, NextSource(f)) /\ Quiet(NextSource(f))
      /\ Same(u, NextSource(u)) /\ Quiet(NextSource(u))
  BY <1>1, NextSourceDone DEF Same
<1> QED
  BY <1>1, <1>2, <1>3 DEF Same

LEMMA LookupMemoryTyped ==
    ASSUME TypeInv, NEW c \in Calls, backend' = backend, LookupMemory(c)
    PROVE  Typed(c)
<1> DEFINE i == call[c].id
           s == [call[c] EXCEPT !.pc = "update", !.copy = RowOf(i), !.cur = i]
<1>1. /\ NothingStored /\ call[c].op = "feedback" /\ DOMAIN call[c] = Fields
      /\ episode' = episode
  BY DEF NothingStored, tables, LookupMemory, Feeding, At, TypeInv, CallsTyped, CallTyped
<1>2. CASE End(c, "error")
  BY <1>1, <1>2, FailedTyped
<1>3. CASE call' = [call EXCEPT ![c] = s] /\ RowOf(i).stored
  <2>1. /\ Same(call[c], s) /\ s.pc = "update" /\ s.copy = RowOf(i) /\ s.cur = i
    BY <1>1 DEF Same, Fields
  <2>2. /\ i \in Episodes => RowOf(i) \in EpisodeRow
        /\ i \in Rules => RowOf(i) \in RuleRow
        /\ i \in Pitfalls => RowOf(i) \in PitfallRow /\ Bounded(RowOf(i))
    BY IdsAssumption DEF IdsAssumption, RowOf, TypeInv, TablesTyped, PitfallsTyped
  <2>3. CallTyped(call[c])
    BY DEF TypeInv, CallsTyped
  <2> HIDE DEF s, i
  <2>4. CallTyped(s)
    BY <1>1, <2>1, <2>2, <2>3 DEF CallTyped, Same, HoldsEpisode, HoldsOwn, Relinks, i
  <2>5. Advances(c) /\ call'[c] = s
    BY <1>3, <2>1, CallChanges DEF TypeInv
  <2>6. Keeps(c)
    BY <1>1, <1>3, <2>1, <2>5 DEF Keeps, RowOf
  <2> QED
    BY <1>1, <2>4, <2>5, <2>6, NothingTyped DEF Typed
<1> QED
  BY <1>2, <1>3 DEF LookupMemory, Succeeds

LEMMA FeedbackUpdateTyped ==
    ASSUME TypeInv, NEW c \in Calls, backend' = backend, FeedbackUpdate(c)
    PROVE  Typed(c)
<1> DEFINE i == call[c].id
           row == call[c].copy
           freq == IF i \in Pitfalls THEN Full ELSE row.freq
           new == ApplyFeedback(row.weight, freq, call[c].arg)
           worth == BehaviourDelta(call[c].arg)
           amount == IF worth < 0 THEN -worth ELSE worth
           s == AfterUpdate(call[c], amount)
<1>1. call[c].op = "feedback" /\ call[c].pc = "update" /\ CallTyped(call[c])
  BY DEF FeedbackUpdate, Feeding, At, TypeInv, CallsTyped
<1>2. CASE NothingStored /\ End(c, "error")
  BY <1>2, FailedTyped
<1>3. CASE /\ Succeeds(UpdateRefused(RowOf(i)))
           /\ \/ i \in Episodes /\ UpdateEpisodicWeight(i, new.weight, new.freq)
              \/ i \in Rules /\ UpdateSemanticWeight(i, new.weight, new.freq)
              \/ i \in Pitfalls /\ UpdatePitfallWeight(i, new.weight)
           /\ call' = [call EXCEPT ![c] = s]
  <2>1. Same(call[c], s) /\ Quiet(s)
    BY <1>1 DEF CallTyped, AfterUpdate, Ended, Same, Quiet, Fields, HoldsEpisode, HoldsOwn, Relinks
  <2>2. /\ i \in Episodes \cup Rules => row \in EpisodeRow
        /\ i \in Pitfalls => row \in PitfallRow
    BY <1>1 DEF CallTyped, HoldsEpisode, HoldsOwn, RuleRow
  <2>3. i \in Episodes \cup Rules \cup Pitfalls => row.weight \in Int /\ freq \in Nat
    BY <2>2, Weights, IdsAssumption DEF IdsAssumption, EpisodeRow, PitfallRow
  <2>4. call[c].arg \in SearchActions
    BY <1>1 DEF CallTyped
  <2>5. i \in Episodes \cup Rules \cup Pitfalls =>
           new.weight \in 0..Full /\ new.weight \in Nat /\ new.freq \in Nat
    <3> HIDE DEF freq, row
    <3> QED
      BY <2>3, <2>4, FeedbackTyped, Weights
  <2> HIDE DEF new, freq, row, s, worth, amount
  <2>6. TablesTyped' /\ CacheTyped' => Typed(c)
    BY <1>3, <2>1, QuietStep
  <2>7. CASE i \in Episodes /\ UpdateEpisodicWeight(i, new.weight, new.freq)
    BY <2>5, <2>6, <2>7, EpisodeReweighed, EpisodeTyped DEF TypeInv, UpdateEpisodicWeight
  <2>8. CASE i \in Rules /\ UpdateSemanticWeight(i, new.weight, new.freq)
    BY <2>5, <2>6, <2>8, RuleReweighed, RuleTyped DEF TypeInv, UpdateSemanticWeight
  <2>9. CASE i \in Pitfalls /\ UpdatePitfallWeight(i, new.weight)
    <3>1. RowOf(i) = pitfall[i]
      BY <2>9, IdsAssumption DEF RowOf, IdsAssumption
    <3>2. ~UpdateRefused(pitfall[i])
      BY <1>3, <3>1 DEF Succeeds
    <3>3. PitfallsTyped'
      BY <2>5, <2>9, <3>2, PitfallReweighed DEF TypeInv
    <3> QED
      BY <2>6, <2>9, <3>3, PitfallTyped DEF UpdatePitfallWeight
  <2> QED
    BY <1>3, <2>7, <2>8, <2>9
<1> QED
  BY <1>2, <1>3 DEF FeedbackUpdate

LEMMA TraceTyped ==
    ASSUME TypeInv, NEW c \in Calls, backend' = backend, Trace(c)
    PROVE  Typed(c)
<1> DEFINE sources == IF call[c].id \in Episodes THEN {call[c].id} ELSE Traced(call[c].id)
           s == IF sources = {} THEN Ended(call[c], "ok")
                ELSE [call[c] EXCEPT !.pc = "source", !.todo = sources, !.found = sources]
<1>1. NothingStored /\ call[c].op = "feedback" /\ DOMAIN call[c] = Fields
  BY DEF Trace, Feeding, At, TypeInv, CallsTyped, CallTyped
<1>2. CASE End(c, "ok")
  BY <1>1, <1>2, FailedTyped
<1>3. CASE call' = [call EXCEPT ![c] = s]
  <2> HIDE DEF sources
  <2>1. Same(call[c], s) /\ Quiet(s)
    BY <1>1 DEF Ended, Same, Quiet, Fields, HoldsEpisode, HoldsOwn, Relinks
  <2> HIDE DEF s
  <2> QED
    BY <1>1, <1>3, <2>1, QuietStep, NothingTyped DEF TypeInv
<1> QED
  BY <1>2, <1>3 DEF Trace

LEMMA SourceReadTyped ==
    ASSUME TypeInv, NEW c \in Calls, backend' = backend, SourceRead(c)
    PROVE  Typed(c)
<1>1. /\ NothingStored /\ call[c].op = "feedback" /\ CallTyped(call[c])
      /\ episode' = episode
  BY DEF NothingStored, tables, SourceRead, Feeding, At, TypeInv, CallsTyped
<1>2. DOMAIN call[c] = Fields
  BY <1>1 DEF CallTyped
<1>3. PICK m \in call[c].todo :
         \/ /\ call' = [call EXCEPT ![c].pc = "boost", ![c].copy = episode[m], ![c].cur = m]
            /\ episode[m].stored
         \/ call' = [call EXCEPT ![c] = Skipped(@, m)]
  BY DEF SourceRead, Succeeds
<1>4. CASE call' = [call EXCEPT ![c] = Skipped(@, m)]
  <2>1. Same(call[c], Skipped(call[c], m)) /\ Quiet(Skipped(call[c], m))
    BY <1>1, <1>2, SourceDone
  <2> QED
    BY <1>1, <1>4, <2>1, QuietStep, NothingTyped DEF TypeInv
<1>5. CASE /\ call' = [call EXCEPT ![c].pc = "boost", ![c].copy = episode[m], ![c].cur = m]
           /\ episode[m].stored
  <2> DEFINE s == [call[c] EXCEPT !.pc = "boost", !.copy = episode[m], !.cur = m]
  <2>1. Same(call[c], s) /\ s.pc = "boost" /\ s.copy = episode[m] /\ s.cur = m
    BY <1>2 DEF Same, Fields
  <2>2. call' = [call EXCEPT ![c] = s]
    BY <1>5
  <2>3. m \in Episodes => episode[m] \in EpisodeRow
    BY DEF TypeInv, TablesTyped
  <2> HIDE DEF s
  <2>4. CallTyped(s)
    BY <1>1, <2>1, <2>3 DEF CallTyped, Same, HoldsEpisode, HoldsOwn, Relinks
  <2>5. Advances(c) /\ call'[c] = s
    BY <2>1, <2>2, CallChanges DEF TypeInv
  <2>6. Keeps(c)
    BY <1>1, <1>5, <2>1, <2>5 DEF Keeps
  <2> QED
    BY <1>1, <2>4, <2>5, <2>6, NothingTyped DEF Typed
<1> QED
  BY <1>3, <1>4, <1>5

LEMMA SourceBoostTyped ==
    ASSUME TypeInv, NEW c \in Calls, backend' = backend, SourceBoost(c)
    PROVE  Typed(c)
<1> DEFINE m == call[c].cur
           row == call[c].copy
           s == AfterBoost(call[c])
<1>1. call[c].op = "feedback" /\ call[c].pc = "boost" /\ CallTyped(call[c])
  BY DEF SourceBoost, Feeding, At, TypeInv, CallsTyped
<1>2. DOMAIN call[c] = Fields
  BY <1>1 DEF CallTyped
<1>3. CASE NothingStored /\ call' = [call EXCEPT ![c] = FailedSource(@)]
  <2>1. Same(call[c], FailedSource(call[c])) /\ Quiet(FailedSource(call[c]))
    BY <1>1, <1>2, SourceDone
  <2> QED
    BY <1>3, <2>1, QuietStep, NothingTyped DEF TypeInv
<1>4. CASE /\ UpdateEpisodicWeight(m, Boosted(row).weight, row.freq)
           /\ call' = [call EXCEPT ![c] = s]
  <2>1. m \in Episodes => row \in EpisodeRow
    BY <1>1 DEF CallTyped, HoldsEpisode
  <2>2. m \in Episodes => /\ Boosted(row) \in EpisodeRow
                          /\ Boosted(row).weight \in Nat /\ row.freq \in Nat
    BY <2>1, BoostedTyped DEF EpisodeRow
  <2>3. /\ Same(call[c], s) /\ CallTyped(s)
        /\ HoldsEpisode(s) => s.cur = m /\ s.copy = Boosted(row)
    <3> DEFINE b == [call[c] EXCEPT !.copy = Boosted(@)]
               t == [b EXCEPT !.pc = "trust"]
               u == [b EXCEPT !.pc = "summary"]
    <3>1. s \in {t, u, Corrected(call[c])}
      <4>1. CASE call[c].id \in Episodes
        BY <4>1 DEF AfterBoost
      <4>2. CASE call[c].id \notin Episodes /\ call[c].id \in Rules
        BY <4>2 DEF AfterBoost
      <4>3. CASE call[c].id \notin Episodes /\ call[c].id \notin Rules
        <5>1. s = IF Raisable(call[c].copy) THEN t ELSE Corrected(call[c])
          BY <4>3 DEF AfterBoost
        <5> QED
          BY <5>1
      <4> QED
        BY <4>1, <4>2, <4>3
    <3>2. Same(call[c], b) /\ b.copy = Boosted(row) /\ b.cur = m /\ DOMAIN b = Fields
      BY <1>2 DEF Same, Fields
    <3>3. Same(call[c], t) /\ t.copy = Boosted(row) /\ t.cur = m /\ t.pc = "trust"
      BY <1>2 DEF Same, Fields
    <3>4. Same(call[c], u) /\ u.copy = Boosted(row) /\ u.cur = m /\ u.pc = "summary"
      BY <1>2 DEF Same, Fields
    <3> HIDE DEF b, t, u, s
    <3>5. CallTyped(t) /\ CallTyped(u)
      BY <1>1, <2>2, <3>3, <3>4 DEF CallTyped, Same, HoldsEpisode, HoldsOwn, Relinks
    <3>6. Same(call[c], Corrected(call[c])) /\ Quiet(Corrected(call[c]))
      BY <1>1, <1>2, SourceDone
    <3>7. CallTyped(Corrected(call[c]))
      BY <3>6, QuietTyped DEF TypeInv
    <3> QED
      BY <3>1, <3>3, <3>4, <3>5, <3>6, <3>7 DEF Quiet
  <2>4. HoldsEpisode(call[c])
    BY <1>1 DEF HoldsEpisode
  <2> HIDE DEF s
  <2>5. /\ episode' \in [Episodes -> EpisodeRow] /\ OnlyEpisode
        /\ \A n \in Episodes : SameLife(episode[n], episode'[n])
    <3> HIDE DEF m, row
    <3> QED
      BY <1>4, <2>2, EpisodeReweighed DEF TypeInv, UpdateEpisodicWeight
  <2>6. Advances(c) /\ call'[c] = s
    BY <1>4, <2>3, CallChanges DEF TypeInv
  <2>7. m \in Episodes => SameLife(row, Boosted(row))
    BY <2>1, BoostedTyped DEF SameLife
  <2>8. Keeps(c)
    BY <2>3, <2>4, <2>5, <2>6, <2>7 DEF Keeps
  <2> QED
    BY <2>3, <2>5, <2>6, <2>8, EpisodeTyped DEF Typed
<1> QED
  BY <1>3, <1>4 DEF SourceBoost

LEMMA SourceSummaryTyped ==
    ASSUME TypeInv, NEW c \in Calls, backend' = backend, SourceSummary(c)
    PROVE  Typed(c)
<1> DEFINE m == call[c].cur
           row == call[c].copy
           t == [call[c] EXCEPT !.pc = "trust"]
           s == IF Raisable(row) THEN t ELSE Corrected(call[c])
<1>1. call[c].op = "feedback" /\ call[c].pc = "summary" /\ CallTyped(call[c])
  BY DEF SourceSummary, Feeding, At, TypeInv, CallsTyped
<1>2. DOMAIN call[c] = Fields
  BY <1>1 DEF CallTyped
<1>3. m \in Episodes => row \in EpisodeRow
  BY <1>1 DEF CallTyped, HoldsEpisode
<1>4. call' = [call EXCEPT ![c] = s]
  BY DEF SourceSummary
<1>5. Same(call[c], t) /\ t.copy = row /\ t.cur = m /\ t.pc = "trust"
  BY <1>2 DEF Same, Fields
<1>6. s \in {t, Corrected(call[c])}
  OBVIOUS
<1> HIDE DEF t, s
<1>7. CallTyped(t)
  BY <1>1, <1>3, <1>5 DEF CallTyped, Same, HoldsEpisode, HoldsOwn, Relinks
<1>8. Same(call[c], s) /\ CallTyped(s)
  BY <1>1, <1>2, <1>5, <1>6, <1>7, SourceDone, QuietTyped DEF TypeInv
<1>9. /\ TablesTyped' /\ CacheTyped'
      /\ m \in Episodes => SameLife(episode[m], episode'[m]) \/ episode'[m] = row
  <2>1. CASE NothingStored
    BY <2>1, NothingTyped DEF NothingStored, tables, SameLife
  <2>2. CASE WriteEpisodic(m, row)
    <3>1. episode' \in [Episodes -> EpisodeRow] /\ episode' = [episode EXCEPT ![m] = row]
      BY <1>3, <2>2, EpisodeWritten DEF TypeInv
    <3>2. DOMAIN episode = Episodes
      BY DEF TypeInv, TablesTyped
    <3>3. m \in Episodes => episode'[m] = row
      BY <3>1, <3>2
    <3> QED
      BY <2>2, <3>1, <3>3, EpisodeTyped DEF WriteEpisodic
  <2> QED
    BY <2>1, <2>2 DEF SourceSummary
<1>10. Advances(c) /\ call'[c] = s
  BY <1>4, <1>8, CallChanges DEF TypeInv
<1>11. Keeps(c)
  <2>1. HoldsEpisode(s) => s.cur = m /\ s.copy = row
    BY <1>1, <1>2, <1>5, <1>6, SourceDone DEF Quiet
  <2>2. HoldsEpisode(call[c])
    BY <1>1 DEF HoldsEpisode
  <2> QED
    BY <1>9, <1>10, <2>1, <2>2 DEF Keeps, SameLife
<1> QED
  BY <1>8, <1>9, <1>10, <1>11 DEF Typed

LEMMA SourceTrustTyped ==
    ASSUME TypeInv, NEW c \in Calls, backend' = backend, SourceTrust(c)
    PROVE  Typed(c)
<1> DEFINE m == call[c].cur
           row == Trusted(call[c].copy)
           r == [call[c] EXCEPT !.raised = @ \cup {call[c].cur}]
<1>1. call[c].op = "feedback" /\ call[c].pc = "trust" /\ CallTyped(call[c])
  BY DEF SourceTrust, Feeding, At, TypeInv, CallsTyped
<1>2. DOMAIN call[c] = Fields
  BY <1>1 DEF CallTyped
<1>3. m \in Episodes => row \in EpisodeRow
  BY <1>1, TrustedTyped DEF CallTyped, HoldsEpisode
<1>4. Same(call[c], r)
  BY <1>2 DEF Same, Fields
<1>5. \/ call' = [call EXCEPT ![c] = Corrected(r)]
      \/ call' = [call EXCEPT ![c] = Corrected(call[c])]
  BY DEF SourceTrust, Raised
<1>6. NothingStored \/ WriteEpisodic(m, row)
  BY DEF SourceTrust
<1> HIDE DEF row, r
<1>7. /\ Same(r, Corrected(r)) /\ Quiet(Corrected(r))
      /\ Same(call[c], Corrected(call[c])) /\ Quiet(Corrected(call[c]))
  BY <1>1, <1>2, <1>4, SourceDone DEF Same
<1>8. Same(call[c], Corrected(r))
  BY <1>4, <1>7 DEF Same
<1>9. TablesTyped' /\ CacheTyped' => Typed(c)
  BY <1>5, <1>7, <1>8, QuietStep
<1>10. TablesTyped' /\ CacheTyped'
  BY <1>3, <1>6, NothingTyped, EpisodeWritten, EpisodeTyped DEF TypeInv, WriteEpisodic
<1> QED
  BY <1>9, <1>10

(* The HTTP write.                                                         *)
LEMMA SearchCandidatesTyped ==
    ASSUME TypeInv, NEW c \in Calls, backend' = backend, SearchCandidates(c)
    PROVE  Typed(c)
<1>1. NothingStored /\ call[c].op = "write" /\ DOMAIN call[c] = Fields
  BY DEF SearchCandidates, Writing, At, TypeInv, CallsTyped, CallTyped
<1>2. CASE End(c, "error")
  BY <1>1, <1>2, FailedTyped
<1>3. ASSUME NEW todo, NEW pc \in {"create", "fetch"},
             call' = [call EXCEPT ![c].todo = todo, ![c].pc = pc]
      PROVE  Typed(c)
  <2> DEFINE r == [call[c] EXCEPT !.todo = todo, !.pc = pc]
  <2>1. Same(call[c], r) /\ Quiet(r)
    BY <1>1, <1>3 DEF Same, Fields, Quiet, HoldsEpisode, HoldsOwn, Relinks
  <2>2. call' = [call EXCEPT ![c] = r]
    BY <1>3
  <2> HIDE DEF r
  <2> QED
    BY <1>1, <2>1, <2>2, QuietStep, NothingTyped
<1> QED
  BY <1>2, <1>3 DEF SearchCandidates

LEMMA FetchCandidateTyped ==
    ASSUME TypeInv, NEW c \in Calls, backend' = backend, FetchCandidate(c)
    PROVE  Typed(c)
<1>1. /\ NothingStored /\ call[c].op = "write" /\ DOMAIN call[c] = Fields
      /\ episode' = episode
  BY DEF NothingStored, tables, FetchCandidate, Writing, At, TypeInv, CallsTyped, CallTyped
<1>2. ASSUME NEW m, episode[m].stored,
             call' = [call EXCEPT ![c].pc = "merge", ![c].copy = episode[m], ![c].cur = m]
      PROVE  Typed(c)
  <2> DEFINE r == [call[c] EXCEPT !.pc = "merge", !.copy = episode[m], !.cur = m]
  <2>1. Same(call[c], r) /\ r.copy = episode[m] /\ r.cur = m
    BY <1>1 DEF Same, Fields
  <2>2. m \in Episodes => episode[m] \in EpisodeRow
    BY DEF TypeInv, TablesTyped
  <2>3. call' = [call EXCEPT ![c] = r]
    BY <1>2
  <2> HIDE DEF r
  <2>4. CallTyped(r)
    BY <1>1, <2>1, <2>2 DEF CallTyped, Same, HoldsEpisode, HoldsOwn, Relinks
  <2>5. Advances(c) /\ call'[c] = r
    BY <2>1, <2>3, CallChanges DEF TypeInv
  <2>6. Keeps(c)
    BY <1>1, <1>2, <2>1, <2>5 DEF Keeps
  <2> QED
    BY <1>1, <2>4, <2>5, <2>6, NothingTyped DEF Typed
<1>3. ASSUME NEW todo, NEW pc \in {"create", "fetch"},
             call' = [call EXCEPT ![c].todo = todo, ![c].pc = pc]
      PROVE  Typed(c)
  <2> DEFINE r == [call[c] EXCEPT !.todo = todo, !.pc = pc]
  <2>1. Same(call[c], r) /\ Quiet(r)
    BY <1>1, <1>3 DEF Same, Fields, Quiet, HoldsEpisode, HoldsOwn, Relinks
  <2>2. call' = [call EXCEPT ![c] = r]
    BY <1>3
  <2> HIDE DEF r
  <2> QED
    BY <1>1, <2>1, <2>2, QuietStep, NothingTyped
<1> QED
  BY <1>2, <1>3 DEF FetchCandidate, Succeeds

LEMMA MergeTyped ==
    ASSUME TypeInv, NEW c \in Calls, backend' = backend, Merge(c)
    PROVE  Typed(c)
<1> DEFINE m == call[c].cur
           row == [call[c].copy EXCEPT !.weight = Full]
<1>1. m \in Episodes => call[c].copy \in EpisodeRow
  BY DEF Merge, Writing, At, TypeInv, CallsTyped, CallTyped, HoldsEpisode
<1>2. m \in Episodes => row \in EpisodeRow
  BY <1>1, Weights DEF EpisodeRow
<1>3. NothingStored \/ WriteEpisodic(m, row)
  BY DEF Merge
<1>4. End(c, "ok") \/ End(c, "error")
  BY DEF Merge
<1> HIDE DEF row
<1>5. TablesTyped' /\ CacheTyped'
  BY <1>2, <1>3, NothingTyped, EpisodeWritten, EpisodeTyped DEF TypeInv, WriteEpisodic
<1> QED
  BY <1>4, <1>5, EndStep DEF TypeInv

LEMMA CreateEpisodeTyped ==
    ASSUME TypeInv, NEW c \in Calls, backend' = backend, CreateEpisode(c)
    PROVE  Typed(c)
<1>1. call[c].op = "write" /\ DOMAIN call[c] = Fields
  BY DEF CreateEpisode, Writing, At, TypeInv, CallsTyped, CallTyped
<1>2. CASE NothingStored /\ End(c, "error")
  BY <1>2, FailedTyped
<1>3. CASE WriteEpisodic(call[c].id, NewEpisode) /\ Goto(c, "pool")
  <2> DEFINE r == [call[c] EXCEPT !.pc = "pool"]
  <2>1. Same(call[c], r) /\ Quiet(r)
    BY <1>1 DEF Same, Fields, Quiet, HoldsEpisode, HoldsOwn, Relinks
  <2>2. call' = [call EXCEPT ![c] = r]
    BY <1>3 DEF Goto
  <2>3. TablesTyped' /\ CacheTyped'
    BY <1>3, NewRowsTyped, EpisodeWritten, EpisodeTyped DEF TypeInv, WriteEpisodic
  <2> HIDE DEF r
  <2> QED
    BY <2>1, <2>2, <2>3, QuietStep
<1> QED
  BY <1>2, <1>3 DEF CreateEpisode

LEMMA AfterLinksDone ==
    ASSUME NEW r, DOMAIN r = Fields, r.op = "write"
    PROVE  Same(r, AfterLinks(r)) /\ Quiet(AfterLinks(r))
<1> DEFINE done == Ended(r, "ok")
           more == [r EXCEPT !.pc = "match"]
<1>1. Same(r, done) /\ Quiet(done)
  BY DEF Ended, Same, Fields, Quiet, HoldsEpisode, HoldsOwn, Relinks
<1>2. Same(r, more) /\ Quiet(more)
  BY DEF Same, Fields, Quiet, HoldsEpisode, HoldsOwn, Relinks
<1>3. AfterLinks(r) = done \/ AfterLinks(r) = more
  BY DEF AfterLinks
<1> HIDE DEF done, more
<1> QED
  BY <1>1, <1>2, <1>3

LEMMA NextTriggerDone ==
    ASSUME NEW r, DOMAIN r = Fields, r.op = "write", NEW left
    PROVE  Same(r, NextTrigger(r, left)) /\ Quiet(NextTrigger(r, left))
<1> DEFINE rest == [r EXCEPT !.todo = {}]
           done == Ended(rest, "ok")
           more == [r EXCEPT !.todo = left, !.pc = "trigger", !.cur = NoId]
<1>1. Same(r, done) /\ Quiet(done)
  BY DEF Ended, Same, Fields, Quiet, HoldsEpisode, HoldsOwn, Relinks
<1>2. Same(r, more) /\ Quiet(more)
  BY DEF Same, Fields, Quiet, HoldsEpisode, HoldsOwn, Relinks
<1>3. NextTrigger(r, left) = done \/ NextTrigger(r, left) = more
  BY DEF NextTrigger
<1> HIDE DEF done, more
<1> QED
  BY <1>1, <1>2, <1>3

LEMMA PoolTyped ==
    ASSUME TypeInv PROVE Pool \subseteq Episodes
<1>1. DOMAIN episode = Episodes
  BY DEF TypeInv, TablesTyped
<1>2. /\ Sqlite!SearchEpisodic(episode) \subseteq Episodes
      /\ Memory!SearchEpisodic(episode) \subseteq Episodes
      /\ Neo4j!SearchEpisodic(episode) \subseteq Episodes
  BY <1>1 DEF Sqlite!SearchEpisodic, Memory!SearchEpisodic, Memory!Active,
          Neo4j!SearchEpisodic
<1>3. hot # NoPool => hot \subseteq Episodes
  BY DEF TypeInv, CacheTyped
<1> QED
  BY <1>2, <1>3 DEF Pool, SearchEpisodic, On

LEMMA LinkPoolTyped ==
    ASSUME TypeInv, NEW c \in Calls, backend' = backend, LinkPool(c)
    PROVE  Typed(c)
<1> DEFINE related == Pool \ {call[c].id}
           more == [call[c] EXCEPT !.pc = "link", !.todo = related, !.found = related]
<1>1. call[c].op = "write" /\ DOMAIN call[c] = Fields
  BY DEF LinkPool, Writing, At, TypeInv, CallsTyped, CallTyped
<1>2. CASE NothingStored /\ End(c, "ok")
  BY <1>2, FailedTyped
<1>3. CASE /\ RememberPool
           /\ call' = [call EXCEPT ![c] = IF related = {} THEN AfterLinks(call[c]) ELSE more]
  <2>1. Same(call[c], more) /\ Quiet(more)
    BY <1>1 DEF Same, Fields, Quiet, HoldsEpisode, HoldsOwn, Relinks
  <2>2. TablesTyped' /\ CacheTyped'
    BY <1>3, PoolTyped DEF RememberPool, TypeInv, TablesTyped, PitfallsTyped, Bounded, CacheTyped
  <2>3. PICK r \in {AfterLinks(call[c]), more} : call' = [call EXCEPT ![c] = r]
    BY <1>3
  <2> HIDE DEF more
  <2> QED
    BY <1>1, <2>1, <2>2, <2>3, AfterLinksDone, QuietStep
<1> QED
  BY <1>2, <1>3 DEF LinkPool

LEMMA EdgesOnly ==
    ASSUME NEW from, NEW to, NEW type, CreateEdge(from, to, type) PROVE OnlyEdges
BY DEF CreateEdge

LEMMA LinkRelatedTyped ==
    ASSUME TypeInv, NEW c \in Calls, backend' = backend, LinkRelated(c)
    PROVE  Typed(c)
<1>1. call[c].op = "write" /\ call[c].pc = "link" /\ DOMAIN call[c] = Fields
  BY DEF LinkRelated, Writing, At, TypeInv, CallsTyped, CallTyped
<1>2. NothingStored \/ OnlyEdges
  BY EdgesOnly DEF LinkRelated
<1>3. PICK m \in call[c].todo :
         LET left == call[c].todo \ {m} IN
         call' = [call EXCEPT ![c] =
            IF left = {} THEN AfterLinks([@ EXCEPT !.todo = {}]) ELSE [@ EXCEPT !.todo = left]]
  BY DEF LinkRelated
<1> DEFINE left == call[c].todo \ {m}
           none == [call[c] EXCEPT !.todo = {}]
           more == [call[c] EXCEPT !.todo = left]
<1>4. call' = [call EXCEPT ![c] = IF left = {} THEN AfterLinks(none) ELSE more]
  BY <1>3
<1>5. Same(call[c], none) /\ none.op = "write"
  BY <1>1 DEF Same, Fields
<1>6. Same(call[c], more) /\ Quiet(more)
  BY <1>1 DEF Same, Fields, Quiet, HoldsEpisode, HoldsOwn, Relinks
<1>7. PICK r \in {AfterLinks(none), more} : call' = [call EXCEPT ![c] = r]
  BY <1>4
<1> HIDE DEF more, none
<1>8. Same(none, AfterLinks(none)) /\ Quiet(AfterLinks(none))
  BY <1>5, AfterLinksDone DEF Same
<1>9. Same(call[c], r) /\ Quiet(r)
  BY <1>5, <1>6, <1>7, <1>8 DEF Same
<1> QED
  BY <1>2, <1>7, <1>9, NothingTyped, QuietStep

LEMMA MatchPitfallsTyped ==
    ASSUME TypeInv, NEW c \in Calls, backend' = backend, MatchPitfalls(c)
    PROVE  Typed(c)
<1>1. call[c].op = "write" /\ DOMAIN call[c] = Fields /\ NothingStored
  BY DEF MatchPitfalls, Writing, At, TypeInv, CallsTyped, CallTyped
<1>2. CASE End(c, "ok")
  BY <1>1, <1>2, FailedTyped
<1>3. CASE call' = [call EXCEPT ![c] = NextTrigger(@, SearchPitfallByEntity)]
  BY <1>1, <1>3, NextTriggerDone, QuietStep, NothingTyped
<1> QED
  BY <1>2, <1>3 DEF MatchPitfalls

LEMMA TriggerPitfallTyped ==
    ASSUME TypeInv, NEW c \in Calls, backend' = backend, TriggerPitfall(c)
    PROVE  Typed(c)
<1>1. call[c].op = "write" /\ DOMAIN call[c] = Fields
  BY DEF TriggerPitfall, Writing, At, TypeInv, CallsTyped, CallTyped
<1>2. PICK p \in call[c].todo :
         \/ CreateEdge(call[c].id, p, "TRIGGERED_PITFALL")
            /\ call' = [call EXCEPT ![c].pc = "occurrence", ![c].cur = p]
         \/ NothingStored /\ call' = [call EXCEPT ![c] = NextTrigger(@, call[c].todo \ {p})]
  BY DEF TriggerPitfall
<1>3. TablesTyped' /\ CacheTyped'
  BY <1>2, NothingTyped, EdgesOnly
<1>4. CASE call' = [call EXCEPT ![c] = NextTrigger(@, call[c].todo \ {p})]
  BY <1>1, <1>3, <1>4, NextTriggerDone, QuietStep
<1>5. CASE call' = [call EXCEPT ![c].pc = "occurrence", ![c].cur = p]
  <2> DEFINE r == [call[c] EXCEPT !.pc = "occurrence", !.cur = p]
  <2>1. Same(call[c], r) /\ Quiet(r)
    BY <1>1 DEF Same, Fields, Quiet, HoldsEpisode, HoldsOwn, Relinks
  <2>2. call' = [call EXCEPT ![c] = r]
    BY <1>5
  <2> HIDE DEF r
  <2> QED
    BY <1>3, <2>1, <2>2, QuietStep
<1> QED
  BY <1>2, <1>4, <1>5

LEMMA CountOccurrenceTyped ==
    ASSUME TypeInv, NEW c \in Calls, backend' = backend, CountOccurrence(c)
    PROVE  Typed(c)
<1> DEFINE p == call[c].cur
<1>1. call[c].op = "write" /\ DOMAIN call[c] = Fields
  BY DEF CountOccurrence, Writing, At, TypeInv, CallsTyped, CallTyped
<1>2. TablesTyped' /\ CacheTyped'
  <2>1. CASE NothingStored
    BY <2>1, NothingTyped
  <2>2. CASE Succeeds(UpdateRefused(pitfall[p])) /\ TouchPitfall(p)
    BY <2>2, PitfallTouched, PitfallTyped DEF Succeeds, TouchPitfall, TypeInv
  <2> QED
    BY <2>1, <2>2 DEF CountOccurrence
<1>3. call' = [call EXCEPT ![c] = NextTrigger(@, call[c].todo \ {p})]
  BY DEF CountOccurrence
<1> QED
  BY <1>1, <1>2, <1>3, NextTriggerDone, QuietStep

LEMMA RetireTyped ==
    ASSUME TypeInv, NEW c \in Calls, backend' = backend, Retire(c)
    PROVE  Typed(c)
<1>1. NothingStored \/ MarkObsolete(call[c].id)
  BY DEF Retire
<1>2. TablesTyped' /\ CacheTyped'
  BY <1>1, NothingTyped, EpisodeRetired, EpisodeTyped DEF TypeInv, MarkObsolete
<1>3. End(c, "ok") \/ End(c, "error")
  BY DEF Retire
<1> QED
  BY <1>2, <1>3, EndStep DEF TypeInv

LEMMA DeleteUserTyped ==
    ASSUME TypeInv, NEW c \in Calls, backend' = backend, DeleteUser(c)
    PROVE  Typed(c)
<1>1. NothingStored \/ DeleteEpisodicByProject
  BY DEF DeleteUser
<1>2. ASSUME DeleteEpisodicByProject PROVE TablesTyped' /\ CacheTyped'
  <2>1. episode' \in [Episodes -> EpisodeRow]
    BY <1>2, EpisodesDeleted DEF TypeInv
  <2> QED
    BY <1>2, <2>1 DEF DeleteEpisodicByProject, TypeInv, TablesTyped, PitfallsTyped, Bounded,
       CacheTyped
<1>3. TablesTyped' /\ CacheTyped'
  BY <1>1, <1>2, NothingTyped
<1>4. End(c, "ok") \/ End(c, "error")
  BY DEF DeleteUser
<1> QED
  BY <1>3, <1>4, EndStep DEF TypeInv

(* The calls of the workbench, of the rules and of a consolidation run     *)
(* hold no row but the one a re-anchoring writes back.                     *)
Plain(r) == r.op \notin {"touch", "feedback", "write", "link"}

LEMMA PlainStep ==
    ASSUME TypeInv, NEW c \in Calls, NEW r, call' = [call EXCEPT ![c] = r],
           Same(call[c], r), Plain(call[c]), TablesTyped', CacheTyped'
    PROVE  Typed(c)
<1>1. Quiet(r)
  BY DEF Plain, Same, Quiet, HoldsEpisode, HoldsOwn, Relinks
<1> QED
  BY <1>1, QuietStep

LEMMA PlainGoto ==
    ASSUME TypeInv, NEW c \in Calls, NEW pc, Goto(c, pc), Plain(call[c]), TablesTyped', CacheTyped'
    PROVE  Typed(c)
<1> DEFINE r == [call[c] EXCEPT !.pc = pc]
<1>1. Same(call[c], r)
  BY DEF TypeInv, CallsTyped, CallTyped, Same, Fields
<1>2. call' = [call EXCEPT ![c] = r]
  BY DEF Goto
<1> HIDE DEF r
<1> QED
  BY <1>1, <1>2, PlainStep

LEMMA ConfirmPitfallTyped ==
    ASSUME TypeInv, NEW c \in Calls, backend' = backend, ConfirmPitfall(c)
    PROVE  Typed(c)
<1>1. CASE NothingStored /\ End(c, "error")
  BY <1>1, FailedTyped
<1>2. CASE /\ ~UpdateRefused(pitfall[call[c].id])
           /\ UpdatePitfallStatus(call[c].id, "confirmed") /\ End(c, "ok")
  BY <1>2, PitfallJudged, PitfallTyped, EndStep DEF TypeInv, UpdatePitfallStatus
<1> QED
  BY <1>1, <1>2 DEF ConfirmPitfall, SingleUpdate, Succeeds

LEMMA FeedbackPitfallTyped ==
    ASSUME TypeInv, NEW c \in Calls, backend' = backend, FeedbackPitfall(c)
    PROVE  Typed(c)
<1>1. CASE NothingStored /\ End(c, "error")
  BY <1>1, FailedTyped
<1>2. CASE /\ ~UpdateRefused(pitfall[call[c].id])
           /\ ApplyPitfallFeedback(call[c].id, call[c].arg) /\ End(c, "ok")
  <2>1. call[c].arg \in PitfallFeedbackActions
    BY DEF FeedbackPitfall, OnPitfall, At, TypeInv, CallsTyped, CallTyped
  <2> QED
    BY <1>2, <2>1, PitfallRated, PitfallTyped, EndStep DEF TypeInv, ApplyPitfallFeedback
<1> QED
  BY <1>1, <1>2 DEF FeedbackPitfall, SingleUpdate, Succeeds

LEMMA SuppressStatusTyped ==
    ASSUME TypeInv, NEW c \in Calls, backend' = backend, SuppressStatus(c)
    PROVE  Typed(c)
<1>1. CASE NothingStored /\ End(c, "error")
  BY <1>1, FailedTyped
<1>2. CASE /\ ~UpdateRefused(pitfall[call[c].id])
           /\ UpdatePitfallStatus(call[c].id, "suppressed") /\ Goto(c, "count")
  <2>1. Plain(call[c])
    BY DEF SuppressStatus, OnPitfall, At, Plain
  <2>2. TablesTyped' /\ CacheTyped'
    BY <1>2, PitfallJudged, PitfallTyped DEF TypeInv, UpdatePitfallStatus
  <2> QED
    BY <1>2, <2>1, <2>2, PlainGoto
<1> QED
  BY <1>1, <1>2 DEF SuppressStatus, Succeeds

LEMMA SuppressCountTyped ==
    ASSUME TypeInv, NEW c \in Calls, backend' = backend, SuppressCount(c)
    PROVE  Typed(c)
<1>1. CASE NothingStored /\ End(c, "error")
  BY <1>1, FailedTyped
<1>2. CASE /\ ~UpdateRefused(pitfall[call[c].id])
           /\ AddPitfallCounters(call[c].id, 0, 1)
           /\ call' = [call EXCEPT ![c].pc = "weaken", ![c].counted = 1]
  <2> DEFINE r == [call[c] EXCEPT !.pc = "weaken", !.counted = 1]
  <2>1. Plain(call[c])
    BY DEF SuppressCount, OnPitfall, At, Plain
  <2>2. TablesTyped' /\ CacheTyped'
    BY <1>2, PitfallCounted, PitfallTyped DEF TypeInv, AddPitfallCounters
  <2>3. Same(call[c], r)
    BY DEF TypeInv, CallsTyped, CallTyped, Same, Fields
  <2>4. call' = [call EXCEPT ![c] = r]
    BY <1>2
  <2> HIDE DEF r
  <2> QED
    BY <2>1, <2>2, <2>3, <2>4, PlainStep
<1> QED
  BY <1>1, <1>2 DEF SuppressCount, Succeeds

LEMMA SuppressWeakenTyped ==
    ASSUME TypeInv, NEW c \in Calls, backend' = backend, SuppressWeaken(c)
    PROVE  Typed(c)
<1>1. CASE NothingStored
  BY <1>1, FailedTyped DEF SuppressWeaken
<1>2. CASE ~UpdateRefused(pitfall[call[c].id]) /\ ApplyPitfallFeedback(call[c].id, "ignored")
  <2>1. "ignored" \in PitfallFeedbackActions
    BY DEF PitfallFeedbackActions
  <2>2. End(c, "ok")
    BY DEF SuppressWeaken
  <2> QED
    BY <1>2, <2>1, <2>2, PitfallRated, PitfallTyped, EndStep DEF TypeInv, ApplyPitfallFeedback
<1> QED
  BY <1>1, <1>2 DEF SuppressWeaken, Succeeds

LEMMA LinkReadTyped ==
    ASSUME TypeInv, NEW c \in Calls, backend' = backend, LinkRead(c)
    PROVE  Typed(c)
<1> DEFINE p == call[c].id
           r == [call[c] EXCEPT !.pc = "write", !.copy = pitfall[p], !.cur = p]
<1>1. NothingStored /\ call[c].op = "link" /\ p \in Pitfalls /\ CallTyped(call[c])
  BY DEF LinkRead, OnPitfall, At, TypeInv, CallsTyped
<1>2. CASE End(c, "error")
  BY <1>1, <1>2, FailedTyped
<1>3. CASE call' = [call EXCEPT ![c] = r]
  <2>1. Same(call[c], r) /\ r.copy = pitfall[p] /\ r.cur = p
    BY <1>1 DEF CallTyped, Same, Fields
  <2>2. pitfall[p] \in PitfallRow /\ Bounded(pitfall[p])
    BY <1>1 DEF TypeInv, TablesTyped, PitfallsTyped
  <2> HIDE DEF r
  <2>3. CallTyped(r)
    BY <1>1, <2>1, <2>2 DEF CallTyped, Same, HoldsEpisode, HoldsOwn, Relinks
  <2>4. Advances(c) /\ call'[c] = r
    BY <1>3, <2>1, CallChanges DEF TypeInv
  <2>5. Keeps(c)
    BY <1>1, <2>1, <2>4 DEF Keeps, Same, HoldsEpisode
  <2> QED
    BY <1>1, <2>3, <2>4, <2>5, NothingTyped DEF Typed
<1> QED
  BY <1>2, <1>3 DEF LinkRead

LEMMA LinkWriteTyped ==
    ASSUME TypeInv, NEW c \in Calls, backend' = backend, LinkWrite(c)
    PROVE  Typed(c)
<1> DEFINE row == call[c].copy
<1>1. CASE NothingStored /\ End(c, "error")
  BY <1>1, FailedTyped
<1>2. CASE WritePitfall(call[c].id, Reanchored(row)) /\ End(c, "ok")
  <2>1. row \in PitfallRow /\ Bounded(row)
    BY DEF LinkWrite, OnPitfall, At, TypeInv, CallsTyped, CallTyped, Relinks
  <2>2. Reanchored(row) \in PitfallRow /\ Bounded(Reanchored(row))
    BY <2>1 DEF PitfallRow, Bounded, Reanchored
  <2> HIDE DEF row
  <2> QED
    BY <1>2, <2>2, PitfallWritten, PitfallTyped, EndStep DEF TypeInv, WritePitfall
<1> QED
  BY <1>1, <1>2 DEF LinkWrite

LEMMA PrepareSearchTyped ==
    ASSUME TypeInv, NEW c \in Calls, backend' = backend, PrepareSearch(c)
    PROVE  Typed(c)
<1>1. NothingStored /\ Plain(call[c]) /\ DOMAIN call[c] = Fields
  BY DEF PrepareSearch, At, Plain, TypeInv, CallsTyped, CallTyped
<1>2. CASE End(c, "error")
  BY <1>1, <1>2, FailedTyped
<1>3. ASSUME NEW shown,
             call' = [call EXCEPT ![c] =
                IF shown = {} THEN Ended(@, "ok")
                ELSE [@ EXCEPT !.pc = "count", !.todo = shown, !.found = shown]]
      PROVE  Typed(c)
  <2> DEFINE done == Ended(call[c], "ok")
             more == [call[c] EXCEPT !.pc = "count", !.todo = shown, !.found = shown]
  <2>1. Same(call[c], done) /\ Same(call[c], more)
    BY <1>1 DEF Same, Fields, Ended
  <2>2. PICK r \in {done, more} : call' = [call EXCEPT ![c] = r]
    BY <1>3
  <2> HIDE DEF done, more
  <2> QED
    BY <1>1, <2>1, <2>2, PlainStep, NothingTyped
<1> QED
  BY <1>2, <1>3 DEF PrepareSearch

LEMMA PrepareCountTyped ==
    ASSUME TypeInv, NEW c \in Calls, backend' = backend, PrepareCount(c)
    PROVE  Typed(c)
<1>1. Plain(call[c]) /\ DOMAIN call[c] = Fields
  BY DEF PrepareCount, At, Plain, TypeInv, CallsTyped, CallTyped
<1>2. PICK p \in call[c].todo :
         LET left == call[c].todo \ {p}
             counted == [call[c] EXCEPT !.todo = left]
         IN /\ \/ Succeeds(UpdateRefused(pitfall[p])) /\ AddPitfallCounters(p, 1, 0)
               \/ Fails(UpdateRefused(pitfall[p])) /\ NothingStored
            /\ call' = [call EXCEPT ![c] = IF left = {} THEN Ended(counted, "ok") ELSE counted]
  BY DEF PrepareCount
<1> DEFINE counted == [call[c] EXCEPT !.todo = call[c].todo \ {p}]
<1>3. Same(call[c], counted) /\ Same(call[c], Ended(counted, "ok"))
  BY <1>1 DEF Same, Fields, Ended
<1>4. PICK r \in {counted, Ended(counted, "ok")} : call' = [call EXCEPT ![c] = r]
  BY <1>2
<1> HIDE DEF counted
<1>5. CASE Succeeds(UpdateRefused(pitfall[p])) /\ AddPitfallCounters(p, 1, 0)
  <2>1. TablesTyped' /\ CacheTyped'
    BY <1>5, PitfallCounted, PitfallTyped DEF TypeInv, AddPitfallCounters, Succeeds
  <2> QED
    BY <1>1, <1>3, <1>4, <2>1, PlainStep
<1>6. CASE NothingStored
  BY <1>1, <1>3, <1>4, <1>6, PlainStep, NothingTyped
<1> QED
  BY <1>2, <1>5, <1>6

-----------------------------------------------------------------------------
LEMMA RecordsTyped ==
    ASSUME TypeInv, backend' = backend,
           UNCHANGED <<episode, rule, pitfall, hot>>
    PROVE  TablesTyped' /\ CacheTyped'
BY DEF TypeInv, TablesTyped, PitfallsTyped, Bounded, CacheTyped

LEMMA NextPairDone ==
    ASSUME NEW r, DOMAIN r = Fields PROVE Same(r, NextPair(r))
<1> DEFINE more == [r EXCEPT !.pc = "pair", !.cur = NoId]
<1>1. Same(r, Ended(r, "ok")) /\ Same(r, more)
  BY DEF Same, Fields, Ended
<1>2. NextPair(r) \in {Ended(r, "ok"), more}
  BY DEF NextPair
<1> HIDE DEF more
<1> QED
  BY <1>1, <1>2

LEMMA DetectRulesTyped ==
    ASSUME TypeInv, NEW c \in Calls, backend' = backend, DetectRules(c)
    PROVE  Typed(c)
<1> DEFINE r == [call[c] EXCEPT !.pc = "list", !.copy = [q \in SearchSemantic |-> rule[q]]]
<1>1. NothingStored /\ Plain(call[c]) /\ DOMAIN call[c] = Fields
  BY DEF DetectRules, Detecting, At, Plain, TypeInv, CallsTyped, CallTyped
<1>2. CASE End(c, "error")
  BY <1>1, <1>2, FailedTyped
<1>3. CASE call' = [call EXCEPT ![c] = r]
  <2>1. Same(call[c], r)
    BY <1>1 DEF Same, Fields
  <2> HIDE DEF r
  <2> QED
    BY <1>1, <1>3, <2>1, PlainStep, NothingTyped
<1> QED
  BY <1>2, <1>3 DEF DetectRules

LEMMA DetectListTyped ==
    ASSUME TypeInv, NEW c \in Calls, backend' = backend, DetectList(c)
    PROVE  Typed(c)
<1> DEFINE pairs == Contradicting(call[c].copy)
           r == [call[c] EXCEPT !.found = pairs, !.todo = pairs \ Tracked(ListRuleConflicts)]
<1>1. NothingStored /\ Plain(call[c]) /\ DOMAIN call[c] = Fields
  BY DEF DetectList, Detecting, At, Plain, TypeInv, CallsTyped, CallTyped
<1>2. CASE End(c, "error")
  BY <1>1, <1>2, FailedTyped
<1>3. CASE call' = [call EXCEPT ![c] = NextPair(r)]
  <2>1. Same(call[c], r)
    BY <1>1 DEF Same, Fields
  <2> HIDE DEF r
  <2>2. Same(call[c], NextPair(r))
    BY <2>1, NextPairDone DEF Same
  <2> QED
    BY <1>1, <1>3, <2>2, PlainStep, NothingTyped
<1> QED
  BY <1>2, <1>3 DEF DetectList

LEMMA SavePairTyped ==
    ASSUME TypeInv, NEW c \in Calls, backend' = backend, SavePair(c)
    PROVE  Typed(c)
<1>1. call[c].op = "detect" /\ Plain(call[c]) /\ DOMAIN call[c] = Fields
  BY DEF SavePair, Detecting, At, Plain, TypeInv, CallsTyped, CallTyped
<1>2. CASE NothingStored /\ End(c, "error")
  BY <1>2, FailedTyped
<1>3. ASSUME NEW pair, SaveRuleConflict(NewRecord(c, pair)),
             call' = [call EXCEPT ![c] =
                IF Graded(call[c].copy, pair)
                THEN [[call[c] EXCEPT !.todo = @ \ {pair}] EXCEPT !.pc = "retire",
                        !.cur = NewRecord(c, pair), !.arg = Winner(call[c].copy, pair),
                        !.updated = @ \cup {NewRecord(c, pair).id}]
                ELSE NextPair([call[c] EXCEPT !.todo = @ \ {pair}])]
      PROVE  Typed(c)
  <2> DEFINE saved == [call[c] EXCEPT !.todo = @ \ {pair}]
             graded == [saved EXCEPT !.pc = "retire", !.cur = NewRecord(c, pair),
                          !.arg = Winner(call[c].copy, pair),
                          !.updated = @ \cup {NewRecord(c, pair).id}]
  <2>1. Same(call[c], saved)
    BY <1>1 DEF Same, Fields
  <2>2. Same(call[c], graded)
    BY <1>1 DEF Same, Fields
  <2>3. PICK r \in {graded, NextPair(saved)} : call' = [call EXCEPT ![c] = r]
    BY <1>3
  <2> HIDE DEF graded, saved
  <2>4. Same(call[c], NextPair(saved))
    BY <2>1, NextPairDone DEF Same
  <2>5. TablesTyped' /\ CacheTyped'
    BY <1>3, RecordsTyped DEF SaveRuleConflict
  <2> QED
    BY <1>1, <2>2, <2>3, <2>4, <2>5, PlainStep
<1> QED
  BY <1>2, <1>3 DEF SavePair

LEMMA ResolveReadTyped ==
    ASSUME TypeInv, NEW c \in Calls, backend' = backend, ResolveRead(c)
    PROVE  Typed(c)
<1>1. NothingStored /\ call[c].op = "resolve" /\ Plain(call[c]) /\ DOMAIN call[c] = Fields
  BY DEF ResolveRead, At, Plain, TypeInv, CallsTyped, CallTyped
<1>2. CASE End(c, "error")
  BY <1>1, <1>2, FailedTyped
<1>3. ASSUME NEW rec, NEW winner,
             call' = [call EXCEPT ![c].pc = "retire", ![c].cur = rec, ![c].arg = winner,
                                  ![c].updated = {rec.id}]
      PROVE  Typed(c)
  <2> DEFINE r == [call[c] EXCEPT !.pc = "retire", !.cur = rec, !.arg = winner,
                                  !.updated = {rec.id}]
  <2>1. Same(call[c], r)
    BY <1>1 DEF Same, Fields
  <2>2. call' = [call EXCEPT ![c] = r]
    BY <1>3
  <2> HIDE DEF r
  <2> QED
    BY <1>1, <2>1, <2>2, PlainStep, NothingTyped
<1> QED
  BY <1>2, <1>3 DEF ResolveRead

LEMMA RetireLoserTyped ==
    ASSUME TypeInv, NEW c \in Calls, backend' = backend, RetireLoser(c)
    PROVE  Typed(c)
<1> DEFINE loser == Loser(call[c].cur, call[c].arg)
<1>1. Plain(call[c])
  BY DEF RetireLoser, Deciding, Plain
<1>2. CASE NothingStored /\ End(c, "error")
  BY <1>2, FailedTyped
<1>3. CASE MarkSemanticObsolete(loser) /\ Goto(c, "edge")
  <2> HIDE DEF loser
  <2>1. TablesTyped' /\ CacheTyped'
    BY <1>3, RuleRetired, RuleTyped DEF TypeInv, MarkSemanticObsolete
  <2> QED
    BY <1>1, <1>3, <2>1, PlainGoto
<1> QED
  BY <1>2, <1>3 DEF RetireLoser

LEMMA LinkLoserTyped ==
    ASSUME TypeInv, NEW c \in Calls, backend' = backend, LinkLoser(c)
    PROVE  Typed(c)
<1>1. Plain(call[c]) /\ Goto(c, "settle")
  BY DEF LinkLoser, Deciding, Plain
<1>2. NothingStored \/ OnlyEdges
  BY EdgesOnly DEF LinkLoser
<1> QED
  BY <1>1, <1>2, NothingTyped, PlainGoto

LEMMA SettleRecordTyped ==
    ASSUME TypeInv, NEW c \in Calls, backend' = backend, SettleRecord(c)
    PROVE  Typed(c)
<1>1. Plain(call[c]) /\ DOMAIN call[c] = Fields
  BY DEF SettleRecord, Deciding, Plain, TypeInv, CallsTyped, CallTyped
<1>2. CASE NothingStored /\ End(c, "error")
  BY <1>2, FailedTyped
<1>3. CASE /\ ResolveRuleConflict(call[c].cur.id, Settlement(call[c].op), call[c].arg)
           /\ call' = [call EXCEPT ![c] = NextPair(@)]
  <2>1. TablesTyped' /\ CacheTyped'
    BY <1>3, RecordsTyped DEF ResolveRuleConflict
  <2>2. Same(call[c], NextPair(call[c]))
    BY <1>1, NextPairDone
  <2> QED
    BY <1>1, <1>3, <2>1, <2>2, PlainStep
<1> QED
  BY <1>2, <1>3 DEF SettleRecord

-----------------------------------------------------------------------------
(* A consolidation run.  Its source sets are sets of episodes, which are   *)
(* finite, so a new pitfall counts a number of occurrences.                *)

LEMMA StandsTyped ==
    ASSUME TypeInv, NEW c \in Calls, call[c].op = "consolidate", backend' = backend,
           UNCHANGED call, TablesTyped', CacheTyped'
    PROVE  Typed(c)
BY DEF TypeInv, CallsTyped, Typed, Advances, CallTyped, Bounded, Keeps, HoldsEpisode

LEMMA NewPitfallTyped ==
    ASSUME NEW n \in Nat
    PROVE  LET row == [NewPitfall EXCEPT !.occurrences = n] IN
           row \in PitfallRow /\ Bounded(row)
<1>1. /\ Full \in 0..Full /\ 0 \in 0..ProtectionLevelMax /\ Full \in Int
      /\ 0 \in Nat /\ 1 \in Nat
  BY DEF Full, ProtectionLevelMax
<1> DEFINE row == [NewPitfall EXCEPT !.occurrences = n]
<1>2. row \in PitfallRow
  BY <1>1 DEF NewPitfall, NoPitfall, PitfallRow, Statuses
<1>3. row.weight = Full /\ row.protection = 0
  BY DEF NewPitfall, NoPitfall
<1> HIDE DEF row
<1>4. Bounded(row)
  BY <1>1, <1>3 DEF Bounded
<1> QED
  BY <1>2, <1>4 DEF row

LEMMA StoreTyped ==
    ASSUME TypeInv, backend' = backend, NEW k \in Kinds, NEW id,
           NEW sources \in SUBSET Episodes, Store(k, id, sources)
    PROVE  TablesTyped' /\ CacheTyped'
<1>1. CASE k = "rule"
  <2>1. WriteSemantic(id, NewRule)
    BY <1>1 DEF Store
  <2> QED
    BY <2>1, RuleWritten, RuleTyped DEF TypeInv, WriteSemantic
<1>2. CASE k # "rule"
  <2> DEFINE row == [NewPitfall EXCEPT !.occurrences = Cardinality(sources)]
  <2>1. IsFiniteSet(sources)
    BY IdsAssumption, FS_Subset DEF IdsAssumption
  <2>2. Cardinality(sources) \in Nat
    BY <2>1, FS_CardinalityType
  <2>3. row \in PitfallRow /\ Bounded(row)
    BY <2>2, NewPitfallTyped
  <2>4. WritePitfall(id, row)
    BY <1>2 DEF Store
  <2> HIDE DEF row
  <2> QED
    BY <2>3, <2>4, PitfallWritten, PitfallTyped DEF TypeInv, WritePitfall
<1> QED
  BY <1>1, <1>2

LineTyped(l) == "todo" \in DOMAIN l /\ l.todo \subseteq SUBSET Episodes

LEMMA LineMoved ==
    ASSUME LinesTyped, NEW c \in Calls, NEW k \in Kinds, NEW l, LineTyped(l),
           line' = [line EXCEPT ![c][k] = l]
    PROVE  LinesTyped'
BY DEF LinesTyped, LineTyped

LEMMA LineStoreTyped ==
    ASSUME TypeInv, NEW c \in Calls, NEW k \in Kinds, backend' = backend, LineStore(c, k)
    PROVE  Typed(c) /\ LinesTyped'
<1>1. LineTyped(line[c][k]) /\ UNCHANGED call /\ call[c].op = "consolidate"
  BY DEF LineStore, Working, Run, At, TypeInv, LinesTyped, LineTyped
<1>2. PICK sources \in line[c][k].todo :
         \/ /\ Store(k, FreshId(k), sources)
            /\ line' = [line EXCEPT ![c][k] = Tracing(@, FreshId(k), sources)]
         \/ NothingStored /\ line' = [line EXCEPT ![c][k].pc = "failed"]
  BY DEF LineStore
<1>3. sources \in SUBSET Episodes
  BY <1>1 DEF LineTyped
<1>4. TablesTyped' /\ CacheTyped'
  BY <1>2, <1>3, StoreTyped, NothingTyped
<1> DEFINE stored == Tracing(line[c][k], FreshId(k), sources)
           failed == [line[c][k] EXCEPT !.pc = "failed"]
<1>5. LineTyped(stored) /\ LineTyped(failed)
  BY <1>1 DEF LineTyped, Tracing
<1>6. \/ line' = [line EXCEPT ![c][k] = stored]
      \/ line' = [line EXCEPT ![c][k] = failed]
  BY <1>2
<1> HIDE DEF stored, failed
<1>7. LinesTyped'
  BY <1>5, <1>6, LineMoved DEF TypeInv
<1> QED
  BY <1>1, <1>4, <1>7, StandsTyped

LEMMA LineTraceTyped ==
    ASSUME TypeInv, NEW c \in Calls, NEW k \in Kinds, backend' = backend, LineTrace(c, k)
    PROVE  Typed(c) /\ LinesTyped'
<1>1. LineTyped(line[c][k]) /\ UNCHANGED call /\ call[c].op = "consolidate"
  BY DEF LineTrace, Working, Run, At, TypeInv, LinesTyped, LineTyped
<1>2. PICK m \in line[c][k].left :
         \/ /\ CreateEdge(line[c][k].id, m, "DERIVED_FROM")
            /\ line' = [line EXCEPT ![c][k] = TracedTo(@, m)]
         \/ NothingStored /\ line' = [line EXCEPT ![c][k].pc = "failed"]
  BY DEF LineTrace
<1>3. TablesTyped' /\ CacheTyped'
  BY <1>2, EdgesOnly, NothingTyped
<1> DEFINE failed == [line[c][k] EXCEPT !.pc = "failed"]
<1>4. LineTyped(TracedTo(line[c][k], m)) /\ LineTyped(failed)
  BY <1>1 DEF LineTyped, TracedTo
<1>5. \/ line' = [line EXCEPT ![c][k] = TracedTo(line[c][k], m)]
      \/ line' = [line EXCEPT ![c][k] = failed]
  BY <1>2
<1> HIDE DEF failed
<1>6. LinesTyped'
  BY <1>4, <1>5, LineMoved DEF TypeInv
<1> QED
  BY <1>1, <1>3, <1>6, StandsTyped

LEMMA BacktestFailsTyped ==
    ASSUME TypeInv, NEW c \in Calls, backend' = backend, BacktestFails(c)
    PROVE  Typed(c) /\ LinesTyped'
<1>1. /\ LineTyped(line[c]["rule"]) /\ UNCHANGED call /\ NothingStored
      /\ call[c].op = "consolidate"
  BY DEF BacktestFails, Working, Run, At, NothingStored, TypeInv, LinesTyped, LineTyped, Kinds
<1>2. PICK sources \in line[c]["rule"].todo :
         line' = [line EXCEPT ![c]["rule"].todo = @ \ {sources}]
  BY DEF BacktestFails
<1> DEFINE dropped == [line[c]["rule"] EXCEPT !.todo = @ \ {sources}]
<1>3. LineTyped(dropped) /\ line' = [line EXCEPT ![c]["rule"] = dropped]
  BY <1>1, <1>2 DEF LineTyped
<1> HIDE DEF dropped
<1>4. LinesTyped'
  BY <1>3, LineMoved DEF TypeInv, Kinds
<1> QED
  BY <1>1, <1>4, StandsTyped, NothingTyped

LEMMA ScanTyped ==
    ASSUME TypeInv, NEW c \in Calls, backend' = backend, Scan(c)
    PROVE  Typed(c) /\ LinesTyped'
<1>1. NothingStored /\ Plain(call[c]) /\ DOMAIN call[c] = Fields
  BY DEF Scan, Run, At, Plain, TypeInv, CallsTyped, CallTyped
<1>2. CASE Goto(c, "broken") /\ UNCHANGED line
  <2>1. Typed(c)
    BY <1>1, <1>2, PlainGoto, NothingTyped
  <2>2. LinesTyped'
    BY <1>2 DEF TypeInv, LinesTyped
  <2> QED
    BY <2>1, <2>2
<1>3. ASSUME NEW extracted \in SubClusterings(Groups(DebugEpisodes(ScanRecent), Site)),
             line' = [line EXCEPT ![c] =
                [rule |-> [NoLine EXCEPT !.todo = Groups(ScanRecent, Pattern)],
                 pitfall |-> [NoLine EXCEPT !.todo = extracted]]],
             call' = [call EXCEPT ![c].pc = "lines", ![c].found = ScanRecent]
      PROVE  Typed(c) /\ LinesTyped'
  <2> DEFINE r == [call[c] EXCEPT !.pc = "lines", !.found = ScanRecent]
             l == [NoLine EXCEPT !.todo = Groups(ScanRecent, Pattern)]
             p == [NoLine EXCEPT !.todo = extracted]
  <2>1. DOMAIN episode = Episodes
    BY DEF TypeInv, TablesTyped
  <2>2. ScanRecent \subseteq Episodes
    BY <2>1 DEF ScanRecent, On, Sqlite!ScanRecent, Memory!ScanRecent, Memory!Active,
       Neo4j!ScanRecent
  <2>3. Groups(ScanRecent, Pattern) \subseteq SUBSET Episodes
    BY <2>2 DEF Groups
  <2>4. Groups(DebugEpisodes(ScanRecent), Site) \subseteq SUBSET Episodes
    BY <2>2 DEF Groups, DebugEpisodes
  <2>5. extracted \subseteq SUBSET Episodes
    BY <1>3, <2>4 DEF SubClusterings
  <2>6. LineTyped(l) /\ LineTyped(p)
    BY <2>3, <2>5 DEF LineTyped, NoLine
  <2>7. Same(call[c], r) /\ call' = [call EXCEPT ![c] = r]
    BY <1>1, <1>3 DEF Same, Fields
  <2>8. line' = [line EXCEPT ![c] = [rule |-> l, pitfall |-> p]]
    BY <1>3
  <2> HIDE DEF r, l, p
  <2>9. LinesTyped'
    BY <2>6, <2>8 DEF LinesTyped, LineTyped, Kinds, TypeInv
  <2> QED
    BY <1>1, <2>7, <2>9, PlainStep, NothingTyped
<1> QED
  BY <1>1, <1>2, <1>3 DEF Scan

LEMMA SavedTyped ==
    ASSUME TypeInv, backend' = backend, NEW run, NothingStored \/ SaveConsolidationRun(run)
    PROVE  TablesTyped' /\ CacheTyped'
BY NothingTyped, RecordsTyped DEF SaveConsolidationRun

LEMMA TriggerTyped ==
    ASSUME TypeInv, NEW c \in Calls, backend' = backend, Trigger(c)
    PROVE  Typed(c) /\ LinesTyped'
<1> DEFINE r == [call[c] EXCEPT !.pc = "scan", !.outcome = "ok"]
<1>1. Plain(call[c]) /\ DOMAIN call[c] = Fields /\ UNCHANGED line
  BY DEF Trigger, Run, At, Plain, TypeInv, CallsTyped, CallTyped
<1>2. TablesTyped' /\ CacheTyped'
  BY SavedTyped DEF Trigger
<1>3. LinesTyped'
  BY <1>1 DEF TypeInv, LinesTyped
<1>4. CASE End(c, "error")
  BY <1>2, <1>3, <1>4, EndStep DEF TypeInv
<1>5. CASE call' = [call EXCEPT ![c] = r]
  <2>1. Same(call[c], r)
    BY <1>1 DEF Same, Fields
  <2> HIDE DEF r
  <2> QED
    BY <1>1, <1>2, <1>3, <1>5, <2>1, PlainStep
<1> QED
  BY <1>4, <1>5 DEF Trigger

LEMMA SaveResultTyped ==
    ASSUME TypeInv, NEW c \in Calls, backend' = backend, SaveResult(c)
    PROVE  Typed(c) /\ LinesTyped'
<1>1. UNCHANGED line /\ End(c, "ok")
  BY DEF SaveResult
<1>2. TablesTyped' /\ CacheTyped'
  BY SavedTyped DEF SaveResult
<1>3. LinesTyped'
  BY <1>1 DEF TypeInv, LinesTyped
<1> QED
  BY <1>1, <1>2, <1>3, EndStep DEF TypeInv

-----------------------------------------------------------------------------
LEMMA EpisodeStepTyped ==
    ASSUME TypeInv, NEW c \in Calls, backend' = backend, EpisodeStep(c)
    PROVE  Typed(c) /\ faults' \in 0..MaxFaults
<1>1. Typed(c)
  BY TouchReadTyped, TouchUpdateTyped, LookupMemoryTyped, FeedbackUpdateTyped, TraceTyped,
     SourceReadTyped, SourceBoostTyped, SourceSummaryTyped, SourceTrustTyped,
     SearchCandidatesTyped, FetchCandidateTyped, MergeTyped, CreateEpisodeTyped, LinkPoolTyped,
     LinkRelatedTyped, MatchPitfallsTyped, TriggerPitfallTyped, CountOccurrenceTyped,
     RetireTyped, DeleteUserTyped
  DEF EpisodeStep
<1>2. PICK refused : Succeeds(refused) \/ Fails(refused)
  BY DEF EpisodeStep, TouchRead, TouchUpdate, LookupMemory, FeedbackUpdate, Trace, SourceRead,
         SourceBoost, SourceSummary, SourceTrust, SearchCandidates, FetchCandidate, Merge,
         CreateEpisode, LinkPool, LinkRelated, MatchPitfalls, TriggerPitfall, CountOccurrence,
         Retire, DeleteUser
<1> QED
  BY <1>1, <1>2, FaultsTyped DEF TypeInv

LEMMA PitfallStepTyped ==
    ASSUME TypeInv, NEW c \in Calls, backend' = backend, PitfallStep(c)
    PROVE  Typed(c) /\ faults' \in 0..MaxFaults
<1>1. Typed(c)
  BY ConfirmPitfallTyped, FeedbackPitfallTyped, SuppressStatusTyped, SuppressCountTyped,
     SuppressWeakenTyped, LinkReadTyped, LinkWriteTyped, PrepareSearchTyped, PrepareCountTyped
  DEF PitfallStep
<1>2. PICK refused : Succeeds(refused) \/ Fails(refused)
  BY DEF PitfallStep, ConfirmPitfall, FeedbackPitfall, SingleUpdate, SuppressStatus,
         SuppressCount, SuppressWeaken, LinkRead, LinkWrite, PrepareSearch, PrepareCount
<1> QED
  BY <1>1, <1>2, FaultsTyped DEF TypeInv

LEMMA RuleStepTyped ==
    ASSUME TypeInv, NEW c \in Calls, backend' = backend, RuleStep(c)
    PROVE  Typed(c) /\ faults' \in 0..MaxFaults
<1>1. Typed(c)
  BY DetectRulesTyped, DetectListTyped, SavePairTyped, ResolveReadTyped, RetireLoserTyped,
     LinkLoserTyped, SettleRecordTyped
  DEF RuleStep
<1>2. PICK refused : Succeeds(refused) \/ Fails(refused)
  BY DEF RuleStep, DetectRules, DetectList, SavePair, ResolveRead, RetireLoser, LinkLoser,
         SettleRecord
<1> QED
  BY <1>1, <1>2, FaultsTyped DEF TypeInv

LEMMA RunStepTyped ==
    ASSUME TypeInv, NEW c \in Calls, backend' = backend, RunStep(c)
    PROVE  Typed(c) /\ LinesTyped' /\ faults' \in 0..MaxFaults
<1>1. Typed(c) /\ LinesTyped'
  BY TriggerTyped, ScanTyped, BacktestFailsTyped, SaveResultTyped, LineStoreTyped, LineTraceTyped
  DEF RunStep
<1>2. UNCHANGED faults \/ \E refused : Succeeds(refused) \/ Fails(refused) \/ FailsLate
  BY DEF RunStep, Trigger, Scan, BacktestFails, SaveResult, LineStore, LineTrace
<1> QED
  BY <1>1, <1>2, FaultsTyped DEF TypeInv

LEMMA StepTyped ==
    ASSUME TypeInv, NEW c \in Calls, Step(c)
    PROVE  TypeInv'
<1>1. backend' = backend
  BY DEF Step
<1>2. Typed(c) /\ faults' \in 0..MaxFaults
  BY <1>1, EpisodeStepTyped, PitfallStepTyped, RuleStepTyped, RunStepTyped DEF Step
<1>3. LinesTyped'
  BY <1>1, RunStepTyped DEF Step, TypeInv, LinesTyped
<1> QED
  BY <1>1, <1>2, <1>3, Advanced DEF TypeInv, Typed

LEMMA IdleTyped ==
    ASSUME NEW w \in Workloads, NEW c \in Calls, call = w.calls
    PROVE  CallTyped(call[c]) /\ call[c].pc \in {"start", "done"}
<1>1. IsRequest(call[c], w)
  BY WorkloadsAssumption DEF WorkloadsAssumption
<1>2. CASE call[c] = Ended(Idle("none", NoId, "none"), "ok")
  BY <1>2 DEF Ended, Idle, CallTyped, Fields, HoldsEpisode, HoldsOwn, Relinks
<1>3. CASE /\ call[c] = Idle(call[c].op, call[c].id, call[c].arg)
           /\ call[c].op = "feedback" => call[c].arg \in SearchActions
           /\ call[c].op = "rate" => call[c].arg \in PitfallFeedbackActions
  <2>1. call[c].pc = "start" /\ DOMAIN call[c] = Fields
    BY <1>3 DEF Idle, Fields
  <2> QED
    BY <1>3, <2>1 DEF CallTyped, HoldsEpisode, HoldsOwn, Relinks
<1> QED
  BY <1>1, <1>2, <1>3 DEF IsRequest

LEMMA InitTyped == Init => TypeInv
<1> SUFFICES ASSUME Init PROVE TypeInv
  OBVIOUS
<1>1. PICK w \in Workloads :
         /\ call = w.calls /\ backend \in w.backends
         /\ episode = w.episode /\ rule = w.rule /\ pitfall = w.pitfall
  BY DEF Init
<1>2. TablesTyped
  <2>1. \A p \in Pitfalls : Bounded(pitfall[p])
    BY <1>1, WorkloadsAssumption DEF WorkloadsAssumption, Bounded
  <2> QED
    BY <1>1, <2>1, WorkloadsAssumption DEF WorkloadsAssumption, TablesTyped, PitfallsTyped
<1>3. CallsTyped
  BY <1>1, IdleTyped, WorkloadsAssumption DEF WorkloadsAssumption, CallsTyped
<1>4. LinesTyped
  BY DEF Init, LinesTyped, NoLine
<1> QED
  BY <1>2, <1>3, <1>4, IdsAssumption DEF IdsAssumption, Init, TypeInv, CacheTyped

LEMMA TypeInductive == TypeInv /\ [Next]_vars => TypeInv'
<1> SUFFICES ASSUME TypeInv, [Next]_vars PROVE TypeInv'
  OBVIOUS
<1>1. CASE UNCHANGED vars
  BY <1>1 DEF vars, storeVars, tables, TypeInv, TablesTyped, PitfallsTyped, Bounded, CallsTyped,
     CallTyped, LinesTyped, CacheTyped
<1>2. CASE Expire
  BY <1>2 DEF Expire, CacheExpires, TypeInv, TablesTyped, PitfallsTyped, Bounded, CallsTyped,
     CallTyped, LinesTyped, CacheTyped
<1>3. ASSUME NEW c \in Calls, Step(c) PROVE TypeInv'
  BY <1>3, StepTyped
<1> QED
  BY <1>1, <1>2, <1>3 DEF Next, Terminated

LEMMA Typing == Spec => []TypeInv
BY InitTyped, TypeInductive, PTL DEF Spec

(* Whatever calls run, in whatever order, on whichever store: the tables   *)
(* keep rows of their kind, and SQLite and the in-process store keep the   *)
(* weight and the protection level of every pitfall within their bounds.   *)
THEOREM TypeCorrect == Spec => []StoreTypeOK
<1>1. TypeInv => StoreTypeOK
  BY DEF TypeInv, TablesTyped, PitfallsTyped, Bounded, CacheTyped, StoreTypeOK
<1> QED
  BY <1>1, Typing, PTL

-----------------------------------------------------------------------------
(* What a step does to the episodes and the hot cache: nothing; weights    *)
(* move or a memory retires; a row in hand is written back; a memory is    *)
(* created; a user's memories go, and the cache with them; a search fills  *)
(* the cache.                                                              *)

Untouched == episode' = episode /\ hot' = hot
OnlyAges ==
    /\ hot' = hot
    /\ \A n \in Episodes : /\ episode'[n].stored = episode[n].stored
                           /\ episode[n].retired => episode'[n].retired
WrittenBack(c) ==
    /\ hot' = hot /\ HoldsEpisode(call[c])
    /\ \E row : /\ call[c].cur \in Episodes => SameLife(call[c].copy, row)
                /\ episode' = [episode EXCEPT ![call[c].cur] = row]
Created(c) ==
    /\ hot' = hot /\ Writing(c, "create")
    /\ episode' = [episode EXCEPT ![call[c].id] = NewEpisode]
Gone ==
    /\ hot' = NoPool /\ backend # "neo4jpg"
    /\ \A n \in Episodes : episode'[n] = episode[n] \/ ~episode'[n].stored
Filled == episode' = episode /\ hot' \in {hot, Pool}

Moves(c) == Untouched \/ OnlyAges \/ WrittenBack(c) \/ Created(c) \/ Gone \/ Filled

LEMMA NothingMoves ==
    ASSUME NothingStored \/ OnlyRule \/ OnlyPitfall \/ OnlyEdges PROVE Untouched
BY DEF NothingStored, tables, OnlyRule, OnlyPitfall, OnlyEdges, Untouched

LEMMA WeightMoves ==
    ASSUME TypeInv, NEW m, NEW w, NEW f,
           m \in Episodes => w \in Nat /\ f \in Nat, UpdateEpisodicWeight(m, w, f)
    PROVE  OnlyAges
<1>1. \A n \in Episodes : SameLife(episode[n], episode'[n])
  BY EpisodeReweighed DEF TypeInv
<1> QED
  BY <1>1 DEF OnlyAges, SameLife, UpdateEpisodicWeight, OnlyEpisode

LEMMA WriteMoves ==
    ASSUME TypeInv, NEW c \in Calls, HoldsEpisode(call[c]), NEW row,
           call[c].cur \in Episodes => row \in EpisodeRow /\ SameLife(call[c].copy, row),
           WriteEpisodic(call[c].cur, row)
    PROVE  WrittenBack(c)
<1>1. episode' = [episode EXCEPT ![call[c].cur] = row]
  BY EpisodeWritten DEF TypeInv
<1> QED
  BY <1>1 DEF WrittenBack, WriteEpisodic, OnlyEpisode

LEMMA TouchMoves ==
    ASSUME TypeInv, NEW c \in Calls, TouchUpdate(c) PROVE Moves(c)
<1> DEFINE m == call[c].id
           new == Touched(call[c].copy)
<1>1. m \in Episodes => call[c].copy \in EpisodeRow
  BY DEF TypeInv, CallsTyped, CallTyped, HoldsEpisode, TouchUpdate, Touching, At
<1>2. m \in Episodes => new.weight \in Nat /\ new.freq \in Nat
  BY <1>1, TouchedTyped
<1>3. NothingStored \/ UpdateEpisodicWeight(m, new.weight, new.freq)
  BY DEF TouchUpdate
<1> HIDE DEF m, new
<1> QED
  BY <1>2, <1>3, WeightMoves, NothingMoves DEF Moves

LEMMA FeedbackMoves ==
    ASSUME TypeInv, NEW c \in Calls, FeedbackUpdate(c) PROVE Moves(c)
<1> DEFINE i == call[c].id
           row == call[c].copy
           freq == IF i \in Pitfalls THEN Full ELSE row.freq
           new == ApplyFeedback(row.weight, freq, call[c].arg)
<1>1. CallTyped(call[c]) /\ HoldsEpisode(call[c]) /\ HoldsOwn(call[c])
  BY DEF FeedbackUpdate, Feeding, At, TypeInv, CallsTyped, HoldsEpisode, HoldsOwn
<1>2. i \in Episodes => row \in EpisodeRow /\ call[c].arg \in SearchActions
  BY <1>1 DEF CallTyped, HoldsOwn
<1>3. i \in Episodes => row.weight \in Int /\ freq \in Nat
  BY <1>2, IdsAssumption DEF IdsAssumption, EpisodeRow
<1>4. \/ NothingStored \/ OnlyRule \/ OnlyPitfall
      \/ i \in Episodes /\ UpdateEpisodicWeight(i, new.weight, new.freq)
  BY DEF FeedbackUpdate, UpdateSemanticWeight, UpdatePitfallWeight
<1> HIDE DEF freq, row
<1>5. i \in Episodes => new.weight \in Nat /\ new.freq \in Nat
  BY <1>2, <1>3, FeedbackTyped, Weights
<1> HIDE DEF i, new
<1> QED
  BY <1>4, <1>5, WeightMoves, NothingMoves DEF Moves

LEMMA BoostMoves ==
    ASSUME TypeInv, NEW c \in Calls, SourceBoost(c) PROVE Moves(c)
<1> DEFINE m == call[c].cur
           row == call[c].copy
<1>1. m \in Episodes => row \in EpisodeRow
  BY DEF SourceBoost, Feeding, At, TypeInv, CallsTyped, CallTyped, HoldsEpisode
<1>2. m \in Episodes => Boosted(row).weight \in Nat /\ row.freq \in Nat
  BY <1>1, BoostedTyped DEF EpisodeRow
<1>3. NothingStored \/ UpdateEpisodicWeight(m, Boosted(row).weight, row.freq)
  BY DEF SourceBoost
<1> HIDE DEF m, row
<1> QED
  BY <1>2, <1>3, WeightMoves, NothingMoves DEF Moves

LEMMA RewriteMoves ==
    ASSUME TypeInv, NEW c \in Calls, SourceSummary(c) \/ SourceTrust(c) \/ Merge(c)
    PROVE  Moves(c)
<1> DEFINE row == call[c].copy
           merged == [row EXCEPT !.weight = Full]
<1>1. HoldsEpisode(call[c]) /\ CallTyped(call[c])
  BY DEF SourceSummary, SourceTrust, Merge, Feeding, Writing, At, TypeInv, CallsTyped, HoldsEpisode
<1>2. call[c].cur \in Episodes => row \in EpisodeRow
  BY <1>1 DEF CallTyped
<1>3. /\ row \in EpisodeRow => merged \in EpisodeRow
      /\ row \in EpisodeRow => merged.stored = row.stored /\ merged.retired = row.retired
  BY Weights DEF EpisodeRow
<1>4. \/ NothingStored
      \/ WriteEpisodic(call[c].cur, row)
      \/ WriteEpisodic(call[c].cur, Trusted(row))
      \/ WriteEpisodic(call[c].cur, merged)
  BY DEF SourceSummary, SourceTrust, Merge
<1> HIDE DEF row, merged
<1>5. CASE WriteEpisodic(call[c].cur, row)
  BY <1>1, <1>2, <1>5, WriteMoves DEF SameLife, row, Moves
<1>6. CASE WriteEpisodic(call[c].cur, Trusted(row))
  BY <1>1, <1>2, <1>6, TrustedTyped, WriteMoves DEF SameLife, row, Moves
<1>7. CASE WriteEpisodic(call[c].cur, merged)
  BY <1>1, <1>2, <1>3, <1>7, WriteMoves DEF SameLife, row, Moves
<1> QED
  BY <1>4, <1>5, <1>6, <1>7, NothingMoves DEF Moves

LEMMA CreateMoves ==
    ASSUME TypeInv, NEW c \in Calls, CreateEpisode(c) PROVE Moves(c)
<1>1. CASE WriteEpisodic(call[c].id, NewEpisode)
  <2>1. episode' = [episode EXCEPT ![call[c].id] = NewEpisode]
    BY <1>1, NewRowsTyped, EpisodeWritten DEF TypeInv
  <2> QED
    BY <1>1, <2>1 DEF CreateEpisode, Created, Moves, WriteEpisodic, OnlyEpisode
<1> QED
  BY <1>1, NothingMoves DEF CreateEpisode, Moves

LEMMA GoneMoves ==
    ASSUME TypeInv, NEW c \in Calls, Retire(c) \/ DeleteUser(c) PROVE Moves(c)
<1>1. CASE MarkObsolete(call[c].id)
  BY <1>1, EpisodeRetired DEF TypeInv, OnlyAges, Moves, MarkObsolete, OnlyEpisode
<1>2. CASE DeleteEpisodicByProject /\ backend # "neo4jpg"
  BY <1>2, EpisodesDeleted DEF TypeInv, Gone, Moves, DeleteEpisodicByProject
<1> QED
  BY <1>1, <1>2, NothingMoves DEF Retire, DeleteUser, Moves, Succeeds

LEMMA EpisodeMoves ==
    ASSUME TypeInv, NEW c \in Calls, EpisodeStep(c) PROVE Moves(c)
<1>1. ASSUME TouchRead(c) \/ LookupMemory(c) \/ Trace(c) \/ SourceRead(c) \/ SearchCandidates(c)
             \/ FetchCandidate(c) \/ MatchPitfalls(c)
      PROVE  Moves(c)
  BY <1>1, NothingMoves DEF TouchRead, LookupMemory, Trace, SourceRead, SearchCandidates,
     FetchCandidate, MatchPitfalls, Moves
<1>2. ASSUME LinkRelated(c) \/ TriggerPitfall(c) \/ CountOccurrence(c)
      PROVE  Moves(c)
  BY <1>2, NothingMoves, EdgesOnly DEF LinkRelated, TriggerPitfall, CountOccurrence, TouchPitfall,
     Moves
<1>3. ASSUME LinkPool(c) PROVE Moves(c)
  BY <1>3, NothingMoves DEF LinkPool, RememberPool, Filled, Moves
<1> QED
  BY <1>1, <1>2, <1>3, TouchMoves, FeedbackMoves, BoostMoves, RewriteMoves, CreateMoves, GoneMoves
  DEF EpisodeStep

LEMMA OtherMoves ==
    ASSUME TypeInv, NEW c \in Calls, PitfallStep(c) \/ RuleStep(c) \/ RunStep(c)
    PROVE  Moves(c)
<1>1. ASSUME PitfallStep(c) PROVE NothingStored \/ OnlyPitfall
  BY <1>1 DEF PitfallStep, ConfirmPitfall, FeedbackPitfall, SingleUpdate, SuppressStatus,
     SuppressCount, SuppressWeaken, LinkRead, LinkWrite, PrepareSearch, PrepareCount,
     UpdatePitfallStatus, ApplyPitfallFeedback, AddPitfallCounters, WritePitfall
<1>2. ASSUME RuleStep(c) PROVE Untouched
  BY <1>2, NothingMoves DEF RuleStep, DetectRules, DetectList, SavePair, ResolveRead, RetireLoser,
     LinkLoser, SettleRecord, SaveRuleConflict, MarkSemanticObsolete, CreateEdge,
     ResolveRuleConflict, Untouched
<1>3. ASSUME RunStep(c) PROVE Untouched
  BY <1>3, NothingMoves DEF RunStep, Trigger, Scan, BacktestFails, SaveResult, LineStore, LineTrace,
     Store, WriteSemantic, WritePitfall, CreateEdge, SaveConsolidationRun, tables, Untouched
<1> QED
  BY <1>1, <1>2, <1>3, NothingMoves DEF Moves

-----------------------------------------------------------------------------
(* The row in a call's hand is that of a stored memory, and unless another *)
(* call wrote the memory since (then it is in raced) the table agrees with *)
(* it on whether the memory is stored and retired.                         *)

HeldFresh(c) ==
    LET r == call[c] IN
    HoldsEpisode(r) /\ r.cur \in Episodes =>
        /\ r.copy.stored
        /\ r.cur \in raced \/ SameLife(r.copy, episode[r.cur])

(* What the hot cache answers is stored.                                   *)
CacheStored == hot # NoPool => hot \subseteq {m \in Episodes : episode[m].stored}

LifeInv == (\A c \in Calls : HeldFresh(c)) /\ CacheStored

LEMMA StepKeeps ==
    ASSUME TypeInv, NEW c \in Calls, Step(c)
    PROVE  Advances(c) /\ Keeps(c) /\ raced \subseteq raced'
BY EpisodeStepTyped, PitfallStepTyped, RuleStepTyped, RunStepTyped DEF Step, Typed, Remember

(* The caller itself: it has just read the row, or goes on with it.        *)
LEMMA OwnFresh ==
    ASSUME TypeInv, NEW c \in Calls, HeldFresh(c), Step(c)
    PROVE  HeldFresh(c)'
<1> DEFINE r == call'[c]
<1> SUFFICES ASSUME HoldsEpisode(r), r.cur \in Episodes
             PROVE  r.copy.stored /\ (r.cur \in raced' \/ SameLife(r.copy, episode'[r.cur]))
  BY DEF HeldFresh
<1>1. raced \subseteq raced' /\ Keeps(c)
  BY StepKeeps
<1>2. CASE r.copy = episode[r.cur] /\ r.copy.stored /\ episode' = episode
  BY <1>2 DEF SameLife
<1>3. CASE /\ HoldsEpisode(call[c]) /\ r.cur = call[c].cur /\ SameLife(call[c].copy, r.copy)
           /\ SameLife(episode[r.cur], episode'[r.cur]) \/ episode'[r.cur] = r.copy
  BY <1>1, <1>3 DEF HeldFresh, SameLife
<1> QED
  BY <1>1, <1>2, <1>3 DEF Keeps

(* Another call: a write of the memory it holds goes to raced.             *)
LEMMA OthersFresh ==
    ASSUME TypeInv, NEW c \in Calls, NEW d \in Calls \ {c}, HeldFresh(d), Step(c)
    PROVE  HeldFresh(d)'
<1> DEFINE r == call[d]
           m == call[d].cur
<1>1. raced \subseteq raced' /\ call'[d] = r
  BY StepKeeps DEF Advances
<1> SUFFICES ASSUME HoldsEpisode(r), m \in Episodes
             PROVE  r.copy.stored /\ (m \in raced' \/ SameLife(r.copy, episode'[m]))
  BY <1>1 DEF HeldFresh
<1>2. r.copy.stored /\ (m \in raced \/ SameLife(r.copy, episode[m]))
  BY DEF HeldFresh
<1>3. CASE episode'[m] = episode[m]
  BY <1>1, <1>2, <1>3
<1>4. CASE episode'[m] # episode[m]
  <2>1. m \in WrittenRows
    BY <1>4 DEF WrittenRows, RowOf, Ids
  <2>2. r.copy \in EpisodeRow
    BY DEF TypeInv, CallsTyped, CallTyped
  <2>3. Holds(d, m)
    BY <2>2, CallsAssumption DEF CallsAssumption, Holds
  <2>4. m \in Reads(d)
    BY <2>3 DEF Reads, Ids
  <2>5. m \in raced'
    BY <2>1, <2>4 DEF Step, Remember
  <2> QED
    BY <1>2, <2>5
<1> QED
  BY <1>3, <1>4

LEMMA StepCache ==
    ASSUME TypeInv, LifeInv, NEW c \in Calls, Step(c)
    PROVE  CacheStored'
<1>0. Moves(c)
  BY EpisodeMoves, OtherMoves DEF Step
<1>1. DOMAIN episode = Episodes /\ backend' = backend
  BY DEF TypeInv, TablesTyped, Step
<1>2. CASE Untouched \/ OnlyAges
  BY <1>2 DEF Untouched, OnlyAges, LifeInv, CacheStored
<1>3. CASE WrittenBack(c)
  <2>1. call[c].cur \in Episodes => call[c].copy.stored
    BY <1>3 DEF WrittenBack, LifeInv, HeldFresh
  <2> QED
    BY <1>1, <1>3, <2>1 DEF WrittenBack, LifeInv, CacheStored, SameLife
<1>4. CASE Created(c)
  BY <1>1, <1>4, NewRowsTyped DEF Created, LifeInv, CacheStored
<1>5. CASE Gone
  BY <1>5 DEF Gone, CacheStored
<1>6. CASE Filled
  <2>1. SearchEpisodic \subseteq {m \in Episodes : episode[m].stored}
    BY <1>1 DEF SearchEpisodic, On, Sqlite!SearchEpisodic, Memory!SearchEpisodic, Memory!Active,
       Neo4j!SearchEpisodic
  <2>2. Pool \subseteq {m \in Episodes : episode[m].stored}
    BY <2>1 DEF Pool, LifeInv, CacheStored
  <2> QED
    BY <1>6, <2>2 DEF Filled, LifeInv, CacheStored
<1> QED
  BY <1>0, <1>2, <1>3, <1>4, <1>5, <1>6 DEF Moves

LEMMA LifeInit == Init => LifeInv
<1> SUFFICES ASSUME Init PROVE LifeInv
  OBVIOUS
<1>1. \A c \in Calls : ~HoldsEpisode(call[c])
  BY IdleTyped DEF Init, HoldsEpisode
<1> QED
  BY <1>1 DEF LifeInv, HeldFresh, CacheStored, Init

LEMMA LifeInductive == TypeInv /\ LifeInv /\ [Next]_vars => LifeInv'
<1> SUFFICES ASSUME TypeInv, LifeInv, [Next]_vars PROVE LifeInv'
  OBVIOUS
<1>1. CASE UNCHANGED vars
  BY <1>1 DEF vars, storeVars, tables, history, LifeInv, HeldFresh, CacheStored
<1>2. CASE Expire
  BY <1>2 DEF Expire, CacheExpires, history, LifeInv, HeldFresh, CacheStored
<1>3. ASSUME NEW c \in Calls, Step(c) PROVE LifeInv'
  <2>1. \A d \in Calls : HeldFresh(d)'
    BY <1>3, OwnFresh, OthersFresh DEF LifeInv
  <2> QED
    BY <1>3, <2>1, StepCache DEF LifeInv
<1> QED
  BY <1>1, <1>2, <1>3 DEF Next, Terminated

LEMMA Living == Spec => []LifeInv
<1>1. Init /\ []TypeInv /\ [][Next]_vars => []LifeInv
  BY LifeInit, LifeInductive, PTL
<1> QED
  BY <1>1, Typing, PTL DEF Spec

(* SQLite's hot cache never answers with a memory that is no longer        *)
(* stored: only the deletion of a user takes rows away, and it clears the  *)
(* cache in the same step.                                                 *)
THEOREM CacheAgrees == Spec => []CacheHoldsStored
<1>1. LifeInv => CacheHoldsStored
  BY DEF LifeInv, CacheStored, CacheHoldsStored
<1> QED
  BY <1>1, Living, PTL

(* A retired or deleted memory comes back only by a call that writes a row *)
(* it read before, or by the write that creates it.                        *)
THEOREM RetiredMemoriesStayOut == Spec => RetiredStaysOut
<1> DEFINE Out ==
      \A m \in Episodes : ~Active(episode[m]) /\ Active(episode[m])' =>
         m \in raced \/ \E c \in Calls : Writing(c, "create") /\ call[c].id = m
<1>1. TypeInv /\ LifeInv /\ [Next]_vars => [Out]_vars
  <2> SUFFICES ASSUME TypeInv, LifeInv, Next PROVE Out
    OBVIOUS
  <2> SUFFICES ASSUME NEW m \in Episodes, ~Active(episode[m]), Active(episode'[m])
               PROVE  m \in raced \/ \E c \in Calls : Writing(c, "create") /\ call[c].id = m
    OBVIOUS
  <2>1. episode' # episode
    OBVIOUS
  <2>2. PICK c \in Calls : Step(c)
    BY <2>1 DEF Next, Expire, CacheExpires, Terminated, vars, storeVars, tables
  <2>3. Moves(c)
    BY <2>2, EpisodeMoves, OtherMoves DEF Step
  <2>4. DOMAIN episode = Episodes
    BY DEF TypeInv, TablesTyped
  <2>5. CASE WrittenBack(c)
    BY <2>4, <2>5 DEF WrittenBack, LifeInv, HeldFresh, SameLife, Active
  <2>6. CASE Created(c)
    BY <2>4, <2>6 DEF Created
  <2>7. CASE Untouched \/ Filled \/ OnlyAges \/ Gone
    BY <2>1, <2>7 DEF Untouched, Filled, OnlyAges, Gone, Active
  <2> QED
    BY <2>3, <2>5, <2>6, <2>7 DEF Moves
<1> QED
  BY <1>1, Typing, Living, PTL DEF Spec, RetiredStaysOut

-----------------------------------------------------------------------------
(* What a step does to the verdicts on pitfalls: nothing, a decision, one  *)
(* more suppression counted, a row written back, or a new pitfall.         *)

Decides(c) == At(c, "confirm", "start") \/ At(c, "suppress", "start")
CountsKept(c) == call[c].op = "suppress" => call'[c].counted = call[c].counted

Unjudged(c) ==
    /\ \A q \in Pitfalls : SameVerdict(pitfall[q], pitfall'[q])
    /\ CountsKept(c)
    /\ Decides(c) => call'[c].outcome = "error"
Judged(c) ==
    /\ Decides(c) /\ call[c].id \in Pitfalls /\ CountsKept(c)
    /\ call'[c].outcome # "error"
    /\ \A q \in Pitfalls :
          /\ pitfall'[q].stored = pitfall[q].stored
          /\ pitfall'[q].suppressed = pitfall[q].suppressed
          /\ ~pitfall[q].stored => pitfall'[q] = pitfall[q]
          /\ pitfall[q].stored =>
               pitfall'[q].status = IF q = call[c].id THEN Decided(c) ELSE pitfall[q].status
CountedOnce(c) ==
    /\ At(c, "suppress", "count") /\ call[c].id \in Pitfalls /\ call'[c].counted = 1
    /\ \A q \in Pitfalls :
          /\ pitfall'[q].stored = pitfall[q].stored
          /\ pitfall'[q].status = pitfall[q].status
          /\ ~pitfall[q].stored => pitfall'[q] = pitfall[q]
          /\ pitfall[q].stored =>
               pitfall'[q].suppressed = pitfall[q].suppressed + IF q = call[c].id THEN 1 ELSE 0
Relinked(c) ==
    /\ Relinks(call[c]) /\ call[c].id \in Pitfalls
    /\ pitfall' = [pitfall EXCEPT ![call[c].id] = Reanchored(call[c].copy)]
Extracted(c) ==
    /\ call[c].op = "consolidate"
    /\ \E p, n : /\ p \in Pitfalls => ~pitfall[p].stored
                 /\ pitfall' = [pitfall EXCEPT ![p] = [NewPitfall EXCEPT !.occurrences = n]]

Judges(c) == Unjudged(c) \/ Judged(c) \/ CountedOnce(c) \/ Relinked(c) \/ Extracted(c)

LEMMA SameJudged ==
    ASSUME TypeInv, NEW c \in Calls, UNCHANGED pitfall, CountsKept(c),
           Decides(c) => call'[c].outcome = "error"
    PROVE  Judges(c)
BY DEF Unjudged, SameVerdict, Judges

LEMMA EpisodeJudges ==
    ASSUME TypeInv, NEW c \in Calls, backend' = backend, EpisodeStep(c)
    PROVE  Judges(c) /\ call[c].op \notin {"confirm", "suppress", "link", "prepare"}
<1>1. call[c].op \in {"touch", "feedback", "write", "retire", "delete"}
  BY DEF EpisodeStep, TouchRead, TouchUpdate, LookupMemory, FeedbackUpdate, Trace, SourceRead,
     SourceBoost, SourceSummary, SourceTrust, SearchCandidates, FetchCandidate, Merge,
     CreateEpisode, LinkPool, LinkRelated, MatchPitfalls, TriggerPitfall, CountOccurrence,
     Retire, DeleteUser, Touching, Feeding, Writing, At
<1>2. ~Decides(c) /\ CountsKept(c)
  BY <1>1 DEF Decides, CountsKept, At
<1>3. ASSUME FeedbackUpdate(c) PROVE \A q \in Pitfalls : SameVerdict(pitfall[q], pitfall'[q])
  <2> DEFINE i == call[c].id
             row == call[c].copy
             freq == IF i \in Pitfalls THEN Full ELSE row.freq
             new == ApplyFeedback(row.weight, freq, call[c].arg)
  <2>1. \/ UNCHANGED pitfall
        \/ /\ i \in Pitfalls /\ UpdatePitfallWeight(i, new.weight)
           /\ ~UpdateRefused(RowOf(i))
    BY <1>3 DEF FeedbackUpdate, NothingStored, tables, UpdateEpisodicWeight, OnlyEpisode,
       UpdateSemanticWeight, OnlyRule, Succeeds
  <2>2. ASSUME i \in Pitfalls PROVE new.weight \in 0..Full /\ RowOf(i) = pitfall[i]
    <3>1. row \in PitfallRow /\ call[c].arg \in SearchActions
      BY <1>3, <2>2 DEF FeedbackUpdate, Feeding, At, TypeInv, CallsTyped, CallTyped, HoldsOwn
    <3>2. row.weight \in Int /\ freq \in Nat
      BY <2>2, <3>1, Weights DEF PitfallRow
    <3>3. RowOf(i) = pitfall[i]
      BY <2>2, IdsAssumption DEF IdsAssumption, RowOf
    <3> HIDE DEF row, freq
    <3> QED
      BY <3>1, <3>2, <3>3, FeedbackTyped
  <2> HIDE DEF new, i
  <2>3. CASE UNCHANGED pitfall
    BY <2>3 DEF SameVerdict
  <2>4. CASE i \in Pitfalls /\ UpdatePitfallWeight(i, new.weight) /\ ~UpdateRefused(RowOf(i))
    BY <2>2, <2>4, PitfallReweighed DEF TypeInv
  <2> QED
    BY <2>1, <2>3, <2>4
<1>4. ASSUME CountOccurrence(c) PROVE \A q \in Pitfalls : SameVerdict(pitfall[q], pitfall'[q])
  <2>1. CASE UNCHANGED pitfall
    BY <2>1 DEF SameVerdict
  <2>2. CASE ~UpdateRefused(pitfall[call[c].cur]) /\ TouchPitfall(call[c].cur)
    BY <2>2, PitfallTouched DEF TypeInv
  <2> QED
    BY <1>4, <2>1, <2>2 DEF CountOccurrence, Succeeds, NothingStored, tables
<1>5. ASSUME ~FeedbackUpdate(c), ~CountOccurrence(c) PROVE UNCHANGED pitfall
  BY <1>5 DEF EpisodeStep, TouchRead, TouchUpdate, LookupMemory, Trace, SourceRead,
     SourceBoost, SourceSummary, SourceTrust, SearchCandidates, FetchCandidate, Merge,
     CreateEpisode, LinkPool, LinkRelated, MatchPitfalls, TriggerPitfall, Retire, DeleteUser,
     NothingStored, tables, UpdateEpisodicWeight, WriteEpisodic, OnlyEpisode, RememberPool,
     CreateEdge, OnlyEdges, MarkObsolete, DeleteEpisodicByProject
<1> QED
  BY <1>1, <1>2, <1>3, <1>4, <1>5, SameJudged DEF Unjudged, Judges

LEMMA RuleJudges ==
    ASSUME TypeInv, NEW c \in Calls, RuleStep(c)
    PROVE  Judges(c) /\ call[c].op \notin {"confirm", "suppress", "link", "prepare"}
<1>1. call[c].op \in {"detect", "resolve"}
  BY DEF RuleStep, DetectRules, DetectList, SavePair, ResolveRead, RetireLoser, LinkLoser,
     SettleRecord, Detecting, Deciding, At
<1>2. UNCHANGED pitfall
  BY DEF RuleStep, DetectRules, DetectList, SavePair, ResolveRead, RetireLoser, LinkLoser,
     SettleRecord, NothingStored, tables, SaveRuleConflict, MarkSemanticObsolete, OnlyRule,
     CreateEdge, OnlyEdges, ResolveRuleConflict
<1> QED
  BY <1>1, <1>2, SameJudged DEF Decides, CountsKept, At

LEMMA RunJudges ==
    ASSUME TypeInv, NEW c \in Calls, RunStep(c)
    PROVE  Judges(c) /\ call[c].op = "consolidate"
<1>1. call[c].op = "consolidate"
  BY DEF RunStep, Trigger, Scan, BacktestFails, SaveResult, LineStore, LineTrace, Working, Run, At
<1>2. ASSUME NEW k \in Kinds, LineStore(c, k) PROVE UNCHANGED pitfall \/ Extracted(c)
  <2>1. CASE NothingStored
    BY <2>1 DEF NothingStored, tables
  <2>2. ASSUME NEW sources \in line[c][k].todo, Store(k, FreshId(k), sources)
        PROVE  UNCHANGED pitfall \/ Extracted(c)
    <3>1. CASE k = "rule"
      BY <2>2, <3>1 DEF Store, WriteSemantic, OnlyRule
    <3>2. CASE k # "rule"
      <4> DEFINE p == FreshId(k)
                 row == [NewPitfall EXCEPT !.occurrences = Cardinality(sources)]
      <4>1. Fresh(k) # {} /\ Fresh(k) = {q \in Pitfalls : ~pitfall[q].stored}
        BY <1>2, <3>2 DEF LineStore, Fresh
      <4>2. p \in Fresh(k)
        BY <4>1 DEF FreshId
      <4>3. WritePitfall(p, row)
        BY <2>2, <3>2 DEF Store
      <4>4. row.status \in Statuses /\ row = [row EXCEPT !.status = row.status]
        BY DEF NewPitfall, NoPitfall, Statuses
      <4>5. Sqlite!Normalize(row.status) = row.status /\ Neo4j!Normalize(row.status) = row.status
        BY <4>4 DEF Sqlite!Normalize, Neo4j!Normalize, Sqlite!Statuses, Neo4j!Statuses, Statuses
      <4> HIDE DEF p, row
      <4>6. pitfall' = [pitfall EXCEPT ![p] = row]
        BY <4>3, <4>4, <4>5 DEF WritePitfall, On, Sqlite!WritePitfall, Memory!WritePitfall,
           Neo4j!WritePitfall
      <4> QED
        BY <1>1, <4>1, <4>2, <4>6 DEF Extracted, row
    <3> QED
      BY <3>1, <3>2
  <2> QED
    BY <1>2, <2>1, <2>2 DEF LineStore
<1>3. ASSUME \A k \in Kinds : ~LineStore(c, k) PROVE UNCHANGED pitfall
  BY <1>3 DEF RunStep, Trigger, Scan, BacktestFails, SaveResult, LineTrace, NothingStored, tables,
     CreateEdge, OnlyEdges, SaveConsolidationRun
<1> QED
  BY <1>1, <1>2, <1>3, SameJudged DEF Decides, CountsKept, At, Judges

(* A suppression not yet counted.                                          *)
Uncounted(c) ==
    call[c].op = "suppress" /\ call[c].pc \in {"start", "count"} =>
        call[c].counted = 0 /\ call[c].outcome = "none"

LEMMA EndKeeps ==
    ASSUME TypeInv, NEW c \in Calls, NEW o, End(c, o)
    PROVE  /\ call'[c].counted = call[c].counted /\ call'[c].found = call[c].found
           /\ call'[c].outcome = o /\ call'[c].pc = "done"
BY DEF TypeInv, CallsTyped, CallTyped, End, Ended, Fields

LEMMA FailedJudges ==
    ASSUME TypeInv, NEW c \in Calls, NothingStored, End(c, "error")
    PROVE  Judges(c)
BY EndKeeps, SameJudged DEF NothingStored, tables, CountsKept

LEMMA ConfirmJudges ==
    ASSUME TypeInv, NEW c \in Calls, backend' = backend, ConfirmPitfall(c) PROVE Judges(c)
<1> DEFINE p == call[c].id
<1>1. CASE /\ ~UpdateRefused(pitfall[p]) /\ UpdatePitfallStatus(p, "confirmed") /\ End(c, "ok")
  <2>1. p \in Pitfalls /\ Decides(c) /\ Decided(c) = "confirmed" /\ call[c].op = "confirm"
    BY DEF ConfirmPitfall, OnPitfall, At, Decides, Decided
  <2>2. \A q \in Pitfalls :
          /\ pitfall'[q].stored = pitfall[q].stored
          /\ pitfall'[q].suppressed = pitfall[q].suppressed
          /\ ~pitfall[q].stored => pitfall'[q] = pitfall[q]
          /\ pitfall[q].stored =>
               pitfall'[q].status = IF q = p THEN "confirmed" ELSE pitfall[q].status
    BY <1>1, PitfallJudged DEF TypeInv
  <2> QED
    BY <1>1, <2>1, <2>2, EndKeeps DEF Judged, Judges, CountsKept
<1> QED
  BY <1>1, FailedJudges DEF ConfirmPitfall, SingleUpdate, Succeeds

LEMMA SuppressJudges ==
    ASSUME TypeInv, NEW c \in Calls, backend' = backend, Uncounted(c), SuppressStatus(c)
    PROVE  Judges(c)
<1> DEFINE p == call[c].id
<1>1. CASE /\ ~UpdateRefused(pitfall[p]) /\ UpdatePitfallStatus(p, "suppressed")
           /\ Goto(c, "count")
  <2>1. p \in Pitfalls /\ Decides(c) /\ Decided(c) = "suppressed"
    BY DEF SuppressStatus, OnPitfall, At, Decides, Decided
  <2>2. \A q \in Pitfalls :
          /\ pitfall'[q].stored = pitfall[q].stored
          /\ pitfall'[q].suppressed = pitfall[q].suppressed
          /\ ~pitfall[q].stored => pitfall'[q] = pitfall[q]
          /\ pitfall[q].stored =>
               pitfall'[q].status = IF q = p THEN "suppressed" ELSE pitfall[q].status
    BY <1>1, PitfallJudged DEF TypeInv
  <2>3. call'[c].outcome = call[c].outcome /\ call'[c].counted = call[c].counted
    BY <1>1 DEF Goto, TypeInv, CallsTyped, CallTyped, Fields
  <2>4. call[c].outcome = "none"
    BY DEF Uncounted, SuppressStatus, OnPitfall, At
  <2> QED
    BY <2>1, <2>2, <2>3, <2>4 DEF Judged, Judges, CountsKept
<1> QED
  BY <1>1, FailedJudges DEF SuppressStatus, Succeeds

LEMMA CountJudges ==
    ASSUME TypeInv, NEW c \in Calls, backend' = backend, SuppressCount(c)
    PROVE  Judges(c)
<1> DEFINE p == call[c].id
<1>1. CASE /\ ~UpdateRefused(pitfall[p]) /\ AddPitfallCounters(p, 0, 1)
           /\ call' = [call EXCEPT ![c].pc = "weaken", ![c].counted = 1]
  <2>1. p \in Pitfalls /\ At(c, "suppress", "count")
    BY DEF SuppressCount, OnPitfall
  <2>2. \A q \in Pitfalls :
          /\ pitfall'[q].stored = pitfall[q].stored
          /\ pitfall'[q].status = pitfall[q].status
          /\ ~pitfall[q].stored => pitfall'[q] = pitfall[q]
          /\ pitfall[q].stored =>
               pitfall'[q].suppressed = pitfall[q].suppressed + IF q = p THEN 1 ELSE 0
    BY <1>1, PitfallCounted DEF TypeInv
  <2>3. call'[c].counted = 1
    BY <1>1 DEF TypeInv, CallsTyped, CallTyped, Fields
  <2> QED
    BY <2>1, <2>2, <2>3 DEF CountedOnce, Judges
<1> QED
  BY <1>1, FailedJudges DEF SuppressCount, Succeeds

LEMMA RateJudges ==
    ASSUME TypeInv, NEW c \in Calls, backend' = backend, FeedbackPitfall(c) \/ SuppressWeaken(c)
    PROVE  Judges(c)
<1> DEFINE p == call[c].id
<1>1. ~Decides(c)
  BY DEF FeedbackPitfall, SuppressWeaken, OnPitfall, At, Decides
<1>2. End(c, "ok") \/ End(c, "error")
  BY DEF FeedbackPitfall, SingleUpdate, SuppressWeaken
<1>3. CountsKept(c)
  BY <1>2, EndKeeps DEF CountsKept
<1>4. CASE NothingStored
  BY <1>1, <1>3, <1>4, SameJudged DEF NothingStored, tables
<1>5. ASSUME NEW a \in PitfallFeedbackActions, ~UpdateRefused(pitfall[p]),
             ApplyPitfallFeedback(p, a)
      PROVE  Judges(c)
  BY <1>1, <1>3, <1>5, PitfallRated DEF TypeInv, Unjudged, Judges
<1>6. /\ "ignored" \in PitfallFeedbackActions
      /\ FeedbackPitfall(c) => call[c].arg \in PitfallFeedbackActions
  BY DEF PitfallFeedbackActions, FeedbackPitfall, OnPitfall, At, TypeInv, CallsTyped, CallTyped
<1> QED
  BY <1>4, <1>5, <1>6 DEF FeedbackPitfall, SingleUpdate, SuppressWeaken, Succeeds

LEMMA LinkJudges ==
    ASSUME TypeInv, NEW c \in Calls, backend' = backend, LinkRead(c) \/ LinkWrite(c)
    PROVE  Judges(c)
<1>1. ~Decides(c) /\ CountsKept(c)
  BY DEF LinkRead, LinkWrite, OnPitfall, At, Decides, CountsKept
<1>2. CASE NothingStored
  BY <1>1, <1>2, SameJudged DEF NothingStored, tables
<1>3. CASE LinkWrite(c) /\ WritePitfall(call[c].id, Reanchored(call[c].copy))
  <2> DEFINE row == call[c].copy
  <2>1. call[c].id \in Pitfalls /\ Relinks(call[c])
    BY <1>3 DEF LinkWrite, OnPitfall, At, Relinks
  <2>2. row \in PitfallRow /\ Bounded(row)
    BY <2>1 DEF TypeInv, CallsTyped, CallTyped
  <2>3. Reanchored(row) \in PitfallRow /\ Bounded(Reanchored(row))
    BY <2>2 DEF PitfallRow, Bounded, Reanchored
  <2>4. pitfall' = [pitfall EXCEPT ![call[c].id] = Reanchored(row)]
    BY <1>3, <2>3, PitfallWritten DEF TypeInv
  <2> QED
    BY <2>1, <2>4 DEF Relinked, Judges
<1> QED
  BY <1>2, <1>3 DEF LinkRead, LinkWrite

LEMMA PrepareJudges ==
    ASSUME TypeInv, NEW c \in Calls, backend' = backend, PrepareSearch(c) \/ PrepareCount(c)
    PROVE  Judges(c)
<1>1. ~Decides(c) /\ CountsKept(c)
  BY DEF PrepareSearch, PrepareCount, At, Decides, CountsKept
<1>2. CASE NothingStored
  BY <1>1, <1>2, SameJudged DEF NothingStored, tables
<1>3. ASSUME NEW p, ~UpdateRefused(pitfall[p]), AddPitfallCounters(p, 1, 0)
      PROVE  Judges(c)
  <2>1. \A q \in Pitfalls :
          /\ pitfall'[q].stored = pitfall[q].stored
          /\ pitfall'[q].status = pitfall[q].status
          /\ ~pitfall[q].stored => pitfall'[q] = pitfall[q]
          /\ pitfall[q].stored =>
               pitfall'[q].suppressed = pitfall[q].suppressed + IF q = p THEN 0 ELSE 0
    BY <1>3, PitfallCounted DEF TypeInv
  <2>2. \A q \in Pitfalls : pitfall[q].suppressed \in Nat
    BY DEF TypeInv, TablesTyped, PitfallsTyped, PitfallRow
  <2>3. \A q \in Pitfalls : SameVerdict(pitfall[q], pitfall'[q])
    BY <2>1, <2>2 DEF SameVerdict
  <2> QED
    BY <1>1, <2>3 DEF Unjudged, Judges
<1> QED
  BY <1>2, <1>3 DEF PrepareSearch, PrepareCount, Succeeds

LEMMA StepJudges ==
    ASSUME TypeInv, NEW c \in Calls, Uncounted(c), Step(c)
    PROVE  Judges(c)
<1>1. ASSUME PitfallStep(c), backend' = backend PROVE Judges(c)
  BY <1>1, ConfirmJudges, SuppressJudges, CountJudges, RateJudges, LinkJudges, PrepareJudges
  DEF PitfallStep
<1> QED
  BY <1>1, EpisodeJudges, RuleJudges, RunJudges DEF Step

(* Unless a call wrote p back from a row read before (p is then in raced), *)
(* p has the status last decided and counts the suppressions; a pitfall    *)
(* not stored yet awaits its extraction as proposed.                       *)
Stands(p) ==
    /\ ~pitfall[p].stored => pitfall[p] = NoPitfall /\ verdict[p] = "proposed"
    /\ p \notin raced => pitfall[p].status = verdict[p] /\ pitfall[p].suppressed = Suppressions(p)

(* Only stored pitfalls are judged, and they stay stored.                  *)
Targets(c) ==
    call[c].op \in {"confirm", "suppress", "link"} =>
        call[c].id \in Pitfalls /\ pitfall[call[c].id].stored

(* The row a re-anchoring will write back.                                 *)
LinkFresh(c) ==
    LET r == call[c] IN
    Relinks(r) =>
        /\ r.copy.stored
        /\ r.id \in raced \/ /\ r.copy.status = pitfall[r.id].status
                             /\ r.copy.suppressed = pitfall[r.id].suppressed

JudgeInv ==
    /\ verdict = [p \in Pitfalls |-> verdict[p]]
    /\ \A p \in Pitfalls : Stands(p)
    /\ \A c \in Calls : Uncounted(c) /\ Targets(c) /\ LinkFresh(c)

SuppressedBy(p) == {c \in Calls : call[c].op = "suppress" /\ call[c].id = p /\ call[c].counted = 1}

LEMMA SuppressionsKept ==
    ASSUME NEW c \in Calls, Advances(c), CountsKept(c), NEW p
    PROVE  Suppressions(p)' = Suppressions(p)
<1>1. \A d \in Calls : /\ call'[d].op = call[d].op /\ call'[d].id = call[d].id
                       /\ call[d].op = "suppress" => call'[d].counted = call[d].counted
  BY DEF Advances, CountsKept
<1>2. SuppressedBy(p)' = SuppressedBy(p)
  BY <1>1 DEF SuppressedBy
<1> QED
  BY <1>2 DEF Suppressions, SuppressedBy

LEMMA SuppressionsGrow ==
    ASSUME NEW c \in Calls, Advances(c), CountedOnce(c), Uncounted(c), NEW p
    PROVE  Suppressions(p)' = Suppressions(p) + IF p = call[c].id THEN 1 ELSE 0
<1>1. \A d \in Calls \ {c} : call'[d] = call[d]
  BY DEF Advances
<1>2. /\ call'[c].op = "suppress" /\ call'[c].id = call[c].id /\ call'[c].counted = 1
      /\ call[c].op = "suppress" /\ call[c].counted = 0
  BY DEF Advances, CountedOnce, Uncounted, At
<1>3. c \notin SuppressedBy(p)
  BY <1>2 DEF SuppressedBy
<1>4. SuppressedBy(p)' = IF p = call[c].id THEN SuppressedBy(p) \cup {c} ELSE SuppressedBy(p)
  BY <1>1, <1>2 DEF SuppressedBy
<1>5. IsFiniteSet(SuppressedBy(p))
  BY CallsAssumption, FS_Subset DEF CallsAssumption, SuppressedBy
<1>6. Cardinality(SuppressedBy(p) \cup {c}) = Cardinality(SuppressedBy(p)) + 1
  BY <1>3, <1>5, FS_AddElement
<1>7. Cardinality(SuppressedBy(p)) \in Nat
  BY <1>5, FS_CardinalityType
<1>8. /\ Suppressions(p) = Cardinality(SuppressedBy(p))
      /\ Suppressions(p)' = Cardinality(SuppressedBy(p)')
  BY DEF Suppressions, SuppressedBy
<1> QED
  BY <1>4, <1>6, <1>7, <1>8

LEMMA NoSuppressions ==
    ASSUME JudgeInv, NEW p \in Pitfalls, ~pitfall[p].stored
    PROVE  Suppressions(p) = 0
<1>1. SuppressedBy(p) = {}
  BY DEF JudgeInv, Targets, SuppressedBy
<1> QED
  BY <1>1, FS_EmptySet DEF Suppressions, SuppressedBy

LEMMA OwnUncounted ==
    ASSUME TypeInv, NEW c \in Calls, Uncounted(c), Step(c)
    PROVE  Uncounted(c)'
<1>1. call'[c].op = call[c].op
  BY StepKeeps DEF Advances
<1> SUFFICES ASSUME call[c].op = "suppress" PROVE Uncounted(c)'
  BY <1>1 DEF Uncounted
<1>2. PitfallStep(c)
  BY EpisodeJudges, RuleJudges, RunJudges DEF Step
<1>3. SuppressStatus(c) \/ SuppressCount(c) \/ SuppressWeaken(c)
  BY <1>2 DEF PitfallStep, ConfirmPitfall, FeedbackPitfall, LinkRead, LinkWrite, PrepareSearch,
     PrepareCount, OnPitfall, At
<1>4. CASE End(c, "ok") \/ End(c, "error")
  BY <1>4, EndKeeps DEF Uncounted
<1>5. CASE SuppressStatus(c) /\ Goto(c, "count")
  <2>1. call'[c].counted = call[c].counted /\ call'[c].outcome = call[c].outcome
    BY <1>5 DEF Goto, TypeInv, CallsTyped, CallTyped, Fields
  <2> QED
    BY <1>5, <2>1 DEF Uncounted, SuppressStatus, OnPitfall, At
<1>6. CASE call' = [call EXCEPT ![c].pc = "weaken", ![c].counted = 1]
  BY <1>6 DEF Uncounted, TypeInv, CallsTyped, CallTyped, Fields
<1> QED
  BY <1>3, <1>4, <1>5, <1>6 DEF SuppressStatus, SuppressCount, SuppressWeaken

LEMMA OwnLinkFresh ==
    ASSUME TypeInv, NEW c \in Calls, Step(c)
    PROVE  LinkFresh(c)'
<1>1. call'[c].op = call[c].op
  BY StepKeeps DEF Advances
<1> SUFFICES ASSUME call[c].op = "link" PROVE LinkFresh(c)'
  BY <1>1 DEF LinkFresh, Relinks
<1>2. PitfallStep(c)
  BY EpisodeJudges, RuleJudges, RunJudges DEF Step
<1>3. LinkRead(c) \/ LinkWrite(c)
  BY <1>2 DEF PitfallStep, ConfirmPitfall, FeedbackPitfall, SuppressStatus, SuppressCount,
     SuppressWeaken, PrepareSearch, PrepareCount, OnPitfall, At
<1>4. CASE End(c, "ok") \/ End(c, "error")
  BY <1>4, EndKeeps DEF LinkFresh, Relinks
<1>5. CASE LinkRead(c) /\ pitfall[call[c].id].stored
           /\ call' = [call EXCEPT ![c].pc = "write", ![c].copy = pitfall[call[c].id],
                                   ![c].cur = call[c].id]
  <2>1. pitfall' = pitfall
    BY <1>5 DEF LinkRead, NothingStored, tables
  <2>2. call'[c].copy = pitfall[call[c].id] /\ call'[c].id = call[c].id
    BY <1>5 DEF TypeInv, CallsTyped, CallTyped, Fields
  <2> QED
    BY <1>5, <2>1, <2>2 DEF LinkFresh
<1> QED
  BY <1>3, <1>4, <1>5 DEF LinkRead, LinkWrite, Succeeds

LEMMA OthersLinkFresh ==
    ASSUME TypeInv, NEW c \in Calls, NEW d \in Calls \ {c}, LinkFresh(d), Targets(d), Step(c)
    PROVE  LinkFresh(d)'
<1> DEFINE r == call[d]
           p == call[d].id
<1>1. raced \subseteq raced' /\ call'[d] = r
  BY StepKeeps DEF Advances
<1> SUFFICES ASSUME Relinks(r)
             PROVE  /\ r.copy.stored
                    /\ p \in raced' \/ /\ r.copy.status = pitfall'[p].status
                                       /\ r.copy.suppressed = pitfall'[p].suppressed
  BY <1>1 DEF LinkFresh
<1>2. CASE pitfall'[p] = pitfall[p]
  BY <1>1, <1>2 DEF LinkFresh
<1>3. CASE pitfall'[p] # pitfall[p]
  <2>1. p \in Pitfalls /\ r.cur = p
    BY DEF Targets, Relinks, TypeInv, CallsTyped, CallTyped
  <2>2. r.copy \in PitfallRow
    BY <2>1 DEF TypeInv, CallsTyped, CallTyped
  <2>3. p \notin Episodes /\ p \notin Rules /\ p \in Ids
    BY <2>1, IdsAssumption DEF IdsAssumption, Ids
  <2>4. p \in WrittenRows
    BY <1>3, <2>3 DEF WrittenRows, RowOf
  <2>5. p \in Reads(d)
    BY <2>1, <2>2, <2>3, CallsAssumption DEF CallsAssumption, Reads, Holds
  <2>6. p \in raced'
    BY <2>4, <2>5 DEF Step, Remember
  <2> QED
    BY <2>6 DEF LinkFresh
<1> QED
  BY <1>2, <1>3

(* The verdict moves with a decision that did not fail, and only then.     *)
LEMMA VerdictMoves ==
    ASSUME TypeInv, JudgeInv, NEW c \in Calls, Step(c)
    PROVE  /\ verdict' = [p \in Pitfalls |-> verdict'[p]]
           /\ ~Decides(c) \/ call'[c].outcome = "error" => verdict' = verdict
           /\ Judged(c) => \A p \in Pitfalls :
                 verdict'[p] = IF p = call[c].id THEN Decided(c) ELSE verdict[p]
<1>1. verdict' = IF /\ call[c].id \in Pitfalls
                    /\ pitfall[call[c].id].stored
                    /\ call'[c].outcome # "error"
                 THEN [verdict EXCEPT ![call[c].id] = Decided(c)] ELSE verdict
  BY DEF Step, Remember
<1>2. verdict = [p \in Pitfalls |-> verdict[p]]
  BY DEF JudgeInv
<1>3. ~Decides(c) => Decided(c) = verdict[call[c].id]
  BY Zenon DEF Decides, Decided
<1>4. Judged(c) => /\ call[c].id \in Pitfalls /\ pitfall[call[c].id].stored
                   /\ call'[c].outcome # "error"
  BY DEF Judged, Decides, At, JudgeInv, Targets
<1>5. verdict' = [p \in Pitfalls |-> verdict'[p]]
  BY <1>1, <1>2
<1>6. ASSUME ~Decides(c) \/ call'[c].outcome = "error" PROVE verdict' = verdict
  BY <1>1, <1>2, <1>3, <1>6
<1>7. ASSUME Judged(c), NEW p \in Pitfalls
      PROVE  verdict'[p] = IF p = call[c].id THEN Decided(c) ELSE verdict[p]
  BY <1>1, <1>2, <1>4, <1>7
<1> QED
  BY <1>5, <1>6, <1>7

(* No step takes a pitfall away.                                           *)
LEMMA PitfallsKept ==
    ASSUME TypeInv, JudgeInv, NEW c \in Calls, Judges(c), NEW p \in Pitfalls, pitfall[p].stored
    PROVE  pitfall'[p].stored
<1>1. pitfall[p] \in PitfallRow /\ DOMAIN pitfall = Pitfalls
  BY DEF TypeInv, TablesTyped, PitfallsTyped
<1>2. CASE Unjudged(c) \/ Judged(c) \/ CountedOnce(c)
  BY <1>2 DEF Unjudged, SameVerdict, Judged, CountedOnce
<1>3. CASE Relinked(c)
  <2>1. call[c].copy \in PitfallRow /\ call[c].copy.stored
    BY <1>3 DEF Relinked, TypeInv, CallsTyped, CallTyped, Relinks, JudgeInv, LinkFresh
  <2>2. Reanchored(call[c].copy).stored
    BY <2>1 DEF Reanchored, PitfallRow
  <2> QED
    BY <1>1, <1>3, <2>2 DEF Relinked
<1>4. CASE Extracted(c)
  BY <1>1, <1>4 DEF Extracted
<1> QED
  BY <1>2, <1>3, <1>4 DEF Judges

LEMMA StandsKept ==
    ASSUME TypeInv, JudgeInv, NEW c \in Calls, Step(c), NEW p \in Pitfalls
    PROVE  Stands(p)'
<1>1. Judges(c) /\ Advances(c) /\ raced \subseteq raced'
  BY StepJudges, StepKeeps DEF JudgeInv
<1>2. Stands(p) /\ Uncounted(c)
  BY DEF JudgeInv
<1>3. pitfall[p] \in PitfallRow /\ DOMAIN pitfall = Pitfalls
  BY DEF TypeInv, TablesTyped, PitfallsTyped
<1>4. CASE Unjudged(c)
  <2>1. Suppressions(p)' = Suppressions(p) /\ verdict' = verdict
    BY <1>1, <1>4, SuppressionsKept, VerdictMoves DEF Unjudged
  <2> QED
    BY <1>1, <1>2, <1>4, <2>1 DEF Unjudged, SameVerdict, Stands
<1>5. CASE Judged(c)
  <2>1. /\ Suppressions(p)' = Suppressions(p)
        /\ verdict'[p] = IF p = call[c].id THEN Decided(c) ELSE verdict[p]
    BY <1>1, <1>5, SuppressionsKept, VerdictMoves DEF Judged
  <2>2. p = call[c].id => pitfall[p].stored
    BY <1>5 DEF Judged, Decides, At, JudgeInv, Targets
  <2>3. /\ pitfall'[p].stored = pitfall[p].stored
        /\ pitfall'[p].suppressed = pitfall[p].suppressed
        /\ ~pitfall[p].stored => pitfall'[p] = pitfall[p]
        /\ pitfall[p].stored =>
             pitfall'[p].status = IF p = call[c].id THEN Decided(c) ELSE pitfall[p].status
    BY <1>5 DEF Judged
  <2> HIDE DEF Decided
  <2> QED
    BY <1>1, <1>2, <2>1, <2>2, <2>3 DEF Stands
<1>6. CASE CountedOnce(c)
  <2>1. ~Decides(c)
    BY <1>6 DEF CountedOnce, Decides, At
  <2>2. /\ Suppressions(p)' = Suppressions(p) + IF p = call[c].id THEN 1 ELSE 0
        /\ verdict' = verdict
    BY <1>1, <1>2, <1>6, <2>1, SuppressionsGrow, VerdictMoves
  <2>3. p = call[c].id => pitfall[p].stored
    BY <1>6 DEF CountedOnce, At, JudgeInv, Targets
  <2>4. /\ pitfall'[p].stored = pitfall[p].stored
        /\ pitfall'[p].status = pitfall[p].status
        /\ ~pitfall[p].stored => pitfall'[p] = pitfall[p]
        /\ pitfall[p].stored =>
             pitfall'[p].suppressed = pitfall[p].suppressed + IF p = call[c].id THEN 1 ELSE 0
    BY <1>6 DEF CountedOnce
  <2>5. pitfall[p].suppressed \in Nat
    BY <1>3 DEF PitfallRow
  <2>6. ~pitfall[p].stored => Suppressions(p)' = Suppressions(p)
    <3>1. ~pitfall[p].stored => Suppressions(p) = 0
      BY NoSuppressions
    <3> QED
      BY <2>2, <2>3, <3>1
  <2> QED
    BY <1>1, <1>2, <2>2, <2>4, <2>5, <2>6 DEF Stands
<1>7. CASE Relinked(c)
  <2>1. /\ CountsKept(c) /\ ~Decides(c)
    BY <1>7 DEF Relinked, Relinks, CountsKept, Decides, At
  <2>2. Suppressions(p)' = Suppressions(p) /\ verdict' = verdict
    BY <1>1, <2>1, SuppressionsKept, VerdictMoves
  <2>3. CASE p # call[c].id
    BY <1>1, <1>2, <1>3, <1>7, <2>2, <2>3 DEF Relinked, Stands
  <2>4. CASE p = call[c].id
    <3> DEFINE row == call[c].copy
    <3>1. row \in PitfallRow /\ row.stored
      BY <1>7 DEF Relinked, TypeInv, CallsTyped, CallTyped, Relinks, JudgeInv, LinkFresh
    <3>2. /\ Reanchored(row).stored /\ Reanchored(row).status = row.status
          /\ Reanchored(row).suppressed = row.suppressed
      BY <3>1 DEF Reanchored, PitfallRow
    <3>3. pitfall'[p] = Reanchored(row)
      BY <1>3, <1>7, <2>4 DEF Relinked
    <3>4. p \notin raced => row.status = pitfall[p].status /\ row.suppressed = pitfall[p].suppressed
      BY <1>7, <2>4 DEF Relinked, JudgeInv, LinkFresh
    <3> HIDE DEF row
    <3> QED
      BY <1>1, <1>2, <2>2, <3>2, <3>3, <3>4 DEF Stands
  <2> QED
    BY <2>3, <2>4
<1>8. CASE Extracted(c)
  <2>1. CountsKept(c) /\ ~Decides(c)
    BY <1>8 DEF Extracted, CountsKept, Decides, At
  <2>2. Suppressions(p)' = Suppressions(p) /\ verdict' = verdict
    BY <1>1, <2>1, SuppressionsKept, VerdictMoves
  <2>3. PICK q, n : /\ q \in Pitfalls => ~pitfall[q].stored
                    /\ pitfall' = [pitfall EXCEPT ![q] = [NewPitfall EXCEPT !.occurrences = n]]
    BY <1>8 DEF Extracted
  <2>4. CASE p # q
    BY <1>1, <1>2, <1>3, <2>2, <2>3, <2>4 DEF Stands
  <2>5. CASE p = q
    <3>1. Suppressions(p) = 0 /\ verdict[p] = "proposed"
      BY <1>2, <2>3, <2>5, NoSuppressions DEF Stands
    <3>2. pitfall'[p] = [NewPitfall EXCEPT !.occurrences = n]
      BY <1>3, <2>3, <2>5
    <3>3. /\ pitfall'[p].stored /\ pitfall'[p].status = "proposed"
          /\ pitfall'[p].suppressed = 0
      BY <3>2 DEF NewPitfall, NoPitfall
    <3> QED
      BY <2>2, <3>1, <3>3 DEF Stands
  <2> QED
    BY <2>4, <2>5
<1> QED
  BY <1>1, <1>4, <1>5, <1>6, <1>7, <1>8 DEF Judges

LEMMA JudgeInit == Init => JudgeInv
<1> SUFFICES ASSUME Init PROVE JudgeInv
  OBVIOUS
<1>1. PICK w \in Workloads : call = w.calls /\ pitfall = w.pitfall
  BY DEF Init
<1>2. verdict = [p \in Pitfalls |-> pitfall[p].status]
  BY DEF Init
<1>3. \A c \in Calls : IsRequest(call[c], w)
  BY <1>1, WorkloadsAssumption DEF WorkloadsAssumption
<1>4. \A c \in Calls : call[c] = Idle(call[c].op, call[c].id, call[c].arg) \/ call[c].op = "none"
  BY <1>3 DEF IsRequest, Ended, Idle
<1> DEFINE Waits(r) == r.pc = "start" /\ r.counted = 0 /\ r.outcome = "none"
<1>5. ASSUME NEW op, NEW id, NEW arg PROVE Waits(Idle(op, id, arg))
  BY DEF Idle
<1> HIDE DEF Waits
<1>6. \A c \in Calls : Waits(call[c]) \/ call[c].op = "none"
  BY <1>4, <1>5
<1>7. \A c \in Calls : Uncounted(c) /\ LinkFresh(c)
  BY <1>6 DEF Uncounted, LinkFresh, Relinks, Waits
<1>8. \A c \in Calls : Targets(c)
  BY <1>1, <1>3 DEF Targets, IsRequest, Ended, Idle
<1>9. ASSUME NEW p \in Pitfalls PROVE Stands(p)
  <2>1. SuppressedBy(p) = {}
    <3>1. ASSUME NEW c \in Calls, call[c].op = "suppress" PROVE call[c].counted = 0
      BY <1>6, <3>1 DEF Waits
    <3> QED
      BY <3>1 DEF SuppressedBy
  <2>2. Suppressions(p) = 0
    BY <2>1, FS_EmptySet DEF Suppressions, SuppressedBy
  <2>3. pitfall[p].suppressed = 0 /\ (~pitfall[p].stored => pitfall[p] = NoPitfall)
    BY <1>1, WorkloadsAssumption DEF WorkloadsAssumption
  <2> QED
    BY <1>2, <2>2, <2>3 DEF Stands, NoPitfall
<1> QED
  BY <1>2, <1>7, <1>8, <1>9 DEF JudgeInv

LEMMA JudgeInductive == TypeInv /\ JudgeInv /\ [Next]_vars => JudgeInv'
<1> SUFFICES ASSUME TypeInv, JudgeInv, [Next]_vars PROVE JudgeInv'
  OBVIOUS
<1>1. CASE UNCHANGED vars \/ Expire
  <2>1. UNCHANGED <<pitfall, call, raced, verdict>>
    BY <1>1 DEF vars, storeVars, tables, history, Expire, CacheExpires
  <2> QED
    BY <2>1 DEF JudgeInv, Stands, Suppressions, Uncounted, Targets, LinkFresh
<1>2. ASSUME NEW c \in Calls, Step(c) PROVE JudgeInv'
  <2>1. \A p \in Pitfalls : Stands(p)'
    BY <1>2, StandsKept
  <2>2. verdict' = [p \in Pitfalls |-> verdict'[p]]
    BY <1>2, VerdictMoves
  <2>3. ASSUME NEW d \in Calls PROVE (Uncounted(d) /\ LinkFresh(d))'
    <3>1. CASE d = c
      BY <1>2, <3>1, OwnUncounted, OwnLinkFresh DEF JudgeInv
    <3>2. CASE d # c
      <4>1. call'[d] = call[d]
        BY <1>2, <3>2, StepKeeps DEF Advances
      <4>2. Uncounted(d)'
        BY <4>1 DEF JudgeInv, Uncounted
      <4> QED
        BY <1>2, <3>2, <4>2, OthersLinkFresh DEF JudgeInv
    <3> QED
      BY <3>1, <3>2
  <2>4. ASSUME NEW d \in Calls PROVE Targets(d)'
    <3>1. call'[d].op = call[d].op /\ call'[d].id = call[d].id
      BY <1>2, StepKeeps DEF Advances
    <3>2. Judges(c)
      BY <1>2, StepJudges DEF JudgeInv
    <3> QED
      BY <3>1, <3>2, PitfallsKept DEF JudgeInv, Targets
  <2> QED
    BY <2>1, <2>2, <2>3, <2>4 DEF JudgeInv
<1> QED
  BY <1>1, <1>2 DEF Next, Terminated

LEMMA Judging == Spec => []JudgeInv
<1>1. Init /\ []TypeInv /\ [][Next]_vars => []JudgeInv
  BY JudgeInit, JudgeInductive, PTL
<1> QED
  BY <1>1, Typing, PTL DEF Spec

LEMMA NothingSuppressedShown ==
    ASSUME TypeInv, JudgeInv, NEW c \in Calls, Step(c), NEW p \in Pitfalls, p \notin raced',
           verdict[p] = "suppressed", NEW d \in Calls
    PROVE  ~Shows(d, p)
<1> SUFFICES ASSUME Shows(d, p) PROVE FALSE
  OBVIOUS
<1>1. /\ \A e \in Calls \ {c} : call'[e] = call[e]
      /\ raced \subseteq raced'
  BY StepKeeps DEF Advances
<1>2. d = c /\ call[c].op = "prepare"
  BY <1>1 DEF Shows
<1>3. PitfallStep(c)
  BY <1>2, EpisodeJudges, RuleJudges, RunJudges DEF Step
<1>4. PrepareSearch(c) \/ PrepareCount(c)
  BY <1>2, <1>3 DEF PitfallStep, ConfirmPitfall, FeedbackPitfall, SuppressStatus, SuppressCount,
     SuppressWeaken, LinkRead, LinkWrite, OnPitfall, At
<1>5. pitfall[p].status = "suppressed"
  BY <1>1 DEF JudgeInv, Stands
<1>6. ~Injectable(pitfall[p])
  BY <1>5 DEF Injectable, Normalize, Statuses
<1>7. DOMAIN call[c] = Fields
  BY DEF TypeInv, CallsTyped, CallTyped, Fields
<1>8. CASE PrepareCount(c)
  <2>1. PICK q \in call[c].todo :
           LET counted == [call[c] EXCEPT !.todo = call[c].todo \ {q}]
           IN call' = [call EXCEPT ![c] = IF call[c].todo \ {q} = {} THEN Ended(counted, "ok")
                                          ELSE counted]
    BY <1>8 DEF PrepareCount
  <2>2. call'[c].found = call[c].found
    BY <1>7, <2>1 DEF Ended, Fields, TypeInv, CallsTyped
  <2> QED
    BY <1>2, <2>2 DEF Shows
<1>9. CASE PrepareSearch(c)
  <2>1. CASE End(c, "error")
    BY <1>2, <2>1, EndKeeps DEF Shows
  <2>2. ASSUME NEW shown \in SUBSET {q \in SearchPitfall(MinShownWeight) : Injectable(pitfall[q])},
               call' = [call EXCEPT ![c] =
                  IF shown = {} THEN Ended(call[c], "ok")
                  ELSE [call[c] EXCEPT !.pc = "count", !.todo = shown, !.found = shown]]
        PROVE  FALSE
    <3>1. call'[c].found \in {call[c].found, shown}
      BY <1>7, <2>2 DEF Ended, Fields, TypeInv, CallsTyped
    <3> QED
      BY <1>2, <1>6, <2>2, <3>1 DEF Shows
  <2> QED
    BY <1>9, <2>1, <2>2 DEF PrepareSearch
<1> QED
  BY <1>4, <1>8, <1>9

(* A decision on a pitfall stands: its status is the one decided last, it  *)
(* counts every suppression, and while it is suppressed it is not shown    *)
(* before an edit, whatever feedback, shows, extraction and re-anchoring   *)
(* run beside, except where a re-anchoring overlapped a write of the row.  *)
THEOREM DecisionsStand == Spec => SuppressionStands
<1> DEFINE Standing ==
      \A p \in Pitfalls : p \notin raced' =>
         /\ pitfall'[p].status = verdict'[p]
         /\ pitfall'[p].suppressed = Suppressions(p)'
         /\ verdict[p] = "suppressed" => \A c \in Calls : ~Shows(c, p)
<1>1. TypeInv /\ JudgeInv /\ [Next]_vars => [Standing]_vars
  <2> SUFFICES ASSUME TypeInv, JudgeInv, Next, NEW p \in Pitfalls, p \notin raced'
               PROVE  /\ pitfall'[p].status = verdict'[p]
                      /\ pitfall'[p].suppressed = Suppressions(p)'
                      /\ verdict[p] = "suppressed" => \A c \in Calls : ~Shows(c, p)
    OBVIOUS
  <2>1. Stands(p)'
    BY JudgeInductive DEF JudgeInv
  <2>2. CASE UNCHANGED call
    BY <2>1, <2>2 DEF Stands, Shows
  <2>3. ASSUME NEW c \in Calls, Step(c)
        PROVE  verdict[p] = "suppressed" => \A d \in Calls : ~Shows(d, p)
    BY <2>3, NothingSuppressedShown
  <2> QED
    BY <2>1, <2>2, <2>3 DEF Stands, Next, Expire, Terminated, vars
<1> QED
  BY <1>1, Typing, Judging, PTL DEF Spec, SuppressionStands
=============================================================================
