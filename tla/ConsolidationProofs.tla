------------------------- MODULE ConsolidationProofs -------------------------
(***************************************************************************)
(* What is on record of the rules, for any number of calls side by side,   *)
(* on any of the stores: what a consolidation run reports of the memories  *)
(* it wrote is true; and of the conflicts between rules, what a record     *)
(* says is done is done, what was done has a record, and nothing that was  *)
(* found is lost.                                                          *)
(***************************************************************************)
EXTENDS MemoryToolsProofs

BaseInv == TypeInv /\ LifeInv /\ JudgeInv

LEMMA Basis == Spec => []BaseInv
BY Typing, Living, Judging, PTL DEF BaseInv

-----------------------------------------------------------------------------
(* A line has made memories of its own: ids that no other line has, rows   *)
(* that stay.  While it traces one, that one misses exactly the edges that *)
(* are left, and all the others are whole; so the count of the persisted   *)
(* is the count of the whole at every moment, and the line only fails with *)
(* a memory it has not finished.                                           *)

LineFields == {"pc", "todo", "id", "left", "persisted", "made"}
Made == Rules \cup Pitfalls
HasEdge(i, m) == Edge(i, m, "DERIVED_FROM") \in edges
WholeTrace(made) == \A m \in made.sources : HasEdge(made.id, m)

(* On Neo4j an edge needs its nodes: the memories a line works with are    *)
(* there.                                                                  *)
Reachable(sources) == backend = "neo4jpg" => \A m \in sources : m \in Episodes /\ episode[m].stored

LineShape(l) ==
    /\ DOMAIN l = LineFields
    /\ l.pc \in {"next", "trace", "failed"}
    /\ IsFiniteSet(l.made)
    /\ {} \notin l.todo
    /\ \A s, t \in l.made : s.id = t.id => s = t

InHand(c, k) ==
    LET l == line[c][k] IN
    l.pc = "trace" =>
        /\ l.left # {} /\ Reachable(l.left)
        /\ \E m \in l.made : /\ m.id = l.id /\ l.left \subseteq m.sources
                             /\ \A e \in m.sources : HasEdge(l.id, e) <=> e \notin l.left

LineTrue(c, k) ==
    LET l == line[c][k] IN
    /\ LineShape(l)
    /\ \A m \in l.made : m.id \in Made /\ RowOf(m.id).stored
    /\ \A sources \in l.todo : Reachable(sources)
    /\ InHand(c, k)
    /\ l.pc # "failed" => \A m \in l.made : WholeTrace(m) \/ (l.pc = "trace" /\ m.id = l.id)
    /\ l.persisted = Cardinality(Traceable(l.made))

MadeApart ==
    \A c, d \in Calls : \A j, k \in Kinds : \A m \in line[c][j].made : \A n \in line[d][k].made :
        m.id = n.id => c = d /\ j = k

NoEarlyEdge == \A e \in edges : e.type = "DERIVED_FROM" /\ e.from \in Made => RowOf(e.from).stored

(* The record of a run that scanned was taken from its lines, which have   *)
(* not moved since.                                                        *)
RecordTrue(run) ==
    \A c \in Calls : run.id = Ran(c) /\ run.completed =>
        /\ At(c, "consolidate", "done")
        /\ run.rules = line[c]["rule"].persisted
        /\ run.pitfalls = line[c]["pitfall"].persisted
        /\ \A k \in Kinds : line[c][k].pc # "trace"
        /\ line[c]["rule"].pc = "failed" => run.rulesError
        /\ line[c]["pitfall"].pc = "failed" => run.pitfallError

RunsInv ==
    /\ \A c \in Calls : \A k \in Kinds : LineTrue(c, k)
    /\ MadeApart
    /\ NoEarlyEdge
    /\ \A run \in runs : RecordTrue(run)
-----------------------------------------------------------------------------
(* What a step does to the rules: their lives and trust stay; a settlement *)
(* retires a loser; a consolidation adds a rule under an id of its own.    *)

SameRule(old, new) == SameLife(old, new) /\ new.trust = old.trust
RulesStay == \A r \in Rules : SameRule(rule[r], rule'[r])
LoserRetired(c) ==
    /\ RetireLoser(c) /\ Goto(c, "edge")
    /\ LET loser == Loser(call[c].cur, call[c].arg) IN
       \A r \in Rules :
          /\ rule'[r].stored = rule[r].stored /\ rule'[r].trust = rule[r].trust
          /\ rule'[r].retired =
                (rule[r].retired \/ (r = loser /\ backend # "neo4jpg" /\ rule[r].stored))
RuleAdded(c) ==
    /\ call[c].op = "consolidate"
    /\ \E r : /\ r \in Rules => ~rule[r].stored
              /\ rule' = [rule EXCEPT ![r] = NewRule]

LEMMA RuleReweighedStays ==
    ASSUME TypeInv, NEW r, NEW w, NEW f, UpdateSemanticWeight(r, w, f)
    PROVE  RulesStay
<1> DEFINE new == On(Sqlite!UpdateSemanticWeight(rule[r], w, f),
                     Memory!UpdateSemanticWeight(rule[r], w, f),
                     Neo4j!UpdateSemanticWeight(rule[r], w, f))
<1>1. ASSUME r \in Rules PROVE SameRule(rule[r], new)
  <2>1. rule[r] \in RuleRow
    BY <1>1 DEF TypeInv, TablesTyped
  <2> QED
    BY <2>1 DEF On, RuleRow, EpisodeRow, Sqlite!UpdateSemanticWeight, Sqlite!Updated,
       Memory!UpdateSemanticWeight, Neo4j!UpdateSemanticWeight, Neo4j!Matched, SameRule, SameLife
<1>2. rule' = [rule EXCEPT ![r] = new] /\ DOMAIN rule = Rules
  BY DEF UpdateSemanticWeight, TypeInv, TablesTyped
<1> HIDE DEF new
<1>3. SUFFICES ASSUME NEW q \in Rules PROVE SameRule(rule[q], rule'[q])
  BY DEF RulesStay
<1>4. CASE q = r
  BY <1>1, <1>2, <1>4
<1>5. CASE q # r
  BY <1>2, <1>5 DEF SameRule, SameLife
<1> QED
  BY <1>4, <1>5

LEMMA RuleRetiredMoves ==
    ASSUME TypeInv, NEW l, MarkSemanticObsolete(l), ~UpdateRefused(rule[l])
    PROVE  \A r \in Rules :
              /\ rule'[r].stored = rule[r].stored /\ rule'[r].trust = rule[r].trust
              /\ rule'[r].retired =
                    (rule[r].retired \/ (r = l /\ backend # "neo4jpg" /\ rule[r].stored))
<1> DEFINE new == On(Sqlite!MarkSemanticObsolete(rule[l]), Memory!MarkSemanticObsolete(rule[l]),
                     rule[l])
<1>1. rule' = [rule EXCEPT ![l] = new] /\ backend \in {"sqlite", "memory", "neo4jpg"}
  BY DEF MarkSemanticObsolete, TypeInv, TablesTyped, Backends
<1>2. ASSUME l \in Rules
      PROVE  /\ new.stored = rule[l].stored /\ new.trust = rule[l].trust
             /\ new.retired = (rule[l].retired \/ (backend # "neo4jpg" /\ rule[l].stored))
  <2>1. rule[l] \in RuleRow
    BY <1>2 DEF TypeInv, TablesTyped
  <2>2. CASE backend = "sqlite"
    BY <2>1, <2>2 DEF On, RuleRow, EpisodeRow, Sqlite!MarkSemanticObsolete, Sqlite!Updated
  <2>3. CASE backend = "memory"
    BY <2>1, <2>3 DEF On, RuleRow, EpisodeRow, Memory!MarkSemanticObsolete, UpdateRefused,
       Memory!UpdateRefused
  <2>4. CASE backend = "neo4jpg"
    BY <2>1, <2>4 DEF On, RuleRow, EpisodeRow
  <2> QED
    BY <1>1, <2>2, <2>3, <2>4
<1> HIDE DEF new
<1>3. SUFFICES ASSUME NEW q \in Rules
      PROVE  /\ rule'[q].stored = rule[q].stored /\ rule'[q].trust = rule[q].trust
             /\ rule'[q].retired =
                   (rule[q].retired \/ (q = l /\ backend # "neo4jpg" /\ rule[q].stored))
  OBVIOUS
<1>4. rule \in [Rules -> RuleRow] /\ rule[q].retired \in BOOLEAN
  BY DEF TypeInv, TablesTyped, RuleRow, EpisodeRow
<1>5. CASE q = l
  BY <1>1, <1>2, <1>4, <1>5
<1>6. CASE q # l
  BY <1>1, <1>4, <1>6
<1> QED
  BY <1>5, <1>6

LEMMA RulesMove ==
    ASSUME TypeInv, NEW c \in Calls, Step(c)
    PROVE  RulesStay \/ LoserRetired(c) \/ RuleAdded(c)
<1>1. CASE UNCHANGED rule
  BY <1>1 DEF RulesStay, SameRule, SameLife
<1>2. ASSUME EpisodeStep(c), rule' # rule PROVE RulesStay
  <2>1. FeedbackUpdate(c)
    BY <1>2 DEF EpisodeStep, TouchRead, TouchUpdate, LookupMemory, Trace, SourceRead,
       SourceBoost, SourceSummary, SourceTrust, SearchCandidates, FetchCandidate, Merge,
       CreateEpisode, LinkPool, LinkRelated, MatchPitfalls, TriggerPitfall, CountOccurrence,
       Retire, DeleteUser, NothingStored, tables, UpdateEpisodicWeight, WriteEpisodic, OnlyEpisode,
       RememberPool, CreateEdge, OnlyEdges, MarkObsolete, DeleteEpisodicByProject, TouchPitfall,
       OnlyPitfall
  <2>2. PICK w, f : UpdateSemanticWeight(call[c].id, w, f)
    BY <1>2, <2>1 DEF FeedbackUpdate, NothingStored, tables, UpdateEpisodicWeight, OnlyEpisode,
       UpdatePitfallWeight, OnlyPitfall
  <2> QED
    BY <2>2, RuleReweighedStays
<1>3. ASSUME PitfallStep(c) PROVE UNCHANGED rule
  BY <1>3 DEF PitfallStep, ConfirmPitfall, FeedbackPitfall, SingleUpdate, SuppressStatus,
     SuppressCount, SuppressWeaken, LinkRead, LinkWrite, PrepareSearch, PrepareCount,
     UpdatePitfallStatus, ApplyPitfallFeedback, AddPitfallCounters, WritePitfall, OnlyPitfall,
     NothingStored, tables
<1>4. ASSUME RuleStep(c), rule' # rule PROVE LoserRetired(c)
  <2>1. RetireLoser(c)
    BY <1>4 DEF RuleStep, DetectRules, DetectList, SavePair, ResolveRead, LinkLoser,
       SettleRecord, NothingStored, tables, SaveRuleConflict, CreateEdge, OnlyEdges,
       ResolveRuleConflict
  <2>2. /\ MarkSemanticObsolete(Loser(call[c].cur, call[c].arg)) /\ Goto(c, "edge")
        /\ ~UpdateRefused(rule[Loser(call[c].cur, call[c].arg)])
    BY <1>4, <2>1 DEF RetireLoser, NothingStored, tables, Succeeds
  <2> QED
    BY <2>1, <2>2, RuleRetiredMoves DEF LoserRetired
<1>5. ASSUME RunStep(c), rule' # rule PROVE RuleAdded(c)
  <2>1. PICK k \in Kinds : LineStore(c, k)
    BY <1>5 DEF RunStep, Trigger, Scan, BacktestFails, SaveResult, LineTrace, NothingStored, tables,
       CreateEdge, OnlyEdges, SaveConsolidationRun
  <2>2. PICK sources : Store(k, FreshId(k), sources)
    BY <1>5, <2>1 DEF LineStore, NothingStored, tables
  <2>3. WriteSemantic(FreshId(k), NewRule) /\ k = "rule"
    BY <1>5, <2>2 DEF Store, WritePitfall, OnlyPitfall
  <2>4. rule' = [rule EXCEPT ![FreshId(k)] = NewRule]
    BY <2>3 DEF WriteSemantic, On, Sqlite!WriteSemantic, Memory!WriteSemantic,
       Neo4j!WriteSemantic
  <2>5. FreshId(k) \in Fresh(k)
    BY <2>1 DEF LineStore, FreshId
  <2>6. ~rule[FreshId(k)].stored
    BY <2>3, <2>5 DEF Fresh
  <2> QED
    BY <2>1, <2>4, <2>6 DEF LineStore, Working, Run, At, RuleAdded
<1> QED
  BY <1>1, <1>2, <1>3, <1>4, <1>5 DEF Step

-----------------------------------------------------------------------------
(* Rules and pitfalls stay stored, and on Neo4j episodes do.               *)

LEMMA RowsStay ==
    ASSUME BaseInv, NEW c \in Calls, Step(c)
    PROVE  /\ \A i \in Made : RowOf(i).stored => RowOf(i)'.stored
           /\ backend = "neo4jpg" => \A m \in Episodes : episode[m].stored => episode'[m].stored
<1> USE DEF BaseInv
<1>1. ASSUME NEW r \in Rules, rule[r].stored PROVE rule'[r].stored
  <2>1. CASE RulesStay \/ LoserRetired(c)
    BY <1>1, <2>1 DEF RulesStay, SameRule, SameLife, LoserRetired
  <2>2. CASE RuleAdded(c)
    BY <1>1, <2>2 DEF RuleAdded, TypeInv, TablesTyped
  <2> QED
    BY <2>1, <2>2, RulesMove
<1>2. ASSUME NEW p \in Pitfalls, pitfall[p].stored PROVE pitfall'[p].stored
  <2>1. Judges(c)
    BY StepJudges DEF JudgeInv
  <2>2. CASE Unjudged(c) \/ Judged(c) \/ CountedOnce(c)
    BY <1>2, <2>2 DEF Unjudged, SameVerdict, Judged, CountedOnce
  <2>3. CASE Relinked(c)
    <3>1. call[c].copy.stored /\ call[c].copy \in PitfallRow
      BY <2>3 DEF Relinked, JudgeInv, LinkFresh, TypeInv, CallsTyped, CallTyped
    <3>2. Reanchored(call[c].copy).stored
      BY <3>1 DEF Reanchored, PitfallRow
    <3> QED
      BY <1>2, <2>3, <3>2 DEF Relinked, TypeInv, TablesTyped, PitfallsTyped
  <2>4. CASE Extracted(c)
    BY <1>2, <2>4 DEF Extracted, TypeInv, TablesTyped, PitfallsTyped
  <2> QED
    BY <2>1, <2>2, <2>3, <2>4 DEF Judges
<1>3. ASSUME NEW i \in Made, RowOf(i).stored PROVE RowOf(i)'.stored
  BY <1>1, <1>2, <1>3, IdsAssumption DEF IdsAssumption, RowOf, Made
<1>4. ASSUME backend = "neo4jpg", NEW m \in Episodes, episode[m].stored PROVE episode'[m].stored
  <2>1. Moves(c)
    BY EpisodeMoves, OtherMoves DEF Step
  <2>2. CASE WrittenBack(c)
    BY <1>4, <2>2 DEF WrittenBack, LifeInv, HeldFresh, SameLife, TypeInv, TablesTyped
  <2>3. CASE Created(c)
    BY <1>4, <2>3 DEF Created, NewEpisode, NoEpisode, TypeInv, TablesTyped
  <2> QED
    BY <1>4, <2>1, <2>2, <2>3 DEF Moves, Untouched, OnlyAges, Gone, Filled
<1> QED
  BY <1>3, <1>4

-----------------------------------------------------------------------------
(* Only a line that traces a memory writes edges to its sources, and only  *)
(* a run records runs.                                                     *)

Derived == {e \in edges : e.type = "DERIVED_FROM"}

LEMMA OtherEdge ==
    ASSUME NEW from, NEW to, NEW type, type # "DERIVED_FROM", CreateEdge(from, to, type)
    PROVE  Derived' = Derived
<1>1. Edge(from, to, type).type = type
  BY DEF Edge
<1>2. edges' = edges \/ edges' = edges \cup {Edge(from, to, type)}
  BY DEF CreateEdge, On, Sqlite!CreateEdge, Memory!CreateEdge, Neo4j!CreateEdge
<1> QED
  BY <1>1, <1>2 DEF Derived

LEMMA DerivedStays ==
    ASSUME NEW c \in Calls, Step(c), \A k \in Kinds : ~LineTrace(c, k)
    PROVE  Derived' = Derived
<1>1. CASE UNCHANGED edges
  BY <1>1 DEF Derived
<1>2. ASSUME EpisodeStep(c), edges' # edges PROVE Derived' = Derived
  <2>1. LinkRelated(c) \/ TriggerPitfall(c)
    BY <1>2 DEF EpisodeStep, TouchRead, TouchUpdate, LookupMemory, FeedbackUpdate, Trace, SourceRead,
       SourceBoost, SourceSummary, SourceTrust, SearchCandidates, FetchCandidate, Merge,
       CreateEpisode, LinkPool, MatchPitfalls, CountOccurrence,
       Retire, DeleteUser, NothingStored, tables, UpdateEpisodicWeight, WriteEpisodic, OnlyEpisode,
       UpdateSemanticWeight, OnlyRule, UpdatePitfallWeight,
       RememberPool, MarkObsolete, DeleteEpisodicByProject, TouchPitfall, OnlyPitfall
  <2>2. PICK to : CreateEdge(call[c].id, to, "RELATES_TO") \/ CreateEdge(call[c].id, to, "TRIGGERED_PITFALL")
    BY <1>2, <2>1 DEF LinkRelated, TriggerPitfall, NothingStored, tables
  <2> QED
    BY <2>2, OtherEdge
<1>3. ASSUME PitfallStep(c) PROVE UNCHANGED edges
  BY <1>3 DEF PitfallStep, ConfirmPitfall, FeedbackPitfall, SingleUpdate, SuppressStatus,
     SuppressCount, SuppressWeaken, LinkRead, LinkWrite, PrepareSearch, PrepareCount,
     UpdatePitfallStatus, ApplyPitfallFeedback, AddPitfallCounters, WritePitfall, OnlyPitfall,
     NothingStored, tables
<1>4. ASSUME RuleStep(c), edges' # edges PROVE Derived' = Derived
  <2>1. LinkLoser(c)
    BY <1>4 DEF RuleStep, DetectRules, DetectList, SavePair, ResolveRead, RetireLoser,
       SettleRecord, NothingStored, tables, SaveRuleConflict, MarkSemanticObsolete, OnlyRule,
       ResolveRuleConflict
  <2>2. PICK from, to : CreateEdge(from, to, "CONFLICTS_WITH")
    BY <1>4, <2>1 DEF LinkLoser, NothingStored, tables
  <2> QED
    BY <2>2, OtherEdge
<1>5. ASSUME RunStep(c) PROVE UNCHANGED edges
  BY <1>5 DEF RunStep, Trigger, Scan, BacktestFails, SaveResult, LineStore, NothingStored, tables,
     Store, WriteSemantic, OnlyRule, WritePitfall, OnlyPitfall, SaveConsolidationRun
<1> QED
  BY <1>1, <1>2, <1>3, <1>4, <1>5 DEF Step

LEMMA RunsStay ==
    ASSUME NEW c \in Calls, Step(c), ~Trigger(c), ~SaveResult(c)
    PROVE  runs' = runs
<1>1. ASSUME EpisodeStep(c) PROVE UNCHANGED runs
  BY <1>1 DEF EpisodeStep, TouchRead, TouchUpdate, LookupMemory, FeedbackUpdate, Trace, SourceRead,
     SourceBoost, SourceSummary, SourceTrust, SearchCandidates, FetchCandidate, Merge,
     CreateEpisode, LinkPool, LinkRelated, MatchPitfalls, TriggerPitfall, CountOccurrence,
     Retire, DeleteUser, NothingStored, tables, UpdateEpisodicWeight, WriteEpisodic, OnlyEpisode,
     UpdateSemanticWeight, OnlyRule, UpdatePitfallWeight, CreateEdge, OnlyEdges,
     RememberPool, MarkObsolete, DeleteEpisodicByProject, TouchPitfall, OnlyPitfall
<1>2. ASSUME PitfallStep(c) PROVE UNCHANGED runs
  BY <1>2 DEF PitfallStep, ConfirmPitfall, FeedbackPitfall, SingleUpdate, SuppressStatus,
     SuppressCount, SuppressWeaken, LinkRead, LinkWrite, PrepareSearch, PrepareCount,
     UpdatePitfallStatus, ApplyPitfallFeedback, AddPitfallCounters, WritePitfall, OnlyPitfall,
     NothingStored, tables
<1>3. ASSUME RuleStep(c) PROVE UNCHANGED runs
  BY <1>3 DEF RuleStep, DetectRules, DetectList, SavePair, ResolveRead, RetireLoser, LinkLoser,
     SettleRecord, NothingStored, tables, SaveRuleConflict, MarkSemanticObsolete, OnlyRule,
     CreateEdge, OnlyEdges, ResolveRuleConflict
<1>4. ASSUME RunStep(c) PROVE UNCHANGED runs
  BY <1>4 DEF RunStep, Scan, BacktestFails, LineStore, LineTrace, NothingStored, tables,
     Store, WriteSemantic, OnlyRule, WritePitfall, OnlyPitfall, CreateEdge, OnlyEdges
<1> QED
  BY <1>1, <1>2, <1>3, <1>4 DEF Step

LEMMA EdgeKnown ==
    /\ \A i, m : HasEdge(i, m) <=> Edge(i, m, "DERIVED_FROM") \in Derived
    /\ \A i, m : HasEdge(i, m)' <=> Edge(i, m, "DERIVED_FROM") \in Derived'
    /\ \A i, m, j, n : Edge(i, m, "DERIVED_FROM") = Edge(j, n, "DERIVED_FROM") => i = j /\ m = n
<1>1. \A i, m : Edge(i, m, "DERIVED_FROM").type = "DERIVED_FROM"
  BY DEF Edge
<1>2. \A i, m : HasEdge(i, m) <=> Edge(i, m, "DERIVED_FROM") \in Derived
  BY <1>1 DEF Derived, HasEdge
<1>3. \A i, m : HasEdge(i, m)' <=> Edge(i, m, "DERIVED_FROM") \in Derived'
  BY <1>1 DEF Derived, HasEdge
<1>4. ASSUME NEW i, NEW m, NEW j, NEW n, Edge(i, m, "DERIVED_FROM") = Edge(j, n, "DERIVED_FROM")
      PROVE  i = j /\ m = n
  <2>1. /\ Edge(i, m, "DERIVED_FROM").from = i /\ Edge(i, m, "DERIVED_FROM").to = m
        /\ Edge(j, n, "DERIVED_FROM").from = j /\ Edge(j, n, "DERIVED_FROM").to = n
    BY DEF Edge
  <2> QED
    BY <1>4, <2>1
<1> QED
  BY <1>2, <1>3, <1>4

-----------------------------------------------------------------------------
(* A line that does not move: no edge comes to the memories it made.       *)

LineStands(c, k) ==
    /\ line'[c][k] = line[c][k]
    /\ \A m \in line[c][k].made : \A e : HasEdge(m.id, e)' <=> HasEdge(m.id, e)

RowsKept ==
    /\ backend' = backend
    /\ \A i \in Made : RowOf(i).stored => RowOf(i)'.stored
    /\ backend = "neo4jpg" => \A m \in Episodes : episode[m].stored => episode'[m].stored

LEMMA StandingTrue ==
    ASSUME NEW c \in Calls, NEW k \in Kinds, LineTrue(c, k), LineStands(c, k), RowsKept
    PROVE  LineTrue(c, k)'
<1> DEFINE l == line[c][k]
<1>1. line'[c][k] = l /\ LineShape(l)
  BY DEF LineStands, LineTrue
<1>2. \A m \in l.made : WholeTrace(m)' <=> WholeTrace(m)
  BY DEF LineStands, WholeTrace
<1>3. Traceable(l.made)' = Traceable(l.made)
  BY DEF LineStands, Traceable, HasEdge
<1>4. \A sources : Reachable(sources) => Reachable(sources)'
  BY DEF Reachable, RowsKept
<1>5. InHand(c, k)'
  <2>1. SUFFICES ASSUME l.pc = "trace"
        PROVE  /\ l.left # {} /\ Reachable(l.left)'
               /\ \E m \in l.made : /\ m.id = l.id /\ l.left \subseteq m.sources
                                    /\ \A e \in m.sources : HasEdge(l.id, e)' <=> e \notin l.left
    BY <1>1 DEF InHand, Reachable, HasEdge
  <2>2. /\ l.left # {} /\ Reachable(l.left)
        /\ \E m \in l.made : /\ m.id = l.id /\ l.left \subseteq m.sources
                             /\ \A e \in m.sources : HasEdge(l.id, e) <=> e \notin l.left
    BY <2>1 DEF LineTrue, InHand
  <2> QED
    BY <1>4, <2>2 DEF LineStands
<1> QED
  BY <1>1, <1>2, <1>3, <1>4, <1>5 DEF LineTrue, RowsKept, LineShape

-----------------------------------------------------------------------------
(* One line of c moves to l; its memories are those it had, and at most    *)
(* one more with an id nobody had.                                         *)

OneLine(c, k, l) ==
    /\ line' = [line EXCEPT ![c][k] = l]
    /\ \A m \in l.made : m \in line[c][k].made \/ (m.id \in Made /\ ~RowOf(m.id).stored)

LEMMA OneLineMoves ==
    ASSUME LinesTyped, NEW c \in Calls, NEW k \in Kinds, NEW l, OneLine(c, k, l)
    PROVE  /\ line'[c][k] = l
           /\ \A d \in Calls : \A j \in Kinds : d # c \/ j # k => line'[d][j] = line[d][j]
BY DEF LinesTyped, OneLine

LEMMA OthersTrue ==
    ASSUME LinesTyped, RunsInv, RowsKept, NEW c \in Calls, NEW k \in Kinds, NEW l, OneLine(c, k, l),
           \A i : \/ \A e : HasEdge(i, e)' <=> HasEdge(i, e)
                  \/ \E m \in line[c][k].made : m.id = i
    PROVE  \A d \in Calls : \A j \in Kinds : d # c \/ j # k => LineTrue(d, j)'
<1> SUFFICES ASSUME NEW d \in Calls, NEW j \in Kinds, d # c \/ j # k PROVE LineTrue(d, j)'
  OBVIOUS
<1>1. line'[d][j] = line[d][j]
  BY OneLineMoves
<1>2. \A m \in line[d][j].made : \A e : HasEdge(m.id, e)' <=> HasEdge(m.id, e)
  BY DEF RunsInv, MadeApart
<1>3. LineTrue(d, j)
  BY DEF RunsInv
<1> QED
  BY <1>1, <1>2, <1>3, StandingTrue DEF LineStands

LEMMA StaysApart ==
    ASSUME LinesTyped, RunsInv, NEW c \in Calls, NEW k \in Kinds, NEW l, OneLine(c, k, l)
    PROVE  MadeApart'
<1> SUFFICES ASSUME NEW a \in Calls, NEW d \in Calls, NEW j \in Kinds, NEW h \in Kinds,
                    NEW m \in line'[a][j].made, NEW n \in line'[d][h].made, m.id = n.id
             PROVE  a = d /\ j = h
  BY DEF MadeApart
<1>1. m \in line[a][j].made \/ (a = c /\ j = k /\ m.id \in Made /\ ~RowOf(m.id).stored)
  BY OneLineMoves DEF OneLine
<1>2. n \in line[d][h].made \/ (d = c /\ h = k /\ n.id \in Made /\ ~RowOf(n.id).stored)
  BY OneLineMoves DEF OneLine
<1>3. /\ m \in line[a][j].made => RowOf(m.id).stored
      /\ n \in line[d][h].made => RowOf(n.id).stored
  BY DEF RunsInv, LineTrue
<1>4. CASE m \in line[a][j].made /\ n \in line[d][h].made
  BY <1>4 DEF RunsInv, MadeApart
<1> QED
  BY <1>1, <1>2, <1>3, <1>4

(* Records of the runs that are over: their lines stand still.             *)
LEMMA RecordsStay ==
    ASSUME BaseInv, RunsInv, NEW c \in Calls, Advances(c), NEW k \in Kinds, NEW l, OneLine(c, k, l),
           runs' = runs, call[c].pc # "done"
    PROVE  \A run \in runs' : RecordTrue(run)'
<1> SUFFICES ASSUME NEW run \in runs, NEW d \in Calls, run.id = Ran(d), run.completed
             PROVE  /\ At(d, "consolidate", "done")'
                    /\ run.rules = line'[d]["rule"].persisted
                    /\ run.pitfalls = line'[d]["pitfall"].persisted
                    /\ \A j \in Kinds : line'[d][j].pc # "trace"
                    /\ line'[d]["rule"].pc = "failed" => run.rulesError
                    /\ line'[d]["pitfall"].pc = "failed" => run.pitfallError
  BY DEF RecordTrue, Ran
<1>1. RecordTrue(run) /\ At(d, "consolidate", "done")
  BY DEF RunsInv, RecordTrue
<1>2. d # c
  BY <1>1 DEF At
<1>3. \A j \in Kinds : line'[d][j] = line[d][j]
  BY <1>2, OneLineMoves DEF BaseInv, TypeInv
<1>4. call'[d] = call[d]
  BY <1>2 DEF Advances
<1> QED
  BY <1>1, <1>3, <1>4 DEF RecordTrue, At, Kinds

-----------------------------------------------------------------------------
(* The line of c that moves: it gives up, drops a candidate, stores a      *)
(* memory, or traces one source.                                           *)

LineFails(c, k) ==
    OneLine(c, k, [line[c][k] EXCEPT !.pc = "failed"]) /\ Derived' = Derived

LEMMA FailedTrue ==
    ASSUME NEW c \in Calls, NEW k \in Kinds, LinesTyped, LineTrue(c, k), RowsKept, LineFails(c, k)
    PROVE  LineTrue(c, k)'
<1> PICK l : l = line[c][k]
  OBVIOUS
<1> PICK new : new = [l EXCEPT !.pc = "failed"]
  OBVIOUS
<1>1. line'[c][k] = new
  BY OneLineMoves DEF LineFails
<1>2. LineShape(l) /\ DOMAIN l = LineFields
  BY DEF LineTrue, LineShape
<1>3. /\ new.pc = "failed" /\ new.todo = l.todo /\ new.id = l.id /\ new.left = l.left
      /\ new.persisted = l.persisted /\ new.made = l.made /\ DOMAIN new = LineFields
  BY <1>2 DEF LineFields
<1>4. LineShape(new)
  BY <1>2, <1>3 DEF LineShape
<1>5. \A i, e : HasEdge(i, e)' <=> HasEdge(i, e)
  BY EdgeKnown DEF LineFails
<1>6. Traceable(l.made)' = Traceable(l.made)
  BY <1>5 DEF Traceable, HasEdge
<1>7. \A sources : Reachable(sources) => Reachable(sources)'
  BY DEF Reachable, RowsKept
<1>8. InHand(c, k)'
  BY <1>1, <1>3 DEF InHand
<1> QED
  BY <1>1, <1>3, <1>4, <1>6, <1>7, <1>8 DEF LineTrue, RowsKept, LineShape

LineDrops(c, k) ==
    /\ line[c][k].pc = "next" /\ Derived' = Derived
    /\ \E sources : OneLine(c, k, [line[c][k] EXCEPT !.todo = @ \ {sources}])

LEMMA DroppedTrue ==
    ASSUME NEW c \in Calls, NEW k \in Kinds, LinesTyped, LineTrue(c, k), RowsKept, LineDrops(c, k)
    PROVE  LineTrue(c, k)'
<1> PICK l : l = line[c][k]
  OBVIOUS
<1>1. PICK sources : OneLine(c, k, [l EXCEPT !.todo = @ \ {sources}])
  BY DEF LineDrops
<1> PICK new : new = [l EXCEPT !.todo = @ \ {sources}]
  OBVIOUS
<1>2. line'[c][k] = new
  BY <1>1, OneLineMoves
<1>3. LineShape(l) /\ DOMAIN l = LineFields
  BY DEF LineTrue, LineShape
<1>4. /\ new.pc = "next" /\ new.todo = l.todo \ {sources} /\ new.id = l.id /\ new.left = l.left
      /\ new.persisted = l.persisted /\ new.made = l.made /\ DOMAIN new = LineFields
  BY <1>3 DEF LineFields, LineDrops
<1>5. LineShape(new)
  BY <1>3, <1>4 DEF LineShape
<1>6. \A i, e : HasEdge(i, e)' <=> HasEdge(i, e)
  BY EdgeKnown DEF LineDrops
<1>7. Traceable(l.made)' = Traceable(l.made)
  BY <1>6 DEF Traceable, HasEdge
<1>8. \A set : Reachable(set) => Reachable(set)'
  BY DEF Reachable, RowsKept
<1>9. InHand(c, k)'
  BY <1>2, <1>4 DEF InHand
<1>10. \A m \in l.made : WholeTrace(m)'
  BY <1>6 DEF LineTrue, LineDrops, WholeTrace
<1> QED
  BY <1>2, <1>4, <1>5, <1>7, <1>8, <1>9, <1>10 DEF LineTrue, RowsKept, LineShape

LineStores(c, k) ==
    /\ line[c][k].pc = "next" /\ Derived' = Derived
    /\ \E sources \in line[c][k].todo : \E id \in Made :
          /\ ~RowOf(id).stored /\ RowOf(id)'.stored
          /\ OneLine(c, k, Tracing(line[c][k], id, sources))

LEMMA StoredTrue ==
    ASSUME NEW c \in Calls, NEW k \in Kinds, LinesTyped, LineTrue(c, k), NoEarlyEdge, RowsKept,
           LineStores(c, k)
    PROVE  LineTrue(c, k)'
<1> PICK l : l = line[c][k]
  OBVIOUS
<1>1. PICK sources, id :
         /\ sources \in l.todo /\ id \in Made /\ ~RowOf(id).stored /\ RowOf(id)'.stored
         /\ OneLine(c, k, Tracing(l, id, sources))
  BY DEF LineStores
<1> PICK one : one = [id |-> id, sources |-> sources]
  OBVIOUS
<1> PICK new : new = Tracing(l, id, sources)
  OBVIOUS
<1>2. line'[c][k] = new
  BY <1>1, OneLineMoves
<1>3. LineShape(l) /\ DOMAIN l = LineFields
  BY DEF LineTrue, LineShape
<1>4. /\ new.pc = "trace" /\ new.todo = l.todo \ {sources} /\ new.id = id /\ new.left = sources
      /\ new.persisted = l.persisted /\ new.made = l.made \cup {one} /\ DOMAIN new = LineFields
  BY <1>3 DEF LineFields, LineStores, Tracing
<1>5. one.id = id /\ one.sources = sources /\ sources # {}
  BY <1>1, <1>3 DEF LineShape
<1>6. \A m \in l.made : m.id # id
  BY <1>1 DEF LineTrue
<1>7. LineShape(new)
  BY <1>3, <1>4, <1>5, <1>6, FS_AddElement DEF LineShape
<1>8. \A i, e : HasEdge(i, e)' <=> HasEdge(i, e)
  BY EdgeKnown DEF LineStores
<1>9. \A e : ~HasEdge(id, e)
  BY <1>1 DEF NoEarlyEdge, HasEdge, Edge
<1>10. Traceable(new.made)' = Traceable(l.made)
  BY <1>4, <1>5, <1>8, <1>9 DEF Traceable, HasEdge
<1>11. \A set : Reachable(set) => Reachable(set)'
  BY DEF Reachable, RowsKept
<1>12. Reachable(sources)
  BY <1>1 DEF LineTrue
<1>13. InHand(c, k)'
  <2>1. SUFFICES /\ new.left # {} /\ Reachable(new.left)'
                 /\ \E m \in new.made : /\ m.id = new.id /\ new.left \subseteq m.sources
                                        /\ \A e \in m.sources : HasEdge(new.id, e)' <=> e \notin new.left
    BY <1>2 DEF InHand, Reachable, HasEdge
  <2>2. one \in new.made /\ \A e \in one.sources : HasEdge(new.id, e)' <=> e \notin new.left
    BY <1>4, <1>5, <1>8, <1>9
  <2>3. one.id = new.id /\ new.left \subseteq one.sources
    BY <1>4, <1>5
  <2>4. new.left # {} /\ Reachable(new.left)'
    BY <1>4, <1>5, <1>11, <1>12
  <2> QED
    BY <2>2, <2>3, <2>4
<1>14. \A m \in new.made : WholeTrace(m)' \/ m.id = new.id
  BY <1>4, <1>5, <1>8 DEF LineTrue, LineStores, WholeTrace
<1>15. \A m \in new.made : m.id \in Made /\ RowOf(m.id)'.stored
  BY <1>1, <1>4, <1>5 DEF LineTrue, RowsKept
<1>16. \A set \in new.todo : Reachable(set)'
  BY <1>4, <1>11 DEF LineTrue
<1>17. new.persisted = Cardinality(Traceable(new.made)')
  BY <1>4, <1>10 DEF LineTrue
<1> QED
  BY <1>2, <1>4, <1>7, <1>13, <1>14, <1>15, <1>16, <1>17 DEF LineTrue, LineShape

LineTraces(c, k) ==
    /\ line[c][k].pc = "trace"
    /\ \E m \in line[c][k].left :
          /\ Derived' = Derived \cup {Edge(line[c][k].id, m, "DERIVED_FROM")}
          /\ OneLine(c, k, TracedTo(line[c][k], m))

LEMMA TracedTrue ==
    ASSUME NEW c \in Calls, NEW k \in Kinds, LinesTyped, LineTrue(c, k), RowsKept, LineTraces(c, k)
    PROVE  LineTrue(c, k)'
<1> PICK l : l = line[c][k]
  OBVIOUS
<1>1. PICK m : /\ m \in l.left
               /\ Derived' = Derived \cup {Edge(l.id, m, "DERIVED_FROM")}
               /\ OneLine(c, k, TracedTo(l, m))
  BY DEF LineTraces
<1> PICK new : new = TracedTo(l, m)
  OBVIOUS
<1>2. line'[c][k] = new
  BY <1>1, OneLineMoves
<1>3. LineShape(l) /\ DOMAIN l = LineFields
  BY DEF LineTrue, LineShape
<1>4. /\ new.left = l.left \ {m} /\ new.pc = (IF l.left = {m} THEN "next" ELSE "trace")
      /\ new.persisted = (IF l.left = {m} THEN l.persisted + 1 ELSE l.persisted)
      /\ new.todo = l.todo /\ new.id = l.id /\ new.made = l.made /\ DOMAIN new = LineFields
  BY <1>1, <1>3 DEF LineFields, LineTraces, TracedTo
<1>5. \A i, e : HasEdge(i, e)' <=> HasEdge(i, e) \/ (i = l.id /\ e = m)
  BY <1>1, EdgeKnown
<1>6. PICK one \in l.made : /\ one.id = l.id /\ l.left \subseteq one.sources
                            /\ \A e \in one.sources : HasEdge(l.id, e) <=> e \notin l.left
  BY DEF LineTrue, InHand, LineTraces
<1>7. \A o \in l.made \ {one} : o.id # l.id
  BY <1>3, <1>6 DEF LineShape
<1>8. \A o \in l.made \ {one} : WholeTrace(o) /\ WholeTrace(o)'
  BY <1>3, <1>5, <1>7 DEF LineTrue, LineTraces, LineShape, WholeTrace
<1>9. ~WholeTrace(one) /\ (WholeTrace(one)' <=> l.left = {m})
  BY <1>1, <1>5, <1>6 DEF WholeTrace
<1>10. /\ \A o \in l.made : o \in Traceable(l.made) <=> WholeTrace(o)
       /\ \A o \in l.made : o \in Traceable(l.made)' <=> WholeTrace(o)'
       /\ Traceable(l.made) \subseteq l.made /\ Traceable(l.made)' \subseteq l.made
  BY DEF Traceable, WholeTrace, HasEdge
<1>11. Traceable(l.made) = l.made \ {one}
  BY <1>8, <1>9, <1>10
<1>12. IsFiniteSet(l.made) /\ IsFiniteSet(l.made \ {one})
  BY <1>3, FS_RemoveElement DEF LineShape
<1>13. l.persisted = Cardinality(l.made \ {one})
  BY <1>11 DEF LineTrue
<1>14. LineShape(new)
  BY <1>3, <1>4 DEF LineShape
<1>15. \A set : Reachable(set) => Reachable(set)'
  BY DEF Reachable, RowsKept
<1>16. /\ \A o \in new.made : o.id \in Made /\ RowOf(o.id)'.stored
       /\ \A set \in new.todo : Reachable(set)'
  BY <1>4, <1>15 DEF LineTrue, RowsKept
<1>17. CASE l.left = {m}
  <2>1. Traceable(l.made)' = l.made
    BY <1>8, <1>9, <1>10, <1>17
  <2>2. Cardinality(l.made) = Cardinality(l.made \ {one}) + 1
    BY <1>12, FS_RemoveElement, FS_CardinalityType
  <2>3. new.persisted = Cardinality(Traceable(new.made)')
    BY <1>4, <1>13, <1>17, <2>1, <2>2
  <2>4. new.pc = "next" /\ \A o \in new.made : WholeTrace(o)'
    BY <1>4, <1>8, <1>9, <1>17
  <2>5. InHand(c, k)'
    BY <1>2, <2>4 DEF InHand
  <2> QED
    BY <1>2, <1>14, <1>16, <2>3, <2>4, <2>5 DEF LineTrue
<1>18. CASE l.left # {m}
  <2>1. Traceable(l.made)' = l.made \ {one}
    BY <1>8, <1>9, <1>10, <1>18
  <2>2. new.persisted = Cardinality(Traceable(new.made)')
    BY <1>4, <1>13, <1>18, <2>1
  <2>3. new.pc = "trace" /\ \A o \in new.made : WholeTrace(o)' \/ o.id = new.id
    BY <1>4, <1>6, <1>8, <1>18
  <2>4. Reachable(l.left)
    BY DEF LineTrue, InHand, LineTraces
  <2>5. new.left # {} /\ Reachable(new.left)'
    BY <1>1, <1>4, <1>15, <1>18, <2>4 DEF Reachable
  <2>6. /\ one \in new.made /\ one.id = new.id /\ new.left \subseteq one.sources
        /\ \A e \in one.sources : HasEdge(new.id, e)' <=> e \notin new.left
    BY <1>1, <1>4, <1>5, <1>6
  <2>7. InHand(c, k)'
    BY <1>2, <2>5, <2>6 DEF InHand, HasEdge
  <2> QED
    BY <1>2, <1>14, <1>16, <2>2, <2>3, <2>7 DEF LineTrue
<1> QED
  BY <1>17, <1>18

-----------------------------------------------------------------------------
(* The actions of a run are such moves.                                    *)

LEMMA LineFailed ==
    ASSUME TypeInv, RunsInv, NEW c \in Calls, NEW k \in Kinds, NothingStored,
           line' = [line EXCEPT ![c][k].pc = "failed"]
    PROVE  LineFails(c, k)
<1> DEFINE new == [line[c][k] EXCEPT !.pc = "failed"]
<1>1. new.made = line[c][k].made
  BY DEF RunsInv, LineTrue, LineShape, LineFields
<1>2. line' = [line EXCEPT ![c][k] = new]
  BY DEF TypeInv, LinesTyped
<1>3. Derived' = Derived
  BY DEF NothingStored, tables, Derived
<1> HIDE DEF new
<1>4. OneLine(c, k, new)
  BY <1>1, <1>2 DEF OneLine
<1> QED
  BY <1>3, <1>4 DEF LineFails, new

LEMMA FreshStored ==
    ASSUME TypeInv, NEW k \in Kinds, Fresh(k) # {}, NEW sources, Store(k, FreshId(k), sources)
    PROVE  /\ FreshId(k) \in Made /\ ~RowOf(FreshId(k)).stored
           /\ \A i : i = FreshId(k) => RowOf(i)'.stored
           /\ UNCHANGED edges
<1>1. FreshId(k) \in Fresh(k)
  BY DEF FreshId
<1> PICK id : id = FreshId(k)
  OBVIOUS
<1>2. CASE k = "rule"
  <2>1. id \in Rules /\ ~rule[id].stored /\ WriteSemantic(id, NewRule)
    BY <1>1, <1>2 DEF Fresh, Store
  <2>2. rule' = [rule EXCEPT ![id] = NewRule] /\ UNCHANGED edges
    BY <2>1 DEF WriteSemantic, OnlyRule, On, Sqlite!WriteSemantic, Memory!WriteSemantic,
       Neo4j!WriteSemantic
  <2>3. rule'[id].stored
    BY <2>1, <2>2 DEF TypeInv, TablesTyped, NewRule, NoRule
  <2> QED
    BY <2>1, <2>2, <2>3, IdsAssumption DEF IdsAssumption, RowOf, Made
<1>3. CASE k # "rule"
  <2> DEFINE row == [NewPitfall EXCEPT !.occurrences = Cardinality(sources)]
  <2>1. id \in Pitfalls /\ ~pitfall[id].stored /\ WritePitfall(id, row)
    BY <1>1, <1>3 DEF Fresh, Store
  <2>2. row.stored
    BY DEF NewPitfall, NoPitfall
  <2> HIDE DEF row
  <2>3. PICK new : new.stored /\ pitfall' = [pitfall EXCEPT ![id] = new] /\ UNCHANGED edges
    <3>1. /\ [row EXCEPT !.status = Sqlite!Normalize(@)].stored
          /\ [row EXCEPT !.status = Neo4j!Normalize(@)].stored
      BY <2>2 DEF row, NewPitfall, NoPitfall
    <3> QED
      BY <2>1, <2>2, <3>1 DEF WritePitfall, OnlyPitfall, On, Sqlite!WritePitfall,
         Memory!WritePitfall, Neo4j!WritePitfall
  <2>4. pitfall'[id].stored
    BY <2>1, <2>3 DEF TypeInv, TablesTyped, PitfallsTyped
  <2> QED
    BY <2>1, <2>3, <2>4, IdsAssumption DEF IdsAssumption, RowOf, Made
<1> QED
  BY <1>2, <1>3

LEMMA LineStoreMoves ==
    ASSUME TypeInv, RunsInv, NEW c \in Calls, NEW k \in Kinds, LineStore(c, k)
    PROVE  LineStores(c, k) \/ LineFails(c, k)
<1>1. PICK sources \in line[c][k].todo :
         \/ /\ Store(k, FreshId(k), sources)
            /\ line' = [line EXCEPT ![c][k] = Tracing(@, FreshId(k), sources)]
         \/ NothingStored /\ line' = [line EXCEPT ![c][k].pc = "failed"]
  BY DEF LineStore
<1>2. CASE NothingStored /\ line' = [line EXCEPT ![c][k].pc = "failed"]
  BY <1>2, LineFailed
<1>3. CASE /\ Store(k, FreshId(k), sources)
           /\ line' = [line EXCEPT ![c][k] = Tracing(@, FreshId(k), sources)]
  <2> PICK id : id = FreshId(k)
    OBVIOUS
  <2>1. id \in Made /\ ~RowOf(id).stored /\ RowOf(id)'.stored /\ UNCHANGED edges
    BY <1>3, FreshStored DEF LineStore
  <2> DEFINE new == Tracing(line[c][k], id, sources)
             one == [id |-> id, sources |-> sources]
  <2>2. new.made = line[c][k].made \cup {one} /\ one.id = id
    BY DEF RunsInv, LineTrue, LineShape, LineFields, Tracing
  <2>3. line' = [line EXCEPT ![c][k] = new]
    BY <1>3 DEF TypeInv, LinesTyped
  <2> HIDE DEF new, one
  <2>4. OneLine(c, k, new)
    BY <2>1, <2>2, <2>3 DEF OneLine
  <2>5. line[c][k].pc = "next" /\ Derived' = Derived
    BY <2>1 DEF LineStore, Working, Derived
  <2> QED
    BY <2>1, <2>4, <2>5 DEF LineStores, new
<1> QED
  BY <1>1, <1>2, <1>3

LEMMA LineTraceMoves ==
    ASSUME TypeInv, RunsInv, NEW c \in Calls, NEW k \in Kinds, LineTrace(c, k)
    PROVE  LineTraces(c, k) \/ LineFails(c, k)
<1> DEFINE l == line[c][k]
<1>1. l.pc = "trace" /\ LineTrue(c, k) /\ LineShape(l)
  BY DEF LineTrace, Working, RunsInv, LineTrue
<1>2. PICK m \in l.left :
         \/ /\ CreateEdge(l.id, m, "DERIVED_FROM")
            /\ line' = [line EXCEPT ![c][k] = TracedTo(@, m)]
         \/ NothingStored /\ line' = [line EXCEPT ![c][k].pc = "failed"]
  BY DEF LineTrace
<1>3. CASE NothingStored /\ line' = [line EXCEPT ![c][k].pc = "failed"]
  BY <1>3, LineFailed
<1>4. CASE /\ CreateEdge(l.id, m, "DERIVED_FROM")
           /\ line' = [line EXCEPT ![c][k] = TracedTo(@, m)]
  <2>1. l.id \in Made /\ RowOf(l.id).stored
    BY <1>1 DEF LineTrue, InHand
  <2>2. backend = "neo4jpg" => m \in Episodes /\ episode[m].stored
    BY <1>1 DEF LineTrue, InHand, Reachable
  <2>3. l.id \in Nodes
    BY <2>1, IdsAssumption DEF IdsAssumption, RowOf, Made, Nodes
  <2>4. backend = "neo4jpg" => {l.id, m} \subseteq Nodes
    BY <2>2, <2>3 DEF Nodes
  <2>5. /\ Edge(l.id, m, "DERIVED_FROM").from = l.id /\ Edge(l.id, m, "DERIVED_FROM").to = m
        /\ Edge(l.id, m, "DERIVED_FROM").type = "DERIVED_FROM"
    BY DEF Edge
  <2>6. backend \in {"sqlite", "memory", "neo4jpg"}
    BY DEF TypeInv, TablesTyped, Backends
  <2>7. edges' = edges \cup {Edge(l.id, m, "DERIVED_FROM")}
    BY <1>4, <2>4, <2>5, <2>6 DEF CreateEdge, On, Sqlite!CreateEdge, Memory!CreateEdge,
       Neo4j!CreateEdge
  <2>8. Derived' = Derived \cup {Edge(l.id, m, "DERIVED_FROM")}
    BY <2>5, <2>7 DEF Derived
  <2>9. TracedTo(l, m).made = l.made
    BY <1>1 DEF LineShape, LineFields, TracedTo
  <2>10. line' = [line EXCEPT ![c][k] = TracedTo(l, m)]
    BY <1>4 DEF TypeInv, LinesTyped
  <2>11. OneLine(c, k, TracedTo(l, m))
    BY <2>9, <2>10 DEF OneLine
  <2> QED
    BY <1>1, <2>8, <2>11 DEF LineTraces
<1> QED
  BY <1>2, <1>3, <1>4

LEMMA BacktestMoves ==
    ASSUME TypeInv, RunsInv, NEW c \in Calls, BacktestFails(c)
    PROVE  LineDrops(c, "rule")
<1> DEFINE l == line[c]["rule"]
<1>1. PICK sources : line' = [line EXCEPT ![c]["rule"].todo = @ \ {sources}]
  BY DEF BacktestFails
<1> DEFINE new == [l EXCEPT !.todo = @ \ {sources}]
<1>2. new.made = l.made
  BY DEF RunsInv, LineTrue, LineShape, LineFields, Kinds
<1>3. line' = [line EXCEPT ![c]["rule"] = new]
  BY <1>1 DEF TypeInv, LinesTyped, Kinds
<1>4. Derived' = Derived /\ l.pc = "next"
  BY DEF BacktestFails, tables, Derived, Working
<1> HIDE DEF new
<1>5. OneLine(c, "rule", new)
  BY <1>2, <1>3 DEF OneLine
<1> QED
  BY <1>4, <1>5 DEF LineDrops, new

(* A scan hands each line sets of memories that are there, none empty.     *)
LEMMA GroupsOf ==
    ASSUME NEW found, NEW by
    PROVE  {} \notin Groups(found, by) /\ \A g \in Groups(found, by) : g \subseteq found
<1>1. Cardinality({}) = 0
  BY FS_EmptySet
<1>2. \A g \in Groups(found, by) : Cardinality(g) >= MinClusterSize
  BY DEF Groups
<1>3. ~(0 >= MinClusterSize)
  BY ClusterAssumption DEF ClusterAssumption
<1> QED
  BY <1>1, <1>2, <1>3 DEF Groups

LEMMA SubClustersOf ==
    ASSUME NEW groups, NEW picked \in SubClusterings(groups)
    PROVE  {} \notin picked /\ \A s \in picked : \E g \in groups : s \subseteq g
<1>1. Cardinality({}) = 0
  BY FS_EmptySet
<1>2. \A s \in picked : Cardinality(s) >= MinClusterSize /\ \E g \in groups : s \subseteq g
  BY DEF SubClusterings
<1>3. ~(0 >= MinClusterSize)
  BY ClusterAssumption DEF ClusterAssumption
<1> QED
  BY <1>1, <1>2, <1>3

LEMMA NewLineTrue ==
    ASSUME NEW c \in Calls, NEW k \in Kinds, NEW todo, line'[c][k] = [NoLine EXCEPT !.todo = todo],
           {} \notin todo, \A sources \in todo : Reachable(sources)'
    PROVE  LineTrue(c, k)' /\ line'[c][k].made = {}
<1> PICK new : new = [NoLine EXCEPT !.todo = todo]
  OBVIOUS
<1>1. /\ DOMAIN new = LineFields /\ new.pc = "next" /\ new.todo = todo /\ new.made = {}
      /\ new.persisted = 0
  BY DEF NoLine, LineFields
<1>2. line'[c][k] = new
  OBVIOUS
<1>3. Traceable(new.made)' = {} /\ Cardinality({}) = 0 /\ IsFiniteSet({})
  BY <1>1, FS_EmptySet DEF Traceable
<1>4. LineShape(new)
  BY <1>1, <1>3 DEF LineShape
<1> QED
  BY <1>1, <1>2, <1>3, <1>4 DEF LineTrue, InHand, LineShape

LEMMA ScanMoves ==
    ASSUME TypeInv, NEW c \in Calls, Scan(c), backend' = backend, line' # line
    PROVE  /\ \A k \in Kinds : LineTrue(c, k)' /\ line'[c][k].made = {}
           /\ \A d \in Calls \ {c} : line'[d] = line[d]
<1>1. PICK extracted \in SubClusterings(Groups(DebugEpisodes(ScanRecent), Site)) :
         line' = [line EXCEPT ![c] = [rule |-> [NoLine EXCEPT !.todo = Groups(ScanRecent, Pattern)],
                                      pitfall |-> [NoLine EXCEPT !.todo = extracted]]]
  BY DEF Scan
<1> PICK found : found = ScanRecent
  OBVIOUS
<1> PICK groups : groups = Groups(found, Pattern)
  OBVIOUS
<1>2. episode' = episode /\ episode \in [Episodes -> EpisodeRow] /\ DOMAIN line = Calls
  BY DEF Scan, NothingStored, tables, TypeInv, TablesTyped, LinesTyped
<1>3. backend = "neo4jpg" => \A m \in found : m \in Episodes /\ episode[m].stored
  BY <1>2 DEF ScanRecent, On, Neo4j!ScanRecent
<1>4. \A sources : sources \subseteq found => Reachable(sources)'
  BY <1>2, <1>3 DEF Reachable
<1>5. {} \notin groups /\ \A g \in groups : Reachable(g)'
  BY <1>4, GroupsOf
<1>6. {} \notin extracted /\ \A s \in extracted : s \subseteq found
  BY GroupsOf, SubClustersOf DEF DebugEpisodes
<1>7. /\ line'[c]["rule"] = [NoLine EXCEPT !.todo = groups]
      /\ line'[c]["pitfall"] = [NoLine EXCEPT !.todo = extracted]
      /\ \A d \in Calls \ {c} : line'[d] = line[d]
  BY <1>1, <1>2
<1>8. LineTrue(c, "rule")' /\ line'[c]["rule"].made = {}
  BY <1>5, <1>7, NewLineTrue DEF Kinds
<1>9. LineTrue(c, "pitfall")' /\ line'[c]["pitfall"].made = {}
  BY <1>4, <1>6, <1>7, NewLineTrue DEF Kinds
<1> QED
  BY <1>7, <1>8, <1>9 DEF Kinds

-----------------------------------------------------------------------------
LEMMA DoneTakesNoStep ==
    ASSUME NEW c \in Calls, Step(c) PROVE call[c].pc # "done"
<1>1. EpisodeStep(c) => call[c].pc # "done"
  BY DEF EpisodeStep, TouchRead, TouchUpdate, LookupMemory, FeedbackUpdate, Trace, SourceRead,
     SourceBoost, SourceSummary, SourceTrust, SearchCandidates, FetchCandidate, Merge,
     CreateEpisode, LinkPool, LinkRelated, MatchPitfalls, TriggerPitfall, CountOccurrence,
     Retire, DeleteUser, Touching, Feeding, Writing, At
<1>2. PitfallStep(c) => call[c].pc # "done"
  BY DEF PitfallStep, ConfirmPitfall, FeedbackPitfall, SuppressStatus,
     SuppressCount, SuppressWeaken, LinkRead, LinkWrite, PrepareSearch, PrepareCount, OnPitfall, At
<1>3. RuleStep(c) => call[c].pc # "done"
  BY DEF RuleStep, DetectRules, DetectList, SavePair, ResolveRead, RetireLoser, LinkLoser,
     SettleRecord, Detecting, Deciding, At
<1>4. RunStep(c) => call[c].pc # "done"
  BY DEF RunStep, Trigger, Scan, BacktestFails, SaveResult, LineStore, LineTrace, Working, Run, At
<1> QED
  BY <1>1, <1>2, <1>3, <1>4 DEF Step

LEMMA EdgesLate ==
    ASSUME NoEarlyEdge, RowsKept,
           \/ Derived' = Derived
           \/ \E i \in Made : \E m : /\ Derived' = Derived \cup {Edge(i, m, "DERIVED_FROM")}
                                     /\ RowOf(i).stored
    PROVE  NoEarlyEdge'
<1> SUFFICES ASSUME NEW e \in edges', e.type = "DERIVED_FROM", e.from \in Made
             PROVE  RowOf(e.from)'.stored
  BY DEF NoEarlyEdge
<1>1. e \in Derived'
  BY DEF Derived
<1>2. CASE e \in Derived
  BY <1>2 DEF Derived, NoEarlyEdge, RowsKept
<1>3. CASE e \notin Derived
  <2>1. PICK i, m : i \in Made /\ e = Edge(i, m, "DERIVED_FROM") /\ RowOf(i).stored
    BY <1>1, <1>3
  <2> QED
    BY <2>1 DEF Edge, RowsKept
<1> QED
  BY <1>2, <1>3

LEMMA StepKeepsRows ==
    ASSUME BaseInv, NEW c \in Calls, Step(c) PROVE RowsKept
BY RowsStay DEF RowsKept, Step

(* A step that moves one line.                                             *)
LEMMA LineMoveKeeps ==
    ASSUME BaseInv, RunsInv, NEW c \in Calls, Step(c), runs' = runs, NEW k \in Kinds,
           LineFails(c, k) \/ LineDrops(c, k) \/ LineStores(c, k) \/ LineTraces(c, k)
    PROVE  RunsInv'
<1> USE DEF BaseInv
<1>1. RowsKept /\ Advances(c) /\ call[c].pc # "done"
  BY StepKeepsRows, StepKeeps, DoneTakesNoStep
<1>2. LineTrue(c, k) /\ NoEarlyEdge /\ LinesTyped
  BY DEF RunsInv, TypeInv
<1>3. LineTrue(c, k)'
  BY <1>1, <1>2, FailedTrue, DroppedTrue, StoredTrue, TracedTrue
<1>4. PICK l : OneLine(c, k, l)
  BY DEF LineFails, LineDrops, LineStores, LineTraces
<1>5. \/ Derived' = Derived
      \/ \E m \in line[c][k].made : \E e : /\ Derived' = Derived \cup {Edge(m.id, e, "DERIVED_FROM")}
                                           /\ m.id \in Made /\ RowOf(m.id).stored
  <2>1. CASE LineTraces(c, k)
    <3>1. PICK m \in line[c][k].made : m.id = line[c][k].id
      BY <1>2, <2>1 DEF LineTrue, InHand, LineTraces
    <3> QED
      BY <1>2, <2>1, <3>1 DEF LineTraces, LineTrue
  <2> QED
    BY <2>1 DEF LineFails, LineDrops, LineStores
<1>6. \A i : \/ \A e : HasEdge(i, e)' <=> HasEdge(i, e)
             \/ \E m \in line[c][k].made : m.id = i
  BY <1>5, EdgeKnown
<1>7. \A d \in Calls : \A j \in Kinds : d # c \/ j # k => LineTrue(d, j)'
  BY <1>1, <1>2, <1>4, <1>6, OthersTrue
<1>8. \A d \in Calls : \A j \in Kinds : LineTrue(d, j)'
  BY <1>3, <1>7
<1>9. MadeApart'
  BY <1>2, <1>4, StaysApart
<1>10. NoEarlyEdge'
  BY <1>1, <1>2, <1>5, EdgesLate
<1>11. \A run \in runs' : RecordTrue(run)'
  BY <1>1, <1>4, RecordsStay
<1> QED
  BY <1>8, <1>9, <1>10, <1>11 DEF RunsInv

(* A step that leaves all lines but those of c as they are, c being        *)
(* neither in them nor over.                                               *)
LEMMA LinesStandKeep ==
    ASSUME BaseInv, RunsInv, NEW c \in Calls, Step(c), Derived' = Derived,
           \A d \in Calls \ {c} : line'[d] = line[d],
           \/ line' = line
           \/ \A k \in Kinds : LineTrue(c, k)' /\ line'[c][k].made = {}
    PROVE  /\ \A d \in Calls : \A k \in Kinds : LineTrue(d, k)'
           /\ MadeApart' /\ NoEarlyEdge'
           /\ \A run \in runs : RecordTrue(run) => RecordTrue(run)'
<1> USE DEF BaseInv
<1>1. RowsKept /\ Advances(c) /\ call[c].pc # "done"
  BY StepKeepsRows, StepKeeps, DoneTakesNoStep
<1>2. \A d \in Calls : \A k \in Kinds : LineTrue(d, k) /\ (d # c => line'[d][k] = line[d][k])
  BY DEF RunsInv
<1>3. \A i, e : HasEdge(i, e)' <=> HasEdge(i, e)
  BY EdgeKnown
<1>4. ASSUME NEW d \in Calls, NEW k \in Kinds PROVE LineTrue(d, k)'
  <2>1. CASE line'[d][k] = line[d][k]
    BY <1>1, <1>2, <1>3, <2>1, StandingTrue DEF LineStands
  <2> QED
    BY <1>2, <2>1
<1>5. \A d \in Calls : \A k \in Kinds : line'[d][k].made \in {line[d][k].made, {}}
  BY <1>2
<1>6. MadeApart'
  BY <1>5 DEF RunsInv, MadeApart
<1>7. NoEarlyEdge'
  BY <1>1, EdgesLate DEF RunsInv
<1>8. ASSUME NEW run \in runs, RecordTrue(run) PROVE RecordTrue(run)'
  <2>1. SUFFICES ASSUME NEW d \in Calls, run.id = Ran(d), run.completed
        PROVE  /\ At(d, "consolidate", "done")'
               /\ run.rules = line'[d]["rule"].persisted
               /\ run.pitfalls = line'[d]["pitfall"].persisted
               /\ \A j \in Kinds : line'[d][j].pc # "trace"
               /\ line'[d]["rule"].pc = "failed" => run.rulesError
               /\ line'[d]["pitfall"].pc = "failed" => run.pitfallError
    BY DEF RecordTrue, Ran
  <2>2. At(d, "consolidate", "done") /\ d # c
    BY <1>1, <1>8, <2>1 DEF RecordTrue, At
  <2>3. call'[d] = call[d] /\ line'[d] = line[d]
    BY <1>1, <2>2 DEF Advances
  <2> QED
    BY <1>8, <2>1, <2>2, <2>3 DEF RecordTrue, At
<1> QED
  BY <1>4, <1>6, <1>7, <1>8

LEMMA RecordedRuns ==
    ASSUME NEW run, SaveConsolidationRun(run)
    PROVE  runs' \subseteq runs \cup {run}
BY DEF SaveConsolidationRun, On, Sqlite!SaveConsolidationRun, Memory!SaveConsolidationRun,
   Neo4j!SaveConsolidationRun

LEMMA ResultTrue ==
    ASSUME BaseInv, RunsInv, NEW c \in Calls, SaveResult(c),
           NEW run, run = Result(c)
    PROVE  RecordTrue(run)'
<1>1. /\ run.id = Ran(c) /\ (run.completed <=> Run(c, "lines"))
      /\ run.rules = line[c]["rule"].persisted /\ run.pitfalls = line[c]["pitfall"].persisted
      /\ run.rulesError = (line[c]["rule"].pc = "failed")
      /\ run.pitfallError = (line[c]["pitfall"].pc = "failed")
  BY DEF Result
<1>2. ASSUME NEW d \in Calls, Ran(c) = Ran(d) PROVE d = c
  BY <1>2 DEF Ran
<1>3. line' = line /\ End(c, "ok") /\ call[c].op = "consolidate"
  BY DEF SaveResult, Run, At
<1>4. At(c, "consolidate", "done")'
  BY <1>3, EndTyped DEF BaseInv, TypeInv, At, Advances
<1>5. run.completed => \A k \in Kinds : LineEnded(c, k)
  BY <1>1 DEF SaveResult, Run, At
<1>6. run.completed => \A k \in Kinds : line[c][k].pc # "trace"
  BY <1>5 DEF LineEnded
<1>7. SUFFICES ASSUME NEW d \in Calls, run.id = Ran(d), run.completed
      PROVE  /\ At(d, "consolidate", "done")'
             /\ run.rules = line'[d]["rule"].persisted
             /\ run.pitfalls = line'[d]["pitfall"].persisted
             /\ \A j \in Kinds : line'[d][j].pc # "trace"
             /\ line'[d]["rule"].pc = "failed" => run.rulesError
             /\ line'[d]["pitfall"].pc = "failed" => run.pitfallError
  BY DEF RecordTrue, Ran
<1>8. d = c
  BY <1>1, <1>2, <1>7
<1> QED
  BY <1>1, <1>3, <1>4, <1>6, <1>7, <1>8

LEMMA RunsStep ==
    ASSUME BaseInv, RunsInv, NEW c \in Calls, Step(c)
    PROVE  RunsInv'
<1> USE DEF BaseInv
<1>1. ASSUME NEW k \in Kinds, LineStore(c, k) \/ LineTrace(c, k) PROVE RunsInv'
  <2>1. LineFails(c, k) \/ LineStores(c, k) \/ LineTraces(c, k)
    BY <1>1, LineStoreMoves, LineTraceMoves
  <2>2. ~Trigger(c) /\ ~SaveResult(c)
    <3>1. Run(c, "lines") /\ ~LineEnded(c, k)
      BY <1>1 DEF LineStore, LineTrace, Working, LineEnded
    <3> QED
      BY <3>1 DEF Trigger, SaveResult, Run, At
  <2> QED
    BY <2>1, <2>2, RunsStay, LineMoveKeeps
<1>2. ASSUME BacktestFails(c) PROVE RunsInv'
  <2>1. ~Trigger(c) /\ ~SaveResult(c)
    BY <1>2 DEF BacktestFails, Working, Run, At, Trigger, SaveResult, LineEnded, Kinds
  <2> QED
    BY <1>2, <2>1, BacktestMoves, RunsStay, LineMoveKeeps DEF Kinds
<1>3. ASSUME \A k \in Kinds : ~LineStore(c, k) /\ ~LineTrace(c, k), ~BacktestFails(c)
      PROVE  RunsInv'
  <2>1. Derived' = Derived
    BY <1>3, DerivedStays
  <2>2. ASSUME line' # line, Scan(c)
        PROVE  /\ \A d \in Calls \ {c} : line'[d] = line[d]
               /\ \A k \in Kinds : LineTrue(c, k)' /\ line'[c][k].made = {}
    BY <2>2, ScanMoves DEF Step
  <2>3. line' = line \/ Scan(c)
    BY <1>3 DEF Step, RunStep, Trigger, SaveResult
  <2>4. /\ \A d \in Calls : \A k \in Kinds : LineTrue(d, k)'
        /\ MadeApart' /\ NoEarlyEdge'
        /\ \A run \in runs : RecordTrue(run) => RecordTrue(run)'
    BY <2>1, <2>2, <2>3, LinesStandKeep
  <2>5. CASE runs' = runs
    BY <2>4, <2>5 DEF RunsInv
  <2>6. ASSUME Trigger(c), runs' # runs PROVE RunsInv'
    <3> PICK run : run = OpenRun(Asked(c))
      OBVIOUS
    <3>1. runs' \subseteq runs \cup {run}
      BY <2>6, RecordedRuns DEF Trigger, NothingStored, tables
    <3>2. ~run.completed
      BY DEF OpenRun
    <3>3. RecordTrue(run)'
      BY <3>2 DEF RecordTrue
    <3> QED
      BY <2>4, <3>1, <3>3 DEF RunsInv
  <2>7. ASSUME SaveResult(c), runs' # runs PROVE RunsInv'
    <3> PICK run : run = Result(c)
      OBVIOUS
    <3>1. runs' \subseteq runs \cup {run}
      BY <2>7, RecordedRuns DEF SaveResult, NothingStored, tables
    <3>2. RecordTrue(run)'
      BY <2>7, ResultTrue
    <3> QED
      BY <2>4, <3>1, <3>2 DEF RunsInv
  <2> QED
    BY <2>5, <2>6, <2>7, RunsStay
<1> QED
  BY <1>1, <1>2, <1>3

LEMMA RunsStart == Init => RunsInv
<1> SUFFICES ASSUME Init PROVE RunsInv
  OBVIOUS
<1>1. ASSUME NEW c \in Calls, NEW k \in Kinds PROVE LineTrue(c, k) /\ line[c][k].made = {}
  <2>1. line[c][k] = NoLine
    BY DEF Init
  <2>2. Traceable({}) = {} /\ Cardinality({}) = 0 /\ IsFiniteSet({})
    BY FS_EmptySet DEF Traceable
  <2> QED
    BY <2>1, <2>2 DEF LineTrue, LineShape, LineFields, NoLine, InHand
<1>2. NoEarlyEdge
  <2>1. PICK w \in Workloads : rule = w.rule /\ pitfall = w.pitfall /\ edges = w.edges
    BY DEF Init
  <2> QED
    BY <2>1, TracesAssumption, IdsAssumption
    DEF TracesAssumption, IdsAssumption, NoEarlyEdge, RowOf, Made
<1> QED
  BY <1>1, <1>2 DEF RunsInv, MadeApart, Init

LEMMA RunsInductive == BaseInv /\ RunsInv /\ [Next]_vars => RunsInv'
<1> SUFFICES ASSUME BaseInv, RunsInv, [Next]_vars PROVE RunsInv'
  OBVIOUS
<1>1. CASE UNCHANGED <<backend, episode, rule, pitfall, edges, runs, call, line>>
  <2>1. RowsKept
    BY <1>1 DEF RowsKept, RowOf
  <2>2. \A c \in Calls : \A k \in Kinds : LineTrue(c, k) => LineTrue(c, k)'
    BY <1>1, <2>1, StandingTrue DEF LineStands, HasEdge
  <2> QED
    BY <1>1, <2>2 DEF RunsInv, MadeApart, NoEarlyEdge, RowOf, RecordTrue, At
<1>2. UNCHANGED vars \/ Expire => UNCHANGED <<backend, episode, rule, pitfall, edges, runs, call, line>>
  BY DEF vars, storeVars, tables, Expire, CacheExpires
<1> QED
  BY <1>1, <1>2, RunsStep DEF Next, Terminated

LEMMA Running == Spec => []RunsInv
<1>1. Init /\ []BaseInv /\ [][Next]_vars => []RunsInv
  BY RunsStart, RunsInductive, PTL
<1> QED
  BY <1>1, Basis, PTL DEF Spec

(* However many runs go on side by side, and whatever other calls do to    *)
(* the memories meanwhile, the record of a completed run counts exactly    *)
(* the memories that can be traced to all their sources, and a memory      *)
(* without its whole trace shows as an error of its line.                  *)
THEOREM RecordsAreTrue == Spec => []RunReportsTruth
<1>1. RunsInv => RunReportsTruth
  <2> SUFFICES ASSUME RunsInv, NEW c \in Calls, NEW run \in runs, run.id = Ran(c), run.completed
               PROVE  LET rules == line[c]["rule"].made
                          pitfalls == line[c]["pitfall"].made
                      IN /\ run.rules = Cardinality(Traceable(rules))
                         /\ run.pitfalls = Cardinality(Traceable(pitfalls))
                         /\ Traceable(rules) # rules => run.rulesError
                         /\ Traceable(pitfalls) # pitfalls => run.pitfallError
    BY DEF RunReportsTruth
  <2>1. RecordTrue(run) /\ \A k \in Kinds : LineTrue(c, k)
    BY DEF RunsInv
  <2>2. \A k \in Kinds : line[c][k].pc # "failed" => Traceable(line[c][k].made) = line[c][k].made
    BY <2>1 DEF RecordTrue, LineTrue, Traceable, WholeTrace, HasEdge
  <2>3. "rule" \in Kinds /\ "pitfall" \in Kinds
    BY DEF Kinds
  <2>4. /\ run.rules = Cardinality(Traceable(line[c]["rule"].made))
        /\ run.pitfalls = Cardinality(Traceable(line[c]["pitfall"].made))
    BY <2>1, <2>3 DEF RecordTrue, LineTrue
  <2> QED
    BY <2>1, <2>2, <2>3, <2>4 DEF RecordTrue
<1> QED
  BY <1>1, Running, PTL

-----------------------------------------------------------------------------
(* Which calls take which steps.                                           *)
LEMMA OpsOfSteps ==
    ASSUME NEW c \in Calls
    PROVE  /\ EpisodeStep(c) => call[c].op \in {"touch", "feedback", "write", "retire", "delete"}
           /\ PitfallStep(c) => call[c].op \in {"confirm", "rate", "suppress", "link", "prepare"}
           /\ RuleStep(c) => call[c].op \in {"detect", "resolve"}
           /\ RunStep(c) => call[c].op = "consolidate"
<1>1. EpisodeStep(c) => call[c].op \in {"touch", "feedback", "write", "retire", "delete"}
  BY DEF EpisodeStep, TouchRead, TouchUpdate, LookupMemory, FeedbackUpdate, Trace, SourceRead,
     SourceBoost, SourceSummary, SourceTrust, SearchCandidates, FetchCandidate, Merge,
     CreateEpisode, LinkPool, LinkRelated, MatchPitfalls, TriggerPitfall, CountOccurrence,
     Retire, DeleteUser, Touching, Feeding, Writing, At
<1>2. PitfallStep(c) => call[c].op \in {"confirm", "rate", "suppress", "link", "prepare"}
  BY DEF PitfallStep, ConfirmPitfall, FeedbackPitfall, SuppressStatus, SuppressCount,
     SuppressWeaken, LinkRead, LinkWrite, PrepareSearch, PrepareCount, OnPitfall, At
<1>3. RuleStep(c) => call[c].op \in {"detect", "resolve"}
  BY DEF RuleStep, DetectRules, DetectList, SavePair, ResolveRead, RetireLoser, LinkLoser,
     SettleRecord, Detecting, Deciding, At
<1>4. RunStep(c) => call[c].op = "consolidate"
  BY DEF RunStep, Trigger, Scan, BacktestFails, SaveResult, LineStore, LineTrace, Working, Run, At
<1> QED
  BY <1>1, <1>2, <1>3, <1>4

-----------------------------------------------------------------------------
(* Rule conflicts.                                                         *)

(* The calls that had, or have, the settlement of a record in hand.        *)
Settles(c) == call[c].op \in {"detect", "resolve"}
Settling(c) == Settles(c) /\ call[c].pc \in {"retire", "edge", "settle"}
OnRecord(c, rec) == Settling(c) /\ call[c].cur.id = rec.id
Arbiters(rec) == {c \in Calls : Settles(c) /\ rec.id \in call[c].updated}

RecordFields == {"id", "pair", "status", "winner"}
RecordStatuses == {"pending", "auto_resolved", "manual_resolved"}

(* A record was made by a detection for a pair it is done with.  Settled,  *)
(* it says what happened, and who has it in hand again is not alone;       *)
(* pending, those who took it up failed or still have it in hand.  That    *)
(* the rules differ in trust was seen by the detection.                    *)
RecordSound(rec) ==
    /\ DOMAIN rec = RecordFields
    /\ rec.pair \in Contradictions /\ \A r \in rec.pair : rule[r].stored
    /\ rec.status \in RecordStatuses
    /\ \E c \in Calls : /\ rec.id = <<c, rec.pair>> /\ call[c].op = "detect"
                        /\ rec.pair \in call[c].found \ call[c].todo
    /\ Settled(rec) =>
         /\ rec.winner \in rec.pair /\ rule[Loser(rec, rec.winner)].retired
         /\ rec.status = "auto_resolved" => rule[rec.winner].trust > rule[Loser(rec, rec.winner)].trust
         /\ Arbiters(rec) # {}
         /\ \A c \in Arbiters(rec) : OnRecord(c, rec) => \E d \in Arbiters(rec) : d # c
    /\ ~Settled(rec) => \A c \in Arbiters(rec) : call[c].outcome = "error" \/ OnRecord(c, rec)
    /\ Graded(rule, rec.pair) => Arbiters(rec) # {}

(* A settlement under way is that of a record, for a rule of its pair.     *)
SettlingSound(c) ==
    Settling(c) =>
        /\ call[c].cur.id \in call[c].updated
        /\ \E rec \in records : rec.id = call[c].cur.id /\ rec.pair = call[c].cur.pair
        /\ call[c].arg \in call[c].cur.pair
        /\ call[c].op = "detect" =>
             rule[call[c].arg].trust > rule[Loser(call[c].cur, call[c].arg)].trust
        /\ call[c].pc # "retire" => rule[Loser(call[c].cur, call[c].arg)].retired

(* The snapshot a detection works with has the trust of the rules right.   *)
Snapshot(rows) ==
    DOMAIN rows \subseteq Rules /\ \A r \in DOMAIN rows : rule[r].stored /\ rows[r].trust = rule[r].trust

DetectPcs == {"start", "list", "pair", "retire", "edge", "settle", "done"}
DetectSound(c) ==
    call[c].op = "detect" =>
        /\ call[c].pc \in DetectPcs
        /\ call[c].pc \in {"start", "list"} =>
             call[c].updated = {} /\ call[c].found = {} /\ call[c].todo = {}
        /\ call[c].pc = "done" /\ call[c].outcome = "ok" => call[c].todo = {}
        /\ call[c].pc \notin {"start", "done"} =>
             /\ Snapshot(call[c].copy)
             /\ \A pair \in call[c].found : pair \in Contradictions /\ pair \subseteq DOMAIN call[c].copy
        /\ call[c].todo \subseteq call[c].found
        /\ \A pair \in call[c].found : pair \in call[c].todo \/ \E rec \in records : rec.pair = pair
        /\ call[c].pc # "done" =>
             \A pair \in call[c].todo :
                pair \in raced \/ \A rec \in records : rec.pair = pair => Settled(rec)

AskedSound(c) ==
    Settles(c) =>
        /\ call[c].pc # "done" => call[c].outcome = "none"
        /\ call[c].pc \notin {"start", "done"} => KeepsConflicts
        /\ call[c].op = "resolve" /\ call[c].pc = "start" => call[c].updated = {}
        /\ \A id \in call[c].updated : \E rec \in records : rec.id = id

(* Who retired a rule: a settlement that is over, or half way, or one that *)
(* failed or was not the only one.                                         *)
Explains(r, rec) ==
    /\ r \in rec.pair
    /\ \/ Settled(rec) /\ rec.winner # r
       \/ \E c \in Arbiters(rec) : call[c].outcome = "error"
       \/ \E c, d \in Arbiters(rec) : c # d
       \/ \E c \in Arbiters(rec) : /\ OnRecord(c, rec) /\ call[c].pc # "retire"
                                   /\ r = Loser(call[c].cur, call[c].arg)

RulesInv ==
    /\ \A rec \in records : RecordSound(rec)
    /\ \A r, s \in records : r.id = s.id => r = s
    /\ \A c \in Calls : SettlingSound(c) /\ DetectSound(c) /\ AskedSound(c)
    /\ \A r \in Rules : rule[r].retired => \E rec \in records : Explains(r, rec)
    /\ \A r, s \in records :
         r # s /\ r.pair = s.pair /\ ~Settled(r) /\ ~Settled(s) => r.pair \in raced

-----------------------------------------------------------------------------
(* What every step leaves as it is.                                        *)

RulesFrame ==
    \A r \in Rules : rule[r].stored =>
        /\ rule'[r].stored /\ rule'[r].trust = rule[r].trust
        /\ rule[r].retired => rule'[r].retired

LEMMA FrameOfStep == ASSUME BaseInv, NEW c \in Calls, Step(c) PROVE RulesFrame
<1>1. TypeInv /\ (RulesStay \/ LoserRetired(c) \/ RuleAdded(c))
  BY RulesMove DEF BaseInv
<1>2. CASE RulesStay
  BY <1>2 DEF RulesStay, SameRule, SameLife, RulesFrame
<1>3. CASE LoserRetired(c)
  BY <1>3 DEF LoserRetired, RulesFrame
<1>4. CASE RuleAdded(c)
  BY <1>1, <1>4 DEF RuleAdded, RulesFrame, TypeInv, TablesTyped
<1> QED
  BY <1>1, <1>2, <1>3, <1>4

LEMMA LoserOf ==
    ASSUME NEW rec, rec.pair \in Contradictions, NEW winner \in rec.pair
    PROVE  /\ Loser(rec, winner) \in rec.pair /\ Loser(rec, winner) # winner
           /\ \A r \in rec.pair : r # winner => r = Loser(rec, winner)
<1>1. PICK a, b \in Rules : a # b /\ rec.pair = {a, b}
  BY PairsAssumption DEF PairsAssumption
<1>2. \E r \in rec.pair : r # winner
  BY <1>1
<1>3. Loser(rec, winner) \in rec.pair /\ Loser(rec, winner) # winner
  BY <1>2 DEF Loser
<1> QED
  BY <1>1, <1>3

LEMMA PairsAreRules == \A pair \in Contradictions : pair \subseteq Rules
BY PairsAssumption DEF PairsAssumption

LEMMA ArbitersOthers ==
    ASSUME NEW c \in Calls, Advances(c), NEW rec, NEW d \in Calls, d # c
    PROVE  /\ d \in Arbiters(rec)' <=> d \in Arbiters(rec)
           /\ OnRecord(d, rec)' <=> OnRecord(d, rec)
           /\ call'[d] = call[d]
BY DEF Advances, Arbiters, OnRecord, Settling, Settles

(* What a step of c must not do to a record that stands.                   *)
Leaves(c, rec) ==
    /\ call[c].op = "detect" => call[c].found \ call[c].todo \subseteq call'[c].found \ call'[c].todo
    /\ c \in Arbiters(rec) => c \in Arbiters(rec)'
    /\ c \in Arbiters(rec)' /\ ~Settled(rec) => call'[c].outcome = "error" \/ OnRecord(c, rec)'
    /\ c \in Arbiters(rec)' /\ OnRecord(c, rec)' /\ Settled(rec) => \E d \in Arbiters(rec) : d # c
    /\ c \in Arbiters(rec) /\ call[c].outcome = "error" => call'[c].outcome = "error"
    /\ OnRecord(c, rec) /\ call[c].pc # "retire" =>
         \/ call'[c].outcome = "error"
         \/ /\ OnRecord(c, rec)' /\ call'[c].pc # "retire"
            /\ call'[c].cur = call[c].cur /\ call'[c].arg = call[c].arg

LEMMA ArbitersGrow ==
    ASSUME NEW c \in Calls, Advances(c), NEW rec, Leaves(c, rec)
    PROVE  Arbiters(rec) \subseteq Arbiters(rec)' /\ Arbiters(rec)' \subseteq Arbiters(rec) \cup {c}
<1>1. Arbiters(rec) \subseteq Calls /\ Arbiters(rec)' \subseteq Calls
  BY DEF Arbiters
<1> QED
  BY <1>1, ArbitersOthers DEF Leaves

LEMMA RecordStands ==
    ASSUME NEW c \in Calls, Advances(c), RulesFrame, NEW rec, RecordSound(rec), Leaves(c, rec)
    PROVE  RecordSound(rec)'
<1>1. rec.pair \in Contradictions /\ rec.pair \subseteq Rules /\ \A r \in rec.pair : rule[r].stored
  BY PairsAreRules DEF RecordSound
<1>2. \A r \in rec.pair : /\ rule'[r].stored /\ rule'[r].trust = rule[r].trust
                          /\ rule[r].retired => rule'[r].retired
  BY <1>1 DEF RulesFrame
<1>3. Arbiters(rec) \subseteq Arbiters(rec)' /\ Arbiters(rec)' \subseteq Arbiters(rec) \cup {c}
  BY ArbitersGrow
<1>4. \E d \in Calls : /\ rec.id = <<d, rec.pair>> /\ call'[d].op = "detect"
                       /\ rec.pair \in call'[d].found \ call'[d].todo
  <2>1. PICK d \in Calls : /\ rec.id = <<d, rec.pair>> /\ call[d].op = "detect"
                           /\ rec.pair \in call[d].found \ call[d].todo
    BY DEF RecordSound
  <2>2. CASE d = c
    BY <2>1, <2>2 DEF Leaves, Advances
  <2>3. CASE d # c
    BY <2>1, <2>3, ArbitersOthers
  <2> QED
    BY <2>1, <2>2, <2>3
<1>5. ASSUME Settled(rec)
      PROVE  /\ rec.winner \in rec.pair /\ rule'[Loser(rec, rec.winner)].retired
             /\ rec.status = "auto_resolved" =>
                   rule'[rec.winner].trust > rule'[Loser(rec, rec.winner)].trust
             /\ Arbiters(rec)' # {}
             /\ \A d \in Arbiters(rec)' : OnRecord(d, rec)' => \E e \in Arbiters(rec)' : e # d
  <2>1. /\ rec.winner \in rec.pair /\ rule[Loser(rec, rec.winner)].retired
        /\ rec.status = "auto_resolved" => rule[rec.winner].trust > rule[Loser(rec, rec.winner)].trust
        /\ Arbiters(rec) # {}
        /\ \A d \in Arbiters(rec) : OnRecord(d, rec) => \E e \in Arbiters(rec) : e # d
    BY <1>5 DEF RecordSound
  <2>2. Loser(rec, rec.winner) \in rec.pair
    BY <1>1, <2>1, LoserOf
  <2>3. ASSUME NEW d \in Arbiters(rec)', OnRecord(d, rec)' PROVE \E e \in Arbiters(rec)' : e # d
    <3>1. CASE d = c
      BY <1>3, <1>5, <2>3, <3>1 DEF Leaves
    <3>2. CASE d # c
      <4>1. d \in Arbiters(rec) /\ d \in Calls
        BY <1>3, <3>2 DEF Arbiters
      <4>2. OnRecord(d, rec)
        BY <2>3, <3>2, <4>1, ArbitersOthers
      <4> QED
        BY <1>3, <2>1, <4>1, <4>2
    <3> QED
      BY <3>1, <3>2
  <2> QED
    BY <1>2, <1>3, <2>1, <2>2, <2>3
<1>6. ASSUME ~Settled(rec), NEW d \in Arbiters(rec)'
      PROVE  call'[d].outcome = "error" \/ OnRecord(d, rec)'
  <2>1. CASE d = c
    BY <1>6, <2>1 DEF Leaves
  <2>2. CASE d # c
    <3>1. d \in Arbiters(rec) /\ d \in Calls
      BY <1>3, <2>2 DEF Arbiters
    <3> QED
      BY <1>6, <2>2, <3>1, ArbitersOthers DEF RecordSound
  <2> QED
    BY <2>1, <2>2
<1>7. Graded(rule', rec.pair) => Arbiters(rec)' # {}
  BY <1>2, <1>3 DEF Graded, RecordSound
<1> QED
  BY <1>1, <1>2, <1>4, <1>5, <1>6, <1>7 DEF RecordSound, Settled

LEMMA ExplainsStands ==
    ASSUME NEW c \in Calls, Advances(c), NEW rec, NEW r, Explains(r, rec), Leaves(c, rec)
    PROVE  Explains(r, rec)'
<1>1. Arbiters(rec) \subseteq Arbiters(rec)' /\ r \in rec.pair /\ Arbiters(rec) \subseteq Calls
  BY ArbitersGrow DEF Explains, Arbiters
<1>2. CASE Settled(rec) /\ rec.winner # r
  BY <1>1, <1>2 DEF Explains, Settled
<1>3. ASSUME NEW d \in Arbiters(rec), call[d].outcome = "error" PROVE call'[d].outcome = "error"
  BY <1>1, <1>3, ArbitersOthers DEF Leaves
<1>4. CASE \E d \in Arbiters(rec) : call[d].outcome = "error"
  BY <1>1, <1>3, <1>4 DEF Explains
<1>5. CASE \E d, e \in Arbiters(rec) : d # e
  BY <1>1, <1>5 DEF Explains
<1>6. ASSUME NEW d \in Arbiters(rec), OnRecord(d, rec), call[d].pc # "retire",
             r = Loser(call[d].cur, call[d].arg)
      PROVE  \/ call'[d].outcome = "error"
             \/ /\ OnRecord(d, rec)' /\ call'[d].pc # "retire"
                /\ r = Loser(call'[d].cur, call'[d].arg)
  <2>1. CASE d = c
    BY <1>6, <2>1 DEF Leaves
  <2>2. CASE d # c
    BY <1>1, <1>6, <2>2, ArbitersOthers
  <2> QED
    BY <2>1, <2>2
<1>7. CASE \E d \in Arbiters(rec) : /\ OnRecord(d, rec) /\ call[d].pc # "retire"
                                    /\ r = Loser(call[d].cur, call[d].arg)
  BY <1>1, <1>6, <1>7 DEF Explains
<1> QED
  BY <1>2, <1>4, <1>5, <1>7 DEF Explains

-----------------------------------------------------------------------------
(* The calls that take no step.  A record that appears while a detection   *)
(* works shows in raced.                                                   *)

RecordsFrame ==
    /\ \A rec \in records : \E s \in records' : s.id = rec.id /\ s.pair = rec.pair
    /\ raced \subseteq raced'

NewShows(c, rec) ==
    \A d \in Calls \ {c} :
       call[d].op = "detect" /\ call[d].pc \notin {"start", "done"} =>
          Settled(rec) \/ rec \in records \/ rec.pair \in raced'

LEMMA NewPairShows ==
    ASSUME NEW c \in Calls, Remember(c), NEW rec \in records', rec.pair \in Contradictions
    PROVE  NewShows(c, rec)
<1> SUFFICES ASSUME NEW d \in Calls \ {c}, call[d].op = "detect", call[d].pc \notin {"start", "done"},
                    rec \notin records
             PROVE  rec.pair \in raced'
  BY DEF NewShows
<1>1. rec.pair \in Reads(d)
  BY DEF Reads
<1>2. rec.pair \in WrittenPairs
  BY DEF WrittenPairs
<1> QED
  BY <1>1, <1>2 DEF Remember

LEMMA SettlingStands ==
    ASSUME NEW c \in Calls, Advances(c), RulesFrame, RecordsFrame,
           \A rec \in records : RecordSound(rec),
           NEW d \in Calls, d # c, SettlingSound(d)
    PROVE  SettlingSound(d)'
<1>1. call'[d] = call[d]
  BY DEF Advances
<1> SUFFICES ASSUME Settling(d) PROVE SettlingSound(d)'
  BY <1>1 DEF SettlingSound, Settling, Settles
<1> PICK at : at = call[d].cur
  OBVIOUS
<1> PICK w : w = call[d].arg
  OBVIOUS
<1>2. /\ at.id \in call[d].updated
      /\ \E rec \in records : rec.id = at.id /\ rec.pair = at.pair
      /\ w \in at.pair
      /\ call[d].op = "detect" => rule[w].trust > rule[Loser(at, w)].trust
      /\ call[d].pc # "retire" => rule[Loser(at, w)].retired
  BY DEF SettlingSound
<1>3. PICK rec \in records : rec.id = at.id /\ rec.pair = at.pair
  BY <1>2
<1>4. at.pair \in Contradictions /\ at.pair \subseteq Rules /\ \A r \in at.pair : rule[r].stored
  BY <1>3, PairsAreRules DEF RecordSound
<1>5. Loser(at, w) \in at.pair
  BY <1>2, <1>4, LoserOf
<1>6. \E s \in records' : s.id = at.id /\ s.pair = at.pair
  BY <1>3 DEF RecordsFrame
<1>7. \A r \in at.pair : rule'[r].trust = rule[r].trust /\ (rule[r].retired => rule'[r].retired)
  BY <1>4 DEF RulesFrame
<1> QED
  BY <1>1, <1>2, <1>5, <1>6, <1>7 DEF SettlingSound

LEMMA SnapshotStands ==
    ASSUME RulesFrame, NEW rows, Snapshot(rows) PROVE Snapshot(rows)'
BY DEF Snapshot, RulesFrame

LEMMA DetectStands ==
    ASSUME NEW c \in Calls, Advances(c), RulesFrame, RecordsFrame, \A rec \in records' : NewShows(c, rec),
           NEW d \in Calls, d # c, DetectSound(d)
    PROVE  DetectSound(d)'
<1>1. call'[d] = call[d]
  BY DEF Advances
<1> PICK r : r = call[d]
  OBVIOUS
<1> SUFFICES ASSUME r.op = "detect" PROVE DetectSound(d)'
  BY <1>1 DEF DetectSound
<1>2. r.pc \notin {"start", "done"} => Snapshot(r.copy)'
  BY SnapshotStands DEF DetectSound
<1>3. \A pair \in r.found : pair \in r.todo \/ \E rec \in records' : rec.pair = pair
  BY DEF DetectSound, RecordsFrame
<1>4. ASSUME r.pc # "done", NEW pair \in r.todo, pair \notin raced',
             NEW rec \in records', rec.pair = pair
      PROVE  Settled(rec)
  <2>1. r.pc \notin {"start", "list", "done"}
    BY <1>4 DEF DetectSound
  <2>2. Settled(rec) \/ rec \in records
    BY <1>4, <2>1 DEF NewShows
  <2> QED
    BY <1>4, <2>2 DEF DetectSound, RecordsFrame
<1>5. call'[d] = r
  BY <1>1
<1>6. /\ r.pc \in DetectPcs
      /\ r.pc \in {"start", "list"} => r.updated = {} /\ r.found = {} /\ r.todo = {}
      /\ r.pc = "done" /\ r.outcome = "ok" => r.todo = {}
      /\ r.pc \notin {"start", "done"} =>
            \A pair \in r.found : pair \in Contradictions /\ pair \subseteq DOMAIN r.copy
      /\ r.todo \subseteq r.found
  BY DEF DetectSound
<1>7. /\ r.pc \notin {"start", "done"} =>
            /\ DOMAIN r.copy \subseteq Rules
            /\ \A q \in DOMAIN r.copy : rule'[q].stored /\ r.copy[q].trust = rule'[q].trust
      /\ r.pc # "done" =>
            \A pair \in r.todo :
               pair \in raced' \/ \A rec \in records' : rec.pair = pair => rec.status # "pending"
  BY <1>2, <1>4 DEF Snapshot, Settled
<1> QED
  BY <1>3, <1>5, <1>6, <1>7 DEF DetectSound, Settled, Snapshot

LEMMA AskedStands ==
    ASSUME NEW c \in Calls, Advances(c), backend' = backend, RecordsFrame,
           NEW d \in Calls, d # c, AskedSound(d)
    PROVE  AskedSound(d)'
<1>1. call'[d] = call[d]
  BY DEF Advances
<1>2. Settles(d) => \A id \in call[d].updated : \E rec \in records' : rec.id = id
  BY DEF AskedSound, RecordsFrame
<1> QED
  BY <1>1, <1>2 DEF AskedSound, Settles, KeepsConflicts

(* A step under which the records stand.                                   *)
LEMMA RecordsStand ==
    ASSUME BaseInv, RulesInv, NEW c \in Calls, Step(c), records' = records,
           \A rec \in records : Leaves(c, rec),
           SettlingSound(c)', DetectSound(c)', AskedSound(c)',
           \A r \in Rules : rule'[r].retired /\ ~rule[r].retired =>
                               \E rec \in records : Explains(r, rec)'
    PROVE  RulesInv'
<1>1. Advances(c) /\ RulesFrame /\ backend' = backend /\ raced \subseteq raced'
  BY StepKeeps, FrameOfStep DEF BaseInv, Step, Remember
<1>2. RecordsFrame /\ \A rec \in records' : NewShows(c, rec)
  BY <1>1 DEF RecordsFrame, NewShows
<1>3. \A rec \in records : RecordSound(rec)'
  BY <1>1, RecordStands DEF RulesInv
<1>4. \A d \in Calls : SettlingSound(d)' /\ DetectSound(d)' /\ AskedSound(d)'
  BY <1>1, <1>2, SettlingStands, DetectStands, AskedStands DEF RulesInv
<1>5. ASSUME NEW r \in Rules, rule'[r].retired PROVE \E rec \in records : Explains(r, rec)'
  <2>1. CASE rule[r].retired
    BY <1>1, <2>1, ExplainsStands DEF RulesInv
  <2> QED
    BY <1>5, <2>1
<1>6. \A r, s \in records :
         r # s /\ r.pair = s.pair /\ ~Settled(r) /\ ~Settled(s) => r.pair \in raced'
  BY <1>1 DEF RulesInv
<1>7. \A r, s \in records : r.id = s.id => r = s
  BY DEF RulesInv
<1> QED
  BY <1>3, <1>4, <1>5, <1>6, <1>7 DEF RulesInv, Settled

(* So it is for the calls that have nothing to do with conflicts.          *)
LEMMA OtherCallStep ==
    ASSUME BaseInv, RulesInv, NEW c \in Calls, Step(c), ~RuleStep(c)
    PROVE  RulesInv'
<1>1. Advances(c) /\ TypeInv
  BY StepKeeps DEF BaseInv
<1>2. ~Settles(c)
  BY <1>1, OpsOfSteps DEF Step, Settles
<1>3. records' = records
  BY DEF Step, EpisodeStep, TouchRead, TouchUpdate, LookupMemory, FeedbackUpdate, Trace, SourceRead,
     SourceBoost, SourceSummary, SourceTrust, SearchCandidates, FetchCandidate, Merge,
     CreateEpisode, LinkPool, LinkRelated, MatchPitfalls, TriggerPitfall, CountOccurrence,
     Retire, DeleteUser, NothingStored, tables, UpdateEpisodicWeight, WriteEpisodic, OnlyEpisode,
     RememberPool, CreateEdge, OnlyEdges, MarkObsolete, DeleteEpisodicByProject, TouchPitfall,
     OnlyPitfall, UpdateSemanticWeight, OnlyRule, UpdatePitfallWeight,
     PitfallStep, ConfirmPitfall, FeedbackPitfall, SingleUpdate, SuppressStatus,
     SuppressCount, SuppressWeaken, LinkRead, LinkWrite, PrepareSearch, PrepareCount,
     UpdatePitfallStatus, ApplyPitfallFeedback, AddPitfallCounters, WritePitfall,
     RunStep, Trigger, Scan, BacktestFails, SaveResult, LineStore, LineTrace, Store, WriteSemantic,
     SaveConsolidationRun
<1>4. ASSUME NEW rec \in records PROVE Leaves(c, rec)
  <2>1. ~Settles(c)' /\ call[c].op # "detect"
    BY <1>1, <1>2 DEF Advances, Settles
  <2>2. c \notin Arbiters(rec) /\ c \notin Arbiters(rec)' /\ ~OnRecord(c, rec)
    BY <1>2, <2>1 DEF Arbiters, OnRecord, Settling
  <2> QED
    BY <2>1, <2>2 DEF Leaves
<1>5. ~Settles(c)' /\ call'[c].op # "detect" /\ call[c].op # "detect"
  BY <1>1, <1>2 DEF Advances, Settles
<1>6. SettlingSound(c)' /\ DetectSound(c)' /\ AskedSound(c)'
  BY <1>5 DEF SettlingSound, Settling, DetectSound, AskedSound
<1>7. ASSUME NEW r \in Rules, rule'[r].retired, ~rule[r].retired PROVE FALSE
  <2>1. RulesStay \/ RuleAdded(c)
    BY <1>1, RulesMove DEF LoserRetired, RetireLoser, RuleStep
  <2>2. CASE RulesStay
    BY <1>7, <2>2 DEF RulesStay, SameRule, SameLife
  <2>3. CASE RuleAdded(c)
    <3>1. ~NewRule.retired /\ DOMAIN rule = Rules
      BY <1>1 DEF NewRule, NoRule, TypeInv, TablesTyped
    <3> QED
      BY <1>7, <2>3, <3>1 DEF RuleAdded
  <2> QED
    BY <2>1, <2>2, <2>3
<1> QED
  BY <1>3, <1>4, <1>6, <1>7, RecordsStand

-----------------------------------------------------------------------------
(* The steps of detections and resolutions under which the records stand.  *)

LEMMA RuleCallTyped ==
    ASSUME BaseInv, NEW c \in Calls
    PROVE  DOMAIN call = Calls /\ DOMAIN call[c] = Fields
BY DEF BaseInv, TypeInv, CallsTyped, CallTyped

LEMMA FailedCall ==
    ASSUME BaseInv, RulesInv, NEW c \in Calls, Step(c), Settles(c), NothingStored, End(c, "error")
    PROVE  RulesInv'
<1>1. rule' = rule /\ records' = records
  BY DEF NothingStored, tables
<1>2. /\ call'[c].pc = "done" /\ call'[c].outcome = "error" /\ call'[c].op = call[c].op
      /\ call'[c].updated = call[c].updated /\ call'[c].found = call[c].found
      /\ call'[c].todo = call[c].todo
  BY RuleCallTyped DEF End, Ended, Fields
<1>3. ASSUME NEW rec \in records PROVE Leaves(c, rec)
  BY <1>2 DEF Leaves, Arbiters, Settles, OnRecord, Settling
<1>4. SettlingSound(c)' /\ DetectSound(c)' /\ AskedSound(c)'
  <2>1. SettlingSound(c)'
    BY <1>2 DEF SettlingSound, Settling
  <2>2. DetectSound(c)'
    BY <1>1, <1>2 DEF RulesInv, DetectSound, DetectPcs
  <2>3. AskedSound(c)'
    BY <1>1, <1>2 DEF RulesInv, AskedSound, Settles
  <2> QED
    BY <2>1, <2>2, <2>3
<1> QED
  BY <1>1, <1>3, <1>4, RecordsStand

LEMMA DetectRulesStep ==
    ASSUME BaseInv, RulesInv, NEW c \in Calls, Step(c), DetectRules(c)
    PROVE  RulesInv'
<1>1. /\ rule' = rule /\ records' = records /\ call[c].op = "detect" /\ call[c].pc = "start"
      /\ Settles(c) /\ NothingStored /\ backend' = backend
  BY DEF NothingStored, tables, DetectRules, Detecting, At, Settles, Step
<1>2. CASE End(c, "error")
  BY <1>1, <1>2, FailedCall
<1>3. CASE /\ KeepsConflicts
           /\ call' = [call EXCEPT ![c].pc = "list", ![c].copy = [r \in SearchSemantic |-> rule[r]]]
  <2> PICK rows : rows = [r \in SearchSemantic |-> rule[r]]
    OBVIOUS
  <2>1. /\ call'[c].pc = "list" /\ call'[c].copy = rows /\ call'[c].op = "detect"
        /\ call'[c].updated = call[c].updated /\ call'[c].found = call[c].found
        /\ call'[c].todo = call[c].todo /\ call'[c].outcome = call[c].outcome
    BY <1>1, <1>3, RuleCallTyped DEF Fields
  <2>2. DOMAIN rows \subseteq Rules /\ \A r \in DOMAIN rows : rule[r].stored /\ rows[r] = rule[r]
    <3>1. SearchSemantic = {r \in Rules : rule[r].stored}
      BY <1>3 DEF SearchSemantic, On, KeepsConflicts, Sqlite!SearchSemantic, Memory!SearchSemantic,
         BaseInv, TypeInv, TablesTyped
    <3> QED
      BY <3>1
  <2>3. call[c].updated = {} /\ call[c].found = {} /\ call[c].todo = {} /\ call[c].outcome = "none"
    BY <1>1 DEF RulesInv, DetectSound, AskedSound
  <2>4. ASSUME NEW rec \in records PROVE Leaves(c, rec)
    BY <1>1, <2>1, <2>3 DEF Leaves, Arbiters, Settles, OnRecord, Settling
  <2>5. SettlingSound(c)'
    BY <2>1 DEF SettlingSound, Settling
  <2>6. DetectSound(c)'
    BY <1>1, <2>1, <2>2, <2>3 DEF DetectSound, DetectPcs, Snapshot
  <2>7. AskedSound(c)'
    BY <1>1, <1>3, <2>1, <2>3 DEF AskedSound, Settles, KeepsConflicts
  <2> QED
    BY <1>1, <2>4, <2>5, <2>6, <2>7, RecordsStand
<1> QED
  BY <1>2, <1>3 DEF DetectRules, Succeeds

(* A detection goes on to the next pair, or ends with the last.            *)
PairDone(r, s) ==
    /\ s.op = r.op /\ s.updated = r.updated /\ s.found = r.found /\ s.todo = r.todo
    /\ \/ r.todo = {} /\ s.pc = "done" /\ s.outcome = "ok"
       \/ r.todo # {} /\ s.pc = "pair" /\ s.outcome = r.outcome /\ s.copy = r.copy

LEMMA NextPairOf == ASSUME NEW r, DOMAIN r = Fields PROVE PairDone(r, NextPair(r))
BY DEF PairDone, NextPair, Ended, Fields

LEMMA DetectListStep ==
    ASSUME BaseInv, RulesInv, NEW c \in Calls, Step(c), DetectList(c)
    PROVE  RulesInv'
<1>1. /\ rule' = rule /\ records' = records /\ call[c].op = "detect" /\ call[c].pc = "list"
      /\ Settles(c) /\ NothingStored /\ backend' = backend /\ raced \subseteq raced'
  BY DEF NothingStored, tables, DetectList, Detecting, At, Settles, Step, Remember
<1>2. CASE End(c, "error")
  BY <1>1, <1>2, FailedCall
<1>3. ASSUME NEW pairs, pairs = Contradicting(call[c].copy),
             call' = [call EXCEPT ![c] = NextPair([@ EXCEPT !.found = pairs,
                          !.todo = pairs \ Tracked(ListRuleConflicts)])]
      PROVE  RulesInv'
  <2> PICK left : left = pairs \ Tracked(ListRuleConflicts)
    OBVIOUS
  <2> PICK r : r = [call[c] EXCEPT !.found = pairs, !.todo = left]
    OBVIOUS
  <2>1. /\ DOMAIN r = Fields /\ r.found = pairs /\ r.todo = left /\ r.op = "detect"
        /\ r.updated = call[c].updated /\ r.outcome = call[c].outcome /\ r.copy = call[c].copy
    BY <1>1, RuleCallTyped DEF Fields
  <2>2. call'[c] = NextPair(r)
    BY <1>3, RuleCallTyped
  <2>3. /\ call[c].updated = {} /\ call[c].found = {} /\ call[c].todo = {} /\ call[c].outcome = "none"
        /\ KeepsConflicts /\ Snapshot(call[c].copy)
    BY <1>1 DEF RulesInv, DetectSound, AskedSound
  <2>4. /\ call'[c].op = "detect" /\ call'[c].updated = {} /\ call'[c].found = pairs
        /\ call'[c].todo = left
        /\ \/ left = {} /\ call'[c].pc = "done" /\ call'[c].outcome = "ok"
           \/ call'[c].pc = "pair" /\ call'[c].outcome = "none" /\ call'[c].copy = call[c].copy
    <3> PICK s : s = call'[c]
      OBVIOUS
    <3>1. DOMAIN r = Fields
      BY <2>1
    <3>2. PairDone(r, s)
      BY <2>2, <3>1, NextPairOf
    <3> QED
      BY <2>1, <2>3, <3>2 DEF PairDone
  <2>5. \A pair \in pairs : pair \in Contradictions /\ pair \subseteq DOMAIN call[c].copy
    BY <1>3 DEF Contradicting
  <2>6. ListRuleConflicts = records
    BY <2>3 DEF ListRuleConflicts, On, KeepsConflicts, Sqlite!ListRuleConflicts,
       Memory!ListRuleConflicts
  <2>7. \A rec \in records : ~Settled(rec) => rec.pair \notin left
    BY <2>6 DEF Tracked, Settled
  <2>8. \A pair \in pairs : pair \in left \/ \E rec \in records : rec.pair = pair
    BY <2>6 DEF Tracked
  <2>9. ASSUME NEW rec \in records PROVE Leaves(c, rec)
    BY <1>1, <2>3, <2>4 DEF Leaves, Arbiters, Settles, OnRecord, Settling
  <2>10. SettlingSound(c)'
    BY <2>4 DEF SettlingSound, Settling
  <2>11. DetectSound(c)'
    <3>1. Snapshot(call[c].copy) => DOMAIN call[c].copy \subseteq Rules
             /\ \A q \in DOMAIN call[c].copy : rule'[q].stored /\ call[c].copy[q].trust = rule'[q].trust
      BY <1>1 DEF Snapshot
    <3>2. left \subseteq pairs
      OBVIOUS
    <3> QED
      BY <1>1, <2>3, <2>4, <2>5, <2>7, <2>8, <3>1, <3>2 DEF DetectSound, DetectPcs, Snapshot, Settled
  <2>12. AskedSound(c)'
    BY <1>1, <2>3, <2>4 DEF AskedSound, Settles, KeepsConflicts
  <2> QED
    BY <1>1, <2>9, <2>10, <2>11, <2>12, RecordsStand
<1> QED
  BY <1>2, <1>3 DEF DetectList

LEMMA ResolveReadStep ==
    ASSUME BaseInv, RulesInv, NEW c \in Calls, Step(c), ResolveRead(c)
    PROVE  RulesInv'
<1>1. /\ rule' = rule /\ records' = records /\ call[c].op = "resolve" /\ call[c].pc = "start"
      /\ Settles(c) /\ NothingStored /\ backend' = backend
  BY DEF NothingStored, tables, ResolveRead, At, Settles, Step
<1>2. CASE End(c, "error")
  BY <1>1, <1>2, FailedCall
<1>3. ASSUME KeepsConflicts, NEW rec \in ListRuleConflicts, NEW winner \in rec.pair,
             call' = [call EXCEPT ![c].pc = "retire", ![c].cur = rec, ![c].arg = winner,
                                  ![c].updated = {rec.id}]
      PROVE  RulesInv'
  <2>1. rec \in records
    BY <1>3 DEF ListRuleConflicts, On, KeepsConflicts, Sqlite!ListRuleConflicts,
       Memory!ListRuleConflicts
  <2>2. /\ call'[c].pc = "retire" /\ call'[c].cur = rec /\ call'[c].arg = winner
        /\ call'[c].updated = {rec.id} /\ call'[c].op = "resolve"
        /\ call'[c].outcome = call[c].outcome
    BY <1>1, <1>3, RuleCallTyped DEF Fields
  <2>3. call[c].updated = {} /\ call[c].outcome = "none"
    BY <1>1 DEF RulesInv, AskedSound
  <2>4. ASSUME NEW old \in records PROVE Leaves(c, old)
    <3>1. c \notin Arbiters(old) /\ ~OnRecord(c, old)
      BY <1>1, <2>3 DEF Arbiters, OnRecord, Settling
    <3>2. c \in Arbiters(old)' => OnRecord(c, old)'
      BY <1>1, <2>2 DEF Arbiters, OnRecord, Settling, Settles
    <3>3. Settled(old) => Arbiters(old) # {}
      BY DEF RulesInv, RecordSound
    <3> QED
      BY <1>1, <3>1, <3>2, <3>3 DEF Leaves
  <2>5. SettlingSound(c)'
    BY <1>1, <1>3, <2>1, <2>2 DEF SettlingSound
  <2>6. DetectSound(c)'
    BY <2>2 DEF DetectSound
  <2>7. AskedSound(c)'
    BY <1>1, <1>3, <2>1, <2>2, <2>3 DEF AskedSound, Settles, KeepsConflicts
  <2> QED
    BY <1>1, <2>4, <2>5, <2>6, <2>7, RecordsStand
<1> QED
  BY <1>2, <1>3 DEF ResolveRead, Succeeds

(* A settlement under way moves on: the record it is for, and the winner,  *)
(* stay in hand.                                                           *)
LEMMA GoesOn ==
    ASSUME BaseInv, RulesInv, NEW c \in Calls, Step(c), Settling(c), NEW pc \in {"edge", "settle"},
           Goto(c, pc), records' = records,
           rule'[Loser(call[c].cur, call[c].arg)].retired,
           \A r \in Rules : rule'[r].retired /\ ~rule[r].retired =>
                               r = Loser(call[c].cur, call[c].arg)
    PROVE  RulesInv'
<1> PICK at : at = call[c].cur
  OBVIOUS
<1> PICK w : w = call[c].arg
  OBVIOUS
<1>1. /\ RulesFrame /\ backend' = backend /\ raced \subseteq raced' /\ call[c].op \in {"detect", "resolve"}
      /\ Settles(c) /\ call[c].pc \in {"retire", "edge", "settle"}
  BY FrameOfStep DEF Step, Settling, Settles, Remember
<1>2. /\ call'[c].pc = pc /\ call'[c].cur = at /\ call'[c].arg = w /\ call'[c].op = call[c].op
      /\ call'[c].updated = call[c].updated /\ call'[c].outcome = call[c].outcome
      /\ call'[c].found = call[c].found /\ call'[c].todo = call[c].todo
      /\ call'[c].copy = call[c].copy
  BY RuleCallTyped DEF Goto, Fields
<1>3. /\ at.id \in call[c].updated /\ w \in at.pair
      /\ \E rec \in records : rec.id = at.id /\ rec.pair = at.pair
      /\ call[c].op = "detect" => rule[w].trust > rule[Loser(at, w)].trust
      /\ call[c].outcome = "none" /\ KeepsConflicts
  BY <1>1 DEF RulesInv, SettlingSound, AskedSound
<1>4. PICK rec \in records : rec.id = at.id /\ rec.pair = at.pair
  BY <1>3
<1>5. /\ at.pair \in Contradictions /\ at.pair \subseteq Rules /\ \A r \in at.pair : rule[r].stored
  BY <1>4, PairsAreRules DEF RulesInv, RecordSound
<1>6. Loser(at, w) \in at.pair
  BY <1>3, <1>5, LoserOf
<1>7. \A old : /\ OnRecord(c, old)' <=> at.id = old.id
               /\ OnRecord(c, old) <=> at.id = old.id
               /\ c \in Arbiters(old)' <=> c \in Arbiters(old)
  BY <1>1, <1>2 DEF OnRecord, Settling, Settles, Arbiters
<1>8. ASSUME NEW old \in records PROVE Leaves(c, old)
  <2>1. ~Settled(old) /\ c \in Arbiters(old) => OnRecord(c, old)
    BY <1>3 DEF RulesInv, RecordSound
  <2>2. Settled(old) /\ c \in Arbiters(old) /\ OnRecord(c, old) => \E d \in Arbiters(old) : d # c
    BY DEF RulesInv, RecordSound
  <2> QED
    BY <1>2, <1>7, <2>1, <2>2 DEF Leaves
<1>9. rule'[w].trust = rule[w].trust /\ rule'[Loser(at, w)].trust = rule[Loser(at, w)].trust
  BY <1>1, <1>3, <1>5, <1>6 DEF RulesFrame
<1>10. SettlingSound(c)'
  BY <1>2, <1>3, <1>4, <1>9 DEF SettlingSound
<1>11. DetectSound(c)'
  <2> SUFFICES ASSUME call[c].op = "detect" PROVE DetectSound(c)'
    BY <1>2 DEF DetectSound
  <2> PICK rows : rows = call[c].copy
    OBVIOUS
  <2>1. Snapshot(rows) /\ Snapshot(rows)'
    BY <1>1, SnapshotStands DEF RulesInv, DetectSound
  <2>2. /\ DOMAIN rows \subseteq Rules
        /\ \A q \in DOMAIN rows : rule'[q].stored /\ rows[q].trust = rule'[q].trust
    BY <2>1 DEF Snapshot
  <2>3. /\ \A pair \in call[c].found : pair \in Contradictions /\ pair \subseteq DOMAIN rows
        /\ call[c].todo \subseteq call[c].found
        /\ \A pair \in call[c].found : pair \in call[c].todo \/ \E r \in records : r.pair = pair
        /\ \A pair \in call[c].todo :
              pair \in raced \/ \A r \in records : r.pair = pair => r.status # "pending"
    BY <1>1 DEF RulesInv, DetectSound, Settled
  <2> QED
    BY <1>1, <1>2, <2>2, <2>3 DEF DetectSound, DetectPcs, Snapshot, Settled
<1>12. AskedSound(c)'
  BY <1>1, <1>2, <1>3 DEF RulesInv, AskedSound, Settles, KeepsConflicts
<1>13. ASSUME NEW r \in Rules, rule'[r].retired, ~rule[r].retired PROVE Explains(r, rec)'
  <2>1. r = Loser(at, w)
    BY <1>13
  <2>2. c \in Arbiters(rec)'
    BY <1>1, <1>2, <1>3, <1>4 DEF Arbiters, Settles
  <2>3. OnRecord(c, rec)' /\ call'[c].pc # "retire"
    BY <1>2, <1>4, <1>7
  <2>4. r = Loser(call'[c].cur, call'[c].arg)
    BY <1>2, <2>1
  <2> QED
    BY <1>4, <1>6, <2>1, <2>2, <2>3, <2>4 DEF Explains
<1> QED
  BY <1>8, <1>10, <1>11, <1>12, <1>13, RecordsStand

LEMMA RetireLoserStep ==
    ASSUME BaseInv, RulesInv, NEW c \in Calls, Step(c), RetireLoser(c)
    PROVE  RulesInv'
<1> PICK at : at = call[c].cur
  OBVIOUS
<1> PICK w : w = call[c].arg
  OBVIOUS
<1> PICK loser : loser = Loser(at, w)
  OBVIOUS
<1>1. Settles(c) /\ Settling(c)
  BY DEF RetireLoser, Deciding, Settles, Settling
<1>2. CASE NothingStored /\ End(c, "error")
  BY <1>1, <1>2, FailedCall
<1>3. CASE MarkSemanticObsolete(loser) /\ ~UpdateRefused(rule[loser]) /\ Goto(c, "edge")
  <2>1. \A r \in Rules :
           rule'[r].retired = (rule[r].retired \/ (r = loser /\ backend # "neo4jpg" /\ rule[r].stored))
    BY <1>3, RuleRetiredMoves DEF BaseInv
  <2>2. /\ \E rec \in records : rec.pair = at.pair
        /\ w \in at.pair /\ backend # "neo4jpg"
    BY <1>1 DEF RulesInv, SettlingSound, AskedSound, Settling, KeepsConflicts
  <2>3. at.pair \in Contradictions /\ at.pair \subseteq Rules /\ \A r \in at.pair : rule[r].stored
    BY <2>2, PairsAreRules DEF RulesInv, RecordSound
  <2>4. loser \in Rules /\ rule[loser].stored
    BY <2>2, <2>3, LoserOf
  <2>5. rule'[loser].retired /\ \A r \in Rules : rule'[r].retired /\ ~rule[r].retired => r = loser
    BY <2>1, <2>2, <2>4
  <2>6. records' = records
    BY <1>3 DEF MarkSemanticObsolete, OnlyRule
  <2> QED
    BY <1>1, <1>3, <2>5, <2>6, GoesOn
<1> QED
  BY <1>2, <1>3 DEF RetireLoser, Succeeds

LEMMA LinkLoserStep ==
    ASSUME BaseInv, RulesInv, NEW c \in Calls, Step(c), LinkLoser(c)
    PROVE  RulesInv'
<1>1. Settling(c) /\ Goto(c, "settle") /\ call[c].pc = "edge"
  BY DEF LinkLoser, Deciding, Settles, Settling
<1>2. rule' = rule /\ records' = records
  BY DEF LinkLoser, NothingStored, tables, CreateEdge, OnlyEdges
<1>3. rule[Loser(call[c].cur, call[c].arg)].retired
  BY <1>1 DEF RulesInv, SettlingSound
<1> QED
  BY <1>1, <1>2, <1>3, GoesOn

-----------------------------------------------------------------------------
(* A new record.  Its id is new, so nobody has it in hand.                 *)

LEMMA WinnerOf ==
    ASSUME BaseInv, NEW rec, rec.pair \in Contradictions, NEW rows, Snapshot(rows),
           rec.pair \subseteq DOMAIN rows, NEW winner, winner = Winner(rows, rec.pair)
    PROVE  /\ Graded(rows, rec.pair) <=> Graded(rule, rec.pair)
           /\ Graded(rows, rec.pair) => /\ winner \in rec.pair
                                        /\ rule[winner].trust > rule[Loser(rec, winner)].trust
<1>1. PICK a, b \in Rules : a # b /\ rec.pair = {a, b}
  BY PairsAssumption DEF PairsAssumption
<1>2. \A r \in rec.pair : rows[r].trust = rule[r].trust /\ rule[r].trust \in Nat
  <2>1. rule \in [Rules -> RuleRow] /\ rec.pair \subseteq Rules
    BY <1>1 DEF BaseInv, TypeInv, TablesTyped
  <2>2. \A r \in rec.pair : rows[r].trust = rule[r].trust
    BY DEF Snapshot
  <2>3. \A r \in rec.pair : rule[r].trust \in 1..MaxTrust
    BY <2>1 DEF RuleRow, EpisodeRow
  <2>4. MaxTrust \in Nat
    BY DEF MaxTrust
  <2> QED
    BY <2>2, <2>3, <2>4
<1>3. \E r \in rec.pair : \A q \in rec.pair : rows[q].trust <= rows[r].trust
  <2>1. CASE rows[a].trust <= rows[b].trust
    BY <1>1, <1>2, <2>1
  <2>2. CASE rows[b].trust <= rows[a].trust
    BY <1>1, <1>2, <2>2
  <2> QED
    BY <1>1, <1>2, <2>1, <2>2
<1>4. winner \in rec.pair /\ \A q \in rec.pair : rows[q].trust <= rows[winner].trust
  BY <1>3 DEF Winner
<1>5. /\ Loser(rec, winner) \in rec.pair
      /\ \A q \in rec.pair : q # winner => q = Loser(rec, winner)
  BY <1>4, LoserOf
<1>6. Graded(rows, rec.pair) <=> Graded(rule, rec.pair)
  BY <1>2 DEF Graded
<1>7. ASSUME Graded(rows, rec.pair) PROVE rule[winner].trust > rule[Loser(rec, winner)].trust
  <2>1. PICK r, q \in rec.pair : rows[r].trust # rows[q].trust
    BY <1>7 DEF Graded
  <2> PICK loser : loser = Loser(rec, winner)
    OBVIOUS
  <2>2. rows[winner].trust # rows[loser].trust
    BY <1>4, <1>5, <2>1
  <2>3. /\ rows[loser].trust <= rows[winner].trust
        /\ rows[winner].trust = rule[winner].trust /\ rule[winner].trust \in Nat
        /\ rows[loser].trust = rule[loser].trust /\ rule[loser].trust \in Nat
    BY <1>2, <1>4, <1>5
  <2> QED
    BY <2>2, <2>3
<1> QED
  BY <1>4, <1>6, <1>7

(* Where a detection is after it has saved the record of a pair.           *)
PairSaved(c, pair, rec) ==
    /\ rec = NewRecord(c, pair) /\ records' = {r \in records : r.id # rec.id} \cup {rec}
    /\ rule' = rule
    /\ call'[c].op = "detect" /\ call'[c].found = call[c].found
    /\ call'[c].todo = call[c].todo \ {pair}
    /\ \/ /\ Graded(call[c].copy, pair) /\ call'[c].pc = "retire" /\ call'[c].cur = rec
          /\ call'[c].arg = Winner(call[c].copy, pair) /\ call'[c].outcome = "none"
          /\ call'[c].updated = call[c].updated \cup {rec.id}
          /\ call'[c].copy = call[c].copy
       \/ /\ ~Graded(call[c].copy, pair) /\ call'[c].updated = call[c].updated
          /\ \/ call'[c].todo = {} /\ call'[c].pc = "done" /\ call'[c].outcome = "ok"
             \/ /\ call'[c].pc = "pair" /\ call'[c].outcome = "none"
                /\ call'[c].copy = call[c].copy

LEMMA SavePairMoves ==
    ASSUME BaseInv, RulesInv, NEW c \in Calls, Step(c), SavePair(c), ~(NothingStored /\ End(c, "error"))
    PROVE  \E pair \in call[c].todo : \E rec : PairSaved(c, pair, rec)
<1>1. /\ call[c].op = "detect" /\ call[c].pc = "pair" /\ Settles(c)
  BY DEF SavePair, Detecting, At, Settles
<1>2. KeepsConflicts /\ call[c].outcome = "none"
  BY <1>1 DEF RulesInv, AskedSound
<1>3. PICK pair \in call[c].todo :
         /\ SaveRuleConflict(NewRecord(c, pair))
         /\ call' = [call EXCEPT ![c] =
               IF Graded(call[c].copy, pair)
               THEN [[call[c] EXCEPT !.todo = @ \ {pair}] EXCEPT !.pc = "retire",
                       !.cur = NewRecord(c, pair), !.arg = Winner(call[c].copy, pair),
                       !.updated = @ \cup {NewRecord(c, pair).id}]
               ELSE NextPair([call[c] EXCEPT !.todo = @ \ {pair}])]
  BY DEF SavePair
<1> PICK rec : rec = NewRecord(c, pair)
  OBVIOUS
<1>4. records' = {r \in records : r.id # rec.id} \cup {rec} /\ rule' = rule
  BY <1>2, <1>3 DEF SaveRuleConflict, On, KeepsConflicts, Sqlite!SaveRuleConflict,
     Memory!SaveRuleConflict
<1> PICK saved : saved = [call[c] EXCEPT !.todo = @ \ {pair}]
  OBVIOUS
<1>5. /\ DOMAIN saved = Fields /\ saved.op = "detect" /\ saved.found = call[c].found
      /\ saved.todo = call[c].todo \ {pair} /\ saved.copy = call[c].copy
      /\ saved.outcome = "none" /\ saved.updated = call[c].updated
  BY <1>1, <1>2, RuleCallTyped DEF Fields
<1>6. ASSUME Graded(call[c].copy, pair)
      PROVE  /\ call'[c].op = "detect" /\ call'[c].found = call[c].found
             /\ call'[c].todo = call[c].todo \ {pair} /\ call'[c].copy = call[c].copy
             /\ call'[c].pc = "retire" /\ call'[c].cur = rec /\ call'[c].outcome = "none"
             /\ call'[c].arg = Winner(call[c].copy, pair)
             /\ call'[c].updated = call[c].updated \cup {rec.id}
  <2>1. call'[c] = [saved EXCEPT !.pc = "retire", !.cur = rec, !.arg = Winner(call[c].copy, pair),
                                 !.updated = @ \cup {rec.id}]
    BY <1>3, <1>6, RuleCallTyped
  <2> QED
    BY <1>5, <2>1 DEF Fields
<1>7. ASSUME ~Graded(call[c].copy, pair)
      PROVE  /\ call'[c].op = "detect" /\ call'[c].found = call[c].found
             /\ call'[c].todo = call[c].todo \ {pair} /\ call'[c].updated = call[c].updated
             /\ \/ call'[c].todo = {} /\ call'[c].pc = "done" /\ call'[c].outcome = "ok"
                \/ /\ call'[c].pc = "pair" /\ call'[c].outcome = "none"
                   /\ call'[c].copy = call[c].copy
  <2> PICK s : s = call'[c]
    OBVIOUS
  <2>1. s = NextPair(saved)
    BY <1>3, <1>7, RuleCallTyped
  <2>2. PairDone(saved, s)
    BY <1>5, <2>1, NextPairOf
  <2> QED
    BY <1>5, <2>2 DEF PairDone
<1> QED
  BY <1>4, <1>6, <1>7 DEF PairSaved

LEMMA SavePairStep ==
    ASSUME BaseInv, RulesInv, NEW c \in Calls, Step(c), SavePair(c)
    PROVE  RulesInv'
<1>1. /\ call[c].op = "detect" /\ call[c].pc = "pair" /\ Settles(c) /\ Advances(c)
      /\ RulesFrame /\ backend' = backend /\ raced \subseteq raced' /\ Remember(c)
  BY StepKeeps, FrameOfStep DEF SavePair, Detecting, At, Settles, BaseInv, Step, Remember
<1>2. CASE NothingStored /\ End(c, "error")
  BY <1>1, <1>2, FailedCall
<1>3. ASSUME ~(NothingStored /\ End(c, "error")) PROVE RulesInv'
  <2>1. PICK pair \in call[c].todo : \E rec : PairSaved(c, pair, rec)
    BY <1>3, SavePairMoves
  <2>2. PICK rec : PairSaved(c, pair, rec)
    BY <2>1
  <2>3. /\ rec.id = <<c, pair>> /\ rec.pair = pair /\ rec.status = "pending"
        /\ DOMAIN rec = RecordFields /\ ~Settled(rec)
    BY <2>2 DEF PairSaved, NewRecord, RecordFields, Settled
  <2>4. /\ call[c].outcome = "none" /\ KeepsConflicts /\ Snapshot(call[c].copy)
        /\ pair \in call[c].found /\ pair \in Contradictions /\ pair \subseteq DOMAIN call[c].copy
        /\ call[c].todo \subseteq call[c].found
    BY <1>1 DEF RulesInv, AskedSound, DetectSound
  <2>5. \A r \in records : r.id # rec.id
    <3> SUFFICES ASSUME NEW r \in records, r.id = rec.id PROVE FALSE
      OBVIOUS
    <3>1. PICK d \in Calls : r.id = <<d, r.pair>> /\ r.pair \in call[d].found \ call[d].todo
      BY DEF RulesInv, RecordSound
    <3>2. d = c /\ r.pair = pair
      BY <2>3, <3>1
    <3> QED
      BY <3>1, <3>2
  <2>6. records' = records \cup {rec} /\ rule' = rule
    BY <2>2, <2>5 DEF PairSaved
  <2>7. rec \notin records
    BY <2>5
  <2>8. RecordsFrame /\ \A r \in records' : NewShows(c, r)
    <3>1. \A r \in records' : r.pair \in Contradictions
      BY <2>3, <2>4, <2>6 DEF RulesInv, RecordSound
    <3>2. RecordsFrame
      BY <1>1, <2>6 DEF RecordsFrame
    <3> QED
      BY <1>1, <3>1, <3>2, NewPairShows
  <2>9. Arbiters(rec) = {}
    BY <2>5 DEF RulesInv, AskedSound, Arbiters
  <2>10. \A d \in Calls : d # c => d \notin Arbiters(rec)'
    BY <1>1, <2>9, ArbitersOthers
  <2>11. IF Graded(call[c].copy, pair) THEN OnRecord(c, rec)' /\ c \in Arbiters(rec)'
         ELSE c \notin Arbiters(rec)'
    <3>1. CASE Graded(call[c].copy, pair)
      BY <2>2, <3>1 DEF PairSaved, OnRecord, Settling, Settles, Arbiters
    <3>2. CASE ~Graded(call[c].copy, pair)
      <4>1. rec.id \notin call'[c].updated
        BY <1>1, <2>2, <2>9, <3>2 DEF PairSaved, Arbiters
      <4> QED
        BY <3>2, <4>1 DEF Arbiters
    <3> QED
      BY <3>1, <3>2
  <2>12. Arbiters(rec)' \subseteq {c}
    BY <2>10 DEF Arbiters
  <2>13. /\ Graded(call[c].copy, pair) <=> Graded(rule, pair)
         /\ Graded(call[c].copy, pair) =>
              LET winner == Winner(call[c].copy, pair) IN
              winner \in pair /\ rule[winner].trust > rule[Loser(rec, winner)].trust
    BY <2>3, <2>4, WinnerOf
  <2>14. RecordSound(rec)'
    <3>1. pair \in call'[c].found \ call'[c].todo /\ call'[c].op = "detect"
      BY <2>2, <2>4 DEF PairSaved
    <3>2. \A r \in pair : rule'[r].stored
      BY <2>4, <2>6 DEF Snapshot
    <3>3. \A d \in Arbiters(rec)' : OnRecord(d, rec)'
      BY <2>11, <2>12
    <3>4. Graded(rule', pair) => Arbiters(rec)' # {}
      BY <2>6, <2>11, <2>13
    <3> QED
      BY <2>3, <2>4, <3>1, <3>2, <3>3, <3>4 DEF RecordSound, RecordStatuses, Settled
  <2>15. ASSUME NEW old \in records PROVE Leaves(c, old)
    <3>1. ~OnRecord(c, old) /\ (c \in Arbiters(old) => Settled(old))
      BY <1>1, <2>4 DEF OnRecord, Settling, RulesInv, RecordSound
    <3>2. old.id # rec.id
      BY <2>5
    <3>3. ~OnRecord(c, old)'
      BY <2>2, <3>2 DEF PairSaved, OnRecord, Settling
    <3>4. c \in Arbiters(old)' <=> c \in Arbiters(old)
      BY <1>1, <2>2, <3>2 DEF PairSaved, Arbiters, Settles
    <3>5. call[c].found \ call[c].todo \subseteq call'[c].found \ call'[c].todo
      BY <2>2 DEF PairSaved
    <3> QED
      BY <2>4, <3>1, <3>3, <3>4, <3>5 DEF Leaves
  <2>16. SettlingSound(c)'
    <3> SUFFICES ASSUME Settling(c)' PROVE SettlingSound(c)'
      BY DEF SettlingSound
    <3>1. Graded(call[c].copy, pair)
      BY <2>2 DEF PairSaved, Settling
    <3>2. /\ call'[c].pc = "retire" /\ call'[c].cur = rec /\ rec.id \in call'[c].updated
          /\ call'[c].arg = Winner(call[c].copy, pair)
      BY <2>2, <3>1 DEF PairSaved
    <3> QED
      BY <2>3, <2>6, <2>13, <3>1, <3>2 DEF SettlingSound
  <2>17. DetectSound(c)'
    <3>1. /\ call'[c].pc \in {"pair", "retire", "done"}
          /\ call'[c].pc = "done" => call'[c].todo = {}
          /\ call'[c].pc # "done" => call'[c].copy = call[c].copy
          /\ call'[c].found = call[c].found /\ call'[c].todo = call[c].todo \ {pair}
      BY <2>2 DEF PairSaved
    <3>2. /\ DOMAIN call[c].copy \subseteq Rules
          /\ \A q \in DOMAIN call[c].copy : rule'[q].stored /\ call[c].copy[q].trust = rule'[q].trust
      BY <2>4, <2>6 DEF Snapshot
    <3>3. \A p \in call'[c].found : p \in call'[c].todo \/ \E r \in records' : r.pair = p
      BY <1>1, <2>3, <2>6, <3>1 DEF RulesInv, DetectSound
    <3>4. \A p \in call'[c].todo : p \in raced' \/ \A r \in records' : r.pair = p => r.status # "pending"
      BY <1>1, <2>3, <2>6, <3>1 DEF RulesInv, DetectSound, Settled
    <3>5. \A p \in call'[c].found : p \in Contradictions /\ p \subseteq DOMAIN call[c].copy
      BY <1>1, <3>1 DEF RulesInv, DetectSound
    <3>6. call'[c].todo \subseteq call'[c].found
      BY <2>4, <3>1
    <3> QED
      BY <3>1, <3>2, <3>3, <3>4, <3>5, <3>6 DEF DetectSound, DetectPcs, Snapshot, Settled
  <2>18. AskedSound(c)'
    <3>1. /\ call'[c].pc # "done" => call'[c].outcome = "none"
          /\ call'[c].op = "detect" /\ call'[c].updated \subseteq call[c].updated \cup {rec.id}
      BY <2>2 DEF PairSaved
    <3>2. \A id \in call'[c].updated : \E r \in records' : r.id = id
      BY <1>1, <2>6, <3>1 DEF RulesInv, AskedSound
    <3> QED
      BY <1>1, <2>4, <3>1, <3>2 DEF AskedSound, Settles, KeepsConflicts
  <2>19. \A r \in records' : RecordSound(r)'
    BY <1>1, <2>6, <2>14, <2>15, RecordStands DEF RulesInv
  <2>20. \A d \in Calls : SettlingSound(d)' /\ DetectSound(d)' /\ AskedSound(d)'
    BY <1>1, <2>8, <2>16, <2>17, <2>18, SettlingStands, DetectStands, AskedStands DEF RulesInv
  <2>21. ASSUME NEW r \in Rules, rule'[r].retired PROVE \E old \in records' : Explains(r, old)'
    <3>1. PICK old \in records : Explains(r, old)
      BY <2>6, <2>21 DEF RulesInv
    <3> QED
      BY <1>1, <2>6, <2>15, <3>1, ExplainsStands
  <2>22. ASSUME NEW old \in records, old.pair = pair, ~Settled(old) PROVE pair \in raced'
    BY <1>1, <2>22 DEF RulesInv, DetectSound
  <2>23. \A r, q \in records' :
            r # q /\ r.pair = q.pair /\ ~Settled(r) /\ ~Settled(q) => r.pair \in raced'
    BY <1>1, <2>3, <2>6, <2>22 DEF RulesInv
  <2>24. \A r, q \in records' : r.id = q.id => r = q
    BY <2>5, <2>6 DEF RulesInv
  <2> QED
    BY <2>19, <2>20, <2>21, <2>23, <2>24 DEF RulesInv, Settled
<1> QED
  BY <1>2, <1>3

-----------------------------------------------------------------------------
(* A record is settled.                                                    *)

(* Where a call is after it has settled the record old, now new.           *)
RecordSettled(c, old, new) ==
    /\ old \in records /\ old.id = call[c].cur.id
    /\ new = [old EXCEPT !.status = Settlement(call[c].op), !.winner = call[c].arg]
    /\ records' = (records \ {old}) \cup {new} /\ rule' = rule
    /\ PairDone(call[c], call'[c])

LEMMA SettleRecordMoves ==
    ASSUME BaseInv, RulesInv, NEW c \in Calls, Step(c), SettleRecord(c),
           ~(NothingStored /\ End(c, "error"))
    PROVE  \E old, new : RecordSettled(c, old, new)
<1>1. Settling(c) /\ KeepsConflicts
  BY DEF SettleRecord, Deciding, Settling, Settles, RulesInv, AskedSound
<1> PICK id : id = call[c].cur.id
  OBVIOUS
<1> PICK status : status = Settlement(call[c].op)
  OBVIOUS
<1> PICK w : w = call[c].arg
  OBVIOUS
<1>2. ResolveRuleConflict(id, status, w) /\ call' = [call EXCEPT ![c] = NextPair(@)]
  BY DEF SettleRecord
<1>3. rule' = rule
  BY <1>2 DEF ResolveRuleConflict
<1>4. records' = {IF r.id = id THEN [r EXCEPT !.status = status, !.winner = w] ELSE r : r \in records}
  BY <1>1, <1>2 DEF ResolveRuleConflict, On, KeepsConflicts, Sqlite!ResolveRuleConflict,
     Memory!ResolveRuleConflict
<1>5. PICK old \in records : old.id = id
  BY <1>1 DEF RulesInv, SettlingSound
<1> PICK new : new = [old EXCEPT !.status = status, !.winner = w]
  OBVIOUS
<1>6. \A r \in records : r.id = id <=> r = old
  BY <1>5 DEF RulesInv
<1>7. records' = (records \ {old}) \cup {new}
  BY <1>4, <1>5, <1>6
<1>8. PairDone(call[c], call'[c])
  BY <1>2, RuleCallTyped, NextPairOf
<1> QED
  BY <1>3, <1>5, <1>7, <1>8 DEF RecordSettled

LEMMA SettleRecordStep ==
    ASSUME BaseInv, RulesInv, NEW c \in Calls, Step(c), SettleRecord(c)
    PROVE  RulesInv'
<1>1. /\ Settles(c) /\ Settling(c) /\ call[c].pc = "settle" /\ Advances(c)
      /\ RulesFrame /\ backend' = backend /\ raced \subseteq raced'
  BY StepKeeps, FrameOfStep
  DEF SettleRecord, Deciding, Settling, Settles, BaseInv, Step, Remember
<1>2. CASE NothingStored /\ End(c, "error")
  BY <1>1, <1>2, FailedCall
<1>3. ASSUME ~(NothingStored /\ End(c, "error")) PROVE RulesInv'
  <2>1. PICK old, new : RecordSettled(c, old, new)
    BY <1>3, SettleRecordMoves
  <2> PICK at : at = call[c].cur
    OBVIOUS
  <2> PICK w : w = call[c].arg
    OBVIOUS
  <2>2. /\ old \in records /\ old.id = at.id /\ RecordSound(old)
        /\ records' = (records \ {old}) \cup {new} /\ rule' = rule
    BY <2>1 DEF RecordSettled, RulesInv
  <2>3. /\ call'[c].op = call[c].op /\ call'[c].updated = call[c].updated
        /\ call'[c].found = call[c].found /\ call'[c].todo = call[c].todo
        /\ \/ call'[c].todo = {} /\ call'[c].pc = "done" /\ call'[c].outcome = "ok"
           \/ /\ call'[c].pc = "pair" /\ call'[c].outcome = call[c].outcome
              /\ call'[c].copy = call[c].copy
    BY <2>1 DEF RecordSettled, PairDone
  <2>4. /\ at.id \in call[c].updated /\ w \in at.pair /\ rule[Loser(at, w)].retired
        /\ call[c].op = "detect" => rule[w].trust > rule[Loser(at, w)].trust
        /\ \E rec \in records : rec.id = at.id /\ rec.pair = at.pair
        /\ call[c].outcome = "none" /\ KeepsConflicts
    BY <1>1 DEF RulesInv, SettlingSound, AskedSound
  <2>5. \A rec \in records : rec.id = at.id <=> rec = old
    BY <2>2 DEF RulesInv
  <2>6. /\ new.id = old.id /\ new.pair = old.pair /\ DOMAIN new = RecordFields
        /\ new.status = Settlement(call[c].op) /\ new.winner = w
    BY <2>1, <2>2 DEF RecordSettled, RecordSound, RecordFields
  <2>7. /\ new.status \in RecordStatuses /\ Settled(new)
        /\ new.status = "auto_resolved" => call[c].op = "detect"
    BY <2>6 DEF Settlement, RecordStatuses, Settled
  <2>8. new.pair = at.pair /\ Loser(new, w) = Loser(at, w)
    BY <2>2, <2>4, <2>5, <2>6 DEF Loser
  <2>9. \A d \in Calls : d \in Arbiters(new)' <=> d \in Arbiters(old)
    BY <1>1, <2>3, <2>6 DEF Advances, Arbiters, Settles
  <2>10. c \in Arbiters(old) /\ Arbiters(old) \subseteq Calls /\ Arbiters(new)' \subseteq Calls
    BY <1>1, <2>2, <2>4 DEF Arbiters
  <2>11. ~Settling(c)'
    BY <2>3 DEF Settling
  <2>12. RecordSound(new)'
    <3>1. \E d \in Calls : /\ new.id = <<d, new.pair>> /\ call'[d].op = "detect"
                           /\ new.pair \in call'[d].found \ call'[d].todo
      <4>1. PICK d \in Calls : /\ old.id = <<d, old.pair>> /\ call[d].op = "detect"
                              /\ old.pair \in call[d].found \ call[d].todo
        BY <2>2 DEF RecordSound
      <4>2. call'[d].op = "detect" /\ old.pair \in call'[d].found \ call'[d].todo
        BY <1>1, <2>3, <4>1 DEF Advances
      <4> QED
        BY <2>6, <4>1, <4>2
    <3>2. new.pair \in Contradictions /\ \A r \in new.pair : rule'[r].stored
      BY <2>2, <2>6 DEF RecordSound
    <3>3. /\ w \in new.pair /\ rule'[Loser(new, w)].retired
          /\ new.status = "auto_resolved" => rule'[w].trust > rule'[Loser(new, w)].trust
      BY <2>2, <2>4, <2>7, <2>8
    <3>4. /\ Arbiters(new)' # {}
          /\ \A d \in Arbiters(new)' : OnRecord(d, new)' => \E e \in Arbiters(new)' : e # d
      BY <2>9, <2>10, <2>11 DEF OnRecord
    <3> QED
      BY <2>6, <2>7, <3>1, <3>2, <3>3, <3>4 DEF RecordSound, Settled
  <2>13. ASSUME NEW rec \in records, rec # old PROVE Leaves(c, rec)
    <3>1. ~OnRecord(c, rec) /\ (c \in Arbiters(rec) => Settled(rec))
      BY <2>4, <2>5, <2>13 DEF OnRecord, RulesInv, RecordSound
    <3>2. ~OnRecord(c, rec)'
      BY <2>11 DEF OnRecord
    <3>3. c \in Arbiters(rec)' <=> c \in Arbiters(rec)
      BY <2>3 DEF Arbiters, Settles
    <3> QED
      BY <2>3, <2>4, <3>1, <3>2, <3>3 DEF Leaves
  <2>14. ASSUME NEW r, Explains(r, old) PROVE Explains(r, new)'
    <3>1. r \in new.pair
      BY <2>6, <2>14 DEF Explains
    <3>2. CASE r # w
      BY <2>6, <2>7, <3>1, <3>2 DEF Explains, Settled
    <3>3. CASE \E d, e \in Arbiters(old) : d # e
      <4>1. \E d, e \in Arbiters(new)' : d # e
        BY <2>9, <2>10, <3>3
      <4> QED
        BY <3>1, <4>1 DEF Explains
    <3>4. CASE r = w /\ \A d \in Arbiters(old) : d = c
      <4>1. ~Settled(old)
        BY <1>1, <2>2, <2>10, <3>4 DEF RecordSound, OnRecord
      <4>2. Loser(at, w) # w
        BY <2>2, <2>4, <2>6, <2>8, LoserOf DEF RecordSound
      <4> QED
        BY <2>4, <2>14, <3>4, <4>1, <4>2 DEF Explains
    <3> QED
      BY <2>10, <3>2, <3>3, <3>4
  <2>15. RecordsFrame /\ \A rec \in records' : NewShows(c, rec)
    <3>1. RecordsFrame
      BY <1>1, <2>2, <2>6 DEF RecordsFrame
    <3>2. \A rec \in records' : Settled(rec) \/ rec \in records
      BY <2>2, <2>7
    <3> QED
      BY <3>1, <3>2 DEF NewShows
  <2>16. SettlingSound(c)'
    BY <2>11 DEF SettlingSound
  <2>17. DetectSound(c)'
    <3> SUFFICES ASSUME call[c].op = "detect" PROVE DetectSound(c)'
      BY <2>3 DEF DetectSound
    <3> PICK rows : rows = call[c].copy
      OBVIOUS
    <3>1. /\ Snapshot(rows) /\ call[c].todo \subseteq call[c].found
          /\ \A pair \in call[c].found : pair \in Contradictions /\ pair \subseteq DOMAIN rows
      BY <1>1 DEF RulesInv, DetectSound
    <3>2. /\ DOMAIN rows \subseteq Rules
          /\ \A q \in DOMAIN rows : rule'[q].stored /\ rows[q].trust = rule'[q].trust
      BY <2>2, <3>1 DEF Snapshot
    <3>3. \A pair \in call[c].found : pair \in call[c].todo \/ \E rec \in records' : rec.pair = pair
      BY <2>15 DEF RulesInv, DetectSound, RecordsFrame
    <3>4. \A pair \in call[c].todo :
             pair \in raced' \/ \A rec \in records' : rec.pair = pair => rec.status # "pending"
      BY <1>1, <2>2, <2>7 DEF RulesInv, DetectSound, Settled
    <3> QED
      BY <2>3, <3>1, <3>2, <3>3, <3>4 DEF DetectSound, DetectPcs, Snapshot, Settled
  <2>18. AskedSound(c)'
    <3>1. \A id \in call'[c].updated : \E rec \in records' : rec.id = id
      BY <1>1, <2>3, <2>15 DEF RulesInv, AskedSound, RecordsFrame
    <3> QED
      BY <1>1, <2>3, <2>4, <3>1 DEF AskedSound, Settles, KeepsConflicts
  <2>19. \A rec \in records' : RecordSound(rec)'
    BY <1>1, <2>2, <2>12, <2>13, RecordStands DEF RulesInv
  <2>20. \A d \in Calls : SettlingSound(d)' /\ DetectSound(d)' /\ AskedSound(d)'
    BY <1>1, <2>15, <2>16, <2>17, <2>18, SettlingStands, DetectStands, AskedStands DEF RulesInv
  <2>21. ASSUME NEW r \in Rules, rule'[r].retired PROVE \E rec \in records' : Explains(r, rec)'
    <3>1. PICK rec \in records : Explains(r, rec)
      BY <2>2, <2>21 DEF RulesInv
    <3>2. CASE rec = old
      BY <2>2, <2>14, <3>1, <3>2
    <3>3. CASE rec # old
      BY <1>1, <2>2, <2>13, <3>1, <3>3, ExplainsStands
    <3> QED
      BY <3>2, <3>3
  <2>22. \A r, q \in records' :
            r # q /\ r.pair = q.pair /\ ~Settled(r) /\ ~Settled(q) => r.pair \in raced'
    BY <1>1, <2>2, <2>7 DEF RulesInv
  <2>23. \A r, q \in records' : r.id = q.id => r = q
    BY <2>2, <2>5, <2>6 DEF RulesInv
  <2> QED
    BY <2>19, <2>20, <2>21, <2>22, <2>23 DEF RulesInv, Settled
<1> QED
  BY <1>2, <1>3

-----------------------------------------------------------------------------
(* The invariant holds from the first decision on.                         *)

LEMMA RulesStart == Init => RulesInv
<1> SUFFICES ASSUME Init PROVE RulesInv
  OBVIOUS
<1>1. PICK w \in Workloads : call = w.calls /\ records = w.records /\ rule = w.rule
  BY DEF Init
<1>2. records = {} /\ \A r \in Rules : ~rule[r].retired
  BY <1>1, DecisionsAssumption DEF DecisionsAssumption
<1>3. ASSUME NEW c \in Calls, Settles(c)
      PROVE  /\ call[c].pc = "start" /\ call[c].outcome = "none" /\ call[c].updated = {}
             /\ call[c].found = {} /\ call[c].todo = {}
  <2>1. IsRequest(call[c], w)
    BY <1>1, WorkloadsAssumption DEF WorkloadsAssumption
  <2>2. Ended(Idle("none", NoId, "none"), "ok").op = "none"
    BY DEF Ended, Idle
  <2>3. call[c] = Idle(call[c].op, call[c].id, call[c].arg)
    BY <1>3, <2>1, <2>2 DEF IsRequest, Settles
  <2> QED
    BY <2>3 DEF Idle
<1>4. \A c \in Calls : SettlingSound(c) /\ DetectSound(c) /\ AskedSound(c)
  BY <1>3 DEF SettlingSound, Settling, DetectSound, DetectPcs, AskedSound, Settles
<1> QED
  BY <1>2, <1>4 DEF RulesInv

LEMMA RulesStep ==
    ASSUME BaseInv, RulesInv, NEW c \in Calls, Step(c)
    PROVE  RulesInv'
BY OtherCallStep, DetectRulesStep, DetectListStep, SavePairStep, ResolveReadStep,
   RetireLoserStep, LinkLoserStep, SettleRecordStep DEF RuleStep

LEMMA RulesInductive == BaseInv /\ RulesInv /\ [Next]_vars => RulesInv'
<1> SUFFICES ASSUME BaseInv, RulesInv, [Next]_vars PROVE RulesInv'
  OBVIOUS
<1>1. CASE UNCHANGED <<backend, rule, records, call, raced>>
  <2>1. \A rec : /\ RecordSound(rec) => RecordSound(rec)'
                 /\ \A r : Explains(r, rec) => Explains(r, rec)'
    BY <1>1 DEF RecordSound, Explains, Arbiters, OnRecord, Settling, Settles, Settled
  <2>2. \A c \in Calls : SettlingSound(c)' /\ AskedSound(c)'
    BY <1>1 DEF RulesInv, SettlingSound, AskedSound, Settling, Settles, KeepsConflicts
  <2>3. ASSUME NEW c \in Calls PROVE DetectSound(c)'
    <3> PICK r : r = call[c]
      OBVIOUS
    <3>1. Snapshot(r.copy) => Snapshot(r.copy)'
      BY <1>1 DEF Snapshot
    <3> QED
      BY <1>1, <3>1 DEF RulesInv, DetectSound, Settled, Snapshot
  <2> QED
    BY <1>1, <2>1, <2>2, <2>3 DEF RulesInv, Settled
<1>2. UNCHANGED vars \/ Expire => UNCHANGED <<backend, rule, records, call, raced>>
  BY DEF vars, history, storeVars, tables, Expire, CacheExpires
<1> QED
  BY <1>1, <1>2, RulesStep DEF Next, Terminated

LEMMA Arbitrating == Spec => []RulesInv
<1>1. Init /\ []BaseInv /\ [][Next]_vars => []RulesInv
  BY RulesStart, RulesInductive, PTL
<1> QED
  BY <1>1, Basis, PTL DEF Spec

(* Whoever has, or had, a record in hand is one of its deciders.           *)
LEMMA ArbitersDecide == \A rec : Arbiters(rec) \subseteq Deciders(rec)
BY DEF Arbiters, Deciders

(* However many detections and resolutions overlap, and wherever they      *)
(* fail: the loser of a settled record is retired, grading by source let   *)
(* the greater trust win, and behind every retired rule stands a record    *)
(* that was settled against it, is being settled, or was left half settled *)
(* by an error or by a second decision.                                    *)
THEOREM DecisionsAdjudicated == Spec => []Adjudicated
<1>1. RulesInv => Adjudicated
  <2> SUFFICES ASSUME RulesInv PROVE Adjudicated
    OBVIOUS
  <2>1. ASSUME NEW rec \in records, Settled(rec)
        PROVE  /\ rule[Loser(rec, rec.winner)].retired
               /\ rec.status = "auto_resolved" =>
                     rule[rec.winner].trust > rule[Loser(rec, rec.winner)].trust
    BY <2>1 DEF RulesInv, RecordSound
  <2>2. ASSUME NEW r \in Rules, rule[r].retired
        PROVE  \E rec \in records :
                  /\ r \in rec.pair
                  /\ \/ Settled(rec) /\ rec.winner # r
                     \/ \E c \in Deciders(rec) : call[c].outcome # "ok" \/ Deciders(rec) # {c}
    <3>1. PICK rec \in records : Explains(r, rec)
      BY <2>2 DEF RulesInv
    <3>2. r \in rec.pair
      BY <3>1 DEF Explains
    <3>3. CASE Settled(rec) /\ rec.winner # r
      BY <3>2, <3>3
    <3>4. CASE \E c \in Arbiters(rec) : call[c].outcome = "error"
      <4>1. \E c \in Deciders(rec) : call[c].outcome # "ok"
        BY <3>4, ArbitersDecide
      <4> QED
        BY <3>2, <4>1
    <3>5. CASE \E c, d \in Arbiters(rec) : c # d
      <4>1. \E c \in Deciders(rec) : Deciders(rec) # {c}
        BY <3>5, ArbitersDecide
      <4> QED
        BY <3>2, <4>1
    <3>6. CASE \E c \in Arbiters(rec) : OnRecord(c, rec)
      <4>1. PICK c \in Arbiters(rec) : OnRecord(c, rec)
        BY <3>6
      <4>2. call[c].outcome = "none"
        BY <4>1 DEF RulesInv, AskedSound, Arbiters, OnRecord, Settling
      <4>3. \E d \in Deciders(rec) : call[d].outcome # "ok"
        BY <4>1, <4>2, ArbitersDecide
      <4> QED
        BY <3>2, <4>3
    <3> QED
      BY <3>1, <3>3, <3>4, <3>5, <3>6 DEF Explains
  <2> QED
    BY <2>1, <2>2 DEF Adjudicated
<1> QED
  BY <1>1, Arbitrating, PTL

(* Every contradiction an answered detection read has a record; a second   *)
(* pending record of a pair means that detections overlapped on it; and    *)
(* where the trust of the rules differs, a pending record is one whose     *)
(* settlement failed or is under way.                                      *)
THEOREM DetectionsTracked == Spec => []DetectedIsTracked
<1>1. RulesInv => DetectedIsTracked
  <2> SUFFICES ASSUME RulesInv PROVE DetectedIsTracked
    OBVIOUS
  <2>1. ASSUME NEW c \in Calls, At(c, "detect", "done"), call[c].outcome = "ok",
               NEW pair \in call[c].found
        PROVE  \E rec \in records : rec.pair = pair
    BY <2>1 DEF RulesInv, DetectSound, At
  <2>2. \A r, s \in records :
           r # s /\ r.pair = s.pair /\ ~Settled(r) /\ ~Settled(s) => r.pair \in raced
    BY DEF RulesInv
  <2>3. ASSUME NEW rec \in records, ~Settled(rec),
               \E a, b \in rec.pair : rule[a].trust # rule[b].trust
        PROVE  \E c \in Deciders(rec) : call[c].outcome # "ok"
    <3>1. PICK c \in Arbiters(rec) : call[c].outcome = "error" \/ OnRecord(c, rec)
      BY <2>3 DEF RulesInv, RecordSound, Graded
    <3>2. call[c].outcome # "ok"
      BY <3>1 DEF RulesInv, AskedSound, Arbiters, OnRecord, Settling
    <3> QED
      BY <3>1, <3>2, ArbitersDecide
  <2> QED
    BY <2>1, <2>2, <2>3 DEF DetectedIsTracked
<1> QED
  BY <1>1, Arbitrating, PTL
=============================================================================
