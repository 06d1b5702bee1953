---------------------------- MODULE MemoryStore -----------------------------
(***************************************************************************)
(* The store the tools work on: its tables, which of the three backends    *)
(* holds them, and every method of the MemoryStore interface a maintenance *)
(* tool calls, as an action of its own.  A method answers with an error    *)
(* when the backend refuses it, and, but for the in-process backend, when  *)
(* the disk or the connection fails; an error changes nothing.             *)
(*                                                                         *)
(* The SQLite backend remembers the answer of a search without embedding   *)
(* in its hot cache; of those only the pool LinkOnWrite asks for occurs    *)
(* here, so one entry is kept.  It expires, or is evicted, at any time.    *)
(***************************************************************************)
EXTENDS MemoryModels, FiniteSets

CONSTANTS
    Episodes, Rules, Pitfalls,   \* the ids of the three kinds of memory
    NoPool,                      \* the hot cache has no entry
    MaxFaults                    \* bound on failures of the disk or connection

ASSUME IdsAssumption ==
    /\ Episodes \cap Rules = {} /\ Episodes \cap Pitfalls = {} /\ Rules \cap Pitfalls = {}
    /\ IsFiniteSet(Episodes)
    /\ MaxFaults \in Nat

VARIABLES
    backend,                     \* chosen by store.backend when the process starts
    episode, rule, pitfall,      \* the three tables
    edges,                       \* memory_edges
    records,                     \* rule_conflicts
    runs,                        \* consolidation_runs
    hot,                         \* the cached pool of SQLite's SearchEpisodic
    faults

tables == <<episode, rule, pitfall, edges, records, runs, hot>>
storeVars == <<backend, tables, faults>>

Sqlite == INSTANCE SqliteStore
Memory == INSTANCE InMemoryStore
Neo4j == INSTANCE Neo4jStore

Backends == {"sqlite", "memory", "neo4jpg"}
On(s, m, n) == CASE backend = "sqlite" -> s [] backend = "memory" -> m [] OTHER -> n

(* Only SQLite and the in-process store implement RuleConflictStore.       *)
KeepsConflicts == backend \in {"sqlite", "memory"}

Succeeds(refused) == ~refused /\ UNCHANGED faults
Fails(refused) ==
    \/ refused /\ UNCHANGED faults
    \/ ~refused /\ backend # "memory" /\ faults < MaxFaults /\ faults' = faults + 1
WriteRefused(row) ==
    On(Sqlite!WriteRefused(row), Memory!WriteRefused(row), Neo4j!WriteRefused(row))
UpdateRefused(row) ==
    On(Sqlite!UpdateRefused(row), Memory!UpdateRefused(row), Neo4j!UpdateRefused(row))

NothingStored == UNCHANGED tables
OnlyEpisode == UNCHANGED <<rule, pitfall, edges, records, runs, hot>>
OnlyRule == UNCHANGED <<episode, pitfall, edges, records, runs, hot>>
OnlyPitfall == UNCHANGED <<episode, rule, edges, records, runs, hot>>
OnlyEdges == UNCHANGED <<episode, rule, pitfall, records, runs, hot>>

-----------------------------------------------------------------------------
WriteEpisodic(m, row) ==
    /\ episode' = [episode EXCEPT ![m] = On(Sqlite!WriteEpisodic(@, row),
                      Memory!WriteEpisodic(@, row), Neo4j!WriteEpisodic(@, row))]
    /\ OnlyEpisode

UpdateEpisodicWeight(m, w, f) ==
    /\ episode' = [episode EXCEPT ![m] = On(Sqlite!UpdateEpisodicWeight(@, w, f),
                      Memory!UpdateEpisodicWeight(@, w, f), Neo4j!UpdateEpisodicWeight(@, w, f))]
    /\ OnlyEpisode

MarkObsolete(m) ==
    /\ episode' = [episode EXCEPT ![m] = On(Sqlite!MarkObsolete(@),
                      Memory!MarkObsolete(@), Neo4j!MarkObsolete(@))]
    /\ OnlyEpisode

(* Mutant: the delete leaves the hot cache as it is.                       *)
DeleteKeepingCache ==
    /\ episode' = On(Sqlite!DeleteEpisodicByProject(episode),
                     Memory!DeleteEpisodicByProject(episode), episode)
    /\ OnlyEpisode

DeleteEpisodicByProject ==
    /\ episode' = On(Sqlite!DeleteEpisodicByProject(episode),
                     Memory!DeleteEpisodicByProject(episode), episode)
    /\ hot' = NoPool
    /\ UNCHANGED <<rule, pitfall, edges, records, runs>>

SearchEpisodic ==
    On(Sqlite!SearchEpisodic(episode), Memory!SearchEpisodic(episode), Neo4j!SearchEpisodic(episode))
SearchSimilar ==
    On(Sqlite!SearchSimilar(episode), Memory!SearchSimilar(episode), Neo4j!SearchSimilar(episode))
ScanRecent ==
    On(Sqlite!ScanRecent(episode), Memory!ScanRecent(episode), Neo4j!ScanRecent(episode))

(* What a search without embedding answers: the entry of the hot cache if  *)
(* there is one.                                                           *)
Pool == IF backend = "sqlite" /\ hot # NoPool THEN hot ELSE SearchEpisodic
RememberPool ==
    /\ hot' = IF backend = "sqlite" THEN Pool ELSE hot
    /\ UNCHANGED <<episode, rule, pitfall, edges, records, runs>>

CacheExpires ==
    /\ hot # NoPool
    /\ hot' = NoPool
    /\ UNCHANGED <<backend, episode, rule, pitfall, edges, records, runs, faults>>

WriteSemantic(r, row) ==
    /\ rule' = [rule EXCEPT ![r] = On(Sqlite!WriteSemantic(@, row),
                   Memory!WriteSemantic(@, row), Neo4j!WriteSemantic(@, row))]
    /\ OnlyRule

UpdateSemanticWeight(r, w, f) ==
    /\ rule' = [rule EXCEPT ![r] = On(Sqlite!UpdateSemanticWeight(@, w, f),
                   Memory!UpdateSemanticWeight(@, w, f), Neo4j!UpdateSemanticWeight(@, w, f))]
    /\ OnlyRule

MarkSemanticObsolete(r) ==
    /\ rule' = [rule EXCEPT ![r] = On(Sqlite!MarkSemanticObsolete(@),
                                      Memory!MarkSemanticObsolete(@), @)]
    /\ OnlyRule

SearchSemantic ==
    On(Sqlite!SearchSemantic(rule), Memory!SearchSemantic(rule), Neo4j!SearchSemantic(rule))

WritePitfall(p, row) ==
    /\ pitfall' = [pitfall EXCEPT ![p] = On(Sqlite!WritePitfall(@, row),
                      Memory!WritePitfall(@, row), Neo4j!WritePitfall(@, row))]
    /\ OnlyPitfall

UpdatePitfallWeight(p, w) ==
    /\ pitfall' = [pitfall EXCEPT ![p] = On(Sqlite!UpdatePitfallWeight(@, w),
                      Memory!UpdatePitfallWeight(@, w), Neo4j!UpdatePitfallWeight(@, w))]
    /\ OnlyPitfall

UpdatePitfallStatus(p, status) ==
    /\ pitfall' = [pitfall EXCEPT ![p] = On(Sqlite!UpdatePitfallStatus(@, status),
                      Memory!UpdatePitfallStatus(@, status), Neo4j!UpdatePitfallStatus(@, status))]
    /\ OnlyPitfall

AddPitfallCounters(p, s, t) ==
    /\ pitfall' = [pitfall EXCEPT ![p] = On(Sqlite!AddPitfallCounters(@, s, t),
                      Memory!AddPitfallCounters(@, s, t), Neo4j!AddPitfallCounters(@, s, t))]
    /\ OnlyPitfall

ApplyPitfallFeedback(p, action) ==
    /\ pitfall' = [pitfall EXCEPT ![p] = On(Sqlite!ApplyPitfallFeedback(@, action),
                      Memory!ApplyPitfallFeedback(@, action), Neo4j!ApplyPitfallFeedback(@, action))]
    /\ OnlyPitfall

TouchPitfall(p) ==
    /\ pitfall' = [pitfall EXCEPT ![p] = On(Sqlite!TouchPitfall(@), Memory!TouchPitfall(@),
                                            Neo4j!TouchPitfall(@))]
    /\ OnlyPitfall

SearchPitfall(w) ==
    On(Sqlite!SearchPitfall(pitfall, w), Memory!SearchPitfall(pitfall, w),
       Neo4j!SearchPitfall(pitfall, w))
SearchPitfallByEntity ==
    On(Sqlite!SearchPitfallByEntity(pitfall), Memory!SearchPitfallByEntity(pitfall),
       Neo4j!SearchPitfallByEntity(pitfall))

Edge(from, to, type) == [from |-> from, to |-> to, type |-> type]
Nodes ==
    {m \in Episodes : episode[m].stored} \cup {r \in Rules : rule[r].stored}
        \cup {p \in Pitfalls : pitfall[p].stored}
CreateEdge(from, to, type) ==
    /\ edges' = On(Sqlite!CreateEdge(edges, Edge(from, to, type), Nodes),
                   Memory!CreateEdge(edges, Edge(from, to, type), Nodes),
                   Neo4j!CreateEdge(edges, Edge(from, to, type), Nodes))
    /\ OnlyEdges
GetEdges(id, type, direction) ==
    On(Sqlite!GetEdges(edges, id, type, direction), Memory!GetEdges(edges, id, type, direction),
       Neo4j!GetEdges(edges, id, type, direction))

ListRuleConflicts ==
    On(Sqlite!ListRuleConflicts(records), Memory!ListRuleConflicts(records), {})
SaveRuleConflict(rec) ==
    /\ records' = On(Sqlite!SaveRuleConflict(records, rec),
                     Memory!SaveRuleConflict(records, rec), records)
    /\ UNCHANGED <<episode, rule, pitfall, edges, runs, hot>>
ResolveRefused(id) ==
    On(Sqlite!ResolveRefused(records, id), Memory!ResolveRefused(records, id), TRUE)
ResolveRuleConflict(id, status, winner) ==
    /\ records' = On(Sqlite!ResolveRuleConflict(records, id, status, winner),
                     Memory!ResolveRuleConflict(records, id, status, winner), records)
    /\ UNCHANGED <<episode, rule, pitfall, edges, runs, hot>>

SaveRunRefused(run) == backend = "neo4jpg" /\ \E r \in runs : r.id = run.id
SaveConsolidationRun(run) ==
    /\ runs' = On(Sqlite!SaveConsolidationRun(runs, run),
                  Memory!SaveConsolidationRun(runs, run), Neo4j!SaveConsolidationRun(runs, run))
    /\ UNCHANGED <<episode, rule, pitfall, edges, records, hot>>
=============================================================================
