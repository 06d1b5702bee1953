--------------------------- MODULE InMemoryStore ----------------------------
(***************************************************************************)
(* The methods of MemoryStore as the in-process backend of tests and of    *)
(* store.backend = "memory" implements them: maps of copies under one      *)
(* mutex.  It cannot fail but for a row that is not there.                 *)
(***************************************************************************)
EXTENDS MemoryModels, FiniteSets

WriteRefused(old) == FALSE
WriteEpisodic(old, new) == new
WriteSemantic(old, new) == new
WritePitfall(old, new) == new

(* An update of a missing row is an error.                                 *)
UpdateRefused(row) == ~row.stored

UpdateEpisodicWeight(row, w, f) == [row EXCEPT !.weight = w, !.freq = f]
MarkObsolete(row) == [row EXCEPT !.retired = TRUE]
UpdateSemanticWeight(row, w, f) == [row EXCEPT !.weight = w, !.freq = f]
MarkSemanticObsolete(row) == [row EXCEPT !.retired = TRUE]
UpdatePitfallWeight(row, w) == [row EXCEPT !.weight = w]
UpdatePitfallStatus(row, status) ==
    [row EXCEPT !.status = Normalize(status), !.retired = @ \/ status = "obsolete"]
TouchPitfall(row) == [row EXCEPT !.occurrences = @ + 1]

AddPitfallCounters(row, shown, suppressed) ==
    [row EXCEPT !.shown = IF shown > 0 THEN @ + shown ELSE @,
                !.suppressed = IF suppressed > 0 THEN @ + suppressed ELSE @]

ApplyPitfallFeedback(row, action) ==
    [row EXCEPT !.weight = Clamped(@ + WeightDelta(action)),
                !.adopted = IF action = "adopted" THEN @ + 1 ELSE @,
                !.protection = IF action = "recurred" THEN Least(ProtectionLevelMax, @ + 1) ELSE @]

Active(rows) == {i \in DOMAIN rows : rows[i].stored /\ ~rows[i].retired}
SearchEpisodic(rows) == Active(rows)
SearchSimilar(rows) == Active(rows)
ScanRecent(rows) == Active(rows)
SearchSemantic(rows) == {r \in DOMAIN rows : rows[r].stored}
SearchPitfall(rows, minWeight) ==
    {p \in Active(rows) : minWeight > 0 => rows[p].weight >= minWeight}
SearchPitfallByEntity(rows) == {p \in Active(rows) : ~rows[p].moved}

CreateEdge(edges, edge, nodes) == edges \cup {edge}
GetEdges(edges, id, type, direction) ==
    {e \in edges : /\ e.type = type
                   /\ direction = "out" => e.from = id
                   /\ direction = "in" => e.to = id
                   /\ e.from = id \/ e.to = id}

DeleteEpisodicByProject(rows) == [m \in DOMAIN rows |-> NoEpisode]

SaveConsolidationRun(runs, run) == {r \in runs : r.id # run.id} \cup {run}
SaveRuleConflict(records, rec) == {r \in records : r.id # rec.id} \cup {rec}
ResolveRefused(records, id) == \A r \in records : r.id # id
ResolveRuleConflict(records, id, status, winner) ==
    {IF r.id = id THEN [r EXCEPT !.status = status, !.winner = winner] ELSE r : r \in records}
ListRuleConflicts(records) == records
=============================================================================
