----------------------------- MODULE Neo4jStore -----------------------------
(***************************************************************************)
(* The methods of MemoryStore as the Neo4j and pgvector backend implements *)
(* them: one write transaction each.  It keeps no conflict records and     *)
(* deletes nothing.                                                        *)
(***************************************************************************)
EXTENDS MemoryModels, FiniteSets

(* Every write is a CREATE, and ids are unique by constraint: a node that  *)
(* is there cannot be written again.                                       *)
WriteRefused(old) == old.stored
WriteEpisodic(old, new) == new
WriteSemantic(old, new) == new
WritePitfall(old, new) == [new EXCEPT !.status = Normalize(@)]

(* A MATCH that finds no node sets nothing and is no error.                *)
UpdateRefused(row) == FALSE
Matched(row, new) == IF row.stored THEN new ELSE row

UpdateEpisodicWeight(row, w, f) == Matched(row, [row EXCEPT !.weight = w, !.freq = f])
MarkObsolete(row) == Matched(row, [row EXCEPT !.retired = TRUE])
UpdateSemanticWeight(row, w, f) == Matched(row, [row EXCEPT !.weight = w, !.freq = f])
UpdatePitfallWeight(row, w) == Matched(row, [row EXCEPT !.weight = w])
UpdatePitfallStatus(row, status) == Matched(row, [row EXCEPT !.status = Normalize(status)])
TouchPitfall(row) == Matched(row, [row EXCEPT !.occurrences = @ + 1])
AddPitfallCounters(row, shown, suppressed) ==
    Matched(row, [row EXCEPT !.shown = @ + shown, !.suppressed = @ + suppressed])

(* Neither the weight nor the protection level is bounded.                 *)
ApplyPitfallFeedback(row, action) ==
    Matched(row,
        [row EXCEPT !.weight = @ + WeightDelta(action),
                    !.adopted = IF action = "adopted" THEN @ + 1 ELSE @,
                    !.protection = IF action = "recurred" THEN @ + 1 ELSE @])

(* The rows a similarity search answers come from Neo4j, which holds no    *)
(* vectors: a caller that needs one skips them all.                        *)
SearchEpisodic(rows) == {m \in DOMAIN rows : rows[m].stored /\ ~rows[m].retired}
SearchSimilar(rows) == {}
ScanRecent(rows) == {m \in DOMAIN rows : rows[m].stored /\ ~rows[m].retired}
SearchSemantic(rows) == {r \in DOMAIN rows : rows[r].stored}
SearchPitfall(rows, minWeight) ==
    {p \in DOMAIN rows : /\ rows[p].stored /\ ~rows[p].retired
                         /\ minWeight > 0 => rows[p].weight >= minWeight}
SearchPitfallByEntity(rows) ==
    {p \in DOMAIN rows : rows[p].stored /\ ~rows[p].retired /\ ~rows[p].moved}

(* An edge needs both its nodes, and only "", "out" and "in" are words     *)
(* GetEdges knows: any other finds nothing.                                *)
CreateEdge(edges, edge, nodes) ==
    IF {edge.from, edge.to} \subseteq nodes THEN edges \cup {edge} ELSE edges
GetEdges(edges, id, type, direction) ==
    {e \in edges : /\ e.type = type
                   /\ \/ direction \in {"", "out"} /\ e.from = id
                      \/ direction \in {"", "in"} /\ e.to = id}

SaveConsolidationRun(runs, run) == runs \cup {run}
=============================================================================
