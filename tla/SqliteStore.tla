---------------------------- MODULE SqliteStore -----------------------------
(***************************************************************************)
(* The methods of MemoryStore as the SQLite backend implements them, each  *)
(* as its effect on the rows it names.  A method is one statement under    *)
(* the store's mutex; that the disk may refuse it is added by MemoryStore. *)
(***************************************************************************)
EXTENDS MemoryModels, FiniteSets

(* INSERT OR REPLACE takes any row, also one that is already there.        *)
WriteRefused(old) == FALSE
WriteEpisodic(old, new) == new
WriteSemantic(old, new) == new
WritePitfall(old, new) == [new EXCEPT !.status = Normalize(@)]

(* An UPDATE that matches no row is no error.                              *)
UpdateRefused(row) == FALSE
Updated(row, new) == IF row.stored THEN new ELSE row

UpdateEpisodicWeight(row, w, f) == Updated(row, [row EXCEPT !.weight = w, !.freq = f])
MarkObsolete(row) == Updated(row, [row EXCEPT !.retired = TRUE])
UpdateSemanticWeight(row, w, f) == Updated(row, [row EXCEPT !.weight = w, !.freq = f])
MarkSemanticObsolete(row) == Updated(row, [row EXCEPT !.retired = TRUE])
UpdatePitfallWeight(row, w) == Updated(row, [row EXCEPT !.weight = w])
UpdatePitfallStatus(row, status) == Updated(row, [row EXCEPT !.status = Normalize(status)])
(* last_occurred_at moves; the occurrence is not counted.                  *)
TouchPitfall(row) == row

NotNegative(n) == IF n < 0 THEN 0 ELSE n
AddPitfallCounters(row, shown, suppressed) ==
    Updated(row, [row EXCEPT !.shown = NotNegative(@ + shown),
                             !.suppressed = NotNegative(@ + suppressed)])

(* Mutant: nothing keeps the weight within [0, 1].                         *)
ApplyPitfallFeedbackFree(row, action) ==
    Updated(row, [row EXCEPT !.weight = @ + WeightDelta(action)])

ApplyPitfallFeedback(row, action) ==
    Updated(row,
        [row EXCEPT !.weight = Clamped(@ + WeightDelta(action)),
                    !.adopted = IF action = "adopted" THEN @ + 1 ELSE @,
                    !.protection = IF action = "recurred" THEN Least(ProtectionLevelMax, @ + 1)
                                   ELSE @])

(* What a search answers, as the rows it finds; the limits are larger than *)
(* the instances.  A similarity search carries the vectors of its rows.    *)
SearchEpisodic(rows) == {m \in DOMAIN rows : rows[m].stored /\ ~rows[m].retired}
SearchSimilar(rows) == SearchEpisodic(rows)
ScanRecent(rows) == {m \in DOMAIN rows : rows[m].stored /\ ~rows[m].retired}
SearchSemantic(rows) == {r \in DOMAIN rows : rows[r].stored}
SearchPitfall(rows, minWeight) ==
    {p \in DOMAIN rows : rows[p].stored /\ ~rows[p].retired /\ rows[p].weight >= minWeight}
SearchPitfallByEntity(rows) ==
    {p \in DOMAIN rows : rows[p].stored /\ ~rows[p].retired /\ ~rows[p].moved}

(* memory_edges has no foreign keys, and any word but "out" and "in" means *)
(* both directions.                                                        *)
CreateEdge(edges, edge, nodes) == edges \cup {edge}
GetEdges(edges, id, type, direction) ==
    {e \in edges : /\ e.type = type
                   /\ CASE direction = "out" -> e.from = id
                        [] direction = "in" -> e.to = id
                        [] OTHER -> e.from = id \/ e.to = id}

DeleteEpisodicByProject(rows) == [m \in DOMAIN rows |-> NoEpisode]

(* A run and a conflict are found by id.  Settling a conflict that is not  *)
(* there changes no row and is no error.                                   *)
SaveConsolidationRun(runs, run) == {r \in runs : r.id # run.id} \cup {run}
SaveRuleConflict(records, rec) == {r \in records : r.id # rec.id} \cup {rec}
ResolveRefused(records, id) == FALSE
ResolveRuleConflict(records, id, status, winner) ==
    {IF r.id = id THEN [r EXCEPT !.status = status, !.winner = winner] ELSE r : r \in records}
ListRuleConflicts(records) == records
=============================================================================
