-------------------------- MODULE ConsolidationRun --------------------------
(***************************************************************************)
(* trigger_consolidation and POST /consolidation/trigger: the request      *)
(* records a run, answers with its id and leaves the work to a goroutine,  *)
(* which scans the recent episodes and lets two lines store what they find *)
(* side by side: rules from clusters of one project and task, pitfalls     *)
(* from debug episodes at one entity.  The run it records at the end is    *)
(* its own, not the one the caller was told of.                            *)
(***************************************************************************)
EXTENDS ToolCalls

CONSTANTS
    Pattern,          \* Pattern[m]: project and task of an episode
    Site,             \* Site[m]: the entity of a debug episode, or NoSite
    NoSite,
    MinClusterSize

ASSUME ClusterAssumption ==
    /\ DOMAIN Pattern = Episodes /\ DOMAIN Site = Episodes
    /\ MinClusterSize \in Nat \ {0}

VARIABLE line    \* line[c][k]: how far the rule or pitfall line of run c is

Kinds == {"rule", "pitfall"}
(* todo: the source sets still to store; id, left: the memory being traced *)
(* and the sources it still needs an edge to; made: what was written.      *)
NoLine == [pc |-> "next", todo |-> {}, id |-> NoId, left |-> {}, persisted |-> 0, made |-> {}]

Run(c, pc) == At(c, "consolidate", pc)
Working(c, k, pc) == Run(c, "lines") /\ line[c][k].pc = pc
LineEnded(c, k) ==
    \/ line[c][k].pc = "failed"
    \/ line[c][k].pc = "next" /\ line[c][k].todo = {}

(* The goroutine keeps the request's context, which ends with the answer:  *)
(* from then on Neo4j may refuse every call.                               *)
FailsLate ==
    \/ Fails(FALSE)
    \/ backend = "neo4jpg" /\ UNCHANGED faults

Asked(c) == <<c, "asked">>
Ran(c) == <<c, "ran">>
OpenRun(id) == [id |-> id, completed |-> FALSE, rules |-> 0, pitfalls |-> 0,
                rulesError |-> FALSE, pitfallError |-> FALSE]

Trigger(c) ==
    /\ Run(c, "start")
    /\ UNCHANGED line
    /\ LET run == OpenRun(Asked(c)) IN
       \/ /\ Succeeds(SaveRunRefused(run))
          /\ SaveConsolidationRun(run)
          /\ call' = [call EXCEPT ![c].pc = "scan", ![c].outcome = "ok"]
       \/ Fails(SaveRunRefused(run)) /\ NothingStored /\ End(c, "error")

Groups(found, by) ==
    {group \in {{m \in found : by[m] = by[n]} : n \in found} : Cardinality(group) >= MinClusterSize}
DebugEpisodes(found) == {m \in found : Site[m] # NoSite}

(* Sub-clusters of one entity, large enough and disjoint; which, depends   *)
(* on how much the summaries have in common.                               *)
SubClusterings(groups) ==
    {picked \in SUBSET {s \in UNION {SUBSET g : g \in groups} : Cardinality(s) >= MinClusterSize} :
        \A s, t \in picked : s # t => s \cap t = {}}

(* A scan that fails, or finds nothing, leaves nothing to do but record    *)
(* the run; found tells the two apart.                                     *)
Scan(c) ==
    /\ Run(c, "scan")
    /\ NothingStored
    /\ \/ /\ Succeeds(FALSE)
          /\ LET found == ScanRecent IN
             \E extracted \in SubClusterings(Groups(DebugEpisodes(found), Site)) :
             /\ line' = [line EXCEPT ![c] = [rule |-> [NoLine EXCEPT !.todo = Groups(found, Pattern)],
                                             pitfall |-> [NoLine EXCEPT !.todo = extracted]]]
             /\ call' = [call EXCEPT ![c].pc = "lines", ![c].found = found]
       \/ FailsLate /\ Goto(c, "broken") /\ UNCHANGED line

Fresh(k) ==
    IF k = "rule" THEN {r \in Rules : ~rule[r].stored} ELSE {p \in Pitfalls : ~pitfall[p].stored}
FreshId(k) == CHOOSE id \in Fresh(k) : TRUE
Store(k, id, sources) ==
    IF k = "rule" THEN WriteSemantic(id, NewRule)
    ELSE WritePitfall(id, [NewPitfall EXCEPT !.occurrences = Cardinality(sources)])

(* The sources of a stored memory are traced next.                         *)
Tracing(l, id, sources) ==
    [l EXCEPT !.pc = "trace", !.todo = @ \ {sources}, !.id = id, !.left = sources,
              !.made = @ \cup {[id |-> id, sources |-> sources]}]

LineStore(c, k) ==
    /\ Working(c, k, "next")
    /\ Fresh(k) # {}                 \* the instance's ids are a bound
    /\ UNCHANGED call
    /\ \E sources \in line[c][k].todo :
       LET id == FreshId(k) IN
       \/ /\ Succeeds(FALSE)
          /\ Store(k, id, sources)
          /\ line' = [line EXCEPT ![c][k] = Tracing(@, id, sources)]
       \/ /\ FailsLate
          /\ NothingStored
          /\ line' = [line EXCEPT ![c][k].pc = "failed"]

(* A candidate rule that does not pass its backtest is dropped.            *)
BacktestFails(c) ==
    /\ Working(c, "rule", "next")
    /\ UNCHANGED <<call, tables, faults>>
    /\ \E sources \in line[c]["rule"].todo :
          line' = [line EXCEPT ![c]["rule"].todo = @ \ {sources}]

(* Mutant: a memory counts as persisted before all its edges are there.    *)
TracedToEarly(l, m) ==
    [l EXCEPT !.left = @ \ {m}, !.persisted = @ + 1, !.pc = IF l.left = {m} THEN "next" ELSE "trace"]

(* With the last edge the memory counts as persisted.                      *)
TracedTo(l, m) ==
    IF l.left = {m} THEN [l EXCEPT !.left = {}, !.persisted = @ + 1, !.pc = "next"]
    ELSE [l EXCEPT !.left = @ \ {m}]

LineTrace(c, k) ==
    /\ Working(c, k, "trace")
    /\ UNCHANGED call
    /\ \E m \in line[c][k].left :
       \/ /\ Succeeds(FALSE)
          /\ CreateEdge(line[c][k].id, m, "DERIVED_FROM")
          /\ line' = [line EXCEPT ![c][k] = TracedTo(@, m)]
       \/ /\ FailsLate
          /\ NothingStored
          /\ line' = [line EXCEPT ![c][k].pc = "failed"]

Result(c) ==
    [id |-> Ran(c), completed |-> Run(c, "lines"),
     rules |-> line[c]["rule"].persisted, pitfalls |-> line[c]["pitfall"].persisted,
     rulesError |-> line[c]["rule"].pc = "failed", pitfallError |-> line[c]["pitfall"].pc = "failed"]

SaveResult(c) ==
    /\ \/ Run(c, "broken")
       \/ Run(c, "lines") /\ \A k \in Kinds : LineEnded(c, k)
    /\ UNCHANGED line
    /\ \/ Succeeds(SaveRunRefused(Result(c))) /\ SaveConsolidationRun(Result(c))
       \/ FailsLate /\ NothingStored
    /\ End(c, "ok")

RunStep(c) ==
    \/ Trigger(c) \/ Scan(c) \/ BacktestFails(c) \/ SaveResult(c)
    \/ \E k \in Kinds : LineStore(c, k) \/ LineTrace(c, k)
=============================================================================
