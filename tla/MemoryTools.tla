---------------------------- MODULE MemoryTools -----------------------------
(***************************************************************************)
(* The maintenance calls of one process running side by side on one store: *)
(* EpisodeTools, PitfallTools, RuleTools and ConsolidationRun composed.    *)
(***************************************************************************)
EXTENDS EpisodeTools, PitfallTools, RuleTools, ConsolidationRun, FiniteSetsExt

CONSTANTS
    Workloads    \* each a function from Calls to the request they start with,
                 \* the backends it can run on and the tables it starts from

(* What a call may be asked for.  Only pitfalls that exist are judged.     *)
IsRequest(r, w) ==
    \/ /\ r = Idle(r.op, r.id, r.arg)
       /\ \/ r.op \in {"touch", "retire", "write"} /\ r.id \in Episodes
          \/ r.op = "feedback" /\ r.id \in Ids /\ r.arg \in SearchActions
          \/ r.op \in {"confirm", "suppress", "link"} /\ r.id \in Pitfalls /\ w.pitfall[r.id].stored
          \/ r.op = "rate" /\ r.id \in Pitfalls /\ r.arg \in PitfallFeedbackActions
          \/ r.op \in {"prepare", "detect", "resolve", "consolidate", "delete"} /\ r.id = NoId
    \/ r = Ended(Idle("none", NoId, "none"), "ok")

ASSUME WorkloadsAssumption ==
    \A w \in Workloads :
        /\ DOMAIN w.calls = Calls /\ w.calls = [c \in Calls |-> w.calls[c]]
        /\ \A c \in Calls : IsRequest(w.calls[c], w)
        /\ w.backends \subseteq Backends
        /\ w.episode \in [Episodes -> EpisodeRow]
        /\ w.rule \in [Rules -> RuleRow]
        /\ w.pitfall \in [Pitfalls -> PitfallRow]
        /\ \A p \in Pitfalls :
              /\ w.pitfall[p].weight \in 0..Full
              /\ w.pitfall[p].protection \in 0..ProtectionLevelMax
              /\ w.pitfall[p].suppressed = 0
              /\ ~w.pitfall[p].stored => w.pitfall[p] = NoPitfall

(* A trace leads to episodes.  The id of a new memory is new: none leads   *)
(* from it yet.                                                            *)
ASSUME TracesAssumption ==
    \A w \in Workloads : \A e \in w.edges : e.type = "DERIVED_FROM" =>
        /\ e.to \in Episodes
        /\ e.from \in Rules => w.rule[e.from].stored
        /\ e.from \in Pitfalls => w.pitfall[e.from].stored

(* What a conflict record is told from is who decided it: a workload       *)
(* starts before the first decision, with no record and no rule retired.   *)
ASSUME DecisionsAssumption ==
    \A w \in Workloads : w.records = {} /\ \A r \in Rules : ~w.rule[r].retired

(* A workload starts with memories as they were stored; a write has an id  *)
(* of its own, which nothing is stored under.                              *)
ASSUME CountsAssumption ==
    \A w \in Workloads :
        /\ \A m \in Episodes : w.episode[m].stored =>
              w.episode[m].freq = Full /\ w.episode[m].trust = DefaultTrust
        /\ \A r \in Rules : w.rule[r].stored => w.rule[r].freq = Full
        /\ \A c \in Calls : w.calls[c].op = "write" =>
              /\ ~w.episode[w.calls[c].id].stored
              /\ \A d \in Calls \ {c} : w.calls[d].op = "write" => w.calls[d].id # w.calls[c].id

ASSUME CallsAssumption ==
    /\ IsFiniteSet(Calls)
    /\ NoCopy \notin EpisodeRow /\ NoCopy \notin PitfallRow
    /\ NoId \notin Ids

VARIABLES
    raced,       \* ids, and pairs, written while another call worked with what it
                 \* had read of them
    verdict      \* verdict[p]: the status last decided for p

history == <<raced, verdict>>
vars == <<storeVars, call, line, history>>

Init ==
    /\ \E w \in Workloads :
       /\ call = w.calls
       /\ backend \in w.backends
       /\ episode = w.episode /\ rule = w.rule /\ pitfall = w.pitfall
       /\ edges = w.edges /\ records = w.records
    /\ runs = {}
    /\ hot = NoPool
    /\ faults = 0
    /\ line = [c \in Calls |-> [k \in Kinds |-> NoLine]]
    /\ raced = {}
    /\ verdict = [p \in Pitfalls |-> pitfall[p].status]

WrittenRows ==
    {i \in Ids : RowOf(i)' # RowOf(i)}
WrittenPairs == {rec.pair : rec \in records' \ records}

(* What a call other than c still works with.                              *)
Reads(d) ==
    {i \in Ids : Holds(d, i)}
        \cup (IF call[d].op = "detect" /\ call[d].pc \notin {"start", "done"}
              THEN Contradictions ELSE {})

Decided(c) ==
    CASE At(c, "confirm", "start") -> "confirmed"
      [] At(c, "suppress", "start") -> "suppressed"
      [] OTHER -> verdict[call[c].id]

Remember(c) ==
    /\ raced' = raced \cup {i \in WrittenRows \cup WrittenPairs :
                               \E d \in Calls \ {c} : i \in Reads(d)}
    /\ verdict' = IF /\ call[c].id \in Pitfalls
                     /\ pitfall[call[c].id].stored
                     /\ call'[c].outcome # "error"
                  THEN [verdict EXCEPT ![call[c].id] = Decided(c)] ELSE verdict

Step(c) ==
    /\ \/ EpisodeStep(c) /\ UNCHANGED line
       \/ PitfallStep(c) /\ UNCHANGED line
       \/ RuleStep(c) /\ UNCHANGED line
       \/ RunStep(c)
    /\ UNCHANGED backend
    /\ Remember(c)

Expire == CacheExpires /\ UNCHANGED <<call, line, history>>

Terminated ==
    /\ \A c \in Calls : call[c].pc = "done"
    /\ UNCHANGED vars

Next == (\E c \in Calls : Step(c)) \/ Expire \/ Terminated

Spec == Init /\ [][Next]_vars

-----------------------------------------------------------------------------
(* Every table holds rows of its kind.  On SQLite and in process the       *)
(* weight of a pitfall stays within [0, 1] and its protection level within *)
(* three, whatever calls run; Neo4j bounds neither.                        *)
StoreTypeOK ==
    /\ backend \in Backends
    /\ episode \in [Episodes -> EpisodeRow]
    /\ rule \in [Rules -> RuleRow]
    /\ pitfall \in [Pitfalls -> PitfallRow]
    /\ hot # NoPool => backend = "sqlite" /\ hot \subseteq Episodes
    /\ faults \in 0..MaxFaults
    /\ backend # "neo4jpg" =>
         \A p \in Pitfalls : /\ pitfall[p].weight \in 0..Full
                             /\ pitfall[p].protection \in 0..ProtectionLevelMax

Counted(i) == MapThenSumSet(LAMBDA c : IF call[c].id = i THEN call[c].counted ELSE 0, Calls)
Raises(m) == Cardinality({c \in Calls : m \in call[c].raised})

(* The effective frequency of a memory is what it was stored with plus     *)
(* what every answered touch and feedback counted, and its trust rose once *)
(* per correction that wrote it, up to the limit of five; with calls that  *)
(* overlapped on the memory it is at most that.                            *)
IncrementsAddUp ==
    /\ \A m \in Episodes : episode[m].stored =>
         /\ episode[m].freq <= Full + Counted(m)
         /\ episode[m].trust <= Least(MaxTrust, DefaultTrust + Raises(m))
         /\ m \notin raced => /\ episode[m].freq = Full + Counted(m)
                              /\ episode[m].trust = Least(MaxTrust, DefaultTrust + Raises(m))
    /\ \A r \in Rules : rule[r].stored =>
         /\ rule[r].freq <= Full + Counted(r)
         /\ r \notin raced => rule[r].freq = Full + Counted(r)

SourcesOf(i) ==
    IF i \in Episodes THEN {i}
    ELSE {e.to : e \in {x \in edges : x.from = i /\ x.type = "DERIVED_FROM"}}
JustMade == {m.id : m \in UNION {line[d][k].made : d \in Calls, k \in Kinds}}

(* A finished correction has taken up every memory the corrected rule or   *)
(* pitfall was derived from, and reports each as updated, skipped or       *)
(* failed, once.  Only a failed lookup of the edges, or Neo4j, which does  *)
(* not know the direction it is asked for, makes it report none; and it    *)
(* may miss sources of a memory a consolidation is still tracing.          *)
CorrectionLands ==
    \A c \in Calls : At(c, "feedback", "done") /\ call[c].arg = "corrected" /\ call[c].counted > 0 =>
        LET i == call[c].id
            reported == call[c].updated \cup call[c].skipped \cup call[c].failed
        IN /\ reported = call[c].found
           /\ call[c].updated \cap (call[c].skipped \cup call[c].failed) = {}
           /\ \/ call[c].found = SourcesOf(i)
              \/ call[c].found \subseteq SourcesOf(i) /\ i \in JustMade
              \/ call[c].found = {} /\ (faults > 0 \/ backend = "neo4jpg")

Active(row) == row.stored /\ ~row.retired

(* A retired or deleted memory is active again only when a call writes     *)
(* back a row it read before that; else a memory only appears when the     *)
(* write that chose its id creates it.                                     *)
RetiredStaysOut ==
    [][\A m \in Episodes : ~Active(episode[m]) /\ Active(episode[m])' =>
         m \in raced \/ \E c \in Calls : Writing(c, "create") /\ call[c].id = m]_vars

(* The hot cache never answers with a row that is no longer stored.        *)
CacheHoldsStored == hot = NoPool \/ hot \subseteq {m \in Episodes : episode[m].stored}

Suppressions(p) ==
    Cardinality({c \in Calls : call[c].op = "suppress" /\ call[c].id = p /\ call[c].counted = 1})
Shows(c, p) == call[c].op = "prepare" /\ p \in call'[c].found \ call[c].found

(* A pitfall has the status last decided for it, counts every suppression, *)
(* and is not shown before an edit while the decision is to suppress it,   *)
(* whatever feedback, shows and re-anchoring go on, unless a re-anchoring  *)
(* wrote back a row it read before the decision.                           *)
SuppressionStands ==
    [][\A p \in Pitfalls : p \notin raced' =>
         /\ pitfall'[p].status = verdict'[p]
         /\ pitfall'[p].suppressed = Suppressions(p)'
         /\ verdict[p] = "suppressed" => \A c \in Calls : ~Shows(c, p)]_vars

Deciders(rec) == {c \in Calls : rec.id \in call[c].updated}
Settled(rec) == rec.status # "pending"

(* A settled record's loser is retired, and source grading only ever lets  *)
(* more trust win.  A rule is retired only because a record that names it  *)
(* was settled against it, is being settled, or was left half settled by   *)
(* an error or decided more than once.                                     *)
Adjudicated ==
    /\ \A rec \in records : Settled(rec) =>
         LET loser == Loser(rec, rec.winner) IN
         /\ rule[loser].retired
         /\ rec.status = "auto_resolved" => rule[rec.winner].trust > rule[loser].trust
    /\ \A r \in Rules : rule[r].retired =>
         \E rec \in records :
            /\ r \in rec.pair
            /\ \/ Settled(rec) /\ rec.winner # r
               \/ \E c \in Deciders(rec) : call[c].outcome # "ok" \/ Deciders(rec) # {c}

(* A detection that answered has left a record for every contradiction it  *)
(* read; two pending records of one pair come only from detections that    *)
(* overlapped, and a pending record of rules with different trust only     *)
(* from a settlement that is not over or ended in an error.                *)
DetectedIsTracked ==
    /\ \A c \in Calls : At(c, "detect", "done") /\ call[c].outcome = "ok" =>
         \A pair \in call[c].found : \E rec \in records : rec.pair = pair
    /\ \A r, s \in records :
         r # s /\ r.pair = s.pair /\ ~Settled(r) /\ ~Settled(s) => r.pair \in raced
    /\ \A rec \in records :
         ~Settled(rec) /\ (\E a, b \in rec.pair : rule[a].trust # rule[b].trust) =>
            \E c \in Deciders(rec) : call[c].outcome # "ok"

Traceable(made) ==
    {m \in made : \A e \in m.sources : Edge(m.id, e, "DERIVED_FROM") \in edges}

(* The record of a completed run counts exactly the memories of the run    *)
(* that can be traced to all their sources, and a memory stored without    *)
(* its whole trace shows as an error of its line.                          *)
RunReportsTruth ==
    \A c \in Calls : \A run \in runs : run.id = Ran(c) /\ run.completed =>
        LET rules == line[c]["rule"].made
            pitfalls == line[c]["pitfall"].made
        IN /\ run.rules = Cardinality(Traceable(rules))
           /\ run.pitfalls = Cardinality(Traceable(pitfalls))
           /\ Traceable(rules) # rules => run.rulesError
           /\ Traceable(pitfalls) # pitfalls => run.pitfallError
=============================================================================
