--------------------------- MODULE FeedbackProofs ----------------------------
(***************************************************************************)
(* What becomes of feedback and touches, for any number of calls side by   *)
(* side, on any of the stores: a correction takes up every memory the      *)
(* corrected one was derived from, and the frequency and the trust of a    *)
(* memory add up to what the calls that answered counted for it.           *)
(***************************************************************************)
EXTENDS ConsolidationProofs, WellFoundedInduction

-----------------------------------------------------------------------------
(* Corrections.  Traces lead to episodes, and a run has made nothing       *)
(* before it has scanned: so the sources of a memory only grow, and only   *)
(* while a run traces it.                                                  *)

SourcesInv ==
    /\ \A c \in Calls : \A k \in Kinds : line[c][k].left \subseteq Episodes
    /\ \A e \in edges : e.type = "DERIVED_FROM" => e.to \in Episodes
    /\ \A c \in Calls : Run(c, "start") \/ Run(c, "scan") => \A k \in Kinds : line[c][k].made = {}

(* The loop over the sources of one correction: what is left and what is   *)
(* reported are the two parts of what was found.                           *)
LoopPcs == {"source", "boost", "summary", "trust"}
Reported(r) == r.updated \cup r.skipped \cup r.failed
Fed(r) ==
    /\ r.pc \in {"start", "update", "trace", "done"} \cup LoopPcs
    /\ r.pc \in {"start", "update"} => r.counted = 0
    /\ r.pc \in {"start", "update", "trace"} => Reported(r) = {} /\ r.found = {} /\ r.todo = {}
    /\ r.pc \in LoopPcs => r.found = r.todo \cup Reported(r) /\ r.todo \cap Reported(r) = {}
    /\ r.pc \in LoopPcs \ {"source"} => r.cur \in r.todo
    /\ r.pc = "done" => Reported(r) = r.found
    /\ r.updated \cap (r.skipped \cup r.failed) = {}

(* What a correction found when it read the edges.                         *)
FoundOf(i, found) ==
    \/ found = SourcesOf(i)
    \/ found \subseteq SourcesOf(i) /\ i \in JustMade
    \/ found = {} /\ (faults > 0 \/ backend = "neo4jpg")
Searched(r) ==
    r.pc \in LoopPcs \/ (r.pc = "done" /\ r.arg = "corrected" /\ r.counted > 0)

CorrectionInv ==
    /\ SourcesInv
    /\ \A c \in Calls : call[c].op = "feedback" =>
          Fed(call[c]) /\ (Searched(call[c]) => FoundOf(call[c].id, call[c].found))

LineMoves(c, k) ==
    /\ Run(c, "lines") /\ UNCHANGED call
    /\ LineFails(c, k) \/ LineDrops(c, k) \/ LineStores(c, k) \/ LineTraces(c, k)

LEMMA StepLines ==
    ASSUME TypeInv, RunsInv, NEW c \in Calls, Step(c)
    PROVE  \/ \E k \in Kinds : LineMoves(c, k)
           \/ Derived' = Derived /\ (line' = line \/ Scan(c))
<1>1. ASSUME NEW k \in Kinds, LineStore(c, k) \/ LineTrace(c, k) PROVE LineMoves(c, k)
  <2>1. LineFails(c, k) \/ LineStores(c, k) \/ LineTraces(c, k)
    BY <1>1, LineStoreMoves, LineTraceMoves
  <2> QED
    BY <1>1, <2>1 DEF LineMoves, LineStore, LineTrace, Working
<1>2. ASSUME BacktestFails(c) PROVE "rule" \in Kinds /\ LineMoves(c, "rule")
  BY <1>2, BacktestMoves DEF Kinds, LineMoves, BacktestFails, Working
<1>3. ASSUME \A k \in Kinds : ~LineStore(c, k) /\ ~LineTrace(c, k), ~BacktestFails(c)
      PROVE  Derived' = Derived /\ (line' = line \/ Scan(c))
  BY <1>3, DerivedStays DEF Step, RunStep, Trigger, SaveResult
<1> QED
  BY <1>1, <1>2, <1>3

LEMMA LineGrows ==
    ASSUME LinesTyped, RunsInv, SourcesInv, NEW c \in Calls, NEW k \in Kinds,
           LineMoves(c, k)
    PROVE  /\ line[c][k].made \subseteq line'[c][k].made /\ line'[c][k].left \subseteq Episodes
           /\ \A d \in Calls : \A j \in Kinds : d # c \/ j # k => line'[d][j] = line[d][j]
<1> DEFINE l == line[c][k]
<1>1. DOMAIN l = LineFields /\ l.left \subseteq Episodes
  BY DEF RunsInv, LineTrue, LineShape, SourcesInv
<1>2. CASE LineFails(c, k)
  BY <1>1, <1>2, OneLineMoves DEF LineFails, LineFields
<1>3. ASSUME NEW sources, OneLine(c, k, [l EXCEPT !.todo = @ \ {sources}])
      PROVE  line'[c][k].made = l.made /\ line'[c][k].left = l.left
  BY <1>1, <1>3, OneLineMoves DEF LineFields
<1>4. ASSUME NEW sources \in l.todo, NEW id, OneLine(c, k, Tracing(l, id, sources))
      PROVE  l.made \subseteq line'[c][k].made /\ line'[c][k].left = sources
  <2>1. line'[c][k] = Tracing(l, id, sources)
    BY <1>4, OneLineMoves
  <2> QED
    BY <1>1, <2>1 DEF LineFields, Tracing
<1>5. ASSUME NEW m \in l.left, OneLine(c, k, TracedTo(l, m))
      PROVE  line'[c][k].made = l.made /\ line'[c][k].left \subseteq l.left
  <2>1. line'[c][k] = TracedTo(l, m)
    BY <1>5, OneLineMoves
  <2> QED
    BY <1>1, <2>1 DEF LineFields, TracedTo
<1>6. l.todo \subseteq SUBSET Episodes
  BY DEF LinesTyped
<1>7. line[c][k].made \subseteq line'[c][k].made /\ line'[c][k].left \subseteq Episodes
  BY <1>1, <1>2, <1>3, <1>4, <1>5, <1>6 DEF LineMoves, LineDrops, LineStores, LineTraces
<1>8. PICK new : OneLine(c, k, new)
  BY DEF LineMoves, LineFails, LineDrops, LineStores, LineTraces
<1> QED
  BY <1>7, <1>8, OneLineMoves

LEMMA JustMadeIs ==
    /\ \A i : i \in JustMade <=> \E d \in Calls : \E k \in Kinds : \E m \in line[d][k].made : m.id = i
    /\ \A i : i \in JustMade' <=> \E d \in Calls : \E k \in Kinds : \E m \in line'[d][k].made : m.id = i
BY DEF JustMade

LEMMA SourcesAre ==
    /\ \A i : i \notin Episodes => \A m : m \in SourcesOf(i) <=> \E e \in Derived : e.from = i /\ e.to = m
    /\ \A i : i \notin Episodes => \A m : m \in SourcesOf(i)' <=> \E e \in Derived' : e.from = i /\ e.to = m
    /\ \A i \in Episodes : SourcesOf(i) = {i} /\ SourcesOf(i)' = {i}
BY DEF SourcesOf, Derived

SourcesGrow ==
    /\ \A i : SourcesOf(i) \subseteq SourcesOf(i)' /\ (SourcesOf(i)' = SourcesOf(i) \/ i \in JustMade)
    /\ JustMade \subseteq JustMade'

(* A run never goes back to its scan.                                      *)
LEMMA RunGoesOn ==
    ASSUME TypeInv, NEW c \in Calls, RunStep(c)
    PROVE  Run(c, "start")' \/ Run(c, "scan")' => Run(c, "start") \/ Run(c, "scan")
<1>1. CASE Trigger(c) \/ Scan(c)
  BY <1>1 DEF Trigger, Scan
<1>2. CASE UNCHANGED call
  BY <1>2 DEF Run, At
<1>3. CASE SaveResult(c)
  BY <1>3, EndTyped DEF SaveResult, TypeInv, Run, At
<1> QED
  BY <1>1, <1>2, <1>3 DEF RunStep, BacktestFails, LineStore, LineTrace

LEMMA ScanLeaves ==
    ASSUME LinesTyped, NEW c \in Calls, Scan(c), line' # line, NEW k \in Kinds
    PROVE  line'[c][k].left = {}
<1>1. PICK a, b : line' = [line EXCEPT ![c] = [rule |-> [NoLine EXCEPT !.todo = a],
                                               pitfall |-> [NoLine EXCEPT !.todo = b]]]
  BY DEF Scan
<1> PICK ra : ra = [NoLine EXCEPT !.todo = a]
  OBVIOUS
<1> PICK rb : rb = [NoLine EXCEPT !.todo = b]
  OBVIOUS
<1>2. ra.left = {} /\ rb.left = {}
  BY DEF NoLine
<1>3. line'[c]["rule"] = ra /\ line'[c]["pitfall"] = rb
  BY <1>1 DEF LinesTyped
<1>4. CASE k = "rule"
  BY <1>2, <1>3, <1>4
<1>5. CASE k = "pitfall"
  BY <1>2, <1>3, <1>5
<1> QED
  BY <1>4, <1>5 DEF Kinds

LEMMA SourcesStep ==
    ASSUME BaseInv, RunsInv, SourcesInv, NEW c \in Calls, Step(c)
    PROVE  SourcesInv' /\ SourcesGrow
<1> USE DEF BaseInv
<1>1. Advances(c) /\ LinesTyped
  BY StepKeeps DEF TypeInv
<1>2. ASSUME Derived' = Derived PROVE \A i : SourcesOf(i)' = SourcesOf(i)
  <2> SUFFICES ASSUME NEW i PROVE SourcesOf(i)' = SourcesOf(i)
    OBVIOUS
  <2>1. CASE i \in Episodes
    BY <2>1, SourcesAre
  <2>2. CASE i \notin Episodes
    BY <1>2, <2>2, SourcesAre
  <2> QED
    BY <2>1, <2>2
<1>3. ASSUME NEW k \in Kinds, LineMoves(c, k) PROVE SourcesInv' /\ SourcesGrow
  <2>1. /\ line[c][k].made \subseteq line'[c][k].made /\ line'[c][k].left \subseteq Episodes
        /\ \A d \in Calls : \A j \in Kinds : d # c \/ j # k => line'[d][j] = line[d][j]
    BY <1>1, <1>3, LineGrows
  <2>2. JustMade \subseteq JustMade'
    BY <2>1, JustMadeIs
  <2>3. \/ Derived' = Derived
        \/ \E m \in line[c][k].made : \E e \in Episodes :
              Derived' = Derived \cup {Edge(m.id, e, "DERIVED_FROM")}
    <3>1. CASE LineTraces(c, k)
      <4>1. PICK m \in line[c][k].made : m.id = line[c][k].id
        BY <3>1 DEF RunsInv, LineTrue, InHand, LineTraces
      <4> QED
        BY <3>1, <4>1 DEF LineTraces, SourcesInv
    <3> QED
      BY <1>3, <3>1 DEF LineMoves, LineFails, LineDrops, LineStores
  <2>4. \A e \in Derived' : e.to \in Episodes
    <3>1. \A i, m : Edge(i, m, "DERIVED_FROM").to = m
      BY DEF Edge
    <3>2. \A e \in Derived : e.to \in Episodes
      BY DEF Derived, SourcesInv
    <3> QED
      BY <2>3, <3>1, <3>2
  <2>5. ASSUME NEW i
        PROVE  SourcesOf(i) \subseteq SourcesOf(i)' /\ (SourcesOf(i)' = SourcesOf(i) \/ i \in JustMade)
    <3>1. CASE i \in Episodes
      BY <3>1, SourcesAre
    <3>2. CASE i \notin Episodes /\ i \in JustMade
      BY <2>3, <3>2, SourcesAre
    <3>3. CASE i \notin Episodes /\ i \notin JustMade
      <4>1. \A m \in line[c][k].made : m.id # i
        BY <3>3, JustMadeIs
      <4>2. \A m, e : Edge(m, e, "DERIVED_FROM").from = m
        BY DEF Edge
      <4>3. \A e \in Derived' : e.from = i => e \in Derived
        BY <2>3, <4>1, <4>2
      <4>4. Derived \subseteq Derived'
        BY <2>3
      <4>5. \A m : m \in SourcesOf(i)' <=> m \in SourcesOf(i)
        BY <3>3, <4>3, <4>4, SourcesAre
      <4> QED
        BY <4>5
    <3> QED
      BY <3>1, <3>2, <3>3
  <2>6. \A d \in Calls : Run(d, "start")' \/ Run(d, "scan")' => d # c /\ (Run(d, "start") \/ Run(d, "scan"))
    BY <1>3 DEF LineMoves, Run, At
  <2>7. SourcesInv'
    BY <2>1, <2>4, <2>6 DEF SourcesInv, Derived
  <2> QED
    BY <2>2, <2>5, <2>7 DEF SourcesGrow
<1>4. ASSUME Derived' = Derived, line' = line PROVE SourcesInv' /\ SourcesGrow
  <2>1. \A d \in Calls : Run(d, "start")' \/ Run(d, "scan")' => Run(d, "start") \/ Run(d, "scan")
    <3> SUFFICES ASSUME NEW d \in Calls, Run(d, "start")' \/ Run(d, "scan")',
                        ~Run(d, "start"), ~Run(d, "scan")
                 PROVE  FALSE
      OBVIOUS
    <3>1. d = c /\ call[c].op = "consolidate"
      BY <1>1 DEF Advances, Run, At
    <3>2. RunStep(c)
      BY <3>1, OpsOfSteps DEF Step
    <3> QED
      BY <1>1, <3>1, <3>2, RunGoesOn
  <2>2. SourcesInv'
    BY <1>4, <2>1 DEF SourcesInv, Derived
  <2> QED
    BY <1>2, <1>4, <2>2, JustMadeIs DEF SourcesGrow
<1>5. ASSUME Derived' = Derived, Scan(c), line' # line PROVE SourcesInv' /\ SourcesGrow
  <2>1. /\ \A k \in Kinds : line'[c][k].made = {} /\ line[c][k].made = {} /\ line'[c][k].left = {}
        /\ \A d \in Calls \ {c} : line'[d] = line[d]
    <3>1. backend' = backend /\ Run(c, "scan")
      BY <1>5 DEF Step, Scan
    <3> QED
      BY <1>1, <1>5, <3>1, ScanMoves, ScanLeaves DEF SourcesInv
  <2>2. SourcesInv'
    BY <1>1, <1>5, <2>1 DEF SourcesInv, Derived, Advances, Run, At
  <2>3. JustMade \subseteq JustMade'
    BY <2>1, JustMadeIs
  <2> QED
    BY <1>2, <1>5, <2>2, <2>3 DEF SourcesGrow
<1> QED
  BY <1>3, <1>4, <1>5, StepLines

-----------------------------------------------------------------------------
(* The loop of one correction.                                             *)

LEMMA FaultsMount ==
    ASSUME TypeInv, NEW c \in Calls, Step(c)
    PROVE  faults \in Nat /\ faults' \in Nat /\ faults' >= faults
<1>1. \E refused : Succeeds(refused) \/ Fails(refused) \/ FailsLate \/ UNCHANGED faults
  <2>1. CASE EpisodeStep(c)
    BY <2>1 DEF EpisodeStep, TouchRead, TouchUpdate, LookupMemory, FeedbackUpdate, Trace, SourceRead,
       SourceBoost, SourceSummary, SourceTrust, SearchCandidates, FetchCandidate, Merge,
       CreateEpisode, LinkPool, LinkRelated, MatchPitfalls, TriggerPitfall, CountOccurrence,
       Retire, DeleteUser
  <2>2. CASE PitfallStep(c)
    BY <2>2 DEF PitfallStep, ConfirmPitfall, FeedbackPitfall, SingleUpdate, SuppressStatus,
       SuppressCount, SuppressWeaken, LinkRead, LinkWrite, PrepareSearch, PrepareCount
  <2>3. CASE RuleStep(c)
    BY <2>3 DEF RuleStep, DetectRules, DetectList, SavePair, ResolveRead, RetireLoser, LinkLoser,
       SettleRecord
  <2>4. CASE RunStep(c)
    BY <2>4 DEF RunStep, Trigger, Scan, BacktestFails, SaveResult, LineStore, LineTrace
  <2> QED
    BY <2>1, <2>2, <2>3, <2>4 DEF Step
<1>2. MaxFaults \in Nat /\ faults \in 0..MaxFaults
  BY IdsAssumption DEF IdsAssumption, TypeInv
<1> QED
  BY <1>1, <1>2 DEF Succeeds, Fails, FailsLate

LEMMA FoundStays ==
    ASSUME TypeInv, SourcesGrow, NEW c \in Calls, Step(c), NEW i, NEW found, FoundOf(i, found)
    PROVE  FoundOf(i, found)'
<1>1. backend' = backend /\ (faults > 0 => faults' > 0)
  BY FaultsMount DEF Step
<1>2. CASE found = SourcesOf(i)
  BY <1>2 DEF FoundOf, SourcesGrow
<1>3. CASE found \subseteq SourcesOf(i) /\ i \in JustMade
  BY <1>3 DEF FoundOf, SourcesGrow
<1>4. CASE found = {} /\ (faults > 0 \/ backend = "neo4jpg")
  BY <1>1, <1>4 DEF FoundOf
<1> QED
  BY <1>2, <1>3, <1>4 DEF FoundOf

(* What a correction has found stays when it goes on from one source to    *)
(* the next, or to its end.                                                *)
Continues(r, s) ==
    /\ Fed(s) /\ s.found = r.found
    /\ Searched(s) => Searched(r)

LEMMA NextContinues ==
    ASSUME NEW r, DOMAIN r = Fields, r.pc \in LoopPcs, r.found = r.todo \cup Reported(r),
           r.todo \cap Reported(r) = {r.cur}, r.updated \cap (r.skipped \cup r.failed) = {}
    PROVE  Continues(r, NextSource(r))
<1> DEFINE left == r.todo \ {r.cur}
           rest == [r EXCEPT !.todo = left, !.copy = NoCopy, !.cur = NoId]
           done == [rest EXCEPT !.pc = "done", !.copy = NoCopy, !.cur = NoId, !.outcome = "ok"]
           more == [rest EXCEPT !.pc = "source"]
<1>1. NextSource(r) = IF left = {} THEN done ELSE more
  BY DEF NextSource, Ended
<1>2. /\ done.pc = "done" /\ done.found = r.found /\ Reported(done) = Reported(r)
      /\ done.updated = r.updated /\ done.skipped = r.skipped /\ done.failed = r.failed
  BY DEF Fields, Reported
<1>3. /\ more.pc = "source" /\ more.found = r.found /\ Reported(more) = Reported(r)
      /\ more.todo = left
      /\ more.updated = r.updated /\ more.skipped = r.skipped /\ more.failed = r.failed
  BY DEF Fields, Reported
<1> HIDE DEF done, more, rest
<1>4. left = {} => Continues(r, done)
  <2>1. left = {} => r.found = Reported(r)
    OBVIOUS
  <2> QED
    BY <1>2, <2>1 DEF Continues, Fed, Searched, LoopPcs
<1>5. Continues(r, more)
  <2>1. r.found = left \cup Reported(r) /\ left \cap Reported(r) = {}
    OBVIOUS
  <2> QED
    BY <1>3, <2>1 DEF Continues, Fed, Searched, LoopPcs
<1> QED
  BY <1>1, <1>4, <1>5

LEMMA SourceContinues ==
    ASSUME NEW r, DOMAIN r = Fields, r.pc \in LoopPcs, Fed(r)
    PROVE  /\ \A m \in r.todo : Continues(r, Skipped(r, m))
           /\ r.pc # "source" => /\ Continues(r, FailedSource(r)) /\ Continues(r, Corrected(r))
                                 /\ Continues(r, Raised(r))
<1>1. /\ r.found = r.todo \cup Reported(r) /\ r.todo \cap Reported(r) = {}
      /\ r.updated \cap (r.skipped \cup r.failed) = {}
      /\ r.pc # "source" => r.cur \in r.todo
  BY DEF Fed, LoopPcs
<1> DEFINE Done(s, m) ==
      /\ DOMAIN s = Fields /\ s.pc = r.pc /\ s.found = r.found /\ s.todo = r.todo /\ s.cur = m
      /\ s.updated \cap (s.skipped \cup s.failed) = {} /\ Reported(s) = Reported(r) \cup {m}
<1>0. ASSUME NEW m \in r.todo, NEW s, Done(s, m) PROVE Continues(s, NextSource(s))
  <2>1. s.found = s.todo \cup Reported(s) /\ s.todo \cap Reported(s) = {s.cur}
    BY <1>0, <1>1
  <2> QED
    BY <1>0, <2>1, NextContinues
<1>2. ASSUME NEW m \in r.todo PROVE Continues(r, Skipped(r, m))
  <2> PICK s : s = [r EXCEPT !.skipped = @ \cup {m}, !.cur = m]
    OBVIOUS
  <2>1. /\ DOMAIN s = Fields /\ s.pc = r.pc /\ s.found = r.found /\ s.todo = r.todo /\ s.cur = m
        /\ s.updated = r.updated /\ s.skipped = r.skipped \cup {m} /\ s.failed = r.failed
    BY DEF Fields
  <2> HIDE DEF Done
  <2>2. Continues(s, NextSource(s))
    <3>1. Reported(s) = Reported(r) \cup {m}
      BY <2>1 DEF Reported
    <3>2. s.updated \cap (s.skipped \cup s.failed) = {}
      BY <1>1, <2>1 DEF Reported
    <3>3. Done(s, m)
      BY <2>1, <3>1, <3>2 DEF Done
    <3> QED
      BY <1>0, <1>1, <2>1, <3>3
  <2>3. Searched(r)
    BY DEF Searched
  <2>4. Skipped(r, m) = NextSource(s)
    BY DEF Skipped
  <2> QED
    BY <2>1, <2>2, <2>3, <2>4 DEF Continues
<1>3. ASSUME r.pc # "source" PROVE Continues(r, FailedSource(r))
  <2> PICK s : s = [r EXCEPT !.failed = @ \cup {r.cur}]
    OBVIOUS
  <2>1. /\ DOMAIN s = Fields /\ s.pc = r.pc /\ s.found = r.found /\ s.todo = r.todo /\ s.cur = r.cur
        /\ s.updated = r.updated /\ s.skipped = r.skipped /\ s.failed = r.failed \cup {r.cur}
    BY DEF Fields
  <2> HIDE DEF Done
  <2>2. Continues(s, NextSource(s))
    <3>1. Reported(s) = Reported(r) \cup {r.cur}
      BY <2>1 DEF Reported
    <3>2. s.updated \cap (s.skipped \cup s.failed) = {}
      BY <1>1, <1>3, <2>1 DEF Reported
    <3>3. Done(s, r.cur)
      BY <2>1, <3>1, <3>2 DEF Done
    <3> QED
      BY <1>0, <1>1, <1>3, <2>1, <3>3
  <2>3. Searched(r)
    BY DEF Searched
  <2>4. FailedSource(r) = NextSource(s)
    BY DEF FailedSource
  <2> QED
    BY <2>1, <2>2, <2>3, <2>4 DEF Continues
<1>4. ASSUME NEW t, DOMAIN t = Fields, t.pc = r.pc, t.found = r.found, t.todo = r.todo,
             t.cur = r.cur, t.updated = r.updated, t.skipped = r.skipped, t.failed = r.failed,
             r.pc # "source"
      PROVE  Continues(r, Corrected(t))
  <2> PICK s : s = [t EXCEPT !.updated = @ \cup {t.cur}]
    OBVIOUS
  <2>1. /\ DOMAIN s = Fields /\ s.pc = r.pc /\ s.found = r.found /\ s.todo = r.todo /\ s.cur = r.cur
        /\ s.updated = r.updated \cup {r.cur} /\ s.skipped = r.skipped /\ s.failed = r.failed
    BY <1>4 DEF Fields
  <2> HIDE DEF Done
  <2>2. Continues(s, NextSource(s))
    <3>1. Reported(s) = Reported(r) \cup {r.cur}
      BY <2>1 DEF Reported
    <3>2. s.updated \cap (s.skipped \cup s.failed) = {}
      BY <1>1, <1>4, <2>1 DEF Reported
    <3>3. Done(s, r.cur)
      BY <2>1, <3>1, <3>2 DEF Done
    <3> QED
      BY <1>0, <1>1, <1>4, <2>1, <3>3
  <2>3. Searched(r)
    BY DEF Searched
  <2>4. Corrected(t) = NextSource(s)
    BY DEF Corrected
  <2> QED
    BY <2>1, <2>2, <2>3, <2>4 DEF Continues
<1>5. ASSUME r.pc # "source" PROVE Continues(r, Raised(r))
  <2> PICK t : t = [r EXCEPT !.raised = @ \cup {r.cur}]
    OBVIOUS
  <2>1. /\ DOMAIN t = Fields /\ t.pc = r.pc /\ t.found = r.found /\ t.todo = r.todo
        /\ t.cur = r.cur /\ t.updated = r.updated /\ t.skipped = r.skipped /\ t.failed = r.failed
    BY DEF Fields
  <2>2. Continues(r, Corrected(t))
    BY <1>4, <1>5, <2>1
  <2> QED
    BY <2>2 DEF Raised
<1> QED
  BY <1>2, <1>3, <1>4, <1>5

(* What a correction finds: the memories the edges lead to, or nothing.    *)
LEMMA TracedIs ==
    ASSUME BaseInv, SourcesInv, NEW i, i \notin Episodes
    PROVE  Traced(i) = SourcesOf(i) \/ (Traced(i) = {} /\ backend = "neo4jpg")
<1>1. CASE backend = "neo4jpg"
  BY <1>1 DEF Traced, GetEdges, On, Neo4j!GetEdges
<1>2. ASSUME backend \in {"sqlite", "memory"} PROVE Traced(i) = SourcesOf(i)
  <2>1. \A e : e \in GetEdges(i, "DERIVED_FROM", "outgoing") <=>
                 e \in edges /\ e.type = "DERIVED_FROM" /\ (e.from = i \/ e.to = i)
    BY <1>2 DEF GetEdges, On, Sqlite!GetEdges, Memory!GetEdges
  <2>2. \A e \in edges : e.type = "DERIVED_FROM" => e.to # i
    BY DEF SourcesInv
  <2>3. \A m : m \in Traced(i) <=> m \in SourcesOf(i)
    BY <2>1, <2>2 DEF Traced, SourcesOf
  <2> QED
    BY <2>3
<1>3. backend \in {"sqlite", "memory", "neo4jpg"}
  BY DEF BaseInv, TypeInv, TablesTyped, Backends
<1> QED
  BY <1>1, <1>2, <1>3

LEMMA FeedbackGoesOn ==
    ASSUME BaseInv, SourcesInv, SourcesGrow, NEW c \in Calls, Step(c), EpisodeStep(c),
           NEW r, r = call[c], r.op = "feedback", Fed(r), Searched(r) => FoundOf(r.id, r.found),
           NEW s, s = call'[c]
    PROVE  Fed(s) /\ (Searched(s) => FoundOf(s.id, s.found)')
<1>1. DOMAIN r = Fields /\ DOMAIN call = Calls /\ s.id = r.id
  BY StepKeeps DEF BaseInv, TypeInv, CallsTyped, CallTyped, Advances
<1>2. ASSUME Continues(r, s) PROVE Fed(s) /\ (Searched(s) => FoundOf(s.id, s.found)')
  <2>1. Searched(s) => FoundOf(r.id, r.found)'
    BY <1>2, FoundStays DEF Continues, BaseInv
  <2> QED
    BY <1>1, <1>2, <2>1 DEF Continues
<1>3. ASSUME r.pc \in {"start", "update", "trace"}, NEW o, s = Ended(r, o),
             r.pc = "trace" => FoundOf(r.id, {})'
      PROVE  Fed(s) /\ (Searched(s) => FoundOf(s.id, s.found)')
  <2>1. /\ s.pc = "done" /\ s.found = r.found /\ s.updated = r.updated /\ s.skipped = r.skipped
        /\ s.failed = r.failed /\ s.counted = r.counted
    BY <1>1, <1>3 DEF Ended, Fields
  <2>2. Fed(s)
    BY <1>3, <2>1 DEF Fed, LoopPcs, Reported
  <2>3. Searched(s) => r.pc = "trace" /\ s.found = {}
    BY <1>3, <2>1 DEF Fed, Searched, LoopPcs
  <2> QED
    BY <1>1, <1>3, <2>2, <2>3
<1>4. CASE LookupMemory(c)
  <2>1. r.pc = "start" /\ (s = Ended(r, "error")
           \/ s = [r EXCEPT !.pc = "update", !.copy = RowOf(r.id), !.cur = r.id])
    BY <1>1, <1>4 DEF LookupMemory, Feeding, At, End
  <2>2. CASE s = [r EXCEPT !.pc = "update", !.copy = RowOf(r.id), !.cur = r.id]
    <3>1. /\ s.pc = "update" /\ s.found = r.found /\ s.updated = r.updated /\ s.todo = r.todo
          /\ s.skipped = r.skipped /\ s.failed = r.failed /\ s.counted = r.counted
      BY <1>1, <2>2 DEF Fields
    <3> QED
      BY <2>1, <3>1 DEF Fed, Searched, LoopPcs, Reported
  <2> QED
    BY <1>3, <2>1, <2>2
<1>5. CASE FeedbackUpdate(c)
  <2>1. r.pc = "update" /\ (s = Ended(r, "error") \/ \E amount : s = AfterUpdate(r, amount))
    BY <1>1, <1>5 DEF FeedbackUpdate, Feeding, At, End
  <2>2. ASSUME NEW amount, s = AfterUpdate(r, amount)
        PROVE  Fed(s) /\ ~Searched(s)
    <3>1. CASE r.arg = "corrected"
      <4>1. s = [r EXCEPT !.pc = "trace", !.copy = NoCopy, !.cur = NoId, !.counted = amount]
        BY <2>2, <3>1 DEF AfterUpdate
      <4>2. /\ s.pc = "trace" /\ s.found = r.found /\ s.updated = r.updated /\ s.todo = r.todo
            /\ s.skipped = r.skipped /\ s.failed = r.failed
        BY <1>1, <4>1 DEF Fields
      <4> QED
        BY <2>1, <4>2 DEF Fed, Searched, LoopPcs, Reported
    <3>2. CASE r.arg # "corrected"
      <4>1. s = Ended([r EXCEPT !.counted = amount], "ok")
        BY <2>2, <3>2 DEF AfterUpdate
      <4>2. /\ s.pc = "done" /\ s.found = r.found /\ s.updated = r.updated /\ s.todo = r.todo
            /\ s.skipped = r.skipped /\ s.failed = r.failed /\ s.arg = r.arg
        BY <1>1, <4>1 DEF Fields, Ended
      <4> QED
        BY <2>1, <3>2, <4>2 DEF Fed, Searched, LoopPcs, Reported
    <3> QED
      BY <3>1, <3>2
  <2> QED
    BY <1>3, <2>1, <2>2
<1>6. CASE Trace(c)
  <2> PICK sources : sources = IF r.id \in Episodes THEN {r.id} ELSE Traced(r.id)
    OBVIOUS
  <2>1. /\ r.pc = "trace" /\ edges' = edges /\ backend' = backend
        /\ \/ s = IF sources = {} THEN Ended(r, "ok")
                  ELSE [r EXCEPT !.pc = "source", !.todo = sources, !.found = sources]
           \/ Fails(FALSE) /\ s = Ended(r, "ok")
    BY <1>1, <1>6 DEF Trace, Feeding, At, End, NothingStored, tables, Step
  <2>2. Fails(FALSE) => FoundOf(r.id, {})'
    <3>1. faults \in Nat
      BY FaultsMount DEF BaseInv
    <3> QED
      BY <3>1 DEF Fails, FoundOf
  <2>3. FoundOf(r.id, sources)
    BY TracedIs, SourcesAre DEF FoundOf
  <2>4. FoundOf(r.id, sources)'
    BY <2>3, FoundStays DEF BaseInv
  <2>5. CASE s = Ended(r, "ok") /\ (sources = {} \/ Fails(FALSE))
    BY <1>3, <2>1, <2>2, <2>4, <2>5
  <2>6. CASE s = [r EXCEPT !.pc = "source", !.todo = sources, !.found = sources]
    <3>1. /\ s.pc = "source" /\ s.found = sources /\ s.todo = sources /\ s.updated = r.updated
          /\ s.skipped = r.skipped /\ s.failed = r.failed
      BY <1>1, <2>6 DEF Fields
    <3>2. Fed(s)
      BY <2>1, <3>1 DEF Fed, LoopPcs, Reported
    <3> QED
      BY <1>1, <2>4, <3>1, <3>2
  <2> QED
    BY <2>1, <2>5, <2>6
<1>7. CASE SourceRead(c)
  <2>1. r.pc = "source" /\ r.pc \in LoopPcs
    BY <1>7 DEF SourceRead, Feeding, At, LoopPcs
  <2>2. PICK m \in r.todo : \/ s = Skipped(r, m)
                            \/ s = [r EXCEPT !.pc = "boost", !.copy = episode[m], !.cur = m]
    BY <1>1, <1>7 DEF SourceRead
  <2>3. CASE s = [r EXCEPT !.pc = "boost", !.copy = episode[m], !.cur = m]
    <3>1. /\ s.pc = "boost" /\ s.cur = m /\ s.found = r.found /\ s.updated = r.updated
          /\ s.todo = r.todo /\ s.skipped = r.skipped /\ s.failed = r.failed
      BY <1>1, <2>3 DEF Fields
    <3>2. Continues(r, s)
      BY <2>1, <3>1 DEF Continues, Fed, Searched, LoopPcs, Reported
    <3> QED
      BY <1>2, <3>2
  <2> QED
    BY <1>1, <1>2, <2>1, <2>2, <2>3, SourceContinues
<1>8. ASSUME r.pc \in {"boost", "summary"}, NEW b, DOMAIN b = Fields,
             b.cur = r.cur, b.found = r.found, b.updated = r.updated, b.todo = r.todo,
             b.skipped = r.skipped, b.failed = r.failed, b.pc \in {"summary", "trust"}
      PROVE  Continues(r, b)
  BY <1>8 DEF Continues, Fed, Searched, LoopPcs, Reported
<1>9. CASE SourceBoost(c)
  <2>1. r.pc = "boost" /\ r.pc \in LoopPcs /\ s \in {AfterBoost(r), FailedSource(r)}
    BY <1>1, <1>9 DEF SourceBoost, Feeding, At, LoopPcs
  <2> PICK t : t = [r EXCEPT !.copy = Boosted(@), !.pc = "trust"]
    OBVIOUS
  <2> PICK u : u = [r EXCEPT !.copy = Boosted(@), !.pc = "summary"]
    OBVIOUS
  <2>2. AfterBoost(r) \in {t, u, Corrected(r)}
    <3>1. CASE r.id \in Episodes
      BY <1>1, <3>1 DEF AfterBoost
    <3>2. CASE r.id \notin Episodes /\ r.id \in Rules
      BY <1>1, <3>2 DEF AfterBoost
    <3>3. CASE r.id \notin Episodes /\ r.id \notin Rules
      BY <1>1, <3>3 DEF AfterBoost
    <3> QED
      BY <3>1, <3>2, <3>3
  <2>3. /\ t.pc = "trust" /\ t.cur = r.cur /\ t.found = r.found /\ t.updated = r.updated
        /\ t.todo = r.todo /\ t.skipped = r.skipped /\ t.failed = r.failed /\ DOMAIN t = Fields
    BY <1>1 DEF Fields
  <2>4. /\ u.pc = "summary" /\ u.cur = r.cur /\ u.found = r.found /\ u.updated = r.updated
        /\ u.todo = r.todo /\ u.skipped = r.skipped /\ u.failed = r.failed /\ DOMAIN u = Fields
    BY <1>1 DEF Fields
  <2>5. s \in {t, u, Corrected(r), FailedSource(r)}
    BY <2>1, <2>2
  <2>6. Continues(r, t)
    BY <1>8, <2>1, <2>3
  <2>7. Continues(r, u)
    BY <1>8, <2>1, <2>4
  <2>8. Continues(r, Corrected(r)) /\ Continues(r, FailedSource(r))
    BY <1>1, <2>1, SourceContinues
  <2> QED
    BY <1>2, <2>5, <2>6, <2>7, <2>8
<1>10. CASE SourceSummary(c)
  <2> PICK t : t = [r EXCEPT !.pc = "trust"]
    OBVIOUS
  <2>1. r.pc = "summary" /\ r.pc \in LoopPcs /\ s \in {t, Corrected(r)}
    BY <1>1, <1>10 DEF SourceSummary, Feeding, At, LoopPcs
  <2>2. /\ t.pc = "trust" /\ t.cur = r.cur /\ t.found = r.found /\ t.updated = r.updated
        /\ t.todo = r.todo /\ t.skipped = r.skipped /\ t.failed = r.failed /\ DOMAIN t = Fields
    BY <1>1 DEF Fields
  <2>3. Continues(r, t)
    BY <1>8, <2>1, <2>2
  <2>4. Continues(r, Corrected(r))
    BY <1>1, <2>1, SourceContinues
  <2> QED
    BY <1>2, <2>1, <2>3, <2>4
<1>11. CASE SourceTrust(c)
  <2>1. r.pc = "trust" /\ r.pc \in LoopPcs /\ s \in {Raised(r), Corrected(r)}
    BY <1>1, <1>11 DEF SourceTrust, Feeding, At, LoopPcs
  <2> QED
    BY <1>1, <1>2, <2>1, SourceContinues
<1> QED
  BY <1>4, <1>5, <1>6, <1>7, <1>9, <1>10, <1>11
  DEF EpisodeStep, TouchRead, TouchUpdate, SearchCandidates, FetchCandidate, Merge,
      CreateEpisode, LinkPool, LinkRelated, MatchPitfalls, TriggerPitfall, CountOccurrence,
      Retire, DeleteUser, Touching, Writing, At

LEMMA CorrectionStep ==
    ASSUME BaseInv, RunsInv, CorrectionInv, NEW c \in Calls, Step(c)
    PROVE  CorrectionInv'
<1>1. SourcesInv /\ SourcesInv' /\ SourcesGrow
  BY SourcesStep DEF CorrectionInv
<1>2. Advances(c) /\ TypeInv
  BY StepKeeps DEF BaseInv
<1>3. SUFFICES ASSUME NEW d \in Calls, call'[d].op = "feedback"
      PROVE  (Fed(call[d]) /\ (Searched(call[d]) => FoundOf(call[d].id, call[d].found)))'
  BY <1>1 DEF CorrectionInv
<1> PICK r : r = call[d]
  OBVIOUS
<1> PICK s : s = call'[d]
  OBVIOUS
<1>4. r.op = "feedback"
  BY <1>2, <1>3 DEF Advances
<1>5. Fed(r) /\ (Searched(r) => FoundOf(r.id, r.found))
  BY <1>4 DEF CorrectionInv
<1>6. Fed(s) /\ (Searched(s) => FoundOf(s.id, s.found)')
  <2>1. CASE d = c
    <3>1. EpisodeStep(c)
      BY <1>4, <2>1, OpsOfSteps DEF Step
    <3> QED
      BY <1>1, <1>4, <1>5, <2>1, <3>1, FeedbackGoesOn
  <2>2. CASE d # c
    <3>1. s = r
      BY <1>2, <2>2 DEF Advances
    <3> QED
      BY <1>1, <1>2, <1>5, <3>1, FoundStays
  <2> QED
    BY <2>1, <2>2
<1> QED
  BY <1>6

LEMMA CorrectionStart == Init => CorrectionInv
<1> SUFFICES ASSUME Init PROVE CorrectionInv
  OBVIOUS
<1>1. PICK w \in Workloads : call = w.calls /\ edges = w.edges
  BY DEF Init
<1>2. SourcesInv
  <2>1. \A c \in Calls : \A k \in Kinds : line[c][k].left = {} /\ line[c][k].made = {}
    BY DEF Init, NoLine
  <2> QED
    BY <1>1, <2>1, TracesAssumption DEF TracesAssumption, SourcesInv
<1>3. ASSUME NEW c \in Calls, call[c].op = "feedback"
      PROVE  Fed(call[c]) /\ ~Searched(call[c])
  <2>1. call[c] = Idle(call[c].op, call[c].id, call[c].arg)
    <3>1. IsRequest(call[c], w)
      BY <1>1, WorkloadsAssumption DEF WorkloadsAssumption
    <3>2. Ended(Idle("none", NoId, "none"), "ok").op = "none"
      BY DEF Ended, Idle
    <3> QED
      BY <1>3, <3>1, <3>2 DEF IsRequest
  <2>2. /\ call[c].pc = "start" /\ call[c].counted = 0 /\ call[c].found = {} /\ call[c].todo = {}
        /\ call[c].updated = {} /\ call[c].skipped = {} /\ call[c].failed = {}
    BY <2>1 DEF Idle
  <2> QED
    BY <2>2 DEF Fed, Searched, LoopPcs, Reported
<1> QED
  BY <1>2, <1>3 DEF CorrectionInv

LEMMA CorrectionInductive == BaseInv /\ RunsInv /\ CorrectionInv /\ [Next]_vars => CorrectionInv'
<1> SUFFICES ASSUME BaseInv, RunsInv, CorrectionInv, [Next]_vars PROVE CorrectionInv'
  OBVIOUS
<1>1. CASE UNCHANGED <<backend, faults, edges, call, line>>
  <2>1. SourcesInv'
    BY <1>1 DEF CorrectionInv, SourcesInv, Run, At
  <2>2. \A i, found : FoundOf(i, found) => FoundOf(i, found)'
    BY <1>1 DEF FoundOf, SourcesOf, JustMade
  <2>3. ASSUME NEW c \in Calls, call'[c].op = "feedback"
        PROVE  (Fed(call[c]) /\ (Searched(call[c]) => FoundOf(call[c].id, call[c].found)))'
    <3> PICK r : r = call[c]
      OBVIOUS
    <3>1. Fed(r) /\ (Searched(r) => FoundOf(r.id, r.found)) /\ call'[c] = r
      BY <1>1, <2>3 DEF CorrectionInv
    <3>2. Fed(r) /\ (Searched(r) => FoundOf(r.id, r.found)')
      BY <2>2, <3>1
    <3> QED
      BY <3>1, <3>2
  <2> QED
    BY <2>1, <2>3 DEF CorrectionInv
<1>2. UNCHANGED vars \/ Expire => UNCHANGED <<backend, faults, edges, call, line>>
  BY DEF vars, storeVars, tables, Expire, CacheExpires
<1> QED
  BY <1>1, <1>2, CorrectionStep DEF Next, Terminated

LEMMA Correcting == Spec => []CorrectionInv
<1>1. Init /\ []BaseInv /\ []RunsInv /\ [][Next]_vars => []CorrectionInv
  BY CorrectionStart, CorrectionInductive, PTL
<1> QED
  BY <1>1, Basis, Running, PTL DEF Spec

(* A finished correction has reported every memory it found the corrected  *)
(* one derived from, once each, and found them all: unless the lookup      *)
(* failed, or a run was still tracing it, or the store is Neo4j, which     *)
(* does not know the direction it is asked for.                            *)
THEOREM CorrectionsLand == Spec => []CorrectionLands
<1>1. CorrectionInv => CorrectionLands
  <2> SUFFICES ASSUME CorrectionInv, NEW c \in Calls,
                      At(c, "feedback", "done"), call[c].arg = "corrected", call[c].counted > 0,
                      NEW r, r = call[c]
               PROVE  /\ Reported(r) = r.found
                      /\ r.updated \cap (r.skipped \cup r.failed) = {}
                      /\ FoundOf(r.id, r.found)
    BY DEF CorrectionLands, Reported, FoundOf
  <2> QED
    BY DEF CorrectionInv, Searched, Fed, At
<1> QED
  BY <1>1, Correcting, PTL

-----------------------------------------------------------------------------
(* Sums over a finite set, as MapThenSumSet takes them: every subset has a *)
(* subtotal, its first element on top of the subtotal of the rest.         *)

(* A set of natural numbers has a least one.                               *)
LEMMA NatMin == ASSUME NEW T \in SUBSET Nat, T # {} PROVE \E x \in T : \A y \in T : x <= y
<1>1. IsWellFoundedOn({ss \in Nat \X Nat : ss[1] < ss[2]}, Nat)
  BY NatLessThanWellFounded DEF OpToRel
<1>2. PICK x \in T : \A y \in T : ~ (<<y, x>> \in {ss \in Nat \X Nat : ss[1] < ss[2]})
  BY <1>1, WFMin
<1>3. ASSUME NEW y \in T PROVE x <= y
  <2>1. x \in Nat /\ y \in Nat /\ <<y, x>> \in Nat \X Nat /\ <<y, x>>[1] = y /\ <<y, x>>[2] = x
    BY <1>3
  <2>2. ~(y < x)
    BY <1>2, <1>3, <2>1
  <2> QED
    BY <2>1, <2>2
<1> QED
  BY <1>3

First(s) == CHOOSE x \in s : TRUE
SumStep(f, g, s) == IF s = {} THEN 0 ELSE f[First(s)] + g[s \ {First(s)}]
Sums(f, g, S) == g = [s \in SUBSET S |-> SumStep(f, g, s)]

LEMMA FirstIn == \A s : s # {} => First(s) \in s
BY DEF First

(* The subtotals exist.                                                    *)
LEMMA SumsExist == ASSUME NEW S, IsFiniteSet(S), NEW f PROVE \E g : Sums(f, g, S)
<1> DEFINE Upto(n, g) == /\ g = [s \in SUBSET S |-> g[s]]
                         /\ \A s \in SUBSET S : Cardinality(s) <= n => g[s] = SumStep(f, g, s)
           Bad == {n \in Nat : ~\E g : Upto(n, g)}
<1>1. \A s \in SUBSET S : IsFiniteSet(s) /\ Cardinality(s) \in Nat /\ Cardinality(s) <= Cardinality(S)
  BY FS_Subset, FS_CardinalityType
<1>2. \A s \in SUBSET S : s # {} => /\ s \ {First(s)} \in SUBSET S
                                    /\ Cardinality(s \ {First(s)}) = Cardinality(s) - 1
  BY <1>1, FirstIn, FS_RemoveElement
<1>3. ASSUME NEW n \in Nat, NEW g, n # 0 => Upto(n - 1, g), NEW h,
             h = [s \in SUBSET S |-> SumStep(f, g, s)]
      PROVE  Upto(n, h)
  <2>1. h = [s \in SUBSET S |-> h[s]]
    BY <1>3
  <2>2. ASSUME NEW s \in SUBSET S, Cardinality(s) <= n PROVE h[s] = SumStep(f, h, s)
    <3>1. CASE s = {}
      BY <1>3, <3>1 DEF SumStep
    <3>2. CASE s # {}
      <4> PICK t : t = s \ {First(s)}
        OBVIOUS
      <4>1. t \in SUBSET S /\ Cardinality(t) = Cardinality(s) - 1 /\ Cardinality(t) \in Nat
        BY <1>1, <1>2, <3>2
      <4>2. n # 0 /\ Cardinality(t) <= n - 1
        BY <1>1, <2>2, <4>1
      <4>3. g[t] = SumStep(f, g, t)
        BY <1>3, <4>1, <4>2
      <4>4. h[t] = g[t]
        BY <1>3, <4>1, <4>3
      <4> QED
        BY <1>3, <3>2, <4>4 DEF SumStep
    <3> QED
      BY <3>1, <3>2
  <2> QED
    BY <2>1, <2>2
<1>4. Bad = {}
  <2> SUFFICES ASSUME Bad # {} PROVE FALSE
    OBVIOUS
  <2>1. PICK n \in Bad : \A m \in Bad : n <= m
    BY NatMin
  <2>2. n \in Nat /\ (n # 0 => n - 1 \in Nat /\ n - 1 \notin Bad)
    <3>1. n \in Nat /\ \A m \in Bad : n <= m
      BY <2>1
    <3>2. n # 0 => n - 1 \in Nat /\ ~(n <= n - 1)
      BY <3>1
    <3> QED
      BY <3>1, <3>2
  <2>3. n # 0 => \E g : Upto(n - 1, g)
    BY <2>2
  <2>4. PICK g : n # 0 => Upto(n - 1, g)
    BY <2>3
  <2> HIDE DEF Upto
  <2>5. PICK h : h = [s \in SUBSET S |-> SumStep(f, g, s)]
    OBVIOUS
  <2>6. Upto(n, h)
    BY <1>3, <2>2, <2>4, <2>5
  <2> QED
    BY <2>1, <2>6
<1>5. PICK g : Upto(Cardinality(S), g)
  BY <1>1, <1>4
<1>6. \A s \in SUBSET S : g[s] = SumStep(f, g, s)
  BY <1>1, <1>5
<1>7. g = [s \in SUBSET S |-> SumStep(f, g, s)]
  BY <1>5, <1>6
<1> QED
  BY <1>7 DEF Sums

(* Induction over the subsets of a finite set: the sets for which          *)
(* something fails have a smallest one.                                    *)
LEMMA LeastSubset ==
    ASSUME NEW S, IsFiniteSet(S), NEW T \in SUBSET SUBSET S, T # {}
    PROVE  \E s \in T : s # {} => s \ {First(s)} \notin T
<1>1. \A s \in T : IsFiniteSet(s) /\ Cardinality(s) \in Nat
  BY FS_Subset, FS_CardinalityType
<1> DEFINE N == {Cardinality(s) : s \in T}
<1>0. N \in SUBSET Nat /\ N # {}
  BY <1>1
<1>2. PICK n \in N : \A m \in N : n <= m
  BY <1>0, NatMin
<1>3. PICK s \in T : n = Cardinality(s)
  BY <1>2
<1>4. ASSUME s # {}, s \ {First(s)} \in T PROVE FALSE
  <2>1. Cardinality(s \ {First(s)}) = Cardinality(s) - 1
    BY <1>1, <1>4, FirstIn, FS_RemoveElement
  <2> QED
    BY <1>1, <1>2, <1>3, <1>4, <2>1
<1> QED
  BY <1>4

(* Nothing adds up to nothing.                                             *)
LEMMA SumsZero ==
    ASSUME NEW S, IsFiniteSet(S), NEW f, NEW g, Sums(f, g, S), \A x \in S : f[x] = 0
    PROVE  g[S] = 0
<1> DEFINE Bad == {s \in SUBSET S : g[s] # 0}
<1>2. ASSUME NEW s \in Bad, s # {} => s \ {First(s)} \notin Bad PROVE FALSE
  <2>1. g[s] = SumStep(f, g, s)
    BY DEF Sums
  <2>2. s # {} => g[s \ {First(s)}] = 0 /\ First(s) \in S
    BY <1>2, FirstIn
  <2> QED
    BY <1>2, <2>1, <2>2 DEF SumStep
<1>3. Bad = {}
  BY <1>2, LeastSubset
<1> QED
  BY <1>3

(* When one summand grows by k the sum does.                               *)
LEMMA SumsGrow ==
    ASSUME NEW S, IsFiniteSet(S), NEW f \in [S -> Nat], NEW h \in [S -> Nat], NEW c \in S,
           NEW k \in Nat, h[c] = f[c] + k, \A x \in S : x # c => h[x] = f[x],
           NEW g, NEW j, Sums(f, g, S), Sums(h, j, S)
    PROVE  g[S] \in Nat /\ j[S] = g[S] + k
<1> DEFINE Good(s) == g[s] \in Nat /\ j[s] = g[s] + (IF c \in s THEN k ELSE 0)
           Bad == {s \in SUBSET S : ~Good(s)}
<1>3. ASSUME NEW s \in Bad, s # {} => s \ {First(s)} \notin Bad PROVE FALSE
  <2>1. g[s] = SumStep(f, g, s) /\ j[s] = SumStep(h, j, s)
    BY DEF Sums
  <2>2. CASE s = {}
    BY <1>3, <2>1, <2>2 DEF SumStep
  <2>3. CASE s # {}
    <3> PICK x : x = First(s)
      OBVIOUS
    <3> PICK t : t = s \ {x}
      OBVIOUS
    <3>1. x \in S /\ x \in s /\ Good(t)
      BY <1>3, <2>3, FirstIn
    <3>2. g[s] = f[x] + g[t] /\ j[s] = h[x] + j[t]
      BY <2>1, <2>3 DEF SumStep
    <3>3. f[x] \in Nat /\ (x = c => h[x] = f[x] + k) /\ (x # c => h[x] = f[x])
      BY <3>1
    <3>4. x = c => c \notin t /\ c \in s
      BY <3>1
    <3>5. x # c => (c \in t <=> c \in s)
      BY <3>1
    <3>6. Good(s)
      BY <3>1, <3>2, <3>3, <3>4, <3>5
    <3> QED
      BY <1>3, <3>6
  <2> QED
    BY <2>2, <2>3
<1>4. Bad = {}
  BY <1>3, LeastSubset
<1> QED
  BY <1>4

-----------------------------------------------------------------------------
(* Steps that leave what a call raised as it is.                           *)

SameRaised(c) == call'[c].raised = call[c].raised

LEMMA RaisedSame ==
    ASSUME NEW r, DOMAIN r = Fields
    PROVE  /\ \A o : Ended(r, o).raised = r.raised
           /\ NextPair(r).raised = r.raised
BY DEF Ended, NextPair, Fields

LEMMA EndSame ==
    ASSUME TypeInv, NEW c \in Calls, (\E o : End(c, o)) \/ (\E pc : Goto(c, pc)) \/ UNCHANGED call
    PROVE  SameRaised(c)
<1>1. DOMAIN call = Calls /\ DOMAIN call[c] = Fields
  BY DEF TypeInv, CallsTyped, CallTyped
<1>2. ASSUME NEW o, End(c, o) PROVE SameRaised(c)
  <2>1. call'[c] = Ended(call[c], o)
    BY <1>1, <1>2 DEF End
  <2>2. Ended(call[c], o).raised = call[c].raised
    BY <1>1, RaisedSame
  <2> QED
    BY <2>1, <2>2 DEF SameRaised
<1>3. ASSUME NEW pc, Goto(c, pc) PROVE SameRaised(c)
  BY <1>1, <1>3 DEF Goto, SameRaised, Fields
<1> QED
  BY <1>2, <1>3 DEF SameRaised

LEMMA PitfallSame ==
    ASSUME TypeInv, NEW c \in Calls, PitfallStep(c)
    PROVE  SameRaised(c) /\ UNCHANGED <<episode, rule>>
<1>1. DOMAIN call = Calls /\ DOMAIN call[c] = Fields
  BY DEF TypeInv, CallsTyped, CallTyped
<1>2. UNCHANGED <<episode, rule>>
  BY DEF PitfallStep, ConfirmPitfall, FeedbackPitfall, SingleUpdate, SuppressStatus,
     SuppressCount, SuppressWeaken, LinkRead, LinkWrite, PrepareSearch, PrepareCount,
     UpdatePitfallStatus, ApplyPitfallFeedback, AddPitfallCounters, WritePitfall, OnlyPitfall,
     NothingStored, tables
<1>4. CASE ConfirmPitfall(c) \/ FeedbackPitfall(c) \/ SuppressWeaken(c) \/ LinkWrite(c)
  <2>1. \E o : End(c, o)
    BY <1>4 DEF ConfirmPitfall, FeedbackPitfall, SingleUpdate, SuppressWeaken, LinkWrite
  <2> QED
    BY <1>2, <2>1, EndSame
<1>5. CASE SuppressStatus(c)
  <2>1. (\E o : End(c, o)) \/ (\E pc : Goto(c, pc))
    BY <1>5 DEF SuppressStatus
  <2> QED
    BY <1>2, <2>1, EndSame
<1>6. CASE SuppressCount(c)
  <2>1. CASE call' = [call EXCEPT ![c].pc = "weaken", ![c].counted = 1]
    BY <1>1, <1>2, <2>1 DEF SameRaised, Fields
  <2> QED
    BY <1>2, <1>6, <2>1, EndSame DEF SuppressCount
<1>7. CASE LinkRead(c)
  <2>1. CASE call' = [call EXCEPT ![c].pc = "write", ![c].copy = pitfall[call[c].id], ![c].cur = call[c].id]
    BY <1>1, <1>2, <2>1 DEF SameRaised, Fields
  <2> QED
    BY <1>2, <1>7, <2>1, EndSame DEF LinkRead
<1>8. CASE PrepareSearch(c)
  <2>1. ASSUME NEW shown, call' = [call EXCEPT ![c] =
                   IF shown = {} THEN Ended(@, "ok")
                   ELSE [@ EXCEPT !.pc = "count", !.todo = shown, !.found = shown]]
        PROVE  SameRaised(c)
    BY <1>1, <2>1 DEF SameRaised, Fields, Ended
  <2>2. (\E o : End(c, o)) \/ SameRaised(c)
    BY <1>8, <2>1 DEF PrepareSearch
  <2> QED
    BY <1>2, <2>2, EndSame
<1>9. CASE PrepareCount(c)
  <2>1. PICK p : call' = [call EXCEPT ![c] =
                   IF call[c].todo \ {p} = {} THEN Ended([call[c] EXCEPT !.todo = call[c].todo \ {p}], "ok")
                   ELSE [call[c] EXCEPT !.todo = call[c].todo \ {p}]]
    BY <1>9 DEF PrepareCount
  <2> QED
    BY <1>1, <1>2, <2>1 DEF SameRaised, Fields, Ended
<1> QED
  BY <1>4, <1>5, <1>6, <1>7, <1>8, <1>9 DEF PitfallStep

LEMMA RuleSame ==
    ASSUME TypeInv, NEW c \in Calls, RuleStep(c)
    PROVE  SameRaised(c) /\ episode' = episode /\ (rule' = rule \/ RetireLoser(c))
<1>1. DOMAIN call = Calls /\ DOMAIN call[c] = Fields
  BY DEF TypeInv, CallsTyped, CallTyped
<1>2. (rule' = rule \/ RetireLoser(c)) /\ episode' = episode
  BY DEF RuleStep, DetectRules, DetectList, SavePair, ResolveRead, RetireLoser, LinkLoser,
     SettleRecord, NothingStored, tables, SaveRuleConflict, CreateEdge, OnlyEdges,
     ResolveRuleConflict, MarkSemanticObsolete, OnlyRule
<1>3. CASE DetectRules(c)
  <2>1. CASE call' = [call EXCEPT ![c].pc = "list", ![c].copy = [r \in SearchSemantic |-> rule[r]]]
    <3> PICK rows : rows = [r \in SearchSemantic |-> rule[r]]
      OBVIOUS
    <3>1. call' = [call EXCEPT ![c].pc = "list", ![c].copy = rows]
      BY <2>1
    <3> QED
      BY <1>1, <1>2, <3>1 DEF SameRaised, Fields
  <2> QED
    BY <1>2, <1>3, <2>1, EndSame DEF DetectRules
<1>4. CASE DetectList(c)
  <2>1. ASSUME NEW pairs, NEW left,
               call' = [call EXCEPT ![c] = NextPair([@ EXCEPT !.found = pairs, !.todo = left])]
        PROVE  SameRaised(c)
    <3> PICK s : s = [call[c] EXCEPT !.found = pairs, !.todo = left]
      OBVIOUS
    <3>1. call'[c] = NextPair(s)
      BY <1>1, <2>1
    <3>2. DOMAIN s = Fields /\ s.raised = call[c].raised
      BY <1>1 DEF Fields
    <3> QED
      BY <3>1, <3>2, RaisedSame DEF SameRaised
  <2> QED
    BY <1>2, <1>4, <2>1, EndSame DEF DetectList
<1>5. CASE SavePair(c)
  <2>1. CASE \E o : End(c, o)
    BY <1>2, <2>1, EndSame
  <2>2. CASE ~\E o : End(c, o)
    <3>1. PICK pair : call' = [call EXCEPT ![c] =
                   IF Graded(call[c].copy, pair)
                   THEN [[call[c] EXCEPT !.todo = @ \ {pair}]
                           EXCEPT !.pc = "retire", !.cur = NewRecord(c, pair),
                                  !.arg = Winner(call[c].copy, pair),
                                  !.updated = @ \cup {NewRecord(c, pair).id}]
                   ELSE NextPair([call[c] EXCEPT !.todo = @ \ {pair}])]
      BY <1>5, <2>2 DEF SavePair
    <3> PICK s : s = [call[c] EXCEPT !.todo = @ \ {pair}]
      OBVIOUS
    <3>0. s.raised = call[c].raised /\ DOMAIN s = Fields
      BY <1>1 DEF Fields
    <3>2. NextPair(s).raised = s.raised
      BY <3>0, RaisedSame
    <3>3. \A p, u, a, w : [s EXCEPT !.pc = p, !.cur = u, !.arg = a, !.updated = w].raised = s.raised
      BY <3>0 DEF Fields
    <3>4. \/ call'[c] = NextPair(s)
          \/ call'[c] = [s EXCEPT !.pc = "retire", !.cur = NewRecord(c, pair),
                                  !.arg = Winner(call[c].copy, pair),
                                  !.updated = @ \cup {NewRecord(c, pair).id}]
      BY <1>1, <3>1
    <3>5. call'[c].raised = s.raised
      <4>1. CASE call'[c] = NextPair(s)
        BY <3>2, <4>1
      <4>2. CASE call'[c] = [s EXCEPT !.pc = "retire", !.cur = NewRecord(c, pair),
                                      !.arg = Winner(call[c].copy, pair),
                                      !.updated = @ \cup {NewRecord(c, pair).id}]
        <5> PICK u : u = NewRecord(c, pair)
          OBVIOUS
        <5> PICK a : a = Winner(call[c].copy, pair)
          OBVIOUS
        <5> PICK w : w = s.updated \cup {NewRecord(c, pair).id}
          OBVIOUS
        <5>1. call'[c] = [s EXCEPT !.pc = "retire", !.cur = u, !.arg = a, !.updated = w]
          BY <4>2
        <5> QED
          BY <3>3, <5>1
      <4> QED
        BY <3>4, <4>1, <4>2
    <3> QED
      BY <1>2, <3>0, <3>5 DEF SameRaised
  <2> QED
    BY <2>1, <2>2
<1>6. CASE ResolveRead(c)
  <2>1. ASSUME NEW rec, NEW winner,
               call' = [call EXCEPT ![c].pc = "retire", ![c].cur = rec, ![c].arg = winner,
                                    ![c].updated = {rec.id}]
        PROVE  SameRaised(c)
    <3> PICK u : u = {rec.id}
      OBVIOUS
    <3>1. call' = [call EXCEPT ![c].pc = "retire", ![c].cur = rec, ![c].arg = winner,
                               ![c].updated = u]
      BY <2>1
    <3> QED
      BY <1>1, <3>1 DEF SameRaised, Fields
  <2> QED
    BY <1>2, <1>6, <2>1, EndSame DEF ResolveRead
<1>7. CASE RetireLoser(c) \/ LinkLoser(c)
  <2>1. (\E o : End(c, o)) \/ (\E pc : Goto(c, pc))
    BY <1>7 DEF RetireLoser, LinkLoser
  <2> QED
    BY <1>2, <2>1, EndSame
<1>8. CASE SettleRecord(c)
  <2>1. CASE call' = [call EXCEPT ![c] = NextPair(@)]
    BY <1>1, <1>2, <2>1, RaisedSame DEF SameRaised
  <2> QED
    BY <1>2, <1>8, <2>1, EndSame DEF SettleRecord
<1> QED
  BY <1>3, <1>4, <1>5, <1>6, <1>7, <1>8 DEF RuleStep

LEMMA RunSame ==
    ASSUME TypeInv, NEW c \in Calls, RunStep(c)
    PROVE  SameRaised(c) /\ episode' = episode
<1>1. DOMAIN call = Calls /\ DOMAIN call[c] = Fields
  BY DEF TypeInv, CallsTyped, CallTyped
<1>2. episode' = episode
  BY DEF RunStep, Trigger, Scan, BacktestFails, SaveResult, LineStore, LineTrace, NothingStored,
     tables, Store, WriteSemantic, OnlyRule, WritePitfall, OnlyPitfall, CreateEdge, OnlyEdges,
     SaveConsolidationRun
<1>3. CASE Trigger(c)
  <2>1. CASE call' = [call EXCEPT ![c].pc = "scan", ![c].outcome = "ok"]
    BY <1>1, <1>2, <2>1 DEF SameRaised, Fields
  <2> QED
    BY <1>2, <1>3, <2>1, EndSame DEF Trigger
<1>4. CASE Scan(c)
  <2>1. ASSUME NEW found, call' = [call EXCEPT ![c].pc = "lines", ![c].found = found]
        PROVE  SameRaised(c)
    BY <1>1, <2>1 DEF SameRaised, Fields
  <2> QED
    BY <1>2, <1>4, <2>1, EndSame DEF Scan
<1>5. CASE ~Trigger(c) /\ ~Scan(c)
  BY <1>2, <1>5, EndSame DEF RunStep, BacktestFails, SaveResult, LineStore, LineTrace
<1> QED
  BY <1>3, <1>4, <1>5

-----------------------------------------------------------------------------
(* What a step does to the count of one memory.                            *)

(* The memories whose row keeps a frequency that calls count up.           *)
Tallied == Episodes \cup Rules

(* The call has in hand the row of a memory whose increments count.        *)
Holding(r, i) ==
    /\ HoldsEpisode(r) /\ r.cur = i
    /\ i \in Episodes \/ (i \in Rules /\ HoldsOwn(r))
Creating(r) == r.op = "write" /\ r.pc \in {"start", "fetch", "merge", "create"}

Alike(old, new) == new.freq = old.freq /\ new.trust = old.trust

(* What one step of a call, from r to s, does to a memory with a row: the  *)
(* frequency g and the trust l (0 or 1) it counts for it, whether the row  *)
(* still says the same, and where what it says comes from.                 *)
Counts(i, r, s, g, l) ==
    /\ IF r.id = i THEN s.counted = r.counted + g ELSE g = 0
    /\ IF l = 0 THEN i \in s.raised <=> i \in r.raised ELSE i \in s.raised /\ i \notin r.raised

Stays(row, new, g, l) ==
    g = 0 /\ l = 0 /\ new.stored = row.stored /\ (row.stored => Alike(row, new))
Goes(i, s, new, g, l) == g = 0 /\ l = 0 /\ ~Holding(s, i) /\ ~new.stored
Reweighs(i, r, row, new, g, l) ==
    /\ Holding(r, i) /\ l = 0
    /\ new.stored = row.stored
    /\ row.stored => new.freq = r.copy.freq + g /\ new.trust = row.trust
Rewrites(i, r, new, g, l) ==
    /\ Holding(r, i) /\ g = 0 /\ i \in Episodes
    /\ new.stored
    /\ new.freq = r.copy.freq /\ new.trust = Least(MaxTrust, r.copy.trust + l)
Creates(i, r, s, row, new, g, l) ==
    /\ g = 0 /\ l = 0
    /\ ~row.stored /\ new.stored
    /\ new.freq = Full /\ new.trust = DefaultTrust
    /\ i \in Rules \/ (Creating(r) /\ ~Creating(s) /\ r.id = i)
RowMoves(i, r, s, row, new, g, l) ==
    \/ Stays(row, new, g, l) \/ Goes(i, s, new, g, l)
    \/ Reweighs(i, r, row, new, g, l) \/ Rewrites(i, r, new, g, l) \/ Creates(i, r, s, row, new, g, l)

(* What the call holds afterwards it has just read, or held before.        *)
HandMoves(i, r, s, row, new, g, l) ==
    Holding(s, i) =>
        /\ g = 0 /\ l = 0
        /\ \/ s.copy = row /\ row.stored /\ new = row
           \/ Holding(r, i) /\ s.copy.freq = r.copy.freq /\ s.copy.trust = r.copy.trust

Effect(i, r, s, row, new) ==
    \E g \in Nat, l \in {0, 1} :
        Counts(i, r, s, g, l) /\ RowMoves(i, r, s, row, new, g, l) /\ HandMoves(i, r, s, row, new, g, l)
EffectOf(c) == \A i \in Tallied : Effect(i, call[c], call'[c], RowOf(i), RowOf(i)')

(* A call counts when it answers, and once.                                *)
CountsOnce(r) ==
    /\ r.id \in Tallied => r.counted \in Nat
    /\ r.op = "touch" /\ r.pc \in {"start", "update"} => r.counted = 0
    /\ r.op = "touch" => r.id \in Episodes
    /\ r.op # "feedback" => r.raised = {}
    /\ r.op \in {"write", "retire"} => r.id \in Episodes
    /\ r.op \notin {"touch", "feedback", "write", "retire"} => r.id \notin Tallied
    /\ r.raised \subseteq r.updated

-----------------------------------------------------------------------------
(* A step that counts nothing, and holds nothing new.                      *)
LEMMA QuietEffect ==
    ASSUME NEW i, NEW r, NEW s, NEW row, NEW new, r.id = i => r.counted \in Nat,
           new.stored = row.stored, row.stored => Alike(row, new),
           r.id = i => s.counted = r.counted, i \in s.raised <=> i \in r.raised, ~Holding(s, i)
    PROVE  Effect(i, r, s, row, new)
<1>1. Counts(i, r, s, 0, 0)
  BY DEF Counts
<1>2. RowMoves(i, r, s, row, new, 0, 0)
  BY DEF RowMoves, Stays
<1>3. HandMoves(i, r, s, row, new, 0, 0)
  BY DEF HandMoves
<1> QED
  BY <1>1, <1>2, <1>3 DEF Effect

(* A step that takes a row in hand.                                        *)
LEMMA FreshEffect ==
    ASSUME NEW i, NEW r, NEW s, NEW row, r.id = i => r.counted \in Nat, s.counted = r.counted,
           s.raised = r.raised, Holding(s, i) => s.copy = row /\ row.stored
    PROVE  Effect(i, r, s, row, row)
<1>1. Counts(i, r, s, 0, 0)
  BY DEF Counts
<1>2. RowMoves(i, r, s, row, row, 0, 0)
  BY DEF RowMoves, Stays, Alike
<1>3. HandMoves(i, r, s, row, row, 0, 0)
  BY DEF HandMoves
<1> QED
  BY <1>1, <1>2, <1>3 DEF Effect

(* A run creates a rule.                                                   *)
LEMMA AddedEffect ==
    ASSUME NEW i \in Rules, NEW r, NEW s, NEW row, NEW new,
           ~row.stored, new.stored, new.freq = Full, new.trust = DefaultTrust,
           r.id # i, s.raised = r.raised, ~HoldsEpisode(s)
    PROVE  Effect(i, r, s, row, new)
<1>1. Counts(i, r, s, 0, 0)
  BY DEF Counts
<1>2. RowMoves(i, r, s, row, new, 0, 0)
  BY DEF RowMoves, Creates
<1>3. HandMoves(i, r, s, row, new, 0, 0)
  BY DEF HandMoves, Holding
<1> QED
  BY <1>1, <1>2, <1>3 DEF Effect

(* A retired rule keeps its count.                                         *)
LEMMA RuleMarked ==
    ASSUME TypeInv, NEW l, MarkSemanticObsolete(l)
    PROVE  \A r \in Rules : rule'[r].stored = rule[r].stored /\ Alike(rule[r], rule'[r])
<1> DEFINE new == On(Sqlite!MarkSemanticObsolete(rule[l]), Memory!MarkSemanticObsolete(rule[l]),
                     rule[l])
<1>1. rule' = [rule EXCEPT ![l] = new] /\ DOMAIN rule = Rules
  BY DEF MarkSemanticObsolete, TypeInv, TablesTyped
<1>2. ASSUME l \in Rules PROVE new.stored = rule[l].stored /\ Alike(rule[l], new)
  <2>1. rule[l] \in RuleRow
    BY <1>2 DEF TypeInv, TablesTyped
  <2> QED
    BY <2>1 DEF On, RuleRow, EpisodeRow, Sqlite!MarkSemanticObsolete, Sqlite!Updated,
       Memory!MarkSemanticObsolete, Alike
<1> HIDE DEF new
<1>3. SUFFICES ASSUME NEW q \in Rules
      PROVE  rule'[q].stored = rule[q].stored /\ Alike(rule[q], rule'[q])
  OBVIOUS
<1>4. CASE q = l
  BY <1>1, <1>2, <1>4
<1>5. CASE q # l
  BY <1>1, <1>5 DEF Alike
<1> QED
  BY <1>4, <1>5

(* The steps of the calls that never touch an episode.                     *)
LEMMA RulesAlike ==
    ASSUME TypeInv, NEW c \in Calls, Step(c), PitfallStep(c) \/ RuleStep(c) \/ RunStep(c)
    PROVE  /\ SameRaised(c) /\ episode' = episode
           /\ \/ \A r \in Rules : rule'[r].stored = rule[r].stored /\ Alike(rule[r], rule'[r])
              \/ RuleAdded(c)
<1>1. CASE PitfallStep(c)
  BY <1>1, PitfallSame DEF Alike
<1>2. CASE RuleStep(c)
  <2>1. SameRaised(c) /\ episode' = episode /\ (rule' = rule \/ RetireLoser(c))
    BY <1>2, RuleSame
  <2>2. rule' = rule \/ \E l : MarkSemanticObsolete(l)
    BY <2>1 DEF RetireLoser, NothingStored, tables
  <2> QED
    BY <2>1, <2>2, RuleMarked DEF Alike
<1>3. CASE RunStep(c)
  <2>1. SameRaised(c) /\ episode' = episode
    BY <1>3, RunSame
  <2>2. rule' = rule \/ \E k \in Kinds : LineStore(c, k)
    BY <1>3 DEF RunStep, Trigger, Scan, BacktestFails, SaveResult, LineTrace, NothingStored, tables,
       CreateEdge, OnlyEdges, SaveConsolidationRun
  <2>3. rule' = rule \/ RuleAdded(c)
    <3>1. SUFFICES ASSUME NEW k \in Kinds, LineStore(c, k), rule' # rule PROVE RuleAdded(c)
      BY <2>2
    <3>2. PICK sources : Store(k, FreshId(k), sources)
      BY <3>1 DEF LineStore, NothingStored, tables
    <3>3. WriteSemantic(FreshId(k), NewRule) /\ k = "rule"
      BY <3>1, <3>2 DEF Store, WritePitfall, OnlyPitfall
    <3>4. rule' = [rule EXCEPT ![FreshId(k)] = NewRule]
      BY <3>3 DEF WriteSemantic, On, Sqlite!WriteSemantic, Memory!WriteSemantic,
         Neo4j!WriteSemantic
    <3>5. FreshId(k) \in Fresh(k)
      BY <3>1 DEF LineStore, FreshId
    <3> QED
      BY <3>1, <3>3, <3>4, <3>5 DEF Fresh, LineStore, Working, Run, At, RuleAdded
  <2> QED
    BY <2>1, <2>3 DEF Alike
<1> QED
  BY <1>1, <1>2, <1>3

LEMMA OtherEffect ==
    ASSUME TypeInv, NEW c \in Calls, CountsOnce(call[c]), Step(c),
           PitfallStep(c) \/ RuleStep(c) \/ RunStep(c)
    PROVE  EffectOf(c) /\ SameRaised(c)
<1>1. /\ call[c].op \notin {"touch", "feedback", "write", "retire"}
      /\ call'[c].op = call[c].op /\ call'[c].id = call[c].id
  BY OpsOfSteps, StepKeeps DEF Advances
<1>2. /\ SameRaised(c) /\ episode' = episode
      /\ \/ \A r \in Rules : rule'[r].stored = rule[r].stored /\ Alike(rule[r], rule'[r])
         \/ RuleAdded(c)
  BY RulesAlike
<1> SUFFICES ASSUME NEW i \in Tallied PROVE Effect(i, call[c], call'[c], RowOf(i), RowOf(i)')
  BY <1>2 DEF EffectOf
<1> PICK r, s : r = call[c] /\ s = call'[c]
  OBVIOUS
<1> PICK row, new : row = RowOf(i) /\ new = RowOf(i)'
  OBVIOUS
<1>3. r.id # i /\ s.raised = r.raised /\ ~HoldsEpisode(s) /\ ~Holding(s, i)
  BY <1>1, <1>2 DEF CountsOnce, SameRaised, HoldsEpisode, Holding
<1>4. CASE new.stored = row.stored /\ Alike(row, new)
  <2>1. Effect(i, r, s, row, new)
    BY <1>3, <1>4, QuietEffect
  <2> QED
    BY <2>1
<1>5. i \in Episodes => row = episode[i] /\ new = episode'[i]
  BY DEF RowOf
<1>6. i \in Rules => row = rule[i] /\ new = rule'[i]
  BY IdsAssumption DEF RowOf, IdsAssumption
<1>7. CASE i \in Episodes
  BY <1>2, <1>4, <1>5, <1>7 DEF Alike
<1>8. CASE i \in Rules
  <2>1. CASE \A q \in Rules : rule'[q].stored = rule[q].stored /\ Alike(rule[q], rule'[q])
    BY <1>4, <1>6, <1>8, <2>1
  <2>2. CASE RuleAdded(c)
    <3>1. PICK q : /\ q \in Rules => ~rule[q].stored
                   /\ rule' = [rule EXCEPT ![q] = NewRule]
      BY <2>2 DEF RuleAdded
    <3>2. DOMAIN rule = Rules
      BY DEF TypeInv, TablesTyped
    <3>3. CASE q # i
      BY <1>4, <1>6, <1>8, <3>1, <3>2, <3>3 DEF Alike
    <3>4. CASE q = i
      <4>1. ~row.stored /\ new = NewRule
        BY <1>6, <1>8, <3>1, <3>2, <3>4
      <4>2. new.stored /\ new.freq = Full /\ new.trust = DefaultTrust
        BY <4>1 DEF NewRule, NoRule
      <4>3. Effect(i, r, s, row, new)
        BY <1>3, <1>8, <4>1, <4>2, AddedEffect
      <4> QED
        BY <4>3
    <3> QED
      BY <3>3, <3>4
  <2> QED
    BY <1>2, <2>1, <2>2
<1> QED
  BY <1>7, <1>8 DEF Tallied

-----------------------------------------------------------------------------
(* The effects that count, and the rows the methods of the stores write.   *)

(* The weight is updated, and g counted, from the row in hand.             *)
LEMMA ReweighEffect ==
    ASSUME NEW i, NEW r, NEW s, NEW row, NEW new, NEW g \in Nat,
           IF r.id = i THEN s.counted = r.counted + g ELSE g = 0, s.raised = r.raised,
           Holding(r, i), new.stored = row.stored,
           row.stored => new.freq = r.copy.freq + g /\ new.trust = row.trust,
           Holding(s, i) => g = 0 /\ s.copy.freq = r.copy.freq /\ s.copy.trust = r.copy.trust
    PROVE  Effect(i, r, s, row, new)
<1>1. Counts(i, r, s, g, 0)
  BY DEF Counts
<1>2. RowMoves(i, r, s, row, new, g, 0)
  BY DEF RowMoves, Reweighs
<1>3. HandMoves(i, r, s, row, new, g, 0)
  BY DEF HandMoves
<1> QED
  BY <1>1, <1>2, <1>3 DEF Effect

(* The whole row in hand is written, its trust raised by l.                *)
LEMMA RewriteEffect ==
    ASSUME NEW i \in Episodes, NEW r, NEW s, NEW row, NEW new, NEW l \in {0, 1},
           r.id = i => r.counted \in Nat, s.counted = r.counted,
           IF l = 0 THEN i \in s.raised <=> i \in r.raised ELSE i \in s.raised /\ i \notin r.raised,
           Holding(r, i), new.stored,
           new.freq = r.copy.freq /\ new.trust = Least(MaxTrust, r.copy.trust + l),
           Holding(s, i) => l = 0 /\ s.copy.freq = r.copy.freq /\ s.copy.trust = r.copy.trust
    PROVE  Effect(i, r, s, row, new)
<1>1. Counts(i, r, s, 0, l)
  BY DEF Counts
<1>2. RowMoves(i, r, s, row, new, 0, l)
  BY DEF RowMoves, Rewrites
<1>3. HandMoves(i, r, s, row, new, 0, l)
  BY DEF HandMoves
<1> QED
  BY <1>1, <1>2, <1>3 DEF Effect

(* The memory the call chose an id for is created.                         *)
LEMMA BornEffect ==
    ASSUME NEW i, NEW r, NEW s, NEW row, NEW new, r.id = i, r.counted \in Nat,
           s.counted = r.counted, s.raised = r.raised,
           ~row.stored, new.stored, new.freq = Full, new.trust = DefaultTrust,
           Creating(r), ~Creating(s), ~Holding(s, i)
    PROVE  Effect(i, r, s, row, new)
<1>1. Counts(i, r, s, 0, 0)
  BY DEF Counts
<1>2. RowMoves(i, r, s, row, new, 0, 0)
  BY DEF RowMoves, Creates
<1>3. HandMoves(i, r, s, row, new, 0, 0)
  BY DEF HandMoves
<1> QED
  BY <1>1, <1>2, <1>3 DEF Effect

(* The memory is deleted.                                                  *)
LEMMA GoneEffect ==
    ASSUME NEW i, NEW r, NEW s, NEW row, NEW new, r.id = i => r.counted \in Nat,
           s.counted = r.counted, s.raised = r.raised, ~new.stored, ~Holding(s, i)
    PROVE  Effect(i, r, s, row, new)
<1>1. Counts(i, r, s, 0, 0)
  BY DEF Counts
<1>2. RowMoves(i, r, s, row, new, 0, 0)
  BY DEF RowMoves, Goes
<1>3. HandMoves(i, r, s, row, new, 0, 0)
  BY DEF HandMoves
<1> QED
  BY <1>1, <1>2, <1>3 DEF Effect

-----------------------------------------------------------------------------
(* A call that is about to take a step, and what is known of it.           *)
Ready(c) ==
    /\ TypeInv /\ LifeInv /\ Step(c) /\ CountsOnce(call[c])
    /\ call[c].op = "feedback" => /\ Fed(call[c])
                                  /\ call[c].pc \in LoopPcs => call[c].todo \subseteq Episodes
    /\ Creating(call[c]) => ~episode[call[c].id].stored

Outcome(c) == EffectOf(c) /\ CountsOnce(call'[c])

LEMMA ReadyFacts ==
    ASSUME NEW c \in Calls, Ready(c), NEW r, r = call[c], NEW s, s = call'[c]
    PROVE  /\ CountsOnce(r) /\ CallTyped(r) /\ CallTyped(s)
           /\ s.op = r.op /\ s.id = r.id
           /\ DOMAIN call = Calls /\ DOMAIN r = Fields
           /\ TypeInv /\ TablesTyped
           /\ backend' = backend
<1>1. TypeInv /\ Step(c) /\ CountsOnce(r)
  BY DEF Ready
<1>2. Advances(c) /\ CallTyped(s)
  BY <1>1, EpisodeStepTyped, PitfallStepTyped, RuleStepTyped, RunStepTyped DEF Step, Typed
<1>3. s.op = r.op /\ s.id = r.id
  BY <1>2 DEF Advances
<1>4. CallTyped(r) /\ DOMAIN call = Calls
  BY <1>1 DEF TypeInv, CallsTyped
<1> QED
  BY <1>1, <1>2, <1>3, <1>4 DEF TypeInv, CallTyped, Step

LEMMA RowsAre ==
    /\ \A i \in Episodes : RowOf(i) = episode[i] /\ RowOf(i)' = episode'[i]
    /\ \A i \in Rules : RowOf(i) = rule[i] /\ RowOf(i)' = rule'[i]
BY IdsAssumption DEF IdsAssumption, RowOf

(* A step that leaves the rows alone: what it holds it has just read.      *)
LEMMA ReadOutcome ==
    ASSUME NEW c \in Calls, Ready(c), NEW r, r = call[c], NEW s, s = call'[c],
           episode' = episode, rule' = rule,
           s.counted = r.counted, s.raised = r.raised, r.updated \subseteq s.updated,
           r.op = "touch" => r.pc \in {"start", "update"},
           \A i \in Tallied : Holding(s, i) => s.copy = RowOf(i) /\ RowOf(i).stored
    PROVE  Outcome(c)
<1>1. CountsOnce(r) /\ s.op = r.op /\ s.id = r.id
  BY ReadyFacts
<1>2. CountsOnce(s)
  BY <1>1 DEF CountsOnce
<1>3. ASSUME NEW i \in Tallied PROVE Effect(i, r, s, RowOf(i), RowOf(i)')
  <2>1. RowOf(i)' = RowOf(i)
    BY <1>3, RowsAre DEF Tallied
  <2> PICK row : row = RowOf(i)
    OBVIOUS
  <2>2. r.id = i => r.counted \in Nat
    BY <1>1 DEF CountsOnce
  <2>3. Holding(s, i) => s.copy = row /\ row.stored
    OBVIOUS
  <2>4. Effect(i, r, s, row, row)
    BY <2>2, <2>3, FreshEffect
  <2> QED
    BY <2>1, <2>4
<1> QED
  BY <1>2, <1>3 DEF Outcome, EffectOf

(* A call that ends keeps what it counted and has nothing in hand.         *)
LEMMA EndTally ==
    ASSUME NEW r, DOMAIN r = Fields, NEW o, NEW s, s = Ended(r, o)
    PROVE  /\ s.counted = r.counted /\ s.raised = r.raised /\ s.updated = r.updated
           /\ s.pc = "done" /\ ~HoldsEpisode(s) /\ \A i : ~Holding(s, i)
BY DEF Ended, Fields, HoldsEpisode, Holding

LEMMA EndOutcome ==
    ASSUME NEW c \in Calls, Ready(c), NEW o, End(c, o), episode' = episode, rule' = rule,
           call[c].op = "touch" => call[c].pc \in {"start", "update"}
    PROVE  Outcome(c)
<1> PICK r, s : r = call[c] /\ s = call'[c]
  OBVIOUS
<1>1. DOMAIN r = Fields /\ s = Ended(r, o)
  BY ReadyFacts DEF End
<1>2. s.counted = r.counted /\ s.raised = r.raised /\ s.updated = r.updated /\ \A i : ~Holding(s, i)
  BY <1>1, EndTally
<1> QED
  BY <1>2, ReadOutcome

-----------------------------------------------------------------------------
(* One row written: what is said of the others, and what of this one.      *)
LEMMA OneEpisode ==
    ASSUME NEW c \in Calls, Ready(c), NEW r, r = call[c], NEW s, s = call'[c],
           NEW m, NEW new, episode' = [episode EXCEPT ![m] = new], rule' = rule,
           \A i \in Tallied : i # m \/ i \notin Episodes =>
              /\ r.id = i => s.counted = r.counted
              /\ i \in s.raised <=> i \in r.raised
              /\ ~Holding(s, i),
           m \in Episodes => Effect(m, r, s, episode[m], new)
    PROVE  EffectOf(c)
<1>1. CountsOnce(r) /\ DOMAIN episode = Episodes
  BY ReadyFacts DEF TablesTyped
<1> SUFFICES ASSUME NEW i \in Tallied PROVE Effect(i, r, s, RowOf(i), RowOf(i)')
  BY DEF EffectOf
<1>2. CASE i = m /\ i \in Episodes
  <2>1. RowOf(i) = episode[m] /\ RowOf(i)' = new
    BY <1>1, <1>2, RowsAre
  <2> QED
    BY <1>2, <2>1
<1>3. CASE i # m \/ i \notin Episodes
  <2>1. RowOf(i)' = RowOf(i)
    <3>1. CASE i \in Rules
      BY <3>1, RowsAre
    <3>2. CASE i \in Episodes
      BY <1>1, <1>3, <3>2, RowsAre
    <3> QED
      BY <3>1, <3>2 DEF Tallied
  <2> PICK row : row = RowOf(i)
    OBVIOUS
  <2>2. /\ r.id = i => r.counted \in Nat
        /\ r.id = i => s.counted = r.counted
        /\ i \in s.raised <=> i \in r.raised
        /\ ~Holding(s, i)
    BY <1>1, <1>3 DEF CountsOnce
  <2>3. Effect(i, r, s, row, row)
    BY <2>2, QuietEffect DEF Alike
  <2> QED
    BY <2>1, <2>3
<1> QED
  BY <1>2, <1>3

LEMMA OneRule ==
    ASSUME NEW c \in Calls, Ready(c), NEW r, r = call[c], NEW s, s = call'[c],
           NEW m \in Rules, NEW new, rule' = [rule EXCEPT ![m] = new], episode' = episode,
           r.id = m, s.raised = r.raised, ~HoldsEpisode(s),
           Effect(m, r, s, rule[m], new)
    PROVE  EffectOf(c)
<1>1. CountsOnce(r) /\ DOMAIN rule = Rules
  BY ReadyFacts DEF TablesTyped
<1> SUFFICES ASSUME NEW i \in Tallied PROVE Effect(i, r, s, RowOf(i), RowOf(i)')
  BY DEF EffectOf
<1>2. CASE i = m
  <2>1. RowOf(i) = rule[m] /\ RowOf(i)' = new
    BY <1>1, <1>2, RowsAre
  <2> QED
    BY <1>2, <2>1
<1>3. CASE i # m
  <2>1. RowOf(i)' = RowOf(i)
    <3>1. CASE i \in Rules
      BY <1>1, <1>3, <3>1, RowsAre
    <3>2. CASE i \in Episodes
      BY <3>2, RowsAre
    <3> QED
      BY <3>1, <3>2 DEF Tallied
  <2> PICK row : row = RowOf(i)
    OBVIOUS
  <2>2. r.id # i /\ ~Holding(s, i)
    BY <1>3 DEF Holding
  <2>3. Effect(i, r, s, row, row)
    BY <2>2, QuietEffect DEF Alike
  <2> QED
    BY <2>1, <2>3
<1> QED
  BY <1>2, <1>3

(* The rows after the store's methods.                                     *)
LEMMA EpisodeWeighed ==
    ASSUME TablesTyped, NEW m, NEW w, NEW f, UpdateEpisodicWeight(m, w, f)
    PROVE  \E new : /\ episode' = [episode EXCEPT ![m] = new] /\ rule' = rule
                    /\ m \in Episodes => /\ new.stored = episode[m].stored
                                         /\ episode[m].stored => new.freq = f /\ new.trust = episode[m].trust
<1> DEFINE new == On(Sqlite!UpdateEpisodicWeight(episode[m], w, f),
                     Memory!UpdateEpisodicWeight(episode[m], w, f),
                     Neo4j!UpdateEpisodicWeight(episode[m], w, f))
<1>1. ASSUME m \in Episodes
      PROVE  /\ new.stored = episode[m].stored
             /\ episode[m].stored => new.freq = f /\ new.trust = episode[m].trust
  <2>1. episode[m] \in EpisodeRow
    BY <1>1 DEF TablesTyped
  <2> QED
    BY <1>1, <2>1 DEF On, EpisodeRow, Sqlite!UpdateEpisodicWeight, Sqlite!Updated,
                Memory!UpdateEpisodicWeight, Neo4j!UpdateEpisodicWeight, Neo4j!Matched
<1>2. episode' = [episode EXCEPT ![m] = new] /\ rule' = rule
  BY DEF UpdateEpisodicWeight, OnlyEpisode
<1> HIDE DEF new
<1> QED
  BY <1>1, <1>2

LEMMA RuleWeighed ==
    ASSUME TablesTyped, NEW m \in Rules, NEW w, NEW f, UpdateSemanticWeight(m, w, f)
    PROVE  \E new : /\ rule' = [rule EXCEPT ![m] = new] /\ episode' = episode
                    /\ new.stored = rule[m].stored
                    /\ rule[m].stored => new.freq = f /\ new.trust = rule[m].trust
<1> DEFINE new == On(Sqlite!UpdateSemanticWeight(rule[m], w, f),
                     Memory!UpdateSemanticWeight(rule[m], w, f),
                     Neo4j!UpdateSemanticWeight(rule[m], w, f))
<1>1. /\ new.stored = rule[m].stored
      /\ rule[m].stored => new.freq = f /\ new.trust = rule[m].trust
  <2>1. rule[m] \in RuleRow
    BY DEF TablesTyped
  <2> QED
    BY <2>1 DEF On, RuleRow, EpisodeRow, Sqlite!UpdateSemanticWeight, Sqlite!Updated,
                Memory!UpdateSemanticWeight, Neo4j!UpdateSemanticWeight, Neo4j!Matched
<1>2. rule' = [rule EXCEPT ![m] = new] /\ episode' = episode
  BY DEF UpdateSemanticWeight, OnlyRule
<1> HIDE DEF new
<1> QED
  BY <1>1, <1>2

LEMMA EpisodeMarked ==
    ASSUME TablesTyped, NEW m, MarkObsolete(m)
    PROVE  \E new : /\ episode' = [episode EXCEPT ![m] = new] /\ rule' = rule
                    /\ m \in Episodes => new.stored = episode[m].stored /\ Alike(episode[m], new)
<1> DEFINE new == On(Sqlite!MarkObsolete(episode[m]), Memory!MarkObsolete(episode[m]),
                     Neo4j!MarkObsolete(episode[m]))
<1>1. ASSUME m \in Episodes
      PROVE  new.stored = episode[m].stored /\ Alike(episode[m], new)
  <2>1. episode[m] \in EpisodeRow
    BY <1>1 DEF TablesTyped
  <2> QED
    BY <2>1 DEF On, EpisodeRow, Sqlite!MarkObsolete, Sqlite!Updated, Memory!MarkObsolete,
                Neo4j!MarkObsolete, Neo4j!Matched, Alike
<1>2. episode' = [episode EXCEPT ![m] = new] /\ rule' = rule
  BY DEF MarkObsolete, OnlyEpisode
<1> HIDE DEF new
<1> QED
  BY <1>1, <1>2

-----------------------------------------------------------------------------
(* The steps of the calls, one after the other.                            *)

(* touch_memory: the read, and the write that counts the access.           *)
LEMMA TouchOutcome ==
    ASSUME NEW c \in Calls, Ready(c), TouchRead(c) \/ TouchUpdate(c)
    PROVE  Outcome(c)
<1> PICK r, s : r = call[c] /\ s = call'[c]
  OBVIOUS
<1>1. /\ CountsOnce(r) /\ CallTyped(r) /\ DOMAIN r = Fields /\ DOMAIN call = Calls
      /\ s.op = r.op /\ s.id = r.id /\ TablesTyped
  BY ReadyFacts
<1>2. r.op = "touch" /\ r.pc \in {"start", "update"} /\ r.id \in Episodes /\ r.counted = 0
  BY <1>1 DEF TouchRead, TouchUpdate, Touching, At, CountsOnce
<1>3. CASE TouchRead(c)
  <2>1. episode' = episode /\ rule' = rule
    BY <1>3 DEF TouchRead, NothingStored, tables
  <2>2. CASE \E o : End(c, o)
    BY <1>2, <2>1, <2>2, EndOutcome
  <2>3. CASE /\ call' = [call EXCEPT ![c].pc = "update", ![c].copy = episode[call[c].id],
                                     ![c].cur = call[c].id]
             /\ episode[call[c].id].stored
    <3>1. s = [r EXCEPT !.pc = "update", !.copy = episode[r.id], !.cur = r.id]
      BY <1>1, <2>3
    <3>2. /\ s.counted = r.counted /\ s.raised = r.raised /\ s.updated = r.updated
          /\ s.copy = episode[r.id] /\ s.cur = r.id
      BY <1>1, <3>1 DEF Fields
    <3>3. \A i \in Tallied : Holding(s, i) => s.copy = RowOf(i) /\ RowOf(i).stored
      BY <1>2, <2>3, <3>2, RowsAre DEF Holding
    <3> QED
      BY <1>2, <2>1, <3>2, <3>3, ReadOutcome
  <2> QED
    BY <1>3, <2>2, <2>3 DEF TouchRead, Succeeds
<1>4. CASE TouchUpdate(c)
  <2>1. CASE NothingStored /\ End(c, "error")
    BY <1>2, <2>1, EndOutcome DEF NothingStored, tables
  <2>2. CASE /\ UpdateEpisodicWeight(call[c].id, Touched(call[c].copy).weight, Touched(call[c].copy).freq)
             /\ call' = [call EXCEPT ![c] = Ended([@ EXCEPT !.counted = Full], "ok")]
    <3>0. PICK t : t = [r EXCEPT !.counted = Full]
      OBVIOUS
    <3>1. s = Ended(t, "ok") /\ DOMAIN t = Fields
      BY <1>1, <2>2, <3>0
    <3>2. t.counted = Full /\ t.raised = r.raised /\ t.updated = r.updated
      BY <1>1, <3>0 DEF Fields
    <3>3. /\ s.counted = Full /\ s.raised = r.raised /\ s.updated = r.updated /\ s.pc = "done"
          /\ \A i : ~Holding(s, i)
      <4>1. /\ s.counted = t.counted /\ s.raised = t.raised /\ s.updated = t.updated /\ s.pc = "done"
            /\ \A i : ~Holding(s, i)
        BY <3>1, EndTally
      <4> QED
        BY <3>2, <4>1
    <3>4. CountsOnce(s)
      BY <1>1, <3>3 DEF CountsOnce, Full
    <3>50. r.pc = "update"
      BY <1>4 DEF TouchUpdate, Touching, At
    <3>5. r.cur = r.id /\ r.copy \in EpisodeRow
      BY <1>1, <1>2, <3>50 DEF CallTyped, HoldsEpisode
    <3>6. Touched(r.copy).freq = r.copy.freq + Full
      BY <3>5 DEF Touched, EpisodeRow
    <3>40. PICK m, w, f : m = r.id /\ w = Touched(r.copy).weight /\ f = Touched(r.copy).freq
      OBVIOUS
    <3>7. PICK new : /\ episode' = [episode EXCEPT ![m] = new] /\ rule' = rule
                     /\ m \in Episodes => /\ new.stored = episode[m].stored
                                          /\ episode[m].stored => new.freq = f /\ new.trust = episode[m].trust
      BY <1>1, <2>2, <3>40, EpisodeWeighed
    <3>8. Holding(r, m)
      BY <1>2, <3>40, <3>5, <3>50 DEF Holding, HoldsEpisode
    <3>9. Effect(m, r, s, episode[m], new)
      <4>0. PICK row : row = episode[m]
        OBVIOUS
      <4>1. s.counted = r.counted + Full /\ Full \in Nat
        BY <1>2, <3>3 DEF Full
      <4>3. IF r.id = m THEN s.counted = r.counted + Full ELSE Full = 0
        BY <4>1, <1>2, <3>40
      <4>4. /\ new.stored = row.stored
            /\ row.stored => new.freq = r.copy.freq + Full /\ new.trust = row.trust
        BY <1>2, <3>40, <3>6, <3>7, <4>0
      <4>2. Effect(m, r, s, row, new)
        BY <3>3, <3>8, <4>1, <4>3, <4>4, ReweighEffect
      <4> QED
        BY <4>0, <4>2
    <3>11. \A i \in Tallied : i # m \/ i \notin Episodes =>
              /\ r.id = i => s.counted = r.counted
              /\ i \in s.raised <=> i \in r.raised
              /\ ~Holding(s, i)
      BY <1>2, <3>3, <3>40
    <3>10. EffectOf(c)
      BY <3>7, <3>9, <3>11, OneEpisode
    <3> QED
      BY <3>4, <3>10 DEF Outcome
  <2> QED
    BY <1>4, <2>1, <2>2 DEF TouchUpdate
<1> QED
  BY <1>3, <1>4

LEMMA LookupOutcome ==
    ASSUME NEW c \in Calls, Ready(c), LookupMemory(c)
    PROVE  Outcome(c)
<1> PICK r, s : r = call[c] /\ s = call'[c]
  OBVIOUS
<1>1. DOMAIN r = Fields /\ DOMAIN call = Calls /\ r.op = "feedback"
  BY ReadyFacts DEF LookupMemory, Feeding, At
<1>2. episode' = episode /\ rule' = rule
  BY DEF LookupMemory, NothingStored, tables
<1>3. CASE \E o : End(c, o)
  BY <1>1, <1>2, <1>3, EndOutcome
<1>4. CASE /\ call' = [call EXCEPT ![c].pc = "update", ![c].copy = RowOf(call[c].id),
                                   ![c].cur = call[c].id]
           /\ RowOf(call[c].id).stored
  <2> PICK row : row = RowOf(r.id)
    OBVIOUS
  <2>1. s = [r EXCEPT !.pc = "update", !.copy = row, !.cur = r.id]
    BY <1>1, <1>4
  <2>2. /\ s.counted = r.counted /\ s.raised = r.raised /\ s.updated = r.updated
        /\ s.copy = row /\ s.cur = r.id
    BY <1>1, <2>1 DEF Fields
  <2>3. \A i \in Tallied : Holding(s, i) => s.copy = RowOf(i) /\ RowOf(i).stored
    BY <1>4, <2>2 DEF Holding
  <2> QED
    BY <1>1, <1>2, <2>2, <2>3, ReadOutcome
<1> QED
  BY <1>3, <1>4 DEF LookupMemory, Succeeds

LEMMA FetchOutcome ==
    ASSUME NEW c \in Calls, Ready(c), FetchCandidate(c)
    PROVE  Outcome(c)
<1> PICK r, s : r = call[c] /\ s = call'[c]
  OBVIOUS
<1>1. DOMAIN r = Fields /\ DOMAIN call = Calls /\ r.op = "write" /\ s.op = r.op
  BY ReadyFacts DEF FetchCandidate, Writing, At
<1>2. episode' = episode /\ rule' = rule
  BY DEF FetchCandidate, NothingStored, tables
<1>3. PICK m : \/ /\ episode[m].stored
                  /\ call' = [call EXCEPT ![c].pc = "merge", ![c].copy = episode[m], ![c].cur = m]
               \/ LET left == call[c].todo \ {m} IN
                  call' = [call EXCEPT ![c].todo = left,
                                       ![c].pc = IF left = {} THEN "create" ELSE "fetch"]
  BY DEF FetchCandidate, Succeeds
<1>4. CASE /\ episode[m].stored
           /\ call' = [call EXCEPT ![c].pc = "merge", ![c].copy = episode[m], ![c].cur = m]
  <2> PICK row : row = episode[m]
    OBVIOUS
  <2>1. s = [r EXCEPT !.pc = "merge", !.copy = row, !.cur = m]
    BY <1>1, <1>4
  <2>2. /\ s.counted = r.counted /\ s.raised = r.raised /\ s.updated = r.updated
        /\ s.copy = row /\ s.cur = m /\ s.pc = "merge"
    BY <1>1, <2>1 DEF Fields
  <2>3. \A i \in Tallied : Holding(s, i) => s.copy = RowOf(i) /\ RowOf(i).stored
    BY <1>1, <1>4, <2>2, RowsAre DEF Holding, HoldsOwn
  <2> QED
    BY <1>1, <1>2, <2>2, <2>3, ReadOutcome
<1>5. CASE LET left == call[c].todo \ {m} IN
           call' = [call EXCEPT ![c].todo = left,
                                ![c].pc = IF left = {} THEN "create" ELSE "fetch"]
  <2> PICK left, pc : left = r.todo \ {m} /\ pc = IF left = {} THEN "create" ELSE "fetch"
    OBVIOUS
  <2>1. s = [r EXCEPT !.todo = left, !.pc = pc]
    BY <1>1, <1>5
  <2>2. s.counted = r.counted /\ s.raised = r.raised /\ s.updated = r.updated /\ s.pc = pc
    BY <1>1, <2>1 DEF Fields
  <2>3. \A i \in Tallied : ~Holding(s, i)
    BY <1>1, <2>2 DEF Holding, HoldsEpisode
  <2> QED
    BY <1>1, <1>2, <2>2, <2>3, ReadOutcome
<1> QED
  BY <1>3, <1>4, <1>5

(* The steps of a write that only read, link or count occurrences.         *)
LEMMA LinksTally ==
    ASSUME NEW r, DOMAIN r = Fields, r.op = "write", NEW s,
           s = AfterLinks(r) \/ \E left : s = NextTrigger(r, left)
    PROVE  /\ s.counted = r.counted /\ s.raised = r.raised /\ s.updated = r.updated
           /\ \A i : ~Holding(s, i)
<1>1. CASE s = AfterLinks(r)
  <2>1. s = Ended(r, "ok") \/ s = [r EXCEPT !.pc = "match"]
    BY <1>1 DEF AfterLinks
  <2>2. CASE s = [r EXCEPT !.pc = "match"]
    BY <2>2 DEF Fields, Holding, HoldsEpisode
  <2> QED
    BY <2>1, <2>2, EndTally
<1>2. ASSUME NEW left, s = NextTrigger(r, left)
      PROVE  /\ s.counted = r.counted /\ s.raised = r.raised /\ s.updated = r.updated
             /\ \A i : ~Holding(s, i)
  <2>0. PICK t : t = [r EXCEPT !.todo = {}]
    OBVIOUS
  <2>1. s = Ended(t, "ok") \/ s = [r EXCEPT !.todo = left, !.pc = "trigger", !.cur = NoId]
    BY <1>2, <2>0 DEF NextTrigger
  <2>2. DOMAIN t = Fields /\ t.counted = r.counted /\ t.raised = r.raised /\ t.updated = r.updated
    BY <2>0 DEF Fields
  <2>3. CASE s = [r EXCEPT !.todo = left, !.pc = "trigger", !.cur = NoId]
    BY <2>3 DEF Fields, Holding, HoldsEpisode
  <2>4. CASE s = Ended(t, "ok")
    <3>1. /\ s.counted = t.counted /\ s.raised = t.raised /\ s.updated = t.updated
          /\ \A i : ~Holding(s, i)
      BY <2>2, <2>4, EndTally
    <3> QED
      BY <2>2, <3>1
  <2> QED
    BY <2>1, <2>3, <2>4
<1> QED
  BY <1>1, <1>2

LEMMA LinkingOutcome ==
    ASSUME NEW c \in Calls, Ready(c),
           \/ SearchCandidates(c) \/ LinkPool(c) \/ LinkRelated(c) \/ MatchPitfalls(c)
           \/ TriggerPitfall(c) \/ CountOccurrence(c)
    PROVE  Outcome(c)
<1> PICK r, s : r = call[c] /\ s = call'[c]
  OBVIOUS
<1>1. DOMAIN r = Fields /\ DOMAIN call = Calls /\ r.op = "write" /\ s.op = r.op
  BY ReadyFacts DEF SearchCandidates, LinkPool, LinkRelated, MatchPitfalls, TriggerPitfall,
     CountOccurrence, Writing, At
<1>2. episode' = episode /\ rule' = rule
  BY DEF SearchCandidates, LinkPool, LinkRelated, MatchPitfalls, TriggerPitfall, CountOccurrence,
     NothingStored, tables, RememberPool, CreateEdge, OnlyEdges, TouchPitfall, OnlyPitfall
<1> DEFINE Silent(t) == /\ t.counted = r.counted /\ t.raised = r.raised /\ t.updated = r.updated
                        /\ \A i : ~Holding(t, i)
<1>3. ASSUME Silent(s) PROVE Outcome(c)
  BY <1>1, <1>2, <1>3, ReadOutcome
<1>4. CASE \E o : End(c, o)
  BY <1>1, <1>2, <1>4, EndOutcome
<1>5. ASSUME NEW left, s = NextTrigger(r, left) PROVE Silent(s)
  BY <1>1, <1>5, LinksTally
<1>6. CASE SearchCandidates(c)
  <2>1. ASSUME NEW todo, NEW pc, pc \in {"create", "fetch"},
               call' = [call EXCEPT ![c].todo = todo, ![c].pc = pc]
        PROVE  Silent(s)
    <3>1. s = [r EXCEPT !.todo = todo, !.pc = pc]
      BY <1>1, <2>1
    <3>2. /\ s.counted = r.counted /\ s.raised = r.raised /\ s.updated = r.updated /\ s.pc = pc
      BY <1>1, <3>1 DEF Fields
    <3> QED
      BY <1>1, <2>1, <3>2 DEF Holding, HoldsEpisode
  <2>2. (\E o : End(c, o)) \/ \E todo : call' = [call EXCEPT ![c].todo = todo,
                                  ![c].pc = IF todo = {} THEN "create" ELSE "fetch"]
    BY <1>6 DEF SearchCandidates
  <2>3. CASE \E todo : call' = [call EXCEPT ![c].todo = todo,
                                  ![c].pc = IF todo = {} THEN "create" ELSE "fetch"]
    <3> PICK todo : call' = [call EXCEPT ![c].todo = todo,
                                  ![c].pc = IF todo = {} THEN "create" ELSE "fetch"]
      BY <2>3
    <3> PICK pc : pc = IF todo = {} THEN "create" ELSE "fetch"
      OBVIOUS
    <3> HIDE DEF Silent
    <3> QED
      BY <1>3, <2>1
  <2> QED
    BY <1>4, <2>2, <2>3
<1>7. CASE LinkPool(c)
  <2>1. (\E o : End(c, o)) \/ s = AfterLinks(r)
           \/ \E related : s = [r EXCEPT !.pc = "link", !.todo = related, !.found = related]
    BY <1>1, <1>7 DEF LinkPool
  <2>2. ASSUME NEW related, s = [r EXCEPT !.pc = "link", !.todo = related, !.found = related]
        PROVE  Silent(s)
    BY <1>1, <2>2 DEF Fields, Holding, HoldsEpisode
  <2>3. s = AfterLinks(r) => Silent(s)
    BY <1>1, LinksTally
  <2> HIDE DEF Silent
  <2> QED
    BY <1>3, <1>4, <2>1, <2>2, <2>3
<1>8. CASE LinkRelated(c)
  <2>1. PICK m : s = IF r.todo \ {m} = {} THEN AfterLinks([r EXCEPT !.todo = {}])
                     ELSE [r EXCEPT !.todo = r.todo \ {m}]
    BY <1>1, <1>8 DEF LinkRelated
  <2> PICK t, left : t = [r EXCEPT !.todo = {}] /\ left = r.todo \ {m}
    OBVIOUS
  <2>2. DOMAIN t = Fields /\ t.counted = r.counted /\ t.raised = r.raised /\ t.updated = r.updated
        /\ t.op = "write"
    BY <1>1 DEF Fields
  <2>3. r.pc = "link"
    BY <1>8 DEF LinkRelated, Writing, At
  <2>4. CASE s = [r EXCEPT !.todo = left]
    <3>1. Silent(s)
      BY <1>1, <2>3, <2>4 DEF Fields, Holding, HoldsEpisode
    <3> QED
      BY <1>3, <3>1
  <2>5. CASE s = AfterLinks(t)
    <3>1. Silent(s)
      BY <2>2, <2>5, LinksTally
    <3> QED
      BY <1>3, <3>1
  <2> QED
    BY <2>1, <2>4, <2>5
<1>9. CASE MatchPitfalls(c)
  <2>1. (\E o : End(c, o)) \/ \E left : s = NextTrigger(r, left)
    BY <1>1, <1>9 DEF MatchPitfalls
  <2> HIDE DEF Silent
  <2> QED
    BY <1>3, <1>4, <1>5, <2>1
<1>10. CASE TriggerPitfall(c)
  <2>1. (\E left : s = NextTrigger(r, left)) \/ \E p : s = [r EXCEPT !.pc = "occurrence", !.cur = p]
    BY <1>1, <1>10 DEF TriggerPitfall
  <2>2. ASSUME NEW p, s = [r EXCEPT !.pc = "occurrence", !.cur = p] PROVE Silent(s)
    BY <1>1, <2>2 DEF Fields, Holding, HoldsEpisode
  <2> HIDE DEF Silent
  <2> QED
    BY <1>3, <1>5, <2>1, <2>2
<1>11. CASE CountOccurrence(c)
  <2>1. \E left : s = NextTrigger(r, left)
    BY <1>1, <1>11 DEF CountOccurrence
  <2> HIDE DEF Silent
  <2> QED
    BY <1>3, <1>5, <2>1
<1> QED
  BY <1>6, <1>7, <1>8, <1>9, <1>10, <1>11

(* The steps of a call that count nothing and leave nothing in hand.       *)
Silent(r, s) ==
    /\ s.counted = r.counted /\ s.raised = r.raised /\ r.updated \subseteq s.updated
    /\ \A i : ~Holding(s, i)

LEMMA SilentOutcome ==
    ASSUME NEW c \in Calls, Ready(c), episode' = episode, rule' = rule,
           Silent(call[c], call'[c]), call[c].op # "touch"
    PROVE  Outcome(c)
<1> PICK r, s : r = call[c] /\ s = call'[c]
  OBVIOUS
<1> QED
  BY ReadOutcome DEF Silent

LEMMA NextTally ==
    ASSUME NEW r, DOMAIN r = Fields, NEW s, s = NextSource(r)
    PROVE  /\ s.counted = r.counted /\ s.raised = r.raised /\ s.updated = r.updated
           /\ \A i : ~Holding(s, i)
<1>0. PICK left : left = r.todo \ {r.cur}
  OBVIOUS
<1>1. PICK rest : rest = [r EXCEPT !.todo = left, !.copy = NoCopy, !.cur = NoId]
  OBVIOUS
<1>2. s = Ended(rest, "ok") \/ s = [rest EXCEPT !.pc = "source"]
  BY <1>0, <1>1 DEF NextSource
<1>3. /\ DOMAIN rest = Fields
      /\ rest.counted = r.counted /\ rest.raised = r.raised /\ rest.updated = r.updated
  BY <1>1 DEF Fields
<1>4. CASE s = Ended(rest, "ok")
  <2>1. /\ s.counted = rest.counted /\ s.raised = rest.raised /\ s.updated = rest.updated
        /\ \A i : ~Holding(s, i)
    BY <1>3, <1>4, EndTally
  <2> QED
    BY <1>3, <2>1
<1>5. CASE s = [rest EXCEPT !.pc = "source"]
  <2>1. /\ s.counted = rest.counted /\ s.raised = rest.raised /\ s.updated = rest.updated
        /\ s.pc = "source"
    BY <1>3, <1>5 DEF Fields
  <2> QED
    BY <1>3, <2>1 DEF Holding, HoldsEpisode
<1> QED
  BY <1>2, <1>4, <1>5

(* What a correction does when it is done with one source.                 *)
LEMMA SourceTally ==
    ASSUME NEW r, DOMAIN r = Fields, NEW s
    PROVE  /\ \A m : s = Skipped(r, m) => Silent(r, s)
           /\ s = FailedSource(r) => Silent(r, s)
           /\ s = Corrected(r) => Silent(r, s) /\ s.updated = r.updated \cup {r.cur}
           /\ s = Raised(r) => /\ s.counted = r.counted /\ s.raised = r.raised \cup {r.cur}
                               /\ s.updated = r.updated \cup {r.cur}
                               /\ \A i : ~Holding(s, i)
<1>1. ASSUME NEW m, s = Skipped(r, m) PROVE Silent(r, s)
  <2>1. PICK t : t = [r EXCEPT !.skipped = @ \cup {m}, !.cur = m]
    OBVIOUS
  <2>2. DOMAIN t = Fields /\ t.counted = r.counted /\ t.raised = r.raised /\ t.updated = r.updated
    BY <2>1 DEF Fields
  <2>3. s = NextSource(t)
    BY <1>1, <2>1 DEF Skipped
  <2>4. /\ s.counted = t.counted /\ s.raised = t.raised /\ s.updated = t.updated
        /\ \A i : ~Holding(s, i)
    BY <2>2, <2>3, NextTally
  <2> QED
    BY <2>2, <2>4 DEF Silent
<1>2. ASSUME s = FailedSource(r) PROVE Silent(r, s)
  <2>1. PICK t : t = [r EXCEPT !.failed = @ \cup {r.cur}]
    OBVIOUS
  <2>2. DOMAIN t = Fields /\ t.counted = r.counted /\ t.raised = r.raised /\ t.updated = r.updated
    BY <2>1 DEF Fields
  <2>3. s = NextSource(t)
    BY <1>2, <2>1 DEF FailedSource
  <2>4. /\ s.counted = t.counted /\ s.raised = t.raised /\ s.updated = t.updated
        /\ \A i : ~Holding(s, i)
    BY <2>2, <2>3, NextTally
  <2> QED
    BY <2>2, <2>4 DEF Silent
<1>3. ASSUME NEW t, DOMAIN t = Fields, s = Corrected(t)
      PROVE  /\ s.counted = t.counted /\ s.raised = t.raised /\ s.updated = t.updated \cup {t.cur}
             /\ \A i : ~Holding(s, i)
  <2>1. PICK u : u = [t EXCEPT !.updated = @ \cup {t.cur}]
    OBVIOUS
  <2>2. /\ DOMAIN u = Fields /\ u.counted = t.counted /\ u.raised = t.raised
        /\ u.updated = t.updated \cup {t.cur}
    BY <1>3, <2>1 DEF Fields
  <2>3. s = NextSource(u)
    BY <1>3, <2>1 DEF Corrected
  <2>4. /\ s.counted = u.counted /\ s.raised = u.raised /\ s.updated = u.updated
        /\ \A i : ~Holding(s, i)
    BY <2>2, <2>3, NextTally
  <2> QED
    BY <2>2, <2>4
<1>4. ASSUME s = Raised(r)
      PROVE  /\ s.counted = r.counted /\ s.raised = r.raised \cup {r.cur}
             /\ s.updated = r.updated \cup {r.cur} /\ \A i : ~Holding(s, i)
  <2>1. PICK t : t = [r EXCEPT !.raised = @ \cup {r.cur}]
    OBVIOUS
  <2>2. /\ DOMAIN t = Fields /\ t.counted = r.counted /\ t.raised = r.raised \cup {r.cur}
        /\ t.updated = r.updated /\ t.cur = r.cur
    BY <2>1 DEF Fields
  <2>3. s = Corrected(t)
    BY <1>4, <2>1 DEF Raised
  <2>4. /\ s.counted = t.counted /\ s.raised = t.raised /\ s.updated = t.updated \cup {t.cur}
        /\ \A i : ~Holding(s, i)
    BY <1>3, <2>2, <2>3
  <2> QED
    BY <2>2, <2>4
<1>5. s = Corrected(r) => Silent(r, s) /\ s.updated = r.updated \cup {r.cur}
  BY <1>3 DEF Silent
<1> QED
  BY <1>1, <1>2, <1>4, <1>5

(* The sources of a correction: looked up, read, boosted, and written      *)
(* twice.                                                                  *)
LEMMA TraceOutcome ==
    ASSUME NEW c \in Calls, Ready(c), Trace(c)
    PROVE  Outcome(c)
<1>0. PICK r, s : r = call[c] /\ s = call'[c]
  OBVIOUS
<1>1. DOMAIN r = Fields /\ DOMAIN call = Calls /\ r.op = "feedback"
  BY <1>0, ReadyFacts DEF Trace, Feeding, At
<1>2. episode' = episode /\ rule' = rule
  BY DEF Trace, NothingStored, tables
<1>3. CASE \E o : End(c, o)
  BY <1>0, <1>1, <1>2, <1>3, EndOutcome
<1>4. ASSUME NEW sources, s = [r EXCEPT !.pc = "source", !.todo = sources, !.found = sources]
      PROVE  Outcome(c)
  <2>1. /\ s.counted = r.counted /\ s.raised = r.raised /\ s.updated = r.updated /\ s.pc = "source"
    BY <1>1, <1>4 DEF Fields
  <2>2. Silent(r, s)
    BY <2>1 DEF Silent, Holding, HoldsEpisode
  <2> QED
    BY <1>0, <1>1, <1>2, <2>2, SilentOutcome
<1>5. (\E o : End(c, o)) \/ \E sources : \/ s = Ended(r, "ok")
          \/ s = [r EXCEPT !.pc = "source", !.todo = sources, !.found = sources]
  BY <1>0, <1>1 DEF Trace
<1>6. CASE s = Ended(r, "ok")
  <2>1. Silent(r, s)
    BY <1>1, <1>6, EndTally DEF Silent
  <2> QED
    BY <1>0, <1>1, <1>2, <2>1, SilentOutcome
<1> QED
  BY <1>3, <1>4, <1>5, <1>6

LEMMA SourceReadOutcome ==
    ASSUME NEW c \in Calls, Ready(c), SourceRead(c)
    PROVE  Outcome(c)
<1>0. PICK r, s : r = call[c] /\ s = call'[c]
  OBVIOUS
<1>1. DOMAIN r = Fields /\ DOMAIN call = Calls /\ r.op = "feedback" /\ s.op = "feedback"
      /\ r.pc = "source"
  BY <1>0, ReadyFacts DEF SourceRead, Feeding, At
<1>2. episode' = episode /\ rule' = rule
  BY DEF SourceRead, NothingStored, tables
<1>3. r.todo \subseteq Episodes
  BY <1>0, <1>1 DEF Ready, LoopPcs
<1>4. ASSUME NEW m \in r.todo, episode[m].stored, NEW row, row = episode[m],
             s = [r EXCEPT !.pc = "boost", !.copy = row, !.cur = m]
      PROVE  Outcome(c)
  <2>1. /\ s.counted = r.counted /\ s.raised = r.raised /\ s.updated = r.updated
        /\ s.copy = row /\ s.cur = m
    BY <1>1, <1>4 DEF Fields
  <2>2. \A i \in Tallied : Holding(s, i) => s.copy = RowOf(i) /\ RowOf(i).stored
    BY <1>3, <1>4, <2>1, RowsAre DEF Holding
  <2> QED
    BY <1>0, <1>1, <1>2, <2>1, <2>2, ReadOutcome
<1>5. ASSUME NEW m, s = Skipped(r, m) PROVE Outcome(c)
  <2>1. Silent(r, s)
    BY <1>1, <1>5, SourceTally
  <2> QED
    BY <1>0, <1>1, <1>2, <2>1, SilentOutcome
<1>6. PICK m \in r.todo : \/ /\ episode[m].stored
                             /\ s = [r EXCEPT !.pc = "boost", !.copy = episode[m], !.cur = m]
                          \/ s = Skipped(r, m)
  BY <1>0, <1>1 DEF SourceRead, Succeeds
<1> QED
  BY <1>4, <1>5, <1>6

(* What a judgement counts.                                                *)
Worth(a) == LET d == BehaviourDelta(a) IN IF d < 0 THEN -d ELSE d

LEMMA WorthCounts ==
    ASSUME NEW a \in SearchActions
    PROVE  /\ Worth(a) \in Nat
           /\ \A w, f : ApplyFeedback(w, f, a).freq = f + Worth(a)
<1>1. BehaviourDelta(a) \in Int
  BY BehaviourTyped
<1> QED
  BY <1>1 DEF Worth, ApplyFeedback

LEMMA UpdateTally ==
    ASSUME NEW r, DOMAIN r = Fields, NEW g, NEW s, s = AfterUpdate(r, g)
    PROVE  /\ s.counted = g /\ s.raised = r.raised /\ s.updated = r.updated
           /\ ~HoldsEpisode(s) /\ \A i : ~Holding(s, i)
<1>1. PICK t : t = [r EXCEPT !.counted = g]
  OBVIOUS
<1>2. /\ DOMAIN t = Fields /\ t.counted = g /\ t.raised = r.raised /\ t.updated = r.updated
  BY <1>1 DEF Fields
<1>3. CASE s = Ended(t, "ok")
  <2>1. /\ s.counted = t.counted /\ s.raised = t.raised /\ s.updated = t.updated
        /\ ~HoldsEpisode(s) /\ \A i : ~Holding(s, i)
    BY <1>2, <1>3, EndTally
  <2> QED
    BY <1>2, <2>1
<1>4. CASE s = [r EXCEPT !.pc = "trace", !.copy = NoCopy, !.cur = NoId, !.counted = g]
  <2>1. /\ s.counted = g /\ s.raised = r.raised /\ s.updated = r.updated /\ s.pc = "trace"
    BY <1>4 DEF Fields
  <2> QED
    BY <2>1 DEF Holding, HoldsEpisode
<1> QED
  BY <1>1, <1>3, <1>4 DEF AfterUpdate

(* The judged memory is weighed, and the judgement counted, once.          *)
LEMMA FeedbackUpdateOutcome ==
    ASSUME NEW c \in Calls, Ready(c), FeedbackUpdate(c)
    PROVE  Outcome(c)
<1>0. PICK r, s : r = call[c] /\ s = call'[c]
  OBVIOUS
<1>1. /\ DOMAIN r = Fields /\ DOMAIN call = Calls /\ r.op = "feedback" /\ s.op = "feedback"
      /\ r.pc = "update" /\ r.counted = 0 /\ CountsOnce(r) /\ CallTyped(r) /\ TablesTyped
      /\ s.id = r.id
  <2>1. r.op = "feedback" /\ r.pc = "update"
    BY <1>0 DEF FeedbackUpdate, Feeding, At
  <2>2. r.counted = 0
    BY <1>0, <2>1 DEF Ready, Fed
  <2> QED
    BY <1>0, <2>1, <2>2, ReadyFacts
<1>2. CASE NothingStored /\ End(c, "error")
  BY <1>0, <1>1, <1>2, EndOutcome DEF NothingStored, tables
<1>3. ASSUME NEW i, i = r.id, NEW row, row = r.copy, NEW g, g = Worth(r.arg),
             NEW freq, freq = IF i \in Pitfalls THEN Full ELSE row.freq,
             NEW w, NEW f, w = ApplyFeedback(row.weight, freq, r.arg).weight,
             f = ApplyFeedback(row.weight, freq, r.arg).freq,
             \/ i \in Episodes /\ UpdateEpisodicWeight(i, w, f)
             \/ i \in Rules /\ UpdateSemanticWeight(i, w, f)
             \/ i \in Pitfalls /\ UpdatePitfallWeight(i, w),
             s = AfterUpdate(r, g)
      PROVE  Outcome(c)
  <2>1. r.arg \in SearchActions
    BY <1>1 DEF CallTyped
  <2>2. g \in Nat /\ f = freq + g
    BY <1>3, <2>1, WorthCounts
  <2>3. /\ s.counted = g /\ s.raised = r.raised /\ s.updated = r.updated
        /\ ~HoldsEpisode(s) /\ \A j : ~Holding(s, j)
    BY <1>1, <1>3, UpdateTally
  <2>4. CountsOnce(s)
    BY <1>1, <2>2, <2>3 DEF CountsOnce
  <2>5. i \in Episodes \cup Rules => Holding(r, i) /\ freq = row.freq /\ f = row.freq + g
    <3>1. r.cur = r.id
      BY <1>1 DEF CallTyped, HoldsOwn
    <3>2. i \in Episodes \cup Rules => i \notin Pitfalls
      BY IdsAssumption DEF IdsAssumption
    <3> QED
      BY <1>1, <1>3, <2>2, <3>1, <3>2 DEF Holding, HoldsEpisode, HoldsOwn
  <2>6. CASE i \in Episodes /\ UpdateEpisodicWeight(i, w, f)
    <3>1. PICK new : /\ episode' = [episode EXCEPT ![i] = new] /\ rule' = rule
                     /\ i \in Episodes => /\ new.stored = episode[i].stored
                                          /\ episode[i].stored => new.freq = f /\ new.trust = episode[i].trust
      BY <1>1, <2>6, EpisodeWeighed
    <3>2. Effect(i, r, s, episode[i], new)
      <4>1. PICK old : old = episode[i]
        OBVIOUS
      <4>2. /\ new.stored = old.stored
            /\ old.stored => new.freq = r.copy.freq + g /\ new.trust = old.trust
        BY <1>3, <2>5, <2>6, <3>1, <4>1
      <4>3. IF r.id = i THEN s.counted = r.counted + g ELSE g = 0
        BY <1>1, <1>3, <2>2, <2>3
      <4>4. Effect(i, r, s, old, new)
        BY <2>2, <2>3, <2>5, <2>6, <4>2, <4>3, ReweighEffect
      <4> QED
        BY <4>1, <4>4
    <3>3. \A j \in Tallied : j # i \/ j \notin Episodes =>
              /\ r.id = j => s.counted = r.counted
              /\ j \in s.raised <=> j \in r.raised
              /\ ~Holding(s, j)
      BY <1>3, <2>3, <2>6
    <3>4. EffectOf(c)
      BY <1>0, <3>1, <3>2, <3>3, OneEpisode
    <3> QED
      BY <1>0, <2>4, <3>4 DEF Outcome
  <2>7. CASE i \in Rules /\ UpdateSemanticWeight(i, w, f)
    <3>0. i \in Rules
      BY <2>7
    <3>1. PICK new : /\ rule' = [rule EXCEPT ![i] = new] /\ episode' = episode
                     /\ new.stored = rule[i].stored
                     /\ rule[i].stored => new.freq = f /\ new.trust = rule[i].trust
      BY <1>1, <2>7, <3>0, RuleWeighed
    <3>2. Effect(i, r, s, rule[i], new)
      <4>1. PICK old : old = rule[i]
        OBVIOUS
      <4>2. /\ new.stored = old.stored
            /\ old.stored => new.freq = r.copy.freq + g /\ new.trust = old.trust
        BY <1>3, <2>5, <3>0, <3>1, <4>1
      <4>3. IF r.id = i THEN s.counted = r.counted + g ELSE g = 0
        BY <1>1, <1>3, <2>2, <2>3
      <4>4. Effect(i, r, s, old, new)
        BY <2>2, <2>3, <2>5, <2>7, <4>2, <4>3, ReweighEffect
      <4> QED
        BY <4>1, <4>4
    <3>4. EffectOf(c)
      BY <1>0, <1>3, <2>3, <3>0, <3>1, <3>2, OneRule
    <3> QED
      BY <1>0, <2>4, <3>4 DEF Outcome
  <2>8. CASE i \in Pitfalls /\ UpdatePitfallWeight(i, w)
    <3>1. episode' = episode /\ rule' = rule
      BY <2>8 DEF UpdatePitfallWeight, OnlyPitfall
    <3>2. \A j \in Tallied : r.id # j
      BY <1>3, <2>8, IdsAssumption DEF IdsAssumption, Tallied
    <3>3. \A j \in Tallied : Effect(j, r, s, RowOf(j), RowOf(j)')
      <4> SUFFICES ASSUME NEW j \in Tallied PROVE Effect(j, r, s, RowOf(j), RowOf(j)')
        OBVIOUS
      <4>1. PICK old : old = RowOf(j)
        OBVIOUS
      <4>2. RowOf(j)' = old
        BY <3>1, <4>1, RowsAre DEF Tallied
      <4>3. Effect(j, r, s, old, old)
        BY <2>3, <3>2, QuietEffect DEF Alike
      <4> QED
        BY <4>1, <4>2, <4>3
    <3> QED
      BY <1>0, <2>4, <3>3 DEF Outcome, EffectOf
  <2> QED
    BY <1>3, <2>6, <2>7, <2>8
<1>4. \/ NothingStored /\ End(c, "error")
      \/ LET i == r.id
             freq == IF i \in Pitfalls THEN Full ELSE r.copy.freq
             new == ApplyFeedback(r.copy.weight, freq, r.arg)
         IN /\ \/ i \in Episodes /\ UpdateEpisodicWeight(i, new.weight, new.freq)
               \/ i \in Rules /\ UpdateSemanticWeight(i, new.weight, new.freq)
               \/ i \in Pitfalls /\ UpdatePitfallWeight(i, new.weight)
            /\ s = AfterUpdate(r, Worth(r.arg))
  BY <1>0, <1>1 DEF FeedbackUpdate, Worth
<1> QED
  BY <1>2, <1>3, <1>4

(* The call is at a source: the row in hand is the source's.               *)
LEMMA AtSource ==
    ASSUME NEW c \in Calls, Ready(c), NEW r, r = call[c], NEW s, s = call'[c],
           r.op = "feedback", r.pc \in {"boost", "summary", "trust"}
    PROVE  /\ DOMAIN r = Fields /\ DOMAIN call = Calls /\ CountsOnce(r) /\ TablesTyped
           /\ s.op = "feedback" /\ s.id = r.id
           /\ r.cur \in Episodes /\ r.copy \in EpisodeRow /\ r.copy.stored
           /\ r.cur \notin r.raised
           /\ Holding(r, r.cur)
<1>1. /\ DOMAIN r = Fields /\ DOMAIN call = Calls /\ CountsOnce(r) /\ CallTyped(r) /\ TablesTyped
      /\ s.op = "feedback" /\ s.id = r.id
  BY ReadyFacts
<1>2. Fed(r) /\ r.todo \subseteq Episodes
  BY DEF Ready, LoopPcs
<1>3. r.cur \in r.todo /\ r.cur \notin r.updated
  BY <1>2 DEF Fed, LoopPcs, Reported
<1>4. HoldsEpisode(r)
  BY DEF HoldsEpisode
<1>5. r.copy \in EpisodeRow /\ r.copy.stored
  BY <1>1, <1>2, <1>3, <1>4 DEF CallTyped, Ready, LifeInv, HeldFresh
<1>6. r.cur \notin r.raised
  BY <1>1, <1>3 DEF CountsOnce
<1> QED
  BY <1>1, <1>2, <1>3, <1>4, <1>5, <1>6 DEF Holding

(* A whole row written back from the row in hand.                          *)
LEMMA RewriteOutcome ==
    ASSUME NEW c \in Calls, Ready(c), NEW r, r = call[c], NEW s, s = call'[c],
           NEW m \in Episodes, NEW new, episode' = [episode EXCEPT ![m] = new], rule' = rule,
           NEW l \in {0, 1},
           CountsOnce(s), s.counted = r.counted,
           IF l = 0 THEN s.raised = r.raised ELSE s.raised = r.raised \cup {m} /\ m \notin r.raised,
           Holding(r, m), new.stored,
           new.freq = r.copy.freq, new.trust = Least(MaxTrust, r.copy.trust + l),
           \A i : Holding(s, i) => i = m /\ i \in Episodes /\ l = 0
                                   /\ s.copy.freq = r.copy.freq /\ s.copy.trust = r.copy.trust
    PROVE  Outcome(c)
<1>1. CountsOnce(r)
  BY ReadyFacts
<1>2. Effect(m, r, s, episode[m], new)
  <2>1. PICK row : row = episode[m]
    OBVIOUS
  <2>2. r.id = m => r.counted \in Nat
    BY <1>1 DEF CountsOnce, Tallied
  <2>3. IF l = 0 THEN m \in s.raised <=> m \in r.raised ELSE m \in s.raised /\ m \notin r.raised
    OBVIOUS
  <2>4. new.freq = r.copy.freq /\ new.trust = Least(MaxTrust, r.copy.trust + l)
    OBVIOUS
  <2>5. Holding(s, m) => l = 0 /\ s.copy.freq = r.copy.freq /\ s.copy.trust = r.copy.trust
    OBVIOUS
  <2>6. Effect(m, r, s, row, new)
    BY <2>2, <2>3, <2>4, <2>5, RewriteEffect
  <2> QED
    BY <2>1, <2>6
<1>3. \A i \in Tallied : i # m \/ i \notin Episodes =>
              /\ r.id = i => s.counted = r.counted
              /\ i \in s.raised <=> i \in r.raised
              /\ ~Holding(s, i)
  OBVIOUS
<1>4. EffectOf(c)
  BY <1>2, <1>3, OneEpisode
<1> QED
  BY <1>4 DEF Outcome

LEMMA SameCounts ==
    ASSUME NEW r, CountsOnce(r), NEW s, s.op = r.op, s.id = r.id, s.counted = r.counted,
           s.raised = r.raised, r.updated \subseteq s.updated, r.op # "touch"
    PROVE  CountsOnce(s)
BY DEF CountsOnce

LEMMA SourceBoostOutcome ==
    ASSUME NEW c \in Calls, Ready(c), SourceBoost(c)
    PROVE  Outcome(c)
<1>0. PICK r, s : r = call[c] /\ s = call'[c]
  OBVIOUS
<1>1. r.op = "feedback" /\ r.pc = "boost"
  BY <1>0 DEF SourceBoost, Feeding, At
<1>2. /\ DOMAIN r = Fields /\ DOMAIN call = Calls /\ CountsOnce(r) /\ TablesTyped
      /\ s.op = "feedback" /\ s.id = r.id
      /\ r.cur \in Episodes /\ r.copy \in EpisodeRow /\ r.copy.stored
      /\ Holding(r, r.cur)
  BY <1>0, <1>1, AtSource
<1>3. CASE NothingStored /\ s = FailedSource(r)
  <2>1. Silent(r, s)
    BY <1>2, <1>3, SourceTally
  <2> QED
    BY <1>0, <1>1, <1>3, <2>1, SilentOutcome DEF NothingStored, tables
<1>4. ASSUME NEW w, NEW f, NEW m, m = r.cur, f = r.copy.freq, UpdateEpisodicWeight(m, w, f),
             s = AfterBoost(r)
      PROVE  Outcome(c)
  <2>1. PICK new : /\ episode' = [episode EXCEPT ![m] = new] /\ rule' = rule
                   /\ m \in Episodes => /\ new.stored = episode[m].stored
                                        /\ episode[m].stored => new.freq = f /\ new.trust = episode[m].trust
    BY <1>2, <1>4, EpisodeWeighed
  <2>2. /\ s.counted = r.counted /\ s.raised = r.raised /\ r.updated \subseteq s.updated
        /\ \A i : Holding(s, i) => i = m /\ i \in Episodes
                                   /\ s.copy.freq = r.copy.freq /\ s.copy.trust = r.copy.trust
    <3>1. PICK b : b = [r EXCEPT !.copy = Boosted(r.copy)]
      OBVIOUS
    <3>2. s \in {[b EXCEPT !.pc = "trust"], [b EXCEPT !.pc = "summary"], Corrected(r)}
      <4>1. s = CASE r.id \in Episodes -> [b EXCEPT !.pc = "trust"]
                  [] r.id \in Rules -> [b EXCEPT !.pc = "summary"]
                  [] OTHER -> IF Raisable(r.copy) THEN [b EXCEPT !.pc = "trust"] ELSE Corrected(r)
        BY <1>4, <3>1 DEF AfterBoost
      <4>2. CASE r.id \in Episodes
        BY <4>1, <4>2, IdsAssumption DEF IdsAssumption
      <4>3. CASE r.id \notin Episodes /\ r.id \in Rules
        BY <4>1, <4>3
      <4>4. CASE r.id \notin Episodes /\ r.id \notin Rules
        <5>1. s = IF Raisable(r.copy) THEN [b EXCEPT !.pc = "trust"] ELSE Corrected(r)
          BY <4>1, <4>4
        <5> QED
          BY <5>1
      <4> QED
        BY <4>2, <4>3, <4>4
    <3>3. /\ DOMAIN b = Fields /\ b.counted = r.counted /\ b.raised = r.raised /\ b.updated = r.updated
          /\ b.copy = Boosted(r.copy) /\ b.cur = m /\ b.op = "feedback"
      BY <1>1, <1>2, <1>4, <3>1 DEF Fields
    <3>4. b.copy.freq = r.copy.freq /\ b.copy.trust = r.copy.trust
      <4>1. Boosted(r.copy).freq = r.copy.freq /\ Boosted(r.copy).trust = r.copy.trust
        BY <1>2 DEF Boosted, EpisodeRow
      <4> QED
        BY <3>3, <4>1
    <3>5. ASSUME NEW pc, pc \in {"trust", "summary"}, s = [b EXCEPT !.pc = pc]
          PROVE  /\ s.counted = r.counted /\ s.raised = r.raised /\ s.updated = r.updated
                 /\ s.cur = m /\ s.copy = b.copy /\ s.pc = pc
      BY <3>3, <3>5 DEF Fields
    <3>6. CASE \E pc \in {"trust", "summary"} : s = [b EXCEPT !.pc = pc]
      <4>1. /\ s.counted = r.counted /\ s.raised = r.raised /\ s.updated = r.updated
            /\ s.cur = m /\ s.copy = b.copy /\ s.pc \in {"trust", "summary"}
        BY <3>5, <3>6
      <4>2. \A i : Holding(s, i) => i = m
        BY <4>1 DEF Holding
      <4> QED
        BY <1>2, <1>4, <3>4, <4>1, <4>2
    <3>7. CASE s = Corrected(r)
      BY <1>2, <3>7, SourceTally DEF Silent
    <3> QED
      BY <3>2, <3>6, <3>7
  <2>3. CountsOnce(s)
    BY <1>1, <1>2, <2>2, SameCounts
  <2>4. Effect(m, r, s, episode[m], new)
    <3>1. PICK row : row = episode[m]
      OBVIOUS
    <3>2. /\ new.stored = row.stored
          /\ row.stored => new.freq = r.copy.freq + 0 /\ new.trust = row.trust
      <4>1. r.copy.freq \in Nat
        BY <1>2 DEF EpisodeRow
      <4> QED
        BY <1>2, <1>4, <2>1, <3>1, <4>1
    <3>3. IF r.id = m THEN s.counted = r.counted + 0 ELSE 0 = 0
      BY <1>2, <1>4, <2>2 DEF CountsOnce, Tallied
    <3>4. Holding(s, m) => 0 = 0 /\ s.copy.freq = r.copy.freq /\ s.copy.trust = r.copy.trust
      BY <2>2
    <3>5. Effect(m, r, s, row, new)
      BY <1>2, <1>4, <2>2, <3>2, <3>3, <3>4, ReweighEffect
    <3> QED
      BY <3>1, <3>5
  <2>5. \A i \in Tallied : i # m \/ i \notin Episodes =>
              /\ r.id = i => s.counted = r.counted
              /\ i \in s.raised <=> i \in r.raised
              /\ ~Holding(s, i)
    BY <2>2
  <2>6. EffectOf(c)
    BY <1>0, <2>1, <2>4, <2>5, OneEpisode
  <2> QED
    BY <1>0, <2>3, <2>6 DEF Outcome
<1>5. \/ NothingStored /\ s = FailedSource(r)
      \/ /\ UpdateEpisodicWeight(r.cur, Boosted(r.copy).weight, r.copy.freq)
         /\ s = AfterBoost(r)
  BY <1>0, <1>2 DEF SourceBoost
<1> QED
  BY <1>3, <1>4, <1>5

LEMMA SourceSummaryOutcome ==
    ASSUME NEW c \in Calls, Ready(c), SourceSummary(c)
    PROVE  Outcome(c)
<1>0. PICK r, s : r = call[c] /\ s = call'[c]
  OBVIOUS
<1>1. r.op = "feedback" /\ r.pc = "summary"
  BY <1>0 DEF SourceSummary, Feeding, At
<1>2. /\ DOMAIN r = Fields /\ DOMAIN call = Calls /\ CountsOnce(r) /\ TablesTyped
      /\ s.op = "feedback" /\ s.id = r.id
      /\ r.cur \in Episodes /\ r.copy \in EpisodeRow /\ r.copy.stored
      /\ Holding(r, r.cur)
  BY <1>0, <1>1, AtSource
<1>3. PICK m : m = r.cur
  OBVIOUS
<1>4. s = [r EXCEPT !.pc = "trust"] \/ s = Corrected(r)
  BY <1>0, <1>2 DEF SourceSummary
<1>5. /\ s.counted = r.counted /\ s.raised = r.raised /\ r.updated \subseteq s.updated
      /\ \A i : Holding(s, i) => i = m /\ s.copy = r.copy
  <2>1. CASE s = [r EXCEPT !.pc = "trust"]
    <3>1. /\ s.counted = r.counted /\ s.raised = r.raised /\ r.updated = s.updated
          /\ s.cur = r.cur /\ s.copy = r.copy
      BY <1>2, <2>1 DEF Fields
    <3> QED
      BY <1>3, <3>1 DEF Holding
  <2>2. CASE s = Corrected(r)
    BY <1>2, <2>2, SourceTally DEF Silent
  <2> QED
    BY <1>4, <2>1, <2>2
<1>6. CountsOnce(s)
  BY <1>1, <1>2, <1>5, SameCounts
<1>7. r.copy.freq \in Nat /\ r.copy.trust = Least(MaxTrust, r.copy.trust + 0)
  BY <1>2 DEF EpisodeRow, Least, MaxTrust
<1>8. CASE WriteEpisodic(m, r.copy)
  <2>1. PICK row : row = r.copy
    OBVIOUS
  <2>2. episode' = [episode EXCEPT ![m] = row] /\ rule' = rule
    BY <1>2, <1>8, <2>1, EpisodeWritten DEF WriteEpisodic, OnlyEpisode
  <2>3. \A i : Holding(s, i) => i = m /\ i \in Episodes /\ 0 = 0
                                   /\ s.copy.freq = r.copy.freq /\ s.copy.trust = r.copy.trust
    BY <1>2, <1>3, <1>5
  <2>4. row.stored /\ row.freq = r.copy.freq /\ row.trust = Least(MaxTrust, r.copy.trust + 0)
    BY <1>2, <1>7, <2>1
  <2>5. m \in Episodes /\ Holding(r, m)
    BY <1>2, <1>3
  <2> QED
    BY <1>0, <1>5, <1>6, <2>2, <2>3, <2>4, <2>5, RewriteOutcome
<1>9. CASE NothingStored
  <2>1. episode' = episode /\ rule' = rule
    BY <1>9 DEF NothingStored, tables
  <2>2. \A i \in Tallied : Effect(i, r, s, RowOf(i), RowOf(i)')
    <3> SUFFICES ASSUME NEW i \in Tallied PROVE Effect(i, r, s, RowOf(i), RowOf(i)')
      OBVIOUS
    <3>1. PICK old : old = RowOf(i)
      OBVIOUS
    <3>2. RowOf(i)' = old
      BY <2>1, <3>1, RowsAre DEF Tallied
    <3>3. r.id = i => r.counted \in Nat
      BY <1>2 DEF CountsOnce
    <3>4. Counts(i, r, s, 0, 0)
      BY <1>2, <1>5, <3>3 DEF Counts
    <3>5. RowMoves(i, r, s, old, old, 0, 0)
      BY DEF RowMoves, Stays, Alike
    <3>6. HandMoves(i, r, s, old, old, 0, 0)
      BY <1>2, <1>3, <1>5 DEF HandMoves
    <3>7. Effect(i, r, s, old, old)
      BY <3>4, <3>5, <3>6 DEF Effect
    <3> QED
      BY <3>1, <3>2, <3>7
  <2> QED
    BY <1>0, <1>6, <2>2 DEF Outcome, EffectOf
<1>10. NothingStored \/ WriteEpisodic(m, r.copy)
  BY <1>0, <1>3 DEF SourceSummary
<1> QED
  BY <1>8, <1>9, <1>10

LEMMA SourceTrustOutcome ==
    ASSUME NEW c \in Calls, Ready(c), SourceTrust(c)
    PROVE  Outcome(c)
<1>0. PICK r, s : r = call[c] /\ s = call'[c]
  OBVIOUS
<1>1. r.op = "feedback" /\ r.pc = "trust"
  BY <1>0 DEF SourceTrust, Feeding, At
<1>2. /\ DOMAIN r = Fields /\ DOMAIN call = Calls /\ CountsOnce(r) /\ TablesTyped
      /\ s.op = "feedback" /\ s.id = r.id
      /\ r.cur \in Episodes /\ r.copy \in EpisodeRow /\ r.copy.stored
      /\ r.cur \notin r.raised
      /\ Holding(r, r.cur)
  BY <1>0, <1>1, AtSource
<1>3. CASE NothingStored /\ s = Corrected(r)
  <2>1. Silent(r, s)
    BY <1>2, <1>3, SourceTally
  <2> QED
    BY <1>0, <1>1, <1>3, <2>1, SilentOutcome DEF NothingStored, tables
<1>4. ASSUME NEW m, m = r.cur, NEW row, row = Trusted(r.copy), WriteEpisodic(m, row), s = Raised(r)
      PROVE  Outcome(c)
  <2>1. /\ row \in EpisodeRow /\ row.stored /\ row.freq = r.copy.freq
        /\ row.trust = Least(MaxTrust, r.copy.trust + 1)
    BY <1>2, <1>4 DEF Trusted, EpisodeRow, Least, MaxTrust
  <2>2. episode' = [episode EXCEPT ![m] = row] /\ rule' = rule
    <3>1. episode' = [episode EXCEPT ![m] = row]
      BY <1>2, <1>4, <2>1, EpisodeWritten
    <3>2. rule' = rule
      BY <1>4 DEF WriteEpisodic, OnlyEpisode
    <3> QED
      BY <3>1, <3>2
  <2>3. /\ s.counted = r.counted /\ s.raised = r.raised \cup {m}
        /\ s.updated = r.updated \cup {m} /\ \A i : ~Holding(s, i)
    BY <1>2, <1>4, SourceTally
  <2>4. CountsOnce(s)
    BY <1>1, <1>2, <2>3 DEF CountsOnce
  <2>5. m \in Episodes /\ Holding(r, m) /\ m \notin r.raised
    BY <1>2, <1>4
  <2>6. IF 1 = 0 THEN s.raised = r.raised ELSE s.raised = r.raised \cup {m} /\ m \notin r.raised
    BY <2>3, <2>5
  <2>7. \A i : Holding(s, i) => i = m /\ i \in Episodes /\ 1 = 0
                                   /\ s.copy.freq = r.copy.freq /\ s.copy.trust = r.copy.trust
    BY <2>3
  <2>8. 1 \in {0, 1}
    OBVIOUS
  <2> QED
    BY <1>0, <2>1, <2>2, <2>3, <2>4, <2>5, <2>6, <2>7, <2>8, RewriteOutcome
<1>5. \/ NothingStored /\ s = Corrected(r)
      \/ WriteEpisodic(r.cur, Trusted(r.copy)) /\ s = Raised(r)
  BY <1>0, <1>2 DEF SourceTrust
<1> QED
  BY <1>3, <1>4, <1>5

(* A write that merges into a memory it found, or creates its own.         *)
LEMMA MergeOutcome ==
    ASSUME NEW c \in Calls, Ready(c), Merge(c)
    PROVE  Outcome(c)
<1>0. PICK r, s : r = call[c] /\ s = call'[c]
  OBVIOUS
<1>1. /\ DOMAIN r = Fields /\ DOMAIN call = Calls /\ CountsOnce(r) /\ CallTyped(r) /\ TablesTyped
      /\ s.op = "write" /\ s.id = r.id /\ r.op = "write" /\ r.pc = "merge"
  BY <1>0, ReadyFacts DEF Merge, Writing, At
<1>2. CASE NothingStored /\ End(c, "error")
  BY <1>0, <1>1, <1>2, EndOutcome DEF NothingStored, tables
<1>3. ASSUME NEW m, m = r.cur, NEW row, row = [r.copy EXCEPT !.weight = Full],
             WriteEpisodic(m, row), End(c, "ok")
      PROVE  Outcome(c)
  <2>1. s = Ended(r, "ok")
    BY <1>0, <1>1, <1>3 DEF End
  <2>2. /\ s.counted = r.counted /\ s.raised = r.raised /\ s.updated = r.updated
        /\ \A i : ~Holding(s, i)
    BY <1>1, <2>1, EndTally
  <2>3. ASSUME m \in Episodes
        PROVE  /\ row \in EpisodeRow /\ row.stored /\ row.freq = r.copy.freq
               /\ row.trust = Least(MaxTrust, r.copy.trust + 0) /\ Holding(r, m)
    <3>1. HoldsEpisode(r)
      BY <1>1 DEF HoldsEpisode
    <3>2. r.copy \in EpisodeRow
      BY <1>1, <1>3, <2>3, <3>1 DEF CallTyped
    <3>3. HeldFresh(c)
      BY DEF Ready, LifeInv
    <3>4. r.copy.stored
      BY <1>0, <1>3, <2>3, <3>1, <3>3 DEF HeldFresh
    <3> QED
      BY <1>3, <2>3, <3>1, <3>2, <3>4, Weights DEF Holding, EpisodeRow, Least, MaxTrust
  <2>4. episode' = [episode EXCEPT ![m] = row]
    BY <1>1, <1>3, <2>3, EpisodeWritten
  <2>5. rule' = rule
    BY <1>3 DEF WriteEpisodic, OnlyEpisode
  <2>6. CountsOnce(s)
    BY <1>1, <2>2, SameCounts
  <2>7. ASSUME m \in Episodes PROVE Effect(m, r, s, episode[m], row)
    <3>1. PICK old : old = episode[m]
      OBVIOUS
    <3>2. r.id = m => r.counted \in Nat
      BY <1>1, <2>7 DEF CountsOnce, Tallied
    <3>3. IF 0 = 0 THEN m \in s.raised <=> m \in r.raised ELSE m \in s.raised /\ m \notin r.raised
      BY <2>2
    <3>4. /\ Holding(r, m) /\ row.stored
          /\ row.freq = r.copy.freq /\ row.trust = Least(MaxTrust, r.copy.trust + 0)
      BY <2>3, <2>7
    <3>5. Effect(m, r, s, old, row)
      BY <2>2, <2>7, <3>2, <3>3, <3>4, RewriteEffect
    <3> QED
      BY <3>1, <3>5
  <2>8. \A i \in Tallied : i # m \/ i \notin Episodes =>
              /\ r.id = i => s.counted = r.counted
              /\ i \in s.raised <=> i \in r.raised
              /\ ~Holding(s, i)
    BY <2>2
  <2>9. EffectOf(c)
    BY <1>0, <2>4, <2>5, <2>7, <2>8, OneEpisode
  <2> QED
    BY <1>0, <2>6, <2>9 DEF Outcome
<1>4. \/ NothingStored /\ End(c, "error")
      \/ WriteEpisodic(r.cur, [r.copy EXCEPT !.weight = Full]) /\ End(c, "ok")
  BY <1>0 DEF Merge
<1> QED
  BY <1>2, <1>3, <1>4

LEMMA CreateOutcome ==
    ASSUME NEW c \in Calls, Ready(c), CreateEpisode(c)
    PROVE  Outcome(c)
<1>0. PICK r, s : r = call[c] /\ s = call'[c]
  OBVIOUS
<1>1. /\ DOMAIN r = Fields /\ DOMAIN call = Calls /\ CountsOnce(r) /\ TablesTyped
      /\ s.op = "write" /\ s.id = r.id /\ r.op = "write" /\ r.pc = "create"
  BY <1>0, ReadyFacts DEF CreateEpisode, Writing, At
<1>2. CASE NothingStored /\ End(c, "error")
  BY <1>0, <1>1, <1>2, EndOutcome DEF NothingStored, tables
<1>3. ASSUME NEW m, m = r.id, NEW row, row = NewEpisode, WriteEpisodic(m, row), Goto(c, "pool")
      PROVE  Outcome(c)
  <2>1. s = [r EXCEPT !.pc = "pool"]
    BY <1>0, <1>1, <1>3 DEF Goto
  <2>2. /\ s.counted = r.counted /\ s.raised = r.raised /\ s.updated = r.updated /\ s.pc = "pool"
    BY <1>1, <2>1 DEF Fields
  <2>3. (\A i : ~Holding(s, i)) /\ ~Creating(s) /\ Creating(r)
    BY <1>1, <2>2 DEF Holding, HoldsEpisode, Creating
  <2>4. m \in Episodes /\ r.counted \in Nat /\ ~episode[m].stored
    BY <1>0, <1>1, <1>3, <2>3 DEF CountsOnce, Tallied, Ready
  <2>5. /\ row \in EpisodeRow /\ row.stored /\ row.freq = Full /\ row.trust = DefaultTrust
    BY <1>3, NewRowsTyped DEF NewEpisode, NoEpisode
  <2>6. episode' = [episode EXCEPT ![m] = row]
    BY <1>1, <1>3, <2>5, EpisodeWritten
  <2>7. rule' = rule
    BY <1>3 DEF WriteEpisodic, OnlyEpisode
  <2>8. CountsOnce(s)
    BY <1>1, <2>2, SameCounts
  <2>9. Effect(m, r, s, episode[m], row)
    <3>1. PICK old : old = episode[m]
      OBVIOUS
    <3>2. ~old.stored
      BY <2>4, <3>1
    <3>3. Effect(m, r, s, old, row)
      BY <1>3, <2>2, <2>3, <2>4, <2>5, <3>2, BornEffect
    <3> QED
      BY <3>1, <3>3
  <2>10. \A i \in Tallied : i # m \/ i \notin Episodes =>
              /\ r.id = i => s.counted = r.counted
              /\ i \in s.raised <=> i \in r.raised
              /\ ~Holding(s, i)
    BY <2>2, <2>3
  <2>11. EffectOf(c)
    BY <1>0, <2>6, <2>7, <2>9, <2>10, OneEpisode
  <2> QED
    BY <1>0, <2>8, <2>11 DEF Outcome
<1>4. \/ NothingStored /\ End(c, "error")
      \/ WriteEpisodic(r.id, NewEpisode) /\ Goto(c, "pool")
  BY <1>0 DEF CreateEpisode
<1> QED
  BY <1>2, <1>3, <1>4

(* Steps that end a call and leave every row as it was, or gone.           *)
LEMMA GoneOutcome ==
    ASSUME NEW c \in Calls, Ready(c), NEW o, End(c, o), rule' = rule, call[c].op # "touch",
           \A m \in Episodes : \/ ~episode'[m].stored
                               \/ /\ episode'[m].stored = episode[m].stored
                                  /\ Alike(episode[m], episode'[m])
    PROVE  Outcome(c)
<1>0. PICK r, s : r = call[c] /\ s = call'[c]
  OBVIOUS
<1>1. /\ DOMAIN r = Fields /\ DOMAIN call = Calls /\ CountsOnce(r)
      /\ s.op = r.op /\ s.id = r.id /\ r.op # "touch"
  BY <1>0, ReadyFacts
<1>2. s = Ended(r, o)
  BY <1>0, <1>1 DEF End
<1>3. /\ s.counted = r.counted /\ s.raised = r.raised /\ s.updated = r.updated
      /\ \A i : ~Holding(s, i)
  BY <1>1, <1>2, EndTally
<1>4. CountsOnce(s)
  BY <1>1, <1>3, SameCounts
<1>5. ASSUME NEW i \in Tallied PROVE Effect(i, r, s, RowOf(i), RowOf(i)')
  <2>1. PICK old, new : old = RowOf(i) /\ new = RowOf(i)'
    OBVIOUS
  <2>2. ~new.stored \/ (new.stored = old.stored /\ Alike(old, new))
    BY <2>1, RowsAre DEF Tallied, Alike
  <2>3. r.id = i => r.counted \in Nat
    BY <1>1 DEF CountsOnce
  <2>4. CASE ~new.stored
    <3>1. Effect(i, r, s, old, new)
      BY <1>3, <2>3, <2>4, GoneEffect
    <3> QED
      BY <2>1, <3>1
  <2>5. CASE new.stored = old.stored /\ Alike(old, new)
    <3>1. Effect(i, r, s, old, new)
      BY <1>3, <2>3, <2>5, QuietEffect
    <3> QED
      BY <2>1, <3>1
  <2> QED
    BY <2>2, <2>4, <2>5
<1> QED
  BY <1>0, <1>4, <1>5 DEF Outcome, EffectOf

(* Retirement and deletion.                                                *)
LEMMA RetireOutcome ==
    ASSUME NEW c \in Calls, Ready(c), Retire(c) \/ DeleteUser(c)
    PROVE  Outcome(c)
<1>1. TablesTyped /\ call[c].op \in {"retire", "delete"} /\ DOMAIN episode = Episodes
  BY DEF Ready, TypeInv, TablesTyped, Retire, DeleteUser, At
<1>2. CASE \E o : NothingStored /\ End(c, o)
  <2>1. episode' = episode /\ rule' = rule
    BY <1>2 DEF NothingStored, tables
  <2> QED
    BY <1>1, <1>2, <2>1, EndOutcome
<1>3. ASSUME NEW m, MarkObsolete(m), End(c, "ok") PROVE Outcome(c)
  <2>1. PICK new : /\ episode' = [episode EXCEPT ![m] = new] /\ rule' = rule
                   /\ m \in Episodes => new.stored = episode[m].stored /\ Alike(episode[m], new)
    BY <1>1, <1>3, EpisodeMarked
  <2>2. \A n \in Episodes : episode'[n].stored = episode[n].stored /\ Alike(episode[n], episode'[n])
    <3> SUFFICES ASSUME NEW n \in Episodes
                 PROVE  episode'[n].stored = episode[n].stored /\ Alike(episode[n], episode'[n])
      OBVIOUS
    <3>1. CASE n = m
      BY <1>1, <2>1, <3>1
    <3>2. CASE n # m
      BY <1>1, <2>1, <3>2 DEF Alike
    <3> QED
      BY <3>1, <3>2
  <2> QED
    BY <1>1, <1>3, <2>1, <2>2, GoneOutcome
<1>4. ASSUME DeleteEpisodicByProject, End(c, "ok") PROVE Outcome(c)
  <2>1. \A n \in Episodes : episode'[n] = episode[n] \/ ~episode'[n].stored
    BY <1>1, <1>4, EpisodesDeleted
  <2>2. rule' = rule
    BY <1>4 DEF DeleteEpisodicByProject
  <2>3. \A n \in Episodes : \/ ~episode'[n].stored
                            \/ /\ episode'[n].stored = episode[n].stored
                               /\ Alike(episode[n], episode'[n])
    BY <2>1 DEF Alike
  <2> QED
    BY <1>1, <1>4, <2>2, <2>3, GoneOutcome
<1> QED
  BY <1>2, <1>3, <1>4 DEF Retire, DeleteUser

-----------------------------------------------------------------------------
(* Every step of every call has such an effect on every memory.            *)
LEMMA StepOutcome ==
    ASSUME NEW c \in Calls, Ready(c)
    PROVE  Outcome(c)
<1>1. CASE EpisodeStep(c)
  BY <1>1, TouchOutcome, LookupOutcome, FeedbackUpdateOutcome, TraceOutcome, SourceReadOutcome,
     SourceBoostOutcome, SourceSummaryOutcome, SourceTrustOutcome, FetchOutcome, MergeOutcome,
     CreateOutcome, LinkingOutcome, RetireOutcome DEF EpisodeStep
<1>2. CASE PitfallStep(c) \/ RuleStep(c) \/ RunStep(c)
  <2>0. PICK r, s : r = call[c] /\ s = call'[c]
    OBVIOUS
  <2>1. TypeInv /\ Step(c) /\ CountsOnce(r) /\ s.op = r.op /\ s.id = r.id
    BY <2>0, ReadyFacts DEF Ready
  <2>2. EffectOf(c) /\ s.raised = r.raised
    BY <1>2, <2>0, <2>1, OtherEffect DEF SameRaised
  <2>3. r.op \notin {"touch", "feedback", "write", "retire"}
    BY <1>2, <2>0, <2>1, OpsOfSteps
  <2>4. CountsOnce(s)
    BY <2>1, <2>2, <2>3 DEF CountsOnce
  <2> QED
    BY <2>0, <2>2, <2>4 DEF Outcome
<1> QED
  BY <1>1, <1>2 DEF Ready, Step

-----------------------------------------------------------------------------
(* The count of a memory is a sum over the calls.                          *)

Tallies(calls, i) == [c \in Calls |-> IF calls[c].id = i THEN calls[c].counted ELSE 0]
TallySum(calls, i) == MapThenSumSet(LAMBDA c : IF calls[c].id = i THEN calls[c].counted ELSE 0, Calls)

LEMMA CountedIs == \A i : Counted(i) = TallySum(call, i) /\ Counted(i)' = TallySum(call', i)
BY DEF Counted, TallySum, MapThenSumSet, MapThenFoldSet

LEMMA TallySums ==
    ASSUME NEW calls, NEW i
    PROVE  \E g : Sums(Tallies(calls, i), g, Calls) /\ TallySum(calls, i) = g[Calls]
<1> DEFINE f == Tallies(calls, i)
           Row(g, s) == IF s = {} THEN 0
                        ELSE (IF calls[First(s)].id = i THEN calls[First(s)].counted ELSE 0) + g[s \ {First(s)}]
           Adds(g) == g = [s \in SUBSET Calls |-> Row(g, s)]
<1>1. TallySum(calls, i) = (CHOOSE g : Adds(g))[Calls]
  BY DEF TallySum, MapThenSumSet, MapThenFoldSet, First
<1>2. ASSUME NEW g PROVE Adds(g) <=> Sums(f, g, Calls)
  <2>1. \A s \in SUBSET Calls : Row(g, s) = SumStep(f, g, s)
    BY FirstIn DEF SumStep, Tallies
  <2> HIDE DEF Row, f
  <2>2. [s \in SUBSET Calls |-> Row(g, s)] = [s \in SUBSET Calls |-> SumStep(f, g, s)]
    BY <2>1
  <2> QED
    BY <2>2 DEF Sums
<1>3. \E g : Adds(g)
  BY <1>2, SumsExist, CallsAssumption DEF CallsAssumption
<1> HIDE DEF Row
<1>4. Adds(CHOOSE g : Adds(g))
  BY <1>3
<1> QED
  BY <1>1, <1>2, <1>4

-----------------------------------------------------------------------------
(* A row, and the hands on it, against the counts.                         *)

(* What a row may say when n was counted and the trust raised k times; and *)
(* what it says when nobody got in the way.                                *)
Within(i, row, n, k) ==
    /\ row.freq <= Full + n
    /\ i \in Episodes => row.trust <= Least(MaxTrust, DefaultTrust + k)
Exact(i, row, n, k) ==
    /\ row.freq = Full + n
    /\ i \in Episodes => row.trust = Least(MaxTrust, DefaultTrust + k)

(* What a row says, and what a call with a row in hand would write back;   *)
(* R are the memories on which calls got in each other's way.              *)
Says(i, row, R, n, k) ==
    row.stored => Within(i, row, n, k) /\ (i \notin R => Exact(i, row, n, k))
Would(i, r, row, R, n, k) ==
    Holding(r, i) => /\ Within(i, r.copy, n, k)
                     /\ i \notin R => row.stored /\ Alike(r.copy, row)

Tallying(row) == row.freq \in Nat /\ row.trust \in 1..MaxTrust

(* The trust is capped: raising the cap of a sum is capping the sum.       *)
LEMMA TrustGrows ==
    ASSUME NEW k \in Nat, NEW l \in {0, 1}, NEW t \in 1..MaxTrust
    PROVE  /\ Least(MaxTrust, DefaultTrust + k) \in 1..MaxTrust
           /\ Least(MaxTrust, DefaultTrust + k) <= Least(MaxTrust, DefaultTrust + (k + l))
           /\ t <= Least(MaxTrust, DefaultTrust + k) =>
                Least(MaxTrust, t + l) <= Least(MaxTrust, DefaultTrust + (k + l))
           /\ t = Least(MaxTrust, DefaultTrust + k) =>
                Least(MaxTrust, t + l) = Least(MaxTrust, DefaultTrust + (k + l))
           /\ Least(MaxTrust, t + 0) = t
           /\ Least(MaxTrust, DefaultTrust + 0) = DefaultTrust
BY DEF Least, MaxTrust, DefaultTrust

LEMMA WithinGrows ==
    ASSUME NEW i, NEW row, Tallying(row), NEW n \in Nat, NEW k \in Nat, NEW g \in Nat, NEW l \in {0, 1},
           Within(i, row, n, k)
    PROVE  Within(i, row, n + g, k + l)
<1>1. row.freq \in Nat /\ row.trust \in 1..MaxTrust /\ row.freq <= Full + n
  BY DEF Tallying, Within
<1>2. row.freq <= Full + (n + g)
  BY <1>1 DEF Full
<1>3. row.trust <= Least(MaxTrust, DefaultTrust + k) =>
        row.trust <= Least(MaxTrust, DefaultTrust + (k + l))
  <2>1. PICK a, b : a = Least(MaxTrust, DefaultTrust + k) /\ b = Least(MaxTrust, DefaultTrust + (k + l))
    OBVIOUS
  <2>2. a \in 1..MaxTrust /\ a <= b /\ b \in 1..MaxTrust
    <3>1. k + l \in Nat /\ 0 \in {0, 1}
      OBVIOUS
    <3> QED
      BY <1>1, <2>1, <3>1, TrustGrows
  <2> QED
    BY <1>1, <2>1, <2>2
<1> QED
  BY <1>2, <1>3 DEF Within

(* The arithmetic of one step: a row that agreed with the counts before    *)
(* agrees with them after, and so does what the call has in hand.          *)
LEMMA MoveCounts ==
    ASSUME NEW i \in Tallied, NEW r, NEW s, NEW row, NEW new, NEW R, NEW S, R \subseteq S,
           NEW n \in Nat, NEW k \in Nat, NEW g \in Nat, NEW l \in {0, 1},
           Tallying(row), Tallying(new), Holding(r, i) => Tallying(r.copy),
           Says(i, row, R, n, k), Would(i, r, row, R, n, k),
           RowMoves(i, r, s, row, new, g, l), HandMoves(i, r, s, row, new, g, l),
           Creates(i, r, s, row, new, g, l) => n = 0 /\ k = 0
    PROVE  Says(i, new, S, n + g, k + l) /\ Would(i, s, new, S, n + g, k + l)
<1>a. row.stored => Within(i, row, n, k) /\ (i \notin R => Exact(i, row, n, k))
  BY DEF Says
<1>b. Holding(r, i) => /\ Within(i, r.copy, n, k)
                       /\ i \notin R => row.stored /\ Alike(r.copy, row)
  BY DEF Would
<1> SUFFICES /\ new.stored => /\ Within(i, new, n + g, k + l)
                              /\ i \notin S => Exact(i, new, n + g, k + l)
             /\ Holding(s, i) => /\ Within(i, s.copy, n + g, k + l)
                                 /\ i \notin S => new.stored /\ Alike(s.copy, new)
  BY DEF Says, Would
<1>1. i \notin S => i \notin R
  OBVIOUS
<1>2. CASE Stays(row, new, g, l)
  <2>1. g = 0 /\ l = 0 /\ n + g = n /\ k + l = k
    BY <1>2 DEF Stays
  <2>2. new.stored = row.stored /\ (row.stored => Alike(row, new))
    BY <1>2 DEF Stays
  <2>3. new.stored => Within(i, new, n, k) /\ (i \notin S => Exact(i, new, n, k))
    BY <1>a, <1>b, <1>1, <2>2 DEF Alike, Within, Exact
  <2>4. Holding(s, i) => /\ Within(i, s.copy, n, k)
                         /\ i \notin S => new.stored /\ Alike(s.copy, new)
    <3>1. CASE s.copy = row /\ row.stored /\ new = row
      BY <1>a, <1>b, <3>1 DEF Alike
    <3>2. CASE Holding(r, i) /\ s.copy.freq = r.copy.freq /\ s.copy.trust = r.copy.trust
      BY <1>a, <1>b, <1>1, <2>2, <3>2 DEF Alike, Within
    <3> QED
      BY <3>1, <3>2 DEF HandMoves
  <2> QED
    BY <2>1, <2>3, <2>4
<1>3. CASE Goes(i, s, new, g, l)
  BY <1>3 DEF Goes
<1>4. CASE Reweighs(i, r, row, new, g, l)
  <2>1. Holding(r, i) /\ l = 0 /\ k + l = k /\ new.stored = row.stored
    BY <1>4 DEF Reweighs
  <2>2. row.stored => new.freq = r.copy.freq + g /\ new.trust = row.trust
    BY <1>4 DEF Reweighs
  <2>3. r.copy.freq \in Nat /\ r.copy.freq <= Full + n
    BY <1>a, <1>b, <2>1 DEF Tallying, Within
  <2>4. new.stored => new.freq <= Full + (n + g)
    BY <2>1, <2>2, <2>3 DEF Full
  <2>5. new.stored => Within(i, new, n + g, k)
    BY <1>a, <1>b, <2>1, <2>2, <2>4 DEF Within
  <2>6. i \notin S /\ new.stored => Exact(i, new, n + g, k)
    <3> SUFFICES ASSUME i \notin S, new.stored PROVE Exact(i, new, n + g, k)
      OBVIOUS
    <3>1. Exact(i, row, n, k) /\ Alike(r.copy, row)
      BY <1>a, <1>b, <1>1, <2>1
    <3>2. row.freq = Full + n /\ r.copy.freq = row.freq
      BY <3>1 DEF Exact, Alike
    <3>3. new.freq = Full + (n + g)
      BY <2>1, <2>2, <3>2 DEF Full
    <3> QED
      BY <2>1, <2>2, <3>1, <3>3 DEF Exact
  <2>7. Holding(s, i) => /\ Within(i, s.copy, n + g, k)
                         /\ i \notin S => new.stored /\ Alike(s.copy, new)
    <3> SUFFICES ASSUME Holding(s, i) PROVE /\ Within(i, s.copy, n + g, k)
                                            /\ i \notin S => new.stored /\ Alike(s.copy, new)
      OBVIOUS
    <3>1. g = 0 /\ n + g = n
      BY DEF HandMoves
    <3>2. CASE s.copy = row /\ row.stored /\ new = row
      BY <1>a, <1>b, <3>1, <3>2 DEF Alike
    <3>3. CASE Holding(r, i) /\ s.copy.freq = r.copy.freq /\ s.copy.trust = r.copy.trust
      <4>1. Within(i, s.copy, n + g, k)
        BY <1>a, <1>b, <3>1, <3>3 DEF Within
      <4>2. ASSUME i \notin S PROVE new.stored /\ Alike(s.copy, new)
        <5>1. row.stored /\ Alike(r.copy, row) /\ r.copy.freq + g = r.copy.freq
          BY <1>a, <1>b, <1>1, <2>1, <2>3, <3>1, <4>2
        <5> QED
          BY <2>1, <2>2, <3>3, <5>1 DEF Alike
      <4> QED
        BY <4>1, <4>2
    <3> QED
      BY <3>2, <3>3 DEF HandMoves
  <2> QED
    BY <2>1, <2>5, <2>6, <2>7
<1>5. CASE Rewrites(i, r, new, g, l)
  <2>1. Holding(r, i) /\ g = 0 /\ n + g = n /\ i \in Episodes /\ new.stored
    BY <1>5 DEF Rewrites
  <2>2. new.freq = r.copy.freq /\ new.trust = Least(MaxTrust, r.copy.trust + l)
    BY <1>5 DEF Rewrites
  <2>3. PICK t : t = r.copy.trust
    OBVIOUS
  <2>4. t \in 1..MaxTrust /\ Within(i, r.copy, n, k)
    BY <1>a, <1>b, <2>1, <2>3 DEF Tallying
  <2>5. Within(i, new, n, k + l)
    BY <2>1, <2>2, <2>3, <2>4, TrustGrows DEF Within
  <2>6. i \notin S => Exact(i, new, n, k + l)
    <3> SUFFICES ASSUME i \notin S PROVE Exact(i, new, n, k + l)
      OBVIOUS
    <3>1. row.stored /\ Alike(r.copy, row)
      BY <1>a, <1>b, <1>1, <2>1
    <3>2. Exact(i, row, n, k)
      BY <1>a, <1>b, <1>1, <3>1
    <3>3. new.freq = Full + n /\ t = Least(MaxTrust, DefaultTrust + k)
      BY <2>1, <2>2, <2>3, <3>1, <3>2 DEF Exact, Alike
    <3>4. new.trust = Least(MaxTrust, DefaultTrust + (k + l))
      BY <2>2, <2>3, <2>4, <3>3, TrustGrows
    <3> QED
      BY <3>3, <3>4 DEF Exact
  <2>7. Holding(s, i) => /\ Within(i, s.copy, n, k + l)
                         /\ i \notin S => new.stored /\ Alike(s.copy, new)
    <3> SUFFICES ASSUME Holding(s, i) PROVE /\ Within(i, s.copy, n, k + l)
                                            /\ i \notin S => new.stored /\ Alike(s.copy, new)
      OBVIOUS
    <3>1. l = 0 /\ k + l = k /\ new.trust = t
      <4>1. l = 0 /\ k + l = k
        BY DEF HandMoves
      <4>2. Least(MaxTrust, t + 0) = t
        BY <2>4, TrustGrows
      <4> QED
        BY <2>2, <2>3, <4>1, <4>2
    <3>2. CASE s.copy = row /\ row.stored /\ new = row
      BY <1>a, <1>b, <3>1, <3>2 DEF Alike
    <3>3. CASE Holding(r, i) /\ s.copy.freq = r.copy.freq /\ s.copy.trust = r.copy.trust
      <4>1. Within(i, s.copy, n, k + l)
        BY <2>4, <3>1, <3>3 DEF Within
      <4>2. new.stored /\ Alike(s.copy, new)
        BY <2>1, <2>2, <2>3, <3>1, <3>3 DEF Alike
      <4> QED
        BY <4>1, <4>2
    <3> QED
      BY <3>2, <3>3 DEF HandMoves
  <2> QED
    BY <2>1, <2>5, <2>6, <2>7
<1>6. CASE Creates(i, r, s, row, new, g, l)
  <2>1. g = 0 /\ l = 0 /\ n = 0 /\ k = 0 /\ n + g = 0 /\ k + l = 0 /\ ~row.stored
    BY <1>6 DEF Creates
  <2>2. new.freq = Full /\ new.trust = DefaultTrust /\ new.stored
    BY <1>6 DEF Creates
  <2>3. Least(MaxTrust, DefaultTrust + 0) = DefaultTrust
    BY DEF Least, MaxTrust, DefaultTrust
  <2>4. Within(i, new, 0, 0) /\ Exact(i, new, 0, 0)
    BY <2>2, <2>3 DEF Within, Exact, Full, DefaultTrust
  <2>5. Holding(s, i) => Within(i, s.copy, 0, 0) /\ i \in S
    <3> SUFFICES ASSUME Holding(s, i) PROVE Within(i, s.copy, 0, 0) /\ i \in S
      OBVIOUS
    <3>1. Holding(r, i) /\ s.copy.freq = r.copy.freq /\ s.copy.trust = r.copy.trust
      BY <2>1 DEF HandMoves
    <3>2. i \in R
      BY <1>a, <1>b, <2>1, <3>1
    <3> QED
      BY <1>a, <1>b, <2>1, <3>1, <3>2 DEF Within
  <2> QED
    BY <2>1, <2>4, <2>5
<1> QED
  BY <1>2, <1>3, <1>4, <1>5, <1>6 DEF RowMoves

(* A step that counts g for a memory moves its count by g, and one that    *)
(* raises its trust the number of raises by one.                           *)
LEMMA CountedMoves ==
    ASSUME NEW c \in Calls, NEW i \in Tallied, NEW g \in Nat,
           \A d \in Calls : CountsOnce(call[d]),
           call'[c].id = call[c].id, \A d \in Calls \ {c} : call'[d] = call[d],
           IF call[c].id = i THEN call'[c].counted = call[c].counted + g ELSE g = 0
    PROVE  Counted(i) \in Nat /\ Counted(i)' = Counted(i) + g
<1>1. PICK f : f = Tallies(call, i)
  OBVIOUS
<1>2. PICK h : h = Tallies(call', i)
  OBVIOUS
<1>3. \A d \in Calls : call[d].id = i => call[d].counted \in Nat
  BY DEF CountsOnce
<1>4. f \in [Calls -> Nat]
  BY <1>1, <1>3 DEF Tallies
<1>5. h[c] = f[c] + g
  <2>1. CASE call[c].id = i
    BY <1>1, <1>2, <2>1 DEF Tallies
  <2>2. CASE call[c].id # i
    BY <1>1, <1>2, <2>2 DEF Tallies
  <2> QED
    BY <2>1, <2>2
<1>6. \A d \in Calls : d # c => h[d] = f[d]
  BY <1>1, <1>2 DEF Tallies
<1>7. h \in [Calls -> Nat]
  <2>1. h = [d \in Calls |-> h[d]]
    BY <1>2 DEF Tallies
  <2>2. \A d \in Calls : h[d] \in Nat
    BY <1>4, <1>5, <1>6
  <2> QED
    BY <2>1, <2>2
<1>8. PICK x : Sums(f, x, Calls) /\ Counted(i) = x[Calls]
  BY <1>1, TallySums, CountedIs
<1>9. PICK y : Sums(h, y, Calls) /\ Counted(i)' = y[Calls]
  BY <1>2, TallySums, CountedIs
<1>10. IsFiniteSet(Calls)
  BY CallsAssumption DEF CallsAssumption
<1>11. x[Calls] \in Nat /\ y[Calls] = x[Calls] + g
  BY <1>4, <1>5, <1>6, <1>7, <1>8, <1>9, <1>10, SumsGrow
<1> QED
  BY <1>8, <1>9, <1>11

LEMMA RaisesMoves ==
    ASSUME NEW c \in Calls, NEW i, NEW l \in {0, 1},
           \A d \in Calls \ {c} : call'[d] = call[d],
           IF l = 0 THEN i \in call'[c].raised <=> i \in call[c].raised
                    ELSE i \in call'[c].raised /\ i \notin call[c].raised
    PROVE  Raises(i) \in Nat /\ Raises(i)' = Raises(i) + l
<1> DEFINE A == {d \in Calls : i \in call[d].raised}
           B == {d \in Calls : i \in call'[d].raised}
<1>1. IsFiniteSet(A) /\ Cardinality(A) \in Nat
  BY FS_Subset, FS_CardinalityType, CallsAssumption DEF CallsAssumption
<1>2. Raises(i) = Cardinality(A) /\ Raises(i)' = Cardinality(B)
  BY DEF Raises
<1>3. CASE l = 0
  <2>1. A = B
    BY <1>3
  <2> HIDE DEF A, B
  <2>2. Cardinality(B) = Cardinality(A) + 0
    BY <1>1, <2>1
  <2> QED
    BY <1>1, <1>2, <1>3, <2>2
<1>4. CASE l = 1
  <2>1. B = A \cup {c} /\ c \notin A
    BY <1>4
  <2> HIDE DEF A, B
  <2>2. Cardinality(B) = Cardinality(A) + 1
    BY <1>1, <2>1, FS_AddElement
  <2> QED
    BY <1>1, <1>2, <1>4, <2>2
<1> QED
  BY <1>3, <1>4

-----------------------------------------------------------------------------
(* The inductive invariant.  Its parts: a row agrees with the counts; so   *)
(* does a row in hand, and if nobody else wrote the memory meanwhile it    *)
(* still agrees with the table; a call counts once; and a memory that will *)
(* yet be created starts from nothing.                                     *)

RowCounts(i) == Says(i, RowOf(i), raced, Counted(i), Raises(i))
HandCounts(c, i) == Would(i, call[c], RowOf(i), raced, Counted(i), Raises(i))

(* A memory nothing is stored under yet: no call has counted for it.       *)
Unborn(i) ==
    /\ ~RowOf(i).stored
    /\ \A c \in Calls : /\ ~Holding(call[c], i) /\ i \notin call[c].raised
                        /\ call[c].id = i => call[c].counted = 0
BirthInv ==
    /\ \A c \in Calls : Creating(call[c]) => Unborn(call[c].id)
    /\ \A c \in Calls : \A d \in Calls \ {c} :
          call[c].op = "write" /\ call[d].op = "write" => call[c].id # call[d].id
    /\ \A r \in Rules : ~rule[r].stored => Unborn(r)

CountInv ==
    /\ \A c \in Calls : CountsOnce(call[c])
    /\ \A i \in Tallied : RowCounts(i) /\ \A c \in Calls : HandCounts(c, i)
    /\ BirthInv

-----------------------------------------------------------------------------
(* A memory no call has counted for.                                       *)
LEMMA NothingCounted ==
    ASSUME NEW i,
           \A c \in Calls : i \notin call[c].raised /\ (call[c].id = i => call[c].counted = 0)
    PROVE  Counted(i) = 0 /\ Raises(i) = 0
<1>1. PICK f : f = Tallies(call, i)
  OBVIOUS
<1>2. \A c \in Calls : f[c] = 0
  BY <1>1 DEF Tallies
<1>3. PICK g : Sums(f, g, Calls) /\ Counted(i) = g[Calls]
  BY <1>1, TallySums, CountedIs
<1>4. IsFiniteSet(Calls)
  BY CallsAssumption DEF CallsAssumption
<1>5. Counted(i) = 0
  BY <1>2, <1>3, <1>4, SumsZero
<1>6. {c \in Calls : i \in call[c].raised} = {}
  OBVIOUS
<1>7. Raises(i) = 0
  BY <1>6, FS_EmptySet DEF Raises
<1> QED
  BY <1>5, <1>7

(* What a call holds has the shape of a row.                               *)
LEMMA HandTyped ==
    ASSUME TypeInv, NEW c \in Calls, NEW i, Holding(call[c], i)
    PROVE  call[c].copy \in EpisodeRow /\ call[c].cur = i /\ i \in Tallied
<1>1. CallTyped(call[c])
  BY DEF TypeInv, CallsTyped
<1>2. CASE i \in Episodes
  BY <1>1, <1>2 DEF Holding, CallTyped, Tallied
<1>3. CASE i \in Rules /\ HoldsOwn(call[c])
  BY <1>1, <1>3 DEF Holding, CallTyped, Tallied, RuleRow
<1> QED
  BY <1>2, <1>3 DEF Holding

LEMMA RowTyped ==
    ASSUME TablesTyped, NEW i \in Tallied
    PROVE  RowOf(i) \in EpisodeRow
<1>1. CASE i \in Episodes
  BY <1>1 DEF TablesTyped, RowOf
<1>2. CASE i \in Rules
  BY <1>2, RowsAre DEF TablesTyped, RuleRow
<1> QED
  BY <1>1, <1>2 DEF Tallied

LEMMA RowTypedAfter ==
    ASSUME TablesTyped', NEW i \in Tallied
    PROVE  RowOf(i)' \in EpisodeRow
<1>1. CASE i \in Episodes
  BY <1>1 DEF TablesTyped, RowOf
<1>2. CASE i \in Rules
  BY <1>2, RowsAre DEF TablesTyped, RuleRow
<1> QED
  BY <1>1, <1>2 DEF Tallied

LEMMA RowsTally == ASSUME NEW row \in EpisodeRow PROVE Tallying(row)
BY DEF EpisodeRow, Tallying

(* A row that changes under another call's hands is raced for.             *)
LEMMA HeldRaced ==
    ASSUME TypeInv, NEW c \in Calls, Step(c), NEW d \in Calls \ {c}, NEW i, Holding(call[d], i),
           RowOf(i)' # RowOf(i)
    PROVE  i \in raced'
<1>1. call[d].copy \in EpisodeRow /\ call[d].cur = i /\ i \in Tallied
  BY HandTyped
<1>2. i \in WrittenRows
  BY <1>1 DEF WrittenRows, Ids, Tallied
<1>3. i \in Reads(d)
  BY <1>1, CallsAssumption DEF Reads, Holds, Ids, Tallied, CallsAssumption
<1> QED
  BY <1>2, <1>3 DEF Step, Remember

-----------------------------------------------------------------------------
(* A memory nothing is stored under stays one until a row appears.         *)
LEMMA UnbornStays ==
    ASSUME NEW c \in Calls, Ready(c), NEW i \in Tallied, Unborn(i), ~RowOf(i)'.stored
    PROVE  Unborn(i)'
<1>1. PICK r, s : r = call[c] /\ s = call'[c]
  OBVIOUS
<1>2. PICK row, new : row = RowOf(i) /\ new = RowOf(i)'
  OBVIOUS
<1>3. PICK g \in Nat, l \in {0, 1} :
        Counts(i, r, s, g, l) /\ RowMoves(i, r, s, row, new, g, l) /\ HandMoves(i, r, s, row, new, g, l)
  BY <1>1, <1>2, StepOutcome DEF Outcome, EffectOf, Effect
<1>4. ~Holding(r, i) /\ i \notin r.raised /\ (r.id = i => r.counted = 0) /\ ~row.stored /\ ~new.stored
  BY <1>1, <1>2 DEF Unborn
<1>5. g = 0 /\ l = 0
  BY <1>3, <1>4 DEF RowMoves, Stays, Goes, Reweighs, Rewrites, Creates
<1>6. s.id = r.id
  BY <1>1, ReadyFacts
<1>7. i \notin s.raised /\ (s.id = i => s.counted = 0)
  BY <1>3, <1>4, <1>5, <1>6 DEF Counts
<1>8. ~Holding(s, i)
  BY <1>3, <1>4 DEF HandMoves
<1>9. \A d \in Calls \ {c} : call'[d] = call[d]
  BY StepKeeps DEF Ready, Advances
<1>10. ASSUME NEW d \in Calls
       PROVE  /\ ~Holding(call'[d], i) /\ i \notin call'[d].raised
              /\ call'[d].id = i => call'[d].counted = 0
  <2>1. CASE d = c
    BY <1>1, <1>7, <1>8, <2>1
  <2>2. CASE d # c
    BY <1>9, <2>2 DEF Unborn
  <2> QED
    BY <2>1, <2>2
<1> QED
  BY <1>10 DEF Unborn

(* A row and the hands on it after one step.                               *)
LEMMA TallyStep ==
    ASSUME NEW c \in Calls, Ready(c), CountInv, NEW i \in Tallied
    PROVE  RowCounts(i)' /\ \A d \in Calls : HandCounts(d, i)'
<1>1. PICK r, s : r = call[c] /\ s = call'[c]
  OBVIOUS
<1>2. PICK row, new : row = RowOf(i) /\ new = RowOf(i)'
  OBVIOUS
<1>3. PICK g \in Nat, l \in {0, 1} :
        Counts(i, r, s, g, l) /\ RowMoves(i, r, s, row, new, g, l) /\ HandMoves(i, r, s, row, new, g, l)
  BY <1>1, <1>2, StepOutcome DEF Outcome, EffectOf, Effect
<1>4. /\ TypeInv /\ Step(c) /\ s.id = r.id /\ TablesTyped' /\ raced \subseteq raced'
      /\ \A d \in Calls \ {c} : call'[d] = call[d]
  <2>1. TypeInv /\ Step(c) /\ s.id = r.id
    BY <1>1, ReadyFacts DEF Ready
  <2>2. TablesTyped'
    BY <2>1, EpisodeStepTyped, PitfallStepTyped, RuleStepTyped, RunStepTyped DEF Step, Typed
  <2> QED
    BY <2>1, <2>2, StepKeeps DEF Advances
<1>5. PICK n, k : n = Counted(i) /\ k = Raises(i)
  OBVIOUS
<1>6. PICK m, q : m = Counted(i)' /\ q = Raises(i)'
  OBVIOUS
<1>7. n \in Nat /\ k \in Nat /\ m = n + g /\ q = k + l
  <2>1. IF call[c].id = i THEN call'[c].counted = call[c].counted + g ELSE g = 0
    BY <1>1, <1>3 DEF Counts
  <2>2. n \in Nat /\ m = n + g
    BY <1>1, <1>4, <1>5, <1>6, <2>1, CountedMoves DEF CountInv
  <2>3. IF l = 0 THEN i \in call'[c].raised <=> i \in call[c].raised
                 ELSE i \in call'[c].raised /\ i \notin call[c].raised
    BY <1>1, <1>3 DEF Counts
  <2>4. k \in Nat /\ q = k + l
    BY <1>4, <1>5, <1>6, <2>3, RaisesMoves
  <2> QED
    BY <2>2, <2>4
<1>8. Tallying(row) /\ Tallying(new) /\ (Holding(r, i) => Tallying(r.copy))
  BY <1>1, <1>2, <1>4, RowTyped, RowTypedAfter, HandTyped, RowsTally DEF TypeInv
<1>9. Says(i, row, raced, n, k)
  BY <1>2, <1>5 DEF CountInv, RowCounts
<1>10. \A d \in Calls : Would(i, call[d], row, raced, n, k)
  BY <1>2, <1>5 DEF CountInv, HandCounts
<1>11. Creates(i, r, s, row, new, g, l) => n = 0 /\ k = 0
  <2> SUFFICES ASSUME Creates(i, r, s, row, new, g, l) PROVE Unborn(i)
    BY <1>5, NothingCounted DEF Unborn
  <2>1. ~row.stored /\ (i \in Rules \/ (Creating(r) /\ r.id = i))
    BY DEF Creates
  <2>2. CASE i \in Rules
    BY <1>2, <2>1, <2>2, RowsAre DEF CountInv, BirthInv
  <2>3. CASE Creating(r) /\ r.id = i
    BY <1>1, <2>3 DEF CountInv, BirthInv
  <2> QED
    BY <2>1, <2>2, <2>3
<1>12. PICK R, S : R = raced /\ S = raced'
  OBVIOUS
<1>13. Says(i, new, S, m, q) /\ Would(i, s, new, S, m, q)
  <2>1. Says(i, row, R, n, k) /\ Would(i, r, row, R, n, k)
    BY <1>1, <1>9, <1>10, <1>12
  <2>2. R \subseteq S
    BY <1>4, <1>12
  <2>3. RowMoves(i, r, s, row, new, g, l) /\ HandMoves(i, r, s, row, new, g, l)
        /\ g \in Nat /\ l \in {0, 1}
    BY <1>3
  <2>4. n \in Nat /\ k \in Nat
    BY <1>7
  <2>5. Says(i, new, S, n + g, k + l) /\ Would(i, s, new, S, n + g, k + l)
    BY <1>8, <1>11, <2>1, <2>2, <2>3, <2>4, MoveCounts
  <2> QED
    BY <1>7, <2>5
<1>14. RowCounts(i)'
  BY <1>2, <1>6, <1>12, <1>13 DEF RowCounts
<1>15. ASSUME NEW d \in Calls PROVE HandCounts(d, i)'
  <2>1. CASE d = c
    BY <1>1, <1>2, <1>6, <1>12, <1>13, <2>1 DEF HandCounts
  <2>2. CASE d # c
    <3>1. PICK t : t = call[d] /\ t = call'[d]
      BY <1>4, <2>2
    <3>2. ASSUME Holding(t, i)
          PROVE  /\ Within(i, t.copy, m, q)
                 /\ i \notin S => new.stored /\ Alike(t.copy, new)
      <4>1. Tallying(t.copy)
        BY <1>4, <3>1, <3>2, HandTyped, RowsTally
      <4>2. /\ Within(i, t.copy, n, k)
            /\ i \notin R => row.stored /\ Alike(t.copy, row)
        BY <1>10, <1>12, <3>1, <3>2 DEF Would
      <4>3. Within(i, t.copy, n + g, k + l)
        BY <1>7, <4>1, <4>2, WithinGrows
      <4>4. i \notin S => new = row /\ i \notin R
        BY <1>2, <1>4, <1>12, <2>2, <3>1, <3>2, HeldRaced
      <4> QED
        BY <1>7, <4>2, <4>3, <4>4
    <3> QED
      BY <1>2, <1>6, <1>12, <3>1, <3>2 DEF HandCounts, Would
  <2> QED
    BY <2>1, <2>2
<1> QED
  BY <1>14, <1>15

(* A call does not come back to where it chose to create its memory.       *)
LEMMA CreatingBack ==
    ASSUME NEW c \in Calls, Ready(c), Creating(call'[c])
    PROVE  Creating(call[c])
<1>1. PICK r, s : r = call[c] /\ s = call'[c]
  OBVIOUS
<1>2. DOMAIN r = Fields /\ DOMAIN call = Calls /\ s.op = r.op /\ Step(c)
  BY <1>1, ReadyFacts DEF Ready
<1>3. r.op = "write" /\ s.pc \in {"start", "fetch", "merge", "create"}
  BY <1>1, <1>2 DEF Creating
<1>4. EpisodeStep(c)
  BY <1>1, <1>2, <1>3, OpsOfSteps DEF Step
<1>5. ASSUME NEW t, DOMAIN t = Fields, s = AfterLinks(t) \/ \E left : s = NextTrigger(t, left)
      PROVE  FALSE
  <2>1. CASE s = AfterLinks(t)
    BY <1>3, <1>5, <2>1 DEF AfterLinks, Ended, Fields
  <2>2. ASSUME NEW left, s = NextTrigger(t, left) PROVE FALSE
    <3>1. PICK u : u = [t EXCEPT !.todo = {}]
      OBVIOUS
    <3>2. DOMAIN u = Fields
      BY <1>5, <3>1
    <3>3. s = Ended(u, "ok") \/ s = [t EXCEPT !.todo = left, !.pc = "trigger", !.cur = NoId]
      BY <2>2, <3>1 DEF NextTrigger
    <3>4. s.pc = "done" \/ s.pc = "trigger"
      BY <1>5, <3>2, <3>3 DEF Ended, Fields
    <3> QED
      BY <1>3, <3>4
  <2> QED
    BY <1>5, <2>1, <2>2
<1>6. ASSUME NEW o, End(c, o) PROVE FALSE
  <2>1. s = Ended(r, o)
    BY <1>1, <1>2, <1>6 DEF End
  <2>2. s.pc = "done"
    BY <1>2, <2>1, EndTally
  <2> QED
    BY <1>3, <2>2
<1>7. ~LinkPool(c)
  <2> SUFFICES ASSUME LinkPool(c) PROVE FALSE
    OBVIOUS
  <2>1. (\E o : End(c, o)) \/ s = AfterLinks(r)
           \/ \E related : s = [r EXCEPT !.pc = "link", !.todo = related, !.found = related]
    BY <1>1, <1>2 DEF LinkPool
  <2>2. ASSUME NEW related, s = [r EXCEPT !.pc = "link", !.todo = related, !.found = related]
        PROVE  FALSE
    <3>1. s.pc = "link"
      BY <1>2, <2>2 DEF Fields
    <3> QED
      BY <1>3, <3>1
  <2> QED
    BY <1>2, <1>5, <1>6, <2>1, <2>2
<1>8. ~LinkRelated(c)
  <2> SUFFICES ASSUME LinkRelated(c) PROVE FALSE
    OBVIOUS
  <2>1. r.pc = "link"
    BY <1>1 DEF LinkRelated, Writing, At
  <2>2. PICK m : s = IF r.todo \ {m} = {} THEN AfterLinks([r EXCEPT !.todo = {}])
                     ELSE [r EXCEPT !.todo = r.todo \ {m}]
    BY <1>1, <1>2 DEF LinkRelated
  <2>3. PICK t, left : t = [r EXCEPT !.todo = {}] /\ left = r.todo \ {m}
    OBVIOUS
  <2>4. DOMAIN t = Fields
    BY <1>2, <2>3
  <2>5. CASE s = [r EXCEPT !.todo = left]
    <3>1. s.pc = "link"
      BY <1>2, <2>1, <2>5 DEF Fields
    <3> QED
      BY <1>3, <3>1
  <2>6. CASE s = AfterLinks(t)
    BY <1>5, <2>4, <2>6
  <2> QED
    BY <2>2, <2>3, <2>5, <2>6
<1>9. ~MatchPitfalls(c)
  <2>1. MatchPitfalls(c) => (\E o : End(c, o)) \/ \E left : s = NextTrigger(r, left)
    BY <1>1, <1>2 DEF MatchPitfalls
  <2> QED
    BY <1>2, <1>5, <1>6, <2>1
<1>10. ~TriggerPitfall(c)
  <2>1. TriggerPitfall(c) => (\E left : s = NextTrigger(r, left))
                             \/ \E p : s = [r EXCEPT !.pc = "occurrence", !.cur = p]
    BY <1>1, <1>2 DEF TriggerPitfall
  <2>2. ASSUME NEW p, s = [r EXCEPT !.pc = "occurrence", !.cur = p] PROVE FALSE
    <3>1. s.pc = "occurrence"
      BY <1>2, <2>2 DEF Fields
    <3> QED
      BY <1>3, <3>1
  <2> QED
    BY <1>2, <1>5, <2>1, <2>2
<1>11. ~CountOccurrence(c)
  <2>1. CountOccurrence(c) => \E left : s = NextTrigger(r, left)
    BY <1>1, <1>2 DEF CountOccurrence
  <2> QED
    BY <1>2, <1>5, <2>1
<1>12. SearchCandidates(c) \/ FetchCandidate(c) \/ Merge(c) \/ CreateEpisode(c)
  BY <1>1, <1>3, <1>4, <1>7, <1>8, <1>9, <1>10, <1>11 DEF EpisodeStep, TouchRead, TouchUpdate,
     LookupMemory, FeedbackUpdate, Trace, SourceRead, SourceBoost, SourceSummary, SourceTrust,
     Retire, DeleteUser, Touching, Feeding, At
<1> QED
  BY <1>12 DEF SearchCandidates, FetchCandidate, Merge, CreateEpisode, Writing, At, Creating

(* The memory a write will create, and a rule a run may create, stay       *)
(* without a count until they are there.                                   *)
LEMMA BirthStep ==
    ASSUME BaseInv, NEW c \in Calls, Ready(c), CountInv
    PROVE  BirthInv'
<1>1. /\ TypeInv /\ Step(c) /\ call'[c].op = call[c].op /\ call'[c].id = call[c].id
      /\ \A d \in Calls \ {c} : call'[d] = call[d]
  BY StepKeeps DEF Ready, Advances
<1>2. \A d \in Calls : call'[d].op = call[d].op /\ call'[d].id = call[d].id
  BY <1>1
<1>3. ASSUME NEW d \in Calls, Creating(call'[d]) PROVE Unborn(call[d].id)'
  <2>1. Creating(call[d])
    <3>1. CASE d = c
      BY <1>3, <3>1, CreatingBack
    <3>2. CASE d # c
      BY <1>1, <1>3, <3>2
    <3> QED
      BY <3>1, <3>2
  <2>2. PICK i : i = call[d].id
    OBVIOUS
  <2>3. Unborn(i) /\ i \in Episodes /\ i \in Tallied
    BY <2>1, <2>2 DEF CountInv, BirthInv, CountsOnce, Creating, Tallied
  <2>4. ~RowOf(i)'.stored
    <3>1. PICK r, s : r = call[c] /\ s = call'[c]
      OBVIOUS
    <3>2. PICK row, new : row = RowOf(i) /\ new = RowOf(i)'
      OBVIOUS
    <3>3. PICK g \in Nat, l \in {0, 1} : RowMoves(i, r, s, row, new, g, l)
      BY <2>3, <3>1, <3>2, StepOutcome DEF Outcome, EffectOf, Effect
    <3>4. ~row.stored /\ ~Holding(r, i)
      BY <2>3, <3>1, <3>2 DEF Unborn
    <3>5. ~Creates(i, r, s, row, new, g, l)
      <4> SUFFICES ASSUME Creates(i, r, s, row, new, g, l) PROVE FALSE
        OBVIOUS
      <4>1. i \notin Rules
        BY <2>3, IdsAssumption DEF IdsAssumption
      <4>2. Creating(r) /\ ~Creating(s) /\ r.id = i
        BY <4>1 DEF Creates
      <4>3. d # c
        BY <1>3, <3>1, <4>2
      <4>4. call[c].op = "write" /\ call[d].op = "write" /\ call[c].id = call[d].id
        BY <2>1, <2>2, <3>1, <4>2 DEF Creating
      <4> QED
        BY <4>3, <4>4 DEF CountInv, BirthInv
    <3> QED
      BY <3>2, <3>3, <3>4, <3>5 DEF RowMoves, Stays, Goes, Reweighs, Rewrites
  <2>5. Unborn(i)'
    BY <2>3, <2>4, UnbornStays
  <2> QED
    BY <1>2, <2>2, <2>5
<1>4. ASSUME NEW d \in Calls, NEW e \in Calls \ {d}, call'[d].op = "write", call'[e].op = "write"
      PROVE  call'[d].id # call'[e].id
  BY <1>2, <1>4 DEF CountInv, BirthInv
<1>5. ASSUME NEW q \in Rules, ~rule'[q].stored PROVE Unborn(q)'
  <2>1. ~rule[q].stored
    BY <1>1, <1>5, RowsStay, RowsAre DEF Made
  <2>2. Unborn(q)
    BY <2>1 DEF CountInv, BirthInv
  <2>3. ~RowOf(q)'.stored
    BY <1>5, RowsAre
  <2> QED
    BY <2>2, <2>3, UnbornStays DEF Tallied
<1> QED
  BY <1>3, <1>4, <1>5 DEF BirthInv

CountsOf == <<episode, rule, call, raced>>

(* A correction takes up episodes, and a write makes a memory not there.   *)
LEMMA Readying ==
    ASSUME BaseInv, CorrectionInv, CountInv, NEW c \in Calls, Step(c)
    PROVE  Ready(c)
<1>1. PICK r : r = call[c]
  OBVIOUS
<1>2. TypeInv /\ LifeInv /\ CountsOnce(r)
  BY <1>1 DEF BaseInv, CountInv
<1>3. ASSUME r.op = "feedback" PROVE Fed(r) /\ (r.pc \in LoopPcs => r.todo \subseteq Episodes)
  <2>1. Fed(r)
    BY <1>1, <1>3 DEF CorrectionInv
  <2>2. ASSUME r.pc \in LoopPcs PROVE r.todo \subseteq Episodes
    <3>1. FoundOf(r.id, r.found)
      BY <1>1, <1>3, <2>2 DEF CorrectionInv, Searched
    <3>2. r.found \subseteq SourcesOf(r.id)
      BY <3>1 DEF FoundOf
    <3>3. SourcesOf(r.id) \subseteq Episodes
      <4>1. CASE r.id \in Episodes
        BY <4>1 DEF SourcesOf
      <4>2. CASE r.id \notin Episodes
        BY <4>2 DEF SourcesOf, CorrectionInv, SourcesInv
      <4> QED
        BY <4>1, <4>2
    <3>4. r.todo \subseteq r.found
      BY <2>1, <2>2 DEF Fed
    <3> QED
      BY <3>2, <3>3, <3>4
  <2> QED
    BY <2>1, <2>2
<1>4. ASSUME Creating(r) PROVE ~episode[r.id].stored
  <2>1. r.id \in Episodes /\ Unborn(r.id)
    BY <1>1, <1>2, <1>4 DEF CountInv, BirthInv, CountsOnce, Creating
  <2> QED
    BY <2>1, RowsAre DEF Unborn
<1> QED
  BY <1>1, <1>2, <1>3, <1>4 DEF Ready

LEMMA CountStep ==
    ASSUME BaseInv, CorrectionInv, CountInv, NEW c \in Calls, Step(c)
    PROVE  CountInv'
<1>1. Ready(c)
  BY Readying
<1>2. BirthInv'
  BY <1>1, BirthStep
<1>3. \A i \in Tallied : RowCounts(i)' /\ \A d \in Calls : HandCounts(d, i)'
  BY <1>1, TallyStep
<1>4. \A d \in Calls : CountsOnce(call'[d])
  <2>1. CountsOnce(call'[c]) /\ \A d \in Calls \ {c} : call'[d] = call[d]
    BY <1>1, StepOutcome, StepKeeps DEF Outcome, Ready, Advances
  <2> QED
    BY <2>1 DEF CountInv
<1> QED
  BY <1>2, <1>3, <1>4 DEF CountInv

(* Nothing else moves the counts.                                          *)
LEMMA CountStays ==
    ASSUME CountInv, UNCHANGED CountsOf
    PROVE  CountInv'
<1>1. episode' = episode /\ rule' = rule /\ call' = call /\ raced' = raced
  BY DEF CountsOf
<1>2. \A i \in Tallied : RowOf(i)' = RowOf(i)
  BY <1>1, RowsAre DEF Tallied
<1>3. \A i : Counted(i)' = Counted(i) /\ Raises(i)' = Raises(i)
  BY <1>1, CountedIs DEF Raises
<1>4. ASSUME NEW i \in Tallied PROVE RowCounts(i)' /\ \A d \in Calls : HandCounts(d, i)'
  BY <1>1, <1>2, <1>3 DEF CountInv, RowCounts, HandCounts
<1>5. ASSUME NEW i \in Tallied, Unborn(i) PROVE Unborn(i)'
  BY <1>1, <1>2, <1>5 DEF Unborn
<1>6. BirthInv'
  <2>1. ASSUME NEW c \in Calls, Creating(call[c]) PROVE Unborn(call[c].id)'
    <3>1. PICK i : i = call[c].id
      OBVIOUS
    <3>2. i \in Tallied /\ Unborn(i)
      BY <2>1, <3>1 DEF CountInv, BirthInv, CountsOnce, Creating, Tallied
    <3>3. Unborn(i)'
      BY <1>5, <3>2
    <3> QED
      BY <1>1, <3>1, <3>3
  <2>2. \A r \in Rules : ~rule[r].stored => Unborn(r)'
    BY <1>5 DEF CountInv, BirthInv, Tallied
  <2> QED
    BY <1>1, <2>1, <2>2 DEF CountInv, BirthInv
<1> QED
  BY <1>1, <1>4, <1>6 DEF CountInv

-----------------------------------------------------------------------------
(* At the start nothing was counted, and rows are as they were stored.     *)
LEMMA CountStart == Init => CountInv
<1> SUFFICES ASSUME Init PROVE CountInv
  OBVIOUS
<1>1. PICK w \in Workloads : call = w.calls /\ episode = w.episode /\ rule = w.rule
  BY DEF Init
<1>2. \A c \in Calls : IsRequest(call[c], w)
  BY <1>1, WorkloadsAssumption DEF WorkloadsAssumption
<1>3. ASSUME NEW c \in Calls
      PROVE  /\ call[c].counted = 0 /\ call[c].raised = {} /\ call[c].updated = {}
             /\ call[c].pc \in {"start", "done"}
             /\ call[c].op \in {"touch", "retire", "write"} => call[c].id \in Episodes
             /\ call[c].op \notin {"touch", "feedback", "write", "retire"} => call[c].id \notin Tallied
  <2>1. PICK r : r = call[c]
    OBVIOUS
  <2>2. IsRequest(r, w)
    BY <1>2, <2>1
  <2>3. NoId \notin Tallied /\ Pitfalls \cap Tallied = {}
    BY IdsAssumption, CallsAssumption DEF IdsAssumption, CallsAssumption, Ids, Tallied
  <2>4. CASE r = Idle(r.op, r.id, r.arg)
    <3>1. PICK op, id, arg : r = Idle(op, id, arg)
      BY <2>4
    <3>2. r.counted = 0 /\ r.raised = {} /\ r.updated = {} /\ r.pc = "start" /\ r.outcome = "none"
      BY <3>1 DEF Idle
    <3>3. r # Ended(Idle("none", NoId, "none"), "ok")
      <4>1. Ended(Idle("none", NoId, "none"), "ok").pc = "done"
        BY DEF Ended, Idle
      <4> QED
        BY <3>2, <4>1
    <3>4. /\ r.op \in {"touch", "retire", "write"} => r.id \in Episodes
          /\ r.op \notin {"touch", "feedback", "write", "retire"} => r.id \in Pitfalls \/ r.id = NoId
      BY <2>2, <3>3 DEF IsRequest
    <3> QED
      BY <2>1, <2>3, <3>2, <3>4
  <2>5. CASE r = Ended(Idle("none", NoId, "none"), "ok")
    <3>1. /\ r.counted = 0 /\ r.raised = {} /\ r.updated = {} /\ r.pc = "done"
          /\ r.op = "none" /\ r.id = NoId
      BY <2>5 DEF Ended, Idle
    <3> QED
      BY <2>1, <2>3, <3>1
  <2> QED
    BY <2>2, <2>4, <2>5 DEF IsRequest
<1>4. \A c \in Calls : CountsOnce(call[c])
  BY <1>3 DEF CountsOnce
<1>5. \A c \in Calls : \A i : ~Holding(call[c], i)
  BY <1>3 DEF Holding, HoldsEpisode
<1>6. ASSUME NEW i PROVE Counted(i) = 0 /\ Raises(i) = 0
  BY <1>3, NothingCounted
<1>7. /\ \A m \in Episodes : episode[m].stored => episode[m].freq = Full /\ episode[m].trust = DefaultTrust
      /\ \A r \in Rules : rule[r].stored => rule[r].freq = Full
      /\ \A c \in Calls : call[c].op = "write" =>
            /\ ~episode[call[c].id].stored
            /\ \A d \in Calls \ {c} : call[d].op = "write" => call[d].id # call[c].id
  BY <1>1, CountsAssumption DEF CountsAssumption
<1>8. ASSUME NEW i \in Tallied PROVE RowCounts(i)
  <2>1. PICK row : row = RowOf(i)
    OBVIOUS
  <2>2. row.stored => row.freq = Full /\ (i \in Episodes => row.trust = DefaultTrust)
    <3>1. CASE i \in Episodes
      BY <1>7, <2>1, <3>1, RowsAre
    <3>2. CASE i \in Rules
      BY <1>7, <2>1, <3>2, RowsAre, IdsAssumption DEF IdsAssumption
    <3> QED
      BY <3>1, <3>2 DEF Tallied
  <2>3. Least(MaxTrust, DefaultTrust + 0) = DefaultTrust
    BY DEF Least, MaxTrust, DefaultTrust
  <2>4. row.stored => Within(i, row, 0, 0) /\ Exact(i, row, 0, 0)
    BY <2>2, <2>3 DEF Within, Exact, Full, DefaultTrust
  <2> QED
    BY <1>6, <2>1, <2>4 DEF RowCounts, Says
<1>9. \A i : \A c \in Calls : HandCounts(c, i)
  BY <1>5 DEF HandCounts, Would
<1>10. \A i : ~RowOf(i).stored => Unborn(i)
  BY <1>3, <1>5 DEF Unborn
<1>11. BirthInv
  <2>1. ASSUME NEW c \in Calls, Creating(call[c]) PROVE Unborn(call[c].id)
    BY <1>3, <1>7, <1>10, <2>1, RowsAre DEF Creating
  <2> QED
    BY <1>7, <1>10, <2>1, RowsAre DEF BirthInv
<1> QED
  BY <1>4, <1>8, <1>9, <1>11 DEF CountInv

LEMMA CountKeeps == BaseInv /\ CorrectionInv /\ CountInv /\ [Next]_vars => CountInv'
<1> SUFFICES ASSUME BaseInv, CorrectionInv, CountInv, [Next]_vars PROVE CountInv'
  OBVIOUS
<1>1. UNCHANGED vars \/ Expire => UNCHANGED CountsOf
  BY DEF vars, storeVars, tables, history, CountsOf, Expire, CacheExpires
<1> QED
  BY <1>1, CountStep, CountStays DEF Next, Terminated

LEMMA Counting == Spec => []CountInv
<1>1. Init /\ []BaseInv /\ []CorrectionInv /\ [][Next]_vars => []CountInv
  BY CountStart, CountKeeps, PTL
<1> QED
  BY <1>1, Basis, Correcting, PTL DEF Spec

(* On any store, for any number of touches, judgements, corrections,       *)
(* merges, retirements and deletions side by side: the frequency of an     *)
(* episode or a rule never exceeds what it was stored with plus what the   *)
(* calls counted for it, nor does the trust of an episode exceed one raise *)
(* per correction that wrote it, up to the limit; and both are exactly     *)
(* that for a memory no two calls overlapped on.                           *)
THEOREM IncrementsCounted == Spec => []IncrementsAddUp
<1>1. CountInv => IncrementsAddUp
  <2> SUFFICES ASSUME CountInv PROVE IncrementsAddUp
    OBVIOUS
  <2>1. ASSUME NEW m \in Episodes, episode[m].stored
        PROVE  /\ episode[m].freq <= Full + Counted(m)
               /\ episode[m].trust <= Least(MaxTrust, DefaultTrust + Raises(m))
               /\ m \notin raced => /\ episode[m].freq = Full + Counted(m)
                                    /\ episode[m].trust = Least(MaxTrust, DefaultTrust + Raises(m))
    <3>1. RowCounts(m) /\ RowOf(m) = episode[m]
      BY RowsAre DEF CountInv, Tallied
    <3> QED
      BY <2>1, <3>1 DEF RowCounts, Says, Within, Exact
  <2>2. ASSUME NEW r \in Rules, rule[r].stored
        PROVE  /\ rule[r].freq <= Full + Counted(r)
               /\ r \notin raced => rule[r].freq = Full + Counted(r)
    <3>1. RowCounts(r) /\ RowOf(r) = rule[r]
      BY RowsAre DEF CountInv, Tallied
    <3> QED
      BY <2>2, <3>1 DEF RowCounts, Says, Within, Exact
  <2> QED
    BY <2>1, <2>2 DEF IncrementsAddUp
<1> QED
  BY <1>1, Counting, PTL
=============================================================================
