---------------------------- MODULE EpisodeTools ----------------------------
(***************************************************************************)
(* The calls that change episodic memories after they are written, and the *)
(* HTTP write with its own merge: touch_memory and POST .../touch, POST    *)
(* .../feedback with the reconsolidation a correction triggers, POST       *)
(* /memories/episodic with LinkOnWrite, the retirement update tracking     *)
(* performs, and the deletion of a bench user.  Each action is one store   *)
(* method with the computation around it.                                  *)
(***************************************************************************)
EXTENDS ToolCalls

Touching(c, pc) == At(c, "touch", pc)

(* Mutant: the hit is counted twice.                                       *)
TouchedTwice(row) == [row EXCEPT !.weight = Full, !.freq = @ + 2 * Full]

(* The weight of one access now, and one more access.                      *)
Touched(row) == [row EXCEPT !.weight = Full, !.freq = @ + Full]

TouchRead(c) ==
    /\ Touching(c, "start")
    /\ NothingStored
    /\ LET row == episode[call[c].id] IN
       \/ /\ Succeeds(~row.stored)
          /\ call' = [call EXCEPT ![c].pc = "update", ![c].copy = row, ![c].cur = call[c].id]
       \/ Fails(~row.stored) /\ End(c, "error")

TouchUpdate(c) ==
    /\ Touching(c, "update")
    /\ LET m == call[c].id
           new == Touched(call[c].copy)
       IN \/ /\ Succeeds(UpdateRefused(episode[m]))
             /\ UpdateEpisodicWeight(m, new.weight, new.freq)
             /\ call' = [call EXCEPT ![c] = Ended([@ EXCEPT !.counted = Full], "ok")]
          \/ Fails(UpdateRefused(episode[m])) /\ NothingStored /\ End(c, "error")

-----------------------------------------------------------------------------
(* Feedback, and the correction of the sources.                            *)

Feeding(c, pc) == At(c, "feedback", pc)

RowOf(i) ==
    IF i \in Episodes THEN episode[i] ELSE IF i \in Rules THEN rule[i] ELSE pitfall[i]

(* lookupMemory asks the three tables in turn.                             *)
LookupMemory(c) ==
    /\ Feeding(c, "start")
    /\ NothingStored
    /\ LET row == RowOf(call[c].id) IN
       \/ /\ Succeeds(~row.stored)
          /\ call' = [call EXCEPT ![c].pc = "update", ![c].copy = row, ![c].cur = call[c].id]
       \/ Fails(~row.stored) /\ End(c, "error")

(* Only a correction with a detail goes on to the sources.                 *)
AfterUpdate(r, amount) ==
    IF r.arg = "corrected"
    THEN [r EXCEPT !.pc = "trace", !.copy = NoCopy, !.cur = NoId, !.counted = amount]
    ELSE Ended([r EXCEPT !.counted = amount], "ok")

FeedbackUpdate(c) ==
    /\ Feeding(c, "update")
    /\ LET i == call[c].id
           row == call[c].copy
           freq == IF i \in Pitfalls THEN Full ELSE row.freq
           new == ApplyFeedback(row.weight, freq, call[c].arg)
           worth == BehaviourDelta(call[c].arg)
       IN \/ /\ Succeeds(UpdateRefused(RowOf(i)))
             /\ \/ i \in Episodes /\ UpdateEpisodicWeight(i, new.weight, new.freq)
                \/ i \in Rules /\ UpdateSemanticWeight(i, new.weight, new.freq)
                \/ i \in Pitfalls /\ UpdatePitfallWeight(i, new.weight)
             /\ call' = [call EXCEPT ![c] = AfterUpdate(@, IF worth < 0 THEN -worth ELSE worth)]
          \/ Fails(UpdateRefused(RowOf(i))) /\ NothingStored /\ End(c, "error")

(* Mutant: the trace stops at the first source.                            *)
TracedFirst(i) ==
    LET all == {e.to : e \in GetEdges(i, "DERIVED_FROM", "outgoing")} \ {i}
    IN  IF all = {} THEN {} ELSE {CHOOSE m \in all : TRUE}

(* The memories the corrected one was derived from.                        *)
Traced(i) == {e.to : e \in GetEdges(i, "DERIVED_FROM", "outgoing")} \ {i}

(* An episode is corrected itself, a rule or pitfall through its sources.  *)
Trace(c) ==
    /\ Feeding(c, "trace")
    /\ NothingStored
    /\ LET i == call[c].id
           sources == IF i \in Episodes THEN {i} ELSE Traced(i)
       IN \/ /\ Succeeds(FALSE)
             /\ call' = [call EXCEPT ![c] =
                   IF sources = {} THEN Ended(@, "ok")
                   ELSE [@ EXCEPT !.pc = "source", !.todo = sources, !.found = sources]]
          \/ i \notin Episodes /\ Fails(FALSE) /\ End(c, "ok")

(* What is left once one source is done with: reconsolidation reports, and *)
(* the request answers OK whatever became of the sources.                  *)
NextSource(r) ==
    LET left == r.todo \ {r.cur}
        rest == [r EXCEPT !.todo = left, !.copy = NoCopy, !.cur = NoId]
    IN  IF left = {} THEN Ended(rest, "ok") ELSE [rest EXCEPT !.pc = "source"]
Skipped(r, m) == NextSource([r EXCEPT !.skipped = @ \cup {m}, !.cur = m])
FailedSource(r) == NextSource([r EXCEPT !.failed = @ \cup {r.cur}])
Corrected(r) == NextSource([r EXCEPT !.updated = @ \cup {r.cur}])
Raised(r) == Corrected([r EXCEPT !.raised = @ \cup {r.cur}])

SourceRead(c) ==
    /\ Feeding(c, "source")
    /\ NothingStored
    /\ \E m \in call[c].todo :
       \/ /\ Succeeds(~episode[m].stored)
          /\ call' = [call EXCEPT ![c].pc = "boost", ![c].copy = episode[m], ![c].cur = m]
       \/ /\ Fails(~episode[m].stored)
          /\ call' = [call EXCEPT ![c] = Skipped(@, m)]

(* Mutant: a corrected memory counts as active again.                      *)
BoostedActive(row) == [row EXCEPT !.weight = (@ * 3) \div 2, !.retired = FALSE]

(* CorrectionBoost is 1.5; the new weight is not clamped.                  *)
Boosted(row) == [row EXCEPT !.weight = (@ * 3) \div 2]

(* A user's correction raises the trust by one, up to the limit.           *)
Raisable(row) == row.trust < MaxTrust
Trusted(row) == [row EXCEPT !.trust = Least(MaxTrust, @ + 1)]

(* The copy keeps the new weight: every later write of it is a whole row.  *)
AfterBoost(r) ==
    LET boosted == [r EXCEPT !.copy = Boosted(@)] IN
    CASE r.id \in Episodes -> [boosted EXCEPT !.pc = "trust"]
      [] r.id \in Rules -> [boosted EXCEPT !.pc = "summary"]
      [] OTHER -> IF Raisable(r.copy) THEN [boosted EXCEPT !.pc = "trust"]
                  ELSE Corrected(r)

SourceBoost(c) ==
    /\ Feeding(c, "boost")
    /\ LET m == call[c].cur
           row == call[c].copy
       IN \/ /\ Succeeds(UpdateRefused(episode[m]))
             /\ UpdateEpisodicWeight(m, Boosted(row).weight, row.freq)
             /\ call' = [call EXCEPT ![c] = AfterBoost(@)]
          \/ /\ Fails(UpdateRefused(episode[m]))
             /\ NothingStored
             /\ call' = [call EXCEPT ![c] = FailedSource(@)]

(* The correction is appended to the summary of a rule's source; that the  *)
(* write fails goes unnoticed.                                             *)
SourceSummary(c) ==
    /\ Feeding(c, "summary")
    /\ LET m == call[c].cur
           row == call[c].copy
       IN /\ \/ Succeeds(WriteRefused(episode[m])) /\ WriteEpisodic(m, row)
             \/ Fails(WriteRefused(episode[m])) /\ NothingStored
          /\ call' = [call EXCEPT ![c] =
                IF Raisable(row) THEN [@ EXCEPT !.pc = "trust"] ELSE Corrected(@)]

(* So does the write that raises the trust.                                *)
SourceTrust(c) ==
    /\ Feeding(c, "trust")
    /\ LET m == call[c].cur
           row == Trusted(call[c].copy)
       IN \/ /\ Succeeds(WriteRefused(episode[m]))
             /\ WriteEpisodic(m, row)
             /\ call' = [call EXCEPT ![c] = Raised(@)]
          \/ /\ Fails(WriteRefused(episode[m]))
             /\ NothingStored
             /\ call' = [call EXCEPT ![c] = Corrected(@)]

-----------------------------------------------------------------------------
(* The HTTP write.  arg.similar are the memories whose embedding and       *)
(* context allow a merge, arg.debug is TRUE for a debug session anchored   *)
(* at the entity of the pitfalls.  Every memory of the project counts as   *)
(* related.                                                                *)

Writing(c, pc) == At(c, "write", pc)

SearchCandidates(c) ==
    /\ Writing(c, "start")
    /\ NothingStored
    /\ \/ /\ Succeeds(FALSE)
          /\ LET candidates == SearchSimilar \cap call[c].arg.similar IN
             call' = [call EXCEPT ![c].todo = candidates,
                                  ![c].pc = IF candidates = {} THEN "create" ELSE "fetch"]
       \/ Fails(FALSE) /\ End(c, "error")

FetchCandidate(c) ==
    /\ Writing(c, "fetch")
    /\ NothingStored
    /\ \E m \in call[c].todo :
       \/ /\ Succeeds(~episode[m].stored)
          /\ call' = [call EXCEPT ![c].pc = "merge", ![c].copy = episode[m], ![c].cur = m]
       \/ /\ Fails(~episode[m].stored)
          /\ LET left == call[c].todo \ {m} IN
             call' = [call EXCEPT ![c].todo = left,
                                  ![c].pc = IF left = {} THEN "create" ELSE "fetch"]

(* The weight becomes the similarity plus 0.1, clamped: close to 1.        *)
Merge(c) ==
    /\ Writing(c, "merge")
    /\ LET m == call[c].cur
           row == [call[c].copy EXCEPT !.weight = Full]
       IN \/ Succeeds(WriteRefused(episode[m])) /\ WriteEpisodic(m, row) /\ End(c, "ok")
          \/ Fails(WriteRefused(episode[m])) /\ NothingStored /\ End(c, "error")

CreateEpisode(c) ==
    /\ Writing(c, "create")
    /\ LET m == call[c].id IN
       \/ /\ Succeeds(WriteRefused(episode[m]))
          /\ WriteEpisodic(m, NewEpisode)
          /\ Goto(c, "pool")
       \/ Fails(WriteRefused(episode[m])) /\ NothingStored /\ End(c, "error")

(* LinkOnWrite: first the pool, then one edge after the other; an edge     *)
(* that fails is logged.                                                   *)
AfterLinks(r) == IF r.arg.debug THEN [r EXCEPT !.pc = "match"] ELSE Ended(r, "ok")

LinkPool(c) ==
    /\ Writing(c, "pool")
    /\ \/ /\ Succeeds(FALSE)
          /\ RememberPool
          /\ LET related == Pool \ {call[c].id} IN
             call' = [call EXCEPT ![c] =
                IF related = {} THEN AfterLinks(@)
                ELSE [@ EXCEPT !.pc = "link", !.todo = related, !.found = related]]
       \/ Fails(FALSE) /\ NothingStored /\ End(c, "ok")

LinkRelated(c) ==
    /\ Writing(c, "link")
    /\ \E m \in call[c].todo :
       /\ \/ Succeeds(FALSE) /\ CreateEdge(call[c].id, m, "RELATES_TO")
          \/ Fails(FALSE) /\ NothingStored
       /\ LET left == call[c].todo \ {m} IN
          call' = [call EXCEPT ![c] =
             IF left = {} THEN AfterLinks([@ EXCEPT !.todo = {}]) ELSE [@ EXCEPT !.todo = left]]

NextTrigger(r, left) ==
    IF left = {} THEN Ended([r EXCEPT !.todo = {}], "ok")
    ELSE [r EXCEPT !.todo = left, !.pc = "trigger", !.cur = NoId]

MatchPitfalls(c) ==
    /\ Writing(c, "match")
    /\ NothingStored
    /\ \/ Succeeds(FALSE) /\ call' = [call EXCEPT ![c] = NextTrigger(@, SearchPitfallByEntity)]
       \/ Fails(FALSE) /\ End(c, "ok")

TriggerPitfall(c) ==
    /\ Writing(c, "trigger")
    /\ \E p \in call[c].todo :
       \/ /\ Succeeds(FALSE)
          /\ CreateEdge(call[c].id, p, "TRIGGERED_PITFALL")
          /\ call' = [call EXCEPT ![c].pc = "occurrence", ![c].cur = p]
       \/ /\ Fails(FALSE)
          /\ NothingStored
          /\ call' = [call EXCEPT ![c] = NextTrigger(@, call[c].todo \ {p})]

CountOccurrence(c) ==
    /\ Writing(c, "occurrence")
    /\ LET p == call[c].cur IN
       /\ \/ Succeeds(UpdateRefused(pitfall[p])) /\ TouchPitfall(p)
          \/ Fails(UpdateRefused(pitfall[p])) /\ NothingStored
       /\ call' = [call EXCEPT ![c] = NextTrigger(@, call[c].todo \ {p})]

-----------------------------------------------------------------------------
(* The store calls of other components that the above run against.         *)

Retire(c) ==
    /\ At(c, "retire", "start")
    /\ LET m == call[c].id IN
       \/ Succeeds(UpdateRefused(episode[m])) /\ MarkObsolete(m) /\ End(c, "ok")
       \/ Fails(UpdateRefused(episode[m])) /\ NothingStored /\ End(c, "error")

(* Neo4j's store has no such method: the bench server answers with an      *)
(* error.                                                                  *)
DeleteUser(c) ==
    /\ At(c, "delete", "start")
    /\ \/ Succeeds(backend = "neo4jpg") /\ DeleteEpisodicByProject /\ End(c, "ok")
       \/ Fails(backend = "neo4jpg") /\ NothingStored /\ End(c, "error")

EpisodeStep(c) ==
    \/ TouchRead(c) \/ TouchUpdate(c)
    \/ LookupMemory(c) \/ FeedbackUpdate(c)
    \/ Trace(c) \/ SourceRead(c) \/ SourceBoost(c) \/ SourceSummary(c) \/ SourceTrust(c)
    \/ SearchCandidates(c) \/ FetchCandidate(c) \/ Merge(c) \/ CreateEpisode(c)
    \/ LinkPool(c) \/ LinkRelated(c) \/ MatchPitfalls(c) \/ TriggerPitfall(c)
    \/ CountOccurrence(c)
    \/ Retire(c) \/ DeleteUser(c)
=============================================================================
