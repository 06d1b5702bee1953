------------------------------ MODULE RuleTools -----------------------------
(***************************************************************************)
(* detect_rule_conflicts and resolve_rule_conflict.  Two active rules that *)
(* say the opposite about one subject are a pair of Contradictions (how    *)
(* the detector recognises them is data).  A record of a pair starts as    *)
(* pending; source grading settles it when the rules' trust differs, else  *)
(* a person does.  A settlement is three store calls: the loser is         *)
(* retired, an edge says by whom, the record is settled.                   *)
(***************************************************************************)
EXTENDS ToolCalls

CONSTANTS
    Contradictions    \* pairs of rules, each a set of two

ASSUME PairsAssumption ==
    \A pair \in Contradictions : \E a, b \in Rules : a # b /\ pair = {a, b}

Detecting(c, pc) == At(c, "detect", pc)
Deciding(c, pc) == call[c].op \in {"detect", "resolve"} /\ call[c].pc = pc

NewRecord(c, pair) == [id |-> <<c, pair>>, pair |-> pair, status |-> "pending", winner |-> NoId]
Loser(rec, winner) == CHOOSE r \in rec.pair : r # winner

(* The rules as they are now, retired ones included.                       *)
DetectRules(c) ==
    /\ Detecting(c, "start")
    /\ NothingStored
    /\ \/ /\ Succeeds(~KeepsConflicts)
          /\ call' = [call EXCEPT ![c].pc = "list",
                                  ![c].copy = [r \in SearchSemantic |-> rule[r]]]
       \/ Fails(~KeepsConflicts) /\ End(c, "error")

(* The pairs among the active rules of the snapshot.                       *)
Contradicting(rows) ==
    {pair \in Contradictions : pair \subseteq {r \in DOMAIN rows : ~rows[r].retired}}

(* Mutant: nothing counts as tracked.                                      *)
TrackedNone(recs) == {}

(* A pair is tracked while a record of it is pending.                      *)
Tracked(recs) == {rec.pair : rec \in {r \in recs : r.status = "pending"}}

NextPair(r) ==
    IF r.todo = {} THEN Ended(r, "ok") ELSE [r EXCEPT !.pc = "pair", !.cur = NoId]

DetectList(c) ==
    /\ Detecting(c, "list")
    /\ NothingStored
    /\ \/ /\ Succeeds(FALSE)
          /\ LET pairs == Contradicting(call[c].copy) IN
             call' = [call EXCEPT ![c] = NextPair([@ EXCEPT !.found = pairs,
                          !.todo = pairs \ Tracked(ListRuleConflicts)])]
       \/ Fails(FALSE) /\ End(c, "error")

(* Mutant: the rule with less trust wins.                                  *)
WinnerLess(rows, pair) == CHOOSE r \in pair : \A s \in pair : rows[r].trust <= rows[s].trust

(* The rule with more trust in the snapshot.                               *)
Winner(rows, pair) == CHOOSE r \in pair : \A s \in pair : rows[s].trust <= rows[r].trust

Graded(rows, pair) == \E r, s \in pair : rows[r].trust # rows[s].trust

(* With equal trust the record stays pending for a person.                 *)
SavePair(c) ==
    /\ Detecting(c, "pair")
    /\ \E pair \in call[c].todo :
       LET rec == NewRecord(c, pair)
           rows == call[c].copy
           saved == [call[c] EXCEPT !.todo = @ \ {pair}]
       IN \/ /\ Succeeds(FALSE)
             /\ SaveRuleConflict(rec)
             /\ call' = [call EXCEPT ![c] =
                   IF Graded(rows, pair)
                   THEN [saved EXCEPT !.pc = "retire", !.cur = rec, !.arg = Winner(rows, pair),
                                      !.updated = @ \cup {rec.id}]
                   ELSE NextPair(saved)]
          \/ Fails(FALSE) /\ NothingStored /\ End(c, "error")

(* A person names a record and the rule of it that shall win; whether the  *)
(* record is still pending, or the rule active, is not looked at.          *)
ResolveRead(c) ==
    /\ At(c, "resolve", "start")
    /\ NothingStored
    /\ \/ /\ Succeeds(~KeepsConflicts)
          /\ \E rec \in ListRuleConflicts : \E winner \in rec.pair :
             call' = [call EXCEPT ![c].pc = "retire", ![c].cur = rec, ![c].arg = winner,
                                  ![c].updated = {rec.id}]
       \/ Succeeds(FALSE) /\ End(c, "error")    \* no such record, or another rule
       \/ Fails(~KeepsConflicts) /\ End(c, "error")

RetireLoser(c) ==
    /\ Deciding(c, "retire")
    /\ LET loser == Loser(call[c].cur, call[c].arg) IN
       \/ /\ Succeeds(UpdateRefused(rule[loser]))
          /\ MarkSemanticObsolete(loser)
          /\ Goto(c, "edge")
       \/ Fails(UpdateRefused(rule[loser])) /\ NothingStored /\ End(c, "error")

(* That the edge fails goes unnoticed.                                     *)
LinkLoser(c) ==
    /\ Deciding(c, "edge")
    /\ \/ /\ Succeeds(FALSE)
          /\ CreateEdge(call[c].arg, Loser(call[c].cur, call[c].arg), "CONFLICTS_WITH")
       \/ Fails(FALSE) /\ NothingStored
    /\ Goto(c, "settle")

Settlement(op) == IF op = "detect" THEN "auto_resolved" ELSE "manual_resolved"

SettleRecord(c) ==
    /\ Deciding(c, "settle")
    /\ LET id == call[c].cur.id IN
       \/ /\ Succeeds(ResolveRefused(id))
          /\ ResolveRuleConflict(id, Settlement(call[c].op), call[c].arg)
          /\ call' = [call EXCEPT ![c] = NextPair(@)]
       \/ Fails(ResolveRefused(id)) /\ NothingStored /\ End(c, "error")

RuleStep(c) ==
    \/ DetectRules(c) \/ DetectList(c) \/ SavePair(c)
    \/ ResolveRead(c)
    \/ RetireLoser(c) \/ LinkLoser(c) \/ SettleRecord(c)
=============================================================================
