---------------------------- MODULE PitfallTools ----------------------------
(***************************************************************************)
(* The calls of the pitfall workbench: confirm_pitfall, suppress_pitfall,  *)
(* feedback_pitfall, link_pitfall_entity, and prepare_edit_context, which  *)
(* shows pitfalls before an edit (the tool and the daemon's method of that *)
(* name do the same with the store).                                       *)
(***************************************************************************)
EXTENDS ToolCalls

OnPitfall(c, op, pc) == At(c, op, pc) /\ call[c].id \in Pitfalls

(* A tool that is one update of the row, whose error is the answer.        *)
SingleUpdate(c, update) ==
    LET p == call[c].id IN
    \/ Succeeds(UpdateRefused(pitfall[p])) /\ update /\ End(c, "ok")
    \/ Fails(UpdateRefused(pitfall[p])) /\ NothingStored /\ End(c, "error")

ConfirmPitfall(c) ==
    /\ OnPitfall(c, "confirm", "start")
    /\ SingleUpdate(c, UpdatePitfallStatus(call[c].id, "confirmed"))

FeedbackPitfall(c) ==
    /\ OnPitfall(c, "rate", "start")
    /\ SingleUpdate(c, ApplyPitfallFeedback(call[c].id, call[c].arg))

SuppressStatus(c) ==
    /\ OnPitfall(c, "suppress", "start")
    /\ LET p == call[c].id IN
       \/ /\ Succeeds(UpdateRefused(pitfall[p]))
          /\ UpdatePitfallStatus(p, "suppressed")
          /\ Goto(c, "count")
       \/ Fails(UpdateRefused(pitfall[p])) /\ NothingStored /\ End(c, "error")

(* An uncounted suppression is answered with an error, but stands.         *)
SuppressCount(c) ==
    /\ OnPitfall(c, "suppress", "count")
    /\ LET p == call[c].id IN
       \/ /\ Succeeds(UpdateRefused(pitfall[p]))
          /\ AddPitfallCounters(p, 0, 1)
          /\ call' = [call EXCEPT ![c].pc = "weaken", ![c].counted = 1]
       \/ Fails(UpdateRefused(pitfall[p])) /\ NothingStored /\ End(c, "error")

(* That the weight drops as well is best effort.                           *)
SuppressWeaken(c) ==
    /\ OnPitfall(c, "suppress", "weaken")
    /\ LET p == call[c].id IN
       \/ Succeeds(UpdateRefused(pitfall[p])) /\ ApplyPitfallFeedback(p, "ignored")
       \/ Fails(UpdateRefused(pitfall[p])) /\ NothingStored
    /\ End(c, "ok")

LinkRead(c) ==
    /\ OnPitfall(c, "link", "start")
    /\ NothingStored
    /\ LET row == pitfall[call[c].id] IN
       \/ /\ Succeeds(~row.stored)
          /\ call' = [call EXCEPT ![c].pc = "write", ![c].copy = row, ![c].cur = call[c].id]
       \/ Fails(~row.stored) /\ End(c, "error")

Reanchored(row) == [row EXCEPT !.moved = TRUE]

LinkWrite(c) ==
    /\ OnPitfall(c, "link", "write")
    /\ LET p == call[c].id IN
       \/ /\ Succeeds(WriteRefused(pitfall[p]))
          /\ WritePitfall(p, Reanchored(call[c].copy))
          /\ End(c, "ok")
       \/ Fails(WriteRefused(pitfall[p])) /\ NothingStored /\ End(c, "error")

(* At most three pitfalls are shown, those that match the files; here all  *)
(* of them do.  The episodes shown along are only read.                    *)
ShowLimit == 3
MinShownWeight == 10

PrepareSearch(c) ==
    /\ At(c, "prepare", "start")
    /\ NothingStored
    /\ LET pool == {p \in SearchPitfall(MinShownWeight) : Injectable(pitfall[p])} IN
       \/ /\ Succeeds(FALSE)
          /\ \E shown \in SUBSET pool :
             /\ Cardinality(shown) = Least(ShowLimit, Cardinality(pool))
             /\ call' = [call EXCEPT ![c] =
                   IF shown = {} THEN Ended(@, "ok")
                   ELSE [@ EXCEPT !.pc = "count", !.todo = shown, !.found = shown]]
       \/ Fails(FALSE) /\ End(c, "error")

(* The counters are best effort.                                           *)
PrepareCount(c) ==
    /\ At(c, "prepare", "count")
    /\ \E p \in call[c].todo :
       LET left == call[c].todo \ {p}
           counted == [call[c] EXCEPT !.todo = left]
       IN /\ \/ Succeeds(UpdateRefused(pitfall[p])) /\ AddPitfallCounters(p, 1, 0)
             \/ Fails(UpdateRefused(pitfall[p])) /\ NothingStored
          /\ call' = [call EXCEPT ![c] = IF left = {} THEN Ended(counted, "ok") ELSE counted]

PitfallStep(c) ==
    \/ ConfirmPitfall(c) \/ FeedbackPitfall(c)
    \/ SuppressStatus(c) \/ SuppressCount(c) \/ SuppressWeaken(c)
    \/ LinkRead(c) \/ LinkWrite(c)
    \/ PrepareSearch(c) \/ PrepareCount(c)
=============================================================================
