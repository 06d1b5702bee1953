------------------------------ MODULE CycleLog ------------------------------
(***************************************************************************)
(* What working memory promises: per project, the last summaries recorded  *)
(* since the project was last forgotten, oldest first, up to a capacity.   *)
(***************************************************************************)
EXTENDS Naturals, Sequences

CONSTANTS Projects, Summaries, Capacity

VARIABLE log   \* log[p]: the summaries of project p, oldest first

TypeOK == log \in [Projects -> Seq(Summaries)]

Latest(s) == IF Len(s) > Capacity THEN Tail(s) ELSE s

Init == log = [p \in Projects |-> <<>>]

Record(p, s) == log' = [log EXCEPT ![p] = Latest(Append(@, s))]

Forget(p) == log' = [log EXCEPT ![p] = <<>>]

Next == \E p \in Projects : Forget(p) \/ \E s \in Summaries : Record(p, s)

Spec == Init /\ [][Next]_log

(* Never more than the capacity, however long the daemon runs.             *)
Bounded == \A p \in Projects : Len(log[p]) <= Capacity
=============================================================================
