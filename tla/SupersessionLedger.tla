------------------------- MODULE SupersessionLedger -------------------------
(***************************************************************************)
(* What update tracking promises its callers, whoever keeps the promise:   *)
(* information is only added, never dropped; a memory is withdrawn from    *)
(* recall only in favour of another one that is in recall, for good, and   *)
(* at most once; the trail says which memory it was.                       *)
(***************************************************************************)
CONSTANT Memories   \* a memory is named by the information it was made for

VARIABLES
    holds,       \* holds[m]: the information in memory m; {} before it is made
    withdrawn,   \* the memories no longer recalled
    trail        \* <<m, old>>: m superseded old

vars == <<holds, withdrawn, trail>>

Recalled == {m \in Memories : holds[m] # {} /\ m \notin withdrawn}

TypeOK ==
    /\ holds \in [Memories -> SUBSET Memories]
    /\ withdrawn \in SUBSET Memories
    /\ trail \in SUBSET (Memories \X Memories)

Init ==
    /\ holds = [m \in Memories |-> {}]
    /\ withdrawn = {}
    /\ trail = {}

(* New information becomes a memory of its own or joins a recalled one.    *)
Record(i, m) ==
    /\ \A k \in Memories : i \notin holds[k]
    /\ m = i \/ m \in Recalled
    /\ holds' = [holds EXCEPT ![m] = @ \cup {i}]
    /\ UNCHANGED <<withdrawn, trail>>

Withdraw(m, old) ==
    /\ m # old
    /\ m \in Recalled /\ old \in Recalled
    /\ withdrawn' = withdrawn \cup {old}
    /\ UNCHANGED <<holds, trail>>

Explain(m, old) ==
    /\ m \in Recalled /\ old \in withdrawn
    /\ \A k \in Memories : <<k, old>> \notin trail
    /\ trail' = trail \cup {<<m, old>>}
    /\ UNCHANGED <<holds, withdrawn>>

Next == \E m, k \in Memories : Record(k, m) \/ Withdraw(m, k) \/ Explain(m, k)

Spec == Init /\ [][Next]_vars

(* As long as there is any information, some of it is recalled.            *)
SomethingRecalled == (\E m \in Memories : holds[m] # {}) => Recalled # {}
=============================================================================
