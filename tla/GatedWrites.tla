---------------------------- MODULE GatedWrites ----------------------------
(***************************************************************************)
(* The significance gate and the working memory it reads.  A write takes   *)
(* the cycles of its project (under the buffer's mutex), is judged, is     *)
(* stored as a new memory or merged into one, and a new memory pushes its  *)
(* summary back into the cycles.  Between these steps other writes and the *)
(* operations that clear the cycles may run: on_session_switch(reset) of   *)
(* the provider daemon, and the two steps of DELETE in the bench server.   *)
(*                                                                         *)
(* How a write finds the memory it merges into is WritePipeline's subject; *)
(* here any similar memory of the project will do.  A summary is named by  *)
(* the write that submitted it.                                            *)
(***************************************************************************)
EXTENDS RingBuffer, FiniteSets

CONSTANTS
    Projects,
    Events,              \* the events a caller may submit
    MinCrossCycleCount,  \* 2 in the code
    MinSubsequentRefs,   \* 2 in the code
    SerialDispatch,      \* TRUE: one dispatch loop runs the calls one by one
    MaxClears            \* bound on the clear operations

Writes == Summaries

(* topic: the directions of the embedding; two summaries are similar (a    *)
(* cosine of at least 0.7) when they share one.  confirmed: by the user.   *)
(* surprising: a correction or a behaviour change.  refs: the subsequent   *)
(* references to the event.                                                *)
ASSUME GateAssumption ==
    /\ \A e \in Events : e.project \in Projects /\ e.refs \in Nat
    /\ MinCrossCycleCount \in Nat \ {0, 1}
    /\ MinSubsequentRefs \in Nat
    /\ SerialDispatch \in BOOLEAN
    /\ MaxClears \in Nat

VARIABLES
    cycles,    \* cycles[p]: the ring of project p; a new one when p has none
    rows,      \* the writes stored as memories of their own
    event,     \* event[w]: the argument of write w
    verdict,   \* verdict[w]: the gate's reason, "none" before the gate ran
    pc,        \* pc[w]: the next step of write w
    deleting,  \* the projects whose rows DELETE dropped, not yet the cycles
    bygone,    \* bygone[p]: the writes begun before p was last cleared
    clears

vars == <<cycles, rows, event, verdict, pc, deleting, bygone, clears>>

Accepting == {"user_confirmed", "cross_cycle_persistence", "prediction_error",
              "subsequent_reference"}
InFlight == {"persist", "push"}
Steps == {"idle"} \cup InFlight \cup {"rejected", "merged", "pushed", "failed"}

TypeOK ==
    /\ cycles \in [Projects -> Ring]
    /\ rows \in SUBSET Writes
    /\ event \in [Writes -> Events]
    /\ verdict \in [Writes -> Accepting \cup {"none", "below_threshold"}]
    /\ pc \in [Writes -> Steps]
    /\ deleting \in SUBSET Projects
    /\ bygone \in [Projects -> SUBSET Writes]
    /\ clears \in Nat

Init ==
    /\ cycles = [p \in Projects |-> NewRing]
    /\ rows = {}
    /\ event \in [Writes -> Events]
    /\ verdict = [w \in Writes |-> "none"]
    /\ pc = [w \in Writes |-> "idle"]
    /\ deleting = {}
    /\ bygone = [p \in Projects |-> {}]
    /\ clears = 0

-----------------------------------------------------------------------------
Similar(w, u) == event[w].topic \cap event[u].topic # {}

(* Every cycle counts for itself, the ones of one memory included.         *)
RecentCycles(w, seen) == Cardinality({i \in DOMAIN seen : Similar(w, seen[i])})

(* The first condition that holds is the reason.                           *)
Evaluate(w, seen) ==
    IF event[w].confirmed THEN "user_confirmed"
    ELSE IF RecentCycles(w, seen) >= MinCrossCycleCount THEN "cross_cycle_persistence"
    ELSE IF event[w].surprising THEN "prediction_error"
    ELSE IF event[w].refs >= MinSubsequentRefs THEN "subsequent_reference"
    ELSE "below_threshold"

ProjectOf(w) == event[w].project
Turn == SerialDispatch => \A u \in Writes : pc[u] \notin InFlight

(* Mutant: an event that was not persisted is remembered as a cycle.       *)
AfterGatePushes(reason) == IF reason \in Accepting THEN "persist" ELSE "push"

(* Where a judged write goes.                                              *)
AfterGate(reason) == IF reason \in Accepting THEN "persist" ELSE "rejected"

Gate(w) ==
    LET reason == Evaluate(w, GetAll(cycles[ProjectOf(w)]))
    IN  /\ pc[w] = "idle" /\ Turn
        /\ verdict' = [verdict EXCEPT ![w] = reason]
        /\ pc' = [pc EXCEPT ![w] = AfterGate(reason)]
        /\ UNCHANGED <<cycles, rows, event, deleting, bygone, clears>>

Merge(w) ==
    /\ pc[w] = "persist"
    /\ \E u \in rows : ProjectOf(u) = ProjectOf(w) /\ Similar(w, u)
    /\ pc' = [pc EXCEPT ![w] = "merged"]
    /\ UNCHANGED <<cycles, rows, event, verdict, deleting, bygone, clears>>

Create(w) ==
    /\ pc[w] = "persist"
    /\ rows' = rows \cup {w}
    /\ pc' = [pc EXCEPT ![w] = "push"]
    /\ UNCHANGED <<cycles, event, verdict, deleting, bygone, clears>>

(* The embedder, the search or the row's write failed; or, once the row is *)
(* stored, an update action that WritePipeline models.                     *)
Fail(w) ==
    /\ pc[w] \in InFlight
    /\ pc' = [pc EXCEPT ![w] = "failed"]
    /\ UNCHANGED <<cycles, rows, event, verdict, deleting, bygone, clears>>

PushCycle(w) ==
    /\ pc[w] = "push"
    /\ cycles' = [cycles EXCEPT ![ProjectOf(w)] = Push(@, w)]
    /\ pc' = [pc EXCEPT ![w] = "pushed"]
    /\ UNCHANGED <<rows, event, verdict, deleting, bygone, clears>>

-----------------------------------------------------------------------------
Begun == {w \in Writes : pc[w] # "idle"}

(* Mutant: the cycles outlive the conversation.                            *)
EmptiedNot(p) == cycles[p]

Emptied(p) == NewRing

Clear(p) ==
    /\ cycles' = [cycles EXCEPT ![p] = Emptied(p)]
    /\ bygone' = [bygone EXCEPT ![p] = Begun]

(* on_session_switch with reset, of the single-threaded provider daemon.   *)
ResetSession(p) ==
    /\ SerialDispatch /\ Turn
    /\ clears < MaxClears
    /\ clears' = clears + 1
    /\ Clear(p)
    /\ UNCHANGED <<rows, event, verdict, pc, deleting>>

(* DELETE of a user in the bench server: the rows first, then the cycles.  *)
DeleteRows(p) ==
    /\ ~SerialDispatch
    /\ clears < MaxClears
    /\ clears' = clears + 1
    /\ rows' = {w \in rows : ProjectOf(w) # p}
    /\ deleting' = deleting \cup {p}
    /\ UNCHANGED <<cycles, event, verdict, pc, bygone>>

DeleteCycles(p) ==
    /\ p \in deleting
    /\ Clear(p)
    /\ deleting' = deleting \ {p}
    /\ UNCHANGED <<rows, event, verdict, pc, clears>>

Idle ==
    /\ \A w \in Writes : pc[w] \notin {"idle"} \cup InFlight
    /\ UNCHANGED vars

Next ==
    \/ \E w \in Writes : Gate(w) \/ Merge(w) \/ Create(w) \/ Fail(w) \/ PushCycle(w)
    \/ \E p \in Projects : ResetSession(p) \/ DeleteRows(p) \/ DeleteCycles(p)
    \/ Idle

Spec == Init /\ [][Next]_vars
-----------------------------------------------------------------------------
Marked(w) ==
    \/ event[w].confirmed
    \/ event[w].surprising
    \/ event[w].refs >= MinSubsequentRefs

(* Repetition alone never makes a memory.  Only accepted summaries become  *)
(* cycles, so behind every write the cross-cycle condition let through     *)
(* there are two writes of its project that were accepted for a mark of    *)
(* their own, however many unmarked ones came in between.                  *)
RepetitionAloneNeverPersists ==
    \A w \in Writes : verdict[w] = "cross_cycle_persistence" =>
        \E u, v \in Writes :
            /\ u # v
            /\ \A x \in {u, v} :
                 Marked(x) /\ pc[x] = "pushed" /\ ProjectOf(x) = ProjectOf(w)

(* A fresh conversation starts with fresh cycles: no summary of a write    *)
(* that had begun before the project was cleared is in the ring.           *)
ClearedStaysFresh ==
    \A p \in Projects : \A i \in 1..cycles[p].size :
        GetAll(cycles[p])[i] \notin bygone[p]

(* The ring keeps the promise of the bounded log.                          *)
Log ==
    INSTANCE CycleLog WITH
        Capacity <- MaxSize,
        log <- [p \in Projects |-> GetAll(cycles[p])]
LogSpec == Log!Spec
=============================================================================
