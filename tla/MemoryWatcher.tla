---------------------------- MODULE MemoryWatcher ----------------------------
(***************************************************************************)
(* The agent memory watcher: scan cycles that import the memories other    *)
(* agents keep in files of their own, once per version of a memory.  The   *)
(* polling loop runs one cycle after the other; every sync_memories call   *)
(* runs a cycle of its own beside it.  A cycle takes the lock of the seen  *)
(* set for one look-up or one insertion at a time.                         *)
(*                                                                         *)
(* The process around it starts by restoring the dumped seen set and ends  *)
(* by App.Close (store, watcher, dump, in this order) or by a crash.  What *)
(* the adapters parse, what the refiner extracts and the edges of the new  *)
(* memory (LinkOnWrite) are left out; so are the counters a cycle reports. *)
(***************************************************************************)
EXTENDS SequencesExt

CONSTANTS
    Items,        \* versions of memories: a source URI with a content hash
    NoItem,       \* stands for no raw memory in hand
    SourceOf,     \* SourceOf[i]: the URI
    ProviderOf,   \* ProviderOf[i]: the adapter that reads the URI
    Doubtful,     \* the items the refiner may find not worth keeping
    BuiltIn,      \* the adapters the configuration enables
    Custom,       \* the adapters configure_adapter may name
    Scanners,     \* the polling loop and the handlers of sync_memories
    Loop,
    SeenMax,      \* capacity of the seen set (10000 in the code)
    DataDir,      \* whether a directory for the seen set is configured
    MaxFailures   \* bound on failed scans, failed writes and crashes

ASSUME WatcherAssumption ==
    /\ ProviderOf \in [Items -> BuiltIn \cup Custom]
    /\ BuiltIn \cap Custom = {}
    /\ Doubtful \subseteq Items
    /\ Loop \in Scanners
    /\ NoItem \notin Items
    /\ DataDir \in BOOLEAN
    /\ SeenMax \in Nat \ {0} /\ MaxFailures \in Nat

VARIABLES
    sources,    \* the versions the agents' files hold
    registry,   \* the adapters registered
    seen,       \* the seen set, least recently marked first
    dumped,     \* what watcher_seen.json holds; empty when it cannot be read
    copies,     \* copies[i][s]: the memories s stored for i, counted up to 2
    phase,      \* where the process is between its start and its exit
    pc, adapters, raws, item,   \* each cycle: next step, adapters and raw
                                \* memories left, the one being processed
    forgotten,  \* the items a crash, an eviction or an exit without a data
                \* directory took out of the seen set
    failures

cycle == <<pc, adapters, raws, item>>
vars == <<sources, registry, seen, dumped, copies, phase, cycle, forgotten, failures>>

Providers == BuiltIn \cup Custom
Phases == {"up", "store_closed", "stopped", "dumped", "down"}
Steps == {"idle", "list", "check", "mark", "write", "ended"}

TypeOK ==
    /\ sources \in SUBSET Items
    /\ registry \in SUBSET Providers
    /\ seen \in Seq(Items) /\ Len(seen) <= SeenMax
    /\ dumped \in Seq(Items) /\ Len(dumped) <= SeenMax
    /\ copies \in [Items -> [Scanners -> 0..2]]
    /\ phase \in Phases
    /\ pc \in [Scanners -> Steps]
    /\ adapters \in [Scanners -> SUBSET Providers]
    /\ raws \in [Scanners -> SUBSET Items]
    /\ item \in [Scanners -> Items \cup {NoItem}]
    /\ forgotten \in SUBSET Items
    /\ failures \in 0..MaxFailures

Init ==
    /\ sources \in SUBSET Items
    /\ \A i, j \in sources : SourceOf[i] = SourceOf[j] => i = j
    /\ registry = BuiltIn
    /\ seen = <<>>
    /\ dumped = <<>>
    /\ copies = [i \in Items |-> [s \in Scanners |-> 0]]
    /\ phase = "up"
    /\ pc = [s \in Scanners |-> "idle"]
    /\ adapters = [s \in Scanners |-> {}]
    /\ raws = [s \in Scanners |-> {}]
    /\ item = [s \in Scanners |-> NoItem]
    /\ forgotten = {}
    /\ failures = 0

-----------------------------------------------------------------------------
(* What the agents do to their files.                                      *)

(* A file is written: the version of its memory there was is gone.         *)
Publish(i) ==
    /\ i \notin sources
    /\ sources' = {j \in sources : SourceOf[j] # SourceOf[i]} \cup {i}
    /\ UNCHANGED <<registry, seen, dumped, copies, phase, cycle, forgotten, failures>>

(* configure_adapter: the registry refuses a name that is taken.           *)
Configure(p) ==
    /\ phase = "up"
    /\ p \notin registry
    /\ registry' = registry \cup {p}
    /\ UNCHANGED <<sources, seen, dumped, copies, phase, cycle, forgotten, failures>>

-----------------------------------------------------------------------------
(* A scan cycle.                                                           *)

(* Mutant: the cycle gives up an adapter's other memories after the first. *)
NextStepOfOne(left, found) == IF left # {} THEN "list" ELSE "idle"

(* The next step of a cycle with these adapters and raw memories left.     *)
NextStep(left, found) ==
    IF found # {} THEN "check" ELSE IF left # {} THEN "list" ELSE "idle"

(* The loop may find a tick and the closed stop channel ready at once and  *)
(* run a last cycle; a handler runs only while the process serves calls.   *)
Begin(s) ==
    /\ pc[s] = "idle"
    /\ phase = "up" \/ (s = Loop /\ phase # "down")
    /\ adapters' = [adapters EXCEPT ![s] = registry]
    /\ pc' = [pc EXCEPT ![s] = NextStep(registry, {})]
    /\ UNCHANGED <<sources, registry, seen, dumped, copies, phase, raws, item,
                   forgotten, failures>>

(* An adapter reads all its files every time.                              *)
ScanResult(p) == {i \in sources : ProviderOf[i] = p}

(* Adapters come in the random order of a Go map.                          *)
Scan(s) ==
    /\ pc[s] = "list"
    /\ \E p \in adapters[s] :
         LET found == ScanResult(p)
         IN  /\ adapters' = [adapters EXCEPT ![s] = @ \ {p}]
             /\ raws' = [raws EXCEPT ![s] = found]
             /\ pc' = [pc EXCEPT ![s] = NextStep(adapters[s] \ {p}, found)]
    /\ UNCHANGED <<sources, registry, seen, dumped, copies, phase, item, forgotten,
                   failures>>

(* The adapter could not read its directory: the cycle goes on.            *)
ScanFails(s) ==
    /\ pc[s] = "list"
    /\ failures < MaxFailures
    /\ failures' = failures + 1
    /\ \E p \in adapters[s] :
         /\ adapters' = [adapters EXCEPT ![s] = @ \ {p}]
         /\ pc' = [pc EXCEPT ![s] = NextStep(adapters[s] \ {p}, {})]
    /\ UNCHANGED <<sources, registry, seen, dumped, copies, phase, raws, item, forgotten>>

Seen(i) == Contains(seen, i)

Check(s) ==
    /\ pc[s] = "check"
    /\ \E i \in raws[s] :
         /\ raws' = [raws EXCEPT ![s] = @ \ {i}]
         /\ item' = [item EXCEPT ![s] = IF Seen(i) THEN NoItem ELSE i]
         /\ pc' = [pc EXCEPT ![s] =
                     IF Seen(i) THEN NextStep(adapters[s], raws[s] \ {i}) ELSE "mark"]
    /\ UNCHANGED <<sources, registry, seen, dumped, copies, phase, adapters,
                   forgotten, failures>>

(* The cache moves a key it holds to the recent end and evicts the oldest  *)
(* when it is full.                                                        *)
Overflows(i) == ~Seen(i) /\ Len(seen) = SeenMax

PlaceOf(i) == CHOOSE k \in DOMAIN seen : seen[k] = i

Kept(i) ==
    IF Seen(i) THEN RemoveAt(seen, PlaceOf(i))
    ELSE IF Overflows(i) THEN Tail(seen) ELSE seen

(* Mutant: nothing is evicted.                                             *)
MarkedBeyondCapacity(i) == Append(IF Seen(i) THEN Kept(i) ELSE seen, i)

(* Mutant: the key is looked up, never added.                              *)
MarkedNot(i) == seen

Marked(i) == Append(Kept(i), i)
Evicted(i) == IF Overflows(i) THEN {Head(seen)} ELSE {}

(* Done with the raw memory in hand.                                       *)
GoOn(s) ==
    /\ item' = [item EXCEPT ![s] = NoItem]
    /\ pc' = [pc EXCEPT ![s] = NextStep(adapters[s], raws[s])]

(* The refiner skips what the model (or, without one, the heuristic) is    *)
(* not confident about; an error of the model falls back to the heuristic. *)
MaySkip(i) == i \in Doubtful

Mark(s) ==
    /\ pc[s] = "mark"
    /\ seen' = Marked(item[s])
    /\ forgotten' = forgotten \cup Evicted(item[s])
    /\ \/ pc' = [pc EXCEPT ![s] = "write"] /\ UNCHANGED item
       \/ MaySkip(item[s]) /\ GoOn(s)
    /\ UNCHANGED <<sources, registry, dumped, copies, phase, adapters, raws, failures>>

(* Mutant: App.Close closes the store last.                                *)
StoreOpenToTheEnd == phase # "down"

StoreOpen == phase = "up"

Stored(i, s) == [copies EXCEPT ![i][s] = IF @ < 2 THEN @ + 1 ELSE @]

Write(s) ==
    /\ pc[s] = "write" /\ StoreOpen
    /\ copies' = Stored(item[s], s)
    /\ GoOn(s)
    /\ UNCHANGED <<sources, registry, seen, dumped, phase, adapters, raws, forgotten,
                   failures>>

(* A store error, or a store that is closed already: the item stays marked.*)
WriteFails(s) ==
    /\ pc[s] = "write"
    /\ StoreOpen => failures < MaxFailures
    /\ failures' = IF StoreOpen THEN failures + 1 ELSE failures
    /\ GoOn(s)
    /\ UNCHANGED <<sources, registry, seen, dumped, copies, phase, adapters, raws,
                   forgotten>>

LoopEnds ==
    /\ pc[Loop] = "idle" /\ phase \in {"stopped", "dumped"}
    /\ pc' = [pc EXCEPT ![Loop] = "ended"]
    /\ UNCHANGED <<sources, registry, seen, dumped, copies, phase, adapters, raws,
                   item, forgotten, failures>>

-----------------------------------------------------------------------------
(* The process.  App.Close does not wait for the cycles in flight.         *)

CloseStore ==
    /\ phase = "up"
    /\ phase' = "store_closed"
    /\ UNCHANGED <<sources, registry, seen, dumped, copies, cycle, forgotten, failures>>

Stop ==
    /\ phase = "store_closed"
    /\ phase' = "stopped"
    /\ UNCHANGED <<sources, registry, seen, dumped, copies, cycle, forgotten, failures>>

Dump ==
    /\ phase = "stopped"
    /\ phase' = "dumped"
    /\ dumped' = IF DataDir THEN seen ELSE dumped
    /\ UNCHANGED <<sources, registry, seen, copies, cycle, forgotten, failures>>

(* Nothing of the process is left but its files and the store.             *)
Gone ==
    /\ phase' = "down"
    /\ seen' = <<>>
    /\ registry' = {}
    /\ pc' = [s \in Scanners |-> "idle"]
    /\ adapters' = [s \in Scanners |-> {}]
    /\ raws' = [s \in Scanners |-> {}]
    /\ item' = [s \in Scanners |-> NoItem]
    /\ UNCHANGED <<sources, copies>>

Exit ==
    /\ phase = "dumped"
    /\ Gone
    /\ forgotten' = IF DataDir THEN forgotten ELSE forgotten \cup ToSet(seen)
    /\ UNCHANGED <<dumped, failures>>

(* The process dies; a dump it was writing is left unreadable.             *)
Crash ==
    /\ phase # "down"
    /\ failures < MaxFailures
    /\ failures' = failures + 1
    /\ Gone
    /\ dumped' \in {dumped} \cup IF DataDir /\ phase = "stopped" THEN {<<>>} ELSE {}
    /\ forgotten' = forgotten \cup ((ToSet(seen) \cup ToSet(dumped)) \ ToSet(dumped'))

(* The enabled adapters are registered (no start reads the files that      *)
(* configure_adapter wrote) and the seen set is restored.                  *)
Start ==
    /\ phase = "down"
    /\ phase' = "up"
    /\ registry' = BuiltIn
    /\ seen' = dumped
    /\ UNCHANGED <<sources, dumped, copies, cycle, forgotten, failures>>

CycleStep(s) == Begin(s) \/ Scan(s) \/ Check(s) \/ Mark(s) \/ Write(s) \/ WriteFails(s)

Next ==
    \/ \E i \in Items : Publish(i)
    \/ \E p \in Custom : Configure(p)
    \/ \E s \in Scanners : CycleStep(s) \/ ScanFails(s)
    \/ LoopEnds
    \/ CloseStore \/ Stop \/ Dump \/ Exit \/ Crash \/ Start

(* The ticker fires again and again, and a goroutine runs on.              *)
Spec == Init /\ [][Next]_vars
FairSpec == Spec /\ WF_vars(CycleStep(Loop))
-----------------------------------------------------------------------------
(* A scanner stores a second memory of a version only after the seen set   *)
(* lost the version to an eviction, to a crash, or to an exit without a    *)
(* data directory: marking before writing keeps a cycle from repeating     *)
(* itself, and closing the store before the dump keeps the dump complete.  *)
RepeatNeedsForgetting ==
    \A i \in Items \ forgotten : \A s \in Scanners : copies[i][s] <= 1

(* What has been stored and not been forgotten is in the seen set, and in  *)
(* the dumped one while the process is down.                               *)
StoredIsRemembered ==
    \A i \in Items \ forgotten :
        (\E s \in Scanners : copies[i][s] > 0) =>
            i \in ToSet(IF phase = "down" THEN dumped ELSE seen)

(* A version the agents' files hold is taken up, unless it is replaced or  *)
(* the process ends first.                                                 *)
EverySourceIsTakenUp ==
    \A i \in Items :
        (i \in sources /\ ProviderOf[i] \in registry)
            ~> (Seen(i) \/ i \notin sources \/ phase # "up")

(* "Add to seen set" comes after the write: what is seen, and no cycle has *)
(* in hand, has been stored or was judged not worth storing.               *)
SeenIsHandled ==
    \A i \in ToSet(seen) \ Doubtful :
        \E s \in Scanners : copies[i][s] > 0 \/ item[s] = i
=============================================================================
