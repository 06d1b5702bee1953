---------------------------- MODULE WritePipeline ----------------------------
(***************************************************************************)
(* The write path of episodic memory and its update tracking, at the       *)
(* granularity of store calls.  A call is one WriteMemory invocation (the  *)
(* write_memory tool, sync_turn, /v1/add) or one RunUpdateTracking         *)
(* invocation (the signal_update tool).  Every method of the store holds   *)
(* the store's mutex for its own duration only, so between two store calls *)
(* of one invocation the other invocations may run: each action below is   *)
(* one store call with the pure computation around it.                     *)
(*                                                                         *)
(* Only events the significance gate lets through appear (the others touch *)
(* no store), all of one project and language.  A memory is named by the   *)
(* write that created it; its text is the set of the writes whose summary  *)
(* was appended to it.  Weights and access times are left out, and so is   *)
(* what follows the update actions on a new memory: the links to related   *)
(* memories and the push to working memory (GatedWrites) change nothing    *)
(* modelled here.                                                          *)
(***************************************************************************)
EXTENDS Integers, FiniteSets, FiniteSetsExt

CONSTANTS
    Writes,          \* WriteMemory invocations, and the memories they create
    Signals,         \* RunUpdateTracking invocations
    Events,          \* the events a caller may submit
    NoEntity,        \* the empty entity id
    NoMemory,        \* stands for "no memory chosen yet"
    SearchLimit,     \* size of the similarity pool of a write (5 in the code)
    PeerPool,        \* size of the peer pool of a signal (500 in the code)
    TicksPerSecond,  \* clock ticks per second; rows keep whole seconds
    StartTime,       \* the clock when the process starts
    SerialDispatch,  \* TRUE: one dispatch loop runs the calls one by one
    MaxFailures      \* bound on store errors and crashes

Calls == Writes \cup Signals
Polarity == {"prohibitive", "affirmative", "neutral"}

(* topic: the class of the embedding (two summaries of one topic have a    *)
(* cosine of at least 0.85); subject: the class of character bigrams (Dice *)
(* of at least 0.25); wording: the class of near-identical texts (Dice of  *)
(* at least 0.9); at: the explicit event time, 0 when the caller has none. *)
ASSUME CallsAssumption ==
    /\ Writes \cap Signals = {}
    /\ NoMemory \notin Writes
    /\ SerialDispatch \in BOOLEAN
ASSUME EventsAssumption ==
    \A e \in Events : e.at \in Nat /\ e.polarity \in Polarity
ASSUME NumbersAssumption ==
    /\ StartTime \in Nat
    /\ TicksPerSecond \in Nat \ {0}
    /\ SearchLimit \in Nat /\ PeerPool \in Nat /\ MaxFailures \in Nat

VARIABLES
    text,      \* text[m]: the writes memory m carries; {} when there is no row
    anchor,    \* anchor[m]: occurred_at of row m
    retired,   \* the rows whose obsoleted_at is set
    edges,     \* SUPERSEDED edges, each with the call that created it
    event,     \* event[w]: the argument of write w
    when,      \* when[c]: the event time call c judges with
    pc,        \* pc[c]: the next store call of c
    mergeable, \* candidates of c the pattern separation check lets merge
    covered,   \* covered[c]: the memories the judgement of c covers
    todo,      \* the covered memories ApplyUpdate has not finished
    current,   \* the covered memory between MarkObsolete and CreateEdge
    carrier,   \* the memory that carries the information of c
    copy,      \* the row c read and will write back
    clock, failures

stored == <<text, anchor, retired, edges>>
locals == <<when, mergeable, covered, todo, current, carrier, copy>>
vars == <<stored, event, pc, locals, clock, failures>>

Row == [text : SUBSET Writes, anchor : Nat, retired : BOOLEAN]
Edge == [from : Writes, to : Writes, by : Calls]
InFlight == {"fetch", "append", "create", "peers", "retire", "edge", "boost"}
Finished == {"done", "failed"}

TypeOK ==
    /\ text \in [Writes -> SUBSET Writes]
    /\ anchor \in [Writes -> Nat]
    /\ retired \in SUBSET Writes
    /\ edges \in SUBSET Edge
    /\ event \in [Writes -> Events]
    /\ when \in [Calls -> Nat]
    /\ pc \in [Calls -> {"idle"} \cup InFlight \cup Finished]
    /\ mergeable \in [Calls -> SUBSET Writes]
    /\ covered \in [Calls -> SUBSET Writes]
    /\ todo \in [Calls -> SUBSET Writes]
    /\ current \in [Calls -> Writes \cup {NoMemory}]
    /\ carrier \in [Calls -> Writes \cup {NoMemory}]
    /\ copy \in [Calls -> Row]
    /\ clock \in Nat
    /\ failures \in Nat

NoRow == [text |-> {}, anchor |-> 0, retired |-> FALSE]

Init ==
    /\ text = [m \in Writes |-> {}]
    /\ anchor = [m \in Writes |-> 0]
    /\ retired = {}
    /\ edges = {}
    /\ event \in [Writes -> Events]
    /\ when = [c \in Calls |-> 0]
    /\ pc = [c \in Calls |-> "idle"]
    /\ mergeable = [c \in Calls |-> {}]
    /\ covered = [c \in Calls |-> {}]
    /\ todo = [c \in Calls |-> {}]
    /\ current = [c \in Calls |-> NoMemory]
    /\ carrier = [c \in Calls |-> NoMemory]
    /\ copy = [c \in Calls |-> NoRow]
    /\ clock = StartTime
    /\ failures = 0

-----------------------------------------------------------------------------
(* The store.                                                              *)

Exists(m) == text[m] # {}
(* Mutant: the search forgets the obsoleted_at filter.                     *)
ActiveWithRetired == {m \in Writes : Exists(m)}

Active == {m \in Writes : Exists(m) /\ m \notin retired}

(* Mutant: a whole second is subtracted instead of the fraction.           *)
StoredTimeSecondOff(t) == t - TicksPerSecond

(* The sqlite backend formats times as RFC 3339 without fractions.         *)
StoredTime(t) == t - (t % TicksPerSecond)

(* SearchEpisodic returns the best n active rows; the ranking is free.     *)
SearchResults(n) ==
    {found \in SUBSET Active : Cardinality(found) = Min({n, Cardinality(Active)})}

(* GetEpisodic.                                                            *)
RowOf(m) == [text |-> text[m], anchor |-> anchor[m], retired |-> m \in retired]

(* WriteEpisodic replaces the whole row, obsoleted_at included.            *)
WriteEpisodic(m, row) ==
    /\ text' = [text EXCEPT ![m] = row.text]
    /\ anchor' = [anchor EXCEPT ![m] = StoredTime(row.anchor)]
    /\ retired' = IF row.retired THEN retired \cup {m} ELSE retired \ {m}

-----------------------------------------------------------------------------
(* The judgement: does a text with an entity and a time cover memory old?  *)

PolarityOf(t) ==
    IF \E w \in t : event[w].polarity = "prohibitive" THEN "prohibitive"
    ELSE IF \E w \in t : event[w].polarity = "affirmative" THEN "affirmative"
    ELSE "neutral"

Reverses(t, u) ==
    /\ PolarityOf(t) # "neutral" /\ PolarityOf(u) # "neutral"
    /\ PolarityOf(t) # PolarityOf(u)

SameSubject(t, u) == \E v \in t, w \in u : event[v].subject = event[w].subject

Wordings(t) == {event[w].wording : w \in t}

Restates(t, u) ==
    Wordings(t) \subseteq Wordings(u) \/ Wordings(u) \subseteq Wordings(t)

SameEntity(e, f) == e = NoEntity \/ f = NoEntity \/ e = f

(* Mutant: the recency guard is dropped.                                   *)
CoversAnyTime(t, entity, time, old) ==
    /\ SameEntity(entity, event[old].entity)
    /\ SameSubject(t, text[old])
    /\ Restates(t, text[old]) => Reverses(t, text[old])

Covers(t, entity, time, old) ==
    /\ SameEntity(entity, event[old].entity)
    /\ SameSubject(t, text[old])
    /\ Restates(t, text[old]) => Reverses(t, text[old])
    /\ time > anchor[old]

(* Candidates come without retired rows; a memory never covers itself.     *)
DetectUpdate(self, t, entity, time, candidates) ==
    {old \in candidates \ (retired \cup {self}) : Covers(t, entity, time, old)}

(* PatternSeparation.Check: a merged memory keeps its creator's vector.    *)
ShouldMerge(w, old) ==
    /\ event[w].topic = event[old].topic
    /\ event[w].entity = event[old].entity

-----------------------------------------------------------------------------
(* WriteMemory.                                                            *)

Turn(c) == SerialDispatch => \A d \in Calls : pc[d] \in {"idle"} \cup Finished

(* Mutant: covered candidates are not skipped.                             *)
MergeCandidatesAll(w, found, pairs) == {m \in found : ShouldMerge(w, m)}

(* After the carrier row is stored: ApplyUpdate, which skips a pair on the *)
(* carrier itself, or nothing to apply.                                    *)
NextAfterStore(pairs) == IF pairs = {} THEN "done" ELSE "retire"

(* The append loop skips the candidates the judgement covers.              *)
MergeCandidates(w, found, pairs) == {m \in found \ pairs : ShouldMerge(w, m)}

SearchAmong(w, results) ==
    LET time == IF event[w].at = 0 THEN clock + 1 ELSE event[w].at
    IN  /\ pc[w] = "idle" /\ Turn(w)
        /\ clock' = clock + 1
        /\ when' = [when EXCEPT ![w] = time]
        /\ \E found \in results :
             LET pairs == DetectUpdate(w, {w}, event[w].entity, time, found)
                 merges == MergeCandidates(w, found, pairs)
             IN  /\ covered' = [covered EXCEPT ![w] = pairs]
                 /\ todo' = [todo EXCEPT ![w] = pairs]
                 /\ mergeable' = [mergeable EXCEPT ![w] = merges]
                 /\ pc' = [pc EXCEPT ![w] = IF merges = {} THEN "create" ELSE "fetch"]
        /\ UNCHANGED <<stored, event, current, carrier, copy, failures>>

Search(w) == SearchAmong(w, SearchResults(SearchLimit))

(* The first mergeable candidate in the (free) ranking order is re-read.   *)
Fetch(w) ==
    /\ pc[w] = "fetch"
    /\ \E m \in mergeable[w] :
         /\ carrier' = [carrier EXCEPT ![w] = m]
         /\ copy' = [copy EXCEPT ![w] = RowOf(m)]
    /\ pc' = [pc EXCEPT ![w] = "append"]
    /\ UNCHANGED <<stored, event, when, mergeable, covered, todo, current, clock, failures>>

(* GetEpisodic failed: the loop goes on with the next candidate.           *)
FetchError(w) ==
    /\ pc[w] = "fetch"
    /\ failures < MaxFailures
    /\ failures' = failures + 1
    /\ \E m \in mergeable[w] :
         /\ mergeable' = [mergeable EXCEPT ![w] = @ \ {m}]
         /\ pc' = [pc EXCEPT ![w] = IF mergeable[w] = {m} THEN "create" ELSE "fetch"]
    /\ UNCHANGED <<stored, event, when, covered, todo, current, carrier, copy, clock>>

(* The story anchor only moves earlier, and only to an explicit time.      *)
MergedAnchor(w, row) ==
    IF event[w].at # 0 /\ event[w].at < row.anchor THEN event[w].at ELSE row.anchor

(* Mutant: the append clears obsoleted_at.                                 *)
MergedRowRevives(w, row) ==
    [text |-> row.text \cup {w}, anchor |-> MergedAnchor(w, row), retired |-> FALSE]

MergedRow(w, row) ==
    [text |-> row.text \cup {w}, anchor |-> MergedAnchor(w, row), retired |-> row.retired]

Append(w) ==
    /\ pc[w] = "append"
    /\ WriteEpisodic(carrier[w], MergedRow(w, copy[w]))
    /\ pc' = [pc EXCEPT ![w] = NextAfterStore(covered[w] \ {carrier[w]})]
    /\ UNCHANGED <<edges, event, locals, clock, failures>>

Create(w) ==
    /\ pc[w] = "create"
    /\ WriteEpisodic(w, [text |-> {w}, anchor |-> when[w], retired |-> FALSE])
    /\ carrier' = [carrier EXCEPT ![w] = w]
    /\ pc' = [pc EXCEPT ![w] = NextAfterStore(covered[w] \ {w})]
    /\ UNCHANGED <<edges, event, when, mergeable, covered, todo, current, copy, clock, failures>>

-----------------------------------------------------------------------------
(* RunUpdateTracking.                                                      *)

SignalFetch(s) ==
    /\ pc[s] = "idle" /\ Turn(s)
    /\ \E m \in {k \in Writes : Exists(k)} :
         /\ carrier' = [carrier EXCEPT ![s] = m]
         /\ copy' = [copy EXCEPT ![s] = RowOf(m)]
         /\ when' = [when EXCEPT ![s] = anchor[m]]
    /\ pc' = [pc EXCEPT ![s] = "peers"]
    /\ UNCHANGED <<stored, event, mergeable, covered, todo, current, clock, failures>>

SignalDetect(s) ==
    /\ pc[s] = "peers"
    /\ \E found \in SearchResults(PeerPool) :
         LET m == carrier[s]
             pairs == DetectUpdate(m, copy[s].text, event[m].entity, when[s], found)
         IN  /\ covered' = [covered EXCEPT ![s] = pairs]
             /\ todo' = [todo EXCEPT ![s] = pairs]
             /\ pc' = [pc EXCEPT ![s] = NextAfterStore(pairs \ {m})]
    /\ UNCHANGED <<stored, event, when, mergeable, current, carrier, copy, clock, failures>>

-----------------------------------------------------------------------------
(* ApplyUpdate: per covered memory MarkObsolete then CreateEdge, and last  *)
(* the weight boost of the carrier.                                        *)

MarkObsolete(c) ==
    /\ pc[c] = "retire"
    /\ \E old \in todo[c] \ {carrier[c]} :
         /\ retired' = retired \cup {old}
         /\ current' = [current EXCEPT ![c] = old]
    /\ pc' = [pc EXCEPT ![c] = "edge"]
    /\ UNCHANGED <<text, anchor, edges, event, when, mergeable, covered, todo, carrier,
                   copy, clock, failures>>

(* Mutant: the edge points from the covered memory to the carrier.         *)
SupersededEdgeReversed(c) == [from |-> current[c], to |-> carrier[c], by |-> c]

SupersededEdge(c) == [from |-> carrier[c], to |-> current[c], by |-> c]

(* Mutant: the pair loop never advances.                                   *)
PairsLeftStays(c) == todo[c]

PairsLeft(c) == todo[c] \ {current[c]}

CreateEdge(c) ==
    /\ pc[c] = "edge"
    /\ edges' = edges \cup {SupersededEdge(c)}
    /\ todo' = [todo EXCEPT ![c] = PairsLeft(c)]
    /\ pc' = [pc EXCEPT ![c] = IF PairsLeft(c) \ {carrier[c]} = {} THEN "boost" ELSE "retire"]
    /\ UNCHANGED <<text, anchor, retired, event, when, mergeable, covered, current,
                   carrier, copy, clock, failures>>

(* UpdateEpisodicWeight: changes no modelled column.                       *)
BoostCarrier(c) ==
    /\ pc[c] = "boost"
    /\ pc' = [pc EXCEPT ![c] = "done"]
    /\ UNCHANGED <<stored, event, locals, clock, failures>>

-----------------------------------------------------------------------------
(* A store call returns an error (busy, I/O, cancelled context): the call  *)
(* gives up and what it already stored stays.                              *)
Fail(c) ==
    /\ pc[c] \in InFlight \ {"fetch"}
    /\ failures < MaxFailures
    /\ failures' = failures + 1
    /\ pc' = [pc EXCEPT ![c] = "failed"]
    /\ UNCHANGED <<stored, event, locals, clock>>

(* The process dies and restarts on the same database.                     *)
Crash ==
    /\ \E c \in Calls : pc[c] \in InFlight
    /\ failures < MaxFailures
    /\ failures' = failures + 1
    /\ pc' = [c \in Calls |-> IF pc[c] \in InFlight THEN "failed" ELSE pc[c]]
    /\ UNCHANGED <<stored, event, locals, clock>>

WriteStep(w) == Search(w) \/ Fetch(w) \/ Append(w) \/ Create(w)
SignalStep(s) == SignalFetch(s) \/ SignalDetect(s)
ApplyStep(c) == MarkObsolete(c) \/ CreateEdge(c) \/ BoostCarrier(c)

(* Every call has returned.                                                *)
Quiescent ==
    /\ \A w \in Writes : pc[w] \in Finished
    /\ \A s \in Signals : pc[s] \in Finished \/ ~\E m \in Writes : Exists(m)
    /\ UNCHANGED vars

Next ==
    \/ \E w \in Writes : WriteStep(w) \/ FetchError(w)
    \/ \E s \in Signals : SignalStep(s)
    \/ \E c \in Calls : ApplyStep(c) \/ Fail(c)
    \/ Crash
    \/ Quiescent

(* A started goroutine runs on: weak fairness of each call's own steps.    *)
(* Nothing obliges a caller to start a call.                               *)
Progress(c) == pc[c] \in InFlight /\
    \/ c \in Writes /\ WriteStep(c)
    \/ c \in Signals /\ SignalStep(c)
    \/ ApplyStep(c)

Spec == Init /\ [][Next]_vars
FairSpec == Spec /\ \A c \in Calls : WF_vars(Progress(c))
-----------------------------------------------------------------------------
(* Properties that hold whatever the interleaving.                         *)

(* An update is never mixed into the memory it covers: the candidates the  *)
(* judgement retires are kept out of the append loop, and no stale row     *)
(* another call writes back brings the text of an update into them.        *)
UpdateNotMixed ==
    \A w \in Writes : \A old \in covered[w] : w \notin text[old]

(* A retired memory comes back in one way only: an append writes back the  *)
(* row it read before the retirement.  No other store call revives it, and *)
(* an append that re-reads the row after the retirement keeps it retired.  *)
RevivedOnlyByStaleAppend ==
    [][\A m \in retired \ retired' : \E w \in Writes :
          pc[w] = "append" /\ carrier[w] = m /\ ~copy[w].retired]_vars

(* A call that has begun returns.                                          *)
CallsReturn == \A c \in Calls : pc[c] \in InFlight ~> pc[c] \in Finished

(* "A retired memory is never covered again": retirement is for good.      *)
RetiredStaysRetired == [][retired \subseteq retired']_vars

-----------------------------------------------------------------------------
(* Properties of the serial dispatch loop of the provider daemon.          *)

Superseded(m) == \E e \in edges : e.to = m

(* A recorded supersession stays justified: the memory it retired happened *)
(* strictly before the event that retired it, however often rows are       *)
(* rewritten afterwards, because an append moves an anchor only earlier.   *)
SupersessionStaysJustified ==
    \A e \in edges : anchor[e.to] < when[e.by] /\ e.from # e.to

(* Every retired memory has exactly one SUPERSEDED edge that explains it,  *)
(* except the one a call is between retiring and recording or gave up on.  *)
RetirementExplained ==
    /\ \A m \in retired : Superseded(m) \/
         \E c \in Calls : current[c] = m /\ pc[c] \in {"edge", "failed"}
    /\ \A e, f \in edges : e.to = f.to => e = f

(* Where a retired memory leads: to the one that superseded it, as its     *)
(* edge records, or as a call has it that has yet to record it or broke    *)
(* off before it could.                                                    *)
Links ==
    {<<e.to, e.from>> : e \in edges} \cup
    {<<current[c], carrier[c]>> : c \in {d \in Calls : pc[d] \in {"edge", "failed"}}}

(* Memories none of which leads out of the set.                            *)
Closed(memories) == \A l \in Links : l[1] \in memories => l[2] \in memories

(* What a caller was told is persisted can be recalled: the memory that    *)
(* took it is active or leads, over the supersessions, to one that is.     *)
AcknowledgedStaysTraceable ==
    \A w \in Writes : pc[w] = "done" =>
        /\ w \in text[carrier[w]]
        /\ \A memories \in SUBSET Writes :
             carrier[w] \in memories /\ Closed(memories) => memories \cap Active # {}

(* The provider daemon keeps the promise of the supersession ledger.       *)
Ledger ==
    INSTANCE SupersessionLedger WITH
        Memories <- Writes,
        holds <- text,
        withdrawn <- retired,
        trail <- {<<e.from, e.to>> : e \in edges}
LedgerSpec == Ledger!Spec
=============================================================================
