------------------------ MODULE WritePipelineProofs ------------------------
(***************************************************************************)
(* Theorems about WritePipeline for every set of calls, every event set,   *)
(* and any interleaving.                                                   *)
(***************************************************************************)
EXTENDS WritePipeline, TLAPS

-----------------------------------------------------------------------------
(* Dropping the fraction of a second keeps a time a natural number and     *)
(* never moves it later (the store's time formatting).                     *)
LEMMA StoredTimeBounds ==
    ASSUME NEW t \in Nat
    PROVE  StoredTime(t) \in Nat /\ StoredTime(t) <= t
<1>1. t % TicksPerSecond \in Nat /\ t % TicksPerSecond <= t
  BY NumbersAssumption
<1> QED BY <1>1 DEF StoredTime

-----------------------------------------------------------------------------
(* Type correctness.                                                       *)

(* Writing a well-formed row keeps the episodic table well-formed.         *)
LEMMA WriteEpisodicType ==
    ASSUME TypeOK, NEW m \in Writes, NEW row \in Row, WriteEpisodic(m, row)
    PROVE  /\ text' \in [Writes -> SUBSET Writes]
           /\ anchor' \in [Writes -> Nat]
           /\ retired' \in SUBSET Writes
<1>1. StoredTime(row.anchor) \in Nat
  BY StoredTimeBounds DEF Row
<1> QED BY <1>1 DEF TypeOK, WriteEpisodic, Row

(* A stored row, read back, is a row.                                      *)
LEMMA RowOfType ==
    ASSUME TypeOK, NEW m \in Writes
    PROVE  RowOf(m) \in Row
BY DEF TypeOK, RowOf, Row

(* A search returns active rows, and a judgement some of its candidates,   *)
(* the judging memory excepted.                                            *)
LEMMA SearchAndDetect ==
    /\ \A n : \A found \in SearchResults(n) : found \subseteq Active /\ found \subseteq Writes
    /\ \A self, t, entity, time, found :
          /\ DetectUpdate(self, t, entity, time, found) \subseteq found
          /\ self \notin DetectUpdate(self, t, entity, time, found)
BY DEF SearchResults, Active, DetectUpdate

(* The call records what its next store call needs: the carrier from the   *)
(* fetch on, and the covered memory between its retirement and its edge.   *)
ChoicesMade ==
    \A c \in Calls :
        /\ pc[c] \in {"append", "peers", "retire", "edge", "boost"} => carrier[c] \in Writes
        /\ pc[c] = "edge" => current[c] \in Writes

TypeInv == TypeOK /\ ChoicesMade

LEMMA InitType == Init => TypeInv
BY NumbersAssumption
   DEF Init, TypeInv, TypeOK, ChoicesMade, NoRow, Row, Calls, InFlight, Finished

LEMMA SearchType ==
    ASSUME TypeInv, NEW w \in Writes, NEW results, \A found \in results : found \subseteq Writes,
           SearchAmong(w, results)
    PROVE  TypeInv'
<1> DEFINE time == IF event[w].at = 0 THEN clock + 1 ELSE event[w].at
<1>1. time \in Nat
  BY EventsAssumption DEF TypeInv, TypeOK
<1>2. PICK found \in results :
        LET pairs == DetectUpdate(w, {w}, event[w].entity, time, found)
            merges == MergeCandidates(w, found, pairs)
        IN  /\ covered' = [covered EXCEPT ![w] = pairs]
            /\ todo' = [todo EXCEPT ![w] = pairs]
            /\ mergeable' = [mergeable EXCEPT ![w] = merges]
            /\ pc' = [pc EXCEPT ![w] = IF merges = {} THEN "create" ELSE "fetch"]
  BY DEF SearchAmong
<1> DEFINE pairs == DetectUpdate(w, {w}, event[w].entity, time, found)
           merges == MergeCandidates(w, found, pairs)
<1>3. found \subseteq Writes /\ pairs \subseteq Writes /\ merges \subseteq Writes
  BY SearchAndDetect DEF MergeCandidates
<1>4. /\ UNCHANGED <<text, anchor, retired, edges, event, current, carrier, copy, failures>>
      /\ clock' = clock + 1
      /\ when' = [when EXCEPT ![w] = time]
  BY DEF SearchAmong, stored
<1>5. /\ covered' = [covered EXCEPT ![w] = pairs]
      /\ todo' = [todo EXCEPT ![w] = pairs]
      /\ mergeable' = [mergeable EXCEPT ![w] = merges]
      /\ pc' = [pc EXCEPT ![w] = IF merges = {} THEN "create" ELSE "fetch"]
  BY <1>2
<1> HIDE DEF time, pairs, merges
<1>6. TypeOK'
  BY <1>1, <1>3, <1>4, <1>5 DEF TypeInv, TypeOK, Calls, InFlight, Finished
<1>7. ChoicesMade'
  BY <1>4, <1>5 DEF TypeInv, TypeOK, ChoicesMade, Calls
<1> QED BY <1>6, <1>7 DEF TypeInv

LEMMA WriteStepType ==
    ASSUME TypeInv, NEW w \in Writes, WriteStep(w) \/ FetchError(w)
    PROVE  TypeInv'
<1> USE DEF TypeInv, Calls, InFlight, Finished
<1>1. CASE Search(w)
  BY <1>1, SearchAndDetect, SearchType DEF Search
<1>2. CASE Fetch(w)
  <2>1. PICK m \in Writes : /\ carrier' = [carrier EXCEPT ![w] = m]
                            /\ copy' = [copy EXCEPT ![w] = RowOf(m)]
    BY <1>2 DEF Fetch, TypeOK
  <2>2. RowOf(m) \in Row
    BY RowOfType
  <2> QED BY <1>2, <2>1, <2>2 DEF TypeOK, ChoicesMade, Fetch, stored
<1>3. CASE FetchError(w)
  BY <1>3 DEF TypeOK, ChoicesMade, FetchError, stored
<1>4. CASE Append(w)
  <2> DEFINE row == MergedRow(w, copy[w])
  <2>1. MergedAnchor(w, copy[w]) \in Nat
    BY EventsAssumption DEF TypeOK, MergedAnchor, Row
  <2>2. row \in Row
    BY <2>1 DEF TypeOK, Row, MergedRow
  <2>3. carrier[w] \in Writes /\ WriteEpisodic(carrier[w], row)
    BY <1>4 DEF Append, ChoicesMade
  <2>4. /\ text' \in [Writes -> SUBSET Writes]
        /\ anchor' \in [Writes -> Nat]
        /\ retired' \in SUBSET Writes
    BY <2>2, <2>3, WriteEpisodicType
  <2> QED BY <1>4, <2>3, <2>4 DEF TypeOK, ChoicesMade, Append, locals, NextAfterStore
<1>5. CASE Create(w)
  <2> DEFINE row == [text |-> {w}, anchor |-> when[w], retired |-> FALSE]
  <2>1. row \in Row
    BY DEF TypeOK, Row
  <2>2. /\ text' \in [Writes -> SUBSET Writes]
        /\ anchor' \in [Writes -> Nat]
        /\ retired' \in SUBSET Writes
    BY <1>5, <2>1, WriteEpisodicType DEF Create
  <2> QED BY <1>5, <2>2 DEF TypeOK, ChoicesMade, Create, NextAfterStore
<1> QED BY <1>1, <1>2, <1>3, <1>4, <1>5 DEF WriteStep

LEMMA SignalStepType ==
    ASSUME TypeInv, NEW s \in Signals, SignalStep(s)
    PROVE  TypeInv'
<1> USE DEF TypeInv, Calls, InFlight, Finished
<1>1. CASE SignalFetch(s)
  <2>1. PICK m \in Writes : /\ carrier' = [carrier EXCEPT ![s] = m]
                            /\ copy' = [copy EXCEPT ![s] = RowOf(m)]
                            /\ when' = [when EXCEPT ![s] = anchor[m]]
    BY <1>1 DEF SignalFetch
  <2>2. RowOf(m) \in Row
    BY RowOfType
  <2> QED BY <1>1, <2>1, <2>2 DEF TypeOK, ChoicesMade, SignalFetch, stored
<1>2. CASE SignalDetect(s)
  <2>1. PICK found \in SearchResults(PeerPool) :
          LET pairs == DetectUpdate(carrier[s], copy[s].text, event[carrier[s]].entity,
                                    when[s], found)
          IN  /\ covered' = [covered EXCEPT ![s] = pairs]
              /\ todo' = [todo EXCEPT ![s] = pairs]
              /\ pc' = [pc EXCEPT ![s] = NextAfterStore(pairs \ {carrier[s]})]
    BY <1>2 DEF SignalDetect
  <2> DEFINE pairs == DetectUpdate(carrier[s], copy[s].text, event[carrier[s]].entity,
                                   when[s], found)
  <2>2. pairs \subseteq Writes
    BY SearchAndDetect
  <2> HIDE DEF pairs
  <2>3. /\ covered' = [covered EXCEPT ![s] = pairs]
        /\ todo' = [todo EXCEPT ![s] = pairs]
        /\ pc' = [pc EXCEPT ![s] = NextAfterStore(pairs \ {carrier[s]})]
    BY <2>1 DEF pairs
  <2>4. carrier[s] \in Writes
    BY <1>2 DEF SignalDetect, ChoicesMade
  <2> QED BY <1>2, <2>2, <2>3, <2>4
          DEF TypeOK, ChoicesMade, SignalDetect, stored, NextAfterStore
<1> QED BY <1>1, <1>2 DEF SignalStep

LEMMA ApplyStepType ==
    ASSUME TypeInv, NEW c \in Calls, ApplyStep(c) \/ Fail(c)
    PROVE  TypeInv'
<1> USE DEF TypeInv, InFlight, Finished
<1>1. CASE MarkObsolete(c)
  BY <1>1 DEF TypeOK, ChoicesMade, MarkObsolete
<1>2. CASE CreateEdge(c)
  BY <1>2 DEF TypeOK, ChoicesMade, CreateEdge, SupersededEdge, PairsLeft, Edge
<1>3. CASE BoostCarrier(c)
  BY <1>3 DEF TypeOK, ChoicesMade, BoostCarrier, stored, locals
<1>4. CASE Fail(c)
  BY <1>4 DEF TypeOK, ChoicesMade, Fail, stored, locals
<1> QED BY <1>1, <1>2, <1>3, <1>4 DEF ApplyStep

LEMMA CrashType == TypeInv /\ Crash => TypeInv'
BY DEF TypeInv, TypeOK, ChoicesMade, Crash, stored, locals, InFlight, Finished

LEMMA StutterType == TypeInv /\ UNCHANGED vars => TypeInv'
BY DEF TypeInv, TypeOK, ChoicesMade, vars, stored, locals

LEMMA NextType == TypeInv /\ [Next]_vars => TypeInv'
BY WriteStepType, SignalStepType, ApplyStepType, CrashType, StutterType DEF Next, Quiescent

(* The state of the store and of every call is well-formed in every        *)
(* reachable state.                                                        *)
THEOREM TypeCorrect == Spec => []TypeOK
<1>1. TypeInv => TypeOK
  BY DEF TypeInv
<1> QED BY <1>1, InitType, NextType, PTL DEF Spec

-----------------------------------------------------------------------------
(* No update is mixed into the memory it covers.  The property alone is    *)
(* not inductive: it holds because the summary of a write enters one row   *)
(* only, its carrier, and is nowhere, neither in a row nor in a row some   *)
(* other call is about to write back, before the carrier is stored.        *)

Unstored == {"idle", "fetch", "append", "create"}

(* The summary of write w is in memory m, and w will choose no other.      *)
Settled(w, m) == carrier[w] = m /\ pc[w] \notin Unstored

RowsSettled == \A m \in Writes : \A w \in text[m] : Settled(w, m)

CopiesSettled ==
    \A c \in Writes : pc[c] = "append" => \A w \in copy[c].text : Settled(w, carrier[c])

CarrierApart ==
    \A w \in Writes :
        /\ pc[w] = "idle" => carrier[w] = NoMemory
        /\ mergeable[w] \cap covered[w] = {}
        /\ w \notin covered[w]
        /\ carrier[w] \notin covered[w]

MixInv == TypeInv /\ RowsSettled /\ CopiesSettled /\ CarrierApart

(* What is settled stays settled: a call never goes back to choosing.      *)
LEMMA SettledStays ==
    ASSUME TypeInv, [Next]_vars, NEW w \in Writes, NEW m, Settled(w, m)
    PROVE  Settled(w, m)'
<1> USE DEF TypeInv, TypeOK, Settled, Unstored, Calls, InFlight, Finished
<1>1. ASSUME NEW v \in Writes, WriteStep(v) \/ FetchError(v)
      PROVE  Settled(w, m)'
  <2>1. CASE Search(v)
    BY <2>1 DEF Search, SearchAmong
  <2>2. CASE Fetch(v)
    BY <2>2 DEF Fetch
  <2>3. CASE FetchError(v)
    BY <2>3 DEF FetchError
  <2>4. CASE Append(v)
    BY <2>4 DEF Append, locals, NextAfterStore
  <2>5. CASE Create(v)
    BY <2>5 DEF Create, NextAfterStore
  <2> QED BY <1>1, <2>1, <2>2, <2>3, <2>4, <2>5 DEF WriteStep
<1>2. ASSUME NEW s \in Signals, SignalStep(s)
      PROVE  Settled(w, m)'
  BY <1>2, CallsAssumption DEF SignalStep, SignalFetch, SignalDetect, NextAfterStore
<1>3. ASSUME NEW c \in Calls, ApplyStep(c) \/ Fail(c)
      PROVE  Settled(w, m)'
  BY <1>3 DEF ApplyStep, Fail, MarkObsolete, CreateEdge, BoostCarrier, locals
<1>4. CASE Crash
  BY <1>4 DEF Crash, locals
<1>5. CASE UNCHANGED vars
  BY <1>5 DEF vars, locals
<1> QED BY <1>1, <1>2, <1>3, <1>4, <1>5 DEF Next, Quiescent

LEMMA InitMix == Init => MixInv
BY InitType, CallsAssumption DEF Init, MixInv, RowsSettled, CopiesSettled, CarrierApart, Calls

(* Only an append and a creation put a summary into a row, and both settle *)
(* it there.                                                               *)
LEMMA RowsStaySettled ==
    ASSUME MixInv, [Next]_vars
    PROVE  RowsSettled'
<1> USE DEF MixInv, TypeInv, TypeOK
<1> SUFFICES ASSUME NEW m \in Writes, NEW w \in text'[m]
             PROVE  Settled(w, m)'
  BY DEF RowsSettled
<1>1. CASE w \in text[m]
  <2>1. w \in Writes /\ Settled(w, m)
    BY <1>1 DEF RowsSettled
  <2> QED BY <2>1, SettledStays
<1>2. ASSUME NEW v \in Writes, Append(v), w \notin text[m]
      PROVE  Settled(w, m)'
  <2>1. carrier[v] \in Writes
    BY <1>2 DEF Append, ChoicesMade, Calls
  <2>2. m = carrier[v] /\ w \in copy[v].text \cup {v}
    BY <1>2, <2>1 DEF Append, WriteEpisodic, MergedRow
  <2>3. CASE w = v
    BY <1>2, <2>2, <2>3 DEF Append, locals, NextAfterStore, Settled, Unstored, Calls
  <2>4. CASE w \in copy[v].text
    <3>1. w \in Writes /\ Settled(w, m)
      BY <1>2, <2>2, <2>4 DEF CopiesSettled, Append, Calls, Row
    <3> QED BY <3>1, SettledStays
  <2> QED BY <2>2, <2>3, <2>4
<1>3. ASSUME NEW v \in Writes, Create(v), w \notin text[m]
      PROVE  Settled(w, m)'
  <2>1. m = v /\ w = v
    BY <1>3 DEF Create, WriteEpisodic
  <2> QED BY <1>3, <2>1 DEF Create, NextAfterStore, Settled, Unstored, Calls
<1>4. CASE UNCHANGED text
  BY <1>1, <1>4
<1>5. ASSUME NEW v \in Writes, Search(v) \/ Fetch(v) \/ FetchError(v)
      PROVE  UNCHANGED text
  BY <1>5 DEF Search, SearchAmong, Fetch, FetchError, stored
<1>6. ASSUME NEW s \in Signals, SignalStep(s)
      PROVE  UNCHANGED text
  BY <1>6 DEF SignalStep, SignalFetch, SignalDetect, stored
<1>7. ASSUME NEW c \in Calls, ApplyStep(c) \/ Fail(c)
      PROVE  UNCHANGED text
  BY <1>7 DEF ApplyStep, Fail, MarkObsolete, CreateEdge, BoostCarrier, stored
<1>8. Crash \/ Quiescent \/ UNCHANGED vars => UNCHANGED text
  BY DEF Crash, Quiescent, vars, stored
<1> QED BY <1>1, <1>2, <1>3, <1>4, <1>5, <1>6, <1>7, <1>8 DEF Next, WriteStep

(* The row a call holds was read from the store, where all is settled.     *)
LEMMA CopiesStaySettled ==
    ASSUME MixInv, [Next]_vars
    PROVE  CopiesSettled'
<1> USE DEF MixInv, TypeInv, TypeOK
<1> SUFFICES ASSUME NEW c \in Writes, pc'[c] = "append", NEW w \in copy'[c].text
             PROVE  Settled(w, carrier[c])'
  BY DEF CopiesSettled
<1>1. CASE Fetch(c)
  <2>1. PICK m \in Writes : /\ carrier' = [carrier EXCEPT ![c] = m]
                            /\ copy' = [copy EXCEPT ![c] = RowOf(m)]
    BY <1>1 DEF Fetch, Calls
  <2>2. carrier'[c] = m /\ w \in text[m]
    BY <2>1 DEF RowOf, Calls
  <2>3. w \in Writes /\ Settled(w, m)
    BY <2>2 DEF RowsSettled
  <2> QED BY <2>2, <2>3, SettledStays DEF Settled
<1>2. CASE ~Fetch(c)
  <2> DEFINE Kept == pc[c] = "append" /\ copy'[c] = copy[c] /\ carrier'[c] = carrier[c]
  <2>1. Kept
    <3> USE <1>2 DEF Calls, NextAfterStore, locals
    <3>1. ASSUME NEW v \in Writes, WriteStep(v) \/ FetchError(v)
          PROVE  Kept
      BY <3>1 DEF WriteStep, Search, SearchAmong, Fetch, FetchError, Append, Create
    <3>2. ASSUME NEW s \in Signals, SignalStep(s)
          PROVE  Kept
      BY <3>2, CallsAssumption DEF SignalStep, SignalFetch, SignalDetect
    <3>3. ASSUME NEW d \in Calls, ApplyStep(d) \/ Fail(d)
          PROVE  Kept
      BY <3>3 DEF ApplyStep, Fail, MarkObsolete, CreateEdge, BoostCarrier
    <3>4. CASE Crash
      BY <3>4 DEF Crash, InFlight
    <3>5. CASE UNCHANGED vars
      BY <3>5 DEF vars
    <3> QED BY <3>1, <3>2, <3>3, <3>4, <3>5 DEF Next, Quiescent
  <2>2. w \in Writes /\ Settled(w, carrier[c])
    BY <2>1 DEF CopiesSettled, Row, Calls
  <2> QED BY <2>1, <2>2, SettledStays DEF Settled
<1> QED BY <1>1, <1>2

(* A write judges before it chooses its carrier, and chooses it among the  *)
(* candidates the judgement left or makes it new.                          *)
LEMMA CarrierStaysApart ==
    ASSUME MixInv, [Next]_vars
    PROVE  CarrierApart'
<1> USE DEF MixInv, TypeInv, TypeOK, CarrierApart, Calls, NextAfterStore, locals
<1> SUFFICES ASSUME NEW w \in Writes
             PROVE  /\ pc'[w] = "idle" => carrier'[w] = NoMemory
                    /\ mergeable'[w] \cap covered'[w] = {}
                    /\ w \notin covered'[w]
                    /\ carrier'[w] \notin covered'[w]
  BY DEF CarrierApart
<1> DEFINE Kept == /\ pc'[w] = "idle" => carrier'[w] = NoMemory
                   /\ mergeable'[w] \cap covered'[w] = {}
                   /\ w \notin covered'[w]
                   /\ carrier'[w] \notin covered'[w]
<1>1. CASE Search(w)
  <2>1. PICK found \in SearchResults(SearchLimit) :
          LET pairs == DetectUpdate(w, {w}, event[w].entity, when'[w], found)
              merges == MergeCandidates(w, found, pairs)
          IN  /\ covered' = [covered EXCEPT ![w] = pairs]
              /\ mergeable' = [mergeable EXCEPT ![w] = merges]
              /\ pc' = [pc EXCEPT ![w] = IF merges = {} THEN "create" ELSE "fetch"]
    BY <1>1 DEF Search, SearchAmong
  <2> DEFINE pairs == DetectUpdate(w, {w}, event[w].entity, when'[w], found)
             merges == MergeCandidates(w, found, pairs)
  <2>2. pairs \subseteq Writes /\ w \notin pairs /\ merges \cap pairs = {}
    BY SearchAndDetect DEF MergeCandidates
  <2>3. /\ covered' = [covered EXCEPT ![w] = pairs]
        /\ mergeable' = [mergeable EXCEPT ![w] = merges]
        /\ pc' = [pc EXCEPT ![w] = IF merges = {} THEN "create" ELSE "fetch"]
    BY <2>1
  <2> HIDE DEF pairs, merges
  <2>4. carrier[w] = NoMemory /\ UNCHANGED carrier
    BY <1>1 DEF Search, SearchAmong
  <2> QED BY <2>2, <2>3, <2>4, CallsAssumption
<1>2. CASE Fetch(w)
  BY <1>2 DEF Fetch
<1>3. CASE FetchError(w)
  BY <1>3 DEF FetchError
<1>4. CASE Create(w)
  BY <1>4 DEF Create
<1>5. ASSUME NEW v \in Writes, v # w, WriteStep(v) \/ FetchError(v)
      PROVE  Kept
  BY <1>5 DEF WriteStep, Search, SearchAmong, Fetch, FetchError, Append, Create
<1>6. CASE Append(w)
  BY <1>6 DEF Append
<1>7. ASSUME NEW s \in Signals, SignalStep(s)
      PROVE  Kept
  BY <1>7, CallsAssumption DEF SignalStep, SignalFetch, SignalDetect
<1>8. ASSUME NEW c \in Calls, ApplyStep(c) \/ Fail(c)
      PROVE  Kept
  BY <1>8 DEF ApplyStep, Fail, MarkObsolete, CreateEdge, BoostCarrier
<1>9. CASE Crash
  BY <1>9 DEF Crash
<1>10. CASE UNCHANGED vars
  BY <1>10 DEF vars
<1> HIDE DEF MixInv, TypeInv, TypeOK, CarrierApart, Calls, NextAfterStore, locals
<1> QED BY <1>1, <1>2, <1>3, <1>4, <1>5, <1>6, <1>7, <1>8, <1>9, <1>10
        DEF Next, Quiescent, WriteStep

(* Whatever calls interleave, fail or die, the text of an update is never  *)
(* found in a memory that the update covers (the covered map of the append *)
(* loop of WriteMemory).                                                   *)
THEOREM UpdateNeverMixed == Spec => []UpdateNotMixed
<1>1. MixInv /\ [Next]_vars => MixInv'
  BY NextType, RowsStaySettled, CopiesStaySettled, CarrierStaysApart DEF MixInv
<1>2. MixInv => UpdateNotMixed
  <2> SUFFICES ASSUME MixInv, NEW w \in Writes, NEW old \in covered[w], w \in text[old]
               PROVE  FALSE
    BY DEF UpdateNotMixed
  <2>1. old \in Writes
    BY DEF MixInv, TypeInv, TypeOK, Calls
  <2>2. carrier[w] = old
    BY <2>1 DEF MixInv, RowsSettled, Settled
  <2> QED BY <2>2 DEF MixInv, CarrierApart
<1> QED BY <1>1, <1>2, InitMix, PTL DEF Spec

(* A summary is in at most one row: nothing is recalled twice.             *)
THEOREM SummaryInOneMemory ==
    Spec => [](\A m, k \in Writes : text[m] \cap text[k] # {} => m = k)
<1>1. MixInv /\ [Next]_vars => MixInv'
  BY NextType, RowsStaySettled, CopiesStaySettled, CarrierStaysApart DEF MixInv
<1>2. MixInv => \A m, k \in Writes : text[m] \cap text[k] # {} => m = k
  BY DEF MixInv, RowsSettled, Settled
<1> QED BY <1>1, <1>2, InitMix, PTL DEF Spec

-----------------------------------------------------------------------------
(* Retirement is undone by a stale append only.  A creation writes a row   *)
(* that is not retired, so this needs that what is retired has a row and   *)
(* that a write that has not stored its summary has none.                  *)

HaveRows(memories) == \A m \in memories : Exists(m)

ReviveInv ==
    /\ TypeInv
    /\ HaveRows(retired)
    /\ \A c \in Calls : HaveRows(mergeable[c]) /\ HaveRows(todo[c])
    /\ \A w \in Writes : pc[w] = "append" => Exists(carrier[w])
    /\ \A w \in Writes : pc[w] \in Unstored => ~Exists(w)

LEMMA InitRows == Init => ReviveInv
BY InitType DEF Init, ReviveInv, HaveRows, Exists, Calls

(* No step removes a row.                                                  *)
LEMMA RowsStay ==
    ASSUME ReviveInv, [Next]_vars, NEW m \in Writes, Exists(m)
    PROVE  Exists(m)'
<1> USE DEF ReviveInv, TypeInv, TypeOK, Exists
<1>1. CASE UNCHANGED text
  BY <1>1
<1>2. ASSUME NEW w \in Writes, Append(w)
      PROVE  Exists(m)'
  BY <1>2 DEF Append, WriteEpisodic, MergedRow
<1>3. ASSUME NEW w \in Writes, Create(w)
      PROVE  Exists(m)'
  BY <1>3 DEF Create, WriteEpisodic
<1>4. ASSUME NEW w \in Writes, Search(w) \/ Fetch(w) \/ FetchError(w)
      PROVE  UNCHANGED text
  BY <1>4 DEF Search, SearchAmong, Fetch, FetchError, stored
<1>5. ASSUME NEW s \in Signals, SignalStep(s)
      PROVE  UNCHANGED text
  BY <1>5 DEF SignalStep, SignalFetch, SignalDetect, stored
<1>6. ASSUME NEW c \in Calls, ApplyStep(c) \/ Fail(c)
      PROVE  UNCHANGED text
  BY <1>6 DEF ApplyStep, Fail, MarkObsolete, CreateEdge, BoostCarrier, stored
<1>7. Crash \/ Quiescent \/ UNCHANGED vars => UNCHANGED text
  BY DEF Crash, Quiescent, vars, stored
<1> HIDE DEF ReviveInv, TypeInv, TypeOK, Exists
<1> QED BY <1>1, <1>2, <1>3, <1>4, <1>5, <1>6, <1>7 DEF Next, WriteStep

(* A row appears by the creation of its write; a call that chooses its     *)
(* carrier or its pairs chooses them among rows.                           *)
LEMMA RowsStep ==
    ASSUME ReviveInv, [Next]_vars
    PROVE  ReviveInv'
<1> USE DEF Calls
<1>0. TypeInv /\ TypeOK /\ ChoicesMade /\ TypeInv'
  BY NextType DEF ReviveInv, TypeInv
<1>1. \A m \in Writes : Exists(m) => Exists(m)'
  BY RowsStay
<1>2. retired \subseteq Writes /\ \A c \in Calls : mergeable[c] \subseteq Writes /\ todo[c] \subseteq Writes
  BY <1>0 DEF TypeOK
<1> DEFINE Grown == /\ retired' \subseteq {m \in Writes : Exists(m)'}
                    /\ \A c \in Calls : /\ mergeable'[c] \subseteq {m \in Writes : Exists(m)'}
                                        /\ todo'[c] \subseteq {m \in Writes : Exists(m)'}
                    /\ \A w \in Writes : pc'[w] = "append" => Exists(carrier[w])'
                    /\ \A w \in Writes : pc'[w] \in Unstored => text'[w] = {}
<1>3. SUFFICES Grown
  BY <1>0 DEF ReviveInv, HaveRows, Exists
<1> USE <1>0, <1>1, <1>2 DEF ReviveInv, HaveRows, TypeOK
<1>4. ASSUME NEW w \in Writes, Search(w)
      PROVE  Grown
  <2>1. PICK found \in SearchResults(SearchLimit) :
          LET pairs == DetectUpdate(w, {w}, event[w].entity, when'[w], found)
              merges == MergeCandidates(w, found, pairs)
          IN  /\ todo' = [todo EXCEPT ![w] = pairs]
              /\ mergeable' = [mergeable EXCEPT ![w] = merges]
              /\ pc' = [pc EXCEPT ![w] = IF merges = {} THEN "create" ELSE "fetch"]
    BY <1>4 DEF Search, SearchAmong
  <2> DEFINE pairs == DetectUpdate(w, {w}, event[w].entity, when'[w], found)
             merges == MergeCandidates(w, found, pairs)
  <2>2. pairs \subseteq found /\ merges \subseteq found
    BY SearchAndDetect DEF MergeCandidates
  <2>3. found \subseteq {m \in Writes : Exists(m)}
    BY DEF SearchResults, Active
  <2>4. /\ todo' = [todo EXCEPT ![w] = pairs]
        /\ mergeable' = [mergeable EXCEPT ![w] = merges]
        /\ pc' = [pc EXCEPT ![w] = IF merges = {} THEN "create" ELSE "fetch"]
    BY <2>1
  <2> HIDE DEF pairs, merges
  <2>5. pc[w] = "idle" /\ UNCHANGED <<text, retired, carrier>>
    BY <1>4 DEF Search, SearchAmong, stored
  <2> QED BY <2>2, <2>3, <2>4, <2>5 DEF Unstored, Exists
<1>5. ASSUME NEW w \in Writes, Fetch(w)
      PROVE  Grown
  <2>1. PICK m \in mergeable[w] : carrier' = [carrier EXCEPT ![w] = m]
    BY <1>5 DEF Fetch
  <2>2. /\ pc[w] = "fetch" /\ pc' = [pc EXCEPT ![w] = "append"]
        /\ UNCHANGED <<text, retired, mergeable, todo>>
    BY <1>5 DEF Fetch, stored
  <2> QED BY <2>1, <2>2 DEF Unstored, Exists
<1>6. ASSUME NEW w \in Writes, FetchError(w)
      PROVE  Grown
  BY <1>6 DEF FetchError, stored, Unstored, Exists
<1>7. ASSUME NEW w \in Writes, Append(w)
      PROVE  Grown
  <2>1. /\ pc[w] = "append" /\ carrier[w] \in Writes
        /\ text' = [text EXCEPT ![carrier[w]] = copy[w].text \cup {w}]
        /\ retired' \subseteq retired \cup {carrier[w]}
        /\ \E s \in {"done", "retire"} : pc' = [pc EXCEPT ![w] = s]
        /\ UNCHANGED <<mergeable, todo, carrier>>
    BY <1>7 DEF Append, WriteEpisodic, MergedRow, ChoicesMade, NextAfterStore, locals
  <2>2. Exists(carrier[w]) /\ Exists(carrier[w])'
    BY <2>1
  <2>3. retired' \subseteq {m \in Writes : Exists(m)'}
    BY <2>1, <2>2
  <2>4. \A c \in Calls : /\ mergeable'[c] \subseteq {m \in Writes : Exists(m)'}
                        /\ todo'[c] \subseteq {m \in Writes : Exists(m)'}
    BY <2>1
  <2>5. \A v \in Writes : /\ pc'[v] = "append" => pc[v] = "append"
                         /\ pc'[v] \in Unstored => pc[v] \in Unstored
    BY <2>1 DEF Unstored
  <2>6. \A v \in Writes : pc'[v] = "append" => Exists(carrier[v])'
    BY <2>1, <2>5 DEF ChoicesMade
  <2>7. \A v \in Writes : pc'[v] \in Unstored => text'[v] = {}
    BY <2>1, <2>2, <2>5 DEF Exists
  <2> QED BY <2>3, <2>4, <2>6, <2>7
<1>8. ASSUME NEW w \in Writes, Create(w)
      PROVE  Grown
  <2>1. /\ pc[w] = "create"
        /\ text' = [text EXCEPT ![w] = {w}]
        /\ retired' \subseteq retired
        /\ \E s \in {"done", "retire"} : pc' = [pc EXCEPT ![w] = s]
        /\ carrier' = [carrier EXCEPT ![w] = w]
        /\ UNCHANGED <<mergeable, todo>>
    BY <1>8 DEF Create, WriteEpisodic, NextAfterStore
  <2> QED BY <2>1 DEF Unstored, Exists
<1>9. ASSUME NEW s \in Signals, SignalFetch(s)
      PROVE  Grown
  BY <1>9, CallsAssumption DEF SignalFetch, stored, Exists
<1>10. ASSUME NEW s \in Signals, SignalDetect(s)
       PROVE  Grown
  <2>1. PICK found \in SearchResults(PeerPool) :
          LET pairs == DetectUpdate(carrier[s], copy[s].text, event[carrier[s]].entity,
                                    when[s], found)
          IN  /\ todo' = [todo EXCEPT ![s] = pairs]
              /\ pc' = [pc EXCEPT ![s] = NextAfterStore(pairs \ {carrier[s]})]
    BY <1>10 DEF SignalDetect
  <2> DEFINE pairs == DetectUpdate(carrier[s], copy[s].text, event[carrier[s]].entity,
                                   when[s], found)
  <2>2. pairs \subseteq found
    BY SearchAndDetect
  <2>3. found \subseteq {m \in Writes : Exists(m)}
    BY DEF SearchResults, Active
  <2>4. /\ todo' = [todo EXCEPT ![s] = pairs]
        /\ \A w \in Writes : pc'[w] = pc[w]
        /\ UNCHANGED <<text, retired, mergeable, carrier>>
    <3>1. todo' = [todo EXCEPT ![s] = pairs]
      BY <2>1
    <3>2. PICK state : pc' = [pc EXCEPT ![s] = state]
      BY <2>1
    <3>3. \A w \in Writes : pc'[w] = pc[w]
      BY <3>2, CallsAssumption
    <3>4. UNCHANGED <<text, retired, mergeable, carrier>>
      BY <1>10 DEF SignalDetect, stored
    <3> HIDE DEF pairs
    <3> QED BY <3>1, <3>3, <3>4
  <2> HIDE DEF pairs
  <2>5. \A v \in Writes : pc[v] = "append" => carrier[v] \in Writes
    BY DEF ChoicesMade
  <2>6. \A c \in Calls : /\ mergeable'[c] \subseteq {m \in Writes : Exists(m)'}
                        /\ todo'[c] \subseteq {m \in Writes : Exists(m)'}
    <3>1. pairs \subseteq {m \in Writes : Exists(m)'}
      BY <2>2, <2>3
    <3>2. \A c \in Calls : todo'[c] = todo[c] \/ todo'[c] = pairs
      BY <2>4
    <3> QED BY <2>4, <3>1, <3>2
  <2>8. \A v \in Writes : pc'[v] = "append" => Exists(carrier[v])'
    BY <2>4, <2>5
  <2>9. \A v \in Writes : pc'[v] \in Unstored => text'[v] = {}
    BY <2>4 DEF Exists
  <2>10. retired' \subseteq {m \in Writes : Exists(m)'}
    BY <2>4
  <2> QED BY <2>6, <2>8, <2>9, <2>10
<1>11. ASSUME NEW c \in Calls, ApplyStep(c) \/ Fail(c)
       PROVE  Grown
  <2>1. /\ pc[c] \in InFlight \ {"fetch"}
        /\ \E s \in {"retire", "edge", "boost", "done", "failed"} : pc' = [pc EXCEPT ![c] = s]
        /\ retired' \subseteq retired \cup todo[c]
        /\ todo'[c] \subseteq todo[c] /\ \A d \in Calls : d # c => todo'[d] = todo[d]
        /\ UNCHANGED <<text, mergeable, carrier>>
    BY <1>11 DEF ApplyStep, Fail, MarkObsolete, CreateEdge, BoostCarrier, PairsLeft, InFlight,
                 stored, locals
  <2> QED BY <2>1 DEF Unstored, Exists, InFlight
<1>12. CASE Crash
  BY <1>12 DEF Crash, stored, locals, Unstored, Exists, InFlight
<1>13. CASE UNCHANGED vars
  BY <1>13 DEF vars, stored, locals, Exists
<1> HIDE DEF Grown, ReviveInv, HaveRows, TypeOK, Calls
<1> QED BY <1>4, <1>5, <1>6, <1>7, <1>8, <1>9, <1>10, <1>11, <1>12, <1>13
        DEF Next, Quiescent, WriteStep, SignalStep

(* No store call revives a retired memory but an append that read the row  *)
(* before the retirement (the full-row WriteEpisodic of the merge path).   *)
THEOREM OnlyStaleAppendsRevive == Spec => RevivedOnlyByStaleAppend
<1> DEFINE Revival == \A m \in retired \ retired' : \E w \in Writes :
                         pc[w] = "append" /\ carrier[w] = m /\ ~copy[w].retired
<1>1. ASSUME ReviveInv, [Next]_vars
      PROVE  Revival
  <2> SUFFICES ASSUME NEW m \in retired, m \notin retired'
               PROVE  \E w \in Writes : pc[w] = "append" /\ carrier[w] = m /\ ~copy[w].retired
    OBVIOUS
  <2>1. ASSUME NEW w \in Writes, Append(w)
        PROVE  pc[w] = "append" /\ carrier[w] = m /\ ~copy[w].retired
    BY <2>1 DEF Append, WriteEpisodic, MergedRow
  <2>2. ASSUME NEW w \in Writes, Create(w)
        PROVE  FALSE
    <3>1. m = w /\ pc[w] = "create"
      BY <2>2 DEF Create, WriteEpisodic
    <3> QED BY <1>1, <3>1 DEF ReviveInv, HaveRows, Unstored
  <2>3. ASSUME NEW w \in Writes, Search(w) \/ Fetch(w) \/ FetchError(w)
        PROVE  FALSE
    BY <2>3 DEF Search, SearchAmong, Fetch, FetchError, stored
  <2>4. ASSUME NEW s \in Signals, SignalStep(s)
        PROVE  FALSE
    BY <2>4 DEF SignalStep, SignalFetch, SignalDetect, stored
  <2>5. ASSUME NEW c \in Calls, ApplyStep(c) \/ Fail(c)
        PROVE  FALSE
    BY <2>5 DEF ApplyStep, Fail, MarkObsolete, CreateEdge, BoostCarrier, stored
  <2>6. ~(Crash \/ Quiescent \/ UNCHANGED vars)
    BY DEF Crash, Quiescent, vars, stored
  <2> QED BY <1>1, <2>1, <2>2, <2>3, <2>4, <2>5, <2>6 DEF Next, WriteStep
<1>2. ReviveInv /\ [Next]_vars => ReviveInv' /\ [Revival]_vars
  BY <1>1, RowsStep
<1> QED BY <1>2, InitRows, PTL DEF Spec, RevivedOnlyByStaleAppend

-----------------------------------------------------------------------------
(* With one dispatch loop no other call runs between two store calls of    *)
(* one call, so a row is written back as it is in the store, with an       *)
(* earlier anchor at most, and what a call judged stays as it judged it.   *)

OneAtATime == \A c, d \in Calls : pc[c] \in InFlight /\ pc[d] \in InFlight => c = d

CopiesCurrent ==
    \A w \in Writes : pc[w] = "append" =>
        /\ copy[w].anchor = anchor[carrier[w]]
        /\ copy[w].retired <=> carrier[w] \in retired

JudgedEarlier ==
    \A c \in Calls :
        /\ pc[c] \in {"idle", "peers"} => covered[c] = {}
        /\ todo[c] \subseteq covered[c]
        /\ \A old \in covered[c] : Exists(old) /\ anchor[old] < when[c]

EdgesJudged ==
    \A e \in edges : e.to \in covered[e.by] /\ e.from # e.to /\ e.to \in retired

(* The covered memories a call has yet to retire or to record.             *)
PairsPending ==
    \A c \in Calls :
        /\ pc[c] \in InFlight \ {"edge"} => todo[c] \cap retired = {}
        /\ pc[c] = "edge" =>
             /\ todo[c] \cap retired \subseteq {current[c]}
             /\ current[c] \in covered[c] \cap retired /\ current[c] # carrier[c]
             /\ \A e \in edges : e.to # current[c]

SerialInv ==
    /\ ReviveInv
    /\ OneAtATime /\ CopiesCurrent /\ JudgedEarlier /\ EdgesJudged /\ PairsPending
    /\ RetirementExplained

LEMMA InitSerial == Init => SerialInv
<1> SUFFICES ASSUME Init PROVE SerialInv
  OBVIOUS
<1>1. ReviveInv
  BY InitRows
<1>2. OneAtATime /\ CopiesCurrent /\ JudgedEarlier /\ EdgesJudged /\ PairsPending
  BY DEF Init, OneAtATime, CopiesCurrent, JudgedEarlier, EdgesJudged, PairsPending, Calls,
         InFlight
<1>3. RetirementExplained
  BY DEF Init, RetirementExplained
<1> QED BY <1>1, <1>2, <1>3 DEF SerialInv

(* The call that steps is the only one that runs.                          *)
LEMMA OthersRest ==
    ASSUME SerialDispatch, SerialInv, NEW c \in Calls, pc[c] \in InFlight \/ Turn(c)
    PROVE  \A d \in Calls : d # c => pc[d] \notin InFlight
<1>1. CASE pc[c] \in InFlight
  BY <1>1 DEF SerialInv, OneAtATime
<1>2. CASE Turn(c)
  BY <1>2 DEF Turn, InFlight, Finished
<1> QED BY <1>1, <1>2

(* A step of call c that changes no table and no judgement.                *)
Local(c) ==
    /\ \E s \in InFlight \cup Finished : pc' = [pc EXCEPT ![c] = s] /\ s \notin {"edge", "peers"}
    /\ pc[c] \in InFlight
    /\ pc[c] = "edge" => pc'[c] = "failed"
    /\ UNCHANGED <<anchor, retired, edges, when, covered, todo, current>>

LEMMA LocalKeeps ==
    ASSUME SerialDispatch, SerialInv, ReviveInv', NEW c \in Calls, Local(c),
           \A m \in Writes : Exists(m) => Exists(m)',
           \A w \in Writes : pc'[w] = "append" =>
              /\ copy'[w].anchor = anchor[carrier'[w]]
              /\ copy'[w].retired <=> carrier'[w] \in retired
    PROVE  SerialInv'
<1>1. \A d \in Calls : d # c => pc[d] \notin InFlight
  BY OthersRest DEF Local
<1>2. PICK s \in InFlight \cup Finished : pc' = [pc EXCEPT ![c] = s] /\ s \notin {"edge", "peers"}
  BY DEF Local
<1>3. pc'[c] = s /\ \A d \in Calls : d # c => pc'[d] = pc[d]
  BY <1>2 DEF SerialInv, ReviveInv, TypeInv, TypeOK
<1>4. UNCHANGED <<anchor, retired, edges, when, covered, todo, current>>
  BY DEF Local
<1>5. OneAtATime'
  BY <1>1, <1>3 DEF OneAtATime
<1>6. CopiesCurrent'
  BY <1>4 DEF CopiesCurrent
<1>7. JudgedEarlier'
  <2>1. \A d \in Calls : covered[d] \subseteq Writes
    BY DEF SerialInv, ReviveInv, TypeInv, TypeOK
  <2> QED BY <1>2, <1>3, <1>4, <2>1 DEF SerialInv, JudgedEarlier, InFlight, Finished
<1>8. EdgesJudged'
  BY <1>4 DEF SerialInv, EdgesJudged
<1>9. PairsPending'
  BY <1>1, <1>2, <1>3, <1>4 DEF SerialInv, PairsPending, Local, InFlight, Finished
<1>10. RetirementExplained'
  <2>1. \A d \in Calls : pc[d] \in {"edge", "failed"} => pc'[d] \in {"edge", "failed"}
    BY <1>3 DEF Local, InFlight
  <2> QED BY <1>4, <2>1 DEF SerialInv, RetirementExplained, Superseded
<1> QED BY <1>5, <1>6, <1>7, <1>8, <1>9, <1>10 DEF SerialInv

(* A judgement: it covers active memories of an earlier time.              *)
LEMMA JudgementKeeps ==
    ASSUME SerialDispatch, SerialInv, ReviveInv', NEW c \in Calls,
           (pc[c] = "idle" /\ Turn(c)) \/ pc[c] = "peers",
           NEW pairs \in SUBSET Active, \A old \in pairs : anchor[old] < when'[c],
           NEW s \in InFlight \cup Finished, s \notin {"edge", "append"},
           s = "peers" => pairs = {},
           pc' = [pc EXCEPT ![c] = s],
           covered' = [covered EXCEPT ![c] = pairs],
           todo' = [todo EXCEPT ![c] = pairs],
           \A d \in Calls : d # c => when'[d] = when[d],
           UNCHANGED <<stored, current>>,
           \A w \in Writes : w # c => UNCHANGED <<carrier[w], copy[w]>>
    PROVE  SerialInv'
<1>1. \A d \in Calls : d # c => pc[d] \notin InFlight
  BY OthersRest DEF InFlight
<1>2. /\ pc'[c] = s /\ covered'[c] = pairs /\ todo'[c] = pairs
      /\ \A d \in Calls : d # c => pc'[d] = pc[d] /\ covered'[d] = covered[d] /\ todo'[d] = todo[d]
  BY DEF SerialInv, ReviveInv, TypeInv, TypeOK
<1>3. UNCHANGED <<text, anchor, retired, edges, current>>
  BY DEF stored
<1>4. covered[c] = {}
  BY DEF SerialInv, JudgedEarlier
<1>5. OneAtATime'
  BY <1>1, <1>2 DEF OneAtATime
<1>6. CopiesCurrent'
  BY <1>1, <1>2 DEF CopiesCurrent, InFlight, Calls
<1>7. JudgedEarlier'
  BY <1>2, <1>3 DEF SerialInv, JudgedEarlier, Active, Exists, InFlight, Finished
<1>8. EdgesJudged'
  <2>1. \A e \in edges : e.by \in Calls
    BY DEF SerialInv, ReviveInv, TypeInv, TypeOK, Edge
  <2> QED BY <1>2, <1>3, <1>4, <2>1 DEF SerialInv, EdgesJudged
<1>9. PairsPending'
  BY <1>1, <1>2, <1>3 DEF SerialInv, PairsPending, Active, InFlight
<1>10. RetirementExplained'
  <2>1. \A d \in Calls : pc[d] \in {"edge", "failed"} => pc'[d] \in {"edge", "failed"}
    BY <1>2
  <2> QED BY <1>3, <2>1 DEF SerialInv, RetirementExplained, Superseded
<1> QED BY <1>5, <1>6, <1>7, <1>8, <1>9, <1>10 DEF SerialInv

(* A row is stored: no anchor of a covered memory moves later, and no      *)
(* memory is retired or revived.                                           *)
LEMMA StoreKeeps ==
    ASSUME SerialDispatch, SerialInv, ReviveInv', NEW w \in Writes, pc[w] \in {"append", "create"},
           NEW s \in {"done", "retire"}, pc' = [pc EXCEPT ![w] = s],
           \A m \in Writes : Exists(m) => Exists(m)' /\ anchor'[m] <= anchor[m],
           UNCHANGED <<retired, edges, when, covered, todo, current>>
    PROVE  SerialInv'
<1>0. w \in Calls
  BY DEF Calls
<1>1. \A d \in Calls : d # w => pc[d] \notin InFlight
  BY <1>0, OthersRest DEF InFlight
<1>2. pc'[w] = s /\ \A d \in Calls : d # w => pc'[d] = pc[d]
  BY <1>0 DEF SerialInv, ReviveInv, TypeInv, TypeOK
<1>3. OneAtATime'
  BY <1>0, <1>1, <1>2 DEF OneAtATime
<1>4. CopiesCurrent'
  BY <1>1, <1>2 DEF CopiesCurrent, InFlight, Calls
<1>5. JudgedEarlier'
  <2>1. \A c \in Calls : covered[c] \subseteq Writes /\ when[c] \in Nat
    BY DEF SerialInv, ReviveInv, TypeInv, TypeOK
  <2>2. \A m \in Writes : anchor[m] \in Nat /\ anchor'[m] \in Nat
    BY DEF SerialInv, ReviveInv, TypeInv, TypeOK
  <2>3. \A c \in Calls : \A old \in covered[c] : Exists(old)' /\ anchor'[old] < when[c]
    BY <2>1, <2>2 DEF SerialInv, JudgedEarlier
  <2> QED BY <1>2, <2>3 DEF SerialInv, JudgedEarlier
<1>6. EdgesJudged'
  BY DEF SerialInv, EdgesJudged
<1>7. PairsPending'
  BY <1>0, <1>1, <1>2 DEF SerialInv, PairsPending, InFlight
<1>8. RetirementExplained'
  <2>1. \A d \in Calls : pc[d] \in {"edge", "failed"} => pc'[d] \in {"edge", "failed"}
    BY <1>2
  <2> QED BY <2>1 DEF SerialInv, RetirementExplained, Superseded
<1> QED BY <1>3, <1>4, <1>5, <1>6, <1>7, <1>8 DEF SerialInv

LEMMA MarkKeeps ==
    ASSUME SerialDispatch, SerialInv, ReviveInv', NEW c \in Calls, MarkObsolete(c)
    PROVE  SerialInv'
<1>1. PICK old \in todo[c] \ {carrier[c]} : /\ retired' = retired \cup {old}
                                            /\ current' = [current EXCEPT ![c] = old]
  BY DEF MarkObsolete
<1>2. /\ pc[c] = "retire" /\ pc' = [pc EXCEPT ![c] = "edge"]
      /\ UNCHANGED <<text, anchor, edges, when, covered, todo, carrier, copy>>
  BY DEF MarkObsolete
<1>3. \A d \in Calls : d # c => pc[d] \notin InFlight
  BY <1>2, OthersRest DEF InFlight
<1>4. /\ pc'[c] = "edge" /\ current'[c] = old
      /\ \A d \in Calls : d # c => pc'[d] = pc[d] /\ current'[d] = current[d]
  BY <1>1, <1>2 DEF SerialInv, ReviveInv, TypeInv, TypeOK
<1>5. old \notin retired /\ old \in covered[c] /\ old # carrier[c] /\ todo[c] \cap retired = {}
      /\ \A e \in edges : e.to # old
  BY <1>1, <1>2 DEF SerialInv, PairsPending, JudgedEarlier, EdgesJudged, InFlight
<1>6. OneAtATime'
  BY <1>3, <1>4 DEF OneAtATime
<1>7. CopiesCurrent'
  BY <1>3, <1>4 DEF CopiesCurrent, InFlight, Calls
<1>8. JudgedEarlier'
  BY <1>2, <1>4 DEF SerialInv, JudgedEarlier, Exists
<1>9. EdgesJudged'
  BY <1>1, <1>2 DEF SerialInv, EdgesJudged
<1>10. PairsPending'
  BY <1>1, <1>2, <1>3, <1>4, <1>5 DEF PairsPending, InFlight
<1>11. RetirementExplained'
  <2>1. \A d \in Calls : pc[d] \in {"edge", "failed"} =>
           pc'[d] \in {"edge", "failed"} /\ current'[d] = current[d]
    BY <1>2, <1>4
  <2> QED BY <1>1, <1>2, <1>4, <2>1 DEF SerialInv, RetirementExplained, Superseded
<1> QED BY <1>6, <1>7, <1>8, <1>9, <1>10, <1>11 DEF SerialInv

LEMMA EdgeKeeps ==
    ASSUME SerialDispatch, SerialInv, ReviveInv', NEW c \in Calls, CreateEdge(c)
    PROVE  SerialInv'
<1> DEFINE new == SupersededEdge(c)
<1>1. /\ pc[c] = "edge" /\ edges' = edges \cup {new}
      /\ todo' = [todo EXCEPT ![c] = PairsLeft(c)]
      /\ UNCHANGED <<text, anchor, retired, when, covered, current, carrier, copy>>
  BY DEF CreateEdge
<1>2. PICK s \in {"boost", "retire"} : pc' = [pc EXCEPT ![c] = s]
  BY DEF CreateEdge
<1>3. \A d \in Calls : d # c => pc[d] \notin InFlight
  BY <1>1, OthersRest DEF InFlight
<1>4. /\ pc'[c] = s /\ todo'[c] = todo[c] \ {current[c]}
      /\ \A d \in Calls : d # c => pc'[d] = pc[d] /\ todo'[d] = todo[d]
  BY <1>1, <1>2 DEF SerialInv, ReviveInv, TypeInv, TypeOK, PairsLeft
<1>5. /\ new.to = current[c] /\ new.from = carrier[c] /\ new.by = c
      /\ todo[c] \cap retired \subseteq {current[c]}
      /\ current[c] \in covered[c] \cap retired /\ current[c] # carrier[c]
      /\ \A e \in edges : e.to # current[c]
  BY <1>1 DEF SerialInv, PairsPending, SupersededEdge
<1> HIDE DEF new
<1>6. OneAtATime'
  BY <1>3, <1>4 DEF OneAtATime
<1>7. CopiesCurrent'
  BY <1>3, <1>4 DEF CopiesCurrent, InFlight, Calls
<1>8. JudgedEarlier'
  BY <1>1, <1>4 DEF SerialInv, JudgedEarlier, Exists
<1>9. EdgesJudged'
  BY <1>1, <1>5 DEF SerialInv, EdgesJudged
<1>10. PairsPending'
  BY <1>1, <1>3, <1>4, <1>5 DEF PairsPending, InFlight
<1>11. RetirementExplained'
  <2>1. ASSUME NEW m \in retired'
        PROVE  (\E e \in edges' : e.to = m)
               \/ \E d \in Calls : current'[d] = m /\ pc'[d] \in {"edge", "failed"}
    <3>1. CASE m = current[c]
      BY <1>1, <1>5, <3>1
    <3>2. CASE m # current[c]
      BY <1>1, <1>4, <2>1, <3>2 DEF SerialInv, RetirementExplained, Superseded
    <3> QED BY <3>1, <3>2
  <2>2. \A e, f \in edges' : e.to = f.to => e = f
    BY <1>1, <1>5 DEF SerialInv, RetirementExplained
  <2> QED BY <2>1, <2>2 DEF RetirementExplained, Superseded
<1> QED BY <1>6, <1>7, <1>8, <1>9, <1>10, <1>11 DEF SerialInv

LEMMA WriteStepSerial ==
    ASSUME SerialDispatch, SerialInv, ReviveInv', NEW w \in Writes, WriteStep(w) \/ FetchError(w)
    PROVE  SerialInv'
<1>0. w \in Calls /\ TypeOK /\ ChoicesMade
  BY DEF Calls, SerialInv, ReviveInv, TypeInv
<1>1. CASE Search(w)
  <2>1. PICK found \in SearchResults(SearchLimit) :
          LET pairs == DetectUpdate(w, {w}, event[w].entity, when'[w], found)
              merges == MergeCandidates(w, found, pairs)
          IN  /\ covered' = [covered EXCEPT ![w] = pairs]
              /\ todo' = [todo EXCEPT ![w] = pairs]
              /\ pc' = [pc EXCEPT ![w] = IF merges = {} THEN "create" ELSE "fetch"]
    BY <1>0, <1>1 DEF Search, SearchAmong, TypeOK
  <2> DEFINE pairs == DetectUpdate(w, {w}, event[w].entity, when'[w], found)
  <2>2. pairs \in SUBSET Active /\ \A old \in pairs : anchor[old] < when'[w]
    <3>1. found \subseteq Active
      BY DEF SearchResults
    <3>2. \A old \in pairs : old \in found /\ when'[w] > anchor[old]
      BY DEF DetectUpdate, Covers
    <3>3. when'[w] \in Nat /\ \A old \in Writes : anchor[old] \in Nat
      BY <1>0, ReviveInv' DEF ReviveInv, TypeInv, TypeOK
    <3> HIDE DEF pairs
    <3> QED BY <3>1, <3>2, <3>3 DEF Active
  <2>3. PICK s \in {"create", "fetch"} : pc' = [pc EXCEPT ![w] = s]
    BY <2>1
  <2>4. covered' = [covered EXCEPT ![w] = pairs] /\ todo' = [todo EXCEPT ![w] = pairs]
    BY <2>1
  <2> HIDE DEF pairs
  <2>5. /\ pc[w] = "idle" /\ Turn(w)
        /\ UNCHANGED <<stored, current, carrier, copy>>
        /\ \A d \in Calls : d # w => when'[d] = when[d]
    BY <1>0, <1>1 DEF Search, SearchAmong, TypeOK
  <2> QED BY <1>0, <2>2, <2>3, <2>4, <2>5, JudgementKeeps DEF InFlight, Finished
<1>2. CASE Fetch(w)
  <2>1. PICK m \in mergeable[w] : /\ carrier' = [carrier EXCEPT ![w] = m]
                                  /\ copy' = [copy EXCEPT ![w] = RowOf(m)]
    BY <1>2 DEF Fetch
  <2>2. /\ pc[w] = "fetch" /\ pc' = [pc EXCEPT ![w] = "append"]
        /\ UNCHANGED <<text, anchor, retired, edges, when, covered, todo, current>>
    BY <1>2 DEF Fetch, stored
  <2>3. \A d \in Calls : d # w => pc[d] \notin InFlight
    BY <1>0, <2>2, OthersRest DEF InFlight
  <2>4. \A v \in Writes : pc'[v] = "append" =>
           /\ copy'[v].anchor = anchor[carrier'[v]]
           /\ copy'[v].retired <=> carrier'[v] \in retired
    <3>1. \A v \in Writes : pc'[v] = "append" => v = w
      BY <1>0, <2>2, <2>3 DEF TypeOK, InFlight, Calls
    <3>2. copy'[w] = RowOf(m) /\ carrier'[w] = m
      BY <1>0, <2>1 DEF TypeOK
    <3>3. RowOf(m).anchor = anchor[m] /\ (RowOf(m).retired <=> m \in retired)
      BY DEF RowOf
    <3> QED BY <3>1, <3>2, <3>3
  <2>5. Local(w)
    <3>1. "append" \in InFlight /\ pc[w] \in InFlight /\ pc[w] # "edge"
      BY <2>2 DEF InFlight
    <3>2. \E s \in InFlight \cup Finished :
             pc' = [pc EXCEPT ![w] = s] /\ s \notin {"edge", "peers"}
      <4>1. "append" \in InFlight \cup Finished /\ "append" \notin {"edge", "peers"}
        BY <3>1
      <4> QED BY <2>2, <4>1
    <3> QED BY <2>2, <3>1, <3>2 DEF Local
  <2>6. \A m2 \in Writes : Exists(m2) => Exists(m2)'
    BY <2>2 DEF Exists
  <2> QED BY <1>0, <2>4, <2>5, <2>6, LocalKeeps
<1>3. CASE FetchError(w)
  <2>1. /\ pc[w] = "fetch" /\ \E s \in {"fetch", "create"} : pc' = [pc EXCEPT ![w] = s]
        /\ UNCHANGED <<text, anchor, retired, edges, when, covered, todo, current, carrier, copy>>
    BY <1>3 DEF FetchError, stored
  <2>2. Local(w)
    BY <1>0, <2>1 DEF Local, InFlight
  <2>3. \A v \in Writes : pc'[v] = "append" => pc[v] = "append"
    BY <1>0, <2>1 DEF TypeOK, Calls
  <2>4. \A m \in Writes : Exists(m) => Exists(m)'
    BY <2>1 DEF Exists
  <2> QED BY <1>0, <2>1, <2>2, <2>3, <2>4, LocalKeeps DEF SerialInv, CopiesCurrent
<1>4. CASE Append(w)
  <2> DEFINE m == carrier[w]
             row == MergedRow(w, copy[w])
  <2>1. /\ pc[w] = "append" /\ m \in Writes
        /\ WriteEpisodic(m, row)
        /\ \E s \in {"done", "retire"} : pc' = [pc EXCEPT ![w] = s]
        /\ UNCHANGED <<edges, when, covered, todo, current>>
    BY <1>0, <1>4 DEF Append, ChoicesMade, NextAfterStore, locals
  <2>2. copy[w].anchor = anchor[m] /\ (copy[w].retired <=> m \in retired)
    BY <2>1 DEF SerialInv, CopiesCurrent
  <2>3. row.anchor \in Nat /\ row.anchor <= anchor[m] /\ (row.retired <=> m \in retired)
    BY <1>0, <2>1, <2>2, EventsAssumption DEF MergedRow, MergedAnchor, TypeOK
  <2>4. text'[m] # {} /\ \A k \in Writes : k # m => text'[k] = text[k]
    BY <1>0, <2>1 DEF WriteEpisodic, MergedRow, TypeOK
  <2> HIDE DEF m, row
  <2>5. StoredTime(row.anchor) \in Nat /\ StoredTime(row.anchor) <= row.anchor
    BY <2>3, StoredTimeBounds
  <2>6. \A k \in Writes : Exists(k) => Exists(k)' /\ anchor'[k] <= anchor[k]
    <3>1. \A k \in Writes : anchor[k] \in Nat
      BY <1>0 DEF TypeOK
    <3>2. anchor'[m] = StoredTime(row.anchor) /\ \A k \in Writes : k # m => anchor'[k] = anchor[k]
      BY <1>0, <2>1 DEF WriteEpisodic, TypeOK
    <3> QED BY <2>1, <2>3, <2>4, <2>5, <3>1, <3>2 DEF Exists
  <2>7. UNCHANGED retired
    BY <2>1, <2>3 DEF WriteEpisodic
  <2> QED BY <2>1, <2>6, <2>7, StoreKeeps
<1>5. CASE Create(w)
  <2>1. /\ pc[w] = "create"
        /\ \E s \in {"done", "retire"} : pc' = [pc EXCEPT ![w] = s]
        /\ UNCHANGED <<edges, when, covered, todo, current>>
        /\ retired' = retired \ {w}
        /\ \A k \in Writes : k # w => text'[k] = text[k] /\ anchor'[k] = anchor[k]
    BY <1>0, <1>5 DEF Create, WriteEpisodic, NextAfterStore, TypeOK
  <2>2. ~Exists(w) /\ w \notin retired
    BY <2>1 DEF SerialInv, ReviveInv, HaveRows, Unstored
  <2>3. \A k \in Writes : Exists(k) => Exists(k)' /\ anchor'[k] <= anchor[k]
    BY <1>0, <2>1, <2>2 DEF Exists, TypeOK
  <2> QED BY <2>1, <2>2, <2>3, StoreKeeps
<1> QED BY <1>1, <1>2, <1>3, <1>4, <1>5 DEF WriteStep

LEMMA SignalStepSerial ==
    ASSUME SerialDispatch, SerialInv, ReviveInv', NEW s \in Signals, SignalStep(s)
    PROVE  SerialInv'
<1>0. s \in Calls /\ s \notin Writes /\ TypeOK /\ ChoicesMade
  BY CallsAssumption DEF Calls, SerialInv, ReviveInv, TypeInv
<1>1. CASE SignalFetch(s)
  <2>1. /\ pc[s] = "idle" /\ Turn(s) /\ pc' = [pc EXCEPT ![s] = "peers"]
        /\ UNCHANGED <<stored, covered, todo, current>>
        /\ \A d \in Calls : d # s => when'[d] = when[d]
        /\ \A w \in Writes : w # s => UNCHANGED <<carrier[w], copy[w]>>
    BY <1>0, <1>1 DEF SignalFetch, TypeOK, Calls
  <2>2. covered[s] = {} /\ todo[s] = {}
    BY <1>0, <2>1 DEF SerialInv, JudgedEarlier
  <2>3. covered' = [covered EXCEPT ![s] = {}] /\ todo' = [todo EXCEPT ![s] = {}]
    BY <1>0, <2>1, <2>2 DEF TypeOK
  <2> QED BY <1>0, <2>1, <2>3, JudgementKeeps DEF InFlight, Finished
<1>2. CASE SignalDetect(s)
  <2>1. PICK found \in SearchResults(PeerPool) :
          LET pairs == DetectUpdate(carrier[s], copy[s].text, event[carrier[s]].entity,
                                    when[s], found)
          IN  /\ covered' = [covered EXCEPT ![s] = pairs]
              /\ todo' = [todo EXCEPT ![s] = pairs]
              /\ pc' = [pc EXCEPT ![s] = NextAfterStore(pairs \ {carrier[s]})]
    BY <1>2 DEF SignalDetect
  <2> DEFINE pairs == DetectUpdate(carrier[s], copy[s].text, event[carrier[s]].entity,
                                   when[s], found)
  <2>2. /\ pc[s] = "peers" /\ UNCHANGED <<stored, when, current, carrier, copy>>
    BY <1>2 DEF SignalDetect
  <2>3. pairs \in SUBSET Active /\ \A old \in pairs : anchor[old] < when'[s]
    <3>1. found \subseteq Active
      BY DEF SearchResults
    <3>2. \A old \in pairs : old \in found /\ when[s] > anchor[old]
      BY DEF DetectUpdate, Covers
    <3>3. when[s] \in Nat /\ \A old \in Writes : anchor[old] \in Nat
      BY <1>0 DEF TypeOK
    <3> HIDE DEF pairs
    <3> QED BY <2>2, <3>1, <3>2, <3>3 DEF Active
  <2>4. covered' = [covered EXCEPT ![s] = pairs] /\ todo' = [todo EXCEPT ![s] = pairs]
    BY <2>1
  <2>5. PICK n \in {"done", "retire"} : pc' = [pc EXCEPT ![s] = n]
    BY <2>1 DEF NextAfterStore
  <2> HIDE DEF pairs
  <2> QED BY <1>0, <2>2, <2>3, <2>4, <2>5, JudgementKeeps DEF InFlight, Finished
<1> QED BY <1>1, <1>2 DEF SignalStep

LEMMA ApplyStepSerial ==
    ASSUME SerialDispatch, SerialInv, ReviveInv', NEW c \in Calls, ApplyStep(c) \/ Fail(c)
    PROVE  SerialInv'
<1>1. CASE BoostCarrier(c) \/ Fail(c)
  <2>1. /\ pc[c] \in InFlight
        /\ \E s \in Finished : pc' = [pc EXCEPT ![c] = s] /\ (pc[c] = "edge" => s = "failed")
        /\ UNCHANGED <<text, anchor, retired, edges, when, covered, todo, current, carrier, copy>>
    BY <1>1 DEF BoostCarrier, Fail, stored, locals, InFlight, Finished
  <2>2. TypeOK
    BY DEF SerialInv, ReviveInv, TypeInv
  <2>3. Local(c)
    BY <2>1, <2>2 DEF Local, Finished, TypeOK
  <2>4. \A v \in Writes : pc'[v] = "append" => pc[v] = "append"
    BY <2>1, <2>2 DEF TypeOK, Calls, Finished
  <2>5. \A m \in Writes : Exists(m) => Exists(m)'
    BY <2>1 DEF Exists
  <2> QED BY <2>1, <2>3, <2>4, <2>5, LocalKeeps DEF SerialInv, CopiesCurrent
<1> QED BY <1>1, MarkKeeps, EdgeKeeps DEF ApplyStep

LEMMA CrashSerial ==
    ASSUME SerialInv, ReviveInv', Crash \/ UNCHANGED vars
    PROVE  SerialInv'
<1>1. /\ UNCHANGED <<text, anchor, retired, edges, when, covered, todo, current, carrier, copy>>
      /\ \A c \in Calls : pc'[c] = pc[c] \/ (pc[c] \in InFlight /\ pc'[c] = "failed")
  BY DEF Crash, vars, stored, locals
<1>2. OneAtATime'
  BY <1>1 DEF SerialInv, OneAtATime, InFlight
<1>3. CopiesCurrent'
  BY <1>1 DEF SerialInv, CopiesCurrent, Calls
<1>4. JudgedEarlier' /\ EdgesJudged'
  BY <1>1 DEF SerialInv, JudgedEarlier, EdgesJudged, Exists
<1>5. PairsPending'
  BY <1>1 DEF SerialInv, PairsPending, InFlight
<1>6. RetirementExplained'
  BY <1>1 DEF SerialInv, RetirementExplained, Superseded
<1> QED BY <1>2, <1>3, <1>4, <1>5, <1>6 DEF SerialInv

LEMMA NextSerial ==
    ASSUME SerialDispatch, SerialInv, [Next]_vars
    PROVE  SerialInv'
<1>1. ReviveInv'
  BY RowsStep DEF SerialInv
<1> QED BY <1>1, WriteStepSerial, SignalStepSerial, ApplyStepSerial, CrashSerial
        DEF Next, Quiescent

(* In the daemon every retired memory has the one SUPERSEDED edge that     *)
(* explains it, unless a call broke off in between (ApplyUpdate under the  *)
(* dispatch loop of Serve).                                                *)
THEOREM RetirementsExplained ==
    ASSUME SerialDispatch
    PROVE  Spec => []RetirementExplained
<1>1. SerialInv => RetirementExplained
  BY DEF SerialInv
<1> QED BY <1>1, InitSerial, NextSerial, PTL DEF Spec

(* And what was superseded happened before the event that superseded it,   *)
(* whatever is appended to either later.                                   *)
THEOREM SupersessionsJustified ==
    ASSUME SerialDispatch
    PROVE  Spec => []SupersessionStaysJustified
<1>1. SerialInv => SupersessionStaysJustified
  <2> SUFFICES ASSUME SerialInv, NEW e \in edges
               PROVE  anchor[e.to] < when[e.by] /\ e.from # e.to
    BY DEF SupersessionStaysJustified
  <2>1. e.by \in Calls /\ e.to \in covered[e.by] /\ e.from # e.to
    BY DEF SerialInv, ReviveInv, TypeInv, TypeOK, Edge, EdgesJudged
  <2> QED BY <2>1 DEF SerialInv, JudgedEarlier
<1> QED BY <1>1, InitSerial, NextSerial, PTL DEF Spec

-----------------------------------------------------------------------------
(* The pipeline implements the supersession ledger where one dispatch loop *)
(* runs it and no signal_update comes in: the daemon offers none, and a    *)
(* signal may name a retired memory.  What a call is about to append to,   *)
(* or retire for, is then recalled, and is appended to as it is stored.    *)

CarriersRecalled ==
    /\ \A w \in Writes : pc[w] = "fetch" => mergeable[w] \subseteq Active
    /\ \A w \in Writes : pc[w] = "append" =>
          carrier[w] \in Active /\ copy[w].text = text[carrier[w]]
    /\ \A c \in Calls : pc[c] \in {"retire", "edge"} => carrier[c] \in Active

LedgerInv == SerialInv /\ MixInv /\ CarriersRecalled

LEMMA InitLedger == Init => LedgerInv
BY InitSerial, InitMix DEF Init, LedgerInv, CarriersRecalled, Calls

LEMMA CarriersKept ==
    ASSUME SerialDispatch, LedgerInv, NEW c \in Calls, pc[c] \in InFlight \/ Turn(c),
           NEW s, pc' = [pc EXCEPT ![c] = s],
           s = "fetch" => mergeable'[c] \subseteq Active',
           s = "append" => carrier'[c] \in Active' /\ copy'[c].text = text'[carrier'[c]],
           s \in {"retire", "edge"} => carrier'[c] \in Active'
    PROVE  CarriersRecalled'
<1>1. \A d \in Calls : d # c => pc[d] \notin InFlight
  BY OthersRest DEF LedgerInv
<1>2. pc'[c] = s /\ \A d \in Calls : d # c => pc'[d] \notin InFlight
  BY <1>1 DEF LedgerInv, MixInv, TypeInv, TypeOK
<1>3. \A d \in Calls : pc'[d] \in {"fetch", "append", "retire", "edge"} => d = c
  BY <1>2 DEF InFlight
<1> QED BY <1>2, <1>3 DEF CarriersRecalled, Calls

(* What a write stores is a Record of the ledger.                          *)
LEMMA StoreRecords ==
    ASSUME LedgerInv, NEW w \in Writes, Append(w) \/ Create(w)
    PROVE  /\ \E m \in Writes : Ledger!Record(w, m)
           /\ carrier'[w] \in Active'
<1>0. /\ TypeOK /\ ChoicesMade /\ w \in Calls
      /\ pc[w] \in {"append", "create"}
      /\ \A m \in Writes : w \notin text[m]
  BY DEF LedgerInv, MixInv, TypeInv, Calls, Append, Create, RowsSettled, Settled, Unstored
<1>1. CASE Append(w)
  <2> DEFINE m == carrier[w]
             row == MergedRow(w, copy[w])
  <2>1. /\ m \in Active /\ m \in Writes /\ copy[w].text = text[m]
        /\ copy[w].retired <=> m \in retired
    BY <1>0, <1>1 DEF Append, LedgerInv, CarriersRecalled, SerialInv, CopiesCurrent, Active
  <2>2. WriteEpisodic(m, row) /\ UNCHANGED <<edges, carrier>>
    BY <1>1 DEF Append, locals
  <2>3. row.text = text[m] \cup {w} /\ (row.retired <=> m \in retired)
    BY <2>1 DEF MergedRow
  <2> HIDE DEF m, row
  <2>4. text' = [text EXCEPT ![m] = @ \cup {w}] /\ UNCHANGED retired
    BY <2>1, <2>2, <2>3 DEF WriteEpisodic
  <2>5. Ledger!Record(w, m)
    BY <1>0, <2>1, <2>2, <2>4 DEF Ledger!Record, Ledger!Recalled, Active, Exists
  <2>6. m \in Active'
    BY <1>0, <2>1, <2>4 DEF Active, Exists, TypeOK
  <2> QED BY <2>1, <2>2, <2>5, <2>6 DEF m
<1>2. CASE Create(w)
  <2>1. text[w] = {} /\ w \notin retired
    BY <1>0 DEF LedgerInv, SerialInv, ReviveInv, HaveRows, Exists, Unstored
  <2>2. /\ text' = [text EXCEPT ![w] = {w}]
        /\ retired' = retired \ {w}
        /\ UNCHANGED edges
        /\ carrier' = [carrier EXCEPT ![w] = w]
    BY <1>2 DEF Create, WriteEpisodic
  <2>3. text' = [text EXCEPT ![w] = @ \cup {w}] /\ UNCHANGED retired
    BY <2>1, <2>2
  <2>4. Ledger!Record(w, w)
    BY <1>0, <2>2, <2>3 DEF Ledger!Record
  <2>5. carrier'[w] = w /\ w \in Active'
    BY <1>0, <2>1, <2>2, <2>3 DEF Active, Exists, TypeOK
  <2> QED BY <2>4, <2>5
<1> QED BY <1>1, <1>2

(* MarkObsolete is a Withdraw and CreateEdge an Explain.                   *)
LEMMA ApplyExplains ==
    ASSUME LedgerInv, NEW c \in Calls
    PROVE  /\ MarkObsolete(c) => /\ \E m, old \in Writes : Ledger!Withdraw(m, old)
                                 /\ carrier'[c] \in Active'
           /\ CreateEdge(c) => /\ \E m, old \in Writes : Ledger!Explain(m, old)
                               /\ carrier'[c] \in Active'
<1>0. TypeOK /\ ChoicesMade
  BY DEF LedgerInv, MixInv, TypeInv
<1>1. ASSUME MarkObsolete(c)
      PROVE  (\E m, old \in Writes : Ledger!Withdraw(m, old)) /\ carrier'[c] \in Active'
  <2>1. PICK old \in todo[c] \ {carrier[c]} : retired' = retired \cup {old}
    BY <1>1 DEF MarkObsolete
  <2>2. pc[c] = "retire" /\ UNCHANGED <<text, edges, carrier>>
    BY <1>1 DEF MarkObsolete
  <2>3. carrier[c] \in Active
    BY <2>2 DEF LedgerInv, CarriersRecalled
  <2>4. old \in Writes /\ Exists(old) /\ old \notin retired
    BY <1>0, <2>1, <2>2
       DEF LedgerInv, SerialInv, ReviveInv, HaveRows, PairsPending, InFlight, TypeOK
  <2>5. Ledger!Withdraw(carrier[c], old)
    BY <2>1, <2>2, <2>3, <2>4 DEF Ledger!Withdraw, Ledger!Recalled, Active, Exists
  <2> QED BY <2>1, <2>2, <2>3, <2>4, <2>5 DEF Active, Exists
<1>2. ASSUME CreateEdge(c)
      PROVE  (\E m, old \in Writes : Ledger!Explain(m, old)) /\ carrier'[c] \in Active'
  <2> DEFINE old == current[c]
             m == carrier[c]
  <2>1. /\ pc[c] = "edge" /\ UNCHANGED <<text, retired, carrier>>
        /\ edges' = edges \cup {SupersededEdge(c)}
    BY <1>2 DEF CreateEdge
  <2>2. m \in Active /\ m \in Writes
    BY <2>1 DEF LedgerInv, CarriersRecalled, Active
  <2>3. old \in retired /\ old \in Writes /\ \A e \in edges : e.to # old
    BY <1>0, <2>1 DEF LedgerInv, SerialInv, PairsPending, ChoicesMade
  <2>4. SupersededEdge(c).from = m /\ SupersededEdge(c).to = old
    BY DEF SupersededEdge
  <2> HIDE DEF old, m
  <2>5. /\ \A k \in Writes : <<k, old>> \notin {<<e.from, e.to>> : e \in edges}
        /\ {<<e.from, e.to>> : e \in edges'} = {<<e.from, e.to>> : e \in edges} \cup {<<m, old>>}
    BY <2>1, <2>3, <2>4
  <2>6. Ledger!Explain(m, old)
    BY <2>1, <2>2, <2>3, <2>5 DEF Ledger!Explain, Ledger!Recalled, Active, Exists
  <2>7. carrier'[c] = m /\ m \in Active'
    BY <2>1, <2>2 DEF Active, Exists, m
  <2>8. \E k, j \in Writes : Ledger!Explain(k, j)
    BY <2>2, <2>3, <2>6 DEF Ledger!Explain
  <2> QED BY <2>7, <2>8
<1> QED BY <1>1, <1>2

LEMMA LedgerStep ==
    ASSUME SerialDispatch, Signals = {}, LedgerInv, [Next]_vars
    PROVE  CarriersRecalled' /\ [Ledger!Next]_(Ledger!vars)
<1> DEFINE Same == UNCHANGED <<text, retired, edges>>
           Good == CarriersRecalled' /\ [Ledger!Next]_(Ledger!vars)
<1>0. TypeOK /\ ChoicesMade /\ Writes \subseteq Calls
  BY DEF LedgerInv, MixInv, TypeInv, Calls
<1>1. Same => UNCHANGED Ledger!vars /\ Active' = Active
  BY DEF Ledger!vars, Active, Exists
<1>2. ASSUME NEW w \in Writes, Search(w)
      PROVE  Good
  <2>1. PICK found \in SearchResults(SearchLimit) :
          LET pairs == DetectUpdate(w, {w}, event[w].entity, when'[w], found)
              merges == MergeCandidates(w, found, pairs)
          IN  /\ mergeable' = [mergeable EXCEPT ![w] = merges]
              /\ pc' = [pc EXCEPT ![w] = IF merges = {} THEN "create" ELSE "fetch"]
    BY <1>0, <1>2 DEF Search, SearchAmong, TypeOK
  <2>2. Turn(w) /\ Same
    BY <1>2 DEF Search, SearchAmong, stored
  <2>3. mergeable'[w] \subseteq Active
    BY <1>0, <2>1 DEF SearchResults, MergeCandidates, TypeOK
  <2>4. PICK s \in {"create", "fetch"} : pc' = [pc EXCEPT ![w] = s]
    BY <2>1
  <2> QED BY <1>0, <1>1, <2>2, <2>3, <2>4, CarriersKept
<1>3. ASSUME NEW w \in Writes, Fetch(w) \/ FetchError(w)
      PROVE  Good
  <2>1. pc[w] = "fetch" /\ pc[w] \in InFlight /\ Same
    BY <1>3 DEF Fetch, FetchError, stored, InFlight
  <2>2. mergeable[w] \subseteq Active
    BY <2>1 DEF LedgerInv, CarriersRecalled
  <2>3. CASE Fetch(w)
    <3>1. PICK m \in mergeable[w] : /\ carrier' = [carrier EXCEPT ![w] = m]
                                    /\ copy' = [copy EXCEPT ![w] = RowOf(m)]
                                    /\ pc' = [pc EXCEPT ![w] = "append"]
      BY <2>3 DEF Fetch
    <3>2. carrier'[w] = m /\ copy'[w].text = text[m]
      BY <1>0, <3>1 DEF RowOf, TypeOK
    <3> QED BY <1>0, <1>1, <2>1, <2>2, <3>1, <3>2, CarriersKept
  <2>4. CASE FetchError(w)
    <3>1. PICK s \in {"create", "fetch"} : pc' = [pc EXCEPT ![w] = s]
      BY <2>4 DEF FetchError
    <3>2. mergeable'[w] \subseteq mergeable[w]
      BY <1>0, <2>4 DEF FetchError, TypeOK
    <3> QED BY <1>0, <1>1, <2>1, <2>2, <3>1, <3>2, CarriersKept
  <2> QED BY <1>3, <2>3, <2>4
<1>4. ASSUME NEW w \in Writes, Append(w) \/ Create(w)
      PROVE  Good
  <2>1. pc[w] \in InFlight /\ \E s \in {"done", "retire"} : pc' = [pc EXCEPT ![w] = s]
    BY <1>4 DEF Append, Create, NextAfterStore, InFlight
  <2> QED BY <1>0, <1>4, <2>1, StoreRecords, CarriersKept DEF Ledger!Next
<1>5. ASSUME NEW c \in Calls, MarkObsolete(c) \/ CreateEdge(c)
      PROVE  Good
  <2>1. /\ pc[c] \in InFlight
        /\ \E s \in {"edge", "boost", "retire"} : pc' = [pc EXCEPT ![c] = s]
    BY <1>5 DEF MarkObsolete, CreateEdge, InFlight
  <2> QED BY <1>5, <2>1, ApplyExplains, CarriersKept DEF Ledger!Next
<1>6. ASSUME NEW c \in Calls, BoostCarrier(c) \/ Fail(c)
      PROVE  Good
  <2>1. /\ pc[c] \in InFlight /\ Same
        /\ \E s \in {"done", "failed"} : pc' = [pc EXCEPT ![c] = s]
    BY <1>6 DEF BoostCarrier, Fail, stored, InFlight
  <2> QED BY <1>1, <2>1, CarriersKept
<1>7. ASSUME Crash \/ UNCHANGED vars
      PROVE  Good
  <2>1. Same /\ UNCHANGED <<mergeable, carrier, copy>>
    BY <1>7 DEF Crash, vars, stored, locals
  <2>2. \A c \in Calls : pc'[c] = pc[c] \/ pc'[c] = "failed"
    BY <1>7 DEF Crash, vars
  <2>3. CarriersRecalled'
    BY <1>0, <1>1, <2>1, <2>2 DEF LedgerInv, CarriersRecalled
  <2> QED BY <1>1, <2>1, <2>3
<1> HIDE DEF Good, Same
<1>8. Good
  BY <1>2, <1>3, <1>4, <1>5, <1>6, <1>7 DEF Next, WriteStep, ApplyStep, Quiescent
<1> QED BY <1>8 DEF Good

LEMMA LedgerKept ==
    ASSUME SerialDispatch, Signals = {}, LedgerInv, [Next]_vars
    PROVE  LedgerInv'
<1>1. MixInv'
  BY NextType, RowsStaySettled, CopiesStaySettled, CarrierStaysApart DEF LedgerInv, MixInv
<1> QED BY <1>1, NextSerial, LedgerStep DEF LedgerInv

(* The daemon's write pipeline keeps the promise of update tracking: each  *)
(* store call of WriteMemory and ApplyUpdate records, withdraws or         *)
(* explains, or changes nothing that the ledger tells apart.               *)
THEOREM PipelineKeepsLedger ==
    ASSUME SerialDispatch, Signals = {}
    PROVE  Spec => LedgerSpec
<1>1. Init => Ledger!Init
  BY DEF Init, Ledger!Init
<1>2. LedgerInv /\ [Next]_vars => LedgerInv' /\ [Ledger!Next]_(Ledger!vars)
  BY LedgerKept, LedgerStep
<1> QED BY <1>1, <1>2, InitLedger, PTL DEF Spec, LedgerSpec, Ledger!Spec

-----------------------------------------------------------------------------
(* What was acknowledged can be recalled.  A set of memories that leads    *)
(* nowhere else has an active one as soon as it has any: a retirement adds *)
(* the way from the retired memory to the one it is retired for, which is  *)
(* active, and no way is ever lost.                                        *)

Acknowledging == {"retire", "edge", "boost", "done"}

CarriersHold ==
    \A w \in Writes : pc[w] \in Acknowledging =>
        carrier[w] \in Writes /\ w \in text[carrier[w]]

SomeActive ==
    \A memories \in SUBSET Writes :
        Closed(memories) /\ (\E m \in memories : Exists(m)) => memories \cap Active # {}

TraceInv == CarriersHold /\ SomeActive

LEMMA InitTrace == Init => TraceInv
BY DEF Init, TraceInv, CarriersHold, SomeActive, Exists, Acknowledging, Calls

(* A call that has a memory to record keeps it until it records it.        *)
LEMMA LinksStay ==
    ASSUME LedgerInv, [Next]_vars
    PROVE  Links \subseteq Links'
<1>0. TypeOK
  BY DEF LedgerInv, MixInv, TypeInv
<1>1. ASSUME NEW c \in Calls, CreateEdge(c) PROVE Links \subseteq Links'
  <2>1. /\ edges' = edges \cup {SupersededEdge(c)}
        /\ SupersededEdge(c).to = current[c] /\ SupersededEdge(c).from = carrier[c]
        /\ UNCHANGED <<current, carrier>>
        /\ \A d \in Calls : d # c => pc'[d] = pc[d]
    BY <1>0, <1>1 DEF CreateEdge, SupersededEdge, TypeOK
  <2>2. ASSUME NEW d \in Calls, pc[d] \in {"edge", "failed"}
        PROVE  <<current[d], carrier[d]>> \in Links'
    BY <2>1, <2>2 DEF Links
  <2> QED BY <2>1, <2>2 DEF Links
<1>2. ASSUME edges \subseteq edges',
             \A d \in Calls : pc[d] \in {"edge", "failed"} =>
                /\ pc'[d] \in {"edge", "failed"}
                /\ current'[d] = current[d] /\ carrier'[d] = carrier[d]
      PROVE  Links \subseteq Links'
  BY <1>2 DEF Links
<1>3. ASSUME NEW c \in Calls,
             WriteStep(c) \/ FetchError(c) \/ SignalStep(c) \/ MarkObsolete(c)
               \/ BoostCarrier(c) \/ Fail(c)
      PROVE  Links \subseteq Links'
  <2>1. edges' = edges
    BY <1>3 DEF WriteStep, Search, SearchAmong, Fetch, Append, Create, FetchError, SignalStep,
                SignalFetch, SignalDetect, MarkObsolete, BoostCarrier, Fail, stored
  <2>2. \A d \in Calls \ {c} :
          pc'[d] = pc[d] /\ current'[d] = current[d] /\ carrier'[d] = carrier[d]
    BY <1>0, <1>3 DEF WriteStep, Search, SearchAmong, Fetch, Append, Create, FetchError,
                SignalStep, SignalFetch, SignalDetect, MarkObsolete, BoostCarrier, Fail,
                locals, TypeOK
  <2>3. pc[c] \in {"edge", "failed"} => Fail(c)
    BY <1>3 DEF WriteStep, Search, SearchAmong, Fetch, Append, Create, FetchError, SignalStep,
                SignalFetch, SignalDetect, MarkObsolete, BoostCarrier
  <2>4. Fail(c) => /\ pc'[c] \in {"edge", "failed"}
                   /\ current'[c] = current[c] /\ carrier'[c] = carrier[c]
    BY <1>0 DEF Fail, locals, TypeOK
  <2> QED BY <1>2, <2>1, <2>2, <2>3, <2>4
<1>4. ASSUME Crash \/ UNCHANGED vars PROVE Links \subseteq Links'
  <2>1. UNCHANGED <<edges, current, carrier>>
    BY <1>4 DEF Crash, vars, stored, locals
  <2>2. \A d \in Calls : pc[d] \in {"edge", "failed"} => pc'[d] \in {"edge", "failed"}
    BY <1>4 DEF Crash, vars
  <2> QED BY <1>2, <2>1, <2>2
<1> QED BY <1>1, <1>3, <1>4 DEF Next, ApplyStep, Quiescent, Calls

LEMMA TraceStep ==
    ASSUME SerialDispatch, LedgerInv, LedgerInv', TraceInv, [Next]_vars
    PROVE  TraceInv'
<1>0. TypeOK /\ TypeOK' /\ Writes \subseteq Calls /\ ChoicesMade
  BY DEF LedgerInv, MixInv, TypeInv, Calls
<1>1. \A memories : Closed(memories)' => Closed(memories)
  BY LinksStay DEF Closed
<1>2. ASSUME UNCHANGED <<text, retired>>,
             \A w \in Writes : pc'[w] \in Acknowledging =>
               pc[w] \in Acknowledging /\ carrier'[w] = carrier[w]
      PROVE  TraceInv'
  <2>1. Active' = Active /\ \A m : Exists(m)' = Exists(m)
    BY <1>2 DEF Active, Exists
  <2>2. SomeActive'
    BY <1>1, <2>1 DEF TraceInv, SomeActive
  <2> QED BY <1>2, <2>2 DEF TraceInv, CarriersHold
<1>3. ASSUME NEW w \in Writes, Append(w) \/ Create(w) PROVE TraceInv'
  <2>1. PICK m \in Writes : Ledger!Record(w, m)
    BY <1>3, StoreRecords
  <2>2. text' = [text EXCEPT ![m] = @ \cup {w}] /\ UNCHANGED retired
    BY <2>1 DEF Ledger!Record
  <2>3. w \in text'[m]
    BY <1>0, <2>2 DEF TypeOK
  <2>4. carrier'[w] = m
    BY <2>3 DEF LedgerInv, MixInv, RowsSettled, Settled
  <2>5. m \in Active'
    BY <1>3, <2>4, StoreRecords
  <2>6. /\ \A k \in Writes : text[k] \subseteq text'[k]
        /\ \A k \in Writes : k # m => text'[k] = text[k]
    BY <1>0, <2>2 DEF TypeOK
  <2>7. CarriersHold'
    <3> SUFFICES ASSUME NEW v \in Writes, pc'[v] \in Acknowledging
                 PROVE  carrier'[v] \in Writes /\ v \in text'[carrier'[v]]
      BY DEF CarriersHold
    <3>1. CASE v = w
      BY <2>3, <2>4, <3>1
    <3>2. CASE v # w
      <4>1. pc'[v] = pc[v] /\ carrier'[v] = carrier[v]
        BY <1>0, <1>3, <3>2 DEF Append, Create, locals, TypeOK
      <4>2. carrier[v] \in Writes /\ v \in text[carrier[v]]
        BY <4>1 DEF TraceInv, CarriersHold
      <4> QED BY <2>6, <4>1, <4>2
    <3> QED BY <3>1, <3>2
  <2>8. SomeActive'
    <3> SUFFICES ASSUME NEW memories \in SUBSET Writes, Closed(memories)',
                        NEW k \in memories, Exists(k)'
                 PROVE  memories \cap Active' # {}
      BY DEF SomeActive
    <3>1. CASE m \in memories
      BY <2>5, <3>1
    <3>2. CASE m \notin memories
      <4>1. Exists(k)
        BY <2>6, <3>2 DEF Exists
      <4>2. PICK a \in memories : a \in Active
        BY <1>1, <4>1 DEF TraceInv, SomeActive
      <4>3. a \in Writes /\ text'[a] = text[a] /\ retired' = retired
        BY <2>2, <2>6, <3>2, <4>2
      <4> QED BY <4>2, <4>3 DEF Active, Exists
    <3> QED BY <3>1, <3>2
  <2> QED BY <2>7, <2>8 DEF TraceInv
<1>4. ASSUME NEW c \in Calls, MarkObsolete(c) PROVE TraceInv'
  <2>1. PICK old \in todo[c] \ {carrier[c]} :
          retired' = retired \cup {old} /\ current' = [current EXCEPT ![c] = old]
    BY <1>4 DEF MarkObsolete
  <2>2. /\ pc[c] = "retire" /\ pc' = [pc EXCEPT ![c] = "edge"]
        /\ UNCHANGED <<text, edges, carrier>>
    BY <1>4 DEF MarkObsolete
  <2>3. carrier[c] \in Active /\ old # carrier[c]
    BY <2>1, <2>2 DEF LedgerInv, CarriersRecalled
  <2>4. <<old, carrier[c]>> \in Links'
    <3>1. pc'[c] = "edge" /\ current'[c] = old /\ carrier'[c] = carrier[c]
      BY <1>0, <2>1, <2>2 DEF TypeOK
    <3> QED BY <3>1 DEF Links
  <2>5. Active' = Active \ {old}
    BY <2>1, <2>2 DEF Active, Exists
  <2>6. SomeActive'
    <3> SUFFICES ASSUME NEW memories \in SUBSET Writes, Closed(memories)',
                        NEW k \in memories, Exists(k)'
                 PROVE  memories \cap Active' # {}
      BY DEF SomeActive
    <3>1. Exists(k)
      BY <2>2 DEF Exists
    <3>2. PICK a \in memories : a \in Active
      BY <1>1, <3>1 DEF TraceInv, SomeActive
    <3>3. a = old => carrier[c] \in memories
      BY <2>4 DEF Closed
    <3> QED BY <2>3, <2>5, <3>2, <3>3
  <2>7. CarriersHold'
    <3>1. \A w \in Writes : pc'[w] \in Acknowledging => pc[w] \in Acknowledging
      BY <1>0, <2>2 DEF TypeOK, Acknowledging
    <3> QED BY <2>2, <3>1 DEF TraceInv, CarriersHold
  <2> QED BY <2>6, <2>7 DEF TraceInv
<1>5. ASSUME NEW w \in Writes, Search(w) \/ Fetch(w) \/ FetchError(w) PROVE TraceInv'
  <2>1. UNCHANGED <<text, retired>>
    BY <1>5 DEF Search, SearchAmong, Fetch, FetchError, stored
  <2>2. pc'[w] \notin Acknowledging
    BY <1>0, <1>5 DEF Search, SearchAmong, Fetch, FetchError, TypeOK, Acknowledging
  <2>3. \A v \in Writes : v # w => pc'[v] = pc[v] /\ carrier'[v] = carrier[v]
    BY <1>0, <1>5 DEF Search, SearchAmong, Fetch, FetchError, TypeOK
  <2> QED BY <1>2, <2>1, <2>2, <2>3
<1>6. ASSUME NEW s \in Signals, SignalStep(s) PROVE TraceInv'
  <2>1. s \in Calls /\ s \notin Writes
    BY CallsAssumption DEF CallsAssumption, Calls
  <2>2. UNCHANGED <<text, retired>>
    BY <1>6 DEF SignalStep, SignalFetch, SignalDetect, stored
  <2>3. \A v \in Writes : pc'[v] = pc[v] /\ carrier'[v] = carrier[v]
    BY <1>0, <1>6, <2>1 DEF SignalStep, SignalFetch, SignalDetect, TypeOK
  <2> QED BY <1>2, <2>2, <2>3
<1>7. ASSUME NEW c \in Calls, CreateEdge(c) \/ BoostCarrier(c) \/ Fail(c) PROVE TraceInv'
  <2>1. UNCHANGED <<text, retired, carrier>>
    BY <1>7 DEF CreateEdge, BoostCarrier, Fail, stored, locals
  <2>2. \A v \in Writes : pc'[v] \in Acknowledging => pc[v] \in Acknowledging
    BY <1>0, <1>7 DEF CreateEdge, BoostCarrier, Fail, TypeOK, Acknowledging
  <2> QED BY <1>2, <2>1, <2>2
<1>8. ASSUME Crash \/ UNCHANGED vars PROVE TraceInv'
  <2>1. UNCHANGED <<text, retired, carrier>>
    BY <1>8 DEF Crash, vars, stored, locals
  <2>2. \A v \in Writes : pc'[v] \in Acknowledging => pc[v] \in Acknowledging
    BY <1>0, <1>8 DEF Crash, vars, InFlight, Acknowledging
  <2> QED BY <1>2, <2>1, <2>2
<1> QED BY <1>3, <1>4, <1>5, <1>6, <1>7, <1>8 DEF Next, WriteStep, ApplyStep, Quiescent

(* In the daemon what a caller was told is persisted stays within reach of *)
(* recall, whatever fails or crashes: it is in an active memory, or its    *)
(* memory leads to one.                                                    *)
THEOREM AcknowledgedReachable ==
    ASSUME SerialDispatch, Signals = {}
    PROVE  Spec => []AcknowledgedStaysTraceable
<1>1. LedgerInv /\ TraceInv => AcknowledgedStaysTraceable
  <2> SUFFICES ASSUME LedgerInv, TraceInv, NEW w \in Writes, pc[w] = "done"
               PROVE  /\ w \in text[carrier[w]]
                      /\ \A memories \in SUBSET Writes :
                           carrier[w] \in memories /\ Closed(memories) => memories \cap Active # {}
    BY DEF AcknowledgedStaysTraceable
  <2>1. carrier[w] \in Writes /\ w \in text[carrier[w]]
    BY DEF TraceInv, CarriersHold, Acknowledging
  <2>2. Exists(carrier[w])
    BY <2>1 DEF Exists
  <2> QED BY <2>1, <2>2 DEF TraceInv, SomeActive
<1>2. LedgerInv /\ TraceInv /\ [Next]_vars => LedgerInv' /\ TraceInv'
  BY LedgerKept, TraceStep
<1> QED BY <1>1, <1>2, InitLedger, InitTrace, PTL DEF Spec
=============================================================================
