------------------------ MODULE MemoryWatcherProofs ------------------------
(***************************************************************************)
(* Theorems about MemoryWatcher for every set of items, adapters and       *)
(* scanners, every capacity of the seen set and any number of failures.    *)
(***************************************************************************)
EXTENDS MemoryWatcher, TLAPS

-----------------------------------------------------------------------------
(* The seen set.                                                           *)

(* The place the look-up finds is a place of the item.                     *)
LEMMA PlaceFound ==
    ASSUME TypeOK, NEW i \in Items, Seen(i)
    PROVE  PlaceOf(i) \in 1..Len(seen) /\ seen[PlaceOf(i)] = i
<1>1. \E k \in DOMAIN seen : seen[k] = i
  BY DEF TypeOK, Seen, Contains
<1>2. PlaceOf(i) \in DOMAIN seen /\ seen[PlaceOf(i)] = i
  BY <1>1 DEF PlaceOf
<1> QED BY <1>2 DEF TypeOK

(* Making room takes the item itself or the evicted one out of the cache   *)
(* and leaves a free place.                                                *)
LEMMA KeptKeeps ==
    ASSUME TypeOK, NEW i \in Items
    PROVE  /\ Kept(i) \in Seq(Items)
           /\ Len(Kept(i)) < SeenMax
           /\ \A k \in 1..Len(seen) :
                seen[k] # i /\ seen[k] \notin Evicted(i) =>
                    \E n \in 1..Len(Kept(i)) : Kept(i)[n] = seen[k]
<1> USE DEF TypeOK
<1>1. CASE Seen(i)
  <2> DEFINE p == PlaceOf(i)
             before == SubSeq(seen, 1, p - 1)
             after == SubSeq(seen, p + 1, Len(seen))
  <2>1. p \in 1..Len(seen) /\ seen[p] = i
    BY <1>1, PlaceFound
  <2>2. Kept(i) = before \o after
    BY <1>1 DEF Kept, RemoveAt
  <2> HIDE DEF p
  <2>3. /\ before \in Seq(Items) /\ Len(before) = p - 1
        /\ \A n \in 1..p - 1 : before[n] = seen[n]
    BY <2>1
  <2>4. /\ after \in Seq(Items) /\ Len(after) = Len(seen) - p
        /\ \A n \in 1..Len(seen) - p : after[n] = seen[p + n]
    BY <2>1
  <2> HIDE DEF before, after
  <2>5. Kept(i) \in Seq(Items) /\ Len(Kept(i)) = Len(seen) - 1
    BY <2>1, <2>2, <2>3, <2>4
  <2>6. ASSUME NEW k \in 1..Len(seen), seen[k] # i
        PROVE  \E n \in 1..Len(Kept(i)) : Kept(i)[n] = seen[k]
    <3>1. CASE k < p
      <4>1. Kept(i)[k] = seen[k]
        BY <2>1, <2>2, <2>3, <2>4, <3>1
      <4> QED BY <4>1, <3>1, <2>1, <2>5
    <3>2. CASE k > p
      <4>1. Kept(i)[k - 1] = after[k - p]
        BY <2>1, <2>2, <2>3, <2>4, <3>2
      <4>2. after[k - p] = seen[k]
        BY <2>1, <2>4, <3>2
      <4> QED BY <4>1, <4>2, <3>2, <2>1, <2>5
    <3> QED BY <2>1, <2>6, <3>1, <3>2
  <2> QED BY <2>5, <2>6, WatcherAssumption
<1>2. CASE ~Seen(i) /\ Len(seen) = SeenMax
  <2>1. Kept(i) = Tail(seen) /\ Evicted(i) = {seen[1]} /\ seen # <<>>
    BY <1>2, WatcherAssumption DEF Kept, Overflows, Evicted
  <2>2. Tail(seen) \in Seq(Items) /\ Len(Tail(seen)) = SeenMax - 1
    BY <1>2, <2>1, WatcherAssumption
  <2>3. ASSUME NEW k \in 1..Len(seen), seen[k] \notin Evicted(i)
        PROVE  \E n \in 1..Len(Kept(i)) : Kept(i)[n] = seen[k]
    <3>1. k # 1 /\ k - 1 \in 1..Len(Tail(seen)) /\ Tail(seen)[k - 1] = seen[k]
      BY <1>2, <2>1, <2>2, <2>3
    <3> QED BY <3>1, <2>1
  <2> QED BY <2>1, <2>2, <2>3, WatcherAssumption
<1>3. CASE ~Seen(i) /\ Len(seen) # SeenMax
  BY <1>3, WatcherAssumption DEF Kept, Overflows
<1> QED BY <1>1, <1>2, <1>3

(* Marking an item puts it into the seen set, drops at most the evicted    *)
(* item, and keeps the capacity.                                           *)
LEMMA MarkedKeeps ==
    ASSUME TypeOK, NEW i \in Items
    PROVE  /\ Marked(i) \in Seq(Items) /\ Len(Marked(i)) <= SeenMax
           /\ i \in ToSet(Marked(i))
           /\ ToSet(seen) \ Evicted(i) \subseteq ToSet(Marked(i))
           /\ Evicted(i) \subseteq Items
<1> DEFINE kept == Kept(i)
<1>1. /\ kept \in Seq(Items) /\ Len(kept) < SeenMax
      /\ \A k \in 1..Len(seen) :
           seen[k] # i /\ seen[k] \notin Evicted(i) =>
               \E n \in 1..Len(kept) : kept[n] = seen[k]
  BY KeptKeeps
<1>2. Marked(i) = Append(kept, i)
  BY DEF Marked
<1> HIDE DEF kept
<1>3. /\ Marked(i) \in Seq(Items) /\ Len(Marked(i)) = Len(kept) + 1
      /\ Marked(i)[Len(kept) + 1] = i
      /\ \A n \in 1..Len(kept) : Marked(i)[n] = kept[n]
  BY <1>1, <1>2
<1>4. Len(Marked(i)) <= SeenMax
  BY <1>1, <1>3, WatcherAssumption
<1>5. \A x : x \in ToSet(Marked(i)) <=> \E n \in 1..Len(kept) + 1 : Marked(i)[n] = x
  BY <1>1, <1>3 DEF ToSet
<1>6. i \in ToSet(Marked(i))
  BY <1>1, <1>3, <1>5
<1>7. ASSUME NEW x \in ToSet(seen) \ Evicted(i)
      PROVE  x \in ToSet(Marked(i))
  <2>1. PICK k \in 1..Len(seen) : seen[k] = x
    BY DEF ToSet, TypeOK
  <2>2. CASE x = i
    BY <2>2, <1>6
  <2>3. CASE x # i
    <3>1. PICK n \in 1..Len(kept) : kept[n] = x
      BY <1>1, <2>1, <2>3
    <3> QED BY <3>1, <1>1, <1>3, <1>5
  <2> QED BY <2>2, <2>3
<1>8. Evicted(i) \subseteq Items
  BY WatcherAssumption DEF Evicted, Overflows, TypeOK
<1> QED BY <1>3, <1>4, <1>6, <1>7, <1>8

-----------------------------------------------------------------------------
(* Type correctness.                                                       *)

(* A cycle with something in its hand has a raw memory there, and no cycle *)
(* is under way while the process is down.                                 *)
HandsFull ==
    \A s \in Scanners :
        /\ pc[s] \in {"mark", "write"} => item[s] \in Items
        /\ phase = "down" => pc[s] = "idle"

TypeInv == TypeOK /\ HandsFull

LEMMA InitType == Init => TypeInv
BY WatcherAssumption
   DEF Init, TypeInv, TypeOK, HandsFull, Providers, Phases, Steps

LEMMA CycleType ==
    ASSUME TypeInv, NEW s \in Scanners, CycleStep(s) \/ ScanFails(s)
    PROVE  TypeInv'
<1> USE DEF TypeInv, TypeOK, HandsFull
<1>1. CASE Begin(s)
  BY <1>1 DEF Begin, NextStep, Steps, Providers
<1>2. CASE Scan(s)
  BY <1>2 DEF Scan, ScanResult, NextStep, Steps, Providers
<1>3. CASE ScanFails(s)
  BY <1>3, WatcherAssumption DEF ScanFails, NextStep, Steps, Providers
<1>4. CASE Check(s)
  BY <1>4 DEF Check, NextStep, Steps
<1>5. CASE Mark(s)
  <2>1. /\ Marked(item[s]) \in Seq(Items) /\ Len(Marked(item[s])) <= SeenMax
        /\ Evicted(item[s]) \subseteq Items
    BY <1>5, MarkedKeeps DEF Mark
  <2> QED BY <1>5, <2>1 DEF Mark, GoOn, NextStep, Steps
<1>6. CASE Write(s)
  <2> DEFINE n == IF copies[item[s]][s] < 2 THEN copies[item[s]][s] + 1 ELSE copies[item[s]][s]
             row == [copies[item[s]] EXCEPT ![s] = n]
  <2>1. item[s] \in Items /\ copies[item[s]][s] \in 0..2
    BY <1>6 DEF Write
  <2>2. n \in 0..2
    BY <2>1
  <2>3. Stored(item[s], s) = [copies EXCEPT ![item[s]] = row]
    BY DEF Stored
  <2> HIDE DEF n
  <2>4. row \in [Scanners -> 0..2]
    BY <2>1, <2>2
  <2> HIDE DEF row
  <2>5. Stored(item[s], s) \in [Items -> [Scanners -> 0..2]]
    BY <2>1, <2>3, <2>4
  <2> QED BY <1>6, <2>5 DEF Write, GoOn, NextStep, Steps
<1>7. CASE WriteFails(s)
  BY <1>7, WatcherAssumption DEF WriteFails, GoOn, NextStep, Steps
<1> QED BY <1>1, <1>2, <1>3, <1>4, <1>5, <1>6, <1>7 DEF CycleStep

LEMMA ProcessType ==
    ASSUME TypeInv, CloseStore \/ Stop \/ Dump \/ Exit \/ Crash \/ Start
    PROVE  TypeInv'
<1> USE WatcherAssumption DEF TypeInv, TypeOK, HandsFull, Phases, cycle
<1>1. ToSet(seen) \subseteq Items /\ ToSet(dumped) \subseteq Items
  BY DEF ToSet
<1>2. CASE CloseStore
  BY <1>2 DEF CloseStore
<1>3. CASE Stop
  BY <1>3 DEF Stop
<1>4. CASE Dump
  BY <1>4 DEF Dump
<1>5. CASE Exit
  BY <1>1, <1>5 DEF Exit, Gone, Steps
<1>6. CASE Crash
  <2>1. dumped' \in Seq(Items) /\ Len(dumped') <= SeenMax
    <3>1. dumped' = dumped \/ dumped' = <<>>
      BY <1>6 DEF Crash
    <3>2. <<>> \in Seq(Items) /\ Len(<<>>) = 0
      OBVIOUS
    <3>3. CASE dumped' = dumped
      BY <3>3
    <3>4. CASE dumped' = <<>>
      BY <3>2, <3>4
    <3> QED BY <3>1, <3>3, <3>4
  <2>2. forgotten' \in SUBSET Items
    BY <1>1, <1>6 DEF Crash
  <2>3. failures' \in 0..MaxFailures
    BY <1>6 DEF Crash
  <2> QED BY <1>6, <2>1, <2>2, <2>3 DEF Crash, Gone, Steps
<1>7. CASE Start
  BY <1>7 DEF Start, Providers
<1> QED BY <1>2, <1>3, <1>4, <1>5, <1>6, <1>7

LEMMA NextType == TypeInv /\ [Next]_vars => TypeInv'
<1> SUFFICES ASSUME TypeInv, [Next]_vars
             PROVE  TypeInv'
  OBVIOUS
<1> USE DEF TypeInv, TypeOK, HandsFull, cycle
<1>1. ASSUME NEW i \in Items, Publish(i)
      PROVE  TypeInv'
  BY <1>1 DEF Publish
<1>2. ASSUME NEW p \in Custom, Configure(p)
      PROVE  TypeInv'
  BY <1>2 DEF Configure, Providers
<1>3. CASE LoopEnds
  BY <1>3, WatcherAssumption DEF LoopEnds, Steps
<1>4. CASE UNCHANGED vars
  BY <1>4 DEF vars
<1> QED BY <1>1, <1>2, <1>3, <1>4, CycleType, ProcessType DEF Next

(* Every reachable state of the watcher is well typed: above all, the seen *)
(* set never outgrows its capacity (the cache's eviction).                 *)
THEOREM TypeCorrect == Spec => []TypeOK
<1>1. TypeInv => TypeOK
  BY DEF TypeInv
<1> QED BY <1>1, InitType, NextType, PTL DEF Spec

-----------------------------------------------------------------------------
(* A version is stored twice by one scanner only after it was forgotten.   *)

HasStored(i) == \E s \in Scanners : copies[i][s] > 0

(* A cycle about to mark or store a version has not stored it before; once *)
(* it marked it, the seen set has it.                                      *)
HandFresh ==
    \A s \in Scanners :
        pc[s] \in {"mark", "write"} /\ item[s] \notin forgotten =>
            /\ copies[item[s]][s] = 0
            /\ pc[s] = "write" => item[s] \in ToSet(seen)

(* The dump holds whatever was stored.                                     *)
DumpComplete ==
    phase = "dumped" /\ DataDir =>
        \A i \in Items \ forgotten : HasStored(i) => i \in ToSet(dumped)

OnceInv ==
    /\ TypeInv
    /\ StoredIsRemembered
    /\ RepeatNeedsForgetting
    /\ HandFresh
    /\ DumpComplete

LEMMA InitOnce == Init => OnceInv
BY InitType DEF Init, OnceInv, StoredIsRemembered, RepeatNeedsForgetting, HandFresh,
                DumpComplete, HasStored

(* A step that leaves the store, the seen set and the dump alone and takes *)
(* nothing new in hand changes nothing the invariant speaks of.            *)
LEMMA QuietStep ==
    ASSUME OnceInv,
           UNCHANGED <<copies, seen, dumped, forgotten>>,
           phase' = phase \/ (phase # "down" /\ phase' \in {"store_closed", "stopped"}),
           \A s \in Scanners : pc'[s] \in {"mark", "write"} =>
               pc'[s] = pc[s] /\ item'[s] = item[s]
    PROVE  /\ StoredIsRemembered' /\ RepeatNeedsForgetting'
           /\ HandFresh' /\ DumpComplete'
BY DEF OnceInv, StoredIsRemembered, RepeatNeedsForgetting, HandFresh, DumpComplete, HasStored

LEMMA QuietActions ==
    ASSUME OnceInv,
           \/ \E i \in Items : Publish(i)
           \/ \E p \in Custom : Configure(p)
           \/ \E s \in Scanners : Begin(s) \/ Scan(s) \/ ScanFails(s) \/ WriteFails(s)
           \/ LoopEnds
           \/ CloseStore \/ Stop
           \/ UNCHANGED vars
    PROVE  /\ StoredIsRemembered' /\ RepeatNeedsForgetting'
           /\ HandFresh' /\ DumpComplete'
<1> USE DEF OnceInv, TypeInv, TypeOK, cycle, NextStep
<1>1. UNCHANGED <<copies, seen, dumped, forgotten>>
  BY DEF Publish, Configure, Begin, Scan, ScanFails, WriteFails, LoopEnds, CloseStore, Stop, vars
<1>2. phase' = phase \/ (phase # "down" /\ phase' \in {"store_closed", "stopped"})
  BY DEF Publish, Configure, Begin, Scan, ScanFails, WriteFails, LoopEnds, CloseStore, Stop, vars
<1>3. \A s \in Scanners : pc'[s] \in {"mark", "write"} => pc'[s] = pc[s] /\ item'[s] = item[s]
  <2>1. ASSUME NEW t \in Scanners, Begin(t) \/ Scan(t) \/ ScanFails(t) \/ WriteFails(t)
        PROVE  \A s \in Scanners : pc'[s] \in {"mark", "write"} =>
                   pc'[s] = pc[s] /\ item'[s] = item[s]
    BY <2>1 DEF Begin, Scan, ScanFails, WriteFails, GoOn
  <2>2. CASE LoopEnds
    BY <2>2, WatcherAssumption DEF LoopEnds
  <2>3. CASE UNCHANGED <<pc, item>>
    BY <2>3
  <2> QED BY <2>1, <2>2, <2>3 DEF Publish, Configure, CloseStore, Stop, vars
<1> QED BY <1>1, <1>2, <1>3, QuietStep

(* A version that is not seen and was not forgotten has never been stored. *)
LEMMA CheckOnce ==
    ASSUME OnceInv, NEW s \in Scanners, Check(s)
    PROVE  /\ StoredIsRemembered' /\ RepeatNeedsForgetting'
           /\ HandFresh' /\ DumpComplete'
<1> USE DEF OnceInv, TypeInv, TypeOK, HandsFull
<1>1. /\ UNCHANGED <<copies, seen, dumped, forgotten, phase>>
      /\ phase # "down"
  BY DEF Check
<1>2. StoredIsRemembered' /\ RepeatNeedsForgetting' /\ DumpComplete'
  BY <1>1 DEF StoredIsRemembered, RepeatNeedsForgetting, DumpComplete, HasStored
<1>3. ASSUME NEW t \in Scanners, pc'[t] \in {"mark", "write"}, item'[t] \notin forgotten'
      PROVE  /\ copies'[item'[t]][t] = 0
             /\ pc'[t] = "write" => item'[t] \in ToSet(seen')
  <2>1. CASE t # s
    BY <1>1, <1>3, <2>1 DEF Check, HandFresh
  <2>2. CASE t = s
    <3>1. PICK i \in raws[s] :
            /\ pc' = [pc EXCEPT ![s] =
                        IF Seen(i) THEN NextStep(adapters[s], raws[s] \ {i}) ELSE "mark"]
            /\ item' = [item EXCEPT ![s] = IF Seen(i) THEN NoItem ELSE i]
      BY DEF Check
    <3>2. i \in Items /\ ~Seen(i) /\ item'[s] = i /\ pc'[s] = "mark"
      BY <1>3, <2>2, <3>1 DEF NextStep
    <3>3. i \notin ToSet(seen)
      BY <3>2 DEF Seen, Contains, ToSet
    <3>4. copies[i][s] \in Nat /\ ~(copies[i][s] > 0)
      BY <1>1, <1>3, <2>2, <3>2, <3>3 DEF StoredIsRemembered
    <3> QED BY <1>1, <2>2, <3>2, <3>4
  <2> QED BY <2>1, <2>2
<1> QED BY <1>2, <1>3 DEF HandFresh

LEMMA MarkOnce ==
    ASSUME OnceInv, NEW s \in Scanners, Mark(s)
    PROVE  /\ StoredIsRemembered' /\ RepeatNeedsForgetting'
           /\ HandFresh' /\ DumpComplete'
<1> USE DEF OnceInv, TypeInv, TypeOK, HandsFull
<1>1. /\ UNCHANGED <<copies, dumped, phase>>
      /\ phase # "down"
      /\ item[s] \in Items
      /\ seen' = Marked(item[s])
      /\ forgotten' = forgotten \cup Evicted(item[s])
  BY DEF Mark
<1>2. /\ item[s] \in ToSet(seen')
      /\ \A x \in ToSet(seen) : x \notin forgotten' => x \in ToSet(seen')
  BY <1>1, MarkedKeeps
<1>3. StoredIsRemembered' /\ RepeatNeedsForgetting' /\ DumpComplete'
  BY <1>1, <1>2 DEF StoredIsRemembered, RepeatNeedsForgetting, DumpComplete, HasStored
<1>4. \A t \in Scanners : pc'[t] \in {"mark", "write"} =>
          /\ item'[t] = item[t]
          /\ pc'[t] = pc[t] \/ (t = s /\ pc[t] = "mark")
  BY DEF Mark, GoOn, NextStep
<1>5. HandFresh'
  BY <1>1, <1>2, <1>4 DEF HandFresh
<1> QED BY <1>3, <1>5

(* The store's write: the item was not stored before by this scanner, and  *)
(* it was marked.                                                          *)
LEMMA WriteOnce ==
    ASSUME OnceInv, NEW s \in Scanners, Write(s)
    PROVE  /\ StoredIsRemembered' /\ RepeatNeedsForgetting'
           /\ HandFresh' /\ DumpComplete'
<1> USE DEF OnceInv, TypeInv, TypeOK, HandsFull
<1> DEFINE i == item[s]
<1>1. /\ UNCHANGED <<seen, dumped, phase, forgotten>>
      /\ phase = "up" /\ pc[s] = "write"
      /\ i \in Items
      /\ copies' = Stored(i, s)
  BY DEF Write, StoreOpen
<1>2. copies[i][s] \in 0..2
  BY <1>1
<1>3. /\ copies'[i][s] = IF copies[i][s] < 2 THEN copies[i][s] + 1 ELSE copies[i][s]
      /\ \A j \in Items : \A t \in Scanners :
           (j # i \/ t # s) => copies'[j][t] = copies[j][t]
  BY <1>1, <1>2 DEF Stored
<1>4. i \notin forgotten => copies[i][s] = 0 /\ i \in ToSet(seen)
  BY <1>1 DEF HandFresh
<1>5. RepeatNeedsForgetting'
  BY <1>1, <1>2, <1>3, <1>4 DEF RepeatNeedsForgetting
<1>6. StoredIsRemembered'
  BY <1>1, <1>3, <1>4 DEF StoredIsRemembered
<1>7. HandFresh'
  <2>1. \A t \in Scanners : pc'[t] \in {"mark", "write"} =>
            t # s /\ pc'[t] = pc[t] /\ item'[t] = item[t]
    BY DEF Write, GoOn, NextStep
  <2> QED BY <1>1, <1>3, <2>1 DEF HandFresh
<1>8. DumpComplete'
  BY <1>1 DEF DumpComplete
<1> QED BY <1>5, <1>6, <1>7, <1>8

(* The process ends and starts: what was stored is in the dump, or it is   *)
(* forgotten.                                                              *)
LEMMA ProcessOnce ==
    ASSUME OnceInv, Dump \/ Exit \/ Crash \/ Start
    PROVE  /\ StoredIsRemembered' /\ RepeatNeedsForgetting'
           /\ HandFresh' /\ DumpComplete'
<1> USE DEF OnceInv, TypeInv, TypeOK, HandsFull, HasStored, cycle
<1>1. copies' = copies /\ forgotten \subseteq forgotten'
  BY DEF Dump, Exit, Crash, Start, Gone
<1>2. RepeatNeedsForgetting'
  BY <1>1 DEF RepeatNeedsForgetting
<1>3. CASE Dump
  <2>1. StoredIsRemembered'
    BY <1>3 DEF Dump, StoredIsRemembered
  <2>2. DumpComplete'
    BY <1>3 DEF Dump, StoredIsRemembered, DumpComplete
  <2>3. HandFresh'
    BY <1>3 DEF Dump, HandFresh
  <2> QED BY <1>2, <2>1, <2>2, <2>3
<1>4. CASE Exit \/ Crash
  <2>1. HandFresh' /\ DumpComplete'
    BY <1>4 DEF Exit, Crash, Gone, HandFresh, DumpComplete
  <2>2. ASSUME NEW i \in Items \ forgotten', HasStored(i)
        PROVE  i \in ToSet(dumped')
    <3>1. i \in ToSet(seen) /\ i \notin forgotten
      BY <1>1, <1>4, <2>2 DEF Exit, Crash, StoredIsRemembered
    <3>2. CASE Exit
      BY <2>2, <3>1, <3>2 DEF Exit, DumpComplete
    <3>3. CASE Crash
      BY <2>2, <3>1, <3>3 DEF Crash
    <3> QED BY <1>4, <3>2, <3>3
  <2>3. phase' = "down"
    BY <1>4 DEF Exit, Crash, Gone
  <2>4. StoredIsRemembered'
    BY <1>1, <2>2, <2>3 DEF StoredIsRemembered
  <2> QED BY <1>2, <2>1, <2>4
<1>5. CASE Start
  BY <1>2, <1>5 DEF Start, StoredIsRemembered, HandFresh, DumpComplete
<1> QED BY <1>3, <1>4, <1>5

LEMMA NextOnce == OnceInv /\ [Next]_vars => OnceInv'
BY NextType, QuietActions, CheckOnce, MarkOnce, WriteOnce, ProcessOnce
   DEF OnceInv, Next, CycleStep

(* One scanner stores a version of a memory a second time only after the   *)
(* seen set lost it to an eviction, a crash or an exit without a data      *)
(* directory (scanAll marks before it writes, App.Close closes the store   *)
(* before the dump).                                                       *)
THEOREM OnceUnlessForgotten == Spec => []RepeatNeedsForgetting
<1>1. OnceInv => RepeatNeedsForgetting
  BY DEF OnceInv
<1> QED BY <1>1, InitOnce, NextOnce, PTL DEF Spec

(* What was stored and not forgotten stays in the seen set, and in the     *)
(* dumped one while the process is down.                                   *)
THEOREM RememberedUnlessForgotten == Spec => []StoredIsRemembered
<1>1. OnceInv => StoredIsRemembered
  BY DEF OnceInv
<1> QED BY <1>1, InitOnce, NextOnce, PTL DEF Spec
=============================================================================
