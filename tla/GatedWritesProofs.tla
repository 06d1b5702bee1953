------------------------- MODULE GatedWritesProofs -------------------------
(***************************************************************************)
(* Theorems about the ring buffer and the gated writes, for every ring     *)
(* size, every set of writes and events, and any interleaving.             *)
(***************************************************************************)
EXTENDS GatedWrites, FiniteSetTheorems, SequenceTheorems, TLAPS

-----------------------------------------------------------------------------
(* The ring.                                                               *)

(* Going once around the ring at most, the modulus is one comparison.      *)
LEMMA WrapOnce ==
    ASSUME NEW x \in Nat, x < 2 * MaxSize
    PROVE  x % MaxSize = IF x < MaxSize THEN x ELSE x - MaxSize
BY RingAssumption

LEMMA NewRingType == NewRing \in Ring
BY RingAssumption DEF NewRing, Ring

LEMMA PushType ==
    ASSUME NEW r \in Ring, NEW s \in Summaries
    PROVE  Push(r, s) \in Ring
<1>1. (r.head + 1) % MaxSize \in 0..MaxSize - 1
  BY RingAssumption, WrapOnce DEF Ring
<1> QED BY <1>1, RingAssumption DEF Ring, Push

(* A read touches slots of the ring only.                                  *)
LEMMA SlotBounds ==
    ASSUME NEW r \in Ring, NEW i \in 1..r.size
    PROVE  /\ Slot(r, i) \in 0..MaxSize - 1
           /\ Slot(r, i) = IF r.head + i - 1 < r.size
                           THEN r.head - r.size + (i - 1) + MaxSize
                           ELSE r.head - r.size + (i - 1)
<1> DEFINE x == r.head - r.size + (i - 1) + MaxSize
<1>1. x \in Nat /\ x < 2 * MaxSize
  BY RingAssumption DEF Ring
<1>2. x % MaxSize = IF x < MaxSize THEN x ELSE x - MaxSize
  BY <1>1, WrapOnce
<1>3. Slot(r, i) = IF x < MaxSize THEN x ELSE x - MaxSize
  BY <1>2 DEF Slot
<1> QED BY <1>1, <1>3, RingAssumption DEF Ring

(* Reading a ring gives a sequence as long as its size.                    *)
LEMMA GetAllSeq ==
    ASSUME NEW r \in Ring
    PROVE  /\ GetAll(r) \in Seq(Summaries \cup {NoSummary})
           /\ Len(GetAll(r)) = r.size
           /\ \A i \in 1..r.size : GetAll(r)[i] = r.items[Slot(r, i)]
<1>1. \A i \in 1..r.size : r.items[Slot(r, i)] \in Summaries \cup {NoSummary}
  BY SlotBounds DEF Ring
<1>2. r.size \in Nat
  BY RingAssumption DEF Ring
<1> QED BY <1>1, <1>2 DEF GetAll

(* A push moves the head around by one slot and writes the old head.       *)
LEMMA PushMoves ==
    ASSUME NEW r \in Ring, NEW s \in Summaries
    PROVE  /\ Push(r, s) \in Ring
           /\ Push(r, s).head = IF r.head + 1 < MaxSize THEN r.head + 1 ELSE 0
           /\ Push(r, s).size = IF r.size < MaxSize THEN r.size + 1 ELSE MaxSize
           /\ \A j \in 0..MaxSize - 1 :
                 Push(r, s).items[j] = IF j = r.head THEN s ELSE r.items[j]
<1>1. (r.head + 1) % MaxSize = IF r.head + 1 < MaxSize THEN r.head + 1 ELSE 0
  BY RingAssumption, WrapOnce DEF Ring
<1> QED BY <1>1, PushType, RingAssumption DEF Push, Ring

(* A push into a ring that has room appends.                               *)
LEMMA PushWithRoom ==
    ASSUME NEW r \in Ring, NEW s \in Summaries, r.size < MaxSize
    PROVE  GetAll(Push(r, s)) = Append(GetAll(r), s)
<1> DEFINE q == Push(r, s)
<1>1. /\ q \in Ring /\ q.size = r.size + 1
      /\ q.head = IF r.head + 1 < MaxSize THEN r.head + 1 ELSE 0
      /\ \A j \in 0..MaxSize - 1 : q.items[j] = IF j = r.head THEN s ELSE r.items[j]
  BY PushMoves
<1>2. r.size \in 0..MaxSize /\ r.head \in 0..MaxSize - 1 /\ MaxSize \in Nat \ {0}
  BY RingAssumption DEF Ring
<1> HIDE DEF q
<1>3. ASSUME NEW i \in 1..r.size
      PROVE  GetAll(q)[i] = GetAll(r)[i]
  <2>1. Slot(q, i) = IF q.head + i - 1 < q.size THEN q.head - q.size + (i - 1) + MaxSize
                                                ELSE q.head - q.size + (i - 1)
    BY <1>1, <1>2, SlotBounds
  <2>2. Slot(r, i) = IF r.head + i - 1 < r.size THEN r.head - r.size + (i - 1) + MaxSize
                                                ELSE r.head - r.size + (i - 1)
    BY SlotBounds
  <2>3. Slot(q, i) = Slot(r, i) /\ Slot(r, i) # r.head
    BY <1>1, <1>2, <2>1, <2>2
  <2>4. q.items[Slot(q, i)] = r.items[Slot(r, i)]
    BY <1>1, <2>3, SlotBounds
  <2> QED BY <1>1, <1>2, <2>4, GetAllSeq
<1>4. GetAll(q)[r.size + 1] = s
  <2>1. Slot(q, r.size + 1) = r.head
    BY <1>1, <1>2, SlotBounds
  <2> QED BY <1>1, <1>2, <2>1, GetAllSeq
<1> DEFINE S == Summaries \cup {NoSummary}
<1>5. /\ GetAll(q) \in Seq(S) /\ Len(GetAll(q)) = r.size + 1
      /\ GetAll(r) \in Seq(S) /\ Len(GetAll(r)) = r.size
  BY <1>1, GetAllSeq
<1> HIDE DEF S
<1>6. s \in S
  BY DEF S
<1>7. Append(GetAll(r), s) \in Seq(S) /\ Len(Append(GetAll(r), s)) = r.size + 1
  BY <1>5, <1>6
<1>8. \A i \in 1..r.size + 1 : GetAll(q)[i] = Append(GetAll(r), s)[i]
  BY <1>2, <1>3, <1>4, <1>5
<1>9. GetAll(q) = Append(GetAll(r), s)
  BY <1>5, <1>7, <1>8, SeqEqual
<1> QED BY <1>9 DEF q

(* A push into a full ring drops the oldest summary.                       *)
LEMMA PushWhenFull ==
    ASSUME NEW r \in Ring, NEW s \in Summaries, r.size = MaxSize
    PROVE  GetAll(Push(r, s)) = Append(Tail(GetAll(r)), s)
<1> DEFINE q == Push(r, s)
<1>1. r.head \in 0..MaxSize - 1 /\ MaxSize \in Nat \ {0}
  BY RingAssumption DEF Ring
<1>2. /\ q \in Ring /\ q.size = MaxSize
      /\ q.head = IF r.head + 1 < MaxSize THEN r.head + 1 ELSE 0
      /\ \A j \in 0..MaxSize - 1 : q.items[j] = IF j = r.head THEN s ELSE r.items[j]
  BY <1>1, PushMoves
<1> HIDE DEF q
<1>3. ASSUME NEW i \in 1..MaxSize - 1
      PROVE  GetAll(q)[i] = GetAll(r)[i + 1]
  <2>1. Slot(q, i) = IF q.head + i - 1 < q.size THEN q.head - q.size + (i - 1) + MaxSize
                                                ELSE q.head - q.size + (i - 1)
    BY <1>1, <1>2, SlotBounds
  <2>2. /\ Slot(r, i + 1) \in 0..MaxSize - 1
        /\ Slot(r, i + 1) = IF r.head + i < r.size THEN r.head - r.size + i + MaxSize
                                                  ELSE r.head - r.size + i
    BY <1>1, SlotBounds
  <2>3. Slot(q, i) = Slot(r, i + 1) /\ Slot(r, i + 1) # r.head
    BY <1>1, <1>2, <2>1, <2>2
  <2>4. q.items[Slot(q, i)] = r.items[Slot(r, i + 1)]
    BY <1>2, <2>2, <2>3
  <2> QED BY <1>1, <1>2, <2>4, GetAllSeq
<1>4. GetAll(q)[MaxSize] = s
  <2>1. Slot(q, MaxSize) = r.head
    BY <1>1, <1>2, SlotBounds
  <2> QED BY <1>1, <1>2, <2>1, GetAllSeq
<1> DEFINE S == Summaries \cup {NoSummary}
<1>5. /\ GetAll(q) \in Seq(S) /\ Len(GetAll(q)) = MaxSize
      /\ GetAll(r) \in Seq(S) /\ Len(GetAll(r)) = MaxSize
  BY <1>2, GetAllSeq
<1> HIDE DEF S
<1>6. s \in S
  BY DEF S
<1>7. /\ Tail(GetAll(r)) \in Seq(S) /\ Len(Tail(GetAll(r))) = MaxSize - 1
      /\ \A i \in 1..MaxSize - 1 : Tail(GetAll(r))[i] = GetAll(r)[i + 1]
  <2>1. GetAll(r) # <<>>
    BY <1>1, <1>5
  <2> QED BY <1>5, <2>1, HeadTailProperties
<1> DEFINE t == Append(Tail(GetAll(r)), s)
<1>8. t \in Seq(S) /\ Len(t) = MaxSize
  BY <1>1, <1>6, <1>7
<1>9. \A i \in 1..MaxSize : GetAll(q)[i] = t[i]
  BY <1>1, <1>3, <1>4, <1>7
<1>10. GetAll(q) = t
  BY <1>5, <1>8, <1>9, SeqEqual
<1> QED BY <1>10 DEF q

(* The ring holds, newest last, what it held before, the oldest summary    *)
(* dropped when it was full.                                               *)
LEMMA PushContents ==
    ASSUME NEW r \in Ring, NEW s \in Summaries
    PROVE  \E d \in {0, 1} : \A i \in 1..Push(r, s).size :
             IF i = Push(r, s).size THEN GetAll(Push(r, s))[i] = s
             ELSE /\ i + d \in 1..r.size
                  /\ GetAll(Push(r, s))[i] = GetAll(r)[i + d]
<1> DEFINE S == Summaries \cup {NoSummary}
<1>1. /\ GetAll(r) \in Seq(S) /\ Len(GetAll(r)) = r.size /\ s \in S
      /\ r.size \in 0..MaxSize /\ MaxSize \in Nat \ {0}
      /\ Push(r, s).size = IF r.size < MaxSize THEN r.size + 1 ELSE MaxSize
  BY GetAllSeq, PushMoves, RingAssumption DEF Ring
<1> HIDE DEF S
<1>2. CASE r.size < MaxSize
  <2>1. \A i \in 1..Push(r, s).size :
          IF i = Push(r, s).size THEN GetAll(Push(r, s))[i] = s
          ELSE /\ i + 0 \in 1..r.size
               /\ GetAll(Push(r, s))[i] = GetAll(r)[i + 0]
    <3> DEFINE t == GetAll(r)
    <3>1. GetAll(Push(r, s)) = Append(t, s) /\ Push(r, s).size = r.size + 1
      BY <1>1, <1>2, PushWithRoom
    <3>2. t \in Seq(S) /\ Len(t) = r.size
      BY <1>1
    <3>3. \A i \in 1..r.size : i + 0 = i
      BY <1>1
    <3> HIDE DEF t
    <3>4. \A i \in 1..r.size + 1 : Append(t, s)[i] = IF i = r.size + 1 THEN s ELSE t[i]
      BY <1>1, <3>2
    <3> QED BY <1>1, <3>1, <3>3, <3>4 DEF t
  <2> QED BY <2>1
<1>3. CASE r.size = MaxSize
  <2>1. /\ Tail(GetAll(r)) \in Seq(S) /\ Len(Tail(GetAll(r))) = MaxSize - 1
        /\ \A i \in 1..MaxSize - 1 : Tail(GetAll(r))[i] = GetAll(r)[i + 1]
    <3>1. GetAll(r) # <<>>
      BY <1>1, <1>3
    <3> QED BY <1>1, <1>3, <3>1, HeadTailProperties
  <2>2. \A i \in 1..Push(r, s).size :
          IF i = Push(r, s).size THEN GetAll(Push(r, s))[i] = s
          ELSE /\ i + 1 \in 1..r.size
               /\ GetAll(Push(r, s))[i] = GetAll(r)[i + 1]
    <3> DEFINE t == Tail(GetAll(r))
    <3>1. GetAll(Push(r, s)) = Append(t, s) /\ Push(r, s).size = MaxSize
      BY <1>1, <1>3, PushWhenFull
    <3>2. t \in Seq(S) /\ Len(t) = MaxSize - 1 /\ \A i \in 1..MaxSize - 1 : t[i] = GetAll(r)[i + 1]
      BY <2>1
    <3> HIDE DEF t
    <3> QED BY <1>1, <1>3, <3>1, <3>2
  <2> QED BY <2>2
<1> QED BY <1>1, <1>2, <1>3

-----------------------------------------------------------------------------
(* Type correctness.                                                       *)

LEMMA InitType == Init => TypeOK
BY NewRingType, GateAssumption DEF Init, TypeOK, Steps

LEMMA NextType == TypeOK /\ [Next]_vars => TypeOK'
<1> SUFFICES ASSUME TypeOK, [Next]_vars
             PROVE  TypeOK'
  OBVIOUS
<1> USE DEF TypeOK, Steps, InFlight
<1>1. ASSUME NEW w \in Writes, Gate(w)
      PROVE  TypeOK'
  <2>1. Evaluate(w, GetAll(cycles[ProjectOf(w)])) \in Accepting \cup {"below_threshold"}
    BY DEF Evaluate, Accepting
  <2> QED BY <1>1, <2>1 DEF Gate, AfterGate
<1>2. ASSUME NEW w \in Writes, Merge(w) \/ Create(w) \/ Fail(w)
      PROVE  TypeOK'
  BY <1>2 DEF Merge, Create, Fail
<1>3. ASSUME NEW w \in Writes, PushCycle(w)
      PROVE  TypeOK'
  <2>1. ProjectOf(w) \in Projects
    BY GateAssumption DEF ProjectOf
  <2>2. Push(cycles[ProjectOf(w)], w) \in Ring
    BY <2>1, PushType DEF Writes
  <2> QED BY <1>3, <2>1, <2>2 DEF PushCycle
<1>4. ASSUME NEW p \in Projects, ResetSession(p) \/ DeleteRows(p) \/ DeleteCycles(p)
      PROVE  TypeOK'
  BY <1>4, NewRingType DEF ResetSession, DeleteRows, DeleteCycles, Clear, Emptied, Begun
<1>5. CASE Idle \/ UNCHANGED vars
  BY <1>5 DEF Idle, vars
<1> QED BY <1>1, <1>2, <1>3, <1>4, <1>5 DEF Next

(* The buffer, the rows and every write are well-formed in every reachable *)
(* state.                                                                  *)
THEOREM TypeCorrect == Spec => []TypeOK
BY InitType, NextType, PTL DEF Spec

-----------------------------------------------------------------------------
(* Repetition alone never makes a memory.  The inductive argument: a ring  *)
(* holds distinct writes that were accepted and pushed for its project, so *)
(* two similar cycles are two pushed writes; if one of them carries no     *)
(* mark it was itself let through by repetition, and its two supporters    *)
(* support the new write too.                                              *)

RingsHoldPushed ==
    \A p \in Projects : \A i \in 1..cycles[p].size :
        LET u == GetAll(cycles[p])[i]
        IN  u \in Writes /\ pc[u] = "pushed" /\ ProjectOf(u) = p

RingsDistinct ==
    \A p \in Projects : \A i, j \in 1..cycles[p].size :
        i # j => GetAll(cycles[p])[i] # GetAll(cycles[p])[j]

(* A write on its way to the ring was accepted, for repetition or a mark.  *)
AcceptedForCause ==
    \A w \in Writes : pc[w] \in {"persist", "push", "pushed"} =>
        Marked(w) \/ verdict[w] = "cross_cycle_persistence"

(* Two marked writes of w's project were pushed before.                    *)
Supported(w) ==
    \E u, v \in Writes :
        /\ u # v
        /\ \A x \in {u, v} : Marked(x) /\ pc[x] = "pushed" /\ ProjectOf(x) = ProjectOf(w)

RepInv ==
    /\ TypeOK
    /\ RingsHoldPushed
    /\ RingsDistinct
    /\ AcceptedForCause
    /\ RepetitionAloneNeverPersists

(* A judged write cannot become unjudged, and a pushed one stays so.       *)
LEMMA PushedStays ==
    ASSUME TypeOK, [Next]_vars, NEW u \in Writes, pc[u] = "pushed"
    PROVE  pc'[u] = "pushed" /\ event' = event
<1>1. ASSUME NEW w \in Writes, Gate(w) \/ Merge(w) \/ Create(w) \/ Fail(w) \/ PushCycle(w)
      PROVE  pc'[u] = "pushed" /\ event' = event
    BY <1>1 DEF TypeOK, InFlight, Gate, Merge, Create, Fail, PushCycle
<1>2. ASSUME NEW p \in Projects, ResetSession(p) \/ DeleteRows(p) \/ DeleteCycles(p)
      PROVE  pc'[u] = "pushed" /\ event' = event
    BY <1>2 DEF ResetSession, DeleteRows, DeleteCycles
<1> QED BY <1>1, <1>2 DEF Next, vars, Idle

LEMMA SupportStays ==
    ASSUME TypeOK, [Next]_vars, NEW w \in Writes, Supported(w)
    PROVE  Supported(w)'
<1>1. PICK u \in Writes, v \in Writes :
        /\ u # v
        /\ \A x \in {u, v} : Marked(x) /\ pc[x] = "pushed" /\ ProjectOf(x) = ProjectOf(w)
  BY DEF Supported
<1>2. pc'[u] = "pushed" /\ pc'[v] = "pushed" /\ event' = event
  BY <1>1, PushedStays
<1> QED BY <1>1, <1>2 DEF Supported, Marked, ProjectOf

(* Two similar cycles at least mean two different similar writes.          *)
LEMMA TwoCyclesTwoWrites ==
    ASSUME RepInv, NEW w \in Writes,
           RecentCycles(w, GetAll(cycles[ProjectOf(w)])) >= MinCrossCycleCount
    PROVE  \E u, v \in Writes :
             /\ u # v
             /\ \A x \in {u, v} : pc[x] = "pushed" /\ ProjectOf(x) = ProjectOf(w)
<1> DEFINE r == cycles[ProjectOf(w)]
           seen == GetAll(r)
           Alike == {i \in DOMAIN seen : Similar(w, seen[i])}
<1>1. ProjectOf(w) \in Projects /\ r \in Ring /\ r.size \in Nat
  BY GateAssumption, RingAssumption DEF RepInv, TypeOK, ProjectOf, Ring
<1>2. DOMAIN seen = 1..r.size
  BY DEF GetAll
<1>3. IsFiniteSet(Alike) /\ Alike \subseteq 1..r.size
  <2>1. Alike \subseteq 1..r.size
    BY <1>2
  <2>2. IsFiniteSet(1..r.size)
    BY <1>1, FS_Interval
  <2> HIDE DEF Alike
  <2> QED BY <2>1, <2>2, FS_Subset
<1>4. Cardinality(Alike) >= 2
  <2>1. Cardinality(Alike) \in Nat
    BY <1>3, FS_CardinalityType
  <2>2. Cardinality(Alike) >= MinCrossCycleCount
    BY DEF RecentCycles
  <2> HIDE DEF Alike
  <2> QED BY <2>1, <2>2, GateAssumption
<1> HIDE DEF Alike
<1>5. PICK i \in Alike, j \in Alike : i # j
  <2>1. PICK i \in Alike : TRUE
    BY <1>4, FS_EmptySet
  <2>2. Cardinality({i}) = 1
    BY FS_Singleton
  <2>3. Alike # {i}
    BY <1>4, <2>2
  <2> QED BY <2>1, <2>3
<1>6. /\ seen[i] \in Writes /\ pc[seen[i]] = "pushed" /\ ProjectOf(seen[i]) = ProjectOf(w)
      /\ seen[j] \in Writes /\ pc[seen[j]] = "pushed" /\ ProjectOf(seen[j]) = ProjectOf(w)
      /\ seen[i] # seen[j]
  BY <1>1, <1>3, <1>5 DEF RepInv, RingsHoldPushed, RingsDistinct
<1> QED BY <1>6

LEMMA TwoCyclesSupport ==
    ASSUME RepInv, NEW w \in Writes,
           RecentCycles(w, GetAll(cycles[ProjectOf(w)])) >= MinCrossCycleCount
    PROVE  Supported(w)
<1>1. PICK u \in Writes, v \in Writes :
        /\ u # v
        /\ \A x \in {u, v} : pc[x] = "pushed" /\ ProjectOf(x) = ProjectOf(w)
  BY TwoCyclesTwoWrites
<1>2. CASE Marked(u) /\ Marked(v)
  BY <1>1, <1>2 DEF Supported
<1>3. ASSUME NEW x \in {u, v}, ~Marked(x)
      PROVE  Supported(w)
  <2>1. verdict[x] = "cross_cycle_persistence"
    BY <1>1, <1>3 DEF RepInv, AcceptedForCause
  <2>2. Supported(x)
    BY <1>1, <2>1 DEF RepInv, RepetitionAloneNeverPersists, Supported
  <2> QED BY <1>1, <2>2 DEF Supported
<1> QED BY <1>2, <1>3

LEMMA InitRep == Init => RepInv
BY InitType DEF Init, RepInv, RingsHoldPushed, RingsDistinct, AcceptedForCause,
                RepetitionAloneNeverPersists, NewRing

(* The write that pushes is not in the ring yet, as it has not pushed.     *)
LEMMA PushKeepsRings ==
    ASSUME RepInv, NEW w \in Writes, PushCycle(w)
    PROVE  RingsHoldPushed' /\ RingsDistinct'
<1> DEFINE p == ProjectOf(w)
           r == cycles[p]
           q == Push(r, w)
<1>1. /\ p \in Projects /\ r \in Ring /\ w \in Summaries
      /\ cycles' = [cycles EXCEPT ![p] = q]
      /\ pc[w] = "push" /\ pc' = [pc EXCEPT ![w] = "pushed"]
      /\ event' = event
      /\ cycles \in [Projects -> Ring] /\ pc \in [Writes -> Steps]
  BY GateAssumption DEF RepInv, TypeOK, ProjectOf, PushCycle, Writes
<1>2. PICK d \in {0, 1} : \A i \in 1..q.size :
        IF i = q.size THEN GetAll(q)[i] = w
        ELSE i + d \in 1..r.size /\ GetAll(q)[i] = GetAll(r)[i + d]
  BY <1>1, PushContents
<1>3. \A i \in 1..r.size : /\ GetAll(r)[i] \in Writes /\ pc[GetAll(r)[i]] = "pushed"
                           /\ ProjectOf(GetAll(r)[i]) = p
  BY <1>1 DEF RepInv, RingsHoldPushed
<1>4. \A i, j \in 1..r.size : i # j => GetAll(r)[i] # GetAll(r)[j]
  BY <1>1 DEF RepInv, RingsDistinct
<1>5. \A k \in Projects : ProjectOf(w)' = p /\ cycles'[k] = IF k = p THEN q ELSE cycles[k]
  BY <1>1 DEF ProjectOf
<1> HIDE DEF q, r
<1>6. \A i \in 1..q.size : /\ GetAll(q)[i] \in Writes /\ pc'[GetAll(q)[i]] = "pushed"
                           /\ ProjectOf(GetAll(q)[i]) = p
  BY <1>1, <1>2, <1>3
<1>7. \A i, j \in 1..q.size : i # j => GetAll(q)[i] # GetAll(q)[j]
  <2> SUFFICES ASSUME NEW i \in 1..q.size, NEW j \in 1..q.size, i # j,
                      GetAll(q)[i] = GetAll(q)[j]
               PROVE  FALSE
    OBVIOUS
  <2>1. CASE i = q.size \/ j = q.size
    BY <1>1, <1>2, <1>3, <2>1
  <2>2. CASE i # q.size /\ j # q.size
    <3>1. i + d \in 1..r.size /\ j + d \in 1..r.size /\ i + d # j + d
      BY <1>2, <2>2
    <3>2. GetAll(r)[i + d] = GetAll(r)[j + d]
      BY <1>2, <2>2
    <3> QED BY <1>4, <3>1, <3>2
  <2> QED BY <2>1, <2>2
<1>8. RingsHoldPushed'
  <2> SUFFICES ASSUME NEW k \in Projects, NEW i \in 1..cycles'[k].size
               PROVE  /\ GetAll(cycles'[k])[i] \in Writes
                      /\ pc'[GetAll(cycles'[k])[i]] = "pushed"
                      /\ event'[GetAll(cycles'[k])[i]].project = k
    BY DEF RingsHoldPushed, ProjectOf
  <2>1. CASE k = p
    BY <1>1, <1>5, <1>6, <2>1 DEF ProjectOf
  <2>2. CASE k # p
    BY <1>1, <1>5, <2>2 DEF RepInv, RingsHoldPushed, ProjectOf
  <2> QED BY <2>1, <2>2
<1>9. RingsDistinct'
  <2> SUFFICES ASSUME NEW k \in Projects, NEW i \in 1..cycles'[k].size,
                      NEW j \in 1..cycles'[k].size, i # j
               PROVE  GetAll(cycles'[k])[i] # GetAll(cycles'[k])[j]
    BY DEF RingsDistinct
  <2>1. CASE k = p
    BY <1>5, <1>7, <2>1
  <2>2. CASE k # p
    BY <1>5, <2>2 DEF RepInv, RingsDistinct
  <2> QED BY <2>1, <2>2
<1> QED BY <1>8, <1>9

(* A clear leaves an empty ring; nothing else touches the rings.           *)
LEMMA RingsStay ==
    ASSUME RepInv, [Next]_vars
    PROVE  RingsHoldPushed' /\ RingsDistinct'
<1>1. ASSUME NEW w \in Writes, PushCycle(w)
      PROVE  RingsHoldPushed' /\ RingsDistinct'
  BY <1>1, PushKeepsRings
<1>2. ASSUME UNCHANGED cycles
      PROVE  RingsHoldPushed' /\ RingsDistinct'
  BY <1>2, PushedStays DEF RepInv, RingsHoldPushed, RingsDistinct, ProjectOf
<1>3. ASSUME NEW p \in Projects, Clear(p)
      PROVE  RingsHoldPushed' /\ RingsDistinct'
  <2>1. /\ \A k \in Projects : cycles'[k] = IF k = p THEN NewRing ELSE cycles[k]
        /\ NewRing.size = 0
    BY <1>3 DEF Clear, Emptied, NewRing, RepInv, TypeOK
  <2>2. \A k \in Projects : \A i \in 1..cycles'[k].size : k # p /\ cycles'[k] = cycles[k]
    BY <2>1
  <2>3. RingsHoldPushed'
    BY <2>2, PushedStays DEF RepInv, RingsHoldPushed, ProjectOf
  <2>4. RingsDistinct'
    BY <2>2 DEF RepInv, RingsDistinct
  <2> QED BY <2>3, <2>4
<1>4. ASSUME NEW w \in Writes, Gate(w) \/ Merge(w) \/ Create(w) \/ Fail(w)
      PROVE  UNCHANGED cycles
  BY <1>4 DEF Gate, Merge, Create, Fail
<1>5. ASSUME NEW p \in Projects, ResetSession(p) \/ DeleteRows(p) \/ DeleteCycles(p)
      PROVE  Clear(p) \/ UNCHANGED cycles
  BY <1>5 DEF ResetSession, DeleteRows, DeleteCycles
<1>6. Idle \/ UNCHANGED vars => UNCHANGED cycles
  BY DEF Idle, vars
<1> QED BY <1>1, <1>2, <1>3, <1>4, <1>5, <1>6 DEF Next

(* What the gate decided, by the step that decides it and the later ones.  *)
LEMMA CauseStays ==
    ASSUME RepInv, [Next]_vars
    PROVE  AcceptedForCause'
<1> USE DEF RepInv, TypeOK, AcceptedForCause, Marked
<1>1. ASSUME NEW w \in Writes, Gate(w)
      PROVE  AcceptedForCause'
  <2> DEFINE reason == Evaluate(w, GetAll(cycles[ProjectOf(w)]))
  <2>1. reason \in Accepting => Marked(w) \/ reason = "cross_cycle_persistence"
    BY DEF Evaluate, Accepting
  <2>2. /\ verdict' = [verdict EXCEPT ![w] = reason] /\ event' = event
        /\ pc' = [pc EXCEPT ![w] = IF reason \in Accepting THEN "persist" ELSE "rejected"]
    BY <1>1 DEF Gate, AfterGate
  <2> HIDE DEF reason
  <2> QED BY <2>1, <2>2
<1>2. ASSUME NEW w \in Writes, Merge(w) \/ Create(w) \/ Fail(w) \/ PushCycle(w)
      PROVE  AcceptedForCause'
  BY <1>2 DEF Merge, Create, Fail, PushCycle
<1>3. ASSUME NEW p \in Projects, ResetSession(p) \/ DeleteRows(p) \/ DeleteCycles(p)
      PROVE  AcceptedForCause'
  BY <1>3 DEF ResetSession, DeleteRows, DeleteCycles
<1>4. CASE Idle \/ UNCHANGED vars
  BY <1>4 DEF Idle, vars
<1> HIDE DEF RepInv, TypeOK, AcceptedForCause, Marked
<1> QED BY <1>1, <1>2, <1>3, <1>4 DEF Next

LEMMA RepetitionStays ==
    ASSUME RepInv, [Next]_vars
    PROVE  RepetitionAloneNeverPersists'
<1> SUFFICES ASSUME NEW w \in Writes, verdict'[w] = "cross_cycle_persistence"
             PROVE  Supported(w)'
  BY DEF RepetitionAloneNeverPersists, Supported
<1>1. CASE verdict[w] = "cross_cycle_persistence"
  BY <1>1, SupportStays DEF RepInv, RepetitionAloneNeverPersists, Supported
<1>2. ASSUME NEW v \in Writes, Gate(v), verdict[w] # "cross_cycle_persistence"
      PROVE  Supported(w)'
  <2>1. v = w /\ Evaluate(w, GetAll(cycles[ProjectOf(w)])) = "cross_cycle_persistence"
    BY <1>2 DEF Gate, RepInv, TypeOK
  <2>2. RecentCycles(w, GetAll(cycles[ProjectOf(w)])) >= MinCrossCycleCount
    BY <2>1 DEF Evaluate
  <2> QED BY <2>2, TwoCyclesSupport, SupportStays DEF RepInv
<1>3. CASE UNCHANGED verdict
  BY <1>1, <1>3
<1>4. ASSUME NEW v \in Writes, Merge(v) \/ Create(v) \/ Fail(v) \/ PushCycle(v)
      PROVE  UNCHANGED verdict
  BY <1>4 DEF Merge, Create, Fail, PushCycle
<1>5. ASSUME NEW p \in Projects, ResetSession(p) \/ DeleteRows(p) \/ DeleteCycles(p)
      PROVE  UNCHANGED verdict
  BY <1>5 DEF ResetSession, DeleteRows, DeleteCycles
<1>6. Idle \/ UNCHANGED vars => UNCHANGED verdict
  BY DEF Idle, vars
<1> QED BY <1>1, <1>2, <1>3, <1>4, <1>5, <1>6 DEF Next

(* The forgetting of unmarked events is final: a write the cross-cycle     *)
(* condition lets through stands on two accepted, marked writes of its     *)
(* project, whatever interleaves with the gate (SignificanceGate.Evaluate  *)
(* and the push at the end of the write pipeline).                         *)
THEOREM RepetitionNeedsMarks == Spec => []RepetitionAloneNeverPersists
<1>1. RepInv /\ [Next]_vars => RepInv'
  BY NextType, RingsStay, CauseStays, RepetitionStays DEF RepInv
<1>2. RepInv => RepetitionAloneNeverPersists
  BY DEF RepInv
<1> QED BY <1>1, <1>2, InitRep, PTL DEF Spec

-----------------------------------------------------------------------------
(* The ring implements the bounded log.                                    *)

LEMMA PushIsRecord ==
    ASSUME NEW r \in Ring, NEW s \in Summaries
    PROVE  GetAll(Push(r, s)) = Log!Latest(Append(GetAll(r), s))
<1> DEFINE S == Summaries \cup {NoSummary}
           t == GetAll(r)
<1>1. /\ t \in Seq(S) /\ Len(t) = r.size /\ s \in S
      /\ r.size \in 0..MaxSize /\ MaxSize \in Nat \ {0}
  BY GetAllSeq, RingAssumption DEF Ring
<1>2. CASE r.size < MaxSize
  <2>1. GetAll(Push(r, s)) = Append(t, s)
    BY <1>2, PushWithRoom
  <2> HIDE DEF t, S
  <2>2. ~(Len(Append(t, s)) > MaxSize)
    BY <1>1, <1>2
  <2> QED BY <2>1, <2>2 DEF Log!Latest, t
<1>3. CASE r.size = MaxSize
  <2>1. GetAll(Push(r, s)) = Append(Tail(t), s)
    BY <1>3, PushWhenFull
  <2> HIDE DEF t, S
  <2>2. /\ Tail(t) \in Seq(S) /\ Len(Tail(t)) = Len(t) - 1
        /\ \A i \in 1..Len(Tail(t)) : Tail(t)[i] = t[i + 1]
    <3>1. t # <<>>
      BY <1>1, <1>3
    <3> QED BY <1>1, <3>1, HeadTailProperties
  <2>3. /\ Append(t, s) \in Seq(S) /\ Len(Append(t, s)) = MaxSize + 1
        /\ \A i \in 1..MaxSize + 1 : Append(t, s)[i] = IF i = MaxSize + 1 THEN s ELSE t[i]
    BY <1>1, <1>3
  <2>4. /\ Tail(Append(t, s)) \in Seq(S) /\ Len(Tail(Append(t, s))) = MaxSize
        /\ \A i \in 1..MaxSize : Tail(Append(t, s))[i] = Append(t, s)[i + 1]
    <3> DEFINE a == Append(t, s)
    <3>1. a # <<>>
      BY <1>1, <2>3
    <3> QED BY <1>1, <2>3, <3>1, HeadTailProperties
  <2>5. /\ Append(Tail(t), s) \in Seq(S) /\ Len(Append(Tail(t), s)) = MaxSize
        /\ \A i \in 1..MaxSize :
              Append(Tail(t), s)[i] = IF i = MaxSize THEN s ELSE Tail(t)[i]
    BY <1>1, <1>3, <2>2
  <2>6. \A i \in 1..MaxSize : Append(Tail(t), s)[i] = Tail(Append(t, s))[i]
    BY <1>1, <1>3, <2>2, <2>3, <2>4, <2>5
  <2>7. Append(Tail(t), s) = Tail(Append(t, s))
    BY <2>4, <2>5, <2>6, SeqEqual
  <2>8. Len(Append(t, s)) > MaxSize
    BY <1>1, <2>3
  <2> QED BY <2>1, <2>7, <2>8 DEF Log!Latest, t
<1> QED BY <1>1, <1>2, <1>3

LEMMA LogStep == TypeOK /\ [Next]_vars => [Log!Next]_([p \in Projects |-> GetAll(cycles[p])])
<1> SUFFICES ASSUME TypeOK, [Next]_vars
             PROVE  [Log!Next]_([p \in Projects |-> GetAll(cycles[p])])
  OBVIOUS
<1> DEFINE log == [p \in Projects |-> GetAll(cycles[p])]
<1>1. ASSUME NEW w \in Writes, PushCycle(w)
      PROVE  Log!Next
  <2> DEFINE p == ProjectOf(w)
  <2>1. p \in Projects /\ w \in Summaries /\ cycles[p] \in Ring
    BY GateAssumption DEF TypeOK, ProjectOf, Writes
  <2>2. \A k \in Projects : cycles'[k] = IF k = p THEN Push(cycles[p], w) ELSE cycles[k]
    BY <1>1 DEF PushCycle, TypeOK
  <2>3. GetAll(Push(cycles[p], w)) = Log!Latest(Append(log[p], w))
    BY <2>1, PushIsRecord
  <2>4. log' = [log EXCEPT ![p] = Log!Latest(Append(@, w))]
    BY <2>1, <2>2, <2>3
  <2> QED BY <2>1, <2>4 DEF Log!Next, Log!Record
<1>2. ASSUME NEW p \in Projects, Clear(p)
      PROVE  Log!Next
  <2>1. \A k \in Projects : cycles'[k] = IF k = p THEN NewRing ELSE cycles[k]
    BY <1>2 DEF Clear, Emptied, TypeOK
  <2>2. GetAll(NewRing) = <<>>
    BY DEF GetAll, NewRing
  <2>3. log' = [log EXCEPT ![p] = <<>>]
    BY <2>1, <2>2
  <2> QED BY <2>3 DEF Log!Next, Log!Forget
<1>3. ASSUME UNCHANGED cycles
      PROVE  UNCHANGED log
  BY <1>3
<1>4. ASSUME NEW w \in Writes, Gate(w) \/ Merge(w) \/ Create(w) \/ Fail(w)
      PROVE  UNCHANGED cycles
  BY <1>4 DEF Gate, Merge, Create, Fail
<1>5. ASSUME NEW p \in Projects, ResetSession(p) \/ DeleteRows(p) \/ DeleteCycles(p)
      PROVE  Clear(p) \/ UNCHANGED cycles
  BY <1>5 DEF ResetSession, DeleteRows, DeleteCycles
<1>6. Idle \/ UNCHANGED vars => UNCHANGED cycles
  BY DEF Idle, vars
<1> QED BY <1>1, <1>2, <1>3, <1>4, <1>5, <1>6 DEF Next

(* Read at any time, a ring is the log of the last pushes of its project   *)
(* since it was last cleared: no push is lost, repeated or reordered when  *)
(* the head wraps around (ringBuffer.push and getAll).                     *)
THEOREM RingIsBoundedLog == Spec => LogSpec
<1>1. Init => Log!Init
  BY DEF Init, Log!Init, GetAll, NewRing
<1>2. TypeOK /\ [Next]_vars => [Log!Next]_([p \in Projects |-> GetAll(cycles[p])])
  BY LogStep
<1> QED BY <1>1, <1>2, TypeCorrect, PTL DEF Spec, LogSpec, Log!Spec

-----------------------------------------------------------------------------
(* A fresh conversation has fresh cycles under one dispatch loop: a reset  *)
(* runs when no write does, so the writes it leaves behind are over and    *)
(* push nothing later, and the two-step DELETE is not offered.             *)

FreshInv ==
    /\ TypeOK
    /\ deleting = {}
    /\ \A p \in Projects : \A w \in bygone[p] : pc[w] \notin {"idle"} \cup InFlight
    /\ ClearedStaysFresh

LEMMA InitFresh == Init => FreshInv
BY InitType DEF Init, FreshInv, ClearedStaysFresh, NewRing

LEMMA FreshKept ==
    ASSUME SerialDispatch, FreshInv, [Next]_vars
    PROVE  FreshInv'
<1>1. TypeOK /\ TypeOK'
  BY NextType DEF FreshInv
<1>2. ASSUME NEW w \in Writes, Gate(w) \/ Merge(w) \/ Create(w) \/ Fail(w)
      PROVE  FreshInv'
  BY <1>1, <1>2 DEF FreshInv, TypeOK, InFlight, ClearedStaysFresh, Gate, Merge, Create, Fail
<1>3. ASSUME NEW w \in Writes, PushCycle(w)
      PROVE  FreshInv'
  <2> DEFINE q == ProjectOf(w)
             r == cycles[q]
  <2>1. /\ q \in Projects /\ r \in Ring /\ w \in Summaries
        /\ pc[w] = "push" /\ pc' = [pc EXCEPT ![w] = "pushed"]
        /\ UNCHANGED <<bygone, deleting>>
        /\ \A p \in Projects : cycles'[p] = IF p = q THEN Push(r, w) ELSE cycles[p]
    BY <1>1, <1>3, GateAssumption DEF PushCycle, TypeOK, ProjectOf, Writes
  <2>2. \A p \in Projects : w \notin bygone[p]
    BY <2>1 DEF FreshInv, InFlight
  <2>3. PICK d \in {0, 1} : \A i \in 1..Push(r, w).size :
          IF i = Push(r, w).size THEN GetAll(Push(r, w))[i] = w
          ELSE i + d \in 1..r.size /\ GetAll(Push(r, w))[i] = GetAll(r)[i + d]
    BY <2>1, PushContents
  <2>4. \A i \in 1..r.size : GetAll(r)[i] \notin bygone[q]
    BY <2>1 DEF FreshInv, ClearedStaysFresh
  <2> HIDE DEF q, r
  <2>5. ClearedStaysFresh'
    <3> SUFFICES ASSUME NEW p \in Projects, NEW i \in 1..cycles'[p].size
                 PROVE  GetAll(cycles'[p])[i] \notin bygone[p]
      BY <2>1 DEF ClearedStaysFresh
    <3>1. CASE p = q
      BY <2>1, <2>2, <2>3, <2>4, <3>1
    <3>2. CASE p # q
      BY <2>1, <3>2 DEF FreshInv, ClearedStaysFresh
    <3> QED BY <3>1, <3>2
  <2>6. \A p \in Projects : \A u \in bygone'[p] : pc'[u] \notin {"idle"} \cup InFlight
    BY <1>1, <2>1, <2>2 DEF FreshInv, TypeOK
  <2> QED BY <1>1, <2>1, <2>5, <2>6 DEF FreshInv
<1>4. ASSUME NEW p \in Projects, ResetSession(p)
      PROVE  FreshInv'
  <2>1. /\ \A q \in Projects : /\ cycles'[q] = IF q = p THEN NewRing ELSE cycles[q]
                               /\ bygone'[q] = IF q = p THEN Begun ELSE bygone[q]
        /\ UNCHANGED <<pc, deleting>>
    BY <1>1, <1>4 DEF ResetSession, Clear, Emptied, TypeOK
  <2>2. \A w \in Begun : pc[w] \notin {"idle"} \cup InFlight
    BY <1>4 DEF ResetSession, Turn, Begun
  <2>3. NewRing.size = 0
    BY DEF NewRing
  <2>4. ClearedStaysFresh'
    BY <2>1, <2>3 DEF FreshInv, ClearedStaysFresh
  <2> QED BY <1>1, <2>1, <2>2, <2>4 DEF FreshInv
<1>5. ASSUME NEW p \in Projects
      PROVE  ~DeleteRows(p) /\ ~DeleteCycles(p)
  BY DEF DeleteRows, DeleteCycles, FreshInv
<1>6. CASE Idle \/ UNCHANGED vars
  BY <1>1, <1>6 DEF Idle, vars, FreshInv, ClearedStaysFresh
<1> QED BY <1>2, <1>3, <1>4, <1>5, <1>6 DEF Next

(* After on_session_switch(reset) no summary of a write that had begun     *)
(* before is in the cycles (Server.handleOnSessionSwitch, run by the       *)
(* daemon's dispatch loop between two requests).                           *)
THEOREM ResetForgets ==
    ASSUME SerialDispatch
    PROVE  Spec => []ClearedStaysFresh
<1>1. FreshInv => ClearedStaysFresh
  BY DEF FreshInv
<1> QED BY <1>1, InitFresh, FreshKept, PTL DEF Spec
=============================================================================
