------------------------- MODULE BenchIngestProofs --------------------------
(***************************************************************************)
(* Theorems about BenchIngest for every conversation, number of requests   *)
(* and size of the pool: what the batch returns, what resuming repeats and *)
(* leaves out, and what a delete leaves behind.                            *)
(***************************************************************************)
EXTENDS BenchIngest, WritePipelineProofs, FiniteSetTheorems,
        WellFoundedInduction

-----------------------------------------------------------------------------
(* Arithmetic of the chunks.                                               *)

LEMMA MinOfTwo ==
    ASSUME NEW a \in Int, NEW b \in Int
    PROVE  Min({a, b}) = IF a <= b THEN a ELSE b
<1> DEFINE m == IF a <= b THEN a ELSE b
<1>1. m \in {a, b} /\ \A y \in {a, b} : m <= y
  OBVIOUS
<1>2. \A x \in {a, b} : (\A y \in {a, b} : x <= y) => x = m
  OBVIOUS
<1> QED BY <1>1, <1>2 DEF Min

LEMMA PoolNumbers ==
    /\ ChunkSize \in Nat \ {0}
    /\ PoolSize \in Nat \ {0}
    /\ 1 \in Pool
    /\ MaxRetries \in Nat
<1>1. ChunkSize \in Nat \ {0}
  BY PoolAssumption DEF ChunkSize
<1>2. PoolSize \in Nat \ {0}
  BY PoolAssumption, MinOfTwo DEF PoolSize
<1> QED BY <1>1, <1>2, PoolAssumption DEF Pool

LEMMA ChunkEndIs ==
    ASSUME size \in Nat, NEW start \in Nat
    PROVE  ChunkEnd(start) = IF start + ChunkSize <= size THEN start + ChunkSize ELSE size
BY PoolNumbers, MinOfTwo DEF ChunkEnd

(* A batch with a text has a chunk, so the first worker is started.        *)
LEMMA SomeChunk ==
    ASSUME NEW n \in Nat \ {0}
    PROVE  1 <= ChunkCount(n)
<1> DEFINE c == ChunkSize
<1>1. c \in Nat \ {0} /\ n + c - 1 \in Nat /\ n + c - 1 >= c
  BY PoolNumbers
<1> HIDE DEF c
<1>2. \A x \in Nat, y \in Nat \ {0} : x >= y => x \div y >= 1
  OBVIOUS
<1>3. (n + c - 1) \div c >= 1
  BY <1>1, <1>2
<1> QED BY <1>3 DEF ChunkCount, c

(* Positions between chunks.                                               *)
Aligned(x) == x = size \/ \E k \in Nat : x = k * ChunkSize

LEMMA StartAligned == \E k \in Nat : 0 = k * ChunkSize
BY PoolNumbers

LEMMA NextChunkAligned ==
    ASSUME size \in Nat, NEW x \in Nat, x <= size, Aligned(x)
    PROVE  Aligned(ChunkEnd(x)) /\ ChunkEnd(x) \in 0..size /\ x <= ChunkEnd(x)
<1>1. ChunkEnd(x) = IF x + ChunkSize <= size THEN x + ChunkSize ELSE size
  BY ChunkEndIs
<1>2. ChunkEnd(x) \in 0..size /\ x <= ChunkEnd(x)
  BY <1>1, PoolNumbers
<1>3. CASE x + ChunkSize <= size
  <2>1. PICK k \in Nat : x = k * ChunkSize
    BY <1>3, PoolNumbers DEF Aligned
  <2>2. x + ChunkSize = (k + 1) * ChunkSize /\ k + 1 \in Nat
    BY <2>1, PoolNumbers
  <2> QED BY <1>1, <1>2, <1>3, <2>2 DEF Aligned
<1>4. CASE ~(x + ChunkSize <= size)
  BY <1>1, <1>2, <1>4 DEF Aligned
<1> QED BY <1>3, <1>4

(* The chunk after an aligned position does not reach past another.        *)
LEMMA ChunksApart ==
    ASSUME size \in Nat, NEW x \in Nat, NEW y \in Nat, x < y, y <= size,
           Aligned(x), Aligned(y)
    PROVE  ChunkEnd(x) <= y
<1>1. CASE y = size
  BY <1>1, ChunkEndIs, PoolNumbers
<1>2. CASE y # size
  <2>1. PICK i \in Nat, j \in Nat : x = i * ChunkSize /\ y = j * ChunkSize
    BY <1>2 DEF Aligned
  <2>2. ChunkSize \in Nat \ {0}
    BY PoolNumbers
  <2> DEFINE c == ChunkSize
  <2> HIDE DEF c
  <2>3. i < j
    <3> SUFFICES ASSUME j <= i PROVE FALSE
      OBVIOUS
    <3>1. j * ChunkSize <= i * ChunkSize
      BY <2>2
    <3> QED BY <3>1, <2>1
  <2>4. (i + 1) * ChunkSize <= j * ChunkSize
    BY <2>2, <2>3
  <2>5. (i + 1) * ChunkSize = i * ChunkSize + ChunkSize
    BY <2>2
  <2>6. x + ChunkSize <= y
    BY <2>1, <2>4, <2>5, <2>2
  <2> QED BY <2>6, <2>2, ChunkEndIs
<1> QED BY <1>1, <1>2

-----------------------------------------------------------------------------
(* The answer of the provider.                                             *)

Gots == UNION {[1..n -> Vector] : n \in Nat}
WorkerState ==
    [at : {"take", "call", "wait", "copy", "gone"}, start : Nat,
     attempt : 0..MaxRetries, got : Gots]

(* A permutation of the positions names every index once.                  *)
LEMMA IndicesComplete ==
    ASSUME NEW n \in Nat, NEW p \in [1..n -> 1..n],
           \A i, j \in 1..n : p[i] = p[j] => i = j
    PROVE  {p[i] - 1 : i \in 1..n} = 0..(n - 1)
<1>1. p \in Injection(1..n, 1..n)
  BY DEF Injection, IsInjective
<1>2. IsFiniteSet(1..n)
  BY FS_Interval
<1>3. p \in Surjection(1..n, 1..n)
  BY <1>1, <1>2, FS_Injection
<1>4. \A k \in 1..n : \E i \in 1..n : p[i] = k
  BY <1>3 DEF Surjection
<1>5. ASSUME NEW x \in 0..(n - 1)
      PROVE  \E i \in 1..n : x = p[i] - 1
  <2>1. PICK i \in 1..n : p[i] = x + 1
    BY <1>4
  <2> QED BY <2>1
<1>6. \A i \in 1..n : p[i] - 1 \in 0..(n - 1)
  OBVIOUS
<1> QED BY <1>5, <1>6

(* Whatever its order, and with or without indices, a response is put back *)
(* into the order of the texts.                                            *)
LEMMA ReorderedIs ==
    ASSUME NEW n \in Nat, NEW data \in Responses(n), NEW t \in 1..n
    PROVE  Reordered(data, n)[t] = t
<1> DEFINE Complete == {data[i].index : i \in 1..n} = 0..(n - 1)
<1>1. CASE \E p \in [1..n -> 1..n] :
              /\ \A i, j \in 1..n : p[i] = p[j] => i = j
              /\ data = [i \in 1..n |-> [index |-> p[i] - 1, text |-> p[i]]]
  <2>1. PICK p \in [1..n -> 1..n] :
              /\ \A i, j \in 1..n : p[i] = p[j] => i = j
              /\ data = [i \in 1..n |-> [index |-> p[i] - 1, text |-> p[i]]]
    BY <1>1
  <2>2. {p[i] - 1 : i \in 1..n} = 0..(n - 1)
    BY <2>1, IndicesComplete
  <2>3. Complete
    BY <2>1, <2>2
  <2>4. \E i \in 1..n : data[i].index = t - 1
    <3>1. t - 1 \in 0..(n - 1)
      OBVIOUS
    <3> QED BY <2>3, <3>1
  <2>5. ASSUME NEW i \in 1..n, data[i].index = t - 1
        PROVE  data[i].text = t
    <3>1. p[i] - 1 = t - 1 /\ p[i] \in Int
      BY <2>1, <2>5
    <3>2. p[i] = t
      BY <3>1
    <3> QED BY <2>1, <3>2
  <2> DEFINE k == CHOOSE i \in 1..n : data[i].index = t - 1
  <2>6. k \in 1..n /\ data[k].index = t - 1
    BY <2>4
  <2>7. data[k].text = t
    BY <2>5, <2>6
  <2>8. Reordered(data, n)[t] = data[k].text
    BY <2>3 DEF Reordered
  <2> QED BY <2>7, <2>8
<1>2. CASE data = [i \in 1..n |-> [index |-> 0, text |-> i]]
  <2>1. CASE Complete
    <3>1. n = 1
      <4>1. {data[i].index : i \in 1..n} = {0}
        BY <1>2
      <4>2. n - 1 \in 0..(n - 1)
        OBVIOUS
      <4> QED BY <2>1, <4>1, <4>2
    <3> DEFINE k == CHOOSE i \in 1..n : data[i].index = t - 1
    <3>2. t = 1 /\ data[1].index = 0
      BY <1>2, <3>1
    <3>3. k \in 1..n
      BY <3>1, <3>2
    <3>4. k = 1
      BY <3>1, <3>3
    <3>5. Reordered(data, n)[t] = data[k].text
      BY <2>1 DEF Reordered
    <3> QED BY <1>2, <3>1, <3>2, <3>4, <3>5
  <2>2. CASE ~Complete
    BY <1>2, <2>2 DEF Reordered
  <2> QED BY <2>1, <2>2
<1> QED BY <1>1, <1>2 DEF Responses

(* What one call of the wrapped embedder may return for a chunk.           *)
InOrder(start, got) ==
    \A t \in DOMAIN got : got[t] \in Vector /\ got[t] # NoVector /\ got[t].text = start + t

LEMMA EmbeddedInOrder ==
    ASSUME size \in Nat, inner \in Inners, NEW start \in 0..size, NEW got \in Embedded(start)
    PROVE  /\ got \in Gots /\ DOMAIN got = 1..(ChunkEnd(start) - start)
           /\ InOrder(start, got)
<1> DEFINE n == ChunkEnd(start) - start
<1>1. n \in Nat
  BY ChunkEndIs, PoolNumbers
<1> HIDE DEF n
<1>2. ASSUME NEW c \in [1..n -> {"semantic", "keyword"}],
             got = [t \in 1..n |-> [text |-> start + t, channel |-> c[t]]]
      PROVE  got \in [1..n -> Vector] /\ InOrder(start, got)
  BY <1>1, <1>2 DEF InOrder, Vector, NoVector
<1>3. ASSUME NEW data \in Responses(n),
             got = [t \in 1..n |-> [text |-> start + Reordered(data, n)[t],
                                    channel |-> "semantic"]]
      PROVE  got = [t \in 1..n |-> [text |-> start + t, channel |-> "semantic"]]
  BY <1>1, <1>3, ReorderedIs
<1>4. \/ \E data \in Responses(n) :
            got = [t \in 1..n |-> [text |-> start + Reordered(data, n)[t],
                                   channel |-> "semantic"]]
      \/ \E c \in [1..n -> {"semantic", "keyword"}] :
            got = [t \in 1..n |-> [text |-> start + t, channel |-> c[t]]]
      \/ got = [t \in 1..n |-> [text |-> start + t, channel |-> "keyword"]]
  BY DEF Embedded, n
<1>5. \E c \in [1..n -> {"semantic", "keyword"}] :
         got = [t \in 1..n |-> [text |-> start + t, channel |-> c[t]]]
  <2>1. ASSUME NEW k \in {"semantic", "keyword"},
               got = [t \in 1..n |-> [text |-> start + t, channel |-> k]]
        PROVE  \E c \in [1..n -> {"semantic", "keyword"}] :
                  got = [t \in 1..n |-> [text |-> start + t, channel |-> c[t]]]
    <3> DEFINE c == [t \in 1..n |-> k]
    <3>1. c \in [1..n -> {"semantic", "keyword"}] /\ \A t \in 1..n : c[t] = k
      OBVIOUS
    <3> HIDE DEF c
    <3> QED BY <2>1, <3>1
  <2> QED BY <1>3, <1>4, <2>1
<1>6. got \in [1..n -> Vector] /\ InOrder(start, got)
  BY <1>2, <1>5
<1> QED BY <1>1, <1>6 DEF Gots, n

-----------------------------------------------------------------------------
(* The batch.                                                              *)

BatchTyped ==
    /\ inner \in Inners
    /\ embedding \in {"none", "running", "ok", "failed", "unsupported"}
    /\ size \in Nat
    /\ fed \in 0..size /\ Aligned(fed)
    /\ feeder \in {"open", "closed"}
    /\ taken \in 0..fed /\ Aligned(taken)
    /\ worker \in [Pool -> WorkerState]
    /\ \A w \in Pool : worker[w].start \in 0..size
    /\ vectors \in [1..size -> Vector]
    /\ batchFailed \in BOOLEAN /\ cancelled \in BOOLEAN /\ left \in BOOLEAN

(* A vector in hand or in the result belongs to its text.                  *)
VectorsBelong ==
    /\ \A w \in Pool : worker[w].at = "copy" => InOrder(worker[w].start, worker[w].got)
    /\ \A t \in 1..size : vectors[t] = NoVector \/ vectors[t].text = t

Working(w) == worker[w].at \in {"call", "wait", "copy"}
HasChunk(w, t) ==
    /\ Working(w) /\ worker[w].start < t /\ t <= ChunkEnd(worker[w].start)
    /\ worker[w].at = "copy" =>
          DOMAIN worker[w].got = 1..(ChunkEnd(worker[w].start) - worker[w].start)

(* While nothing failed, every text taken out of the channel has its       *)
(* vector or is in the chunk of a worker; the first worker leaves only an  *)
(* empty channel; the feeder stops early only for a client that left.      *)
NothingDropped ==
    embedding = "running" /\ ~batchFailed =>
        /\ \A t \in 1..taken : vectors[t] # NoVector \/ \E w \in Pool : HasChunk(w, t)
        /\ worker[1].at = "gone" => taken = fed /\ feeder = "closed"
        /\ feeder = "closed" => fed = size \/ left
        /\ cancelled => left

(* The pool outlives no call.                                              *)
PoolIdle == embedding # "running" => \A w \in Pool : worker[w].at = "gone"

BatchInv ==
    BatchTyped /\ VectorsBelong /\ NothingDropped /\ PoolIdle /\ VectorsInOrder

LEMMA WorkersStart == Gone \in WorkerState /\ Taking \in WorkerState
<1>1. <<>> \in [1..0 -> Vector]
  OBVIOUS
<1>2. <<>> \in Gots
  BY <1>1 DEF Gots
<1> QED BY <1>2, PoolNumbers DEF Gone, Taking, WorkerState

LEMMA BatchStarts == EmbedInit => BatchInv
<1> SUFFICES ASSUME EmbedInit PROVE BatchInv
  OBVIOUS
<1>1. BatchTyped
  <2>1. Aligned(fed) /\ Aligned(taken)
    BY StartAligned DEF EmbedInit, Aligned
  <2>2. vectors \in [1..size -> Vector]
    BY DEF EmbedInit
  <2>3. worker \in [Pool -> WorkerState] /\ \A w \in Pool : worker[w].start = 0
    BY WorkersStart DEF EmbedInit, Gone
  <2>4. batchFailed \in BOOLEAN /\ cancelled \in BOOLEAN /\ left \in BOOLEAN
    BY DEF EmbedInit
  <2>5. inner \in Inners /\ size = 0 /\ fed = 0 /\ taken = 0
        /\ embedding = "none" /\ feeder = "closed"
    BY DEF EmbedInit
  <2>6. size \in Nat /\ fed \in 0..size /\ taken \in 0..fed
        /\ \A w \in Pool : worker[w].start \in 0..size
    BY <2>3, <2>5
  <2> QED BY <2>1, <2>2, <2>3, <2>4, <2>5, <2>6, Zenon DEF BatchTyped
<1> QED BY <1>1 DEF EmbedInit, BatchInv, VectorsBelong, NothingDropped, PoolIdle,
                    VectorsInOrder, Gone

LEMMA BeginKeeps ==
    ASSUME BatchInv, NEW n \in Nat, BeginBatch(n)
    PROVE  BatchInv'
<1>1. /\ embedding' \in {"running", "ok", "unsupported"}
      /\ embedding' = "ok" => n = 0
      /\ embedding' = "running" => n # 0 /\ feeder' = "open"
      /\ embedding' # "running" => \A w \in Pool : worker'[w] = Gone
      /\ feeder' \in {"open", "closed"}
  BY DEF BeginBatch
<1>2. worker' \in [Pool -> {Gone, Taking}]
  BY DEF BeginBatch
<1>3. BatchTyped'
  <2>1. fed' = 0 /\ taken' = 0 /\ size' = n /\ inner' = inner
        /\ batchFailed' = FALSE /\ cancelled' = FALSE /\ left' = FALSE
    BY DEF BeginBatch
  <2>4. Aligned(fed)' /\ Aligned(taken)'
    BY <2>1, StartAligned DEF Aligned
  <2>2. worker' \in [Pool -> WorkerState] /\ \A w \in Pool : worker'[w].start = 0
    BY <1>2, WorkersStart DEF Gone, Taking
  <2>3. vectors' \in [1..size' -> Vector]
    BY DEF BeginBatch, Vector, NoVector
  <2>5. (batchFailed \in BOOLEAN /\ cancelled \in BOOLEAN /\ left \in BOOLEAN)'
    BY <2>1
  <2>6. (size \in Nat /\ fed \in 0..size /\ taken \in 0..fed)'
        /\ \A w \in Pool : worker'[w].start \in 0..size'
    BY <2>1, <2>2
  <2>7. (inner \in Inners)'
    BY <2>1 DEF BatchInv, BatchTyped
  <2>8. (embedding \in {"none", "running", "ok", "failed", "unsupported"})'
        /\ (feeder \in {"open", "closed"})'
    BY <1>1
  <2> QED BY <2>2, <2>3, <2>4, <2>5, <2>6, <2>7, <2>8, Zenon DEF BatchTyped
<1>4. VectorsBelong'
  BY <1>2 DEF BeginBatch, VectorsBelong, Gone, Taking
<1>5. NothingDropped'
  <2>1. embedding' = "running" => worker'[1].at = "take"
    BY <1>1, SomeChunk, PoolNumbers DEF BeginBatch, Taking
  <2> QED BY <1>1, <2>1 DEF BeginBatch, NothingDropped
<1>6. PoolIdle'
  BY <1>1 DEF PoolIdle, Gone
<1>7. VectorsInOrder'
  BY <1>1 DEF BeginBatch, VectorsInOrder
<1> QED BY <1>3, <1>4, <1>5, <1>6, <1>7 DEF BatchInv

LEMMA LeaveKeeps == ASSUME BatchInv, ClientLeaves PROVE BatchInv'
<1> USE DEF BatchInv, ClientLeaves
<1>1. BatchTyped'
  BY DEF BatchTyped, Aligned
<1>2. VectorsBelong' /\ PoolIdle' /\ VectorsInOrder'
  BY DEF VectorsBelong, PoolIdle, VectorsInOrder
<1>3. NothingDropped'
  BY DEF NothingDropped, HasChunk, Working, ChunkEnd
<1> QED BY <1>1, <1>2, <1>3

LEMMA FeederKeeps == ASSUME BatchInv, FeederStep PROVE BatchInv'
<1>1. CASE Feed
  <2> USE <1>1 DEF BatchInv, Feed
  <2>1. BatchTyped'
    <3>1. fed \in Nat /\ Aligned(fed) /\ fed <= size /\ size \in Nat
      BY DEF BatchTyped
    <3>2. Aligned(ChunkEnd(fed)) /\ ChunkEnd(fed) \in 0..size /\ fed <= ChunkEnd(fed)
      BY <3>1, NextChunkAligned
    <3>3. fed' \in 0..size' /\ Aligned(fed)' /\ taken' \in 0..fed' /\ Aligned(taken)'
      BY <3>1, <3>2 DEF BatchTyped, Aligned
    <3> QED BY <3>3 DEF BatchTyped
  <2>2. VectorsBelong' /\ PoolIdle' /\ VectorsInOrder'
    BY DEF VectorsBelong, PoolIdle, VectorsInOrder
  <2>3. NothingDropped'
    BY DEF NothingDropped, HasChunk, Working, ChunkEnd
  <2> QED BY <2>1, <2>2, <2>3
<1>2. CASE FeedEnds
  <2> USE <1>2 DEF BatchInv, FeedEnds, FeederAfter
  <2>1. BatchTyped'
    BY DEF BatchTyped, Aligned
  <2>2. VectorsBelong' /\ PoolIdle' /\ VectorsInOrder'
    BY DEF VectorsBelong, PoolIdle, VectorsInOrder
  <2>3. NothingDropped'
    BY DEF NothingDropped, HasChunk, Working, ChunkEnd
  <2> QED BY <2>1, <2>2, <2>3
<1> QED BY <1>1, <1>2 DEF FeederStep

(* Every worker is gone when the call ends, so every text that was fed has *)
(* its vector; the others were not fed because the client left.            *)
LEMMA EndKeeps == ASSUME BatchInv, EndBatch PROVE BatchInv'
<1> USE DEF BatchInv, EndBatch
<1>1. BatchTyped'
  BY DEF BatchTyped, Aligned
<1>2. VectorsBelong' /\ PoolIdle' /\ NothingDropped'
  BY DEF VectorsBelong, PoolIdle, NothingDropped
<1>3. VectorsInOrder'
  <2> SUFFICES ASSUME ~batchFailed, NEW t \in 1..size
               PROVE  vectors[t].text = t \/ (vectors[t] = NoVector /\ left)
    BY DEF VectorsInOrder
  <2>1. taken = fed /\ (fed = size \/ left)
    BY PoolNumbers DEF NothingDropped
  <2>2. vectors[t] = NoVector \/ vectors[t].text = t
    BY DEF VectorsBelong
  <2>3. t \in 1..taken => vectors[t] # NoVector
    BY DEF NothingDropped, HasChunk, Working
  <2>4. size \in Nat /\ taken \in Nat
    BY DEF BatchTyped
  <2> QED BY <2>1, <2>2, <2>3, <2>4
<1> QED BY <1>1, <1>2, <1>3

(* What another worker holds, it still holds after a step of w.            *)
LEMMA ChunkHeld ==
    ASSUME NEW w, NEW v \in Pool, v # w, NEW t, HasChunk(v, t),
           \E s : worker' = [worker EXCEPT ![w] = s], UNCHANGED size,
           worker \in [Pool -> WorkerState]
    PROVE  HasChunk(v, t)'
BY DEF HasChunk, Working, ChunkEnd

LEMMA TakeKeeps == ASSUME BatchInv, NEW w \in Pool, Take(w) PROVE BatchInv'
<1> USE DEF BatchInv, Take
<1>1. /\ taken \in Nat /\ size \in Nat /\ fed \in Nat /\ taken < fed /\ fed <= size
      /\ Aligned(taken) /\ Aligned(fed)
      /\ worker \in [Pool -> WorkerState]
  BY DEF BatchTyped
<1>2. /\ Aligned(ChunkEnd(taken)) /\ ChunkEnd(taken) \in 0..size
      /\ ChunkEnd(taken) <= fed /\ taken <= ChunkEnd(taken)
  BY <1>1, NextChunkAligned, ChunksApart
<1>3. /\ worker'[w].at = "call" /\ worker'[w].start = taken /\ worker'[w] \in WorkerState
      /\ \A v \in Pool : v # w => worker'[v] = worker[v]
      /\ worker' \in [Pool -> WorkerState]
      /\ \E s : worker' = [worker EXCEPT ![w] = s]
  <2> DEFINE s == [worker[w] EXCEPT !.at = "call", !.start = taken, !.attempt = 0]
  <2>1. worker[w] \in WorkerState /\ 0 \in 0..MaxRetries
    BY <1>1, PoolNumbers
  <2>2. s.at = "call" /\ s.start = taken /\ s \in WorkerState
    BY <1>1, <2>1 DEF WorkerState
  <2>3. worker' = [worker EXCEPT ![w] = s]
    BY <1>1
  <2> HIDE DEF s
  <2> QED BY <1>1, <2>2, <2>3
<1>4. BatchTyped'
  <2>1. taken' \in 0..fed' /\ Aligned(taken)' /\ Aligned(fed)' /\ fed' \in 0..size'
    BY <1>1, <1>2 DEF Aligned
  <2>2. \A v \in Pool : worker'[v].start \in 0..size'
    BY <1>1, <1>3 DEF BatchTyped
  <2> QED BY <1>3, <2>1, <2>2 DEF BatchTyped
<1>5. VectorsBelong'
  BY <1>3 DEF VectorsBelong, InOrder
<1>6. PoolIdle' /\ VectorsInOrder'
  BY <1>3 DEF PoolIdle, VectorsInOrder
<1>7. NothingDropped'
  <2> SUFFICES ASSUME embedding = "running", ~batchFailed
               PROVE  /\ \A t \in 1..taken' : vectors[t] # NoVector \/ \E v \in Pool : HasChunk(v, t)'
                      /\ worker'[1].at = "gone" => taken' = fed /\ feeder = "closed"
    BY DEF NothingDropped
  <2>1. ASSUME NEW t \in 1..taken', vectors[t] = NoVector
        PROVE  \E v \in Pool : HasChunk(v, t)'
    <3>1. CASE t <= taken
      <4>1. PICK v \in Pool : HasChunk(v, t)
        BY <1>1, <2>1, <3>1 DEF NothingDropped
      <4>2. v # w
        BY <4>1 DEF HasChunk, Working
      <4> QED BY <1>1, <1>3, <4>1, <4>2, ChunkHeld
    <3>2. CASE taken < t
      <4>1. t <= ChunkEnd(taken)
        BY <2>1
      <4>2. HasChunk(w, t)'
        BY <1>3, <3>2, <4>1 DEF HasChunk, Working, ChunkEnd
      <4> QED BY <4>2
    <3> QED BY <1>1, <1>2, <2>1, <3>1, <3>2
  <2>2. worker'[1].at # "gone"
    <3>1. worker[1].at = "gone" => taken = fed
      BY DEF NothingDropped
    <3> QED BY <1>1, <1>3, <3>1, PoolNumbers
  <2> QED BY <2>1, <2>2
<1> QED BY <1>4, <1>5, <1>6, <1>7

LEMMA WorkerEndsKeeps == ASSUME BatchInv, NEW w \in Pool, WorkerEnds(w) PROVE BatchInv'
<1> USE DEF BatchInv, WorkerEnds
<1>1. worker \in [Pool -> WorkerState] /\ worker' \in [Pool -> WorkerState]
      /\ worker'[w] = Gone /\ \A v \in Pool : v # w => worker'[v] = worker[v]
  BY WorkersStart DEF BatchTyped
<1>2. BatchTyped'
  BY <1>1 DEF BatchTyped, Aligned, Gone
<1>3. VectorsBelong'
  BY <1>1 DEF VectorsBelong, InOrder, Gone
<1>4. PoolIdle' /\ VectorsInOrder'
  BY <1>1 DEF PoolIdle, VectorsInOrder, Gone
<1>5. NothingDropped'
  <2> SUFFICES ASSUME embedding = "running", ~batchFailed, NEW t \in 1..taken,
                      vectors[t] = NoVector
               PROVE  \E v \in Pool : HasChunk(v, t)'
    BY DEF NothingDropped
  <2>1. PICK v \in Pool : HasChunk(v, t)
    BY DEF NothingDropped
  <2>2. v # w
    BY <2>1 DEF HasChunk, Working
  <2> QED BY <1>1, <2>1, <2>2, ChunkHeld
<1> QED BY <1>2, <1>3, <1>4, <1>5

LEMMA CallKeeps ==
    ASSUME BatchInv, NEW w \in Pool,
           CallSucceeds(w) \/ CallRateLimited(w) \/ Backoff(w)
    PROVE  BatchInv'
<1> USE DEF BatchInv
<1>1. /\ size \in Nat /\ inner \in Inners
      /\ worker \in [Pool -> WorkerState] /\ worker[w].start \in 0..size
      /\ UNCHANGED <<inner, embedding, size, fed, feeder, taken, vectors, batchFailed,
                     cancelled, left>>
  BY DEF BatchTyped, CallSucceeds, CallRateLimited, Backoff
<1>2. PICK s \in WorkerState :
         /\ worker' = [worker EXCEPT ![w] = s]
         /\ s.start = worker[w].start /\ s.at \in {"call", "wait", "copy"}
         /\ s.at = "copy" => /\ DOMAIN s.got = 1..(ChunkEnd(s.start) - s.start)
                             /\ InOrder(s.start, s.got)
  <2>1. CASE CallSucceeds(w)
    <3>1. PICK got \in Embedded(worker[w].start) :
             worker' = [worker EXCEPT ![w].at = "copy", ![w].got = got]
      BY <2>1 DEF CallSucceeds
    <3> DEFINE s == [worker[w] EXCEPT !.at = "copy", !.got = got]
    <3>2. /\ got \in Gots /\ InOrder(worker[w].start, got)
          /\ DOMAIN got = 1..(ChunkEnd(worker[w].start) - worker[w].start)
      BY <1>1, <3>1, EmbeddedInOrder
    <3>3. s \in WorkerState /\ s.at = "copy" /\ s.start = worker[w].start /\ s.got = got
      BY <1>1, <3>2 DEF WorkerState
    <3>4. worker' = [worker EXCEPT ![w] = s]
      BY <1>1, <3>1 DEF WorkerState
    <3> HIDE DEF s
    <3> QED BY <3>2, <3>3, <3>4
  <2>2. CASE CallRateLimited(w)
    <3> DEFINE s == [worker[w] EXCEPT !.at = "wait", !.attempt = @ + 1]
    <3>1. s \in WorkerState /\ s.at = "wait" /\ s.start = worker[w].start
      BY <1>1, <2>2, PoolNumbers DEF WorkerState, CallRateLimited
    <3>2. worker' = [worker EXCEPT ![w] = s]
      BY <1>1, <2>2 DEF CallRateLimited, WorkerState
    <3> HIDE DEF s
    <3> QED BY <3>1, <3>2
  <2>3. CASE Backoff(w)
    <3> DEFINE s == [worker[w] EXCEPT !.at = "call"]
    <3>1. s \in WorkerState /\ s.at = "call" /\ s.start = worker[w].start
      BY <1>1 DEF WorkerState
    <3>2. worker' = [worker EXCEPT ![w] = s]
      BY <1>1, <2>3 DEF Backoff, WorkerState
    <3> HIDE DEF s
    <3> QED BY <3>1, <3>2
  <2> QED BY <2>1, <2>2, <2>3
<1>3. worker'[w] = s /\ worker' \in [Pool -> WorkerState]
      /\ \A v \in Pool : v # w => worker'[v] = worker[v]
  BY <1>1, <1>2
<1>4. worker[w].at \in {"call", "wait"}
  BY DEF CallSucceeds, CallRateLimited, Backoff
<1>5. BatchTyped'
  BY <1>1, <1>2, <1>3 DEF BatchTyped, Aligned
<1>6. VectorsBelong'
  BY <1>1, <1>2, <1>3 DEF VectorsBelong, InOrder
<1>7. PoolIdle' /\ VectorsInOrder'
  BY <1>1, <1>2, <1>3, <1>4 DEF PoolIdle, VectorsInOrder
<1>8. NothingDropped'
  <2> SUFFICES ASSUME embedding = "running", ~batchFailed
               PROVE  /\ \A t \in 1..taken : vectors[t] # NoVector \/ \E v \in Pool : HasChunk(v, t)'
                      /\ worker'[1].at = "gone" => taken = fed /\ feeder = "closed"
    BY <1>1 DEF NothingDropped
  <2>1. ASSUME NEW t \in 1..taken, vectors[t] = NoVector
        PROVE  \E v \in Pool : HasChunk(v, t)'
    <3>1. PICK v \in Pool : HasChunk(v, t)
      BY <2>1 DEF NothingDropped
    <3>2. CASE v # w
      BY <1>1, <1>2, <3>1, <3>2, ChunkHeld
    <3>3. CASE v = w
      <4>1. HasChunk(w, t)'
        BY <1>1, <1>2, <1>3, <3>1, <3>3 DEF HasChunk, Working, ChunkEnd
      <4> QED BY <4>1
    <3> QED BY <3>2, <3>3
  <2>2. worker'[1].at = "gone" => taken = fed /\ feeder = "closed"
    BY <1>2, <1>3, PoolNumbers DEF NothingDropped
  <2> QED BY <2>1, <2>2
<1> QED BY <1>5, <1>6, <1>7, <1>8

LEMMA CallFailsKeeps == ASSUME BatchInv, NEW w \in Pool, CallFails(w) PROVE BatchInv'
<1> USE DEF BatchInv, CallFails
<1>1. worker \in [Pool -> WorkerState] /\ worker' \in [Pool -> WorkerState]
      /\ worker'[w] = Gone /\ \A v \in Pool : v # w => worker'[v] = worker[v]
  BY WorkersStart DEF BatchTyped
<1>2. BatchTyped'
  <2>1. (batchFailed \in BOOLEAN /\ cancelled \in BOOLEAN /\ left \in BOOLEAN)'
    BY DEF BatchTyped
  <2> QED BY <1>1, <2>1 DEF BatchTyped, Aligned, Gone
<1>3. VectorsBelong'
  BY <1>1 DEF VectorsBelong, InOrder, Gone
<1>4. PoolIdle' /\ VectorsInOrder'
  BY <1>1 DEF PoolIdle, VectorsInOrder, Gone
<1>5. NothingDropped'
  BY DEF NothingDropped
<1> QED BY <1>2, <1>3, <1>4, <1>5

LEMMA CopyKeeps == ASSUME BatchInv, NEW w \in Pool, Copy(w) PROVE BatchInv'
<1> USE DEF BatchInv, Copy
<1> DEFINE start == worker[w].start
           got == worker[w].got
<1>1. /\ worker \in [Pool -> WorkerState] /\ worker' \in [Pool -> WorkerState]
      /\ worker'[w] = Taking /\ \A v \in Pool : v # w => worker'[v] = worker[v]
      /\ start \in 0..size /\ size \in Nat /\ vectors \in [1..size -> Vector]
      /\ InOrder(start, got) /\ worker[w].at = "copy"
  BY WorkersStart DEF BatchTyped, VectorsBelong
<1>2. \A t \in 1..size :
         /\ t - start \in DOMAIN got =>
               vectors'[t] = got[t - start] /\ vectors'[t] \in Vector
               /\ vectors'[t] # NoVector /\ vectors'[t].text = t
         /\ t - start \notin DOMAIN got => vectors'[t] = vectors[t]
  BY <1>1 DEF Copied, InOrder
<1>3. vectors' \in [1..size -> Vector]
  BY <1>1, <1>2 DEF Copied
<1> HIDE DEF start, got
<1>4. BatchTyped'
  BY <1>1, <1>3 DEF BatchTyped, Aligned, Taking
<1>5. VectorsBelong'
  BY <1>1, <1>2 DEF VectorsBelong, InOrder, Taking
<1>6. PoolIdle' /\ VectorsInOrder'
  BY <1>1 DEF PoolIdle, VectorsInOrder
<1>7. NothingDropped'
  <2> SUFFICES ASSUME embedding = "running", ~batchFailed
               PROVE  /\ \A t \in 1..taken : vectors'[t] # NoVector \/ \E v \in Pool : HasChunk(v, t)'
                      /\ worker'[1].at = "gone" => taken = fed /\ feeder = "closed"
    BY DEF NothingDropped
  <2>1. ASSUME NEW t \in 1..taken, vectors'[t] = NoVector
        PROVE  \E v \in Pool : HasChunk(v, t)'
    <3>1. t \in 1..size /\ vectors[t] = NoVector /\ t - start \notin DOMAIN got
      BY <1>2, <2>1 DEF BatchTyped
    <3>2. PICK v \in Pool : HasChunk(v, t)
      BY <2>1, <3>1 DEF NothingDropped
    <3>3. v # w
      <4> SUFFICES ASSUME HasChunk(w, t) PROVE FALSE
        BY <3>2
      <4>1. DOMAIN got = 1..(ChunkEnd(start) - start) /\ start < t /\ t <= ChunkEnd(start)
        BY <1>1 DEF HasChunk, start, got
      <4>2. ChunkEnd(start) \in Nat
        BY <1>1, ChunkEndIs, PoolNumbers
      <4> QED BY <1>1, <3>1, <4>1, <4>2
    <3> QED BY <1>1, <3>2, <3>3, ChunkHeld
  <2>2. worker'[1].at = "gone" => taken = fed /\ feeder = "closed"
    BY <1>1, PoolNumbers DEF NothingDropped, Taking
  <2> QED BY <2>1, <2>2
<1> QED BY <1>4, <1>5, <1>6, <1>7

(* The steps of a call of EmbedBatch.                                      *)
BatchMoves ==
    \/ \E n \in Nat : BeginBatch(n)
    \/ ClientLeaves \/ FeederStep \/ EndBatch
    \/ \E w \in Pool : WorkerStep(w)
    \/ UNCHANGED batchVars

LEMMA BatchKept == BatchInv /\ BatchMoves => BatchInv'
<1> SUFFICES ASSUME BatchInv, BatchMoves PROVE BatchInv'
  OBVIOUS
<1>1. CASE UNCHANGED batchVars
  BY <1>1 DEF batchVars, BatchInv, BatchTyped, VectorsBelong, NothingDropped, PoolIdle,
              VectorsInOrder, HasChunk, Working, InOrder, ChunkEnd, Aligned
<1> QED BY <1>1, BeginKeeps, LeaveKeeps, FeederKeeps, EndKeeps, TakeKeeps, WorkerEndsKeeps,
           CallKeeps, CallFailsKeeps, CopyKeeps DEF BatchMoves, WorkerStep

-----------------------------------------------------------------------------
(* The handler and the harness.                                            *)

HandlerTyped ==
    /\ request \in 0..Requests
    /\ step \in {"idle", "embed", "write"}
    /\ from \in [1..Requests -> 0..Messages] /\ last \in 0..Messages
    /\ at \in 0..(Messages + 1)
    /\ answer \in [1..Requests -> Answers]

(* What a request asks for, and where its handler stands.                  *)
RequestShape ==
    /\ request = 0 => step = "idle"
    /\ \A r \in 1..request : 1 <= from[r] /\ \A s \in r..request : from[r] <= from[s]
    /\ \A r \in 1..Requests : r > request => answer[r] = "none"
    /\ request > 0 =>
         /\ First <= last
         /\ step = "idle" => answer[request] # "none"
         /\ step = "idle" /\ answer[request] = "failed" => at \in First..last
         /\ step # "idle" => answer[request] = "none" /\ size = Cardinality(Content(First, last))
         /\ step = "write" => /\ at \in Content(First, last) \cup {last + 1}
                              /\ embedding \in {"ok", "unsupported"}

(* The writes of a request begin one after the other, and all of them have *)
(* ended when the handler answers.                                         *)
WritesInTurn ==
    \A r \in 1..Requests, m \in 1..Messages :
        /\ pc[<<r, m>>] # "idle" =>
             /\ r <= request /\ from[r] <= m /\ answer[r] # "refused"
             /\ r = request => m <= last /\ step # "embed"
        /\ r < request \/ step = "idle" => pc[<<r, m>>] \in {"idle"} \cup Finished
        /\ r = request /\ step = "write" =>
             /\ m > at => pc[<<r, m>>] = "idle"
             /\ m < at => pc[<<r, m>>] \in {"idle", "done"}
             /\ m \in Content(First, at - 1) => pc[<<r, m>>] = "done"

(* The harness goes on after what it knows to be stored.                   *)
ResumedAfter ==
    \A r \in 1..request, m \in 1..Messages :
        pc[<<r, m>>] = "done" /\ answer[r] # "unheard" =>
            /\ \A s \in (r + 1)..request : m < from[s]
            /\ r = request /\ step = "idle" /\ answer[r] = "failed" => m < at

Written(m) == \E r \in 1..Requests : pc[<<r, m>>] = "done"

(* And before what it cannot know to be stored.                            *)
PassedBefore ==
    request > 0 =>
        /\ \A m \in Content(1, First - 1) : Written(m)
        /\ step = "idle" /\ answer[request] = "failed" =>
             \A m \in Content(First, at - 1) : Written(m)
        /\ step = "idle" /\ answer[request] = "added" =>
             \A m \in Content(First, last) : Written(m)

HandlerInv ==
    HandlerTyped /\ RequestShape /\ WritesInTurn /\ ResumedAfter /\ PassedBefore

-----------------------------------------------------------------------------
(* The messages of a request.                                              *)

LEMMA MinIs ==
    ASSUME NEW S \in SUBSET Nat, S # {}
    PROVE  Min(S) \in S /\ \A y \in S : Min(S) <= y
<1>1. \E x \in S : \A y \in S : ~(<<y, x>> \in OpToRel(<, Nat))
  BY NatLessThanWellFounded, WFMin
<1>2. \A x, y \in S : ~(<<y, x>> \in OpToRel(<, Nat)) => x <= y
  BY DEF OpToRel
<1>3. \E x \in S : \A y \in S : x <= y
  BY <1>1, <1>2
<1> QED BY <1>3 DEF Min

(* The next message with content passes over none.                         *)
LEMMA AfterIs ==
    ASSUME last \in Nat, NEW m \in Nat, m <= last
    PROVE  /\ After(m) \in Content(m + 1, last) \cup {last + 1}
           /\ After(m) \in Nat /\ After(m) >= m + 1
           /\ \A k \in Content(m + 1, last) : After(m) <= k
<1> DEFINE S == Content(m + 1, last) \cup {last + 1}
<1>1. S \in SUBSET Nat /\ S # {} /\ \A k \in S : k >= m + 1
  BY DEF Content
<1>2. Min(S) \in S /\ \A y \in S : Min(S) <= y
  BY <1>1, MinIs
<1> QED BY <1>1, <1>2 DEF After

LEMMA ResumeIs ==
    ASSUME request \in Nat
    PROVE  /\ request = 0 => ResumeAt = 1
           /\ request > 0 /\ answer[request] = "added" => ResumeAt = last + 1
           /\ request > 0 /\ answer[request] = "failed" => ResumeAt = at
           /\ request > 0 /\ answer[request] \notin {"added", "failed"} => ResumeAt = First
<1>1. request > 0 <=> request # 0
  OBVIOUS
<1>2. CASE request = 0
  <2>1. ~(request > 0)
    BY <1>2
  <2>2. ResumeAt = 1
    BY <1>2, <2>1, Zenon DEF ResumeAt
  <2> QED BY <2>1, <2>2
<1>3. CASE request > 0 /\ answer[request] = "added"
  <2>1. request # 0 /\ answer[request] # "failed"
    BY <1>3
  <2>2. ResumeAt = last + 1
    BY <1>3, <2>1, Zenon DEF ResumeAt
  <2> QED BY <1>3, <2>1, <2>2
<1>4. CASE request > 0 /\ answer[request] = "failed"
  <2>1. request # 0 /\ answer[request] # "added"
    BY <1>4
  <2>2. ResumeAt = at
    BY <1>4, <2>1, Zenon DEF ResumeAt
  <2> QED BY <1>4, <2>1, <2>2
<1>5. CASE request > 0 /\ answer[request] \notin {"added", "failed"}
  <2>1. request # 0 /\ answer[request] # "added" /\ answer[request] # "failed"
    BY <1>5
  <2>2. ResumeAt = First
    BY <1>5, <2>1, Zenon DEF ResumeAt
  <2> QED BY <1>5, <2>1, <2>2
<1> QED BY <1>1, <1>2, <1>3, <1>4, <1>5

(* Where the harness goes on: not before the last request, after what it   *)
(* knows to be stored and not after what nobody wrote.                     *)
LEMMA ResumeGoesOn ==
    ASSUME HandlerInv, step = "idle"
    PROVE  /\ ResumeAt \in 1..(Messages + 1)
           /\ request > 0 => First <= ResumeAt
           /\ \A r \in 1..request, m \in 1..Messages :
                 pc[<<r, m>>] = "done" /\ answer[r] # "unheard" => m < ResumeAt
           /\ \A m \in Content(1, ResumeAt - 1) : Written(m)
<1> USE BenchAssumption DEF HandlerInv
<1>1. request \in Nat /\ request <= Requests
  BY DEF HandlerTyped
<1>2. CASE request = 0
  <2>1. ResumeAt = 1
    BY <1>1, <1>2, ResumeIs
  <2> QED BY <1>2, <2>1 DEF Content
<1>3. CASE request > 0
  <2>0. /\ request \in 1..request /\ request \in 1..Requests
        /\ First \in Nat /\ 1 <= First /\ First <= last /\ last \in Nat /\ last <= Messages
        /\ answer[request] \in {"added", "failed", "refused", "unheard"}
    BY <1>1, <1>3 DEF HandlerTyped, RequestShape, First, Answers
  <2>1. \A r \in 1..request, m \in 1..Messages :
           pc[<<r, m>>] = "done" /\ answer[r] # "unheard" =>
               /\ r # request => m < First
               /\ r = request => m <= last /\ answer[r] # "refused"
               /\ r = request /\ answer[r] = "failed" => m < at
    <3> SUFFICES ASSUME NEW r \in 1..request, NEW m \in 1..Messages,
                        pc[<<r, m>>] = "done", answer[r] # "unheard"
                 PROVE  /\ r # request => m < First
                        /\ r = request => m <= last /\ answer[r] # "refused"
                        /\ r = request /\ answer[r] = "failed" => m < at
      OBVIOUS
    <3>1. r \in 1..Requests
      BY <1>1
    <3>2. r # request => m < First
      <4>1. r # request => request \in (r + 1)..request
        BY <1>1
      <4> QED BY <4>1 DEF ResumedAfter, First
    <3> QED BY <3>1, <3>2 DEF WritesInTurn, ResumedAfter
  <2>2. CASE answer[request] = "added"
    <3>1. ResumeAt = last + 1
      BY <1>1, <1>3, <2>2, ResumeIs
    <3>2. \A m \in Content(1, last) : Written(m)
      <4>1. \A m \in Content(1, last) : m \in Content(1, First - 1) \/ m \in Content(First, last)
        BY <2>0 DEF Content
      <4> QED BY <1>3, <2>2, <4>1 DEF PassedBefore
    <3> QED BY <2>0, <2>1, <3>1, <3>2
  <2>3. CASE answer[request] = "failed"
    <3>1. ResumeAt = at /\ at \in First..last
      BY <1>1, <1>3, <2>3, ResumeIs DEF RequestShape
    <3>2. \A m \in Content(1, at - 1) : Written(m)
      <4>1. \A m \in Content(1, at - 1) : m \in Content(1, First - 1) \/ m \in Content(First, at - 1)
        BY <2>0, <3>1 DEF Content
      <4> QED BY <1>3, <2>3, <4>1 DEF PassedBefore
    <3>3. ASSUME NEW r \in 1..request, NEW m \in 1..Messages,
                 pc[<<r, m>>] = "done", answer[r] # "unheard"
          PROVE  m < ResumeAt
      <4>1. r # request => m < First
        BY <2>1, <3>3
      <4>2. r = request => m < at
        BY <2>1, <2>3, <3>3
      <4> QED BY <2>0, <3>1, <4>1, <4>2
    <3>4. ResumeAt \in 1..(Messages + 1) /\ First <= ResumeAt
      BY <2>0, <3>1
    <3> HIDE DEF HandlerInv
    <3> QED BY <3>1, <3>2, <3>3, <3>4
  <2>4. CASE answer[request] \in {"refused", "unheard"}
    <3>1. ResumeAt = First
      BY <1>1, <1>3, <2>4, ResumeIs
    <3> QED BY <1>3, <2>0, <2>1, <2>4, <3>1 DEF PassedBefore
  <2> QED BY <2>0, <2>2, <2>3, <2>4
<1> QED BY <1>1, <1>2, <1>3

-----------------------------------------------------------------------------
(* The handler's steps.                                                    *)

(* A step of the write in hand: it begins or goes on, and may end.         *)
WriteMoves ==
    /\ Writing /\ pc[Write] \notin Finished
    /\ \E s : s # "idle" /\ pc' = [pc EXCEPT ![Write] = s]
    /\ UNCHANGED <<handler, embedding, size>>

LEMMA WriteInHand ==
    ASSUME HandlerInv, Writing
    PROVE  /\ request \in 1..Requests /\ at \in 1..Messages /\ Write \in Writes
           /\ First <= at /\ at <= last /\ at \in Content(First, last)
           /\ step = "write" /\ request > 0 /\ answer[request] = "none"
<1> USE BenchAssumption DEF HandlerInv, Writing
<1>1. request \in Nat /\ request > 0 /\ request <= Requests /\ request \in 1..request
  BY DEF HandlerTyped, RequestShape
<1>2. at \in Content(First, last) /\ 1 <= First /\ First \in Nat
      /\ last \in Nat /\ last <= Messages
  BY <1>1 DEF RequestShape, HandlerTyped, First, Content
<1>3. at \in 1..Messages /\ First <= at
  BY <1>2 DEF Content
<1> QED BY <1>1, <1>2, <1>3 DEF Write, RequestShape

LEMMA WriteMoveKeeps ==
    ASSUME TypeInv, HandlerInv, WriteMoves
    PROVE  HandlerInv'
<1> USE BenchAssumption
<1>1. /\ request \in 1..Requests /\ at \in 1..Messages /\ Write \in Writes
      /\ First <= at /\ at <= last
      /\ step = "write" /\ request > 0 /\ answer[request] = "none"
  BY WriteInHand DEF WriteMoves
<1>2. UNCHANGED <<request, step, from, last, at, answer, embedding, size>>
  BY DEF WriteMoves, handler
<1>3. \A r \in 1..Requests, m \in 1..Messages :
         /\ ~(r = request /\ m = at) => pc'[<<r, m>>] = pc[<<r, m>>]
         /\ r = request /\ m = at => pc'[<<r, m>>] # "idle" /\ pc[<<r, m>>] \notin Finished
  BY <1>1 DEF WriteMoves, Write, TypeInv, TypeOK, Calls
<1>4. HandlerTyped' /\ RequestShape'
  BY <1>2 DEF HandlerInv, HandlerTyped, RequestShape, First
<1>5. WritesInTurn'
  <2> SUFFICES ASSUME NEW r \in 1..Requests, NEW m \in 1..Messages
               PROVE  /\ pc'[<<r, m>>] # "idle" =>
                           /\ r <= request /\ from[r] <= m /\ answer[r] # "refused"
                           /\ r = request => m <= last /\ step # "embed"
                      /\ r < request \/ step = "idle" => pc'[<<r, m>>] \in {"idle"} \cup Finished
                      /\ r = request /\ step = "write" =>
                           /\ m > at => pc'[<<r, m>>] = "idle"
                           /\ m < at => pc'[<<r, m>>] \in {"idle", "done"}
                           /\ m \in Content(First, at - 1) => pc'[<<r, m>>] = "done"
    BY <1>2 DEF WritesInTurn, First, Content
  <2>1. CASE r = request /\ m = at
    BY <1>1, <2>1 DEF First, Content
  <2>2. CASE ~(r = request /\ m = at)
    <3>1. pc'[<<r, m>>] = pc[<<r, m>>]
      BY <1>3, <2>2
    <3> QED BY <3>1 DEF HandlerInv, WritesInTurn
  <2> QED BY <2>1, <2>2
<1>6. ResumedAfter'
  <2> SUFFICES ASSUME NEW r \in 1..request, NEW m \in 1..Messages,
                      pc'[<<r, m>>] = "done", answer[r] # "unheard"
               PROVE  \A s \in (r + 1)..request : m < from[s]
    BY <1>1, <1>2 DEF ResumedAfter
  <2>1. r \in 1..Requests
    BY <1>1
  <2>2. CASE r = request
    BY <1>1, <2>2
  <2>3. CASE r # request
    <3>1. pc'[<<r, m>>] = pc[<<r, m>>]
      BY <1>3, <2>1, <2>3
    <3> QED BY <3>1 DEF HandlerInv, ResumedAfter
  <2> QED BY <2>2, <2>3
<1>7. \A m \in 1..Messages : Written(m) => Written(m)'
  BY <1>3 DEF Written, Finished
<1>8. PassedBefore'
  <2>1. \A m \in Content(1, First - 1) : m \in 1..Messages
    BY <1>1 DEF Content, HandlerInv, HandlerTyped, First
  <2> QED BY <1>1, <1>2, <1>7, <2>1 DEF HandlerInv, PassedBefore, First, Content
<1> QED BY <1>4, <1>5, <1>6, <1>8 DEF HandlerInv

(* The batch goes on, a delete or a client that leaves: nothing the        *)
(* handler stands on changes.                                              *)
LEMMA AsideKeeps ==
    ASSUME HandlerInv, UNCHANGED <<handler, pc, size>>,
           embedding' # embedding => embedding = "running"
    PROVE  HandlerInv'
<1>1. UNCHANGED <<request, step, from, last, at, answer, pc, size>>
  BY DEF handler
<1>2. RequestShape'
  BY <1>1 DEF HandlerInv, RequestShape, First
<1> QED BY <1>1, <1>2 DEF HandlerInv, HandlerTyped, WritesInTurn, ResumedAfter, PassedBefore,
           First, Content, Written

LEMMA SendKeeps ==
    ASSUME HandlerInv, SendAdd
    PROVE  HandlerInv'
<1> USE BenchAssumption
<1>1. step = "idle" /\ request \in Nat /\ request < Requests /\ ResumeAt <= Messages
  BY DEF SendAdd, HandlerInv, HandlerTyped
<1>2. /\ ResumeAt \in 1..Messages
      /\ request > 0 => First <= ResumeAt
      /\ \A r \in 1..request, m \in 1..Messages :
            pc[<<r, m>>] = "done" /\ answer[r] # "unheard" => m < ResumeAt
      /\ \A m \in Content(1, ResumeAt - 1) : Written(m)
  <2>1. ResumeAt \in 1..(Messages + 1)
    BY <1>1, ResumeGoesOn
  <2> QED BY <1>1, <2>1, ResumeGoesOn
<1> DEFINE new == request + 1
           start == ResumeAt
<1>3. PICK to \in start..Messages :
         /\ request' = new
         /\ from' = [from EXCEPT ![new] = start]
         /\ last' = to
         /\ \/ /\ step' = "idle" /\ answer' = [answer EXCEPT ![new] = "refused"]
            \/ /\ step' = "embed" /\ answer' = answer
               /\ size' = Cardinality(Content(start, to))
  BY DEF SendAdd, BeginBatch
<1>4. at' = 0 /\ UNCHANGED pc
  BY DEF SendAdd, vars
<1> HIDE DEF new, start
<1>5. /\ new \in 1..Requests /\ new = request + 1 /\ request \in Nat
      /\ start \in 1..Messages /\ to \in 1..Messages /\ start <= to
      /\ from \in [1..Requests -> 0..Messages] /\ answer \in [1..Requests -> Answers]
  BY <1>1, <1>2 DEF new, start, HandlerInv, HandlerTyped
<1>6. /\ First' = start
      /\ \A r \in 1..Requests : r # new => from'[r] = from[r] /\ answer'[r] = answer[r]
      /\ from'[new] = start /\ answer[new] = "none"
      /\ step' = "idle" => answer'[new] = "refused"
      /\ step' # "idle" => answer'[new] = "none"
  BY <1>3, <1>5 DEF First, HandlerInv, RequestShape
<1>7. \A r \in 1..request : 1 <= from[r] /\ from[r] <= start
  <2>1. \A r \in 1..request : request \in r..request /\ request > 0
    BY <1>1
  <2>2. \A r \in 1..request : 1 <= from[r] /\ from[r] <= from[request]
    BY <2>1 DEF HandlerInv, RequestShape
  <2>3. request > 0 => from[request] <= start
    BY <1>2 DEF First, start
  <2>4. \A r \in 1..request : r \in 1..Requests /\ from[r] \in Nat
    BY <1>1, <1>5
  <2> QED BY <1>5, <2>1, <2>2, <2>3, <2>4
<1>8. HandlerTyped'
  BY <1>3, <1>4, <1>5 DEF HandlerTyped, Answers
<1>9. RequestShape'
  <2>1. \A r \in 1..new : 1 <= from'[r] /\ \A s \in r..new : from'[r] <= from'[s]
    <3> SUFFICES ASSUME NEW r \in 1..new, NEW s \in r..new
                 PROVE  1 <= from'[r] /\ from'[r] <= from'[s]
      BY <1>5
    <3>1. CASE r = new
      BY <1>5, <1>6, <3>1
    <3>2. CASE r # new
      <4>1. r \in 1..request /\ r \in 1..Requests
        BY <1>5, <3>2
      <4>2. CASE s = new
        BY <1>6, <1>7, <3>2, <4>1, <4>2
      <4>3. CASE s # new
        <5>1. s \in r..request /\ s \in 1..Requests
          BY <1>5, <4>1, <4>3
        <5> QED BY <1>6, <3>2, <4>1, <4>3, <5>1 DEF HandlerInv, RequestShape
      <4> QED BY <4>2, <4>3
    <3> QED BY <3>1, <3>2
  <2>2. \A r \in 1..Requests : r > new => answer'[r] = "none"
    BY <1>5, <1>6 DEF HandlerInv, RequestShape
  <2> QED BY <1>3, <1>4, <1>5, <1>6, <2>1, <2>2 DEF RequestShape, Content
<1>10. ASSUME NEW r \in 1..Requests, NEW m \in 1..Messages
       PROVE  /\ pc'[<<r, m>>] = pc[<<r, m>>]
              /\ pc[<<r, m>>] \in {"idle"} \cup Finished
              /\ pc[<<r, m>>] # "idle" =>
                    r \in 1..request /\ from[r] <= m /\ answer[r] # "refused"
  <2>1. pc'[<<r, m>>] = pc[<<r, m>>]
    BY <1>4
  <2>2. /\ pc[<<r, m>>] # "idle" => r <= request /\ from[r] <= m /\ answer[r] # "refused"
        /\ pc[<<r, m>>] \in {"idle"} \cup Finished
    BY <1>1 DEF HandlerInv, WritesInTurn
  <2> QED BY <1>1, <2>1, <2>2
<1>11. WritesInTurn'
  <2> SUFFICES ASSUME NEW r \in 1..Requests, NEW m \in 1..Messages
               PROVE  (/\ pc[<<r, m>>] # "idle" =>
                            /\ r <= request /\ from[r] <= m /\ answer[r] # "refused"
                            /\ r = request => m <= last /\ step # "embed"
                       /\ r < request \/ step = "idle" => pc[<<r, m>>] \in {"idle"} \cup Finished
                       /\ r = request /\ step = "write" =>
                            /\ m > at => pc[<<r, m>>] = "idle"
                            /\ m < at => pc[<<r, m>>] \in {"idle", "done"}
                            /\ m \in Content(First, at - 1) => pc[<<r, m>>] = "done")'
    BY DEF WritesInTurn
  <2>1. step' # "write" /\ request' = new
    BY <1>3
  <2>2. r \in 1..request => r < new /\ r # new
    BY <1>5
  <2>3. /\ pc'[<<r, m>>] # "idle" =>
             r < new /\ r # new /\ from'[r] <= m /\ answer'[r] # "refused"
        /\ pc'[<<r, m>>] \in {"idle"} \cup Finished
    BY <1>6, <1>10, <2>2
  <2>4. r < new => r <= new
    BY <1>5
  <2> QED BY <2>1, <2>3, <2>4
<1>12. ResumedAfter'
  <2> SUFFICES ASSUME NEW r \in 1..new, NEW m \in 1..Messages,
                      pc'[<<r, m>>] = "done", answer'[r] # "unheard"
               PROVE  r < new /\ \A s \in (r + 1)..new : m < from'[s]
    BY <1>3, <1>5 DEF ResumedAfter
  <2>0. r \in 1..Requests
    BY <1>5
  <2>1. r \in 1..request
    <3>1. pc[<<r, m>>] = "done"
      BY <1>10, <2>0
    <3> QED BY <1>10, <2>0, <3>1
  <2>2. pc[<<r, m>>] = "done" /\ answer[r] # "unheard"
    <3>1. r # new
      BY <1>5, <2>1
    <3> QED BY <1>6, <1>10, <2>0, <3>1
  <2>3. m < start
    BY <1>2, <2>1, <2>2 DEF start
  <2>4. \A s \in (r + 1)..request : s \in 1..Requests /\ s # new /\ m < from[s]
    BY <1>5, <2>1, <2>2 DEF HandlerInv, ResumedAfter
  <2>5. r < new
    BY <1>5, <2>1
  <2>6. ASSUME NEW s \in (r + 1)..new
        PROVE  m < from'[s]
    <3>1. CASE s = new
      BY <1>6, <2>3, <3>1
    <3>2. CASE s # new
      <4>1. s \in (r + 1)..request
        BY <1>5, <2>1, <3>2
      <4>2. from'[s] = from[s] /\ m < from[s]
        BY <1>6, <2>4, <4>1
      <4> QED BY <4>2
    <3> QED BY <3>1, <3>2
  <2> QED BY <2>5, <2>6
<1>13. PassedBefore'
  BY <1>2, <1>3, <1>4, <1>5, <1>6 DEF PassedBefore, Written, Content, start
<1> QED BY <1>8, <1>9, <1>11, <1>12, <1>13 DEF HandlerInv

(* The handler takes a message.                                            *)
LEMMA TakeMessageKeeps ==
    ASSUME HandlerInv, step # "idle", step' = "write",
           UNCHANGED <<request, from, last, answer, pc, embedding, size>>,
           embedding \in {"ok", "unsupported"},
           at' \in Content(First, last) \cup {last + 1},
           \A m \in 1..Messages :
              /\ m > at' => pc[<<request, m>>] = "idle"
              /\ m < at' => pc[<<request, m>>] \in {"idle", "done"}
              /\ m \in Content(First, at' - 1) => pc[<<request, m>>] = "done"
    PROVE  HandlerInv'
<1> USE BenchAssumption
<1>1. /\ request \in 1..Requests /\ request > 0 /\ answer[request] = "none"
      /\ First \in Nat /\ 1 <= First /\ last \in Nat /\ last <= Messages
      /\ request \in 1..request
  BY DEF HandlerInv, HandlerTyped, RequestShape, First
<1>2. First' = First
  BY DEF First
<1>3. HandlerTyped'
  BY <1>1 DEF HandlerInv, HandlerTyped, Content
<1>4. RequestShape'
  BY <1>1, <1>2 DEF HandlerInv, RequestShape, Content
<1>5. WritesInTurn'
  <2> SUFFICES ASSUME NEW r \in 1..Requests, NEW m \in 1..Messages
               PROVE  (/\ pc[<<r, m>>] # "idle" =>
                            /\ r <= request /\ from[r] <= m /\ answer[r] # "refused"
                            /\ r = request => m <= last /\ step # "embed"
                       /\ r < request \/ step = "idle" => pc[<<r, m>>] \in {"idle"} \cup Finished
                       /\ r = request /\ step = "write" =>
                            /\ m > at => pc[<<r, m>>] = "idle"
                            /\ m < at => pc[<<r, m>>] \in {"idle", "done"}
                            /\ m \in Content(First, at - 1) => pc[<<r, m>>] = "done")'
    BY DEF WritesInTurn
  <2>1. /\ pc[<<r, m>>] # "idle" =>
             /\ r <= request /\ from[r] <= m /\ answer[r] # "refused"
             /\ r = request => m <= last
        /\ r < request => pc[<<r, m>>] \in {"idle"} \cup Finished
    BY DEF HandlerInv, WritesInTurn
  <2> QED BY <1>2, <2>1 DEF Content
<1>6. ResumedAfter'
  BY DEF HandlerInv, ResumedAfter
<1>7. PassedBefore'
  BY <1>2 DEF HandlerInv, PassedBefore, Written, Content
<1> QED BY <1>3, <1>4, <1>5, <1>6, <1>7 DEF HandlerInv

(* The handler answers.                                                    *)
LEMMA AnswerKeeps ==
    ASSUME HandlerInv, step # "idle", step' = "idle",
           UNCHANGED <<request, from, last, pc, size>>,
           NEW a \in {"added", "failed", "unheard"}, answer' = [answer EXCEPT ![request] = a],
           at' \in 0..(Messages + 1),
           \A m \in 1..Messages : pc[<<request, m>>] \in {"idle"} \cup Finished,
           a = "failed" =>
              /\ at' \in First..last
              /\ \A m \in 1..Messages : pc[<<request, m>>] = "done" => m < at'
              /\ \A m \in Content(First, at' - 1) : pc[<<request, m>>] = "done",
           a = "added" => \A m \in Content(First, last) : pc[<<request, m>>] = "done"
    PROVE  HandlerInv'
<1> USE BenchAssumption
<1>1. /\ request \in 1..Requests /\ request > 0 /\ answer[request] = "none"
      /\ First \in Nat /\ 1 <= First /\ last \in Nat /\ last <= Messages
      /\ request \in 1..request /\ answer \in [1..Requests -> Answers]
  BY DEF HandlerInv, HandlerTyped, RequestShape, First
<1>2. /\ First' = First /\ answer'[request] = a
      /\ \A r \in 1..Requests : r # request => answer'[r] = answer[r]
  BY <1>1 DEF First
<1>3. HandlerTyped'
  BY <1>1 DEF HandlerInv, HandlerTyped, Answers
<1>4. RequestShape'
  <2>1. \A r \in 1..Requests : r > request => answer'[r] = "none"
    BY <1>1, <1>2 DEF HandlerInv, RequestShape
  <2>2. \A r \in 1..request : 1 <= from[r] /\ \A s \in r..request : from[r] <= from[s]
    BY DEF HandlerInv, RequestShape
  <2>3. First <= last
    BY <1>1 DEF HandlerInv, RequestShape
  <2> QED BY <1>1, <1>2, <2>1, <2>2, <2>3 DEF RequestShape
<1>5. WritesInTurn'
  <2> SUFFICES ASSUME NEW r \in 1..Requests, NEW m \in 1..Messages
               PROVE  (/\ pc[<<r, m>>] # "idle" =>
                            /\ r <= request /\ from[r] <= m /\ answer[r] # "refused"
                            /\ r = request => m <= last /\ step # "embed"
                       /\ r < request \/ step = "idle" => pc[<<r, m>>] \in {"idle"} \cup Finished
                       /\ r = request /\ step = "write" =>
                            /\ m > at => pc[<<r, m>>] = "idle"
                            /\ m < at => pc[<<r, m>>] \in {"idle", "done"}
                            /\ m \in Content(First, at - 1) => pc[<<r, m>>] = "done")'
    BY DEF WritesInTurn
  <2>1. /\ pc[<<r, m>>] # "idle" =>
             /\ r <= request /\ from[r] <= m /\ answer[r] # "refused"
             /\ r = request => m <= last
        /\ r < request => pc[<<r, m>>] \in {"idle"} \cup Finished
    BY DEF HandlerInv, WritesInTurn
  <2>2. pc[<<r, m>>] \in {"idle"} \cup Finished
    <3>1. r > request => pc[<<r, m>>] = "idle"
      BY <1>1, <2>1
    <3>2. r = request \/ r < request \/ r > request
      BY <1>1
    <3> QED BY <2>1, <3>1, <3>2
  <2>3. pc[<<r, m>>] # "idle" => answer'[r] # "refused"
    BY <1>2, <2>1
  <2> QED BY <2>1, <2>2, <2>3
<1>6. ResumedAfter'
  <2> SUFFICES ASSUME NEW r \in 1..request, NEW m \in 1..Messages,
                      pc[<<r, m>>] = "done", answer'[r] # "unheard"
               PROVE  /\ \A s \in (r + 1)..request : m < from[s]
                      /\ r = request /\ answer'[r] = "failed" => m < at'
    BY DEF ResumedAfter
  <2>1. CASE r = request
    BY <1>1, <1>2, <2>1
  <2>2. CASE r # request
    <3>1. r \in 1..Requests /\ answer[r] # "unheard"
      BY <1>1, <1>2, <2>2
    <3> QED BY <2>2, <3>1 DEF HandlerInv, ResumedAfter
  <2> QED BY <2>1, <2>2
<1>7. PassedBefore'
  <2>1. \A m : pc[<<request, m>>] = "done" => Written(m)
    BY <1>1 DEF Written
  <2>2. \A m \in Content(1, First - 1) : Written(m)
    BY <1>1 DEF HandlerInv, PassedBefore
  <2>3. \A m : Written(m)' <=> Written(m)
    BY DEF Written
  <2> QED BY <1>1, <1>2, <2>1, <2>2, <2>3 DEF PassedBefore, Content
<1> QED BY <1>3, <1>4, <1>5, <1>6, <1>7 DEF HandlerInv

LEMMA ContentBelow ==
    ASSUME NEW a \in Nat, NEW b \in Nat, NEW m \in Content(a, b - 1)
    PROVE  a <= m /\ m < b /\ m \notin EmptyMessages
BY DEF Content

LEMMA HandlerMoves ==
    ASSUME TypeInv, HandlerInv,
           Embedding \/ EmbeddingFailed \/ NextMessage \/ WriteFailed \/ Added
    PROVE  HandlerInv'
<1> USE BenchAssumption
<1>1. /\ UNCHANGED <<request, from, last, pc, embedding, size>> /\ step # "idle"
  BY DEF Embedding, EmbeddingFailed, NextMessage, WriteFailed, Added, Writing, vars, batchVars
<1>2. /\ request \in 1..Requests /\ request > 0 /\ request \in 1..request
      /\ First \in Nat /\ 1 <= First /\ First <= last /\ last \in Nat /\ last <= Messages
  BY <1>1 DEF HandlerInv, HandlerTyped, RequestShape, First
<1>3. \A m \in 1..Messages :
         /\ pc[<<request, m>>] # "idle" => First <= m /\ m <= last /\ step = "write"
         /\ step = "write" =>
              /\ m > at => pc[<<request, m>>] = "idle"
              /\ m < at => pc[<<request, m>>] \in {"idle", "done"}
              /\ m \in Content(First, at - 1) => pc[<<request, m>>] = "done"
  <2> SUFFICES ASSUME NEW m \in 1..Messages
               PROVE  /\ pc[<<request, m>>] # "idle" => First <= m /\ m <= last /\ step = "write"
                      /\ step = "write" =>
                           /\ m > at => pc[<<request, m>>] = "idle"
                           /\ m < at => pc[<<request, m>>] \in {"idle", "done"}
                           /\ m \in Content(First, at - 1) => pc[<<request, m>>] = "done"
    OBVIOUS
  <2>1. step \in {"embed", "write"}
    BY <1>1 DEF HandlerInv, HandlerTyped
  <2>2. pc[<<request, m>>] # "idle" => First <= m /\ m <= last /\ step # "embed"
    BY <1>2 DEF HandlerInv, WritesInTurn, First
  <2>3. step = "write" =>
           /\ m > at => pc[<<request, m>>] = "idle"
           /\ m < at => pc[<<request, m>>] \in {"idle", "done"}
           /\ m \in Content(First, at - 1) => pc[<<request, m>>] = "done"
    BY <1>2 DEF HandlerInv, WritesInTurn
  <2> QED BY <2>1, <2>2, <2>3
<1>4. \A a : Answered(a) = [answer EXCEPT ![request] = "unheard"]
             \/ Answered(a) = [answer EXCEPT ![request] = a]
  BY DEF Answered
<1>5. CASE Embedding
  <2>1. step = "embed" /\ step' = "write" /\ at' = After(First - 1) /\ answer' = answer
        /\ embedding \in {"ok", "unsupported"}
    BY <1>5 DEF Embedding
  <2>2. /\ at' \in Content(First, last) \cup {last + 1}
        /\ at' \in Nat /\ \A k \in Content(First, last) : at' <= k
    <3>1. First - 1 \in Nat /\ First - 1 <= last /\ First - 1 + 1 = First
      BY <1>2
    <3> DEFINE m == First - 1
    <3>2. m \in Nat /\ m <= last /\ m + 1 = First /\ at' = After(m)
      BY <2>1, <3>1
    <3> HIDE DEF m
    <3>3. /\ After(m) \in Content(m + 1, last) \cup {last + 1} /\ After(m) \in Nat
          /\ \A k \in Content(m + 1, last) : After(m) <= k
      BY <1>2, <3>2, AfterIs
    <3> QED BY <3>2, <3>3
  <2>3. \A m \in 1..Messages : m \notin Content(First, at' - 1)
    <3> SUFFICES ASSUME NEW m \in 1..Messages, m \in Content(First, at' - 1) PROVE FALSE
      OBVIOUS
    <3>0. at' <= last + 1
      <4>1. CASE at' = last + 1
        BY <1>2, <4>1
      <4>2. CASE at' \in Content(First, last)
        BY <1>2, <4>2 DEF Content
      <4> QED BY <2>2, <4>1, <4>2
    <3>1. m < at' /\ First <= m /\ m \notin EmptyMessages
      BY <1>2, <2>2, ContentBelow
    <3>2. m \in Content(First, last)
      BY <1>2, <2>2, <3>0, <3>1 DEF Content
    <3> QED BY <1>2, <2>2, <3>1, <3>2
  <2>4. \A m \in 1..Messages : pc[<<request, m>>] = "idle"
    BY <1>3, <2>1
  <2> QED BY <1>1, <2>1, <2>2, <2>3, <2>4, TakeMessageKeeps
<1>6. CASE EmbeddingFailed
  <2>1. step = "embed" /\ step' = "idle" /\ at' = First /\ answer' = Answered("failed")
    BY <1>6 DEF EmbeddingFailed
  <2>2. \A m \in 1..Messages : pc[<<request, m>>] = "idle"
    BY <1>3, <2>1
  <2>3. Content(First, at' - 1) = {}
    BY <1>2, <2>1 DEF Content
  <2> QED BY <1>1, <1>2, <1>4, <2>1, <2>2, <2>3, AnswerKeeps
<1>7. CASE NextMessage
  <2>1. /\ step = "write" /\ step' = "write" /\ at' = After(at) /\ answer' = answer
        /\ pc[<<request, at>>] = "done" /\ Writing
    BY <1>7 DEF NextMessage, Writing, Write
  <2>2. at \in 1..Messages /\ First <= at /\ at <= last
    BY <2>1, WriteInHand
  <2>3. /\ at' \in Content(at + 1, last) \cup {last + 1}
        /\ at' \in Nat /\ at' >= at + 1 /\ \A k \in Content(at + 1, last) : at' <= k
    BY <1>2, <2>1, <2>2, AfterIs
  <2>4. at' \in Content(First, last) \cup {last + 1}
    BY <1>2, <2>2, <2>3 DEF Content
  <2>5. embedding \in {"ok", "unsupported"}
    BY <1>2, <2>1 DEF HandlerInv, RequestShape
  <2>6. ASSUME NEW m \in 1..Messages
        PROVE  /\ m > at' => pc[<<request, m>>] = "idle"
               /\ m < at' => pc[<<request, m>>] \in {"idle", "done"}
               /\ m \in Content(First, at' - 1) => pc[<<request, m>>] = "done"
    <3>1. CASE m < at
      BY <1>2, <1>3, <2>1, <2>2, <2>3, <3>1 DEF Content
    <3>2. CASE m = at
      BY <2>1, <2>2, <2>3, <3>2
    <3>3. CASE m > at
      <4>1. pc[<<request, m>>] = "idle"
        BY <1>3, <2>1, <3>3
      <4>2. m \notin Content(First, at' - 1)
        <5> SUFFICES ASSUME m \in Content(First, at' - 1) PROVE FALSE
          OBVIOUS
        <5>0. at' <= last + 1
          <6>1. CASE at' = last + 1
            BY <1>2, <6>1
          <6>2. CASE at' \in Content(at + 1, last)
            BY <1>2, <2>2, <6>2 DEF Content
          <6> QED BY <2>3, <6>1, <6>2
        <5>1. m < at' /\ m \notin EmptyMessages /\ at' <= last + 1
          BY <1>2, <2>3, <5>0, ContentBelow
        <5>2. m \in Content(at + 1, last)
          BY <1>2, <2>2, <2>3, <3>3, <5>1 DEF Content
        <5> QED BY <2>3, <5>1, <5>2
      <4> QED BY <4>1, <4>2
    <3> QED BY <2>2, <3>1, <3>2, <3>3
  <2> QED BY <1>1, <2>1, <2>4, <2>5, <2>6, TakeMessageKeeps
<1>8. CASE WriteFailed
  <2>1. /\ step = "write" /\ step' = "idle" /\ at' = at /\ answer' = Answered("failed")
        /\ pc[<<request, at>>] = "failed" /\ Writing
    BY <1>8 DEF WriteFailed, Writing, Write, FailedIndex
  <2>2. at \in 1..Messages /\ First <= at /\ at <= last
    BY <2>1, WriteInHand
  <2>3. \A m \in 1..Messages :
           /\ pc[<<request, m>>] \in {"idle"} \cup Finished
           /\ pc[<<request, m>>] = "done" => m < at
    <3> SUFFICES ASSUME NEW m \in 1..Messages
                 PROVE  /\ pc[<<request, m>>] \in {"idle"} \cup Finished
                        /\ pc[<<request, m>>] = "done" => m < at
      OBVIOUS
    <3>1. m = at => pc[<<request, m>>] = "failed"
      BY <2>1
    <3>2. m < at \/ m = at \/ m > at
      BY <2>2
    <3> QED BY <1>3, <2>1, <3>1, <3>2 DEF Finished
  <2>4. \A m \in Content(First, at - 1) : m \in 1..Messages /\ pc[<<request, m>>] = "done"
    BY <1>2, <1>3, <2>1, <2>2 DEF Content
  <2> QED BY <1>1, <1>2, <1>4, <2>1, <2>2, <2>3, <2>4, AnswerKeeps
<1>9. CASE Added
  <2>1. /\ step = "write" /\ step' = "idle" /\ at > last /\ at' = at
        /\ answer' = Answered("added")
    BY <1>9 DEF Added
  <2>2. at = last + 1
    BY <1>2, <2>1 DEF HandlerInv, RequestShape, Content
  <2>3. \A m \in 1..Messages : pc[<<request, m>>] \in {"idle"} \cup Finished
    BY <1>2, <1>3, <2>1, <2>2 DEF Finished
  <2>4. \A m \in Content(First, last) : m \in 1..Messages /\ m \in Content(First, at - 1)
    BY <1>2, <2>2 DEF Content
  <2>5. \A m \in Content(First, last) : pc[<<request, m>>] = "done"
    BY <1>3, <2>1, <2>4
  <2> QED BY <1>1, <1>2, <1>4, <2>1, <2>2, <2>3, <2>5, AnswerKeeps
<1> QED BY <1>5, <1>6, <1>7, <1>8, <1>9

-----------------------------------------------------------------------------
(* The rows.                                                               *)

RowsTyped ==
    /\ rowVector \in [Writes -> Vector]
    /\ erased \subseteq Writes /\ carried \subseteq erased
    /\ deletes \in 0..MaxDeletes

(* A text is in a row, in a row about to be written back, or among the     *)
(* erased ones only when its write has stored it.                          *)
TextsStored ==
    /\ \A m \in Writes : \A w \in text[m] : pc[w] \notin Unstored
    /\ \A c \in Writes : pc[c] = "append" => \A w \in copy[c].text : pc[w] \notin Unstored
    /\ \A w \in erased : pc[w] \notin Unstored

ErasedCarried ==
    /\ \A m \in Writes : text[m] \cap erased \subseteq carried
    /\ \A c \in Writes : pc[c] = "append" => copy[c].text \cap erased \subseteq carried

(* The vector of a row that is stored, or that a call will write back.     *)
VectorsKept ==
    /\ \A m \in Writes :
         Exists(m) \/ (\E c \in Writes : pc[c] = "append" /\ carrier[c] = m) =>
            /\ m[1] <= request
            /\ rowVector[m].text = Cardinality(Content(from[m[1]], m[2]))
    /\ Writing /\ pc[Write] \in {"fetch", "create"} /\ embedding = "ok" => HasVector(at)

RowsInv == RowsTyped /\ TextsStored /\ ErasedCarried /\ VectorsKept

BenchInv == TypeInv /\ BatchInv /\ HandlerInv /\ RowsInv

-----------------------------------------------------------------------------
(* The steps of a write in hand, by what they do to the rows.              *)

WriteSteps(s) ==
    /\ Writing /\ pc[Write] \notin Finished /\ s # "idle"
    /\ pc' = [pc EXCEPT ![Write] = s]
    /\ UNCHANGED <<handler, batchVars, erased, carried, deletes>>

GoesOn ==
    \E s : /\ WriteSteps(s) /\ s # "append"
           /\ s \in Unstored => /\ pc[Write] \in Unstored
                                /\ embedding = "ok" => HasVector(at)
           /\ UNCHANGED <<text, carrier, copy, rowVector>>

Reads ==
    \E m \in Writes :
        /\ WriteSteps("append") /\ pc[Write] \in Unstored /\ Exists(m)
        /\ carrier' = [carrier EXCEPT ![Write] = m]
        /\ copy' = [copy EXCEPT ![Write] = RowOf(m)]
        /\ UNCHANGED <<text, rowVector>>

Appends ==
    \E s : /\ WriteSteps(s) /\ s \notin Unstored /\ pc[Write] = "append"
           /\ text' = [text EXCEPT ![carrier[Write]] = copy[Write].text \cup {Write}]
           /\ UNCHANGED <<carrier, copy, rowVector>>

Creates ==
    \E s : /\ WriteSteps(s) /\ s \notin Unstored /\ pc[Write] = "create"
           /\ text' = [text EXCEPT ![Write] = {Write}]
           /\ carrier' = [carrier EXCEPT ![Write] = Write]
           /\ rowVector' = [rowVector EXCEPT ![Write] = VectorOf(at)]
           /\ UNCHANGED copy

WriteActions ==
    \/ WriteRefused \/ SearchFails \/ SearchSimilar \/ FetchSimilar \/ FetchGone
    \/ CreateRow \/ WriteOn

LEMMA WriteActionsAre ==
    ASSUME TypeInv, HandlerInv, VectorsKept, WriteActions
    PROVE  GoesOn \/ Reads \/ Appends \/ Creates
<1> USE DEF WriteSteps, Finished, Unstored
<1>1. Write \in Writes /\ Write \in Calls /\ Writing
  <2>1. Writing
    BY DEF WriteActions, WriteRefused, SearchFails, SearchSimilar, FetchSimilar, FetchGone,
           CreateRow, WriteOn
  <2> QED BY <2>1, WriteInHand DEF Calls
<1>2. CASE WriteRefused \/ SearchFails
  BY <1>1, <1>2 DEF GoesOn, WriteRefused, SearchFails, addVars, stored, locals
<1>3. CASE SearchSimilar
  <2>1. PICK results : SearchAmong(Write, results) /\ HasVector(at)
                       /\ UNCHANGED <<batchVars, addVars>>
    BY <1>3 DEF SearchSimilar
  <2>2. \E s \in {"fetch", "create"} : pc' = [pc EXCEPT ![Write] = s]
    BY <2>1 DEF SearchAmong
  <2>3. pc[Write] = "idle" /\ UNCHANGED <<text, carrier, copy>>
    BY <2>1 DEF SearchAmong, stored
  <2> QED BY <1>1, <2>1, <2>2, <2>3 DEF GoesOn, addVars
<1>4. CASE FetchSimilar
  <2>1. PICK m \in mergeable[Write] : /\ carrier' = [carrier EXCEPT ![Write] = m]
                                      /\ copy' = [copy EXCEPT ![Write] = RowOf(m)]
    BY <1>4 DEF FetchSimilar, Fetch
  <2>2. m \in Writes /\ carrier'[Write] = m
    BY <1>1, <2>1 DEF TypeInv, TypeOK
  <2>3. Exists(m)
    BY <1>4, <2>2 DEF FetchSimilar, Found
  <2>4. pc[Write] = "fetch" /\ pc' = [pc EXCEPT ![Write] = "append"]
        /\ UNCHANGED <<text, batchVars, addVars>>
    BY <1>4 DEF FetchSimilar, Fetch, stored
  <2> QED BY <1>1, <2>1, <2>2, <2>3, <2>4 DEF Reads, addVars
<1>5. CASE FetchGone \/ (FetchError(Write) /\ UNCHANGED <<batchVars, addVars>>)
  <2>1. pc[Write] = "fetch" /\ UNCHANGED <<text, carrier, copy, batchVars, addVars>>
    BY <1>5 DEF FetchGone, FetchError, stored
  <2>2. \E s \in {"fetch", "create"} : pc' = [pc EXCEPT ![Write] = s]
    BY <1>5 DEF FetchGone, FetchError
  <2>3. embedding = "ok" => HasVector(at)
    BY <1>1, <2>1 DEF VectorsKept
  <2> QED BY <1>1, <2>1, <2>2, <2>3 DEF GoesOn, addVars
<1>6. CASE CreateRow
  <2>1. /\ pc[Write] = "create"
        /\ \E s \in {"done", "retire"} : pc' = [pc EXCEPT ![Write] = s]
        /\ text' = [text EXCEPT ![Write] = {Write}]
        /\ carrier' = [carrier EXCEPT ![Write] = Write]
        /\ UNCHANGED copy
    BY <1>6 DEF CreateRow, Create, WriteEpisodic, NextAfterStore
  <2>2. /\ rowVector' = [rowVector EXCEPT ![Write] = VectorOf(at)]
        /\ UNCHANGED <<batchVars, handler, erased, carried, deletes>>
    BY <1>6 DEF CreateRow
  <2> QED BY <1>1, <2>1, <2>2 DEF Creates
<1>7. CASE Append(Write) /\ UNCHANGED <<batchVars, addVars>>
  <2>1. /\ pc[Write] = "append"
        /\ \E s \in {"done", "retire"} : pc' = [pc EXCEPT ![Write] = s]
        /\ text' = [text EXCEPT ![carrier[Write]] = copy[Write].text \cup {Write}]
        /\ UNCHANGED <<carrier, copy>>
    BY <1>7 DEF Append, WriteEpisodic, MergedRow, NextAfterStore, locals
  <2> QED BY <1>1, <1>7, <2>1 DEF Appends, addVars
<1>8. CASE (ApplyStep(Write) \/ Fail(Write)) /\ UNCHANGED <<batchVars, addVars>>
  <2>1. /\ pc[Write] \in InFlight
        /\ UNCHANGED <<text, carrier, copy>>
        /\ \E s \in {"retire", "edge", "boost", "done", "failed"} :
              pc' = [pc EXCEPT ![Write] = s]
    BY <1>8 DEF ApplyStep, MarkObsolete, CreateEdge, BoostCarrier, Fail, stored, locals,
                InFlight
  <2> QED BY <1>1, <1>8, <2>1 DEF GoesOn, addVars, InFlight
<1>9. CASE WriteOn
  BY <1>5, <1>7, <1>8, <1>9 DEF WriteOn
<1> QED BY <1>2, <1>3, <1>4, <1>5, <1>6, <1>9 DEF WriteActions

(* The rows and the calls stay well-formed.                                *)
LEMMA PipelineType ==
    ASSUME TypeInv, HandlerInv, [BenchNext]_benchVars
    PROVE  TypeInv'
<1> USE BenchAssumption
<1>1. CASE UNCHANGED vars
  BY <1>1, StutterType
<1>2. CASE DeleteUser
  <2>1. /\ UNCHANGED <<edges, event, pc, when, mergeable, covered, todo, current, carrier,
                       copy, clock, failures>>
        /\ text' = [m \in Writes |-> IF m \in Deleted THEN {} ELSE text[m]]
        /\ anchor' = [m \in Writes |-> IF m \in Deleted THEN 0 ELSE anchor[m]]
        /\ retired' = retired \ Deleted
    BY <1>2 DEF DeleteUser, locals
  <2>2. /\ text' \in [Writes -> SUBSET Writes] /\ anchor' \in [Writes -> Nat]
        /\ retired' \in SUBSET Writes
    BY <2>1 DEF TypeInv, TypeOK
  <2> QED BY <2>1, <2>2 DEF TypeInv, TypeOK, ChoicesMade
<1>3. CASE WriteActions
  <2>1. Write \in Writes /\ Write \in Calls
    <3>1. Writing
      BY <1>3 DEF WriteActions, WriteRefused, SearchFails, SearchSimilar, FetchSimilar,
                  FetchGone, CreateRow, WriteOn
    <3> QED BY <3>1, WriteInHand DEF Calls
  <2>2. CASE WriteRefused \/ SearchFails
    <3>1. /\ UNCHANGED <<stored, event, locals, clock>>
          /\ pc' = [pc EXCEPT ![Write] = "failed"]
          /\ failures' \in {failures, failures + 1}
      BY <2>2 DEF WriteRefused, SearchFails
    <3>2. TypeOK'
      BY <2>1, <3>1 DEF stored, locals, TypeInv, TypeOK, Finished
    <3>3. ChoicesMade'
      BY <2>1, <3>1 DEF locals, TypeInv, TypeOK, ChoicesMade
    <3> QED BY <3>2, <3>3 DEF TypeInv
  <2>3. CASE SearchSimilar
    <3>1. \A found \in {f \in SUBSET Comparable(at) :
             Cardinality(f) = Min({SearchLimit, Cardinality(Comparable(at))})} :
             found \subseteq Writes
      BY DEF Comparable, Active
    <3> QED BY <2>1, <2>3, <3>1, SearchType DEF SearchSimilar
  <2>4. CASE FetchSimilar \/ CreateRow \/ WriteOn
    BY <2>1, <2>4, WriteStepType, ApplyStepType DEF FetchSimilar, CreateRow, WriteOn, WriteStep
  <2>5. CASE FetchGone
    <3>1. PICK m \in mergeable[Write], s \in {"fetch", "create"} :
             /\ mergeable' = [mergeable EXCEPT ![Write] = @ \ {m}]
             /\ pc' = [pc EXCEPT ![Write] = s]
      BY <2>5 DEF FetchGone
    <3>2. UNCHANGED <<text, anchor, retired, edges, event, when, covered, todo, current,
                      carrier, copy, clock, failures>>
      BY <2>5 DEF FetchGone, stored
    <3>3. TypeOK'
      BY <2>1, <3>1, <3>2 DEF TypeInv, TypeOK, InFlight
    <3>4. ChoicesMade'
      BY <2>1, <3>1, <3>2 DEF TypeInv, TypeOK, ChoicesMade
    <3> QED BY <3>3, <3>4 DEF TypeInv
  <2> QED BY <1>3, <2>2, <2>3, <2>4, <2>5 DEF WriteActions
<1>4. SendAdd \/ GiveUp \/ Embedding \/ EmbeddingFailed \/ NextMessage \/ WriteFailed
      \/ Added \/ BatchRuns \/ Finishes \/ UNCHANGED benchVars => UNCHANGED vars
  BY DEF SendAdd, GiveUp, Embedding, EmbeddingFailed, NextMessage, WriteFailed, Added,
         BatchRuns, Finishes, benchVars
<1> QED BY <1>1, <1>2, <1>3, <1>4 DEF BenchNext, Handling, WriteActions

(* The position of a message of the request is one of the batch.           *)
LEMMA PositionInBatch ==
    ASSUME HandlerInv, Writing
    PROVE  Position(at) \in Nat /\ Position(at) \in 1..size
<1>1. /\ at \in Content(First, last) /\ First <= at /\ at <= last /\ at \in Nat
      /\ request > 0 /\ step # "idle"
  BY WriteInHand DEF Writing
<1>2. First \in Nat /\ last \in Nat
  <2>1. request \in 1..Requests
    BY WriteInHand
  <2> QED BY <2>1 DEF HandlerInv, HandlerTyped, First
<1>3. size = Cardinality(Content(First, last))
  BY <1>1 DEF HandlerInv, RequestShape
<1>4. IsFiniteSet(Content(First, last))
  <2>1. IsFiniteSet(First..last) /\ Content(First, last) \subseteq First..last
    BY <1>2, FS_Interval DEF Content
  <2> QED BY <2>1, FS_Subset
<1>5. Content(First, at) \subseteq Content(First, last) /\ at \in Content(First, at)
  BY <1>1, <1>2 DEF Content
<1>6. IsFiniteSet(Content(First, at))
      /\ Cardinality(Content(First, at)) <= Cardinality(Content(First, last))
  BY <1>4, <1>5, FS_Subset
<1>7. Cardinality(Content(First, at)) \in Nat /\ Cardinality(Content(First, last)) \in Nat
  BY <1>4, <1>6, FS_CardinalityType
<1>8. Cardinality(Content(First, at)) # 0
  BY <1>5, <1>6, FS_EmptySet
<1> QED BY <1>3, <1>6, <1>7, <1>8 DEF Position

(* The vector a row is created with is the one of its message.             *)
LEMMA VectorForItsText ==
    ASSUME BatchInv, HandlerInv, Writing, embedding = "ok" => HasVector(at)
    PROVE  VectorOf(at) \in Vector /\ VectorOf(at).text = Position(at)
<1>1. Position(at) \in Nat /\ Position(at) \in 1..size
  BY PositionInBatch
<1>2. embedding \in {"ok", "unsupported"}
  BY WriteInHand DEF HandlerInv, RequestShape
<1>3. CASE embedding = "unsupported"
  BY <1>1, <1>3 DEF VectorOf, Vector
<1>4. CASE embedding = "ok"
  <2>1. VectorOf(at) = vectors[Position(at)] /\ VectorOf(at) # NoVector
    BY <1>4 DEF VectorOf, HasVector
  <2>2. vectors[Position(at)] \in Vector
    BY <1>1 DEF BatchInv, BatchTyped
  <2> QED BY <1>1, <1>4, <2>1, <2>2 DEF BatchInv, VectorsInOrder
<1> QED BY <1>2, <1>3, <1>4

-----------------------------------------------------------------------------
(* The rows under the steps of a write.                                    *)

LEMMA GoesOnKeeps ==
    ASSUME TypeInv, HandlerInv, RowsInv, GoesOn
    PROVE  RowsInv'
<1>1. PICK s : /\ WriteSteps(s) /\ s # "append"
               /\ s \in Unstored => /\ pc[Write] \in Unstored
                                    /\ embedding = "ok" => HasVector(at)
               /\ UNCHANGED <<text, carrier, copy, rowVector>>
  BY DEF GoesOn
<1>2. Write \in Writes /\ Writing /\ pc' = [pc EXCEPT ![Write] = s]
  BY <1>1, WriteInHand DEF WriteSteps
<1>3. UNCHANGED <<request, step, from, last, at, embedding, vectors, left, erased, carried,
                  deletes>>
  BY <1>1 DEF WriteSteps, handler, batchVars
<1>4. \A w \in Writes : /\ pc[w] \notin Unstored => pc'[w] \notin Unstored
                        /\ pc'[w] = "append" => pc[w] = "append"
  BY <1>1, <1>2 DEF TypeInv, TypeOK, Calls
<1>5. \A m \in Writes : text[m] \subseteq Writes /\ copy[m].text \subseteq Writes
  BY DEF TypeInv, TypeOK, Calls, Row
<1>6. RowsTyped'
  BY <1>1, <1>3 DEF RowsInv, RowsTyped
<1>7. TextsStored'
  BY <1>1, <1>3, <1>4, <1>5 DEF RowsInv, RowsTyped, TextsStored
<1>8. ErasedCarried'
  BY <1>1, <1>3, <1>4 DEF RowsInv, ErasedCarried
<1>9. VectorsKept'
  <2>1. ASSUME NEW m \in Writes,
               Exists(m)' \/ (\E c \in Writes : pc'[c] = "append" /\ carrier'[c] = m)
        PROVE  /\ m[1] <= request' 
               /\ rowVector'[m].text = Cardinality(Content(from[m[1]], m[2])')
    <3>1. Exists(m) \/ (\E c \in Writes : pc[c] = "append" /\ carrier[c] = m)
      BY <1>1, <1>4, <2>1 DEF Exists
    <3> QED BY <1>1, <1>3, <3>1 DEF RowsInv, VectorsKept, Content
  <2>2. Writing' /\ pc'[Write'] \in {"fetch", "create"} /\ embedding' = "ok" => HasVector(at)'
    <3>1. Write' = Write /\ at' = at /\ HasVector(at)' = HasVector(at)
      BY <1>3 DEF Write, HasVector, VectorOf, Position, Content, First
    <3>2. pc'[Write] = s
      BY <1>2 DEF TypeInv, TypeOK, Calls
    <3> QED BY <1>1, <1>3, <3>1, <3>2 DEF Unstored
  <2> QED BY <2>1, <2>2 DEF VectorsKept
<1> QED BY <1>6, <1>7, <1>8, <1>9 DEF RowsInv

LEMMA ReadsKeeps ==
    ASSUME TypeInv, HandlerInv, RowsInv, Reads
    PROVE  RowsInv'
<1>1. PICK r \in Writes :
        /\ WriteSteps("append") /\ pc[Write] \in Unstored /\ Exists(r)
        /\ carrier' = [carrier EXCEPT ![Write] = r]
        /\ copy' = [copy EXCEPT ![Write] = RowOf(r)]
        /\ UNCHANGED <<text, rowVector>>
  BY DEF Reads
<1>2. Write \in Writes /\ Writing /\ pc' = [pc EXCEPT ![Write] = "append"]
  BY <1>1, WriteInHand DEF WriteSteps
<1>3. UNCHANGED <<request, step, from, last, at, embedding, erased, carried, deletes>>
  BY <1>1 DEF WriteSteps, handler, batchVars
<1>4. /\ pc'[Write] = "append" /\ carrier'[Write] = r /\ copy'[Write].text = text[r]
      /\ \A w \in Writes : w # Write =>
            pc'[w] = pc[w] /\ carrier'[w] = carrier[w] /\ copy'[w] = copy[w]
  BY <1>1, <1>2 DEF TypeInv, TypeOK, Calls, RowOf
<1>5. \A w \in Writes : pc[w] \notin Unstored => pc'[w] \notin Unstored
  BY <1>1, <1>4
<1>6. \A m \in Writes : text[m] \subseteq Writes /\ copy[m].text \subseteq Writes
  BY DEF TypeInv, TypeOK, Calls, Row
<1>7. RowsTyped'
  BY <1>1, <1>3 DEF RowsInv, RowsTyped
<1>8. TextsStored'
  <2>1. \A w \in erased : w \in Writes
    BY DEF RowsInv, RowsTyped
  <2>2. ASSUME NEW c \in Writes, pc'[c] = "append", NEW w \in copy'[c].text
        PROVE  pc'[w] \notin Unstored
    <3>1. CASE c = Write
      BY <1>1, <1>4, <1>5, <1>6, <2>2, <3>1 DEF RowsInv, TextsStored
    <3>2. CASE c # Write
      BY <1>4, <1>5, <1>6, <2>2, <3>2 DEF RowsInv, TextsStored
    <3> QED BY <3>1, <3>2
  <2> QED BY <1>1, <1>3, <1>5, <1>6, <2>1, <2>2 DEF RowsInv, TextsStored
<1>9. ErasedCarried'
  <2>1. ASSUME NEW c \in Writes, pc'[c] = "append"
        PROVE  copy'[c].text \cap erased \subseteq carried
    BY <1>4, <2>1 DEF RowsInv, ErasedCarried
  <2> QED BY <1>1, <1>3, <2>1 DEF RowsInv, ErasedCarried
<1>10. VectorsKept'
  <2>1. ASSUME NEW m \in Writes,
               Exists(m)' \/ (\E c \in Writes : pc'[c] = "append" /\ carrier'[c] = m)
        PROVE  /\ m[1] <= request'
               /\ rowVector'[m].text = Cardinality(Content(from[m[1]], m[2])')
    <3>1. Exists(m) \/ (\E c \in Writes : pc[c] = "append" /\ carrier[c] = m)
      BY <1>1, <1>4, <2>1 DEF Exists
    <3> QED BY <1>1, <1>3, <3>1 DEF RowsInv, VectorsKept, Content
  <2>2. pc'[Write'] \notin {"fetch", "create"}
    BY <1>3, <1>4 DEF Write
  <2> QED BY <2>1, <2>2 DEF VectorsKept
<1> QED BY <1>7, <1>8, <1>9, <1>10 DEF RowsInv

LEMMA AppendsKeeps ==
    ASSUME TypeInv, HandlerInv, RowsInv, Appends
    PROVE  RowsInv'
<1>1. PICK s : /\ WriteSteps(s) /\ s \notin Unstored /\ pc[Write] = "append"
               /\ text' = [text EXCEPT ![carrier[Write]] = copy[Write].text \cup {Write}]
               /\ UNCHANGED <<carrier, copy, rowVector>>
  BY DEF Appends
<1>2. Write \in Writes /\ Writing /\ pc' = [pc EXCEPT ![Write] = s]
  BY <1>1, WriteInHand DEF WriteSteps
<1>3. UNCHANGED <<request, step, from, last, at, embedding, erased, carried, deletes>>
  BY <1>1 DEF WriteSteps, handler, batchVars
<1>4. /\ pc'[Write] = s
      /\ \A w \in Writes : w # Write => pc'[w] = pc[w]
  BY <1>2 DEF TypeInv, TypeOK, Calls
<1>5. /\ \A w \in Writes : pc[w] \notin Unstored => pc'[w] \notin Unstored
      /\ \A w \in Writes : pc'[w] = "append" => pc[w] = "append"
      /\ pc'[Write] \notin Unstored
  BY <1>1, <1>4 DEF Unstored
<1>6. \A m \in Writes : text[m] \subseteq Writes /\ copy[m].text \subseteq Writes
  BY DEF TypeInv, TypeOK, Calls, Row
<1>7. carrier[Write] \in Writes
  BY <1>1, <1>2 DEF TypeInv, ChoicesMade, Calls
<1>8. /\ text'[carrier[Write]] = copy[Write].text \cup {Write}
      /\ \A m \in Writes : m # carrier[Write] => text'[m] = text[m]
  BY <1>1, <1>7 DEF TypeInv, TypeOK
<1>9. RowsTyped'
  BY <1>1, <1>3 DEF RowsInv, RowsTyped
<1>10. TextsStored'
  <2>1. \A w \in erased : w \in Writes
    BY DEF RowsInv, RowsTyped
  <2>2. ASSUME NEW m \in Writes, NEW w \in text'[m]
        PROVE  pc'[w] \notin Unstored
    <3>1. CASE w = Write
      BY <1>5, <3>1
    <3>2. CASE w # Write
      <4>1. w \in text[m] \/ w \in copy[Write].text
        BY <1>8, <2>2, <3>2
      <4> QED BY <1>1, <1>2, <1>5, <1>6, <4>1 DEF RowsInv, TextsStored
    <3> QED BY <3>1, <3>2
  <2>3. ASSUME NEW c \in Writes, pc'[c] = "append", NEW w \in copy'[c].text
        PROVE  pc'[w] \notin Unstored
    BY <1>1, <1>5, <1>6, <2>3 DEF RowsInv, TextsStored
  <2> QED BY <1>3, <1>5, <2>1, <2>2, <2>3 DEF RowsInv, TextsStored
<1>11. ErasedCarried'
  <2>1. Write \notin erased
    BY <1>1 DEF RowsInv, TextsStored, Unstored
  <2>2. copy[Write].text \cap erased \subseteq carried
    BY <1>1, <1>2 DEF RowsInv, ErasedCarried
  <2>3. \A m \in Writes : text'[m] \cap erased \subseteq carried
    BY <1>8, <2>1, <2>2 DEF RowsInv, ErasedCarried
  <2> QED BY <1>1, <1>3, <1>5, <2>3 DEF RowsInv, ErasedCarried
<1>12. VectorsKept'
  <2>1. ASSUME NEW m \in Writes,
               Exists(m)' \/ (\E c \in Writes : pc'[c] = "append" /\ carrier'[c] = m)
        PROVE  /\ m[1] <= request'
               /\ rowVector'[m].text = Cardinality(Content(from[m[1]], m[2])')
    <3>1. Exists(m) \/ (\E c \in Writes : pc[c] = "append" /\ carrier[c] = m)
      BY <1>1, <1>2, <1>5, <1>8, <2>1 DEF Exists
    <3> QED BY <1>1, <1>3, <3>1 DEF RowsInv, VectorsKept, Content
  <2>2. pc'[Write'] \notin {"fetch", "create"}
    BY <1>3, <1>5 DEF Write, Unstored
  <2> QED BY <2>1, <2>2 DEF VectorsKept
<1> QED BY <1>9, <1>10, <1>11, <1>12 DEF RowsInv

LEMMA CreatesKeeps ==
    ASSUME TypeInv, BatchInv, HandlerInv, RowsInv, Creates
    PROVE  RowsInv'
<1>1. PICK s : /\ WriteSteps(s) /\ s \notin Unstored /\ pc[Write] = "create"
               /\ text' = [text EXCEPT ![Write] = {Write}]
               /\ carrier' = [carrier EXCEPT ![Write] = Write]
               /\ rowVector' = [rowVector EXCEPT ![Write] = VectorOf(at)]
               /\ UNCHANGED copy
  BY DEF Creates
<1>2. Write \in Writes /\ Writing /\ pc' = [pc EXCEPT ![Write] = s]
  BY <1>1, WriteInHand DEF WriteSteps
<1>3. UNCHANGED <<request, step, from, last, at, embedding, erased, carried, deletes>>
  BY <1>1 DEF WriteSteps, handler, batchVars
<1>4. \A w \in Writes : w # Write => pc'[w] = pc[w] /\ carrier'[w] = carrier[w]
  BY <1>1, <1>2 DEF TypeInv, TypeOK, Calls
<1>5. /\ \A w \in Writes : pc[w] \notin Unstored => pc'[w] \notin Unstored
      /\ \A w \in Writes : pc'[w] = "append" => pc[w] = "append" /\ w # Write
      /\ pc'[Write] \notin Unstored
  <2>1. pc'[Write] = s
    BY <1>2 DEF TypeInv, TypeOK, Calls
  <2> QED BY <1>1, <1>4, <2>1 DEF Unstored
<1>6. \A m \in Writes : text[m] \subseteq Writes /\ copy[m].text \subseteq Writes
  BY DEF TypeInv, TypeOK, Calls, Row
<1>7. /\ text'[Write] = {Write}
      /\ \A m \in Writes : m # Write => text'[m] = text[m]
  BY <1>1, <1>2 DEF TypeInv, TypeOK
<1>8. VectorOf(at) \in Vector /\ VectorOf(at).text = Position(at)
  <2>1. embedding = "ok" => HasVector(at)
    BY <1>1, <1>2 DEF RowsInv, VectorsKept
  <2> QED BY <1>2, <2>1, VectorForItsText
<1>9. RowsTyped'
  BY <1>1, <1>2, <1>3, <1>8 DEF RowsInv, RowsTyped
<1>10. TextsStored'
  <2>1. \A w \in erased : w \in Writes
    BY DEF RowsInv, RowsTyped
  <2>2. ASSUME NEW m \in Writes, NEW w \in text'[m]
        PROVE  pc'[w] \notin Unstored
    BY <1>2, <1>5, <1>6, <1>7, <2>2 DEF RowsInv, TextsStored
  <2>3. ASSUME NEW c \in Writes, pc'[c] = "append", NEW w \in copy'[c].text
        PROVE  pc'[w] \notin Unstored
    BY <1>1, <1>5, <1>6, <2>3 DEF RowsInv, TextsStored
  <2> QED BY <1>3, <1>5, <2>1, <2>2, <2>3 DEF RowsInv, TextsStored
<1>11. ErasedCarried'
  <2>1. Write \notin erased
    BY <1>1 DEF RowsInv, TextsStored, Unstored
  <2>2. \A m \in Writes : text'[m] \cap erased \subseteq carried
    BY <1>7, <2>1 DEF RowsInv, ErasedCarried
  <2> QED BY <1>1, <1>3, <1>5, <2>2 DEF RowsInv, ErasedCarried
<1>12. VectorsKept'
  <2>1. ASSUME NEW m \in Writes,
               Exists(m)' \/ (\E c \in Writes : pc'[c] = "append" /\ carrier'[c] = m)
        PROVE  /\ m[1] <= request'
               /\ rowVector'[m].text = Cardinality(Content(from[m[1]], m[2])')
    <3>1. CASE m = Write
      <4>1. m[1] = request /\ m[2] = at /\ request \in Nat
        BY <1>2, <3>1, WriteInHand DEF Write
      <4>2. rowVector'[m] = VectorOf(at)
        BY <1>1, <1>2, <3>1 DEF RowsInv, RowsTyped
      <4> QED BY <1>3, <1>8, <4>1, <4>2 DEF Position, First, Content
    <3>2. CASE m # Write
      <4>1. Exists(m) \/ (\E c \in Writes : pc[c] = "append" /\ carrier[c] = m)
        BY <1>4, <1>5, <1>7, <2>1, <3>2 DEF Exists
      <4>2. rowVector'[m] = rowVector[m]
        BY <1>1, <3>2 DEF RowsInv, RowsTyped
      <4> QED BY <1>3, <4>1, <4>2 DEF RowsInv, VectorsKept, Content
    <3> QED BY <3>1, <3>2
  <2>2. pc'[Write'] \notin {"fetch", "create"}
    BY <1>3, <1>5 DEF Write, Unstored
  <2> QED BY <2>1, <2>2 DEF VectorsKept
<1> QED BY <1>9, <1>10, <1>11, <1>12 DEF RowsInv

-----------------------------------------------------------------------------
(* The rows under the other steps.                                         *)

LEMMA DeleteKeeps ==
    ASSUME TypeInv, RowsInv, DeleteUser
    PROVE  RowsInv'
<1>1. UNCHANGED <<pc, carrier, copy, request, step, from, last, at, batchVars, rowVector>>
  BY DEF DeleteUser, locals, handler
<1>2. /\ deletes < MaxDeletes /\ deletes' = deletes + 1
      /\ erased' = UNION {text[m] : m \in Writes}
      /\ carried' = {w \in erased' : \E c \in Writes : pc[c] = "append" /\ w \in copy[c].text}
  BY DEF DeleteUser
<1>3. \A m \in Writes : text'[m] = {}
  BY DEF DeleteUser, Deleted, Exists
<1>4. RowsTyped'
  <2>1. erased' \subseteq Writes /\ carried' \subseteq erased'
    <3>1. ASSUME NEW w \in erased'
          PROVE  w \in Writes
      <4>1. PICK m \in Writes : w \in text[m]
        BY <1>2, <3>1
      <4> QED BY <4>1 DEF TypeInv, TypeOK
    <3>2. carried' \subseteq erased'
      BY <1>2
    <3> QED BY <3>1, <3>2
  <2>2. deletes' \in 0..MaxDeletes
    BY <1>2, BenchAssumption DEF RowsInv, RowsTyped
  <2> QED BY <1>1, <2>1, <2>2 DEF RowsInv, RowsTyped
<1>5. TextsStored'
  BY <1>1, <1>2, <1>3 DEF RowsInv, TextsStored
<1>6. ErasedCarried'
  <2>1. ASSUME NEW c \in Writes, pc'[c] = "append", NEW w \in copy'[c].text, w \in erased'
        PROVE  w \in carried'
    BY <1>1, <1>2, <2>1
  <2> QED BY <1>3, <2>1 DEF ErasedCarried
<1>7. VectorsKept'
  <2>1. ASSUME NEW m \in Writes,
               Exists(m)' \/ (\E c \in Writes : pc'[c] = "append" /\ carrier'[c] = m)
        PROVE  /\ m[1] <= request'
               /\ rowVector'[m].text = Cardinality(Content(from[m[1]], m[2])')
    <3>1. \E c \in Writes : pc[c] = "append" /\ carrier[c] = m
      BY <1>1, <1>3, <2>1 DEF Exists
    <3> QED BY <1>1, <3>1 DEF RowsInv, VectorsKept, Content
  <2>2. Writing' = Writing /\ Write' = Write /\ HasVector(at)' = HasVector(at)
        /\ pc' = pc /\ embedding' = embedding
    BY <1>1 DEF Writing, Write, HasVector, VectorOf, Position, Content, First, batchVars
  <2>3. pc'[Write'] = pc[Write]
    BY <2>2
  <2>4. Writing' /\ pc'[Write'] \in {"fetch", "create"} /\ embedding' = "ok" => HasVector(at)'
    BY <2>2, <2>3 DEF RowsInv, VectorsKept
  <2> QED BY <2>1, <2>4 DEF VectorsKept
<1> QED BY <1>4, <1>5, <1>6, <1>7 DEF RowsInv

(* A step that leaves the rows alone, and begins no write.                 *)
LEMMA AsideRows ==
    ASSUME TypeInv, HandlerInv, RowsInv,
           UNCHANGED <<vars, rowVector, erased, carried, deletes>>,
           request \in Nat, request' \in Nat, request <= request',
           \A r \in 1..request : from'[r] = from[r],
           Writing' /\ pc[Write'] \in {"fetch", "create"} /\ embedding' = "ok" => HasVector(at)'
    PROVE  RowsInv'
<1> USE BenchAssumption
<1>1. UNCHANGED <<text, pc, carrier, copy>>
  BY DEF vars, stored, locals
<1>2. RowsTyped' /\ TextsStored' /\ ErasedCarried'
  BY <1>1 DEF RowsInv, RowsTyped, TextsStored, ErasedCarried
<1>3. ASSUME NEW m \in Writes,
             Exists(m)' \/ (\E c \in Writes : pc'[c] = "append" /\ carrier'[c] = m)
      PROVE  /\ m[1] <= request'
             /\ rowVector'[m].text = Cardinality(Content(from[m[1]], m[2])')
  <2>1. Exists(m) \/ (\E c \in Writes : pc[c] = "append" /\ carrier[c] = m)
    BY <1>1, <1>3 DEF Exists
  <2>2. m[1] <= request /\ m[1] \in Nat /\ 1 <= m[1] /\ m[1] \in 1..request
    BY <2>1 DEF RowsInv, VectorsKept
  <2> QED BY <2>1, <2>2 DEF RowsInv, VectorsKept, Content
<1>4. VectorsKept'
  BY <1>1, <1>3 DEF VectorsKept
<1> QED BY <1>2, <1>4 DEF RowsInv

-----------------------------------------------------------------------------
(* Every step keeps every part of the invariant.                           *)

HandlerSteps == Embedding \/ EmbeddingFailed \/ NextMessage \/ WriteFailed \/ Added

LEMMA NextIs ==
    ASSUME [BenchNext]_benchVars
    PROVE  \/ SendAdd \/ HandlerSteps \/ WriteActions \/ DeleteUser
           \/ GiveUp \/ BatchRuns \/ UNCHANGED benchVars
BY DEF BenchNext, Handling, HandlerSteps, WriteActions, Finishes

LEMMA AsideIs ==
    ASSUME GiveUp \/ BatchRuns \/ UNCHANGED benchVars
    PROVE  UNCHANGED <<vars, addVars, size>>
<1>1. CASE GiveUp
  BY <1>1 DEF GiveUp, ClientLeaves
<1>2. CASE BatchRuns
  <2>1. CASE FeederStep
    BY <1>2, <2>1 DEF BatchRuns, FeederStep, Feed, FeedEnds
  <2>2. CASE EndBatch
    BY <1>2, <2>2 DEF BatchRuns, EndBatch
  <2>3. ASSUME NEW w \in Pool, WorkerStep(w)
        PROVE  UNCHANGED size
    BY <2>3 DEF WorkerStep, Take, WorkerEnds, CallSucceeds, CallRateLimited, CallFails,
                Backoff, Copy
  <2> QED BY <1>2, <2>1, <2>2, <2>3 DEF BatchRuns
<1>3. CASE UNCHANGED benchVars
  BY <1>3 DEF benchVars, batchVars
<1> QED BY <1>1, <1>2, <1>3

(* A call that has returned is not running again, and changes no vector.   *)
LEMMA BatchAtRest ==
    ASSUME BatchInv, GiveUp \/ BatchRuns \/ UNCHANGED benchVars
    PROVE  embedding # "running" => UNCHANGED <<embedding, vectors>>
<1> SUFFICES ASSUME embedding # "running" PROVE UNCHANGED <<embedding, vectors>>
  OBVIOUS
<1>1. CASE GiveUp
  BY <1>1 DEF GiveUp, ClientLeaves
<1>2. CASE BatchRuns
  <2>1. \A w \in Pool : worker[w].at = "gone"
    BY DEF BatchInv, PoolIdle
  <2>2. ~EndBatch
    BY DEF EndBatch
  <2>3. \A w \in Pool : ~WorkerStep(w)
    BY <2>1 DEF WorkerStep, Take, WorkerEnds, CallSucceeds, CallRateLimited, CallFails,
                Backoff, Copy
  <2>4. FeederStep
    BY <1>2, <2>2, <2>3 DEF BatchRuns
  <2> QED BY <2>4 DEF FeederStep, Feed, FeedEnds
<1>3. CASE UNCHANGED benchVars
  BY <1>3 DEF benchVars, batchVars
<1> QED BY <1>1, <1>2, <1>3

LEMMA WriteActionsMove ==
    ASSUME GoesOn \/ Reads \/ Appends \/ Creates
    PROVE  WriteMoves /\ UNCHANGED batchVars
<1>1. PICK s : WriteSteps(s)
  BY DEF GoesOn, Reads, Appends, Creates
<1> QED BY <1>1 DEF WriteSteps, WriteMoves, batchVars

LEMMA BenchBatchKept ==
    ASSUME TypeInv, BatchInv, HandlerInv, RowsInv, [BenchNext]_benchVars
    PROVE  BatchInv'
<1> USE BenchAssumption
<1>1. CASE SendAdd
  <2>1. ResumeAt \in Nat
    <3>1. request \in Nat /\ step = "idle"
      BY <1>1 DEF SendAdd, HandlerInv, HandlerTyped
    <3> QED BY <3>1, ResumeGoesOn
  <2>2. \A to \in ResumeAt..Messages : Cardinality(Content(ResumeAt, to)) \in Nat
    <3> SUFFICES ASSUME NEW to \in ResumeAt..Messages
                 PROVE  Cardinality(Content(ResumeAt, to)) \in Nat
      OBVIOUS
    <3>1. IsFiniteSet(ResumeAt..to) /\ Content(ResumeAt, to) \subseteq ResumeAt..to
      BY <2>1, FS_Interval DEF Content
    <3> QED BY <3>1, FS_Subset, FS_CardinalityType
  <2>3. UNCHANGED batchVars
        \/ \E to \in ResumeAt..Messages : BeginBatch(Cardinality(Content(ResumeAt, to)))
    BY <1>1 DEF SendAdd
  <2> QED BY <2>2, <2>3, BatchKept DEF BatchMoves
<1>2. CASE WriteActions
  BY <1>2, WriteActionsAre, WriteActionsMove, BatchKept DEF RowsInv, BatchMoves
<1>3. CASE HandlerSteps \/ DeleteUser
  <2>1. UNCHANGED batchVars
    BY <1>3 DEF HandlerSteps, Embedding, EmbeddingFailed, NextMessage, WriteFailed, Added,
                DeleteUser
  <2> QED BY <2>1, BatchKept DEF BatchMoves
<1>4. CASE GiveUp \/ BatchRuns \/ UNCHANGED benchVars
  BY <1>4, BatchKept DEF BatchMoves, GiveUp, BatchRuns, benchVars
<1> QED BY <1>1, <1>2, <1>3, <1>4, NextIs

LEMMA BenchHandlerKept ==
    ASSUME TypeInv, BatchInv, HandlerInv, RowsInv, [BenchNext]_benchVars
    PROVE  HandlerInv'
<1>1. CASE WriteActions
  BY <1>1, WriteActionsAre, WriteActionsMove, WriteMoveKeeps DEF RowsInv
<1>2. CASE DeleteUser
  <2>1. UNCHANGED <<handler, pc, size, embedding>>
    BY <1>2 DEF DeleteUser, batchVars
  <2> QED BY <2>1, AsideKeeps
<1>3. CASE GiveUp \/ BatchRuns \/ UNCHANGED benchVars
  <2>1. UNCHANGED <<handler, pc, size>>
    BY <1>3, AsideIs DEF vars, addVars
  <2>2. embedding' # embedding => embedding = "running"
    BY <1>3, BatchAtRest
  <2> QED BY <2>1, <2>2, AsideKeeps
<1> QED BY <1>1, <1>2, <1>3, NextIs, SendKeeps, HandlerMoves DEF HandlerSteps

(* The message a handler turns to has not been begun.                      *)
LEMMA NoneBegun ==
    ASSUME HandlerInv, HandlerSteps, Writing'
    PROVE  pc[Write'] \notin {"fetch", "create"}
<1> USE BenchAssumption
<1>1. Embedding \/ NextMessage
  BY DEF HandlerSteps, EmbeddingFailed, WriteFailed, Added, Writing
<1>2. step # "idle" /\ UNCHANGED <<request, last>> /\ at' <= last
  BY <1>1 DEF Embedding, NextMessage, Writing
<1>3. /\ request \in 1..Requests /\ request > 0 /\ request \in 1..request
      /\ First \in Nat /\ 1 <= First /\ First <= last /\ last \in Nat /\ last <= Messages
  BY <1>2 DEF HandlerInv, HandlerTyped, RequestShape, First
<1>4. CASE Embedding
  <2>1. step = "embed" /\ at' = After(First - 1)
    BY <1>4 DEF Embedding
  <2>2. First - 1 \in Nat /\ First - 1 <= last
    BY <1>3
  <2>3. at' \in Nat /\ at' >= (First - 1) + 1
    BY <1>3, <2>1, <2>2, AfterIs
  <2>4. at' \in 1..Messages
    BY <1>2, <1>3, <2>3
  <2>5. pc[<<request, at'>>] = "idle"
    BY <1>3, <2>1, <2>4 DEF HandlerInv, WritesInTurn
  <2> QED BY <1>2, <2>5 DEF Write
<1>5. CASE NextMessage
  <2>1. step = "write" /\ at' = After(at) /\ Writing
    BY <1>5 DEF NextMessage, Writing
  <2>2. at \in 1..Messages /\ at <= last
    BY <2>1, WriteInHand
  <2>3. at' \in Nat /\ at' >= at + 1
    BY <1>3, <2>1, <2>2, AfterIs
  <2>4. at' \in 1..Messages /\ at' > at
    BY <1>2, <1>3, <2>2, <2>3
  <2>5. pc[<<request, at'>>] = "idle"
    BY <1>3, <2>1, <2>4 DEF HandlerInv, WritesInTurn
  <2> QED BY <1>2, <2>5 DEF Write
<1> QED BY <1>1, <1>4, <1>5

LEMMA BenchRowsKept ==
    ASSUME TypeInv, BatchInv, HandlerInv, RowsInv, [BenchNext]_benchVars
    PROVE  RowsInv'
<1> USE BenchAssumption
<1>1. request \in Nat /\ from \in [1..Requests -> 0..Messages] /\ request <= Requests
  BY DEF HandlerInv, HandlerTyped
<1>2. CASE WriteActions
  BY <1>2, WriteActionsAre, GoesOnKeeps, ReadsKeeps, AppendsKeeps, CreatesKeeps DEF RowsInv
<1>3. CASE SendAdd
  <2>1. /\ request' = request + 1
        /\ \E a : from' = [from EXCEPT ![request + 1] = a]
        /\ step' # "write"
        /\ UNCHANGED <<vars, rowVector, erased, carried, deletes>>
    BY <1>3 DEF SendAdd
  <2>2. \A r \in 1..request : from'[r] = from[r]
    BY <1>1, <2>1
  <2>3. ~Writing'
    BY <2>1 DEF Writing
  <2> QED BY <1>1, <2>1, <2>2, <2>3, AsideRows
<1>4. CASE HandlerSteps
  <2>1. UNCHANGED <<vars, rowVector, erased, carried, deletes, request, from, last>>
    BY <1>4 DEF HandlerSteps, Embedding, EmbeddingFailed, NextMessage, WriteFailed, Added
  <2>2. Writing' => pc[Write'] \notin {"fetch", "create"}
    BY <1>4, NoneBegun
  <2> QED BY <1>1, <2>1, <2>2, AsideRows
<1>5. CASE DeleteUser
  BY <1>5, DeleteKeeps
<1>6. CASE GiveUp \/ BatchRuns \/ UNCHANGED benchVars
  <2>1. UNCHANGED <<vars, addVars, size>>
    BY <1>6, AsideIs
  <2>2. ASSUME Writing', pc[Write'] \in {"fetch", "create"}, embedding' = "ok"
        PROVE  HasVector(at)'
    <3>1. Writing /\ Write' = Write
      BY <2>1, <2>2 DEF addVars, handler, Writing, Write
    <3>2. embedding \in {"ok", "unsupported"}
      BY <3>1, WriteInHand DEF HandlerInv, RequestShape
    <3>3. UNCHANGED <<embedding, vectors>>
      BY <1>6, <3>2, BatchAtRest
    <3>4. HasVector(at)
      BY <2>2, <3>1, <3>3 DEF RowsInv, VectorsKept
    <3> QED BY <2>1, <2>2, <3>3, <3>4
            DEF HasVector, VectorOf, Position, Content, First, addVars, handler
  <2> QED BY <1>1, <2>1, <2>2, AsideRows DEF addVars, handler
<1> QED BY <1>2, <1>3, <1>4, <1>5, <1>6, NextIs

LEMMA InvStarts == BenchInit => BenchInv
<1> SUFFICES ASSUME BenchInit PROVE BenchInv
  OBVIOUS
<1> USE BenchAssumption
<1>1. TypeInv /\ BatchInv
  BY InitType, BatchStarts DEF BenchInit
<1>2. /\ request = 0 /\ step = "idle" /\ last = 0 /\ at = 0
      /\ from = [r \in 1..Requests |-> 0]
      /\ answer = [r \in 1..Requests |-> "none"]
      /\ rowVector = [w \in Writes |-> NoVector]
      /\ erased = {} /\ carried = {} /\ deletes = 0
      /\ \A w \in Writes : text[w] = {} /\ pc[w] = "idle"
  BY DEF BenchInit, Init, Calls
<1>3. HandlerInv
  BY <1>2 DEF HandlerInv, HandlerTyped, RequestShape, WritesInTurn, ResumedAfter,
              PassedBefore, Answers
<1>4. RowsInv
  <2>1. NoVector \in Vector
    BY DEF NoVector, Vector
  <2> QED BY <1>2, <2>1 DEF RowsInv, RowsTyped, TextsStored, ErasedCarried, VectorsKept,
                            Exists, Writing
<1> QED BY <1>1, <1>3, <1>4 DEF BenchInv

LEMMA InvKept == BenchInv /\ [BenchNext]_benchVars => BenchInv'
BY PipelineType, BenchBatchKept, BenchHandlerKept, BenchRowsKept DEF BenchInv

(* The inductive invariant of the server.                                  *)
THEOREM BenchInvariant == BenchSpec => []BenchInv
BY InvStarts, InvKept, PTL DEF BenchSpec

(* The pool, the handler, the harness and the rows are well-formed in      *)
(* every reachable state.                                                  *)
THEOREM BenchTypeCorrect == BenchSpec => []BenchTypeOK
<1>1. BenchInv => EmbedTypeOK
  <2> SUFFICES ASSUME BenchInv PROVE EmbedTypeOK
    OBVIOUS
  <2> USE DEF BenchInv, BatchInv, BatchTyped
  <2>1. ASSUME NEW w \in Pool
        PROVE  /\ worker[w].at \in {"take", "call", "wait", "copy", "gone"}
               /\ worker[w].start \in 0..size
               /\ worker[w].attempt \in 0..MaxRetries
               /\ \A t \in DOMAIN worker[w].got : worker[w].got[t] \in Vector
    <3>1. worker[w] \in WorkerState
      OBVIOUS
    <3>2. PICK n \in Nat : worker[w].got \in [1..n -> Vector]
      BY <3>1 DEF WorkerState, Gots
    <3> QED BY <3>1, <3>2 DEF WorkerState
  <2>2. DOMAIN vectors = 1..size /\ \A t \in 1..size : vectors[t] \in Vector
    OBVIOUS
  <2>3. batchFailed \in BOOLEAN /\ cancelled \in BOOLEAN /\ left \in BOOLEAN
    OBVIOUS
  <2>4. /\ inner \in Inners
        /\ embedding \in {"none", "running", "ok", "failed", "unsupported"}
        /\ size \in Nat /\ fed \in 0..size /\ feeder \in {"open", "closed"} /\ taken \in 0..fed
    OBVIOUS
  <2> HIDE DEF BenchInv, BatchInv, BatchTyped
  <2> QED BY <2>1, <2>2, <2>3, <2>4, Zenon DEF EmbedTypeOK
<1>2. BenchInv => BenchTypeOK
  BY <1>1 DEF BenchInv, TypeInv, HandlerInv, HandlerTyped, RowsInv, RowsTyped, BenchTypeOK
<1> QED BY <1>2, BenchInvariant, PTL

(* The order of the batch survives any schedule of the pool, any order of  *)
(* a response and any retry; only a client that left can leave a gap (the  *)
(* result slices of EmbedBatch).                                           *)
THEOREM BatchKeepsOrder == BenchSpec => []VectorsInOrder
<1>1. BenchInv => VectorsInOrder
  BY DEF BenchInv, BatchInv
<1> QED BY <1>1, BenchInvariant, PTL

(* Every row carries the vector of the message it was created for, and     *)
(* none is created without one (the precomputed vectors of handleAdd and   *)
(* the check of WriteMemoryWithEmbedding).                                 *)
THEOREM RowsKeepTheirVector == BenchSpec => []RowsHaveTheirVector
<1>1. BenchInv => RowsHaveTheirVector
  BY DEF BenchInv, RowsInv, VectorsKept, RowsHaveTheirVector
<1> QED BY <1>1, BenchInvariant, PTL

(* Resuming at the message an answer named stores no message a second time *)
(* (the failed_index of handleAdd).                                        *)
THEOREM NoMessageTwice == BenchSpec => []StoredTwiceOnlyAfterBreak
<1>1. BenchInv => StoredTwiceOnlyAfterBreak
  <2> SUFFICES ASSUME BenchInv, NEW w \in Writes, NEW v \in Writes,
                      w[2] = v[2], w[1] < v[1], Stored(w), Stored(v),
                      pc[w] # "failed", answer[w[1]] # "unheard"
               PROVE  FALSE
    BY DEF StoredTwiceOnlyAfterBreak
  <2> USE BenchAssumption
  <2> DEFINE r == w[1]  s == v[1]  m == w[2]
  <2>1. /\ r \in 1..Requests /\ s \in 1..Requests /\ m \in 1..Messages
        /\ w = <<r, m>> /\ v = <<s, m>>
    OBVIOUS
  <2>2. pc[w] \notin Unstored /\ pc[v] \notin Unstored
    BY DEF Stored, BenchInv, RowsInv, TextsStored
  <2> HIDE DEF r, s, m
  <2>3. pc[<<s, m>>] # "idle" /\ r < s
    BY <2>1, <2>2 DEF Unstored, r, s
  <2>4. s <= request /\ from[s] <= m /\ request \in Nat
    BY <2>1, <2>3 DEF BenchInv, HandlerInv, HandlerTyped, WritesInTurn
  <2>5. pc[<<r, m>>] \in {"idle"} \cup Finished
    BY <2>1, <2>3, <2>4 DEF BenchInv, HandlerInv, WritesInTurn
  <2>6. pc[<<r, m>>] = "done" /\ answer[r] # "unheard"
    BY <2>1, <2>2, <2>5 DEF Unstored, Finished, r
  <2>7. r \in 1..request /\ s \in (r + 1)..request
    BY <2>1, <2>3, <2>4
  <2>8. m < from[s]
    BY <2>1, <2>6, <2>7 DEF BenchInv, HandlerInv, ResumedAfter
  <2>9. from[s] \in Nat
    BY <2>1 DEF BenchInv, HandlerInv, HandlerTyped
  <2> QED BY <2>1, <2>4, <2>8, <2>9
<1> QED BY <1>1, BenchInvariant, PTL

(* And passes over none: what the harness has gone past was written to the *)
(* end.                                                                    *)
THEOREM NoMessageLost == BenchSpec => []PassedIsWritten
<1>1. BenchInv => PassedIsWritten
  <2> SUFFICES ASSUME BenchInv, step = "idle" PROVE \A m \in Content(1, ResumeAt - 1) : Written(m)
    BY DEF PassedIsWritten, Written
  <2>1. request \in Nat
    BY DEF BenchInv, HandlerInv, HandlerTyped
  <2> QED BY <2>1, ResumeGoesOn DEF BenchInv
<1> QED BY <1>1, BenchInvariant, PTL

(* After DeleteEpisodicByProject a text is back only in a row that a write *)
(* had read before: the merge path writes whole rows back.                 *)
THEOREM OnlyReadTextsReturn == BenchSpec => []DeletedStaysDeleted
<1>1. BenchInv => DeletedStaysDeleted
  BY DEF BenchInv, RowsInv, ErasedCarried, DeletedStaysDeleted
<1> QED BY <1>1, BenchInvariant, PTL
=============================================================================
