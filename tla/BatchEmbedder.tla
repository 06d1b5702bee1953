---------------------------- MODULE BatchEmbedder ----------------------------
(***************************************************************************)
(* Embedding a batch of texts with a pool of workers (BatchEmbedder and    *)
(* the embedders it wraps).  One call at a time: a feeder goroutine sends  *)
(* the chunks into a channel large enough for all of them, the workers     *)
(* take them, the caller waits for the workers.  The first error cancels   *)
(* the context of the call; so does a client that goes away.               *)
(*                                                                         *)
(* A text is its position in the batch; a vector is the text it was        *)
(* computed from and the channel that computed it.                         *)
(***************************************************************************)
EXTENDS Integers, FiniteSets, FiniteSetsExt

CONSTANTS
    Inners,          \* the embedders that may be wrapped
    WorkersOption,   \* BatchOptions.Workers
    BatchOption,     \* BatchOptions.BatchSize
    DefaultWorkers,  \* 32 in the code
    MaxWorkers,      \* 64 in the code
    HardLimit,       \* texts per request (64 in the code)
    MaxRetries       \* retries of a rate-limited request (5 in the code)

(* "openai" fails with its provider and honours the context; "keyword"     *)
(* computes locally and does neither; "dual" covers every failure of its   *)
(* semantic channel with the keyword channel; "single" has no batch call.  *)
ASSUME InnersAssumption == Inners \subseteq {"openai", "keyword", "dual", "single"}
ASSUME PoolAssumption ==
    /\ WorkersOption \in Int /\ BatchOption \in Int
    /\ DefaultWorkers \in Nat \ {0} /\ MaxWorkers \in Nat \ {0}
    /\ HardLimit \in Nat \ {0} /\ MaxRetries \in Nat

VARIABLES
    inner,       \* the wrapped embedder
    embedding,   \* the state of the call
    size,        \* the number of texts
    fed,         \* the texts the feeder has sent
    feeder,      \* "open" until the feeder has closed the channel
    taken,       \* of those, the texts the workers have taken out of the channel
    worker,      \* what each goroutine of the pool does
    vectors,     \* the result the workers fill
    batchFailed, \* firstErr is set
    cancelled,   \* the context of the call is done
    left         \* the client whose request this is went away

batchVars ==
    <<inner, embedding, size, fed, feeder, taken, worker, vectors, batchFailed, cancelled,
      left>>

-----------------------------------------------------------------------------

PoolSize ==
    IF WorkersOption <= 0 THEN DefaultWorkers ELSE Min({WorkersOption, MaxWorkers})

ChunkSize ==
    IF BatchOption <= 0 \/ BatchOption > HardLimit THEN HardLimit ELSE BatchOption

Pool == 1..PoolSize

ChunkCount(n) == (n + ChunkSize - 1) \div ChunkSize

(* Mutant: the last chunk is sent as if it were full.                      *)
ChunkEndBeyond(start) == start + ChunkSize

(* The position up to which the chunk after position start reaches.        *)
ChunkEnd(start) == Min({start + ChunkSize, size})

Vector == [text : Nat, channel : {"semantic", "keyword", "none"}]
NoVector == [text |-> 0, channel |-> "none"]

Gone == [at |-> "gone", start |-> 0, attempt |-> 0, got |-> <<>>]
Taking == [at |-> "take", start |-> 0, attempt |-> 0, got |-> <<>>]

EmbedTypeOK ==
    /\ inner \in Inners
    /\ embedding \in {"none", "running", "ok", "failed", "unsupported"}
    /\ size \in Nat /\ fed \in 0..size
    /\ feeder \in {"open", "closed"}
    /\ taken \in 0..fed
    /\ \A w \in Pool :
         /\ worker[w].at \in {"take", "call", "wait", "copy", "gone"}
         /\ worker[w].start \in 0..size
         /\ worker[w].attempt \in 0..MaxRetries
         /\ \A t \in DOMAIN worker[w].got : worker[w].got[t] \in Vector
    /\ DOMAIN vectors = 1..size /\ \A t \in 1..size : vectors[t] \in Vector
    /\ batchFailed \in BOOLEAN /\ cancelled \in BOOLEAN /\ left \in BOOLEAN

EmbedInit ==
    /\ inner \in Inners
    /\ embedding = "none" /\ size = 0 /\ fed = 0 /\ feeder = "closed"
    /\ taken = 0 /\ worker = [w \in Pool |-> Gone] /\ vectors = <<>>
    /\ batchFailed = FALSE /\ cancelled = FALSE /\ left = FALSE

-----------------------------------------------------------------------------
(* The provider's answer for n texts: every item names its text by index,  *)
(* in any order, or no item has an index (it decodes as 0) and the items   *)
(* come in the order of the texts.                                         *)
Responses(n) ==
    {[i \in 1..n |-> [index |-> p[i] - 1, text |-> p[i]]] :
        p \in {q \in [1..n -> 1..n] : \A i, j \in 1..n : q[i] = q[j] => i = j}}
    \cup {[i \in 1..n |-> [index |-> 0, text |-> i]]}

(* Mutant: the response order is trusted.                                  *)
ReorderedNot(data, n) == [t \in 1..n |-> data[t].text]

(* The vectors in the order of the texts: by index when the indices are    *)
(* usable, else in response order.                                         *)
Reordered(data, n) ==
    IF {data[i].index : i \in 1..n} = 0..(n - 1)
    THEN [t \in 1..n |-> data[CHOOSE i \in 1..n : data[i].index = t - 1].text]
    ELSE [t \in 1..n |-> data[t].text]

(* What a successful call for a chunk can return.                          *)
Embedded(start) ==
    LET n == ChunkEnd(start) - start
        Semantic == {[t \in 1..n |->
                        [text |-> start + Reordered(data, n)[t], channel |-> "semantic"]] :
                     data \in Responses(n)}
        Mixed == {[t \in 1..n |-> [text |-> start + t, channel |-> c[t]]] :
                     c \in [1..n -> {"semantic", "keyword"}]}
        Keyword == {[t \in 1..n |-> [text |-> start + t, channel |-> "keyword"]]}
    IN  CASE inner = "openai" -> Semantic
          [] inner = "dual" -> IF cancelled THEN Keyword ELSE Semantic \cup Mixed
          [] OTHER -> Keyword

-----------------------------------------------------------------------------
(* EmbedBatch.                                                             *)

BeginBatch(n) ==
    /\ feeder = "closed"
    /\ size' = n
    /\ UNCHANGED inner
    /\ vectors' = [t \in 1..n |-> NoVector]
    /\ embedding' = CASE inner = "single" -> "unsupported"
                      [] inner # "single" /\ n = 0 -> "ok"
                      [] OTHER -> "running"
    /\ feeder' = IF embedding' = "running" THEN "open" ELSE "closed"
    /\ worker' = [w \in Pool |->
          IF embedding' = "running" /\ w <= ChunkCount(n) THEN Taking ELSE Gone]
    /\ fed' = 0 /\ taken' = 0
    /\ batchFailed' = FALSE /\ cancelled' = FALSE /\ left' = FALSE

(* The channel holds every chunk, so a send never blocks.                  *)
Feed ==
    /\ feeder = "open" /\ fed < size
    /\ fed' = ChunkEnd(fed)
    /\ UNCHANGED <<inner, embedding, size, taken, feeder, worker, vectors, batchFailed,
                   cancelled, left>>

(* Mutant: the feeder leaves without closing the channel.                  *)
FeederAfterForgets(isCancelled) == IF isCancelled THEN "open" ELSE "closed"

FeederAfter(isCancelled) == "closed"

(* All chunks are sent, or select finds the context done: it may do so     *)
(* although the channel has room.  Either way the channel is closed.       *)
FeedEnds ==
    /\ feeder = "open"
    /\ fed = size \/ cancelled
    /\ feeder' = FeederAfter(cancelled)
    /\ UNCHANGED <<inner, embedding, size, fed, taken, worker, vectors, batchFailed,
                   cancelled, left>>

Take(w) ==
    /\ worker[w].at = "take" /\ taken < fed
    /\ worker' = [worker EXCEPT ![w].at = "call", ![w].start = taken, ![w].attempt = 0]
    /\ taken' = ChunkEnd(taken)
    /\ UNCHANGED <<inner, embedding, size, fed, feeder, vectors, batchFailed, cancelled,
                   left>>

WorkerEnds(w) ==
    /\ worker[w].at = "take" /\ taken = fed /\ feeder = "closed"
    /\ worker' = [worker EXCEPT ![w] = Gone]
    /\ UNCHANGED <<inner, embedding, size, fed, feeder, taken, vectors, batchFailed,
                   cancelled, left>>

(* A request on a cancelled context fails; an embedder that does not look  *)
(* at its context goes on.                                                 *)
CallSucceeds(w) ==
    /\ worker[w].at = "call"
    /\ inner = "openai" => ~cancelled
    /\ \E got \in Embedded(worker[w].start) :
         worker' = [worker EXCEPT ![w].at = "copy", ![w].got = got]
    /\ UNCHANGED <<inner, embedding, size, fed, feeder, taken, vectors, batchFailed,
                   cancelled, left>>

CallRateLimited(w) ==
    /\ worker[w].at = "call" /\ inner = "openai"
    /\ worker[w].attempt < MaxRetries
    /\ worker' = [worker EXCEPT ![w].at = "wait", ![w].attempt = @ + 1]
    /\ UNCHANGED <<inner, embedding, size, fed, feeder, taken, vectors, batchFailed,
                   cancelled, left>>

Backoff(w) ==
    /\ worker[w].at = "wait"
    /\ worker' = [worker EXCEPT ![w].at = "call"]
    /\ UNCHANGED <<inner, embedding, size, fed, feeder, taken, vectors, batchFailed,
                   cancelled, left>>

(* Another error, no retry left, a wrong number of vectors, or the context *)
(* done during the backoff: the worker records the error, cancels the      *)
(* others and ends.                                                        *)
CallFails(w) ==
    /\ inner = "openai"
    /\ worker[w].at = "call" \/ (worker[w].at = "wait" /\ cancelled)
    /\ batchFailed' = TRUE /\ cancelled' = TRUE
    /\ worker' = [worker EXCEPT ![w] = Gone]
    /\ UNCHANGED <<inner, embedding, size, fed, feeder, taken, vectors, left>>

Copied(start, got) ==
    [t \in 1..size |-> IF t - start \in DOMAIN got THEN got[t - start] ELSE vectors[t]]

Copy(w) ==
    /\ worker[w].at = "copy"
    /\ vectors' = Copied(worker[w].start, worker[w].got)
    /\ worker' = [worker EXCEPT ![w] = Taking]
    /\ UNCHANGED <<inner, embedding, size, fed, feeder, taken, batchFailed, cancelled,
                   left>>

(* wg.Wait returns; the deferred cancel ends the feeder if it still runs.  *)
EndBatch ==
    /\ embedding = "running"
    /\ \A w \in Pool : worker[w].at = "gone"
    /\ embedding' = IF batchFailed THEN "failed" ELSE "ok"
    /\ cancelled' = TRUE
    /\ UNCHANGED <<inner, size, fed, feeder, taken, worker, vectors, batchFailed, left>>

(* The client disconnects: the server cancels the context of the request.  *)
ClientLeaves ==
    /\ ~left
    /\ left' = TRUE /\ cancelled' = TRUE
    /\ UNCHANGED <<inner, embedding, size, fed, feeder, taken, worker, vectors,
                   batchFailed>>

FeederStep == Feed \/ FeedEnds
WorkerStep(w) ==
    \/ Take(w) \/ WorkerEnds(w)
    \/ CallSucceeds(w) \/ CallRateLimited(w) \/ CallFails(w) \/ Backoff(w)
    \/ Copy(w)

(* The feeder and the workers are goroutines that run on.                  *)
EmbedFairness ==
    /\ WF_batchVars(FeederStep)
    /\ \A w \in Pool : WF_batchVars(WorkerStep(w))
    /\ WF_batchVars(EndBatch)
=============================================================================
