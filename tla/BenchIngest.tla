----------------------------- MODULE BenchIngest -----------------------------
(***************************************************************************)
(* The evaluation server: POST /v1/add embeds the messages of a request    *)
(* with the worker pool of BatchEmbedder and then writes them one by one   *)
(* with the pipeline of WritePipeline, POST /v1/delete removes the rows of *)
(* the user at any moment.  One harness ingests one conversation of one    *)
(* user, with the gate off; when a request fails it resumes at the         *)
(* message the answer names, and when it has given up waiting it sends the *)
(* whole request again, while the server may still be at work.             *)
(*                                                                         *)
(* A write is named by the request that makes it and its message.          *)
(***************************************************************************)
EXTENDS WritePipeline, BatchEmbedder

CONSTANTS
    Messages,           \* the number of messages of the conversation
    Requests,           \* bound on the add requests the harness sends
    Conversation,       \* what each message says
    EmptyMessages,      \* the messages without content
    MaxMessagesPerAdd,  \* 2000 in the code
    MaxDeletes          \* bound on the delete requests

ASSUME BenchAssumption ==
    /\ Messages \in Nat /\ Requests \in Nat /\ MaxMessagesPerAdd \in Nat
    /\ Conversation \in [1..Messages -> Events]
    /\ EmptyMessages \subseteq 1..Messages
    /\ MaxDeletes \in Nat
    /\ Writes = (1..Requests) \X (1..Messages)
    /\ Signals = {}

VARIABLES
    request,    \* the request being served or served last; 0 before the first
    step,       \* what its handler does
    from,       \* from[r]: the first message of request r
    last,       \* the last message of the request
    at,         \* the message being written
    answer,     \* answer[r]: the answer to request r the harness got
    rowVector,  \* the vector a row was created with
    erased,     \* the texts that were stored at the last delete
    carried,    \* of those, the texts in rows some write held a copy of
    deletes

handler == <<request, step, from, last, at, answer>>
addVars == <<handler, rowVector, erased, carried, deletes>>
benchVars == <<vars, batchVars, addVars>>

Answers == {"none", "added", "failed", "refused", "unheard"}

BenchTypeOK ==
    /\ EmbedTypeOK
    /\ TypeOK
    /\ request \in 0..Requests
    /\ step \in {"idle", "embed", "write"}
    /\ from \in [1..Requests -> 0..Messages] /\ last \in 0..Messages
    /\ at \in 0..(Messages + 1)
    /\ answer \in [1..Requests -> Answers]
    /\ rowVector \in [Writes -> Vector]
    /\ erased \subseteq Writes /\ carried \subseteq erased
    /\ deletes \in 0..MaxDeletes

BenchInit ==
    /\ Init /\ EmbedInit
    /\ event = [w \in Writes |-> Conversation[w[2]]]
    /\ request = 0 /\ step = "idle" /\ last = 0 /\ at = 0
    /\ from = [r \in 1..Requests |-> 0]
    /\ answer = [r \in 1..Requests |-> "none"]
    /\ rowVector = [w \in Writes |-> NoVector]
    /\ erased = {} /\ carried = {} /\ deletes = 0

-----------------------------------------------------------------------------
(* The messages of the request that have content, and their positions in   *)
(* the batch.                                                              *)
Content(a, b) == (a..b) \ EmptyMessages

First == from[request]

Position(m) == Cardinality(Content(First, m))

Write == <<request, at>>

(* The next message with content after m, or the end of the request.       *)
After(m) == Min(Content(m + 1, last) \cup {last + 1})

-----------------------------------------------------------------------------
(* The harness.  It goes on after the messages it knows to be stored:      *)
(* after the last request when that was added, at the message a failure    *)
(* named, and from the start of a request it does not know the outcome of. *)
ResumeAt ==
    CASE request = 0 -> 1
      [] request > 0 /\ answer[request] = "added" -> last + 1
      [] request > 0 /\ answer[request] = "failed" -> at
      [] OTHER -> First

SendAdd ==
    /\ step = "idle" /\ request < Requests
    /\ ResumeAt <= Messages
    /\ \E to \in ResumeAt..Messages :
         /\ request' = request + 1
         /\ from' = [from EXCEPT ![request + 1] = ResumeAt]
         /\ last' = to
         /\ IF to - ResumeAt + 1 > MaxMessagesPerAdd
            THEN /\ step' = "idle"
                 /\ answer' = [answer EXCEPT ![request + 1] = "refused"]
                 /\ UNCHANGED batchVars
            ELSE /\ step' = "embed" /\ UNCHANGED answer
                 /\ BeginBatch(Cardinality(Content(ResumeAt, to)))
    /\ at' = 0
    /\ UNCHANGED <<vars, rowVector, erased, carried, deletes>>

(* A handler that answers a client that went away answers nobody.          *)
Answered(a) == [answer EXCEPT ![request] = IF left THEN "unheard" ELSE a]

(* The batch is embedded, or the embedder has no batch call and each       *)
(* message is embedded when it is written.                                 *)
Embedding ==
    /\ step = "embed" /\ embedding \in {"ok", "unsupported"}
    /\ at' = After(First - 1)
    /\ step' = "write"
    /\ UNCHANGED <<vars, batchVars, request, from, last, answer, rowVector, erased,
                   carried, deletes>>

(* Nothing is written; the answer names the first message.                 *)
EmbeddingFailed ==
    /\ step = "embed" /\ embedding = "failed"
    /\ at' = First
    /\ step' = "idle" /\ answer' = Answered("failed")
    /\ UNCHANGED <<vars, batchVars, request, from, last, rowVector, erased, carried, deletes>>

Writing == step = "write" /\ at <= last

(* Without a batch call each message is embedded when its write begins.    *)
VectorOf(m) ==
    IF embedding = "unsupported" THEN [text |-> Position(m), channel |-> "semantic"]
    ELSE vectors[Position(m)]

(* Mutant: a missing vector is not noticed.                                *)
HasVectorAlways(m) == TRUE

HasVector(m) == IF embedding = "unsupported" THEN ~left ELSE VectorOf(m) # NoVector

(* WriteMemoryWithEmbedding refuses an empty vector, and Embed fails for a *)
(* client that left; nothing is stored yet.                                *)
WriteRefused ==
    /\ Writing /\ pc[Write] = "idle"
    /\ ~HasVector(at)
    /\ pc' = [pc EXCEPT ![Write] = "failed"]
    /\ UNCHANGED <<stored, event, locals, clock, failures, batchVars, addVars>>

(* Embed (without batch) or the similarity search fails.                   *)
SearchFails ==
    /\ Writing /\ pc[Write] = "idle"
    /\ failures < MaxFailures
    /\ failures' = failures + 1
    /\ pc' = [pc EXCEPT ![Write] = "failed"]
    /\ UNCHANGED <<stored, event, locals, clock, batchVars, addVars>>

(* Vectors of two channels have different lengths or are unrelated: the    *)
(* search compares the rows of the same channel only.                      *)
Comparable(m) == {r \in Active : rowVector[r].channel = VectorOf(m).channel}

SearchSimilar ==
    /\ Writing /\ HasVector(at)
    /\ SearchAmong(Write, {found \in SUBSET Comparable(at) :
          Cardinality(found) = Min({SearchLimit, Cardinality(Comparable(at))})})
    /\ UNCHANGED <<batchVars, addVars>>

(* GetEpisodic finds the candidate; a deleted one is passed over.          *)
Found(m) == Exists(m)

FetchSimilar ==
    /\ Writing /\ Fetch(Write) /\ Found(carrier'[Write])
    /\ UNCHANGED <<batchVars, addVars>>

FetchGone ==
    /\ Writing /\ pc[Write] = "fetch"
    /\ \E m \in mergeable[Write] :
         /\ ~Found(m)
         /\ mergeable' = [mergeable EXCEPT ![Write] = @ \ {m}]
         /\ pc' = [pc EXCEPT ![Write] = IF mergeable[Write] = {m} THEN "create" ELSE "fetch"]
    /\ UNCHANGED <<stored, event, when, covered, todo, current, carrier, copy, clock,
                   failures, batchVars, addVars>>

CreateRow ==
    /\ Writing /\ Create(Write)
    /\ rowVector' = [rowVector EXCEPT ![Write] = VectorOf(at)]
    /\ UNCHANGED <<batchVars, handler, erased, carried, deletes>>

WriteOn ==
    /\ Writing
    /\ Append(Write) \/ FetchError(Write) \/ ApplyStep(Write) \/ Fail(Write)
    /\ UNCHANGED <<batchVars, addVars>>

(* The message is counted as persisted and the next one is taken.          *)
NextMessage ==
    /\ Writing /\ pc[Write] = "done"
    /\ at' = After(at)
    /\ UNCHANGED <<vars, batchVars, request, step, from, last, answer, rowVector, erased,
                   carried, deletes>>

(* Mutant: the answer names the message before the one that failed.        *)
FailedIndexEarly == IF at > First THEN at - 1 ELSE at

(* Mutant: the answer names the message after the one that failed.         *)
FailedIndexLate == at + 1

(* The answer to a failed write names its message.                         *)
FailedIndex == at

WriteFailed ==
    /\ Writing /\ pc[Write] = "failed"
    /\ step' = "idle" /\ answer' = Answered("failed")
    /\ at' = FailedIndex
    /\ UNCHANGED <<vars, batchVars, request, from, last, rowVector, erased, carried, deletes>>

Added ==
    /\ step = "write" /\ at > last
    /\ step' = "idle" /\ answer' = Answered("added")
    /\ UNCHANGED <<vars, batchVars, request, from, last, at, rowVector, erased, carried,
                   deletes>>

(* The harness gives up waiting.                                           *)
GiveUp ==
    /\ step # "idle"
    /\ ClientLeaves
    /\ UNCHANGED <<vars, addVars>>

BatchRuns ==
    /\ FeederStep \/ (\E w \in Pool : WorkerStep(w)) \/ EndBatch
    /\ UNCHANGED <<vars, addVars>>

-----------------------------------------------------------------------------
(* DeleteEpisodicByProject: one statement under the mutex of the store.    *)

(* Mutant: rows that are retired already are left.                         *)
DeletedActive == Active

Deleted == {m \in Writes : Exists(m)}

DeleteUser ==
    /\ deletes < MaxDeletes
    /\ deletes' = deletes + 1
    /\ erased' = UNION {text[m] : m \in Writes}
    /\ carried' = {w \in erased' : \E c \in Writes : pc[c] = "append" /\ w \in copy[c].text}
    /\ text' = [m \in Writes |-> IF m \in Deleted THEN {} ELSE text[m]]
    /\ anchor' = [m \in Writes |-> IF m \in Deleted THEN 0 ELSE anchor[m]]
    /\ retired' = retired \ Deleted
    /\ UNCHANGED <<edges, event, pc, locals, clock, failures, batchVars, handler, rowVector>>

(* The harness has nothing more to send.                                   *)
Finishes ==
    /\ step = "idle" /\ feeder = "closed"
    /\ request = Requests \/ ResumeAt > Messages
    /\ UNCHANGED benchVars

Handling ==
    \/ Embedding \/ EmbeddingFailed
    \/ WriteRefused \/ SearchSimilar \/ FetchSimilar \/ FetchGone \/ CreateRow \/ WriteOn
    \/ NextMessage \/ WriteFailed \/ Added

BenchNext ==
    \/ SendAdd \/ GiveUp \/ DeleteUser
    \/ Handling \/ SearchFails
    \/ BatchRuns
    \/ Finishes

BenchSpec == BenchInit /\ [][BenchNext]_benchVars

(* The handler is a goroutine that runs on; nothing obliges the harness to *)
(* send, to give up or to delete.                                          *)
BenchFairSpec ==
    /\ BenchSpec
    /\ EmbedFairness
    /\ WF_benchVars(Handling)
-----------------------------------------------------------------------------
(* The result of the pool is the batch, text by text, whatever the order   *)
(* in which chunks end, responses are ordered and retries happen; a text   *)
(* is without a vector only when the client left and the feeder stopped.   *)
VectorsInOrder ==
    embedding = "ok" =>
        \A t \in 1..size : vectors[t].text = t \/ (vectors[t] = NoVector /\ left)

(* "The embedding must be the vector for the exact summary text": a row    *)
(* carries the vector of the message it was created for, none is stored    *)
(* without one.                                                            *)
RowsHaveTheirVector ==
    \A w \in Writes : Exists(w) =>
        rowVector[w].text = Cardinality(Content(from[w[1]], w[2]))

Stored(w) == \E m \in Writes : w \in text[m]

(* "Earlier messages are never re-written on retry": one message is stored *)
(* by two writes only when the first broke off after it had stored its     *)
(* text, or the harness did not hear the answer to its request.            *)
StoredTwiceOnlyAfterBreak ==
    \A w, v \in Writes :
        (w[2] = v[2] /\ w[1] < v[1] /\ Stored(w) /\ Stored(v)) =>
        pc[w] = "failed" \/ answer[w[1]] = "unheard"

(* The other half of resuming: a message the harness has gone past was     *)
(* written to the end by some request.                                     *)
PassedIsWritten ==
    step = "idle" => \A m \in Content(1, ResumeAt - 1) :
        \E r \in 1..Requests : pc[<<r, m>>] = "done"

(* A delete leaves nothing of the past: a text that was stored when the    *)
(* rows of the user were removed is back only in a row that a write had    *)
(* read before and wrote back after.                                       *)
DeletedStaysDeleted ==
    \A m \in Writes : text[m] \cap erased \subseteq carried

(* Whatever ends a batch (an error, a client that leaves, the last chunk), *)
(* no worker, feeder or handler waits for ever: the server is always done  *)
(* with a request after a while.                                           *)
AddsAreServed == []<>(step = "idle" /\ feeder = "closed")
=============================================================================
