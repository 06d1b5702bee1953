--------------------------- MODULE ProviderDaemon ---------------------------
(***************************************************************************)
(* The daemon Hermes drives over a pipe: the state its handlers keep in    *)
(* the process and the rows they write on their own.  Its loop handles one *)
(* request to the end before it reads the next (Serve), so a handler is    *)
(* one step; beside the loop run the goroutines queue_prefetch and         *)
(* on_session_end start.  A request is identified with the call of the     *)
(* plugin that makes it, and so are the recall and the episode it yields.  *)
(* One plugin has one agent identity: there is one project.                *)
(***************************************************************************)
EXTENDS Naturals, FiniteSets, Sequences

CONSTANTS
    Calls,         \* the calls the plugin makes; each becomes one request
    None,          \* no call
    Sessions,      \* session identifiers
    Targets,       \* the built-in memories: "memory" and "user"
    AgentContext,  \* "primary", or one that must not write
    MaxFailures    \* bound on the store calls that fail

ASSUME DaemonAssumption ==
    /\ None \notin Calls
    /\ AgentContext \in {"", "primary", "subagent", "cron", "flush"}
    /\ MaxFailures \in Nat

VARIABLES
    call,           \* the request of each call
    sessions,       \* session -> agent context, or "unbound"
    prefetchCache,  \* session -> warm recall, or None
    warming,        \* queue_prefetch goroutines in flight
    integrating,    \* consolidations in flight
    workingMem,     \* turns pushed since the buffer was cleared
    since,          \* history: the sessions bound since then
    rows,           \* episodes the hooks stored
    retired,        \* those marked obsolete
    byTarget,       \* target -> mirrored episodes, newest last
    edges,          \* DERIVED_FROM
    failures        \* store calls that failed so far

memoryVars == <<rows, retired, byTarget, edges>>
sessionVars == <<sessions, workingMem, since>>
recallVars == <<prefetchCache, warming>>
daemonVars == <<memoryVars, sessionVars, recallVars, integrating, failures>>

Switches == {"switch", "reset", "rewind"}
Edits == {"add", "replace", "remove"}
Reads == {"maintenance", "pre_compress", "prepare_edit"}
Methods ==
    {"sync_turn", "queue_prefetch", "prefetch", "session_end", "delegation"}
        \cup Switches \cup Edits \cup Reads

Recalls == Calls \cup {None}

(* What the loop writes back: an error, or a result and its recall.        *)
Answers == [kind : {"unknown_session", "failed", "ok"}, recall : Recalls]
Answer(kind) == [kind |-> kind, recall |-> None]
Recall(r) == [kind |-> "ok", recall |-> r]
Ok == Answer("ok")

DaemonTypeOK ==
    /\ sessions \in [Sessions -> {"unbound", AgentContext}]
    /\ prefetchCache \in [Sessions -> Recalls]
    /\ warming \subseteq Calls
    /\ integrating \subseteq Calls
    /\ workingMem \subseteq Calls
    /\ since \subseteq Sessions
    /\ rows \subseteq Calls
    /\ retired \subseteq rows
    /\ byTarget \in [Targets -> Seq(Calls)]
    /\ edges \subseteq Calls \X Calls
    /\ failures \in 0..MaxFailures

DaemonInit ==
    /\ sessions = [s \in Sessions |-> "unbound"]
    /\ prefetchCache = [s \in Sessions |-> None]
    /\ warming = {}
    /\ integrating = {}
    /\ workingMem = {}
    /\ since = {}
    /\ rows = {}
    /\ retired = {}
    /\ byTarget = [t \in Targets |-> << >>]
    /\ edges = {}
    /\ failures = 0

-----------------------------------------------------------------------------
Method(c) == call[c].method
SessionOf(c) == call[c].session
Known(c) == sessions[SessionOf(c)] # "unbound"
StoreFails == failures < MaxFailures /\ failures' = failures + 1

HandleInitialize(s) ==
    /\ sessions' = [sessions EXCEPT ![s] = AgentContext]
    /\ since' = {s}
    /\ UNCHANGED <<workingMem, memoryVars, recallVars, integrating, failures>>

(* Every handler but initialize begins with the lookup of its session.     *)
RefuseUnknown(c, answer) ==
    /\ ~Known(c)
    /\ answer = Answer("unknown_session")
    /\ UNCHANGED daemonVars

(* A turn is pushed to the working memory unless the gate rejects it, it   *)
(* merges into an older memory (GatedWrites), or the session may only read.*)
HandleSyncTurn(c, answer) ==
    /\ Method(c) = "sync_turn" /\ Known(c)
    /\ \/ /\ answer = Ok
          /\ UNCHANGED <<workingMem, failures>>
       \/ /\ answer = Ok
          /\ sessions[SessionOf(c)] \in {"", "primary"}
          /\ workingMem' = workingMem \cup {c}
          /\ UNCHANGED failures
       \/ /\ answer = Answer("failed")
          /\ sessions[SessionOf(c)] \in {"", "primary"}
          /\ StoreFails
          /\ UNCHANGED workingMem
    /\ UNCHANGED <<sessions, since, memoryVars, recallVars, integrating>>

HandleQueuePrefetch(c, answer) ==
    /\ Method(c) = "queue_prefetch" /\ Known(c)
    /\ answer = Ok
    /\ warming' = warming \cup {c}
    /\ UNCHANGED <<prefetchCache, sessionVars, memoryVars, integrating, failures>>

(* The goroutine; a query that finds nothing leaves the cache alone.       *)
WarmPrefetch(c) ==
    /\ c \in warming
    /\ warming' = warming \ {c}
    /\ \/ prefetchCache' = [prefetchCache EXCEPT ![SessionOf(c)] = c]
       \/ UNCHANGED prefetchCache
    /\ UNCHANGED <<sessionVars, memoryVars, integrating, failures>>

(* Mutant: the recall is read and stays in the cache.                      *)
TakenKeeps(s) == prefetchCache

Taken(s) == [prefetchCache EXCEPT ![s] = None]

(* A warm recall is consumed; a cold cache is answered by a retrieval,     *)
(* which may find nothing.                                                 *)
HandlePrefetch(c, answer) ==
    LET warm == prefetchCache[SessionOf(c)]
    IN  /\ Method(c) = "prefetch" /\ Known(c)
        /\ prefetchCache' = Taken(SessionOf(c))
        /\ answer \in IF warm # None THEN {Recall(warm)} ELSE {Recall(c), Ok}
        /\ UNCHANGED <<warming, sessionVars, memoryVars, integrating, failures>>

HandleOnSessionEnd(c, answer) ==
    /\ Method(c) = "session_end" /\ Known(c)
    /\ answer = Ok
    /\ integrating' = integrating \cup {c}
    /\ UNCHANGED <<sessionVars, memoryVars, recallVars, failures>>

IntegrationEnds(c) ==
    /\ c \in integrating
    /\ integrating' = integrating \ {c}
    /\ UNCHANGED <<sessionVars, memoryVars, recallVars, failures>>
-----------------------------------------------------------------------------
TargetOf(c) == call[c].arg
HasLast(t) == byTarget[t] # << >>
Last(t) == byTarget[t][Len(byTarget[t])]

(* The newest entry of the target is retired, whatever the content was.    *)
RemoveMirror(c, answer) ==
    /\ Method(c) = "remove"
    /\ \/ /\ ~HasLast(TargetOf(c))
          /\ answer = Ok
          /\ UNCHANGED <<retired, failures>>
       \/ /\ HasLast(TargetOf(c))
          /\ answer = Ok
          /\ retired' = retired \cup {Last(TargetOf(c))}
          /\ UNCHANGED failures
       \/ /\ HasLast(TargetOf(c))
          /\ answer = Answer("failed")
          /\ StoreFails
          /\ UNCHANGED retired
    /\ UNCHANGED <<rows, byTarget, edges>>

(* Mutant: the episode is indexed without being stored.                    *)
StoredNot(c) == rows

Stored(c) == rows \cup {c}

(* Mutant: the new episode is indexed before the old one is looked up.     *)
SupersededLate(c) == IF Method(c) = "replace" THEN {c} ELSE {}

(* The entry a replace supersedes: the newest before its own is pushed.    *)
Superseded(c) ==
    IF Method(c) = "replace" /\ HasLast(TargetOf(c)) THEN {Last(TargetOf(c))} ELSE {}

(* The episode is stored first; an obsolete mark or an edge that fails is  *)
(* not reported, and the entry is indexed all the same.                    *)
WriteMirror(c, answer) ==
    /\ Method(c) \in {"add", "replace"}
    /\ \/ /\ answer = Answer("failed")
          /\ StoreFails
          /\ UNCHANGED memoryVars
       \/ /\ answer = Ok
          /\ rows' = Stored(c)
          /\ byTarget' = [byTarget EXCEPT ![TargetOf(c)] = Append(@, c)]
          /\ \E lost \in SUBSET {"mark", "edge"} :
               /\ IF lost = {} THEN UNCHANGED failures
                  ELSE Superseded(c) # {} /\ StoreFails
               /\ retired' = IF "mark" \in lost THEN retired
                             ELSE retired \cup Superseded(c)
               /\ edges' = IF "edge" \in lost THEN edges
                           ELSE edges \cup (Superseded(c) \X {c})

HandleOnMemoryWrite(c, answer) ==
    /\ Known(c)
    /\ RemoveMirror(c, answer) \/ WriteMirror(c, answer)
    /\ UNCHANGED <<sessionVars, recallVars, integrating>>

HandleOnDelegation(c, answer) ==
    /\ Method(c) = "delegation" /\ Known(c)
    /\ \/ answer = Ok /\ rows' = Stored(c) /\ UNCHANGED failures
       \/ answer = Ok /\ UNCHANGED <<rows, failures>>      \* no task
       \/ answer = Answer("failed") /\ StoreFails /\ UNCHANGED rows
    /\ UNCHANGED <<retired, byTarget, edges, sessionVars, recallVars, integrating>>

(* maintenance and pre_compress only answer.                               *)
HandleRead(c, answer) ==
    /\ Method(c) \in {"maintenance", "pre_compress"} /\ Known(c)
    /\ answer = Ok
    /\ UNCHANGED daemonVars

(* What it counts are rows of pitfalls.                                    *)
HandlePrepareEditContext(c, answer) ==
    /\ Method(c) = "prepare_edit" /\ Known(c)
    /\ \/ answer = Ok /\ UNCHANGED failures
       \/ answer = Answer("failed") /\ StoreFails
    /\ UNCHANGED <<sessionVars, memoryVars, recallVars, integrating>>
-----------------------------------------------------------------------------
NewSessionOf(c) == call[c].arg

(* Mutant: the new session is bound, then the old one deleted.             *)
ReboundLate(c) ==
    [sessions EXCEPT ![NewSessionOf(c)] = sessions[SessionOf(c)],
                     ![SessionOf(c)] = "unbound"]

(* Mutant: the old session stays bound.                                    *)
ReboundKeeps(c) == [sessions EXCEPT ![NewSessionOf(c)] = sessions[SessionOf(c)]]

(* The old session is deleted, then the new one bound.                     *)
Rebound(c) ==
    [sessions EXCEPT ![SessionOf(c)] = "unbound",
                     ![NewSessionOf(c)] = sessions[SessionOf(c)]]

HandleOnSessionSwitch(c, answer) ==
    /\ Method(c) \in Switches /\ Known(c)
    /\ answer = Ok
    /\ sessions' = Rebound(c)
    /\ IF Method(c) = "reset"
       THEN workingMem' = {} /\ since' = {NewSessionOf(c)}
       ELSE since' = since \cup {NewSessionOf(c)} /\ UNCHANGED workingMem
    /\ prefetchCache' =
         IF Method(c) = "rewind"
         THEN [s \in Sessions |->
                 IF s \in {SessionOf(c), NewSessionOf(c)} THEN None ELSE prefetchCache[s]]
         ELSE prefetchCache
    /\ UNCHANGED <<warming, memoryVars, integrating, failures>>

(* One turn of the loop: what the request of c does, and its answer.       *)
Handle(c, answer) ==
    \/ RefuseUnknown(c, answer)
    \/ HandleSyncTurn(c, answer)
    \/ HandleQueuePrefetch(c, answer)
    \/ HandlePrefetch(c, answer)
    \/ HandleOnSessionEnd(c, answer)
    \/ HandleOnMemoryWrite(c, answer)
    \/ HandleOnDelegation(c, answer)
    \/ HandleRead(c, answer)
    \/ HandlePrepareEditContext(c, answer)
    \/ HandleOnSessionSwitch(c, answer)
=============================================================================
