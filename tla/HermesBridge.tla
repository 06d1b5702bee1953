---------------------------- MODULE HermesBridge ----------------------------
(***************************************************************************)
(* The Hermes plugin in front of the provider daemon.  Every hook of the   *)
(* plugin is a call; most spawn a thread, the others block the agent's     *)
(* main thread.  A call takes the I/O lock, writes one request into the    *)
(* daemon's stdin, waits for its stdout with a timeout, and reads one      *)
(* line.  Every request carries the same id, and no call looks at it.      *)
(*                                                                         *)
(* Requests and answers are numbered: written is every request in order,   *)
(* the loop has handled the first served of them, and the k-th answer is   *)
(* that to the k-th request.  Of the answers the first drained have left   *)
(* the pipe for the buffer of Python's file object, and the first received *)
(* have been read.                                                         *)
(***************************************************************************)
EXTENDS ProviderDaemon

CONSTANTS
    First,     \* the session initialize names
    PipeRoom   \* requests the daemon's stdin holds before a write blocks

ASSUME BridgeAssumption == First \in Sessions /\ PipeRoom \in Nat \ {0}

VARIABLES
    pc,        \* where each call is
    lock,      \* the call that holds the I/O lock, or None
    written, served, drained, received,
    reply,     \* what the loop answered each call's request
    got,       \* the number of the answer each call read
    session,   \* the plugin's session
    plugin,    \* "new", "open" or "closed"
    daemon     \* "up" or "dead"

pipeVars == <<written, served, drained, received>>
threadVars == <<call, pc, lock, got, session, plugin>>
vars == <<daemonVars, pipeVars, threadVars, reply, daemon>>

(* What a hook is called with.                                             *)
Arguments(method) ==
    IF method \in Switches THEN Sessions
    ELSE IF method \in Edits THEN Targets ELSE {"none"}

Requests ==
    {r \in [method : Methods, session : Sessions,
            arg : Sessions \cup Targets \cup {"none"}, past : SUBSET Calls] :
       r.arg \in Arguments(r.method)}
NoRequest == [method |-> "none"]

Returned == {"answered", "timed_out", "closed", "broken"}
Steps == {"idle", "called", "locked", "reading"} \cup Returned

TypeOK ==
    /\ DaemonTypeOK
    /\ call \in [Calls -> Requests \cup {NoRequest}]
    /\ pc \in [Calls -> Steps]
    /\ lock \in Calls \cup {None}
    /\ written \in Seq(Calls)
    /\ served \in 0..Len(written)
    /\ drained \in 0..served
    /\ received \in 0..drained
    /\ reply \in [Calls -> Answers \cup {Answer("none")}]
    /\ got \in [Calls -> Nat]
    /\ session \in Sessions
    /\ plugin \in {"new", "open", "closed"}
    /\ daemon \in {"up", "dead"}

Init ==
    /\ DaemonInit
    /\ call = [c \in Calls |-> NoRequest]
    /\ pc = [c \in Calls |-> "idle"]
    /\ lock = None
    /\ written = << >>
    /\ served = 0 /\ drained = 0 /\ received = 0
    /\ reply = [c \in Calls |-> Answer("none")]
    /\ got = [c \in Calls |-> 0]
    /\ session = First
    /\ plugin = "new"
    /\ daemon = "up"

-----------------------------------------------------------------------------
(* The answer to initialize arrives before any other call is made; one     *)
(* that fails or is late ends the daemon.                                  *)
Initialize ==
    /\ plugin = "new"
    /\ \/ /\ HandleInitialize(session)
          /\ plugin' = "open"
          /\ UNCHANGED daemon
       \/ /\ plugin' = "closed"
          /\ daemon' = "dead"
          /\ UNCHANGED daemonVars
    /\ UNCHANGED <<call, pc, lock, got, session, pipeVars, reply>>

Made == {c \in Calls : pc[c] # "idle"}
SwitchCalls == {c \in Made : Method(c) \in Switches}
Waiting == {c \in Made : pc[c] \notin Returned}

(* on_session_switch, pre_compress and the tool call block the main thread;*)
(* sync_turn and queue_prefetch come from the worker of Hermes beside it.  *)
Blocking == Switches \cup {"pre_compress", "prepare_edit"}
MainFree == \A c \in Waiting : Method(c) \notin Blocking
OnMain(method) == method \notin {"sync_turn", "queue_prefetch"}

Bygone == {First} \cup {call[c].arg : c \in SwitchCalls}

(* A fresh conversation has a fresh session.                               *)
Fresh(method, arg) == method = "reset" => arg \notin Bygone

(* Mutant: the plugin adopts the new session before it asks for it.        *)
SessionEarly(method, arg) == IF method \in Switches THEN arg ELSE session

SessionMeanwhile(method, arg) == session

(* The session is the plugin's at the time of the call; a context that     *)
(* must not write has its turns dropped here.                              *)
Call(c, method) ==
    /\ plugin = "open" /\ pc[c] = "idle"
    /\ OnMain(method) => MainFree
    /\ method = "sync_turn" => AgentContext \in {"", "primary"}
    /\ \E arg \in Arguments(method) :
         /\ Fresh(method, arg)
         /\ call' = [call EXCEPT ![c] =
              [method |-> method, session |-> session, arg |-> arg,
               past |-> SwitchCalls \ Waiting]]
         /\ session' = SessionMeanwhile(method, arg)
    /\ pc' = [pc EXCEPT ![c] = "called"]
    /\ UNCHANGED <<lock, got, plugin, daemonVars, pipeVars, reply, daemon>>
-----------------------------------------------------------------------------
(* Mutant: no lock.                                                        *)
LockIgnored == TRUE

LockIsFree == lock = None

Lock(c) ==
    /\ pc[c] = "called" /\ LockIsFree
    /\ lock' = c
    /\ pc' = [pc EXCEPT ![c] = "locked"]
    /\ UNCHANGED <<call, got, session, plugin, daemonVars, pipeVars, reply, daemon>>

Write(c) ==
    /\ pc[c] = "locked" /\ daemon = "up"
    /\ Len(written) < served + PipeRoom
    /\ written' = Append(written, c)
    /\ pc' = [pc EXCEPT ![c] = "reading"]
    /\ UNCHANGED <<call, lock, got, session, plugin, served, drained, received,
                   daemonVars, reply, daemon>>

(* on_session_switch adopts the new session however its request ended.     *)
SessionAfter(c) == IF Method(c) \in Switches THEN call[c].arg ELSE session

(* Mutant: a call that returns keeps the lock.                             *)
LockKept(c) == lock

LockAfter(c) == IF lock = c THEN None ELSE lock

Return(c, how) ==
    /\ pc' = [pc EXCEPT ![c] = how]
    /\ lock' = LockAfter(c)
    /\ session' = SessionAfter(c)
    /\ UNCHANGED <<call, plugin, written, served, daemonVars, reply, daemon>>

(* select looks at the pipe; readline serves from the buffer first, and    *)
(* fills it with what the pipe holds when it is empty.                     *)
Readable == drained < served \/ daemon = "dead"

Receive(c) ==
    /\ pc[c] = "reading" /\ Readable
    /\ received < served
    /\ received' = received + 1
    /\ drained' \in IF received < drained THEN {drained} ELSE received + 1..served
    /\ got' = [got EXCEPT ![c] = received + 1]
    /\ Return(c, "answered")

TimeOut(c) ==
    /\ pc[c] = "reading" /\ ~Readable
    /\ Return(c, "timed_out")
    /\ UNCHANGED <<got, drained, received>>

EndOfFile(c) ==
    /\ pc[c] = "reading" /\ daemon = "dead" /\ received = served
    /\ Return(c, "closed")
    /\ UNCHANGED <<got, drained, received>>

(* The pipe has no reader, or the plugin was shut down before the thread   *)
(* looked for the daemon.                                                  *)
Broken(c) ==
    /\ \/ pc[c] = "locked" /\ daemon = "dead"
       \/ pc[c] = "called" /\ plugin = "closed"
    /\ Return(c, "broken")
    /\ UNCHANGED <<got, drained, received>>
-----------------------------------------------------------------------------
(* The daemon reads the next line, handles it, and writes the answer.      *)
Serve ==
    /\ daemon = "up" /\ served < Len(written)
    /\ LET c == written[served + 1]
       IN  \E answer \in Answers :
             /\ Handle(c, answer)
             /\ reply' = [reply EXCEPT ![c] = answer]
    /\ served' = served + 1
    /\ UNCHANGED <<threadVars, written, drained, received, daemon>>

Background ==
    /\ daemon = "up"
    /\ \E c \in Calls : WarmPrefetch(c) \/ IntegrationEnds(c)
    /\ UNCHANGED <<threadVars, pipeVars, reply, daemon>>

(* shutdown forgets the process before it would ask it to stop, so it goes *)
(* by SIGTERM, which leaves the loop waiting for a line, and SIGKILL.      *)
Shutdown ==
    /\ plugin = "open" /\ MainFree
    /\ plugin' = "closed"
    /\ UNCHANGED <<call, pc, lock, got, session, daemonVars, pipeVars, reply, daemon>>

(* Killed at last, or gone by itself: a crash, or a request line over the  *)
(* limit of the scanner.  Nothing starts it again.                         *)
DaemonDies ==
    /\ plugin # "new" /\ daemon = "up"
    /\ daemon' = "dead"
    /\ UNCHANGED <<threadVars, daemonVars, pipeVars, reply>>

Quiet ==
    /\ Waiting = {}
    /\ UNCHANGED vars

Step(c) == Lock(c) \/ Write(c) \/ Receive(c) \/ TimeOut(c) \/ EndOfFile(c) \/ Broken(c)

Next ==
    \/ Initialize
    \/ \E c \in Calls, method \in Methods : Call(c, method)
    \/ \E c \in Calls : Step(c)
    \/ Serve \/ Background \/ Shutdown \/ DaemonDies \/ Quiet

Spec == Init /\ [][Next]_vars
-----------------------------------------------------------------------------
(* An answer is for the request of the call that reads it ("Send one       *)
(* line-delimited JSON-RPC request and read its response").                *)
AnswersMatchRequests ==
    \A c \in Calls : pc[c] = "answered" => written[got[c]] = c

In(step) == {c \in Calls : pc[c] = step}

(* A call that timed out leaves its answer in the pipe for the next one:   *)
(* from then on every call is given the answer of an earlier request, as   *)
(* many places back as calls have timed out, and never of a later one.     *)
AnswersLagByTimeouts ==
    \A c \in In("reading") :
        /\ written[Len(written)] = c
        /\ received + 1 = Len(written) - Cardinality(In("timed_out"))

(* A request is refused for its session only if a switch overtook it: one  *)
(* that had not returned when the call was made reached the daemon first.  *)
RefusedOnlyAfterSwitch ==
    \A j \in 1..served : reply[written[j]].kind = "unknown_session" =>
        \E i \in 1..j - 1 :
            /\ Method(written[i]) \in Switches
            /\ written[i] \notin call[written[j]].past

(* When every request is handled and no switch is under way, the daemon    *)
(* knows the plugin's session, and no other.                               *)
OneSession ==
    /\ plugin = "open" /\ daemon = "up"
    /\ served = Len(written)
    /\ SwitchCalls \cap Waiting = {}
    => {s \in Sessions : sessions[s] # "unbound"} = {session}

(* After a reset the working memory holds turns of the sessions bound      *)
(* since, however late the turns of the old conversation arrive.           *)
FreshWorkingMemory == \A c \in workingMem : SessionOf(c) \in since

(* The edits of a built-in memory form a chain: an edge leads from a       *)
(* version to the next of its target, and while the store does not fail    *)
(* every replaced version has its edge and is retired.                     *)
EditsChain ==
    /\ \A e \in edges : \E t \in Targets : \E i \in 1..Len(byTarget[t]) - 1 :
         e = <<byTarget[t][i], byTarget[t][i + 1]>>
    /\ failures = 0 =>
         \A t \in Targets : \A i \in 1..Len(byTarget[t]) - 1 :
           Method(byTarget[t][i + 1]) = "replace" =>
             /\ <<byTarget[t][i], byTarget[t][i + 1]>> \in edges
             /\ byTarget[t][i] \in retired

(* A recall belongs to the session that asked for it, and is handed out    *)
(* once: what was answered is no longer cached.                            *)
RecallIsOwn ==
    \A c \in Calls : reply[c].recall # None =>
        /\ SessionOf(reply[c].recall) = SessionOf(c)
        /\ \A s \in Sessions : prefetchCache[s] # reply[c].recall
        /\ \A d \in Calls \ {c} : reply[d].recall # reply[c].recall

(* Every hook returns, also when the pipe is full or the daemon is gone:   *)
(* no call can take more steps than there are between called and returned, *)
(* so it is enough that somebody can go on while a call has not returned.  *)
NoCallIsStuck ==
    Waiting # {} => ENABLED Serve \/ \E c \in Waiting : ENABLED Step(c)
=============================================================================
