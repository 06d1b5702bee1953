------------------------- MODULE HermesBridgeProofs -------------------------
(***************************************************************************)
(* Theorems about HermesBridge for any number of calls, sessions and       *)
(* failures and any room in the pipe.                                      *)
(***************************************************************************)
EXTENDS HermesBridge, TLAPS, FiniteSetTheorems

(* What the proofs use of the constants.                                   *)
LEMMA ConstantTypes ==
    /\ MaxFailures \in Nat
    /\ First \in Sessions
    /\ PipeRoom \in Nat \ {0}
    /\ None \notin Calls
BY DaemonAssumption, BridgeAssumption DEF DaemonAssumption, BridgeAssumption

LEMMA StoreFailsTyped ==
    ASSUME failures \in 0..MaxFailures, StoreFails
    PROVE  failures' \in 0..MaxFailures
BY ConstantTypes DEF StoreFails

-----------------------------------------------------------------------------
(* The threads and the pipe.                                               *)

(* A call that was made carries a request.                                 *)
MadeTyped == \A c \in Calls : pc[c] # "idle" => call[c] \in Requests

(* The requests are those of calls that were let write, each once, and the *)
(* only call that waits for its answer wrote last.                         *)
OneInPipe ==
    /\ \A i \in 1..Len(written) : pc[written[i]] \in {"reading"} \cup Returned
    /\ \A i, j \in 1..Len(written) : written[i] = written[j] => i = j
    /\ \A c \in Calls : pc[c] \in {"locked", "reading"} => lock = c
    /\ \A c \in Calls : pc[c] = "reading" =>
         Len(written) > 0 /\ written[Len(written)] = c

Quiescent == plugin = "new" => \A c \in Calls : pc[c] = "idle"

(* What the handlers index exists.                                         *)
Indexed ==
    /\ warming \subseteq Made
    /\ \A t \in Targets : \A i \in 1..Len(byTarget[t]) : byTarget[t][i] \in rows

TypeInv == TypeOK /\ MadeTyped /\ OneInPipe /\ Quiescent /\ Indexed

LEMMA InitTyped == Init => TypeInv
<1> SUFFICES ASSUME Init PROVE TypeInv
  OBVIOUS
<1>1. failures \in 0..MaxFailures
  BY ConstantTypes DEF Init, DaemonInit
<1>2. DaemonTypeOK
  BY <1>1 DEF Init, DaemonInit, DaemonTypeOK, Recalls
<1>3. /\ written \in Seq(Calls) /\ Len(written) = 0
      /\ served \in 0..Len(written) /\ drained \in 0..served /\ received \in 0..drained
  BY DEF Init
<1>4. TypeOK
  BY <1>2, <1>3, ConstantTypes DEF Init, TypeOK, Steps
<1>5. MadeTyped /\ OneInPipe /\ Quiescent
  BY <1>3 DEF Init, MadeTyped, OneInPipe, Quiescent
<1>6. Indexed
  BY DEF Init, DaemonInit, Indexed
<1> QED BY <1>4, <1>5, <1>6 DEF TypeInv

(* What a made call carries.                                               *)
LEMMA RequestTyped ==
    ASSUME NEW c \in Calls, MadeTyped, pc[c] # "idle"
    PROVE  /\ Method(c) \in Methods /\ SessionOf(c) \in Sessions
           /\ call[c].past \subseteq Calls
           /\ Method(c) \in Switches => call[c].arg \in Sessions
           /\ Method(c) \in Edits => call[c].arg \in Targets
BY DEF MadeTyped, Requests, Arguments, Method, SessionOf, Switches, Edits

LEMMA WrittenTyped ==
    ASSUME TypeInv, NEW i \in 1..Len(written)
    PROVE  /\ written[i] \in Calls
           /\ pc[written[i]] \in {"reading"} \cup Returned
           /\ pc[written[i]] \notin {"idle", "called", "locked"}
<1>1. written[i] \in Calls
  BY DEF TypeInv, TypeOK
<1>2. pc[written[i]] \in {"reading"} \cup Returned
  BY DEF TypeInv, OneInPipe
<1> QED BY <1>1, <1>2 DEF Returned

(* A handler leaves the daemon's state well typed.                         *)
LEMMA HandleTyped ==
    ASSUME TypeInv, NEW c \in Calls, pc[c] # "idle", NEW answer \in Answers,
           Handle(c, answer)
    PROVE  /\ DaemonTypeOK'
           /\ warming' \subseteq warming \cup {c}
           /\ \A t \in Targets : \A i \in 1..Len(byTarget'[t]) : byTarget'[t][i] \in rows'
<1> USE DEF TypeInv, TypeOK, DaemonTypeOK, Indexed
<1>0. /\ Method(c) \in Methods /\ SessionOf(c) \in Sessions
      /\ Method(c) \in Switches => call[c].arg \in Sessions
      /\ Method(c) \in Edits => call[c].arg \in Targets
  BY RequestTyped
<1>1. CASE RefuseUnknown(c, answer)
  BY <1>1 DEF RefuseUnknown, daemonVars, memoryVars, sessionVars, recallVars
<1>2. CASE HandleSyncTurn(c, answer)
  <2>1. failures' \in 0..MaxFailures
    BY <1>2, StoreFailsTyped DEF HandleSyncTurn
  <2> QED BY <1>2, <2>1 DEF HandleSyncTurn, memoryVars, recallVars
<1>3. CASE HandleQueuePrefetch(c, answer)
  BY <1>3 DEF HandleQueuePrefetch, memoryVars, sessionVars
<1>4. CASE HandlePrefetch(c, answer)
  BY <1>4 DEF HandlePrefetch, Taken, Recalls, memoryVars, sessionVars
<1>5. CASE HandleOnSessionEnd(c, answer)
  BY <1>5 DEF HandleOnSessionEnd, memoryVars, sessionVars, recallVars
<1>6. CASE HandleOnMemoryWrite(c, answer)
  <2> DEFINE t == TargetOf(c)
  <2>1. t \in Targets /\ (HasLast(t) => Last(t) \in rows)
    BY <1>0, <1>6 DEF HandleOnMemoryWrite, RemoveMirror, WriteMirror, TargetOf,
                      Edits, HasLast, Last
  <2>2. CASE RemoveMirror(c, answer)
    <3>1. failures' \in 0..MaxFailures
      BY <2>2, StoreFailsTyped DEF RemoveMirror
    <3> QED BY <2>1, <2>2, <3>1, <1>6 DEF HandleOnMemoryWrite, RemoveMirror,
                                          sessionVars, recallVars
  <2>3. CASE WriteMirror(c, answer)
    <3>1. UNCHANGED <<sessionVars, recallVars, integrating>>
      BY <1>6 DEF HandleOnMemoryWrite
    <3>2. CASE UNCHANGED memoryVars /\ StoreFails
      <4>1. failures' \in 0..MaxFailures
        BY <3>2, StoreFailsTyped
      <4> QED BY <3>1, <3>2, <4>1 DEF memoryVars, sessionVars, recallVars
    <3>3. CASE ~(UNCHANGED memoryVars /\ StoreFails)
      <4>1. /\ rows' = rows \cup {c}
            /\ byTarget' = [byTarget EXCEPT ![t] = Append(@, c)]
            /\ retired' \in {retired, retired \cup Superseded(c)}
            /\ edges' \in {edges, edges \cup (Superseded(c) \X {c})}
            /\ UNCHANGED failures \/ StoreFails
        BY <2>3, <3>3 DEF WriteMirror, Stored
      <4>2. Superseded(c) \subseteq rows
        BY <2>1 DEF Superseded
      <4>3. byTarget' \in [Targets -> Seq(Calls)]
        BY <4>1, <2>1
      <4>4. ASSUME NEW u \in Targets, NEW i \in 1..Len(byTarget'[u])
            PROVE  byTarget'[u][i] \in rows'
        BY <4>1, <4>4, <2>1
      <4>5. failures' \in 0..MaxFailures
        BY <4>1, StoreFailsTyped
      <4>6. edges' \subseteq Calls \X Calls /\ retired' \subseteq rows'
        BY <4>1, <4>2
      <4> QED BY <3>1, <4>1, <4>3, <4>4, <4>5, <4>6 DEF sessionVars, recallVars
    <3> QED BY <3>2, <3>3
  <2> QED BY <2>2, <2>3, <1>6 DEF HandleOnMemoryWrite
<1>7. CASE HandleOnDelegation(c, answer)
  <2>1. failures' \in 0..MaxFailures
    BY <1>7, StoreFailsTyped DEF HandleOnDelegation
  <2> QED BY <1>7, <2>1 DEF HandleOnDelegation, Stored, sessionVars, recallVars
<1>8. CASE HandleRead(c, answer)
  BY <1>8 DEF HandleRead, daemonVars, memoryVars, sessionVars, recallVars
<1>9. CASE HandlePrepareEditContext(c, answer)
  <2>1. failures' \in 0..MaxFailures
    BY <1>9, StoreFailsTyped DEF HandlePrepareEditContext
  <2> QED BY <1>9, <2>1 DEF HandlePrepareEditContext, memoryVars, sessionVars, recallVars
<1>10. CASE HandleOnSessionSwitch(c, answer)
  <2>1. call[c].arg \in Sessions
    BY <1>0, <1>10 DEF HandleOnSessionSwitch
  <2>2. sessions' \in [Sessions -> {"unbound", AgentContext}]
    BY <1>0, <1>10, <2>1 DEF HandleOnSessionSwitch, Rebound, NewSessionOf
  <2>3. workingMem' \subseteq Calls /\ since' \subseteq Sessions
    BY <1>10, <2>1 DEF HandleOnSessionSwitch, NewSessionOf
  <2>4. prefetchCache' \in [Sessions -> Recalls]
    BY <1>10 DEF HandleOnSessionSwitch, Recalls
  <2> QED BY <2>2, <2>3, <2>4, <1>10 DEF HandleOnSessionSwitch, memoryVars
<1> QED BY <1>1, <1>2, <1>3, <1>4, <1>5, <1>6, <1>7, <1>8, <1>9, <1>10 DEF Handle

LEMMA DaemonStays ==
    ASSUME TypeInv, UNCHANGED <<daemonVars, pc>>
    PROVE  DaemonTypeOK' /\ Indexed'
BY DEF TypeInv, TypeOK, DaemonTypeOK, Indexed, Made, daemonVars, memoryVars, sessionVars,
       recallVars

LEMMA InitializeTyped == ASSUME TypeInv, Initialize PROVE TypeInv'
<1>1. DaemonTypeOK' /\ Indexed'
  <2>1. CASE HandleInitialize(session)
    BY <2>1 DEF HandleInitialize, Initialize, TypeInv, TypeOK, DaemonTypeOK, Indexed, Made,
                memoryVars, recallVars
  <2>2. CASE UNCHANGED daemonVars
    BY <2>2, DaemonStays DEF Initialize
  <2> QED BY <2>1, <2>2 DEF Initialize
<1>2. TypeOK'
  BY <1>1 DEF Initialize, TypeInv, TypeOK, pipeVars
<1> QED BY <1>1, <1>2 DEF Initialize, TypeInv, MadeTyped, OneInPipe, Quiescent, pipeVars

LEMMA CallTyped ==
    ASSUME TypeInv, NEW c \in Calls, NEW method \in Methods, Call(c, method)
    PROVE  TypeInv'
<1> USE DEF TypeInv, TypeOK, Call
<1>1. PICK arg \in Arguments(method) :
        /\ call' = [call EXCEPT ![c] =
             [method |-> method, session |-> session, arg |-> arg,
              past |-> SwitchCalls \ Waiting]]
        /\ session' = session
  BY DEF SessionMeanwhile
<1>2. [method |-> method, session |-> session, arg |-> arg,
       past |-> SwitchCalls \ Waiting] \in Requests
  BY DEF Requests, Arguments, SwitchCalls, Made
<1>3. call' \in [Calls -> Requests \cup {NoRequest}] /\ call'[c] \in Requests
  BY <1>1, <1>2
<1>4. pc' \in [Calls -> Steps]
  BY DEF Steps
<1>5. DaemonTypeOK' /\ Indexed'
  BY DEF DaemonTypeOK, Indexed, Made, daemonVars, memoryVars, sessionVars, recallVars
<1>6. TypeOK'
  BY <1>1, <1>3, <1>4, <1>5 DEF pipeVars
<1>7. MadeTyped'
  BY <1>1, <1>3, <1>4 DEF MadeTyped
<1>8. OneInPipe'
  <2> HIDE DEF TypeOK, TypeInv
  <2>1. \A i \in 1..Len(written) : written[i] \in Calls \ {c}
    BY WrittenTyped
  <2>2. pc' = [pc EXCEPT ![c] = "called"] /\ pc \in [Calls -> Steps]
    BY DEF TypeInv, TypeOK
  <2>3. \A d \in Calls \ {c} : pc'[d] = pc[d]
    BY <2>2
  <2>4. pc'[c] \notin {"locked", "reading"}
    BY <2>2
  <2>5. written' = written /\ lock' = lock
    BY DEF pipeVars
  <2> HIDE DEF Call
  <2> QED BY <2>1, <2>3, <2>4, <2>5 DEF OneInPipe, TypeInv
<1>9. Quiescent'
  BY DEF Quiescent
<1> QED BY <1>5, <1>6, <1>7, <1>8, <1>9

LEMMA LockTyped == ASSUME TypeInv, NEW c \in Calls, Lock(c) PROVE TypeInv'
<1> USE DEF TypeInv, Lock
<1>1. DaemonTypeOK' /\ Indexed'
  BY DEF TypeOK, DaemonTypeOK, Indexed, Made, daemonVars, memoryVars, sessionVars, recallVars
<1>2. TypeOK'
  BY <1>1 DEF TypeOK, Steps, pipeVars
<1>3. OneInPipe'
  BY ConstantTypes DEF TypeOK, OneInPipe, LockIsFree, pipeVars, Returned
<1> QED BY <1>1, <1>2, <1>3 DEF TypeOK, MadeTyped, Quiescent

LEMMA WriteTyped == ASSUME TypeInv, NEW c \in Calls, Write(c) PROVE TypeInv'
<1> USE DEF TypeInv, Write
<1>1. DaemonTypeOK' /\ Indexed'
  BY DEF TypeOK, DaemonTypeOK, Indexed, Made, daemonVars, memoryVars, sessionVars, recallVars
<1>2. /\ written' \in Seq(Calls) /\ Len(written') = Len(written) + 1
      /\ \A i \in 1..Len(written) : written'[i] = written[i]
      /\ written'[Len(written) + 1] = c
      /\ served' \in 0..Len(written') /\ drained' \in 0..served'
      /\ received' \in 0..drained'
  BY DEF TypeOK
<1>3. TypeOK'
  BY <1>1, <1>2 DEF TypeOK, Steps
<1>4. \A i \in 1..Len(written) : written[i] # c
  BY DEF OneInPipe, Returned
<1>5. OneInPipe'
  <2>1. \A i \in 1..Len(written') : i \in 1..Len(written) \/ i = Len(written) + 1
    BY <1>2 DEF TypeOK
  <2>2. \A i \in 1..Len(written') : pc'[written'[i]] \in {"reading"} \cup Returned
    BY <1>2, <1>4, <2>1 DEF TypeOK, OneInPipe
  <2>3. \A i, j \in 1..Len(written') : written'[i] = written'[j] => i = j
    BY <1>2, <1>4, <2>1 DEF OneInPipe
  <2>4. \A d \in Calls : pc'[d] \in {"locked", "reading"} => lock' = d
    BY DEF TypeOK, OneInPipe
  <2>5. \A d \in Calls : pc'[d] = "reading" => d = c
    BY DEF TypeOK, OneInPipe
  <2>6. Len(written') > 0 /\ written'[Len(written')] = c
    BY <1>2 DEF TypeOK
  <2> QED BY <2>2, <2>3, <2>4, <2>5, <2>6 DEF OneInPipe
<1> QED BY <1>1, <1>3, <1>5 DEF TypeOK, MadeTyped, Quiescent

(* A call that returns, whatever it was waiting for.                       *)
LEMMA ReturnTyped ==
    ASSUME TypeInv, NEW c \in Calls, pc[c] \in {"called", "locked", "reading"},
           NEW how \in Returned, Return(c, how),
           got' \in [Calls -> Nat], drained' \in 0..served, received' \in 0..drained'
    PROVE  TypeInv'
<1> USE DEF TypeInv, Return
<1>1. DaemonTypeOK' /\ Indexed'
  BY DEF TypeOK, DaemonTypeOK, Indexed, Made, daemonVars, memoryVars, sessionVars,
         recallVars, Returned
<1>2. session' \in Sessions
  BY RequestTyped DEF SessionAfter, TypeOK
<1>3. TypeOK'
  BY <1>1, <1>2 DEF TypeOK, Steps, LockAfter
<1>4. OneInPipe'
  <2>1. \A i \in 1..Len(written) : written[i] \in Calls
    BY DEF TypeOK
  <2>2. \A d \in Calls \ {c} : pc'[d] = pc[d]
    BY DEF TypeOK
  <2>3. pc'[c] \in Returned /\ pc'[c] \notin {"locked", "reading"}
    BY DEF TypeOK, Returned
  <2>4. \A i \in 1..Len(written) : pc'[written[i]] \in {"reading"} \cup Returned
    BY <2>1, <2>2, <2>3 DEF OneInPipe
  <2>5. \A d \in Calls : pc'[d] \in {"locked", "reading"} => lock' = d
    BY <2>2, <2>3 DEF OneInPipe, LockAfter
  <2>6. \A d \in Calls : pc'[d] = "reading" =>
          Len(written) > 0 /\ written[Len(written)] = d
    BY <2>2, <2>3 DEF OneInPipe
  <2> QED BY <2>4, <2>5, <2>6 DEF OneInPipe
<1> QED BY <1>1, <1>3, <1>4 DEF TypeOK, MadeTyped, Quiescent

LEMMA StepTyped == ASSUME TypeInv, NEW c \in Calls, Step(c) PROVE TypeInv'
<1>1. ASSUME Receive(c) PROVE TypeInv'
  <2>1. /\ got' \in [Calls -> Nat]
        /\ drained' \in 0..served /\ received' \in 0..drained'
    BY <1>1 DEF Receive, TypeInv, TypeOK
  <2> QED BY <1>1, <2>1, ReturnTyped DEF Receive, Returned
<1>2. ASSUME TimeOut(c) \/ EndOfFile(c) \/ Broken(c) PROVE TypeInv'
  <2>1. /\ got' \in [Calls -> Nat]
        /\ drained' \in 0..served /\ received' \in 0..drained'
    BY <1>2 DEF TimeOut, EndOfFile, Broken, TypeInv, TypeOK
  <2> QED BY <1>2, <2>1, ReturnTyped DEF TimeOut, EndOfFile, Broken, Returned
<1> QED BY <1>1, <1>2, LockTyped, WriteTyped DEF Step

LEMMA ServeTyped == ASSUME TypeInv, Serve PROVE TypeInv'
<1> DEFINE c == written[served + 1]
<1> USE DEF TypeInv, Serve
<1>1. /\ served + 1 \in 1..Len(written) /\ c \in Calls /\ pc[c] # "idle"
      /\ served' \in 0..Len(written') /\ drained' \in 0..served'
  <2>1. served + 1 \in 1..Len(written)
    BY DEF TypeOK
  <2>2. c \in Calls /\ pc[c] # "idle"
    BY <2>1, WrittenTyped
  <2>3. served' \in 0..Len(written') /\ drained' \in 0..served'
    BY DEF TypeOK, threadVars
  <2> QED BY <2>1, <2>2, <2>3
<1>2. PICK answer \in Answers :
        Handle(c, answer) /\ reply' = [reply EXCEPT ![c] = answer]
  OBVIOUS
<1> HIDE DEF c
<1>3. /\ DaemonTypeOK'
      /\ warming' \subseteq warming \cup {c}
      /\ \A t \in Targets : \A i \in 1..Len(byTarget'[t]) : byTarget'[t][i] \in rows'
  BY <1>1, <1>2, HandleTyped
<1>4. Indexed'
  BY <1>1, <1>3 DEF Indexed, Made, threadVars
<1>5. TypeOK'
  BY <1>1, <1>2, <1>3 DEF TypeOK, threadVars
<1> QED BY <1>4, <1>5 DEF MadeTyped, OneInPipe, Quiescent, threadVars

LEMMA BackgroundTyped == ASSUME TypeInv, Background PROVE TypeInv'
<1> USE DEF TypeInv, Background, TypeOK, Indexed
<1>1. PICK c \in Calls : WarmPrefetch(c) \/ IntegrationEnds(c)
  OBVIOUS
<1>2. DaemonTypeOK' /\ Indexed'
  <2>1. ASSUME WarmPrefetch(c) PROVE DaemonTypeOK' /\ Indexed'
    <3>1. SessionOf(c) \in Sessions
      BY <2>1, RequestTyped DEF WarmPrefetch, Made
    <3> QED BY <2>1, <3>1 DEF WarmPrefetch, DaemonTypeOK, Recalls, sessionVars, memoryVars,
                              Made, threadVars
  <2>2. ASSUME IntegrationEnds(c) PROVE DaemonTypeOK' /\ Indexed'
    BY <2>2 DEF IntegrationEnds, DaemonTypeOK, sessionVars, memoryVars, recallVars,
                Made, threadVars
  <2> QED BY <1>1, <2>1, <2>2
<1> QED BY <1>2 DEF MadeTyped, OneInPipe, Quiescent, threadVars, pipeVars

LEMMA NextTyped == ASSUME TypeInv, [Next]_vars PROVE TypeInv'
<1>1. ASSUME UNCHANGED vars PROVE TypeInv'
  BY <1>1 DEF TypeInv, TypeOK, DaemonTypeOK, Indexed, MadeTyped, OneInPipe, Quiescent, Made,
              vars, daemonVars, memoryVars, sessionVars, recallVars, pipeVars, threadVars
<1>2. ASSUME Shutdown \/ DaemonDies PROVE TypeInv'
  <2>1. DaemonTypeOK' /\ Indexed'
    BY <1>2, DaemonStays DEF Shutdown, DaemonDies, threadVars
  <2> QED BY <1>2, <2>1 DEF Shutdown, DaemonDies, TypeInv, TypeOK, MadeTyped, OneInPipe,
                            Quiescent, threadVars, pipeVars
<1> QED BY <1>1, <1>2, InitializeTyped, CallTyped, StepTyped, ServeTyped, BackgroundTyped
        DEF Next, Quiet

(* Every variable keeps its type.                                          *)
THEOREM TypeCorrect == Spec => []TypeOK
<1>1. TypeInv => TypeOK
  BY DEF TypeInv
<1> QED BY <1>1, InitTyped, NextTyped, PTL DEF Spec

-----------------------------------------------------------------------------
(* How far behind the answers are.                                         *)

Lag == Cardinality(In("timed_out"))

(* Every request was answered to some call, or its call timed out, or its  *)
(* call waits, or the daemon died first: then nothing is written again.    *)
LagInv ==
    /\ IsFiniteSet(In("timed_out"))
    /\ In("reading") # {} => received + 1 + Lag = Len(written)
    /\ In("reading") = {} /\ In("closed") = {} => received + Lag = Len(written)
    /\ In("closed") # {} => daemon = "dead" /\ In("reading") = {}

LEMMA OneReads ==
    ASSUME TypeInv, NEW c \in Calls, pc[c] \in {"locked", "reading"}
    PROVE  In("reading") \subseteq {c}
BY DEF TypeInv, OneInPipe, In

(* A move that neither starts nor ends a wait.                             *)
LEMMA LagStays ==
    ASSUME LagInv, UNCHANGED <<received, written>>,
           daemon' = daemon \/ daemon' = "dead",
           In("timed_out")' = In("timed_out"), In("reading")' = In("reading"),
           In("closed")' = In("closed")
    PROVE  LagInv'
BY DEF LagInv, Lag

LEMMA LagKept == ASSUME TypeInv, LagInv, [Next]_vars PROVE LagInv'
<1>1. pc \in [Calls -> Steps] /\ received \in Nat /\ Len(written) \in Nat
  BY DEF TypeInv, TypeOK
<1>2. Lag \in Nat
  BY FS_CardinalityType DEF LagInv, Lag
<1>3. ASSUME UNCHANGED <<pc, received, written>>, daemon' = daemon \/ daemon' = "dead"
      PROVE  LagInv'
  BY <1>3, LagStays DEF In
<1>4. ASSUME NEW c \in Calls, NEW from, NEW how, pc[c] = from, pc' = [pc EXCEPT ![c] = how],
             from \notin {"timed_out", "reading", "closed"},
             how \notin {"timed_out", "reading", "closed"},
             UNCHANGED <<received, written, daemon>>
      PROVE  LagInv'
  <2>1. \A step \in {"timed_out", "reading", "closed"} : In(step)' = In(step)
    BY <1>1, <1>4 DEF In
  <2> QED BY <2>1, <1>4, LagStays
<1>5. ASSUME NEW c \in Calls, Write(c) PROVE LagInv'
  <2>1. In("reading") = {} /\ In("closed") = {}
    BY <1>5, OneReads DEF Write, In, LagInv
  <2>2. In("timed_out")' = In("timed_out") /\ In("closed")' = {} /\ In("reading")' # {}
    BY <1>1, <1>5, <2>1 DEF Write, In
  <2>3. Len(written') = Len(written) + 1 /\ received' = received
    BY <1>5 DEF Write, TypeInv, TypeOK
  <2> QED BY <1>1, <1>2, <2>1, <2>2, <2>3 DEF LagInv, Lag
<1>6. ASSUME NEW c \in Calls, pc[c] = "reading", NEW how,
             pc' = [pc EXCEPT ![c] = how], how # "reading"
      PROVE  /\ In("reading") # {} /\ In("reading")' = {} /\ In("closed") = {}
             /\ In("timed_out")' =
                  IF how = "timed_out" THEN In("timed_out") \cup {c} ELSE In("timed_out")
             /\ how # "closed" => In("closed")' = {}
  BY <1>1, <1>6, OneReads DEF In, LagInv
<1>7. ASSUME NEW c \in Calls, Receive(c) PROVE LagInv'
  <2>1. /\ In("reading") # {} /\ In("reading")' = {} /\ In("closed")' = {}
        /\ In("timed_out")' = In("timed_out")
    <3>1. pc[c] = "reading" /\ pc' = [pc EXCEPT ![c] = "answered"]
      BY <1>7 DEF Receive, Return
    <3>2. "answered" \notin {"reading", "timed_out", "closed"}
      OBVIOUS
    <3> QED BY <3>1, <3>2, <1>6, Zenon
  <2>2. received' = received + 1 /\ written' = written
    BY <1>7 DEF Receive, Return
  <2> QED BY <1>1, <1>2, <2>1, <2>2 DEF LagInv, Lag
<1>8. ASSUME NEW c \in Calls, TimeOut(c) PROVE LagInv'
  <2>1. /\ In("reading") # {} /\ In("reading")' = {} /\ In("closed")' = {}
        /\ In("timed_out")' = In("timed_out") \cup {c}
    BY <1>6, <1>8 DEF TimeOut, Return
  <2>2. received' = received /\ written' = written
    BY <1>8 DEF TimeOut, Return
  <2>3. c \notin In("timed_out")
    BY <1>8 DEF TimeOut, In
  <2>4. IsFiniteSet(In("timed_out")') /\ Lag' = Lag + 1
    BY <2>1, <2>3, FS_AddElement DEF LagInv, Lag
  <2> QED BY <1>1, <1>2, <2>1, <2>2, <2>4 DEF LagInv
<1>9. ASSUME NEW c \in Calls, EndOfFile(c) PROVE LagInv'
  <2>1. /\ In("reading") # {} /\ In("reading")' = {} /\ In("closed")' # {}
        /\ In("timed_out")' = In("timed_out")
    <3>1. c \in In("closed")'
      BY <1>1, <1>9 DEF EndOfFile, Return, In
    <3> QED BY <3>1, <1>6, <1>9 DEF EndOfFile, Return
  <2>2. daemon' = "dead"
    BY <1>9 DEF EndOfFile, Return
  <2> QED BY <2>1, <2>2 DEF LagInv
<1>10. ASSUME NEW c \in Calls, Broken(c) PROVE LagInv'
  BY <1>4, <1>10 DEF Broken, Return
<1>11. ASSUME NEW c \in Calls, Lock(c) PROVE LagInv'
  BY <1>4, <1>11 DEF Lock, pipeVars
<1>12. ASSUME NEW c \in Calls, NEW method \in Methods, Call(c, method) PROVE LagInv'
  BY <1>4, <1>12 DEF Call, pipeVars
<1>13. ASSUME Initialize \/ Serve \/ Background \/ Shutdown \/ DaemonDies \/ Quiet
              \/ UNCHANGED vars
       PROVE  LagInv'
  BY <1>3, <1>13 DEF Initialize, Serve, Background, Shutdown, DaemonDies, Quiet, vars,
                    pipeVars, threadVars
<1> QED BY <1>5, <1>7, <1>8, <1>9, <1>10, <1>11, <1>12, <1>13 DEF Next, Step

LEMMA InitLag == Init => LagInv
<1> SUFFICES ASSUME Init PROVE LagInv
  OBVIOUS
<1>1. \A step \in {"timed_out", "reading", "closed"} : In(step) = {}
  BY DEF Init, In
<1>2. IsFiniteSet(In("timed_out")) /\ Lag = 0
  BY <1>1, FS_EmptySet DEF Lag
<1>3. received = 0 /\ Len(written) = 0
  BY DEF Init
<1> QED BY <1>1, <1>2, <1>3 DEF LagInv

(* From the first call that times out, every call is given the answer of a *)
(* request as many places before its own as calls have timed out.          *)
THEOREM LagByTimeouts == Spec => []AnswersLagByTimeouts
<1>1. ASSUME TypeInv, LagInv PROVE AnswersLagByTimeouts
  <2> SUFFICES ASSUME NEW c \in In("reading")
               PROVE  written[Len(written)] = c /\ received + 1 = Len(written) - Lag
    BY DEF AnswersLagByTimeouts, Lag
  <2>1. written[Len(written)] = c
    BY <1>1 DEF TypeInv, OneInPipe, In
  <2>2. received \in Nat /\ Len(written) \in Nat /\ Lag \in Nat
    BY <1>1, FS_CardinalityType DEF TypeInv, TypeOK, LagInv, Lag
  <2>3. received + 1 + Lag = Len(written)
    BY <1>1 DEF LagInv
  <2> QED BY <2>1, <2>2, <2>3
<1> QED BY <1>1, InitTyped, NextTyped, InitLag, LagKept, PTL DEF Spec

-----------------------------------------------------------------------------
(* What the working memory holds.                                          *)

Bound == {s \in Sessions : sessions[s] # "unbound"}

(* One session is bound at a time, so a reset leaves none of those of the  *)
(* old conversation behind, whose late turns would be taken in again.      *)
BufferInv ==
    /\ Bound \subseteq since
    /\ \A s, u \in Bound : s = u
    /\ workingMem \subseteq Made
    /\ FreshWorkingMemory
    /\ plugin = "new" => Bound = {} /\ workingMem = {}

LEMMA BufferStays ==
    ASSUME TypeInv, BufferInv, UNCHANGED sessionVars,
           \A c \in Made : c \in Made' /\ call'[c] = call[c],
           plugin' = plugin \/ plugin' # "new"
    PROVE  BufferInv'
<1>1. UNCHANGED <<sessions, workingMem, since>>
  BY DEF sessionVars
<1>2. \A c \in workingMem : c \in Made /\ SessionOf(c)' = SessionOf(c)
  BY DEF BufferInv, SessionOf
<1>3. Bound' = Bound
  BY <1>1 DEF Bound
<1> QED BY <1>1, <1>2, <1>3 DEF BufferInv, FreshWorkingMemory

LEMMA HandleBuffer ==
    ASSUME TypeInv, BufferInv, NEW c \in Made, NEW answer \in Answers,
           Handle(c, answer), UNCHANGED <<call, pc>>, plugin # "new", plugin' = plugin
    PROVE  BufferInv'
<1>1. CASE UNCHANGED sessionVars
  BY <1>1, BufferStays DEF Made
<1>2. CASE HandleSyncTurn(c, answer)
  <2>1. UNCHANGED <<sessions, since>> /\ workingMem' \subseteq workingMem \cup {c}
    BY <1>2 DEF HandleSyncTurn
  <2>2. SessionOf(c) \in since
    BY <1>2, RequestTyped DEF HandleSyncTurn, Known, BufferInv, Bound, TypeInv, Made
  <2>3. \A d \in Calls : SessionOf(d)' = SessionOf(d)
    BY DEF SessionOf
  <2>4. Bound' = Bound /\ Made' = Made
    BY <2>1 DEF Bound, Made
  <2> QED BY <2>1, <2>2, <2>3, <2>4 DEF BufferInv, FreshWorkingMemory, Made
<1>3. CASE HandleOnSessionSwitch(c, answer)
  <2>1. /\ NewSessionOf(c) \in Sessions /\ SessionOf(c) \in Bound
        /\ sessions \in [Sessions -> {"unbound", AgentContext}]
    BY <1>3, RequestTyped DEF HandleOnSessionSwitch, Known, NewSessionOf, Bound, TypeInv,
                              TypeOK, DaemonTypeOK, Made
  <2>2. sessions' = [sessions EXCEPT ![SessionOf(c)] = "unbound",
                                     ![NewSessionOf(c)] = sessions[SessionOf(c)]]
    BY <1>3 DEF HandleOnSessionSwitch, Rebound
  <2>3. Bound' \subseteq {NewSessionOf(c)}
    BY <2>1, <2>2 DEF Bound, BufferInv
  <2>4. \/ workingMem' = {} /\ since' = {NewSessionOf(c)}
        \/ workingMem' = workingMem /\ since' = since \cup {NewSessionOf(c)}
    BY <1>3 DEF HandleOnSessionSwitch
  <2>5. Made' = Made /\ \A d \in Calls : SessionOf(d)' = SessionOf(d)
    BY DEF Made, SessionOf
  <2> QED BY <2>3, <2>4, <2>5 DEF BufferInv, FreshWorkingMemory, Made
<1> QED BY <1>1, <1>2, <1>3
        DEF Handle, RefuseUnknown, HandleQueuePrefetch, HandlePrefetch, HandleOnSessionEnd,
            HandleOnMemoryWrite, HandleOnDelegation, HandleRead, HandlePrepareEditContext,
            daemonVars

LEMMA BufferKept == ASSUME TypeInv, BufferInv, [Next]_vars PROVE BufferInv'
<1>1. ASSUME Initialize PROVE BufferInv'
  <2>1. CASE UNCHANGED daemonVars
    BY <1>1, <2>1, BufferStays DEF Initialize, daemonVars, Made
  <2>2. CASE HandleInitialize(session)
    <3>1. workingMem' = {} /\ since' = {session} /\ plugin' # "new"
      BY <1>1, <2>2 DEF Initialize, HandleInitialize, BufferInv
    <3>2. Bound' \subseteq {session}
      BY <1>1, <2>2 DEF Initialize, HandleInitialize, BufferInv, Bound, TypeInv, TypeOK,
                        DaemonTypeOK
    <3> QED BY <3>1, <3>2 DEF BufferInv, FreshWorkingMemory
  <2> QED BY <1>1, <2>1, <2>2 DEF Initialize
<1>2. ASSUME NEW c \in Calls, NEW method \in Methods, Call(c, method) PROVE BufferInv'
  <2>1. \A d \in Made : d # c
    BY <1>2 DEF Call, Made
  <2>2. \A d \in Made : d \in Made' /\ call'[d] = call[d]
    BY <1>2, <2>1 DEF Call, Made, TypeInv, TypeOK
  <2> QED BY <1>2, <2>2, BufferStays DEF Call, daemonVars
<1>3. ASSUME NEW c \in Calls, Step(c) PROVE BufferInv'
  <2>1. UNCHANGED <<call, plugin, daemonVars>>
    BY <1>3 DEF Step, Lock, Write, Receive, TimeOut, EndOfFile, Broken, Return
  <2>2. Made \subseteq Made'
    BY <1>3 DEF Step, Lock, Write, Receive, TimeOut, EndOfFile, Broken, Return, Made,
                TypeInv, TypeOK
  <2> QED BY <2>1, <2>2, BufferStays DEF daemonVars
<1>4. ASSUME Serve PROVE BufferInv'
  <2> DEFINE c == written[served + 1]
  <2>1. served + 1 \in 1..Len(written)
    BY <1>4 DEF Serve, TypeInv, TypeOK
  <2>2. c \in Made
    BY <2>1, WrittenTyped DEF Made
  <2>3. plugin # "new"
    BY <2>2 DEF TypeInv, Quiescent, Made
  <2>4. PICK answer \in Answers : Handle(c, answer)
    BY <1>4 DEF Serve
  <2>5. UNCHANGED <<call, pc, plugin>>
    BY <1>4 DEF Serve, threadVars
  <2> HIDE DEF c
  <2> QED BY <2>2, <2>3, <2>4, <2>5, HandleBuffer
<1>5. ASSUME UNCHANGED <<sessionVars, call, pc>>, plugin' = plugin \/ plugin' # "new"
      PROVE  BufferInv'
  BY <1>5, BufferStays DEF Made
<1>6. ASSUME Background \/ Shutdown \/ DaemonDies \/ Quiet \/ UNCHANGED vars
      PROVE  BufferInv'
  BY <1>5, <1>6 DEF Background, WarmPrefetch, IntegrationEnds, Shutdown, DaemonDies, Quiet,
                    vars, daemonVars, threadVars
<1> QED BY <1>1, <1>2, <1>3, <1>4, <1>6 DEF Next

LEMMA InitBuffer == Init => BufferInv
BY DEF Init, DaemonInit, BufferInv, FreshWorkingMemory, Bound

(* The working memory holds turns of the sessions bound since it was last  *)
(* cleared: a turn of the old conversation that comes late is refused.     *)
THEOREM FreshBuffer == Spec => []FreshWorkingMemory
<1>1. BufferInv => FreshWorkingMemory
  BY DEF BufferInv
<1> QED BY <1>1, InitTyped, NextTyped, InitBuffer, BufferKept, PTL DEF Spec
-----------------------------------------------------------------------------
(* The requests the loop has handled.                                      *)

Handled == {written[i] : i \in 1..served}

LEMMA HandledMade == ASSUME TypeInv PROVE Handled \subseteq Made
<1>1. \A i \in 1..served : i \in 1..Len(written)
  BY DEF TypeInv, TypeOK
<1> QED BY <1>1, WrittenTyped DEF Handled, Made

(* The loop turns to a request it has not handled, of a call that waits or *)
(* has given up.                                                           *)
LEMMA NextHandled ==
    ASSUME TypeInv, Serve
    PROVE  \E c \in Made \ Handled : \E answer \in Answers :
             /\ c = written[served + 1]
             /\ Handle(c, answer)
             /\ reply' = [reply EXCEPT ![c] = answer]
             /\ Handled' = Handled \cup {c}
             /\ UNCHANGED <<call, pc, written, session, plugin, daemon>>
             /\ served' = served + 1
<1> DEFINE c == written[served + 1]
<1>1. served + 1 \in 1..Len(written) /\ served \in Nat /\ Len(written) \in Nat
  BY DEF Serve, TypeInv, TypeOK
<1>2. c \in Made
  BY <1>1, WrittenTyped DEF Made
<1>3. c \notin Handled
  <2> SUFFICES ASSUME NEW i \in 1..served, written[i] = c PROVE FALSE
    BY DEF Handled
  <2>1. i \in 1..Len(written) /\ i # served + 1
    BY <1>1
  <2> QED BY <1>1, <2>1 DEF TypeInv, OneInPipe
<1>4. Handled' = Handled \cup {c}
  <2>1. \A i \in 1..served + 1 : i \in 1..served \/ i = served + 1
    BY <1>1
  <2>2. 1..served \subseteq 1..served + 1 /\ served + 1 \in 1..served + 1
    BY <1>1
  <2>3. served' = served + 1 /\ written' = written
    BY DEF Serve
  <2> QED BY <2>1, <2>2, <2>3 DEF Handled
<1>5. PICK answer \in Answers : Handle(c, answer) /\ reply' = [reply EXCEPT ![c] = answer]
  BY DEF Serve
<1>6. UNCHANGED <<call, pc, written, session, plugin, daemon>> /\ served' = served + 1
  BY DEF Serve, threadVars
<1> HIDE DEF c
<1> QED BY <1>2, <1>3, <1>4, <1>5, <1>6 DEF c

(* A request stays as it was made, and handled.                            *)
LEMMA RequestsStay ==
    ASSUME TypeInv, [Next]_vars
    PROVE  /\ \A c \in Made : c \in Made' /\ call'[c] = call[c]
           /\ Handled \subseteq Handled'
<1>1. \A i \in 1..served : i \in 1..Len(written)
  BY DEF TypeInv, TypeOK
<1>2. ASSUME UNCHANGED <<call, pc, written, served>>
      PROVE  (\A c \in Made : c \in Made' /\ call'[c] = call[c]) /\ Handled' = Handled
  BY <1>2 DEF Made, Handled
<1>3. ASSUME NEW c \in Calls, NEW method \in Methods, Call(c, method)
      PROVE  (\A d \in Made : d \in Made' /\ call'[d] = call[d]) /\ Handled' = Handled
  <2>1. \A d \in Made : d # c
    BY <1>3 DEF Call, Made
  <2>2. \A d \in Made : pc'[d] = pc[d] /\ call'[d] = call[d]
    BY <1>3, <2>1 DEF Call, Made, TypeInv, TypeOK
  <2>3. UNCHANGED <<written, served>>
    BY <1>3 DEF Call, pipeVars
  <2> QED BY <2>2, <2>3 DEF Made, Handled
<1>4. ASSUME NEW c \in Calls, Write(c)
      PROVE  (\A d \in Made : d \in Made' /\ call'[d] = call[d]) /\ Handled' = Handled
  <2>1. \A i \in 1..served : written'[i] = written[i]
    BY <1>1, <1>4 DEF Write, TypeInv, TypeOK
  <2>2. Handled' = Handled
    BY <1>4, <2>1 DEF Write, Handled
  <2> QED BY <1>4, <2>2 DEF Write, Made, TypeInv, TypeOK
<1>5. ASSUME NEW c \in Calls, Lock(c) \/ Receive(c) \/ TimeOut(c) \/ EndOfFile(c) \/ Broken(c)
      PROVE  (\A d \in Made : d \in Made' /\ call'[d] = call[d]) /\ Handled' = Handled
  BY <1>5 DEF Lock, Receive, TimeOut, EndOfFile, Broken, Return, Made, Handled, pipeVars,
              TypeInv, TypeOK
<1>6. ASSUME Serve
      PROVE  (\A d \in Made : d \in Made' /\ call'[d] = call[d]) /\ Handled \subseteq Handled'
  BY <1>6, NextHandled DEF Made
<1>7. ASSUME Initialize \/ Background \/ Shutdown \/ DaemonDies \/ Quiet \/ UNCHANGED vars
      PROVE  UNCHANGED <<call, pc, written, served>>
  BY <1>7 DEF Initialize, Background, Shutdown, DaemonDies, Quiet, vars, pipeVars, threadVars
<1> QED BY <1>2, <1>3, <1>4, <1>5, <1>6, <1>7 DEF Next, Step

-----------------------------------------------------------------------------
(* Whose recall a call is given.  A recall is in one place at most: with   *)
(* the goroutine that makes it, in the cache of its session, or in the     *)
(* one answer that handed it out; and it is made once, when its request is *)
(* handled.                                                                *)

Caches(s, r) == prefetchCache[s] = r
Gives(c, r) == reply[c].recall = r

RecallInv ==
    /\ \A r \in warming : r \in Handled
    /\ \A r \in warming : \A s \in Sessions : ~Caches(s, r)
    /\ \A r \in warming : \A c \in Calls : ~Gives(c, r)
    /\ \A r \in Calls, s \in Sessions : Caches(s, r) =>
         r \in Handled /\ SessionOf(r) = s /\ \A c \in Calls : ~Gives(c, r)
    /\ \A r, c \in Calls : Gives(c, r) =>
         r \in Handled /\ c \in Handled /\ SessionOf(r) = SessionOf(c)
    /\ \A r, c, d \in Calls : Gives(c, r) /\ Gives(d, r) => c = d

LEMMA InitRecall == Init => RecallInv
<1> SUFFICES ASSUME Init PROVE RecallInv
  OBVIOUS
<1>1. /\ \A c \in Calls : reply[c].recall = None
      /\ \A s \in Sessions : prefetchCache[s] = None
      /\ warming = {}
      /\ None \notin Calls
  BY ConstantTypes DEF Init, DaemonInit, Answer
<1> QED BY <1>1 DEF RecallInv, Caches, Gives

LEMMA ReplyTyped == ASSUME TypeInv, NEW c \in Calls PROVE reply[c].recall \in Recalls
<1>1. \A a \in Answers \cup {Answer("none")} : a.recall \in Recalls
  BY DEF Answers, Answer, Recalls
<1> QED BY <1>1 DEF TypeInv, TypeOK

LEMMA RecallStays ==
    ASSUME TypeInv, RecallInv, UNCHANGED <<recallVars, reply>>,
           \A c \in Made : c \in Made' /\ call'[c] = call[c],
           Handled \subseteq Handled'
    PROVE  RecallInv'
<1>1. UNCHANGED <<prefetchCache, warming, reply>>
  BY DEF recallVars
<1>2. \A r \in Handled : SessionOf(r)' = SessionOf(r)
  BY HandledMade DEF SessionOf
<1>3. warming \subseteq Calls
  BY DEF TypeInv, TypeOK, DaemonTypeOK
<1> QED BY <1>1, <1>2, <1>3 DEF RecallInv, Caches, Gives

(* What the handlers of the recalls do to a cache that keeps to this.      *)
LEMMA HandleRecall ==
    ASSUME TypeInv, RecallInv, NEW c \in Made \ Handled, NEW answer \in Answers,
           Handle(c, answer), reply' = [reply EXCEPT ![c] = answer],
           Handled' = Handled \cup {c}, UNCHANGED <<call, pc>>
    PROVE  RecallInv'
<1>1. /\ c \in Calls /\ c \notin Handled /\ SessionOf(c) \in Sessions /\ None \notin Calls
      /\ prefetchCache \in [Sessions -> Recalls] /\ warming \subseteq Calls
      /\ \A d \in Calls : reply'[d] = IF d = c THEN answer ELSE reply[d]
  BY RequestTyped, ConstantTypes DEF Made, TypeInv, TypeOK, DaemonTypeOK
<1>2. /\ c \notin warming
      /\ \A s \in Sessions : ~Caches(s, c)
      /\ \A d \in Calls : ~Gives(d, c) /\ ~Gives(c, d)
  BY <1>1 DEF RecallInv
<1>3. \A d \in Calls : SessionOf(d)' = SessionOf(d)
  BY DEF SessionOf
<1>4. answer.recall \in Recalls
  BY DEF Answers
<1>5. CASE answer.recall = None
  <2>1. \A r, d \in Calls : Gives(d, r)' => Gives(d, r)
    BY <1>1, <1>5 DEF Gives
  <2>2. /\ \A s \in Sessions : prefetchCache'[s] \in {prefetchCache[s], None}
        /\ warming' \subseteq warming \cup {c}
    <3>1. CASE UNCHANGED recallVars
      BY <3>1 DEF recallVars
    <3>2. CASE HandleQueuePrefetch(c, answer)
      BY <3>2 DEF HandleQueuePrefetch
    <3>3. CASE HandlePrefetch(c, answer)
      BY <1>1, <3>3 DEF HandlePrefetch, Taken
    <3>4. CASE HandleOnSessionSwitch(c, answer)
      BY <1>1, <3>4 DEF HandleOnSessionSwitch
    <3> QED BY <3>1, <3>2, <3>3, <3>4
            DEF Handle, RefuseUnknown, HandleSyncTurn, HandleOnSessionEnd,
                HandleOnMemoryWrite, HandleOnDelegation, HandleRead,
                HandlePrepareEditContext, daemonVars
  <2>3. \A r \in Calls, s \in Sessions : Caches(s, r)' => Caches(s, r)
    BY <1>1, <2>2 DEF Caches
  <2>4. /\ \A r \in warming' : r \in Handled'
        /\ \A r \in warming' : \A s \in Sessions : ~Caches(s, r)'
        /\ \A r \in warming' : \A d \in Calls : ~Gives(d, r)'
    BY <1>1, <1>2, <2>1, <2>2, <2>3 DEF RecallInv
  <2>5. \A r \in Calls, s \in Sessions : Caches(s, r)' =>
          r \in Handled' /\ SessionOf(r)' = s /\ \A d \in Calls : ~Gives(d, r)'
    BY <1>3, <2>1, <2>3 DEF RecallInv
  <2>6. \A r, d \in Calls : Gives(d, r)' =>
          r \in Handled' /\ d \in Handled' /\ SessionOf(r)' = SessionOf(d)'
    BY <1>3, <2>1 DEF RecallInv
  <2>7. \A r, d, e \in Calls : Gives(d, r)' /\ Gives(e, r)' => d = e
    BY <2>1 DEF RecallInv
  <2> QED BY <2>4, <2>5, <2>6, <2>7 DEF RecallInv
<1>6. CASE answer.recall # None
  <2>1. HandlePrefetch(c, answer)
    <3>1. \A kind : answer # Answer(kind)
      BY <1>6 DEF Answer
    <3>2. answer # Ok
      BY <3>1 DEF Ok
    <3>3. ~HandleOnMemoryWrite(c, answer)
      BY <3>1, <3>2 DEF HandleOnMemoryWrite, RemoveMirror, WriteMirror
    <3>4. ~HandleSyncTurn(c, answer) /\ ~HandleOnDelegation(c, answer)
      BY <3>1, <3>2 DEF HandleSyncTurn, HandleOnDelegation
    <3>5. ~HandlePrepareEditContext(c, answer) /\ ~HandleOnSessionSwitch(c, answer)
      BY <3>1, <3>2 DEF HandlePrepareEditContext, HandleOnSessionSwitch
    <3> QED BY <3>1, <3>2, <3>3, <3>4, <3>5
            DEF Handle, RefuseUnknown, HandleQueuePrefetch, HandleOnSessionEnd, HandleRead
  <2> DEFINE q == answer.recall
             u == SessionOf(c)
  <2>2. /\ prefetchCache' = [prefetchCache EXCEPT ![u] = None]
        /\ warming' = warming
        /\ Caches(u, q) \/ q = c
    BY <1>6, <2>1 DEF HandlePrefetch, Taken, Recall, Ok, Answer, Caches
  <2>3. \A r, d \in Calls : Gives(d, r)' => Gives(d, r) \/ (d = c /\ r = q)
    BY <1>1 DEF Gives
  <2>4. \A r \in Calls, s \in Sessions : Caches(s, r)' => Caches(s, r) /\ s # u
    BY <1>1, <2>2 DEF Caches
  <2>5. /\ q \in Calls /\ u \in Sessions
    BY <1>1, <1>4, <1>6 DEF Recalls
  <2> HIDE DEF q, u
  <2>6. SessionOf(q) = u /\ q \in Handled \cup {c} /\ q \notin warming
        /\ \A d \in Calls : ~Gives(d, q)
    BY <1>1, <1>2, <2>2, <2>5 DEF RecallInv, u
  <2>7. SessionOf(c) = u
    BY DEF u
  <2>8. \A s \in Sessions : ~Caches(s, q)'
    BY <1>2, <2>2, <2>4, <2>5, <2>6 DEF RecallInv
  <2>9. /\ \A r \in warming' : r \in Handled'
        /\ \A r \in warming' : \A s \in Sessions : ~Caches(s, r)'
        /\ \A r \in warming' : \A d \in Calls : ~Gives(d, r)'
    BY <1>1, <2>2, <2>3, <2>4, <2>6 DEF RecallInv
  <2>10. \A r \in Calls, s \in Sessions : Caches(s, r)' =>
           r \in Handled' /\ SessionOf(r)' = s /\ \A d \in Calls : ~Gives(d, r)'
    BY <1>3, <2>3, <2>4, <2>8 DEF RecallInv
  <2>11. \A r, d \in Calls : Gives(d, r)' =>
           r \in Handled' /\ d \in Handled' /\ SessionOf(r)' = SessionOf(d)'
    BY <1>3, <2>3, <2>6, <2>7 DEF RecallInv
  <2>12. \A r, d, e \in Calls : Gives(d, r)' /\ Gives(e, r)' => d = e
    BY <2>3, <2>6 DEF RecallInv
  <2> QED BY <2>9, <2>10, <2>11, <2>12 DEF RecallInv
<1> QED BY <1>5, <1>6

(* A recall that is ready goes to the cache of its session.                *)
LEMMA WarmRecall ==
    ASSUME TypeInv, RecallInv, NEW c \in Calls, WarmPrefetch(c),
           UNCHANGED <<call, pc, reply, written, served>>
    PROVE  RecallInv'
<1>1. /\ SessionOf(c) \in Sessions /\ c \in warming
      /\ prefetchCache \in [Sessions -> Recalls] /\ warming \subseteq Calls
  BY RequestTyped DEF WarmPrefetch, Made, TypeInv, TypeOK, DaemonTypeOK, Indexed
<1>2. /\ warming' = warming \ {c}
      /\ \A r \in Calls, s \in Sessions :
            Caches(s, r)' => Caches(s, r) \/ (s = SessionOf(c) /\ r = c)
  BY <1>1 DEF WarmPrefetch, Caches
<1>3. \A r, d \in Calls : (Gives(d, r)' <=> Gives(d, r)) /\ SessionOf(r)' = SessionOf(r)
  BY DEF Gives, SessionOf
<1>4. Handled' = Handled
  BY DEF Handled
<1> QED BY <1>1, <1>2, <1>3, <1>4 DEF RecallInv

LEMMA RecallKept == ASSUME TypeInv, RecallInv, [Next]_vars PROVE RecallInv'
<1>1. /\ \A c \in Made : c \in Made' /\ call'[c] = call[c]
      /\ Handled \subseteq Handled'
  BY RequestsStay
<1>2. ASSUME Serve PROVE RecallInv'
  BY <1>2, NextHandled, HandleRecall
<1>3. ASSUME Background PROVE RecallInv'
  <2>1. PICK c \in Calls : WarmPrefetch(c) \/ IntegrationEnds(c)
    BY <1>3 DEF Background
  <2>2. CASE WarmPrefetch(c)
    BY <1>3, <2>2, WarmRecall DEF Background, threadVars, pipeVars
  <2>3. CASE IntegrationEnds(c)
    BY <1>1, <1>3, <2>3, RecallStays DEF Background, IntegrationEnds
  <2> QED BY <2>1, <2>2, <2>3
<1>4. CASE UNCHANGED <<recallVars, reply>>
  BY <1>1, <1>4, RecallStays
<1> QED BY <1>2, <1>3, <1>4
        DEF Next, Step, Initialize, HandleInitialize, Call, Lock, Write, Receive, TimeOut,
            EndOfFile, Broken, Return, Shutdown, DaemonDies, Quiet, vars, daemonVars

(* What a call is given was retrieved for its session, and for it alone:   *)
(* it has left the cache, and no other call is given it.                   *)
THEOREM OwnRecall == Spec => []RecallIsOwn
<1>1. ASSUME TypeInv, RecallInv PROVE RecallIsOwn
  <2> SUFFICES ASSUME NEW c \in Calls, reply[c].recall # None
               PROVE  /\ SessionOf(reply[c].recall) = SessionOf(c)
                      /\ \A s \in Sessions : prefetchCache[s] # reply[c].recall
                      /\ \A d \in Calls \ {c} : reply[d].recall # reply[c].recall
    BY DEF RecallIsOwn
  <2>1. PICK r \in Calls : reply[c].recall = r
    BY <1>1, ReplyTyped DEF Recalls
  <2>2. Gives(c, r)
    BY <2>1 DEF Gives
  <2>3. /\ SessionOf(r) = SessionOf(c)
        /\ \A s \in Sessions : ~Caches(s, r)
        /\ \A d \in Calls \ {c} : ~Gives(d, r)
    BY <1>1, <2>2 DEF RecallInv
  <2> QED BY <2>1, <2>3 DEF Caches, Gives
<1> QED BY <1>1, InitTyped, NextTyped, InitRecall, RecallKept, PTL DEF Spec

-----------------------------------------------------------------------------
(* The versions of a built-in memory.                                      *)

(* The link from the i-th version of a target to the next.                 *)
Link(t, i) == <<byTarget[t][i], byTarget[t][i + 1]>>
Links(t) == 1..Len(byTarget[t]) - 1
Replaces(t, i) == Method(byTarget[t][i + 1]) = "replace"
Left(t, i) == byTarget[t][i] \in retired

EditsInv ==
    /\ \A t \in Targets : \A i \in 1..Len(byTarget[t]) : byTarget[t][i] \in Made
    /\ \A e \in edges : \E t \in Targets : \E i \in Links(t) : e = Link(t, i)
    /\ failures = 0 =>
         \A t \in Targets : \A i \in Links(t) :
           Replaces(t, i) => Link(t, i) \in edges /\ Left(t, i)

LEMMA EditsStay ==
    ASSUME TypeInv, EditsInv, UNCHANGED <<byTarget, edges>>, retired \subseteq retired',
           failures' = 0 => failures = 0,
           \A c \in Made : c \in Made' /\ call'[c] = call[c]
    PROVE  EditsInv'
<1>1. \A t \in Targets : \A i \in Links(t) :
        i \in 1..Len(byTarget[t]) /\ i + 1 \in 1..Len(byTarget[t])
  BY DEF Links, TypeInv, TypeOK, DaemonTypeOK
<1>2. \A c \in Made : Method(c)' = Method(c)
  BY DEF Method
<1>3. \A t \in Targets : Links(t)' = Links(t) /\ \A i \in Links(t) : Link(t, i)' = Link(t, i)
  BY DEF Links, Link
<1>4. \A t \in Targets : \A i \in Links(t) :
        (Replaces(t, i)' <=> Replaces(t, i)) /\ (Left(t, i) => Left(t, i)')
  BY <1>1, <1>2 DEF EditsInv, Replaces, Left
<1> QED BY <1>1, <1>3, <1>4 DEF EditsInv

LEMMA StoreFailsOnce ==
    ASSUME failures \in Nat, UNCHANGED failures \/ StoreFails
    PROVE  failures' = 0 => failures = 0 /\ ~StoreFails
BY DEF StoreFails

(* A version that is stored links the newest of its target to itself.      *)
LEMMA WriteMirrorEdits ==
    ASSUME TypeInv, EditsInv, NEW c \in Made, NEW answer \in Answers,
           WriteMirror(c, answer), UNCHANGED <<call, pc>>
    PROVE  EditsInv'
<1>0. PICK t \in Targets : t = TargetOf(c)
  <2>1. Method(c) \in Edits
    BY DEF WriteMirror, Edits
  <2> QED BY <2>1, RequestTyped DEF TargetOf, Made, TypeInv
<1>8. /\ failures \in Nat /\ byTarget \in [Targets -> Seq(Calls)] /\ c \in Calls
  BY DEF TypeInv, TypeOK, DaemonTypeOK, Made
<1>9. PICK n \in Nat : n = Len(byTarget[t])
  BY <1>8
<1>1. /\ t = TargetOf(c) /\ failures \in Nat /\ byTarget \in [Targets -> Seq(Calls)]
      /\ c \in Calls /\ n = Len(byTarget[t])
  BY <1>0, <1>8, <1>9
<1>2. CASE UNCHANGED memoryVars /\ StoreFails
  BY <1>1, <1>2, EditsStay, StoreFailsOnce DEF memoryVars, Made
<1>3. CASE ~(UNCHANGED memoryVars /\ StoreFails)
  <2>1. /\ byTarget' = [byTarget EXCEPT ![t] = Append(@, c)]
        /\ UNCHANGED failures \/ StoreFails
        /\ edges' \in {edges, edges \cup (Superseded(c) \X {c})}
        /\ retired \subseteq retired'
        /\ StoreFails \/ (/\ edges' = edges \cup (Superseded(c) \X {c})
                         /\ retired' = retired \cup Superseded(c))
    BY <1>1, <1>3 DEF WriteMirror
  <2>2. /\ Len(byTarget'[t]) = n + 1 /\ byTarget'[t][n + 1] = c
        /\ \A i \in 1..n : byTarget'[t][i] = byTarget[t][i]
        /\ \A u \in Targets \ {t} : byTarget'[u] = byTarget[u]
    BY <1>1, <2>1 
  <2>3. /\ \A u \in Targets \ {t} : Links(u)' = Links(u) /\ \A i : Link(u, i)' = Link(u, i)
        /\ \A i \in Links(t) : i \in 1..n /\ i + 1 \in 1..n
        /\ \A i \in Links(t) : i \in Links(t)' /\ Link(t, i)' = Link(t, i)
        /\ \A i \in Links(t)' : i \in Links(t) \/ (i = n /\ n > 0)
        /\ n > 0 => n \in Links(t)' /\ Link(t, n)' = <<Last(t), c>>
    BY <1>1, <2>2 DEF Links, Link, Last
  <2>4. Superseded(c) = IF Method(c) = "replace" /\ n > 0 THEN {Last(t)} ELSE {}
    BY <1>1 DEF Superseded, HasLast
  <2>5. Made' = Made /\ \A d \in Calls : Method(d)' = Method(d)
    BY DEF Made, Method
  <2>6. ASSUME NEW u \in Targets, NEW i \in 1..Len(byTarget'[u])
        PROVE  byTarget'[u][i] \in Made'
    <3>1. CASE u # t
      BY <2>2, <2>5, <3>1 DEF EditsInv
    <3>2. CASE u = t
      <4>1. i \in 1..n \/ i = n + 1
        BY <1>1, <2>2, <3>2
      <4> QED BY <1>1, <2>2, <2>5, <3>2, <4>1 DEF EditsInv
    <3> QED BY <3>1, <3>2
  <2>10. \A u \in Targets : \A i \in Links(u) : i \in Links(u)' /\ Link(u, i)' = Link(u, i)
    BY <2>3
  <2>7. \A e \in edges : \E u \in Targets : \E i \in Links(u)' : e = Link(u, i)'
    <3> SUFFICES ASSUME NEW e \in edges
                 PROVE  \E u \in Targets : \E i \in Links(u)' : e = Link(u, i)'
      OBVIOUS
    <3>1. PICK u \in Targets : \E i \in Links(u) : e = Link(u, i)
      BY DEF EditsInv
    <3>2. PICK i \in Links(u) : e = Link(u, i)
      BY <3>1
    <3>3. i \in Links(u)' /\ e = Link(u, i)'
      BY <2>10, <3>2
    <3> QED BY <3>3
  <2>8. \A e \in edges' : \E u \in Targets : \E i \in Links(u)' : e = Link(u, i)'
    <3> SUFFICES ASSUME NEW e \in edges', e \notin edges
                 PROVE  \E u \in Targets : \E i \in Links(u)' : e = Link(u, i)'
      BY <2>7
    <3>1. e \in Superseded(c) \X {c}
      BY <2>1
    <3>2. n > 0 /\ e = <<Last(t), c>>
      BY <2>4, <3>1
    <3> QED BY <2>3, <3>2
  <2>9. ASSUME failures' = 0, NEW u \in Targets, NEW i \in Links(u)', Replaces(u, i)'
        PROVE  Link(u, i)' \in edges' /\ Left(u, i)'
    <3>1. /\ failures = 0 /\ edges' = edges \cup (Superseded(c) \X {c})
          /\ retired' = retired \cup Superseded(c)
      BY <1>1, <2>1, <2>9, StoreFailsOnce
    <3>2. CASE i \in Links(u)
      <4>1. /\ Link(u, i)' = Link(u, i) /\ byTarget'[u][i] = byTarget[u][i]
            /\ byTarget'[u][i + 1] = byTarget[u][i + 1] /\ byTarget[u][i + 1] \in Calls
        <5>1. CASE u # t
          BY <1>1, <2>2, <2>3, <3>2, <5>1 DEF Links
        <5>2. CASE u = t
          BY <1>1, <2>2, <2>3, <3>2, <5>2
        <5> QED BY <5>1, <5>2
      <4>2. Replaces(u, i)
        BY <2>5, <2>9, <4>1 DEF Replaces
      <4> QED BY <3>1, <3>2, <4>1, <4>2 DEF EditsInv, Left
    <3>3. CASE u = t /\ i = n /\ n > 0
      <4>1. byTarget'[t][i + 1] = c /\ byTarget'[t][i] = Last(t)
        BY <1>1, <2>2, <3>3 DEF Last
      <4>2. Method(c) = "replace"
        BY <1>1, <2>5, <2>9, <3>3, <4>1 DEF Replaces
      <4> QED BY <2>3, <2>4, <3>1, <3>3, <4>1, <4>2 DEF Left
    <3> QED BY <2>3, <2>9, <3>2, <3>3
  <2> QED BY <2>6, <2>8, <2>9 DEF EditsInv
<1> QED BY <1>2, <1>3

LEMMA HandleEdits ==
    ASSUME TypeInv, EditsInv, NEW c \in Made, NEW answer \in Answers, Handle(c, answer),
           UNCHANGED <<call, pc>>
    PROVE  EditsInv'
<1>1. failures \in Nat
  BY ConstantTypes DEF TypeInv, TypeOK, DaemonTypeOK
<1>2. CASE HandleOnMemoryWrite(c, answer)
  <2>1. CASE RemoveMirror(c, answer)
    <3>1. retired \subseteq retired' /\ (UNCHANGED failures \/ StoreFails)
      BY <2>1 DEF RemoveMirror
    <3> QED BY <1>1, <2>1, <3>1, EditsStay, StoreFailsOnce DEF RemoveMirror, Made
  <2>2. CASE WriteMirror(c, answer)
    BY <2>2, WriteMirrorEdits
  <2> QED BY <1>2, <2>1, <2>2 DEF HandleOnMemoryWrite
<1>3. CASE ~HandleOnMemoryWrite(c, answer)
  <2>1. UNCHANGED <<byTarget, edges, retired>> /\ (UNCHANGED failures \/ StoreFails)
    BY <1>3 DEF Handle, RefuseUnknown, HandleSyncTurn, HandleQueuePrefetch, HandlePrefetch,
                HandleOnSessionEnd, HandleOnDelegation, HandleRead,
                HandlePrepareEditContext, HandleOnSessionSwitch, daemonVars, memoryVars
  <2> QED BY <1>1, <2>1, EditsStay, StoreFailsOnce DEF Made
<1> QED BY <1>2, <1>3

LEMMA EditsKept == ASSUME TypeInv, EditsInv, [Next]_vars PROVE EditsInv'
<1>1. \A c \in Made : c \in Made' /\ call'[c] = call[c]
  BY RequestsStay
<1>2. ASSUME Serve PROVE EditsInv'
  BY <1>2, NextHandled, HandleEdits
<1>3. ASSUME UNCHANGED <<memoryVars, failures>> PROVE EditsInv'
  BY <1>1, <1>3, EditsStay DEF memoryVars
<1>4. ASSUME Background PROVE UNCHANGED <<memoryVars, failures>>
  BY <1>4 DEF Background, WarmPrefetch, IntegrationEnds
<1>5. ASSUME Initialize PROVE UNCHANGED <<memoryVars, failures>>
  BY <1>5 DEF Initialize, HandleInitialize, daemonVars
<1> QED BY <1>2, <1>3, <1>4, <1>5
        DEF Next, Step, Call, Lock, Write, Receive, TimeOut, EndOfFile, Broken, Return,
            Shutdown, DaemonDies, Quiet, vars, daemonVars

LEMMA InitEdits == Init => EditsInv
<1> SUFFICES ASSUME Init PROVE EditsInv
  OBVIOUS
<1>1. \A t \in Targets : Len(byTarget[t]) = 0
  BY DEF Init, DaemonInit
<1>2. edges = {}
  BY DEF Init, DaemonInit
<1> QED BY <1>1, <1>2 DEF EditsInv, Links

(* An edge leads from a version of a target to the next; with no failure   *)
(* of the store every version that was replaced has its edge and is        *)
(* retired.                                                                *)
THEOREM EditsFormChains == Spec => []EditsChain
<1>1. ASSUME EditsInv PROVE EditsChain
  BY <1>1 DEF EditsInv, EditsChain, Links, Link, Replaces, Left
<1> QED BY <1>1, InitTyped, NextTyped, InitEdits, EditsKept, PTL DEF Spec

-----------------------------------------------------------------------------
(* Which session is bound.  The switches in the pipe form a chain: each    *)
(* asks to leave the session the one before it asked for, because a switch *)
(* blocks the plugin's main thread until it has returned.                  *)

IsSwitch(i) == Method(written[i]) \in Switches

(* The session the first n requests lead to.                               *)
Leads(n, s) ==
    \/ s = First /\ \A i \in 1..n : ~IsSwitch(i)
    \/ \E i \in 1..n :
          /\ IsSwitch(i) /\ call[written[i]].arg = s
          /\ \A k \in 1..n : k > i => ~IsSwitch(k)

(* A switch among the first n requests had not returned when c was made.   *)
Overtaken(n, c) == \E i \in 1..n : IsSwitch(i) /\ written[i] \notin call[c].past

(* A request after n others names the session they lead to, unless a       *)
(* switch overtook it; a switch is never overtaken.                        *)
Meets(n, c) ==
    Leads(n, SessionOf(c)) \/ (Method(c) \notin Switches /\ Overtaken(n, c))
PluginMeets(n) == Leads(n, session)

Unsent == {c \in Made : pc[c] \in {"called", "locked"}}
NoSwitchReads == \A c \in Made : pc[c] = "reading" => Method(c) \notin Switches

(* One call blocks the main thread.                                        *)
MainInv ==
    /\ \A c, d \in Waiting : Method(c) \in Blocking /\ Method(d) \in Blocking => c = d
    /\ \A c \in Waiting : Method(c) \in Blocking => plugin = "open"
    /\ \A c \in Waiting : Method(c) \in Switches => SessionOf(c) = session
    /\ \A c \in Made : \A d \in call[c].past : d \in Made /\ pc[d] \in Returned

(* What the plugin asked for last is what its session is.                  *)
ChainInv ==
    /\ \A i \in 1..Len(written) : \A c \in Calls : written[i] = c => Meets(i - 1, c)
    /\ \A n \in Nat : n = Len(written) /\ daemon = "up" =>
         /\ NoSwitchReads => PluginMeets(n)
         /\ \A c \in Unsent : Meets(n, c)

(* The daemon follows.                                                     *)
BoundInv ==
    /\ plugin = "open" \/ Made # {} =>
         \E n \in Nat, s \in Sessions : n = served /\ Bound = {s} /\ Leads(n, s)
    /\ \A i \in 1..served : \A c \in Calls :
         written[i] = c /\ reply[c].kind = "unknown_session" => Overtaken(i - 1, c)
    /\ plugin = "new" => session = First /\ Bound = {}

SwitchInv == MainInv /\ ChainInv /\ BoundInv

(* What is in the pipe stays, and so does where it leads.                  *)
LEMMA PipeStays ==
    ASSUME TypeInv, [Next]_vars
    PROVE  /\ \A i \in 1..Len(written) :
                i \in 1..Len(written') /\ written'[i] = written[i]
                  /\ (IsSwitch(i)' <=> IsSwitch(i))
           /\ \A n \in 0..Len(written) :
                /\ \A s \in Sessions : Leads(n, s)' <=> Leads(n, s)
                /\ \A c \in Made : (Overtaken(n, c)' <=> Overtaken(n, c))
                                   /\ (Meets(n, c)' <=> Meets(n, c))
<1>1. \A c \in Made : c \in Made' /\ call'[c] = call[c]
  BY RequestsStay
<1>2. /\ written \in Seq(Calls) /\ Len(written) \in Nat
      /\ \A i \in 1..Len(written) : written[i] \in Made
  BY WrittenTyped DEF Made, TypeInv, TypeOK
<1>3. \A i \in 1..Len(written) : i \in 1..Len(written') /\ written'[i] = written[i]
  <2>1. CASE written' = written
    BY <2>1
  <2>2. ASSUME NEW c \in Calls, written' = Append(written, c)
        PROVE  \A i \in 1..Len(written) : i \in 1..Len(written') /\ written'[i] = written[i]
    BY <1>2, <2>2
  <2> QED BY <2>1, <2>2 DEF Next, Step, Initialize, Call, Lock, Write, Receive, TimeOut,
                            EndOfFile, Broken, Return, Serve, Background, Shutdown,
                            DaemonDies, Quiet, vars, pipeVars, threadVars
<1>4. \A i \in 1..Len(written) :
        (IsSwitch(i)' <=> IsSwitch(i)) /\ call'[written'[i]] = call[written[i]]
  BY <1>1, <1>2, <1>3 DEF IsSwitch, Method
<1>5. \A c \in Made : Method(c)' = Method(c) /\ SessionOf(c)' = SessionOf(c)
  BY <1>1 DEF Method, SessionOf
<1>6. ASSUME NEW n \in 0..Len(written)
      PROVE  /\ \A s : Leads(n, s)' <=> Leads(n, s)
             /\ \A c \in Made : (Overtaken(n, c)' <=> Overtaken(n, c))
                                /\ (Meets(n, c)' <=> Meets(n, c))
  <2>1. \A i \in 1..n : i \in 1..Len(written)
    BY <1>2
  <2>2. \A s : Leads(n, s)' <=> Leads(n, s)
    BY <1>4, <2>1 DEF Leads
  <2>3. ASSUME NEW c \in Made PROVE Overtaken(n, c)' <=> Overtaken(n, c)
    BY <1>1, <1>3, <1>4, <2>1 DEF Overtaken
  <2>4. ASSUME NEW c \in Made PROVE Meets(n, c)' <=> Meets(n, c)
    <3>1. PICK s : s = SessionOf(c)
      OBVIOUS
    <3>2. SessionOf(c)' = s
      BY <1>5, <3>1
    <3>3. /\ Meets(n, c) <=> Leads(n, s) \/ (Method(c) \notin Switches /\ Overtaken(n, c))
          /\ Meets(n, c)' <=> Leads(n, s)' \/ (Method(c)' \notin Switches /\ Overtaken(n, c)')
      BY <3>1, <3>2 DEF Meets, Leads
    <3> QED BY <1>5, <2>2, <2>3, <3>3
  <2> QED BY <2>2, <2>3, <2>4
<1> QED BY <1>3, <1>4, <1>6

(* A switch leads to its argument, any other request leads nowhere.        *)
LEMMA LeadsOn ==
    ASSUME NEW n \in Nat, NEW s
    PROVE  /\ IsSwitch(n + 1) => Leads(n + 1, call[written[n + 1]].arg)
           /\ ~IsSwitch(n + 1) => (Leads(n + 1, s) <=> Leads(n, s))
<1>1. \A i \in 1..n + 1 : i \in 1..n \/ i = n + 1
  OBVIOUS
<1>2. 1..n \subseteq 1..n + 1 /\ n + 1 \in 1..n + 1
  OBVIOUS
<1>3. \A k \in 1..n + 1 : ~(k > n + 1)
  OBVIOUS
<1>4. \A i \in 1..n : n + 1 > i
  OBVIOUS
<1> QED BY <1>1, <1>2, <1>3, <1>4 DEF Leads

LEMMA LeadsOnce ==
    ASSUME NEW n \in Nat, NEW s, NEW u, Leads(n, s), Leads(n, u)
    PROVE  s = u
<1>1. \A i, k \in 1..n : i = k \/ i > k \/ k > i
  OBVIOUS
<1> QED BY <1>1 DEF Leads

LEMMA OvertakenOn ==
    ASSUME NEW n \in Nat, NEW c
    PROVE  /\ Overtaken(n, c) => Overtaken(n + 1, c)
           /\ IsSwitch(n + 1) /\ written[n + 1] \notin call[c].past => Overtaken(n + 1, c)
BY DEF Overtaken

(* The switches in the pipe know of the plugin what it was when they were  *)
(* made: no other call blocks the main thread while one does.              *)
LEMMA MainKept == ASSUME TypeInv, MainInv, [Next]_vars PROVE MainInv'
<1>1. \A c \in Made : c \in Made' /\ call'[c] = call[c]
  BY RequestsStay
<1>2. \A c \in Made : Method(c)' = Method(c) /\ SessionOf(c)' = SessionOf(c)
  BY <1>1 DEF Method, SessionOf
<1>3. Waiting \subseteq Made /\ Switches \subseteq Blocking
  BY DEF Waiting, Blocking
<1>4. ASSUME UNCHANGED <<pc, call, session>>, plugin' = plugin \/ MainFree \/ plugin = "new"
      PROVE  MainInv'
  <2>1. Made' = Made /\ Waiting' = Waiting
    BY <1>4 DEF Made, Waiting
  <2>2. plugin = "new" => Waiting = {}
    BY DEF TypeInv, Quiescent, Waiting, Made
  <2>3. \A c \in Waiting : Method(c) \in Blocking => plugin' = "open"
    BY <1>4, <2>2 DEF MainInv, MainFree
  <2> QED BY <1>1, <1>2, <1>3, <1>4, <2>1, <2>3 DEF MainInv
<1>5. ASSUME NEW c \in Calls, NEW how, pc[c] \notin {"idle"} \cup Returned,
             how \notin {"idle"} \cup Returned,
             pc' = [pc EXCEPT ![c] = how], UNCHANGED <<call, session, plugin>>
      PROVE  MainInv'
  <2>1. Made' = Made /\ Waiting' = Waiting
    BY <1>5 DEF Made, Waiting, TypeInv, TypeOK
  <2>2. \A d \in Calls : pc[d] \in Returned => pc'[d] \in Returned
    BY <1>5 DEF TypeInv, TypeOK
  <2>3. Made \subseteq Calls
    BY DEF Made
  <2> QED BY <1>1, <1>2, <1>3, <1>5, <2>1, <2>2, <2>3 DEF MainInv
<1>6. ASSUME NEW c \in Calls, NEW how \in Returned, c \in Waiting, Return(c, how)
      PROVE  MainInv'
  <2>1. Waiting' = Waiting \ {c} /\ Made' = Made
    BY <1>6 DEF Return, Made, Waiting, TypeInv, TypeOK, Returned
  <2>2. \A d \in Calls : pc[d] \in Returned => pc'[d] \in Returned
    BY <1>6 DEF Return, TypeInv, TypeOK
  <2>3. \A d \in Waiting' : Method(d) \in Switches => Method(c) \notin Switches
    BY <1>3, <1>6, <2>1 DEF MainInv
  <2>4. \A d \in Waiting' : Method(d) \in Switches => session' = session
    BY <1>6, <2>3 DEF Return, SessionAfter
  <2>5. plugin' = plugin /\ Made \subseteq Calls
    BY <1>6 DEF Return, Made
  <2> QED BY <1>1, <1>2, <1>3, <2>1, <2>2, <2>4, <2>5 DEF MainInv
<1>7. ASSUME NEW c \in Calls, NEW method \in Methods, Call(c, method) PROVE MainInv'
  <2>1. /\ c \notin Made /\ Made' = Made \cup {c} /\ Waiting' = Waiting \cup {c}
        /\ \A d \in Made : pc'[d] = pc[d]
    BY <1>7 DEF Call, Made, Waiting, TypeInv, TypeOK, Returned
  <2>2. /\ Method(c)' = method /\ SessionOf(c)' = session
        /\ call'[c].past = SwitchCalls \ Waiting
        /\ session' = session /\ plugin = "open" /\ plugin' = "open"
    <3>1. PICK arg \in Arguments(method) :
            /\ call' = [call EXCEPT ![c] =
                 [method |-> method, session |-> session, arg |-> arg,
                  past |-> SwitchCalls \ Waiting]]
            /\ session' = session
      BY <1>7 DEF Call, SessionMeanwhile
    <3>2. /\ call'[c].method = method /\ call'[c].session = session
          /\ call'[c].past = SwitchCalls \ Waiting
      BY <3>1 DEF TypeInv, TypeOK
    <3> QED BY <1>7, <3>1, <3>2 DEF Call, Method, SessionOf
  <2>3. method \in Blocking => MainFree
    BY <1>7 DEF Call, OnMain, Blocking, Switches
  <2>4. \A d \in SwitchCalls \ Waiting : d \in Made /\ pc[d] \in Returned
    BY DEF SwitchCalls, Waiting
  <2>5. \A d, e \in Waiting' :
          Method(d)' \in Blocking /\ Method(e)' \in Blocking => d = e
    BY <1>2, <1>3, <2>1, <2>2, <2>3 DEF MainInv, MainFree
  <2>6. \A d \in Waiting' : Method(d)' \in Switches => SessionOf(d)' = session'
    BY <1>2, <1>3, <2>1, <2>2 DEF MainInv
  <2>7. \A d \in Made' : \A e \in call'[d].past : e \in Made' /\ pc'[e] \in Returned
    BY <1>1, <2>1, <2>2, <2>4 DEF MainInv
  <2> QED BY <2>2, <2>5, <2>6, <2>7 DEF MainInv
<1>8. ASSUME Initialize \/ Serve \/ Background \/ Shutdown \/ DaemonDies \/ Quiet \/ UNCHANGED vars
      PROVE  MainInv'
  BY <1>4, <1>8 DEF Initialize, Serve, Background, Shutdown, DaemonDies, Quiet, vars, threadVars
<1>9. ASSUME NEW c \in Calls, Lock(c) \/ Write(c) PROVE MainInv'
  <2>1. ASSUME Lock(c) PROVE MainInv'
    BY <1>5, <2>1 DEF Lock, Returned
  <2>2. ASSUME Write(c) PROVE MainInv'
    BY <1>5, <2>2 DEF Write, Returned
  <2> QED BY <1>9, <2>1, <2>2
<1>10. ASSUME NEW c \in Calls, Receive(c) \/ TimeOut(c) \/ EndOfFile(c) \/ Broken(c)
       PROVE  MainInv'
  <2>1. c \in Waiting
    BY <1>10 DEF Receive, TimeOut, EndOfFile, Broken, Waiting, Made, Returned
  <2>2. \E how \in Returned : Return(c, how)
    BY <1>10 DEF Receive, TimeOut, EndOfFile, Broken, Returned
  <2> QED BY <1>6, <2>1, <2>2
<1> QED BY <1>7, <1>8, <1>9, <1>10 DEF Next, Step

(* A step that writes nothing has to answer for the plugin's session, and  *)
(* for the request it makes.                                               *)
LEMMA ChainStays ==
    ASSUME TypeInv, ChainInv, [Next]_vars, written' = written,
           daemon' = "up" => daemon = "up",
           NEW n \in Nat, n = Len(written),
           daemon' = "up" /\ NoSwitchReads' =>
             (session' = session /\ NoSwitchReads) \/ PluginMeets(n)',
           daemon' = "up" => \A c \in Unsent' : c \in Unsent \/ Meets(n, c)'
    PROVE  ChainInv'
<1>1. \A i \in 1..n : i - 1 \in 0..n /\ written[i] \in Made
  BY WrittenTyped DEF Made
<1>2. \A m \in 0..n :
        /\ \A s \in Sessions : Leads(m, s)' <=> Leads(m, s)
        /\ \A c \in Made : Meets(m, c)' <=> Meets(m, c)
  BY PipeStays
<1>3. n \in 0..n /\ Unsent \subseteq Made
  BY DEF Unsent
<1>4. ASSUME daemon' = "up", NoSwitchReads', session' = session, NoSwitchReads
      PROVE  PluginMeets(n)'
  <2>1. PICK s \in Sessions : s = session
    BY DEF TypeInv, TypeOK
  <2>2. Leads(n, s)
    BY <1>4, <2>1 DEF ChainInv, PluginMeets
  <2>3. Leads(n, s)' /\ session' = s
    BY <1>2, <1>3, <1>4, <2>1, <2>2
  <2> QED BY <2>3 DEF PluginMeets, Leads
<1>5. daemon' = "up" => \A c \in Unsent' : Meets(n, c)'
  BY <1>2, <1>3 DEF ChainInv
<1>6. \A i \in 1..n : \A c \in Calls : written'[i] = c => Meets(i - 1, c)'
  BY <1>1, <1>2 DEF ChainInv
<1>7. Len(written') = n
  OBVIOUS
<1> QED BY <1>4, <1>5, <1>6, <1>7 DEF ChainInv

(* The request that is written next meets what is in the pipe.             *)
LEMMA ChainWrites ==
    ASSUME TypeInv, MainInv, ChainInv, NEW c \in Calls, Write(c)
    PROVE  ChainInv'
<1>1. [Next]_vars
  BY DEF Next, Step
<1>2. PICK n \in Nat : n = Len(written)
  BY DEF TypeInv, TypeOK
<1>3. /\ written' = Append(written, c) /\ Len(written') = n + 1
      /\ written'[n + 1] = c /\ \A i \in 1..n : written'[i] = written[i]
      /\ daemon = "up" /\ daemon' = "up" /\ UNCHANGED <<call, session>>
  BY <1>2 DEF Write, TypeInv, TypeOK
<1>4. /\ \A m \in 0..n, s \in Sessions : Leads(m, s)' <=> Leads(m, s)
      /\ \A m \in 0..n, d \in Made : (Meets(m, d)' <=> Meets(m, d))
                                 /\ (Overtaken(m, d)' <=> Overtaken(m, d))
  BY <1>1, <1>2, PipeStays
<1>5. c \in Unsent /\ c \in Made /\ lock = c /\ pc' = [pc EXCEPT ![c] = "reading"]
  BY DEF Write, Unsent, Made, TypeInv, OneInPipe
<1>6. Made' = Made /\ Unsent' = Unsent \ {c}
  BY <1>5 DEF Made, Unsent, TypeInv, TypeOK
<1>7. \A d \in Made : ~(pc[d] = "reading")
  BY <1>5 DEF Made, TypeInv, OneInPipe, Write
<1>8. Leads(n, session) /\ \A d \in Unsent : Meets(n, d)
  BY <1>2, <1>3, <1>7 DEF ChainInv, NoSwitchReads, PluginMeets
<1>9. \A d \in Calls : /\ Method(d)' = Method(d) /\ SessionOf(d)' = SessionOf(d)
                      /\ call'[d] = call[d]
  BY <1>3 DEF Method, SessionOf
<1>10. IsSwitch(n + 1)' <=> Method(c) \in Switches
  BY <1>3, <1>9 DEF IsSwitch
<1>11. \A i \in 1..n + 1 : \A d \in Calls : written'[i] = d => Meets(i - 1, d)'
  <2> SUFFICES ASSUME NEW i \in 1..n + 1, NEW d \in Calls, written'[i] = d
               PROVE  Meets(i - 1, d)'
    OBVIOUS
  <2>1. CASE i = n + 1
    <3>1. Meets(n, c)'
      BY <1>4, <1>5, <1>8
    <3> QED BY <1>3, <2>1, <3>1
  <2>2. CASE i \in 1..n
    <3>1. d \in Made /\ Meets(i - 1, d)
      BY <1>2, <1>3, <2>2, WrittenTyped DEF ChainInv, Made
    <3>2. i - 1 \in 0..n
      BY <2>2
    <3> QED BY <1>4, <3>1, <3>2
  <2> QED BY <2>1, <2>2
<1>12. NoSwitchReads' => PluginMeets(n + 1)'
  <2> SUFFICES ASSUME NoSwitchReads' PROVE PluginMeets(n + 1)'
    OBVIOUS
  <2>1. Method(c) \notin Switches
    BY <1>5, <1>6, <1>9 DEF NoSwitchReads, TypeInv, TypeOK
  <2>2. PICK s \in Sessions : s = session
    BY DEF TypeInv, TypeOK
  <2>3. Leads(n, s)'
    BY <1>4, <1>8, <2>2
  <2>4. Leads(n + 1, s)'
    <3>1. ~IsSwitch(n + 1)'
      BY <1>10, <2>1
    <3>2. ~IsSwitch(n + 1)' => (Leads(n + 1, s)' <=> Leads(n, s)')
      <4>1. \A i \in 1..n + 1 : i \in 1..n \/ i = n + 1
        OBVIOUS
      <4>2. 1..n \subseteq 1..n + 1
        OBVIOUS
      <4> QED BY <4>1, <4>2 DEF Leads
    <3> QED BY <2>3, <3>1, <3>2
  <2> QED BY <1>3, <2>2, <2>4 DEF PluginMeets, Leads
<1>13. \A d \in Unsent' : Meets(n + 1, d)'
  <2> SUFFICES ASSUME NEW d \in Unsent \ {c} PROVE Meets(n + 1, d)'
    BY <1>6
  <2>1. d \in Waiting /\ c \in Waiting /\ d \in Made
    BY <1>5 DEF Unsent, Waiting, Returned
  <2>2. CASE Method(c) \in Switches
    <3>1. Method(d) \notin Switches
      BY <2>1, <2>2 DEF MainInv, Blocking
    <3>2. c \notin call[d].past
      BY <2>1 DEF MainInv, Waiting
    <3>3. Overtaken(n + 1, d)'
      <4>1. n + 1 \in 1..n + 1
        OBVIOUS
      <4>2. IsSwitch(n + 1)' /\ written'[n + 1] \notin call'[d].past
        BY <1>3, <1>10, <2>2, <3>2
      <4> QED BY <4>1, <4>2 DEF Overtaken
    <3>4. Method(d)' \notin Switches
      BY <1>9, <2>1, <3>1 DEF Made
    <3> QED BY <3>3, <3>4 DEF Meets
  <2>3. CASE Method(c) \notin Switches
    <3>1. ~IsSwitch(n + 1)'
      BY <1>10, <2>3
    <3>2. Meets(n, d)'
      BY <1>4, <1>8, <2>1
    <3>3. PICK s : s = SessionOf(d)'
      OBVIOUS
    <3>4. Leads(n, s)' => Leads(n + 1, s)'
      <4>1. \A i \in 1..n + 1 : i \in 1..n \/ i = n + 1
        OBVIOUS
      <4>2. 1..n \subseteq 1..n + 1
        OBVIOUS
      <4> QED BY <3>1, <4>1, <4>2 DEF Leads
    <3>5. Overtaken(n, d)' => Overtaken(n + 1, d)'
      BY DEF Overtaken
    <3>6. Leads(n, s)' \/ (Method(d)' \notin Switches /\ Overtaken(n, d)')
      BY <3>2, <3>3 DEF Meets, Leads
    <3> QED BY <3>3, <3>4, <3>5, <3>6 DEF Meets, Leads
  <2> QED BY <2>2, <2>3
<1> QED BY <1>3, <1>11, <1>12, <1>13 DEF ChainInv

(* A request that is made meets what is in the pipe, unless the switch     *)
(* that waits for its answer overtakes it.                                 *)
LEMMA ChainCalls ==
    ASSUME TypeInv, ChainInv, NEW c \in Calls, NEW method \in Methods, Call(c, method)
    PROVE  ChainInv'
<1>1. [Next]_vars
  BY DEF Next
<1>2. PICK n \in Nat : n = Len(written)
  BY DEF TypeInv, TypeOK
<1>3. UNCHANGED <<written, daemon, session>>
  BY DEF Call, pipeVars, SessionMeanwhile
<1>4. /\ c \notin Made /\ Made' = Made \cup {c} /\ Unsent' = Unsent \cup {c}
      /\ \A d \in Made : pc'[d] = pc[d] /\ call'[d] = call[d]
  BY DEF Call, Made, Unsent, TypeInv, TypeOK
<1>5. \A d \in Made : Method(d)' = Method(d)
  BY <1>4 DEF Method
<1>6. NoSwitchReads' => NoSwitchReads
  BY <1>4, <1>5 DEF NoSwitchReads
<1>7. /\ SessionOf(c)' = session /\ Method(c)' = method
      /\ call'[c].past = SwitchCalls \ Waiting
  <2>1. PICK arg \in Arguments(method) :
          call' = [call EXCEPT ![c] =
             [method |-> method, session |-> session, arg |-> arg,
              past |-> SwitchCalls \ Waiting]]
    BY DEF Call
  <2>2. /\ call'[c].method = method /\ call'[c].session = session
        /\ call'[c].past = SwitchCalls \ Waiting
    BY <2>1 DEF TypeInv, TypeOK
  <2> QED BY <2>2 DEF Method, SessionOf
<1>8. PICK s \in Sessions : s = session
  BY DEF TypeInv, TypeOK
<1>9. /\ \A u \in Sessions : Leads(n, u)' <=> Leads(n, u)
      /\ \A i \in 1..n : (IsSwitch(i)' <=> IsSwitch(i))
  BY <1>1, <1>2, PipeStays
<1>10. ASSUME daemon = "up" PROVE Meets(n, c)'
  <2>1. CASE NoSwitchReads
    <3>1. Leads(n, s)'
      BY <1>2, <1>8, <1>9, <1>10, <2>1 DEF ChainInv, PluginMeets
    <3> QED BY <1>7, <1>8, <3>1 DEF Meets, Leads
  <2>2. CASE ~NoSwitchReads
    <3>1. PICK d \in Made : pc[d] = "reading" /\ Method(d) \in Switches
      BY <2>2 DEF NoSwitchReads
    <3>2. n \in 1..n /\ written[n] = d /\ written'[n] = d
      BY <1>2, <1>3, <3>1 DEF TypeInv, OneInPipe, Made
    <3>3. d \in Waiting
      BY <3>1 DEF Waiting, Returned
    <3>4. IsSwitch(n)' /\ written'[n] \notin call'[c].past
      BY <1>7, <1>9, <3>1, <3>2, <3>3 DEF IsSwitch
    <3>5. Overtaken(n, c)'
      BY <3>2, <3>4 DEF Overtaken
    <3>6. method \notin Switches
      <4>1. ~MainFree
        BY <3>1, <3>3 DEF MainFree, Blocking
      <4> QED BY <4>1 DEF Call, OnMain, Switches
    <3> QED BY <1>7, <3>5, <3>6 DEF Meets
  <2> QED BY <2>1, <2>2
<1> QED BY <1>1, <1>2, <1>3, <1>4, <1>6, <1>10, ChainStays

(* The switch that returns wrote last.                                     *)
LEMMA ChainReturns ==
    ASSUME TypeInv, MainInv, ChainInv, NEW c \in Calls, NEW how \in Returned,
           pc[c] \in {"called", "locked", "reading"}, Step(c), Return(c, how),
           pc[c] = "reading" \/ daemon = "dead" \/ plugin # "open"
    PROVE  ChainInv'
<1>1. [Next]_vars
  BY DEF Next
<1>2. PICK n \in Nat : n = Len(written)
  BY DEF TypeInv, TypeOK
<1>3. /\ UNCHANGED <<written, daemon, call>> /\ Made' = Made /\ Unsent' \subseteq Unsent
      /\ \A d \in Calls \ {c} : pc'[d] = pc[d]
      /\ c \in Waiting
  BY DEF Return, Made, Unsent, Waiting, Returned, TypeInv, TypeOK
<1>4. \A d \in Calls : Method(d)' = Method(d)
  BY <1>3 DEF Method
<1>5. ASSUME daemon = "up", NoSwitchReads'
      PROVE  (session' = session /\ NoSwitchReads) \/ PluginMeets(n)'
  <2>1. CASE Method(c) \notin Switches
    <3>1. session' = session
      BY <2>1 DEF Return, SessionAfter
    <3>2. NoSwitchReads
      BY <1>3, <1>4, <1>5, <2>1 DEF NoSwitchReads, Made
    <3> QED BY <3>1, <3>2
  <2>2. CASE Method(c) \in Switches
    <3>1. pc[c] = "reading"
      BY <1>3, <1>5, <2>2 DEF MainInv, Blocking
    <3>2. n \in 1..n /\ written[n] = c
      BY <1>2, <3>1 DEF TypeInv, OneInPipe
    <3>3. Leads(n, call[c].arg)
      <4>1. IsSwitch(n) /\ \A k \in 1..n : ~(k > n)
        BY <2>2, <3>2 DEF IsSwitch
      <4> QED BY <3>2, <4>1 DEF Leads
    <3>4. PICK s \in Sessions : s = call[c].arg
      BY <2>2, <3>1, RequestTyped DEF TypeInv
    <3>5. session' = s
      BY <2>2, <3>4 DEF Return, SessionAfter
    <3>6. Leads(n, s)'
      BY <1>1, <1>2, <3>3, <3>4, PipeStays
    <3> QED BY <3>5, <3>6 DEF PluginMeets, Leads
  <2> QED BY <2>1, <2>2
<1> QED BY <1>1, <1>2, <1>3, <1>5, ChainStays

LEMMA ChainKept == ASSUME TypeInv, MainInv, ChainInv, [Next]_vars PROVE ChainInv'
<1>1. PICK n \in Nat : n = Len(written)
  BY DEF TypeInv, TypeOK
<1>2. ASSUME written' = written, daemon' = "up" => daemon = "up", session' = session,
             UNCHANGED <<call, pc>>
      PROVE  ChainInv'
  <2>1. Unsent' = Unsent /\ (NoSwitchReads' => NoSwitchReads)
    BY <1>2 DEF Unsent, NoSwitchReads, Made, Method
  <2> QED BY <1>1, <1>2, <2>1, ChainStays
<1>3. ASSUME Initialize \/ Serve \/ Background \/ Shutdown \/ DaemonDies \/ Quiet
             \/ UNCHANGED vars
      PROVE  ChainInv'
  BY <1>2, <1>3 DEF Initialize, Serve, Background, Shutdown, DaemonDies, Quiet, vars,
                    pipeVars, threadVars
<1>4. ASSUME NEW c \in Calls, Lock(c) PROVE ChainInv'
  <2>1. UNCHANGED <<written, daemon, session, call>> /\ pc' = [pc EXCEPT ![c] = "locked"]
        /\ pc[c] = "called"
    BY <1>4 DEF Lock, pipeVars
  <2>2. Made' = Made /\ Unsent' = Unsent
    BY <2>1 DEF Made, Unsent, TypeInv, TypeOK
  <2>3. NoSwitchReads' => NoSwitchReads
    BY <2>1, <2>2 DEF NoSwitchReads, Method, TypeInv, TypeOK
  <2> QED BY <1>1, <2>1, <2>2, <2>3, ChainStays
<1>5. ASSUME NEW c \in Calls, Receive(c) \/ TimeOut(c) \/ EndOfFile(c) \/ Broken(c)
      PROVE  ChainInv'
  <2>1. \E how \in Returned : Return(c, how)
    BY <1>5 DEF Receive, TimeOut, EndOfFile, Broken, Returned
  <2>2. /\ pc[c] \in {"called", "locked", "reading"} /\ Step(c)
        /\ pc[c] = "reading" \/ daemon = "dead" \/ plugin # "open"
    BY <1>5 DEF Receive, TimeOut, EndOfFile, Broken, Step
  <2> QED BY <2>1, <2>2, ChainReturns
<1> QED BY <1>3, <1>4, <1>5, ChainWrites, ChainCalls DEF Next, Step

(* Whom a handler refuses, and what it binds.                              *)
LEMMA HandleBinding ==
    ASSUME TypeInv, NEW c \in Made, NEW answer \in Answers, Handle(c, answer),
           NEW s \in Sessions, Bound = {s}
    PROVE  /\ answer.kind = "unknown_session" => SessionOf(c) # s
           /\ Method(c) \notin Switches => Bound' = {s}
           /\ Method(c) \in Switches /\ SessionOf(c) = s => Bound' = {call[c].arg}
<1>1. Known(c) <=> SessionOf(c) = s
  BY RequestTyped DEF Known, Bound, Made, TypeInv
<1>2. CASE RefuseUnknown(c, answer)
  BY <1>1, <1>2 DEF RefuseUnknown, daemonVars, sessionVars, Bound
<1>3. CASE HandleOnSessionSwitch(c, answer)
  <2>1. /\ call[c].arg \in Sessions /\ SessionOf(c) = s /\ sessions[s] # "unbound"
        /\ sessions \in [Sessions -> {"unbound", AgentContext}]
    BY <1>1, <1>3, RequestTyped DEF HandleOnSessionSwitch, Known, Made, TypeInv, TypeOK, DaemonTypeOK
  <2>2. sessions' = [sessions EXCEPT ![s] = "unbound", ![call[c].arg] = sessions[s]]
    BY <1>3, <2>1 DEF HandleOnSessionSwitch, Rebound, NewSessionOf
  <2>3. \A u \in Sessions : sessions[u] # "unbound" => u = s
    BY DEF Bound
  <2>4. Bound' = {call[c].arg}
    BY <2>1, <2>2, <2>3 DEF Bound
  <2>5. answer.kind # "unknown_session" /\ Method(c) \in Switches
    BY <1>3 DEF HandleOnSessionSwitch, Ok, Answer
  <2> QED BY <2>4, <2>5
<1>4. CASE ~RefuseUnknown(c, answer) /\ ~HandleOnSessionSwitch(c, answer)
  <2>1. Method(c) \notin Switches /\ Known(c)
    <3>1. CASE HandleOnMemoryWrite(c, answer)
      BY <3>1 DEF HandleOnMemoryWrite, RemoveMirror, WriteMirror, Switches
    <3>2. CASE HandleSyncTurn(c, answer) \/ HandleQueuePrefetch(c, answer)
               \/ HandlePrefetch(c, answer) \/ HandleOnSessionEnd(c, answer)
      BY <3>2 DEF HandleSyncTurn, HandleQueuePrefetch, HandlePrefetch, HandleOnSessionEnd,
                  Switches
    <3>3. CASE HandleOnDelegation(c, answer) \/ HandleRead(c, answer)
               \/ HandlePrepareEditContext(c, answer)
      BY <3>3 DEF HandleOnDelegation, HandleRead, HandlePrepareEditContext, Switches
    <3> QED BY <1>4, <3>1, <3>2, <3>3 DEF Handle
  <2>2. sessions' = sessions
    BY <1>4 DEF Handle, HandleSyncTurn, HandleQueuePrefetch, HandlePrefetch,
                HandleOnSessionEnd, HandleOnMemoryWrite, HandleOnDelegation, HandleRead,
                HandlePrepareEditContext, daemonVars, sessionVars
  <2>3. answer.kind # "unknown_session"
    <3>1. CASE answer = Ok \/ answer = Answer("failed")
      BY <3>1 DEF Ok, Answer
    <3>2. CASE HandlePrefetch(c, answer)
      BY <3>2 DEF HandlePrefetch, Ok, Answer, Recall
    <3>3. CASE HandleOnMemoryWrite(c, answer)
      BY <3>1, <3>3 DEF HandleOnMemoryWrite, RemoveMirror, WriteMirror
    <3> QED BY <1>4, <3>1, <3>2, <3>3
            DEF Handle, HandleSyncTurn, HandleQueuePrefetch, HandleOnSessionEnd,
                HandleOnDelegation, HandleRead, HandlePrepareEditContext
  <2> QED BY <1>1, <2>1, <2>2, <2>3 DEF Bound
<1> QED BY <1>2, <1>3, <1>4

LEMMA ServeBound ==
    ASSUME TypeInv, MainInv, ChainInv, BoundInv, Serve
    PROVE  BoundInv'
<1>1. [Next]_vars
  BY DEF Next
<1>2. PICK n \in Nat : n = served
  BY DEF TypeInv, TypeOK
<1>3. /\ n + 1 \in 1..Len(written) /\ n \in 0..Len(written) /\ Len(written) \in Nat
  BY <1>2 DEF Serve, TypeInv, TypeOK
<1>4. PICK c \in Made \ Handled : \E answer \in Answers :
        /\ c = written[n + 1]
        /\ Handle(c, answer)
        /\ reply' = [reply EXCEPT ![c] = answer]
        /\ UNCHANGED <<call, pc, written, session, plugin, daemon>>
        /\ served' = n + 1
  BY <1>2, NextHandled
<1>5. PICK answer \in Answers :
        /\ Handle(c, answer)
        /\ reply' = [reply EXCEPT ![c] = answer]
  BY <1>4
<1>6. PICK s \in Sessions : Bound = {s} /\ Leads(n, s)
  BY <1>2, <1>4 DEF BoundInv
<1>7. /\ \A m \in 0..Len(written), u \in Sessions : Leads(m, u)' <=> Leads(m, u)
      /\ \A m \in 0..Len(written), d \in Made : Overtaken(m, d)' <=> Overtaken(m, d)
  BY <1>1, PipeStays
<1>8. Meets(n, c) /\ c \in Calls /\ (IsSwitch(n + 1) <=> Method(c) \in Switches)
  <2>1. n + 1 - 1 = n
    OBVIOUS
  <2> QED BY <1>3, <1>4, <2>1 DEF ChainInv, IsSwitch, Made
<1>9. \E u \in Sessions : Bound' = {u} /\ Leads(n + 1, u)
  <2>1. CASE Method(c) \in Switches
    <3>1. SessionOf(c) = s
      BY <1>6, <1>8, <2>1, LeadsOnce DEF Meets
    <3>2. Bound' = {call[c].arg}
      BY <1>4, <1>5, <1>6, <2>1, <3>1, HandleBinding
    <3>3. Leads(n + 1, call[c].arg)
      BY <1>4, <1>8, <2>1, LeadsOn
    <3>4. call[c].arg \in Sessions
      BY <1>4, <1>8, <2>1, RequestTyped DEF Made, TypeInv
    <3> QED BY <3>2, <3>3, <3>4
  <2>2. CASE Method(c) \notin Switches
    <3>1. Bound' = {s}
      BY <1>4, <1>5, <1>6, <2>2, HandleBinding
    <3>2. Leads(n + 1, s)
      BY <1>6, <1>8, <2>2, LeadsOn
    <3> QED BY <3>1, <3>2
  <2> QED BY <2>1, <2>2
<1>10. \E m \in Nat, u \in Sessions : m = served' /\ Bound' = {u} /\ Leads(m, u)'
  BY <1>3, <1>4, <1>7, <1>9
<1>11. ASSUME NEW i \in 1..n + 1, NEW d \in Calls, written[i] = d,
              reply'[d].kind = "unknown_session"
       PROVE  Overtaken(i - 1, d)'
  <2>1. d \in Made /\ i \in 1..Len(written) /\ i - 1 \in 0..Len(written)
    BY <1>3, <1>11, WrittenTyped DEF Made
  <2>2. CASE i = n + 1
    <3>1. d = c /\ i - 1 = n
      BY <1>4, <1>11, <2>2
    <3>2. reply'[c] = answer
      BY <1>5, <1>8 DEF TypeInv, TypeOK
    <3>3. SessionOf(c) # s
      BY <1>4, <1>5, <1>6, <1>11, <3>1, <3>2, HandleBinding
    <3>4. ~Leads(n, SessionOf(c))
      BY <1>6, <3>3, LeadsOnce
    <3>5. Overtaken(n, c)
      BY <1>8, <3>4 DEF Meets
    <3> QED BY <1>7, <2>1, <3>1, <3>5
  <2>3. CASE i \in 1..n
    <3>1. i # n + 1 /\ d # c
      BY <1>3, <1>4, <1>11, <2>1, <2>3 DEF TypeInv, OneInPipe
    <3>2. reply'[d] = reply[d]
      BY <1>5, <3>1 DEF TypeInv, TypeOK
    <3>3. Overtaken(i - 1, d)
      BY <1>2, <1>11, <2>3, <3>2 DEF BoundInv
    <3> QED BY <1>7, <2>1, <3>3
  <2> QED BY <2>2, <2>3
<1>12. plugin # "new"
  BY <1>4 DEF TypeInv, Quiescent, Made
<1> QED BY <1>4, <1>10, <1>11, <1>12 DEF BoundInv

LEMMA BoundFirst ==
    ASSUME TypeInv, NEW s \in Sessions, HandleInitialize(s), Bound = {}
    PROVE  Bound' = {s}
<1>1. AgentContext # "unbound"
  BY DaemonAssumption DEF DaemonAssumption
<1> QED BY <1>1 DEF Bound, HandleInitialize, TypeInv, TypeOK, DaemonTypeOK

LEMMA BoundKept ==
    ASSUME TypeInv, MainInv, ChainInv, BoundInv, [Next]_vars
    PROVE  BoundInv'
<1>1. /\ \A m \in 0..Len(written), u \in Sessions : Leads(m, u)' <=> Leads(m, u)
      /\ \A m \in 0..Len(written), d \in Made : Overtaken(m, d)' <=> Overtaken(m, d)
      /\ \A i \in 1..Len(written) : written'[i] = written[i]
  BY PipeStays
<1>2. served \in 0..Len(written) /\ Len(written) \in Nat
  BY DEF TypeInv, TypeOK
<1>3. \A i \in 1..served : i \in 1..Len(written) /\ i - 1 \in 0..Len(written) /\ written[i] \in Made
  BY <1>2, WrittenTyped DEF Made
<1>4. plugin = "new" => Made = {}
  BY DEF TypeInv, Quiescent, Made
<1>5. ASSUME UNCHANGED <<sessions, served, reply>>,
             plugin' = "open" \/ Made' # {} => plugin = "open" \/ Made # {},
             plugin' = "new" => plugin = "new" /\ session' = session
      PROVE  BoundInv'
  <2>1. Bound' = Bound
    BY <1>5 DEF Bound
  <2> QED BY <1>1, <1>2, <1>3, <1>5, <2>1 DEF BoundInv
<1>6. ASSUME Initialize PROVE BoundInv'
  <2>1. CASE HandleInitialize(session) /\ plugin' = "open"
    <3>1. Made = {} /\ session = First /\ First \in Sessions
      BY <1>4, <1>6, ConstantTypes DEF Initialize, BoundInv
    <3>2. served = 0 /\ served' = 0
      <4>1. ~(1 \in 1..served)
        BY <1>3, <3>1
      <4> QED BY <1>2, <1>6, <4>1 DEF Initialize, pipeVars
    <3>3. Leads(0, First)'
      BY DEF Leads
    <3>4. Bound' = {First}
      BY <1>6, <2>1, <3>1, BoundFirst DEF Initialize, BoundInv
    <3>5. 1..served' = {} /\ plugin' # "new"
      BY <2>1, <3>2
    <3> QED BY <3>1, <3>2, <3>3, <3>4, <3>5 DEF BoundInv
  <2>2. CASE UNCHANGED daemonVars /\ plugin' = "closed"
    BY <1>4, <1>5, <1>6, <2>2 DEF Initialize, daemonVars, sessionVars, pipeVars, Made
  <2> QED BY <1>6, <2>1, <2>2 DEF Initialize
<1>7. ASSUME NEW c \in Calls, NEW method \in Methods, Call(c, method) PROVE BoundInv'
  BY <1>5, <1>7 DEF Call, daemonVars, sessionVars, pipeVars
<1>8. ASSUME NEW c \in Calls, Step(c) PROVE BoundInv'
  <2>1. pc[c] # "idle" /\ plugin' = plugin /\ UNCHANGED <<sessions, served, reply>>
    BY <1>8 DEF Step, Lock, Write, Receive, TimeOut, EndOfFile, Broken, Return, daemonVars,
                sessionVars, pipeVars
  <2>2. Made # {} /\ plugin # "new"
    BY <1>4, <2>1 DEF Made
  <2> QED BY <1>5, <2>1, <2>2
<1>9. ASSUME Background \/ Shutdown \/ DaemonDies \/ Quiet \/ UNCHANGED vars
      PROVE  BoundInv'
  <2>1. /\ UNCHANGED <<sessions, served, reply, session, pc>>
        /\ plugin' = plugin \/ (plugin = "open" /\ plugin' = "closed")
    BY <1>9 DEF Background, WarmPrefetch, IntegrationEnds, Shutdown, DaemonDies, Quiet,
                vars, daemonVars, sessionVars, pipeVars, threadVars
  <2> QED BY <1>5, <2>1 DEF Made
<1> QED BY <1>6, <1>7, <1>8, <1>9, ServeBound DEF Next

LEMMA InitSwitch == Init => SwitchInv
<1> SUFFICES ASSUME Init PROVE SwitchInv
  OBVIOUS
<1>1. Made = {} /\ Waiting = {} /\ Unsent = {} /\ Len(written) = 0 /\ served = 0
  BY DEF Init, Made, Waiting, Unsent
<1>2. MainInv
  BY <1>1 DEF MainInv
<1>3. ChainInv
  BY <1>1 DEF ChainInv, PluginMeets, Leads, Init
<1>4. BoundInv
  BY <1>1 DEF BoundInv, Init, DaemonInit, Bound
<1> QED BY <1>2, <1>3, <1>4 DEF SwitchInv

LEMMA SwitchKept == ASSUME TypeInv, SwitchInv, [Next]_vars PROVE SwitchInv'
BY MainKept, ChainKept, BoundKept DEF SwitchInv

(* With every request handled and no switch under way, the daemon knows    *)
(* the plugin's session and no other.                                      *)
THEOREM BoundIsPlugins == Spec => []OneSession
<1>1. ASSUME TypeInv, SwitchInv PROVE OneSession
  <2> SUFFICES ASSUME plugin = "open", daemon = "up", served = Len(written),
                      SwitchCalls \cap Waiting = {}
               PROVE  Bound = {session}
    BY DEF OneSession, Bound
  <2>1. PICK n \in Nat, s \in Sessions : n = served /\ Bound = {s} /\ Leads(n, s)
    BY <1>1 DEF SwitchInv, BoundInv
  <2>2. NoSwitchReads
    BY DEF NoSwitchReads, SwitchCalls, Waiting, Returned
  <2>3. Leads(n, session)
    BY <1>1, <2>1, <2>2 DEF SwitchInv, ChainInv, PluginMeets
  <2> QED BY <2>1, <2>3, LeadsOnce
<1> QED BY <1>1, InitTyped, NextTyped, InitSwitch, SwitchKept, PTL DEF Spec

(* A request is refused for its session only when a switch that was under  *)
(* way when it was made reached the daemon before it.                      *)
THEOREM RefusedWhenOvertaken == Spec => []RefusedOnlyAfterSwitch
<1>1. ASSUME TypeInv, SwitchInv PROVE RefusedOnlyAfterSwitch
  <2>1. \A j \in 1..served : written[j] \in Calls
    BY <1>1 DEF TypeInv, TypeOK
  <2> QED BY <1>1, <2>1
          DEF RefusedOnlyAfterSwitch, SwitchInv, BoundInv, Overtaken, IsSwitch
<1> QED BY <1>1, InitTyped, NextTyped, InitSwitch, SwitchKept, PTL DEF Spec
-----------------------------------------------------------------------------
(* The lock, the pipe's room and the end of the daemon never leave all the *)
(* calls waiting on each other.                                            *)

(* The guards of the steps of a call, and of the daemon's loop.            *)
MayServe == daemon = "up" /\ served < Len(written)
MayStep(c) ==
    \/ pc[c] = "called" /\ (lock = None \/ plugin = "closed")
    \/ pc[c] = "locked" /\ (daemon = "dead" \/ Len(written) < served + PipeRoom)
    \/ pc[c] = "reading" /\ (Readable => received < served \/ (daemon = "dead" /\ received = served))

(* Whoever takes a step had its guard.                                     *)
LEMMA StepsMay ==
    /\ Serve => MayServe
    /\ \A c \in Calls : Step(c) => MayStep(c)
BY DEF Serve, MayServe, Step, MayStep, Lock, LockIsFree, Write, Receive, TimeOut, EndOfFile, Broken

(* Who holds the lock is using it: a call that ends gives it back however  *)
(* it ends, and one that ends without it leaves it to its holder.          *)
HolderLives == lock # None => lock \in Calls /\ pc[lock] \in {"locked", "reading"}

LEMMA HolderKept == ASSUME TypeInv, HolderLives, [Next]_vars PROVE HolderLives'
<1>1. pc \in [Calls -> Steps] /\ None \notin Calls
  BY ConstantTypes DEF TypeInv, TypeOK
<1>2. ASSUME UNCHANGED <<pc, lock>> PROVE HolderLives'
  BY <1>2 DEF HolderLives
<1>3. ASSUME NEW c \in Calls, NEW method, Call(c, method) PROVE HolderLives'
  BY <1>1, <1>3 DEF Call, HolderLives
<1>4. ASSUME NEW c \in Calls, Lock(c) PROVE HolderLives'
  BY <1>1, <1>4 DEF Lock, HolderLives
<1>5. ASSUME NEW c \in Calls, Write(c) PROVE HolderLives'
  BY <1>1, <1>5 DEF Write, HolderLives
<1>6. ASSUME NEW c \in Calls, NEW how, Return(c, how) PROVE HolderLives'
  BY <1>1, <1>6 DEF Return, LockAfter, HolderLives
<1>7. ASSUME NEW c \in Calls, Step(c) PROVE HolderLives'
  BY <1>4, <1>5, <1>6, <1>7 DEF Step, Receive, TimeOut, EndOfFile, Broken
<1>8. ASSUME Initialize \/ Serve \/ Background \/ Shutdown \/ DaemonDies \/ Quiet \/ UNCHANGED vars
      PROVE  HolderLives'
  BY <1>2, <1>8 DEF Initialize, Serve, Background, Shutdown, DaemonDies, Quiet, vars, threadVars
<1> QED BY <1>3, <1>7, <1>8 DEF Next

(* Whatever the number of calls and the room in the pipe: while a call has *)
(* not returned, some call or the daemon's loop has a step whose guard     *)
(* holds.  A full pipe is one the daemon reads from, an empty one a reason *)
(* to time out, and the end of the daemon ends the calls in the pipe.      *)
THEOREM SomebodyGoesOn == Spec => [](Waiting # {} => MayServe \/ \E c \in Waiting : MayStep(c))
<1>1. ASSUME TypeInv, HolderLives, Waiting # {}
      PROVE  MayServe \/ \E c \in Waiting : MayStep(c)
  <2>1. /\ pc \in [Calls -> Steps] /\ PipeRoom \in Nat \ {0}
        /\ Len(written) \in Nat /\ served \in 0..Len(written)
        /\ drained \in 0..served /\ received \in 0..drained
        /\ daemon \in {"up", "dead"}
    BY <1>1, ConstantTypes DEF TypeInv, TypeOK
  <2>2. \A c \in Waiting : c \in Calls /\ pc[c] \in {"called", "locked", "reading"}
    BY <2>1 DEF Waiting, Made, Steps, Returned
  <2>3. CASE lock = None
    <3>1. PICK c \in Waiting : TRUE
      BY <1>1
    <3>2. pc[c] = "called"
      BY <1>1, <2>2, <2>3, ConstantTypes DEF TypeInv, OneInPipe
    <3> QED BY <2>3, <3>1, <3>2 DEF MayStep
  <2>4. CASE lock # None
    <3>1. lock \in Waiting /\ pc[lock] \in {"locked", "reading"}
      BY <1>1, <2>4 DEF HolderLives, Waiting, Made, Returned
    <3>2. CASE pc[lock] = "locked"
      <4>1. \/ daemon = "dead" \/ Len(written) < served + PipeRoom
            \/ daemon = "up" /\ served < Len(written)
        BY <2>1
      <4> QED BY <3>1, <3>2, <4>1 DEF MayStep, MayServe
    <3>3. CASE pc[lock] = "reading"
      <4>1. Readable => received < served \/ (daemon = "dead" /\ received = served)
        BY <2>1 DEF Readable
      <4> QED BY <3>1, <3>3, <4>1 DEF MayStep
    <3> QED BY <3>1, <3>2, <3>3
  <2> QED BY <2>3, <2>4
<1>2. Init => HolderLives
  BY DEF Init, HolderLives
<1> QED BY <1>1, <1>2, HolderKept, InitTyped, NextTyped, PTL DEF Spec
=============================================================================
