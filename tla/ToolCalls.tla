----------------------------- MODULE ToolCalls ------------------------------
(***************************************************************************)
(* The calls in flight: an HTTP request, an MCP tool call or a background  *)
(* goroutine each.  The servers run them concurrently, so between two      *)
(* store methods of one call any other call may take a step.               *)
(***************************************************************************)
EXTENDS MemoryStore

CONSTANTS
    Calls,
    NoId, NoCopy    \* no memory at hand; no row read

VARIABLE call       \* call[c]: the request of c and how far c is

Ids == Episodes \cup Rules \cup Pitfalls
Outcomes == {"none", "ok", "error"}

(* op, id and arg are the request.  copy is the row a call read and works  *)
(* on, cur its id; todo holds what a loop of the call has left.  updated,  *)
(* skipped and failed are the lists a correction reports, found what a     *)
(* search of the call answered.  counted and raised only serve the         *)
(* properties: the frequency the call added, the trust it raised.          *)
Idle(op, id, arg) ==
    [op |-> op, id |-> id, arg |-> arg, pc |-> "start", copy |-> NoCopy, cur |-> NoId,
     todo |-> {}, updated |-> {}, skipped |-> {}, failed |-> {}, found |-> {},
     counted |-> 0, raised |-> {}, outcome |-> "none"]

At(c, op, pc) == call[c].op = op /\ call[c].pc = pc
Ended(r, outcome) == [r EXCEPT !.pc = "done", !.copy = NoCopy, !.cur = NoId, !.outcome = outcome]
End(c, outcome) == call' = [call EXCEPT ![c] = Ended(@, outcome)]
Goto(c, pc) == call' = [call EXCEPT ![c].pc = pc]

(* c holds the row of i and will write from it.                            *)
Holds(c, i) == call[c].copy # NoCopy /\ call[c].cur = i
=============================================================================
