--------------------------- MODULE MCMemoryWatcher ---------------------------
(***************************************************************************)
(* Instances of MemoryWatcher for TLC: one file whose memory is edited     *)
(* once, and one memory a custom adapter reads.                            *)
(***************************************************************************)
EXTENDS MemoryWatcher

CONSTANTS draft, final, note, claude, custom

Sources == [i \in Items |-> IF i = note THEN "note" ELSE "doc"]
Adapters == [i \in Items |-> IF i = note THEN custom ELSE claude]
=============================================================================
