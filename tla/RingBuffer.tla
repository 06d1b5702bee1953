----------------------------- MODULE RingBuffer -----------------------------
(***************************************************************************)
(* The fixed-size ring of working-memory summaries, as a value: a push     *)
(* writes at the head and moves it around, a read starts size slots behind *)
(* the head.                                                               *)
(***************************************************************************)
EXTENDS Integers, Sequences

CONSTANTS
    Summaries,   \* what a ring may hold
    NoSummary,   \* the content of a slot nothing was pushed to
    MaxSize      \* slots of a ring

ASSUME RingAssumption == MaxSize \in Nat \ {0} /\ NoSummary \notin Summaries

Ring == [items : [0..MaxSize - 1 -> Summaries \cup {NoSummary}],
         head : 0..MaxSize - 1,
         size : 0..MaxSize]

NewRing == [items |-> [i \in 0..MaxSize - 1 |-> NoSummary], head |-> 0, size |-> 0]

(* Mutant: the size grows past the number of slots.                        *)
PushUncapped(r, s) ==
    [items |-> [r.items EXCEPT ![r.head] = s],
     head |-> (r.head + 1) % MaxSize,
     size |-> r.size + 1]

Push(r, s) ==
    [items |-> [r.items EXCEPT ![r.head] = s],
     head |-> (r.head + 1) % MaxSize,
     size |-> IF r.size < MaxSize THEN r.size + 1 ELSE r.size]

(* The slot of the i-th oldest summary, counted from 1.                    *)
Slot(r, i) == (r.head - r.size + (i - 1) + MaxSize) % MaxSize

GetAll(r) == [i \in 1..r.size |-> r.items[Slot(r, i)]]
=============================================================================
