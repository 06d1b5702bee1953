--------------------------- MODULE MCWritePipeline ---------------------------
(***************************************************************************)
(* Instances of WritePipeline for TLC.  The events are chosen so that      *)
(* every verdict occurs: an append (same topic), a coverage (same subject, *)
(* newer, other wording), a restatement, a directive reversal with the     *)
(* same wording, an anchored and an unanchored entity, an event without a  *)
(* time, and an explicit time inside a second.                             *)
(***************************************************************************)
EXTENDS WritePipeline, TLC

CONSTANTS EntityA

Ev(topic, subject, wording, polarity, entity, at) ==
    [topic |-> topic, subject |-> subject, wording |-> wording,
     polarity |-> polarity, entity |-> entity, at |-> at]

UsePostgres == Ev("db", "storage", "use-pg", "affirmative", NoEntity, 2)
AvoidPostgres == Ev("db", "storage", "use-pg", "prohibitive", NoEntity, 5)
UseSqlite == Ev("db", "storage", "use-sqlite", "neutral", EntityA, 0)
Migrated == Ev("ops", "storage", "migrated", "neutral", NoEntity, 3)
PoolSize == Ev("db", "pool", "pool-size", "neutral", NoEntity, 1)

DaemonEvents == {UsePostgres, AvoidPostgres, UseSqlite, Migrated, PoolSize}
ToolEvents == {UsePostgres, AvoidPostgres, Migrated, PoolSize}

(* The writes differ only in the event each carries.                       *)
Symmetry == Permutations(Writes)
=============================================================================
