---------------------------- MODULE MCGatedWrites ----------------------------
(***************************************************************************)
(* Instances of GatedWrites for TLC.  The events: one for each way through *)
(* the gate, one reference short of the threshold, and similarity that is  *)
(* not transitive (Cache is similar to both Redis and Latency, which are   *)
(* not similar to each other).                                             *)
(***************************************************************************)
EXTENDS GatedWrites, TLC

CONSTANTS p1, p2

Ev(project, topic, confirmed, surprising, refs) ==
    [project |-> project, topic |-> topic, confirmed |-> confirmed,
     surprising |-> surprising, refs |-> refs]

Confirmed == Ev(p1, {"redis"}, TRUE, FALSE, 0)
Repeated == Ev(p1, {"redis"}, FALSE, FALSE, 1)
Cache == Ev(p1, {"redis", "latency"}, FALSE, TRUE, 0)
Latency == Ev(p1, {"latency"}, FALSE, FALSE, 2)
Elsewhere == Ev(p2, {"redis"}, TRUE, FALSE, 0)

OneProject == {Confirmed, Repeated, Cache, Latency}
TwoProjects == {Confirmed, Repeated, Elsewhere}

(* The writes differ only in the event each carries.                       *)
Symmetry == Permutations(Writes)
=============================================================================
