--------------------------- MODULE MCHermesBridge ---------------------------
(***************************************************************************)
(* Instances of HermesBridge for TLC.                                      *)
(***************************************************************************)
EXTENDS HermesBridge, TLC

(* The calls differ only in the request each carries.                      *)
Symmetry == Permutations(Calls)
=============================================================================
