---------------------------- MODULE MCRoundRobin ----------------------------
(* RoundRobin on three keys.                                               *)
EXTENDS RoundRobin, TLC

Interchangeable == Permutations(Callers)

(* Bound: at most one of the keys is out of service at a time.             *)
TwoInService == Cardinality(Active) >= MaxId - 1
=============================================================================
