---------------------------- MODULE MCKeyManager ----------------------------
(* KeyManager on a small instance: callers are interchangeable.            *)
EXTENDS KeyManager, TLC

Interchangeable == Permutations(Callers)
=============================================================================
