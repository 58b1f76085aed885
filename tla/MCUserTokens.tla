---------------------------- MODULE MCUserTokens ----------------------------
(* UserTokens on a small instance: all the sets are symmetric.             *)
EXTENDS UserTokens, TLC

Interchangeable ==
  Permutations(Tokens) \union Permutations(Requests) \union Permutations(Admins)
=============================================================================
