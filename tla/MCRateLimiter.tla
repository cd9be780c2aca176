----------------------------- MODULE MCRateLimiter ----------------------------
(* The clients of a shard are interchangeable.                              *)
EXTENDS RateLimiter, TLC

Symmetry == Permutations(ClientKeys)
===============================================================================
