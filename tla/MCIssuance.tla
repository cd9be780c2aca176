------------------------------ MODULE MCIssuance ------------------------------
(* Requests, clients, receivers and Capacity objects are interchangeable.   *)
EXTENDS Issuance, TLC

Symmetry == Permutations(Requests) \union Permutations(Clients)
              \union Permutations(Receivers) \union Permutations(Generations)
===============================================================================
