------------------------------- MODULE MCPayout -------------------------------
(* Operation ids are interchangeable.                                       *)
EXTENDS Payout, TLC

Symmetry == Permutations(Ops)
===============================================================================
