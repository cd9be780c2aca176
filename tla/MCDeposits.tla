------------------------------ MODULE MCDeposits ------------------------------
(* Quotes are integers, since recovery visits them in the order of their ids. *)
EXTENDS Deposits
===============================================================================
