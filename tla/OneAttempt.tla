------------------------------ MODULE OneAttempt ------------------------------
(***************************************************************************)
(* What every payment method of Geata promises: a payment is consumed      *)
(* durably before its request reaches the handler, and it lets at most one *)
(* request through.  An attempt may be lost (the payment is consumed and   *)
(* nobody gets in), but never doubled.                                     *)
(***************************************************************************)
EXTENDS Naturals

CONSTANT Payments

VARIABLES
  consumed,  \* payments recorded as used
  attempts   \* requests each payment has let through

Init ==
  /\ consumed = {}
  /\ attempts = [p \in Payments |-> 0]

Consume(p) ==
  /\ p \notin consumed
  /\ consumed' = consumed \union {p}
  /\ UNCHANGED attempts

Attempt(p) ==
  /\ p \in consumed
  /\ attempts[p] = 0
  /\ attempts' = [attempts EXCEPT ![p] = 1]
  /\ UNCHANGED consumed

Next == \E p \in Payments : Consume(p) \/ Attempt(p)

Spec == Init /\ [][Next]_<<consumed, attempts>>
===============================================================================
