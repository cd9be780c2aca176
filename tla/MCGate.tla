-------------------------------- MODULE MCGate --------------------------------
(* A proxy behind both Lightning protocols with every limit set, a dearer    *)
(* site that answers itself, takes Cashu too and drops the limits, no site.  *)
EXTENDS Gate, TLC

CONSTANTS q1, q2, c1, t1, ldk, a, b

Most(max) == [max |-> max, prefix |-> 64]
Policy(amount, protocols) ==
  [amount |-> amount, receiver |-> ldk, protocols |-> protocols, binds_cookie |-> TRUE]

Paid == [https |-> TRUE, max_body |-> 1, payment_verification |-> Most(2),
         capacity |-> Most(1), rate_limit |-> Most(1), cashu |-> None,
         lightning |-> Policy(1, {"x402", "l402"}), handler |-> "proxy"]
Dearer == [Paid EXCEPT !.lightning = Policy(2, {"l402"}), !.cashu = 1,
                        !.capacity = None, !.rate_limit = None, !.handler = "respond"]
MCSites == {Paid, Dearer}

Plain == [client |-> c1, tls |-> TRUE, local |-> FALSE, host |-> TRUE, acme |-> FALSE,
          declared |-> FALSE, length |-> 0, bindable |-> TRUE, idempotent |-> TRUE,
          content |-> a, cookie |-> a, cashu |-> 0, x402 |-> 0, l402 |-> 0]
MCShapes ==
  {Plain, [Plain EXCEPT !.l402 = 1], [Plain EXCEPT !.x402 = 1, !.length = 1],
   [Plain EXCEPT !.l402 = 1, !.cookie = b],
   [Plain EXCEPT !.cashu = 1, !.length = 2], [Plain EXCEPT !.cashu = 1, !.l402 = 1],
   [Plain EXCEPT !.tls = FALSE], [Plain EXCEPT !.declared = TRUE, !.length = 2]}

MCRequests == {q1, q2}
MCSymmetry == Permutations(MCRequests)
MCClients == {c1}
MCTokens == {t1}
MCWorth == [t \in MCTokens |-> 1]
===============================================================================
