--------------------------- MODULE MCCashuAdmission ---------------------------
(* Two tokens that share a proof, a cheap and a dear site; only the first   *)
(* token is worth the dear price.                                           *)
EXTENDS CashuRetry

CONSTANTS p1, p2, p3, t1, t2, cheap, dear, r1, r2

MCProofs == {p1, p2, p3}
MCTokens == {t1, t2}
MCProofsOf == [t \in MCTokens |-> IF t = t1 THEN {p1, p2} ELSE {p2, p3}]
MCNet == [t \in MCTokens |-> IF t = t1 THEN 3 ELSE 2]
MCTerms == {cheap, dear}
MCPrice == [c \in MCTerms |-> IF c = cheap THEN 2 ELSE 3]
MCRequests == {r1, r2}
===============================================================================
