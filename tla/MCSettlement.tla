----------------------------- MODULE MCSettlement -----------------------------
(* An LDK invoice offered over both protocols, one over x402 alone, and a   *)
(* mint-backed one.                                                          *)
EXTENDS Settlement, TLC

CONSTANTS ldk, mint, plain, r1, r2

MCKeys == {ldk, mint, plain}
MCMintKeys == {mint}
MCOffers == [k \in MCKeys |-> CASE k = mint -> {"l402"} [] k = plain -> {"x402"} [] OTHER -> {"x402", "l402"}]
MCOneKey == {ldk}
MCNoMint == {}
MCOneOffer == [k \in MCOneKey |-> {"x402", "l402"}]
MCRequests == {r1, r2}
MCSymmetry == Permutations(MCRequests)
===============================================================================
