---------------------------- MODULE DepositsProofs ----------------------------
(***************************************************************************)
(* The safety of Lightning deposits, for any quotes, batch, capacities,    *)
(* lifetimes and number of faults.                                         *)
(*                                                                         *)
(* A quote is settled when its funds were received, or when it is unpaid   *)
(* past the grace and so can no longer be paid.  Being settled is stable.  *)
(* Everything on the way to forgetting a quote (a retirement read, decided *)
(* or still being written) is about a settled quote; everything on the way *)
(* to associating one is about a quote whose invoice still runs.  So the   *)
(* two never meet, however late a cancelled request's write commits.       *)
(***************************************************************************)
EXTENDS Deposits, FiniteSetTheorems, WellFoundedInduction, TLAPS

Settled(q) == q \in received \/ (mint[q] = "unpaid" /\ past_quote_grace(q))

Inserting(q) ==
  (challenge.phase = "associate" /\ challenge.quote = q) \/ <<"insert", q>> \in detached

\* What the three stores say about one quote.
LedgerInv ==
  /\ \A q \in Quotes :
       /\ q \in received => mint[q] = "issued"
       /\ q \in wallet => mint[q] # "absent"
       /\ seen[q] = "paid" => mint[q] \in {"paid", "issued"}
       /\ mint[q] = "unpaid" => q \in wallet \/ past_quote_grace(q)
       /\ mint[q] # "absent" => remembered
  /\ challenge.phase # "idle" => remembered

InsertInv ==
  /\ \A q \in Quotes : Inserting(q) => q \in wallet \union received /\ now < expiry[q]
  /\ challenge.phase = "associate" => challenge.quote \in Quotes

\* What the pass, and writes that outlived one, are about to do.
RetireInv ==
  /\ \A q \in Quotes :
       \/ <<"retire", q>> \in detached \/ <<"remove", q>> \in detached
       \/ pass.phase \in {"journal", "remove", "unassociate"} /\ q = pass.quote
       \/ q \in pass.retired
       => Settled(q)
  /\ \A q \in Quotes :
       (pass.phase = "remove" /\ q = pass.quote) \/ q \in pass.retired
       => association[q] # "live" \/ q \in received

PassInv ==
  /\ pass.phase # "idle" => pass.time <= now /\ now <= pass.time + 1
  /\ pass.phase \in {"recover", "check", "handle"} =>
       \A q \in Quotes : association[q] = "live" /\ q \notin pass.associated =>
         pass.time < expiry[q]
  /\ pass.phase \in {"check", "handle"} => \A q \in pass.list : mint[q] # "absent"
  /\ pass.phase \in {"handle", "journal", "remove", "unassociate"} => pass.quote \in Quotes

\* The lists are finite and long enough for the visits that are left.
ListInv ==
  /\ IsFiniteSet(wallet) /\ IsFiniteSet(Associated)
  /\ IsFiniteSet(pass.list) /\ pass.left <= Cardinality(pass.list)

IInv ==
  /\ TypeOK /\ DepositsKept /\ LiveIsResolvable /\ RetiredIsSettled
  /\ LedgerInv /\ InsertInv /\ RetireInv /\ PassInv /\ ListInv

USE DEF NoQuote, NoChallenge, NoPass, Settled, past_quote_grace, Inserting, Fault, store, memory

-----------------------------------------------------------------------------
\* The constants, one by one.
LEMMA Positive ==
  /\ Quotes \subseteq Nat \ {0} /\ Failing \subseteq Quotes
  /\ Batch \in Nat \ {0} /\ Expiry \in Nat \ {0} /\ GRACE \in Nat \ {0} /\ RETAIN \in Nat \ {0}
  /\ MaxQuotes \in Nat \ {0} /\ MaxRecords \in Nat \ {0}
  /\ MaxTime \in Nat /\ MaxFaults \in Nat
BY DepositConstants

USE Positive

\* A set of quotes that is not empty has a least one.
LEMMA Least ==
  ASSUME NEW S \in SUBSET Nat, S # {}
  PROVE  \E x \in S : \A y \in S : x <= y
<1> DEFINE R == OpToRel(<, Nat)
<1>1. IsWellFoundedOn(R, Nat)
  BY NatLessThanWellFounded, ZenonT(30)
<1>2. \A x, y \in Nat : <<y, x>> \in R <=> y < x
  BY DEF OpToRel
<1> HIDE DEF R
<1>3. PICK x \in S : \A y \in S : ~(<<y, x>> \in R)
  BY <1>1, WFMin, ZenonT(30)
<1>4. ASSUME NEW y \in S PROVE x <= y
  <2>1. x \in Nat /\ y \in Nat /\ ~(<<y, x>> \in R)
    BY <1>3
  <2>2. ~(y < x)
    BY <1>2, <2>1
  <2> QED  BY <2>1, <2>2
<1> QED  BY <1>4

\* The quote the cursor moves to is one of the list.
LEMMA AfterIn ==
  ASSUME NEW list \in SUBSET Quotes, list # {}, NEW cursor \in Nat
  PROVE  After(cursor, list) \in list
<1> DEFINE later == {q \in list : q > cursor}
           from == IF later # {} THEN later ELSE list
<1>1. from \in SUBSET Nat /\ from # {} /\ from \subseteq list
  BY ZenonT(30)
<1>2. \E q \in from : \A p \in from : q <= p
  <2> HIDE DEF from
  <2> QED  BY <1>1, Least
<1>3. After(cursor, list) = CHOOSE q \in from : \A p \in from : q <= p
  BY DEF After
<1> HIDE DEF from
<1> QED  BY <1>1, <1>2, <1>3, ZenonT(30)

\* The next visit: the list is not empty, and becomes shorter with the visits.
LEMMA NextVisit ==
  ASSUME IInv, pass.left > 0, NEW cursor \in Quotes \union {NoQuote}
  PROVE  LET q == After(cursor, pass.list)
         IN /\ q \in pass.list /\ q \in Quotes
            /\ IsFiniteSet(pass.list \ {q})
            /\ pass.left - 1 <= Cardinality(pass.list \ {q})
            /\ pass.left - 1 \in 0 .. Batch
<1>1. pass.list \in SUBSET Quotes /\ pass.left \in 0 .. Batch
  BY DEF IInv, TypeOK
<1>2. IsFiniteSet(pass.list) /\ pass.left <= Cardinality(pass.list)
  BY DEF IInv, ListInv
<1>3. pass.list # {}
  BY <1>1, <1>2, FS_EmptySet
<1>4. After(cursor, pass.list) \in pass.list
  BY <1>1, <1>3, AfterIn
<1> DEFINE q == After(cursor, pass.list)
<1>5. q \in pass.list
  BY <1>4
<1> HIDE DEF q
<1>6. IsFiniteSet(pass.list \ {q}) /\ Cardinality(pass.list \ {q}) = Cardinality(pass.list) - 1
  BY <1>2, <1>5, FS_RemoveElement, ZenonT(30)
<1>7. Cardinality(pass.list) \in Nat
  BY <1>2, FS_CardinalityType
<1> QED  BY <1>1, <1>2, <1>5, <1>6, <1>7 DEF q

\* A pass visits no more than its list has.
LEMMA VisitsIn ==
  ASSUME NEW list, IsFiniteSet(list)
  PROVE  Visits(list) \in 0 .. Batch /\ Visits(list) <= Cardinality(list)
BY FS_CardinalityType DEF Visits

\* Changing one association keeps their number finite.
LEMMA OneAssociation ==
  ASSUME IInv, NEW q \in Quotes, NEW value,
         association' = [association EXCEPT ![q] = value]
  PROVE  IsFiniteSet(Associated')
<1>1. IsFiniteSet(Associated \union {q})
  BY FS_AddElement DEF IInv, ListInv
<1>2. Associated' \subseteq Associated \union {q}
  BY DEF IInv, Associated
<1> QED  BY <1>1, <1>2, FS_Subset

\* A quote that is being associated is not past its grace.
LEMMA InsertingRuns ==
  ASSUME IInv, NEW q \in Quotes, Inserting(q)
  PROVE  now < expiry[q] /\ (Settled(q) => q \in received)
BY DEF IInv, TypeOK, InsertInv

\* A write that outlived its request concerns one quote.
LEMMA OneWrite ==
  ASSUME IInv, NEW w \in detached, CommitDetached(w)
  PROVE  \E kind \in {"insert", "retire", "remove"}, q \in Quotes :
           /\ w = <<kind, q>>
           /\ kind = "insert" => association' =
                [association EXCEPT ![q] = IF CanAssociate(q) THEN "live" ELSE association[q]]
           /\ kind = "retire" => association' = [association EXCEPT ![q] = "retired"]
           /\ kind = "remove" => association' = [association EXCEPT ![q] = "none"]
<1>1. w \in {"insert", "retire", "remove"} \X Quotes
  BY DEF IInv, TypeOK
<1>2. w[1] \in {"insert", "retire", "remove"} /\ w[2] \in Quotes /\ w = <<w[1], w[2]>>
  BY <1>1
<1> DEFINE q == w[2]
           inserted == IF CanAssociate(q) THEN "live" ELSE association[q]
           value == [insert |-> inserted, retire |-> "retired", remove |-> "none"]
<1>3. association' = [association EXCEPT ![q] = value[w[1]]]
  BY DEF CommitDetached
<1>4. value["insert"] = inserted /\ value["retire"] = "retired" /\ value["remove"] = "none"
  OBVIOUS
<1> HIDE DEF value
<1>5. /\ w[1] = "insert" => association' = [association EXCEPT ![q] = inserted]
      /\ w[1] = "retire" => association' = [association EXCEPT ![q] = "retired"]
      /\ w[1] = "remove" => association' = [association EXCEPT ![q] = "none"]
  BY <1>3, <1>4, ZenonT(30)
<1> QED  BY <1>2, <1>5

\* Forgetting quotes keeps the wallet within its capacity.
LEMMA SmallerWallet ==
  ASSUME IInv, wallet' \in SUBSET wallet
  PROVE  wallet' \subseteq Quotes /\ IsFiniteSet(wallet') /\ Cardinality(wallet') <= MaxQuotes
<1>1. IsFiniteSet(wallet) /\ Cardinality(wallet) <= MaxQuotes
  BY DEF IInv, TypeOK, ListInv
<1>2. IsFiniteSet(wallet') /\ Cardinality(wallet') <= Cardinality(wallet)
  BY <1>1, FS_Subset
<1>3. Cardinality(wallet) \in Nat /\ Cardinality(wallet') \in Nat
  BY <1>1, <1>2, FS_CardinalityType
<1> QED  BY <1>1, <1>2, <1>3 DEF IInv, TypeOK

-----------------------------------------------------------------------------
(* Every action keeps the invariant.                                        *)

\* A settled quote stays settled, and time waits for inserts and passes.
LEMMA TickKeeps ==
  ASSUME IInv, Tick
  PROVE  IInv'
<1>1. TypeOK'
  BY DEF IInv, TypeOK, Tick
<1>2. RetiredIsSettled'
  BY DEF IInv, TypeOK, RetiredIsSettled, Tick
<1>3. LedgerInv'
  BY DEF IInv, TypeOK, LedgerInv, Tick
<1>4. InsertInv'
  BY DEF IInv, InsertInv, Tick
<1>5. RetireInv'
  BY DEF IInv, TypeOK, RetireInv, Tick
<1>6. PassInv'
  BY DEF IInv, TypeOK, PassInv, Tick
<1>7. DepositsKept' /\ LiveIsResolvable' /\ ListInv'
  BY ZenonT(30) DEF IInv, DepositsKept, LiveIsResolvable, ListInv, Associated, Tick
<1> QED  BY <1>1, <1>2, <1>3, <1>4, <1>5, <1>6, <1>7 DEF IInv

\* The mint is remembered first.
LEMMA StartChallengeKeeps ==
  ASSUME IInv, StartChallenge
  PROVE  IInv'
<1>1. TypeOK'
  BY DEF IInv, TypeOK, StartChallenge
<1>2. DepositsKept'
  BY DEF IInv, DepositsKept, StartChallenge
<1>3. LedgerInv'
  BY DEF IInv, LedgerInv, StartChallenge
<1>4. InsertInv'
  BY DEF IInv, InsertInv, StartChallenge
<1>5. LiveIsResolvable' /\ RetiredIsSettled' /\ RetireInv' /\ PassInv' /\
      ListInv'
  BY DEF IInv, LiveIsResolvable, RetiredIsSettled, RetireInv, PassInv,
     ListInv, Associated, StartChallenge
<1> QED  BY <1>1, <1>2, <1>3, <1>4, <1>5 DEF IInv

\* A quote that is being inserted is not past its grace.
LEMMA AssociateKeeps ==
  ASSUME IInv, Associate
  PROVE  IInv'
<1>1. TypeOK'
  BY ZenonT(30) DEF IInv, TypeOK, Associate
<1>2. LiveIsResolvable'
  BY ZenonT(30) DEF IInv, TypeOK, LiveIsResolvable, InsertInv, Associate
<1>3. RetiredIsSettled'
  BY DEF IInv, RetiredIsSettled, Associate
<1>4. LedgerInv'
  BY DEF IInv, LedgerInv, Associate
<1>5. InsertInv'
  BY DEF IInv, InsertInv, Associate
<1>6. RetireInv'
  <2>1. challenge.quote \in Quotes /\ (Settled(challenge.quote) => challenge.quote \in received)
    BY InsertingRuns, ZenonT(30) DEF IInv, InsertInv, Associate
  <2> QED  BY <2>1, ZenonT(30) DEF IInv, TypeOK, RetireInv, Associate
<1>7. PassInv'
  <2>1. challenge.quote \in Quotes /\ now < expiry[challenge.quote]
    BY InsertingRuns, ZenonT(30) DEF IInv, InsertInv, Associate
  <2> QED  BY <2>1 DEF IInv, TypeOK, PassInv, Associate
<1>8. ListInv'
  <2>1. challenge.quote \in Quotes
    BY DEF IInv, InsertInv, Associate
  <2>2. IsFiniteSet(Associated')
    BY <2>1, OneAssociation, ZenonT(30) DEF Associate
  <2> QED  BY <2>2 DEF IInv, ListInv, Associate
<1>9. DepositsKept'
  BY DEF IInv, DepositsKept, Associate
<1> QED  BY <1>1, <1>2, <1>3, <1>4, <1>5, <1>6, <1>7, <1>8, <1>9 DEF IInv

\* The quote stays in the wallet, without an association.
LEMMA FailChallengeKeeps ==
  ASSUME IInv, FailChallenge
  PROVE  IInv'
<1>1. TypeOK'
  BY DEF IInv, TypeOK, FailChallenge
<1>2. LedgerInv'
  BY DEF IInv, LedgerInv, FailChallenge
<1>3. InsertInv'
  BY DEF IInv, InsertInv, FailChallenge
<1>4. DepositsKept' /\ LiveIsResolvable' /\ RetiredIsSettled' /\ RetireInv'
      /\ PassInv' /\ ListInv'
  BY DEF IInv, DepositsKept, LiveIsResolvable, RetiredIsSettled, RetireInv,
     PassInv, ListInv, Associated, FailChallenge
<1> QED  BY <1>1, <1>2, <1>3, <1>4 DEF IInv

\* The insert goes on in a write of its own.
LEMMA CancelChallengeKeeps ==
  ASSUME IInv, CancelChallenge
  PROVE  IInv'
<1>1. TypeOK'
  BY DEF IInv, TypeOK, InsertInv, CancelChallenge
<1>2. LedgerInv'
  BY DEF IInv, LedgerInv, CancelChallenge
<1>3. InsertInv'
  BY DEF IInv, InsertInv, CancelChallenge
<1>4. RetireInv'
  BY DEF IInv, RetireInv, CancelChallenge
<1>5. DepositsKept' /\ LiveIsResolvable' /\ RetiredIsSettled' /\ PassInv' /\
      ListInv'
  BY DEF IInv, DepositsKept, LiveIsResolvable, RetiredIsSettled, PassInv,
     ListInv, Associated, CancelChallenge
<1> QED  BY <1>1, <1>2, <1>3, <1>4, <1>5 DEF IInv

\* A settled quote cannot be paid.
LEMMA PayInvoiceKeeps ==
  ASSUME IInv, NEW q \in Quotes, PayInvoice(q)
  PROVE  IInv'
<1>1. TypeOK'
  BY DEF IInv, TypeOK, PayInvoice
<1>2. DepositsKept'
  BY DEF IInv, TypeOK, DepositsKept, LedgerInv, PayInvoice
<1>3. RetiredIsSettled'
  BY DEF IInv, TypeOK, RetiredIsSettled, PayInvoice
<1>4. LedgerInv'
  BY DEF IInv, LedgerInv, PayInvoice
<1>5. RetireInv'
  BY DEF IInv, TypeOK, RetireInv, PayInvoice
<1>6. PassInv'
  BY DEF IInv, PassInv, PayInvoice
<1>7. LiveIsResolvable' /\ InsertInv' /\ ListInv'
  BY DEF IInv, LiveIsResolvable, InsertInv, ListInv, Associated, PayInvoice
<1> QED  BY <1>1, <1>2, <1>3, <1>4, <1>5, <1>6, <1>7 DEF IInv

\* A new quote is in the wallet, and its invoice runs.
LEMMA mint_invoiceKeeps ==
  ASSUME IInv, NEW q \in Quotes, mint_invoice(q)
  PROVE  IInv'
<1>1. TypeOK'
  <2>1. wallet' \subseteq Quotes /\ Cardinality(wallet') <= MaxQuotes
    <3>1. IsFiniteSet(wallet) /\ Cardinality(wallet) \in Nat
      BY FS_CardinalityType DEF IInv, ListInv
    <3>2. Cardinality(wallet \union {q}) \in {Cardinality(wallet), Cardinality(wallet) + 1}
      BY <3>1, FS_AddElement, ZenonT(30)
    <3> QED  BY <3>1, <3>2 DEF IInv, TypeOK, mint_invoice
  <2>2. expiry' \in [Quotes -> 0 .. MaxTime]
    BY DEF IInv, TypeOK, mint_invoice
  <2>3. received' \subseteq Quotes /\ minting' \subseteq Quotes
    BY ZenonT(30) DEF IInv, TypeOK, mint_invoice, Recovered
  <2> QED  BY <2>1, <2>2, <2>3 DEF IInv, TypeOK, mint_invoice
<1>2. DepositsKept'
  BY DEF IInv, DepositsKept, mint_invoice, Recovered
<1>3. LiveIsResolvable'
  BY DEF IInv, LiveIsResolvable, mint_invoice, Recovered
<1>4. RetiredIsSettled'
  BY DEF IInv, RetiredIsSettled, mint_invoice, Recovered
<1>5. LedgerInv'
  BY ZenonT(30) DEF IInv, TypeOK, LedgerInv, mint_invoice, Recovered
<1>6. InsertInv'
  <2>1. expiry'[q] = now + Expiry /\ (\A p \in Quotes \ {q} : expiry'[p] = expiry[p])
    BY ZenonT(30) DEF IInv, TypeOK, mint_invoice
  <2>2. now < expiry'[q]
    BY <2>1 DEF IInv, TypeOK
  <2>3. \A p \in Quotes \ {q} : Inserting(p)' => Inserting(p)
    BY DEF mint_invoice
  <2>4. received \subseteq received' /\ wallet' = wallet \union {q} /\ now' = now
    BY DEF mint_invoice, Recovered
  <2>5. challenge'.quote = q
    BY DEF mint_invoice
  <2> QED  BY <2>1, <2>2, <2>3, <2>4, <2>5 DEF IInv, InsertInv
<1>7. RetireInv'
  BY DEF IInv, RetireInv, mint_invoice, Recovered
<1>8. PassInv'
  BY SMTT(30) DEF IInv, TypeOK, PassInv, mint_invoice
<1>9. ListInv'
  BY FS_AddElement DEF IInv, ListInv, Associated, mint_invoice
<1> QED  BY <1>1, <1>2, <1>3, <1>4, <1>5, <1>6, <1>7, <1>8, <1>9 DEF IInv

\* Funds that the mint signed are received, or their saga is open.
LEMMA collect_mint_invoiceKeeps ==
  ASSUME IInv, NEW q \in Quotes, collect_mint_invoice(q)
  PROVE  IInv'
<1>1. TypeOK'
  <2>1. seen' \in [Quotes -> {"unpaid", "paid", "issued"}]
    BY DEF IInv, TypeOK, LedgerInv, collect_mint_invoice
  <2>2. Recovered \subseteq Quotes
    BY ZenonT(30) DEF IInv, TypeOK, Recovered
  <2>3. /\ mint' \in [Quotes -> {"absent", "unpaid", "paid", "issued"}]
        /\ minting' \subseteq Quotes /\ received' \subseteq Quotes
        /\ faults' \in 0 .. MaxFaults
    <3>1. CASE MintDone(q)
      BY <2>2, <3>1 DEF IInv, TypeOK, MintDone
    <3>2. CASE MintCutOff(q)
      BY <2>2, <3>2 DEF IInv, TypeOK, MintCutOff
    <3>3. CASE received' = Recovered /\ minting' = {} /\ UNCHANGED <<mint, faults>>
      BY <2>2, <3>3 DEF IInv, TypeOK
    <3> QED  BY <3>1, <3>2, <3>3 DEF collect_mint_invoice
  <2> QED  BY <2>1, <2>3, ZenonT(30) DEF IInv, TypeOK, collect_mint_invoice
<1>2. DepositsKept'
  BY ZenonT(30) DEF IInv, TypeOK, DepositsKept, collect_mint_invoice, Recovered, MintDone, MintCutOff
<1>3. LiveIsResolvable'
  BY DEF IInv, LiveIsResolvable, collect_mint_invoice, Recovered, MintDone, MintCutOff
<1>4. RetiredIsSettled'
  BY ZenonT(30) DEF IInv, TypeOK, RetiredIsSettled, collect_mint_invoice, Recovered, MintDone,
     MintCutOff
<1>5. LedgerInv'
  BY ZenonT(30) DEF IInv, TypeOK, LedgerInv, collect_mint_invoice, Recovered, MintDone, MintCutOff
<1>6. InsertInv'
  BY ZenonT(30) DEF IInv, InsertInv, collect_mint_invoice, Recovered, MintDone, MintCutOff
<1>7. RetireInv'
  BY ZenonT(30) DEF IInv, TypeOK, RetireInv, collect_mint_invoice, Recovered, MintDone, MintCutOff
<1>8. PassInv'
  BY ZenonT(30) DEF IInv, TypeOK, PassInv, collect_mint_invoice, MintDone, MintCutOff
<1>9. ListInv'
  BY ZenonT(30) DEF IInv, ListInv, Associated, collect_mint_invoice
<1> QED  BY <1>1, <1>2, <1>3, <1>4, <1>5, <1>6, <1>7, <1>8, <1>9 DEF IInv

\* What is associated before the pass starts is in its list.
LEMMA StartPassKeeps ==
  ASSUME IInv, StartPass
  PROVE  IInv'
<1>1. TypeOK'
  BY ZenonT(30) DEF IInv, TypeOK, Associated, StartPass
<1>2. RetireInv'
  BY DEF IInv, RetireInv, StartPass
<1>3. PassInv'
  BY DEF IInv, TypeOK, PassInv, Associated, StartPass
<1>4. ListInv'
  BY DEF IInv, ListInv, Associated, StartPass
<1>5. DepositsKept' /\ LiveIsResolvable' /\ RetiredIsSettled' /\ LedgerInv'
      /\ InsertInv'
  BY DEF IInv, DepositsKept, LiveIsResolvable, RetiredIsSettled, LedgerInv,
     InsertInv, StartPass
<1> QED  BY <1>1, <1>2, <1>3, <1>4, <1>5 DEF IInv

\* The list holds quotes of the wallet.
LEMMA ListUnissuedKeeps ==
  ASSUME IInv, ListUnissued
  PROVE  IInv'
<1>1. TypeOK'
  <2> DEFINE list == wallet \ Recovered
  <2>1. IsFiniteSet(list) /\ list \subseteq Quotes
    BY FS_Subset, ZenonT(30) DEF IInv, TypeOK, ListInv
  <2>2. Visits(list) \in 0 .. Batch
    BY <2>1, VisitsIn
  <2>3. Recovered \subseteq Quotes
    BY ZenonT(30) DEF IInv, TypeOK, Recovered
  <2> HIDE DEF list
  <2> QED  BY <2>1, <2>2, <2>3, ZenonT(30) DEF IInv, TypeOK, ListUnissued, list
<1>2. DepositsKept'
  BY DEF IInv, DepositsKept, ListUnissued, Recovered
<1>3. LiveIsResolvable'
  BY DEF IInv, LiveIsResolvable, ListUnissued, Recovered
<1>4. RetiredIsSettled'
  BY DEF IInv, RetiredIsSettled, ListUnissued, Recovered
<1>5. LedgerInv'
  BY DEF IInv, LedgerInv, ListUnissued, Recovered
<1>6. InsertInv'
  BY DEF IInv, InsertInv, ListUnissued, Recovered
<1>7. RetireInv'
  BY DEF IInv, RetireInv, ListUnissued, Recovered
<1>8. PassInv'
  BY DEF IInv, TypeOK, PassInv, LedgerInv, ListUnissued
<1>9. ListInv'
  <2> DEFINE list == wallet \ Recovered
  <2>1. IsFiniteSet(list)
    BY FS_Subset DEF IInv, ListInv
  <2>2. Visits(list) <= Cardinality(list)
    BY <2>1, VisitsIn <2>3. pass'.list = list /\ pass'.left = Visits(list) BY DEF IInv,
       ListUnissued
  <2> HIDE DEF list
  <2> QED  BY <2>1, <2>2, <2>3 DEF IInv, ListInv, Associated, ListUnissued
<1> QED  BY <1>1, <1>2, <1>3, <1>4, <1>5, <1>6, <1>7, <1>8, <1>9 DEF IInv

\* The answer of the mint is put on record.
LEMMA CheckQuoteKeeps ==
  ASSUME IInv, CheckQuote
  PROVE  IInv'
<1>1. TypeOK'
  <2> DEFINE q == After(deposit_cursor, pass.list)
  <2>1. /\ q \in pass.list /\ q \in Quotes
        /\ IsFiniteSet(pass.list \ {q})
        /\ pass.left - 1 <= Cardinality(pass.list \ {q})
        /\ pass.left - 1 \in 0 .. Batch
    BY NextVisit, ZenonT(30) DEF IInv, TypeOK, CheckQuote
  <2>2. /\ deposit_cursor' = q
        /\ seen' = IF q \in Failing THEN seen ELSE [seen EXCEPT ![q] = mint[q]]
        /\ pass' = [pass EXCEPT !.phase = IF q \in Failing THEN "check" ELSE "handle",
                                !.quote = q, !.list = @ \ {q}, !.left = @ - 1]
    BY DEF CheckQuote
  <2> HIDE DEF q
  <2>3. mint[q] # "absent"
    BY <2>1 DEF IInv, PassInv, CheckQuote
  <2>4. seen' \in [Quotes -> {"unpaid", "paid", "issued"}]
    BY <2>1, <2>2, <2>3 DEF IInv, TypeOK
  <2>5. pass' \in [phase : {"check", "handle"},
                  quote : Quotes, list : SUBSET Quotes, left : 0 .. Batch,
                  associated : SUBSET Quotes, retired : SUBSET Quotes, time : 0 .. MaxTime]
    BY <2>1, <2>2, ZenonT(30) DEF IInv, TypeOK
  <2> QED  BY <2>1, <2>2, <2>4, <2>5 DEF IInv, TypeOK, CheckQuote
<1>2. LedgerInv'
  BY NextVisit DEF IInv, LedgerInv, CheckQuote
<1>3. RetireInv'
  BY NextVisit DEF IInv, RetireInv, CheckQuote
<1>4. PassInv'
  <2> DEFINE q == After(deposit_cursor, pass.list)
  <2>1. /\ q \in pass.list /\ q \in Quotes
        /\ IsFiniteSet(pass.list \ {q})
        /\ pass.left - 1 <= Cardinality(pass.list \ {q})
        /\ pass.left - 1 \in 0 .. Batch
    BY NextVisit, ZenonT(30) DEF IInv, TypeOK, CheckQuote
  <2>2. /\ deposit_cursor' = q
        /\ seen' = IF q \in Failing THEN seen ELSE [seen EXCEPT ![q] = mint[q]]
        /\ pass' = [pass EXCEPT !.phase = IF q \in Failing THEN "check" ELSE "handle",
                                !.quote = q, !.list = @ \ {q}, !.left = @ - 1]
    BY DEF CheckQuote
  <2> HIDE DEF q
  <2> QED  BY <2>1, <2>2 DEF IInv, PassInv, CheckQuote
<1>5. ListInv'
  <2> DEFINE q == After(deposit_cursor, pass.list)
  <2>1. /\ q \in pass.list /\ q \in Quotes
        /\ IsFiniteSet(pass.list \ {q})
        /\ pass.left - 1 <= Cardinality(pass.list \ {q})
        /\ pass.left - 1 \in 0 .. Batch
    BY NextVisit, ZenonT(30) DEF IInv, TypeOK, CheckQuote
  <2>2. /\ deposit_cursor' = q
        /\ seen' = IF q \in Failing THEN seen ELSE [seen EXCEPT ![q] = mint[q]]
        /\ pass' = [pass EXCEPT !.phase = IF q \in Failing THEN "check" ELSE "handle",
                                !.quote = q, !.list = @ \ {q}, !.left = @ - 1]
    BY DEF CheckQuote
  <2> HIDE DEF q
  <2> QED  BY <2>1, <2>2 DEF IInv, ListInv, Associated, CheckQuote
<1>6. DepositsKept' /\ LiveIsResolvable' /\ RetiredIsSettled' /\ InsertInv'
  BY DEF IInv, DepositsKept, LiveIsResolvable, RetiredIsSettled, InsertInv,
     CheckQuote
<1> QED  BY <1>1, <1>2, <1>3, <1>4, <1>5, <1>6 DEF IInv

\* Only a quote past its grace is removed, and no live one.
LEMMA HandleQuoteKeeps ==
  ASSUME IInv, HandleQuote
  PROVE  IInv'
<1>1. TypeOK'
  <2>1. wallet' \subseteq Quotes /\ Cardinality(wallet') <= MaxQuotes
    BY SmallerWallet DEF HandleQuote
  <2>2. pass.quote \in Quotes /\ Recovered \subseteq Quotes
    BY DEF IInv, TypeOK, PassInv, HandleQuote, Recovered
  <2>3. /\ mint' \in [Quotes -> {"absent", "unpaid", "paid", "issued"}]
        /\ minting' \subseteq Quotes /\ received' \subseteq Quotes
        /\ faults' \in 0 .. MaxFaults
    BY <2>2 DEF IInv, TypeOK, HandleQuote, MintDone, MintCutOff
  <2>4. pass' \in {[pass EXCEPT !.phase = "check"], [pass EXCEPT !.phase = "prune"]}
    BY DEF HandleQuote
  <2> QED  BY <2>1, <2>3, <2>4 DEF IInv, TypeOK, HandleQuote
<1>2. DepositsKept'
  BY DEF IInv, TypeOK, DepositsKept, HandleQuote, definitively_unpaid, Recovered,
     MintDone, MintCutOff
<1>3. LiveIsResolvable'
  BY DEF IInv, TypeOK, LiveIsResolvable, PassInv, HandleQuote, definitively_unpaid,
     Recovered, MintDone, MintCutOff
<1>4. RetiredIsSettled'
  BY DEF IInv, TypeOK, RetiredIsSettled, LedgerInv, HandleQuote, Recovered, MintDone,
     MintCutOff
<1>5. LedgerInv'
  BY DEF IInv, TypeOK, LedgerInv, HandleQuote, definitively_unpaid, Recovered, MintDone,
     MintCutOff
<1>6. InsertInv'
  BY DEF IInv, TypeOK, InsertInv, HandleQuote, definitively_unpaid, Recovered, MintDone,
     MintCutOff
<1>7. RetireInv'
  BY DEF IInv, TypeOK, RetireInv, LedgerInv, HandleQuote, Recovered, MintDone, MintCutOff
<1>8. PassInv'
  BY DEF IInv, TypeOK, PassInv, HandleQuote, MintDone
<1>9. ListInv'
  <2>1. IsFiniteSet(wallet')
    BY SmallerWallet DEF HandleQuote
  <2> QED  BY <2>1 DEF IInv, TypeOK, ListInv, Associated, HandleQuote
<1> QED  BY <1>1, <1>2, <1>3, <1>4, <1>5, <1>6, <1>7, <1>8, <1>9 DEF IInv

\* The recovery of the pass is over.
LEMMA EndRecoveryKeeps ==
  ASSUME IInv, EndRecovery
  PROVE  IInv'
<1>1. TypeOK'
  BY DEF IInv, TypeOK, EndRecovery
<1>2. RetireInv'
  BY DEF IInv, RetireInv, EndRecovery
<1>3. PassInv'
  BY DEF IInv, PassInv, EndRecovery
<1>4. ListInv'
  BY DEF IInv, ListInv, Associated, EndRecovery
<1>5. DepositsKept' /\ LiveIsResolvable' /\ RetiredIsSettled' /\ LedgerInv'
      /\ InsertInv'
  BY DEF IInv, DepositsKept, LiveIsResolvable, RetiredIsSettled, LedgerInv,
     InsertInv, EndRecovery
<1> QED  BY <1>1, <1>2, <1>3, <1>4, <1>5 DEF IInv

\* What is read as retired is settled.
LEMMA StartPruneKeeps ==
  ASSUME IInv, StartPrune
  PROVE  IInv'
<1>1. TypeOK'
  <2>1. Associated \subseteq Quotes /\ Visits(Associated) \in 0 .. Batch
    BY VisitsIn DEF IInv, ListInv, Associated
  <2> QED  BY <2>1, ZenonT(30) DEF IInv, TypeOK, StartPrune
<1>2. RetireInv'
  BY DEF IInv, RetireInv, RetiredIsSettled, StartPrune
<1>3. PassInv'
  BY DEF IInv, TypeOK, PassInv, StartPrune
<1>4. ListInv'
  <2>1. Visits(Associated) <= Cardinality(Associated)
    BY VisitsIn DEF IInv, ListInv
  <2>2. Associated' = Associated
    BY DEF Associated, StartPrune
  <2> QED  BY <2>1, <2>2 DEF IInv, ListInv, StartPrune
<1>5. DepositsKept' /\ LiveIsResolvable' /\ RetiredIsSettled' /\ LedgerInv'
      /\ InsertInv'
  BY DEF IInv, DepositsKept, LiveIsResolvable, RetiredIsSettled, LedgerInv,
     InsertInv, StartPrune
<1> QED  BY <1>1, <1>2, <1>3, <1>4, <1>5 DEF IInv

\* What may be retired is settled.
LEMMA VisitDepositKeeps ==
  ASSUME IInv, VisitDeposit
  PROVE  IInv'
<1>1. TypeOK'
  <2> DEFINE q == After(prune_cursor, pass.list)
  <2>1. /\ q \in pass.list /\ q \in Quotes
        /\ IsFiniteSet(pass.list \ {q})
        /\ pass.left - 1 <= Cardinality(pass.list \ {q})
        /\ pass.left - 1 \in 0 .. Batch
    BY NextVisit DEF IInv, TypeOK, VisitDeposit
  <2>2. PICK next \in {"visit", "remove", "journal"} :
          pass' = [pass EXCEPT !.phase = next, !.quote = q, !.list = @ \ {q}, !.left = @ - 1]
    BY ZenonT(30) DEF VisitDeposit
  <2>3. prune_cursor' = q
    BY DEF VisitDeposit
  <2>4. received' \subseteq Quotes /\ minting' \subseteq Quotes
    BY DEF IInv, TypeOK, VisitDeposit, Recovered
  <2> HIDE DEF q
  <2>5. pass' \in [phase : {"visit", "remove", "journal"},
                  quote : Quotes, list : SUBSET Quotes, left : 0 .. Batch,
                  associated : SUBSET Quotes, retired : SUBSET Quotes, time : 0 .. MaxTime]
    BY <2>1, <2>2, ZenonT(30) DEF IInv, TypeOK
  <2> QED  BY <2>1, <2>3, <2>4, <2>5 DEF IInv, TypeOK, VisitDeposit
<1>2. DepositsKept'
  BY NextVisit DEF IInv, DepositsKept, VisitDeposit, Recovered
<1>3. LiveIsResolvable'
  BY NextVisit DEF IInv, LiveIsResolvable, VisitDeposit, Recovered
<1>4. RetiredIsSettled'
  BY NextVisit DEF IInv, RetiredIsSettled, VisitDeposit, Recovered
<1>5. LedgerInv'
  BY NextVisit DEF IInv, LedgerInv, VisitDeposit, Recovered
<1>6. InsertInv'
  BY NextVisit DEF IInv, InsertInv, VisitDeposit, Recovered
<1>7. RetireInv'
  BY NextVisit DEF IInv, RetireInv, VisitDeposit, can_prune_mint_deposit,
     definitively_unpaid, Recovered
<1>8. PassInv'
  BY NextVisit, ZenonT(30) DEF IInv, TypeOK, PassInv, VisitDeposit
<1>9. ListInv'
  <2> DEFINE q == After(prune_cursor, pass.list)
  <2>1. /\ q \in pass.list /\ q \in Quotes
        /\ IsFiniteSet(pass.list \ {q})
        /\ pass.left - 1 <= Cardinality(pass.list \ {q})
        /\ pass.left - 1 \in 0 .. Batch
    BY NextVisit DEF IInv, TypeOK, VisitDeposit
  <2>2. pass'.list = pass.list \ {q} /\ pass'.left = pass.left - 1
    BY DEF IInv, VisitDeposit
  <2> HIDE DEF q
  <2> QED  BY <2>1, <2>2, ZenonT(30) DEF IInv, ListInv, Associated, VisitDeposit
<1> QED  BY <1>1, <1>2, <1>3, <1>4, <1>5, <1>6, <1>7, <1>8, <1>9 DEF IInv

\* The decision is on disk.
LEMMA JournalRetirementKeeps ==
  ASSUME IInv, JournalRetirement
  PROVE  IInv'
<1>1. TypeOK'
  BY ZenonT(30) DEF IInv, TypeOK, JournalRetirement
<1>2. LiveIsResolvable'
  BY DEF IInv, LiveIsResolvable, JournalRetirement
<1>3. RetiredIsSettled'
  BY ZenonT(30) DEF IInv, TypeOK, RetiredIsSettled, RetireInv, JournalRetirement
<1>4. RetireInv'
  BY ZenonT(30) DEF IInv, TypeOK, RetireInv, JournalRetirement
<1>5. PassInv'
  BY DEF IInv, PassInv, JournalRetirement
<1>6. ListInv'
  <2>1. pass.quote \in Quotes
    BY DEF IInv, PassInv, JournalRetirement
  <2>2. IsFiniteSet(Associated')
    BY <2>1, OneAssociation, ZenonT(30) DEF JournalRetirement
  <2> QED  BY <2>2 DEF IInv, ListInv, JournalRetirement
<1>7. DepositsKept' /\ LedgerInv' /\ InsertInv'
  BY DEF IInv, DepositsKept, LedgerInv, InsertInv, JournalRetirement
<1> QED  BY <1>1, <1>2, <1>3, <1>4, <1>5, <1>6, <1>7 DEF IInv

\* The wallet forgets a settled quote.
LEMMA remove_retired_mint_quoteKeeps ==
  ASSUME IInv, remove_retired_mint_quote
  PROVE  IInv'
<1>1. TypeOK'
  <2>1. wallet' \subseteq Quotes /\ Cardinality(wallet') <= MaxQuotes
    BY SmallerWallet DEF remove_retired_mint_quote
  <2> QED  BY <2>1 DEF IInv, TypeOK, remove_retired_mint_quote, Recovered
<1>2. DepositsKept'
  BY ZenonT(30) DEF IInv, DepositsKept, LedgerInv, RetireInv, remove_retired_mint_quote, Recovered
<1>3. LiveIsResolvable'
  BY DEF IInv, LiveIsResolvable, RetireInv, remove_retired_mint_quote, Recovered
<1>4. RetiredIsSettled'
  BY DEF IInv, RetiredIsSettled, remove_retired_mint_quote, Recovered
<1>5. LedgerInv'
  BY ZenonT(30) DEF IInv, LedgerInv, RetireInv, remove_retired_mint_quote, Recovered
<1>6. InsertInv'
  <2>1. pass.quote \in Quotes /\ Settled(pass.quote)
    BY ZenonT(30) DEF IInv, PassInv, RetireInv, remove_retired_mint_quote
  <2>2. Inserting(pass.quote) => pass.quote \in received
    BY <2>1, InsertingRuns, ZenonT(30)
  <2> QED  BY <2>2 DEF IInv, InsertInv, remove_retired_mint_quote, Recovered
<1>7. RetireInv'
  BY DEF IInv, RetireInv, remove_retired_mint_quote, Recovered
<1>8. PassInv'
  BY DEF IInv, PassInv, remove_retired_mint_quote
<1>9. ListInv'
  <2>1. IsFiniteSet(wallet')
    BY SmallerWallet DEF remove_retired_mint_quote
  <2> QED  BY <2>1 DEF IInv, ListInv, Associated, remove_retired_mint_quote
<1> QED  BY <1>1, <1>2, <1>3, <1>4, <1>5, <1>6, <1>7, <1>8, <1>9 DEF IInv

\* The association goes last.
LEMMA UnassociateKeeps ==
  ASSUME IInv, Unassociate
  PROVE  IInv'
<1>1. TypeOK'
  BY ZenonT(30) DEF IInv, TypeOK, Unassociate
<1>2. LiveIsResolvable'
  BY DEF IInv, LiveIsResolvable, Unassociate
<1>3. RetiredIsSettled'
  BY DEF IInv, RetiredIsSettled, Unassociate
<1>4. RetireInv'
  BY DEF IInv, RetireInv, Unassociate
<1>5. PassInv'
  BY DEF IInv, PassInv, Unassociate
<1>6. ListInv'
  <2>1. pass.quote \in Quotes
    BY DEF IInv, PassInv, Unassociate
  <2>2. IsFiniteSet(Associated')
    BY <2>1, OneAssociation, ZenonT(30) DEF Unassociate
  <2> QED  BY <2>2 DEF IInv, ListInv, Unassociate
<1>7. DepositsKept' /\ LedgerInv' /\ InsertInv'
  BY DEF IInv, DepositsKept, LedgerInv, InsertInv, Unassociate
<1> QED  BY <1>1, <1>2, <1>3, <1>4, <1>5, <1>6, <1>7 DEF IInv

\* The pass is over.
LEMMA EndPassKeeps ==
  ASSUME IInv, EndPass
  PROVE  IInv'
<1>1. TypeOK'
  BY SMTT(30) DEF IInv, TypeOK, EndPass
<1>2. RetireInv'
  BY ZenonT(30) DEF IInv, RetireInv, EndPass
<1>3. PassInv'
  BY ZenonT(30) DEF IInv, PassInv, EndPass
<1>4. ListInv'
  BY FS_EmptySet, SMTT(30) DEF IInv, ListInv, Associated, EndPass
<1>5. DepositsKept' /\ LiveIsResolvable' /\ RetiredIsSettled' /\ LedgerInv'
      /\ InsertInv'
  BY ZenonT(30) DEF IInv, DepositsKept, LiveIsResolvable, RetiredIsSettled, LedgerInv,
     InsertInv, EndPass
<1> QED  BY <1>1, <1>2, <1>3, <1>4, <1>5 DEF IInv

\* A late write about a quote is still right about it.
LEMMA CommitDetachedKeeps ==
  ASSUME IInv, NEW w \in detached, CommitDetached(w)
  PROVE  IInv'
<1>1. PICK kind \in {"insert", "retire", "remove"}, q \in Quotes :
        /\ w = <<kind, q>>
        /\ kind = "insert" => association' =
             [association EXCEPT ![q] = IF CanAssociate(q) THEN "live" ELSE association[q]]
        /\ kind = "retire" => association' = [association EXCEPT ![q] = "retired"]
        /\ kind = "remove" => association' = [association EXCEPT ![q] = "none"]
  BY OneWrite, ZenonT(30)
<1>2. kind = "insert" =>
        now < expiry[q] /\ q \in wallet \union received /\ (Settled(q) => q \in received)
  BY <1>1, InsertingRuns, ZenonT(30) DEF IInv, InsertInv
<1>3. kind \in {"retire", "remove"} => Settled(q)
  BY <1>1, ZenonT(30) DEF IInv, RetireInv
<1>4. TypeOK'
  <2>1. association' \in [Quotes -> {"none", "live", "retired"}]
    BY <1>1, SMTT(30) DEF IInv, TypeOK
  <2> QED  BY <2>1, ZenonT(30) DEF IInv, TypeOK, CommitDetached
<1>5. LiveIsResolvable'
  BY <1>1, <1>2, SMTT(30) DEF IInv, LiveIsResolvable, CommitDetached
<1>6. RetiredIsSettled'
  BY <1>1, <1>3, SMTT(30) DEF IInv, RetiredIsSettled, CommitDetached
<1>7. InsertInv'
  BY ZenonT(30) DEF IInv, InsertInv, CommitDetached
<1>8. RetireInv'
  <2>1. \A p \in Quotes : association'[p] = "live" =>
          association[p] = "live" \/ (Settled(p) => p \in received)
    BY <1>1, <1>2, ZenonT(30) DEF IInv, TypeOK
  <2> QED  BY <2>1, ZenonT(30) DEF IInv, RetireInv, CommitDetached
<1>9. PassInv'
  BY <1>1, <1>2, SMTT(30) DEF IInv, TypeOK, PassInv, CommitDetached
<1>10. ListInv'
  <2>1. IsFiniteSet(Associated')
    BY <1>1, OneAssociation, ZenonT(30)
  <2> QED  BY <2>1, ZenonT(30) DEF IInv, ListInv, CommitDetached
<1>11. DepositsKept' /\ LedgerInv'
  BY ZenonT(30) DEF IInv, DepositsKept, LedgerInv, CommitDetached
<1> QED  BY <1>4, <1>5, <1>6, <1>7, <1>8, <1>9, <1>10, <1>11, ZenonT(30) DEF IInv

\* The pass goes on with its second half.
LEMMA RecoveryFailsKeeps ==
  ASSUME IInv, RecoveryFails
  PROVE  IInv'
<1>1. TypeOK'
  BY DEF IInv, TypeOK, RecoveryFails
<1>2. RetireInv'
  BY DEF IInv, RetireInv, RecoveryFails
<1>3. PassInv'
  BY DEF IInv, PassInv, RecoveryFails
<1>4. ListInv'
  BY DEF IInv, ListInv, Associated, RecoveryFails
<1>5. DepositsKept' /\ LiveIsResolvable' /\ RetiredIsSettled' /\ LedgerInv'
      /\ InsertInv'
  BY DEF IInv, DepositsKept, LiveIsResolvable, RetiredIsSettled, LedgerInv,
     InsertInv, RecoveryFails
<1> QED  BY <1>1, <1>2, <1>3, <1>4, <1>5 DEF IInv

\* The next deposit has its turn.
LEMMA SkipDepositKeeps ==
  ASSUME IInv, SkipDeposit
  PROVE  IInv'
<1>1. TypeOK'
  BY SMTT(30) DEF IInv, TypeOK, SkipDeposit
<1>2. RetireInv'
  BY DEF IInv, RetireInv, SkipDeposit
<1>3. PassInv'
  BY DEF IInv, PassInv, SkipDeposit
<1>4. ListInv'
  BY DEF IInv, ListInv, Associated, SkipDeposit
<1>5. DepositsKept' /\ LiveIsResolvable' /\ RetiredIsSettled' /\ LedgerInv'
      /\ InsertInv'
  BY DEF IInv, DepositsKept, LiveIsResolvable, RetiredIsSettled, LedgerInv,
     InsertInv, SkipDeposit
<1> QED  BY <1>1, <1>2, <1>3, <1>4, <1>5 DEF IInv

\* A write under way outlives the pass.
LEMMA PruneTimeoutKeeps ==
  ASSUME IInv, PruneTimeout
  PROVE  IInv'
<1>1. TypeOK'
  BY DEF IInv, TypeOK, PassInv, PruneTimeout
<1>2. InsertInv'
  BY DEF IInv, InsertInv, PruneTimeout
<1>3. RetireInv'
  BY DEF IInv, RetireInv, PruneTimeout
<1>4. PassInv'
  BY DEF IInv, PassInv, PruneTimeout
<1>5. ListInv'
  BY FS_EmptySet DEF IInv, ListInv, Associated, PruneTimeout
<1>6. DepositsKept' /\ LiveIsResolvable' /\ RetiredIsSettled' /\ LedgerInv'
  BY DEF IInv, DepositsKept, LiveIsResolvable, RetiredIsSettled, LedgerInv,
     PruneTimeout
<1> QED  BY <1>1, <1>2, <1>3, <1>4, <1>5, <1>6 DEF IInv

\* Writes under way are lost.
LEMMA CrashKeeps ==
  ASSUME IInv, Crash
  PROVE  IInv'
<1>1. TypeOK'
  BY DEF IInv, TypeOK, Crash
<1>2. LedgerInv'
  BY DEF IInv, LedgerInv, Crash
<1>3. InsertInv'
  BY DEF IInv, InsertInv, Crash
<1>4. RetireInv'
  BY DEF IInv, RetireInv, Crash
<1>5. PassInv'
  BY DEF IInv, PassInv, Crash
<1>6. ListInv'
  BY FS_EmptySet DEF IInv, ListInv, Associated, Crash
<1>7. DepositsKept' /\ LiveIsResolvable' /\ RetiredIsSettled'
  BY DEF IInv, DepositsKept, LiveIsResolvable, RetiredIsSettled, Crash
<1> QED  BY <1>1, <1>2, <1>3, <1>4, <1>5, <1>6, <1>7 DEF IInv

-----------------------------------------------------------------------------
(* The invariant, and what follows from it.                                 *)

\* There is no quote at the start.
LEMMA InitIInv == Init => IInv
<1> SUFFICES ASSUME Init PROVE IInv
  OBVIOUS
<1>1. TypeOK
  <2>1. challenge \in [phase : {"idle"}, quote : {NoQuote}]
    BY DEF Init
  <2>2. pass \in [phase : {"idle"}, quote : {NoQuote}, list : SUBSET Quotes, left : 0 .. Batch,
                 associated : SUBSET Quotes, retired : SUBSET Quotes, time : 0 .. MaxTime]
    BY DEF Init
  <2>3. wallet = {} /\ Cardinality(wallet) = 0
    BY FS_EmptySet DEF Init
  <2>4. now \in 0 .. MaxTime /\ faults \in 0 .. MaxFaults
    BY DEF Init
  <2>5. /\ mint \in [Quotes -> {"absent"}] /\ expiry \in [Quotes -> 0 .. MaxTime]
        /\ seen \in [Quotes -> {"unpaid"}] /\ association \in [Quotes -> {"none"}]
    BY DEF Init
  <2>6. /\ minting = {} /\ received = {} /\ detached = {} /\ remembered \in BOOLEAN
        /\ deposit_cursor = NoQuote /\ prune_cursor = NoQuote
    BY DEF Init
  <2> QED  BY <2>1, <2>2, <2>3, <2>4, <2>5, <2>6 DEF TypeOK
<1>2. ListInv
  <2>1. Associated = {}
    BY DEF Init, Associated
  <2> QED  BY <2>1, FS_EmptySet DEF Init, ListInv
<1>3. DepositsKept /\ LiveIsResolvable /\ RetiredIsSettled
  BY DEF Init, DepositsKept, LiveIsResolvable, RetiredIsSettled
<1>4. LedgerInv /\ InsertInv /\ RetireInv /\ PassInv
  BY DEF Init, LedgerInv, InsertInv, RetireInv, PassInv
<1> QED  BY <1>1, <1>2, <1>3, <1>4 DEF IInv

\* A step of the maintenance loop.
LEMMA MaintainKeeps == ASSUME IInv, Maintain PROVE IInv'
BY StartPassKeeps, ListUnissuedKeeps, CheckQuoteKeeps, HandleQuoteKeeps, EndRecoveryKeeps,
   StartPruneKeeps, VisitDepositKeeps, JournalRetirementKeeps,
   remove_retired_mint_quoteKeeps, UnassociateKeeps, EndPassKeeps
   DEF Maintain

\* Every step keeps the invariant, and so does stuttering.
LEMMA NextIInv == IInv /\ [Next]_vars => IInv'
<1> SUFFICES ASSUME IInv, [Next]_vars PROVE IInv'
  OBVIOUS
<1>1. CASE Tick \/ StartChallenge \/ Associate \/ FailChallenge \/ CancelChallenge
  BY <1>1, TickKeeps, StartChallengeKeeps, AssociateKeeps, FailChallengeKeeps,
     CancelChallengeKeeps
<1>2. ASSUME NEW q \in Quotes, PayInvoice(q) \/ mint_invoice(q) \/ collect_mint_invoice(q)
      PROVE  IInv'
  BY <1>2, PayInvoiceKeeps, mint_invoiceKeeps, collect_mint_invoiceKeeps
<1>3. CASE Maintain
  BY <1>3, MaintainKeeps
<1>4. CASE Commit
  BY <1>4, CommitDetachedKeeps DEF Commit
<1>5. CASE RecoveryFails \/ SkipDeposit \/ PruneTimeout \/ Crash
  BY <1>5, RecoveryFailsKeeps, SkipDepositKeeps, PruneTimeoutKeeps, CrashKeeps
<1>6. CASE UNCHANGED vars
  BY <1>6 DEF IInv, TypeOK, DepositsKept, LiveIsResolvable, RetiredIsSettled, LedgerInv,
     InsertInv, RetireInv, PassInv, ListInv, Associated, vars
<1> QED  BY <1>1, <1>2, <1>3, <1>4, <1>5, <1>6 DEF Next

\* The invariant always holds.
THEOREM IInvHolds == Spec => []IInv
BY InitIInv, NextIInv, PTL DEF Spec

\* The state of the deposits is always well formed, and neither the wallet's
\* quotes nor a batch ever outgrow their limits (mint_invoice, the batches of
\* recover_mint_deposits and prune_cashu_deposits).
THEOREM DepositTypes == Spec => []TypeOK
<1>1. IInv => TypeOK
  BY DEF IInv
<1> QED  BY IInvHolds, <1>1, PTL

\* Paid funds are never forgotten, whatever crashes, is cut off or commits
\* late (recover_mint_deposits, prune_cashu_deposits).
THEOREM FundsKept == Spec => []DepositsKept
<1>1. IInv => DepositsKept
  BY DEF IInv
<1> QED  BY IInvHolds, <1>1, PTL

\* A live association always has its quote or its transaction, so it can be
\* settled or retired (can_prune_mint_deposit).
THEOREM AssociationsResolvable == Spec => []LiveIsResolvable
<1>1. IInv => LiveIsResolvable
  BY DEF IInv
<1> QED  BY IInvHolds, <1>1, PTL

\* A retired association is one the mint owes nothing for, now and later
\* (prune_cashu_deposits, resumed after a crash).
THEOREM RetirementSafe == Spec => []RetiredIsSettled
<1>1. IInv => RetiredIsSettled
  BY DEF IInv
<1> QED  BY IInvHolds, <1>1, PTL
===============================================================================
