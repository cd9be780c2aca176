------------------------------- MODULE Deposits -------------------------------
(***************************************************************************)
(* Lightning deposits through one Cashu mint (payments/minting.rs and      *)
(* payments/lightning/cashu.rs).  A challenge buys a quote from the mint   *)
(* and saves its association with the invoice; a payer pays the invoice;   *)
(* the funds are claimed by the client's retry or by the maintenance loop, *)
(* which also retires what has expired, a batch of quotes per pass.        *)
(*                                                                         *)
(* Three stores that no transaction spans: the mint, the CDK wallet and    *)
(* the Lightning database.  Quotes are numbered in the order of their ids. *)
(* A clock tick is coarse, no shorter than a pass or a blocking write.     *)
(***************************************************************************)
EXTENDS Integers, FiniteSets

CONSTANTS
  Quotes,      \* quotes the mint may issue, a set of positive integers
  Failing,     \* quotes the mint answers every question about with an error
  Batch,       \* 32
  Expiry,      \* lifetime of an invoice
  GRACE,       \* QUOTE_PRUNE_GRACE
  RETAIN,      \* SKEW + 3600
  MaxQuotes,   \* MAX_CHALLENGE_RECORDS, of the wallet
  MaxRecords,  \* and of the Lightning database
  MaxTime,     \* bound: the last tick
  MaxFaults    \* bound: crashes, timeouts and lost answers

ASSUME DepositConstants ==
  /\ Quotes \subseteq Nat \ {0} /\ Failing \subseteq Quotes
  /\ {Batch, Expiry, GRACE, RETAIN, MaxQuotes, MaxRecords} \subseteq Nat \ {0}
  /\ {MaxTime, MaxFaults} \subseteq Nat

VARIABLES
  now,             \* clock
  mint,            \* the mint's state of each quote
  expiry,          \* end of its invoice
  wallet,          \* CDK store: quotes on record
  seen,            \* their state at the last look
  minting,         \* CDK store: quotes with an open mint saga
  received,        \* CDK store: quotes with a completed transaction
  association,     \* table QUOTES: "none", "live" or "retired"
  remembered,      \* table MINTS has the mint
  deposit_cursor,  \* in memory, 0 when unset
  prune_cursor,    \* in memory, 0 when unset
  challenge,       \* the challenge being made
  pass,            \* the maintenance pass
  detached,        \* writes that outlived their cancelled request
  faults           \* number of faults so far

store == <<wallet, seen, minting, received>>
memory == <<deposit_cursor, prune_cursor>>
vars == <<now, mint, expiry, store, association, remembered, memory,
          challenge, pass, detached, faults>>

NoQuote == 0
NoChallenge == [phase |-> "idle", quote |-> NoQuote]
\* A pass: where it is, the quote in hand, the quotes of its list still to
\* visit, how many it may visit, and what it read when it started.
NoPass == [phase |-> "idle", quote |-> NoQuote, list |-> {}, left |-> 0,
           associated |-> {}, retired |-> {}, time |-> 0]

Init ==
  /\ now = 0
  /\ mint = [q \in Quotes |-> "absent"]
  /\ expiry = [q \in Quotes |-> 0]
  /\ wallet = {} /\ minting = {} /\ received = {}
  /\ seen = [q \in Quotes |-> "unpaid"]
  /\ association = [q \in Quotes |-> "none"]
  /\ remembered = FALSE
  /\ deposit_cursor = NoQuote /\ prune_cursor = NoQuote
  /\ challenge = NoChallenge
  /\ pass = NoPass
  /\ detached = {}
  /\ faults = 0

Fault == faults < MaxFaults /\ faults' = faults + 1

-----------------------------------------------------------------------------
(* The world outside.                                                       *)

\* Writes and the pass are over long before a quote's grace is.
Tick ==
  /\ now < MaxTime
  /\ detached = {} /\ challenge.phase # "associate"
  /\ pass.phase = "idle" \/ now = pass.time
  /\ now' = now + 1
  /\ UNCHANGED <<mint, expiry, store, association, remembered, memory,
                 challenge, pass, detached, faults>>

\* A payer pays; the mint may notice after the invoice ended, within the grace.
PayInvoice(q) ==
  /\ mint[q] = "unpaid"
  /\ now < expiry[q] + GRACE
  /\ mint' = [mint EXCEPT ![q] = "paid"]
  /\ UNCHANGED <<now, expiry, store, association, remembered, memory,
                 challenge, pass, detached, faults>>

-----------------------------------------------------------------------------
(* The wallet, behind the mint's lock; a pass holds it while it recovers.   *)

Locked == pass.phase \in {"check", "handle"}

\* recover: an open mint saga whose outputs the mint signed is completed, any
\* other is compensated.
Recovered == received \union {q \in minting : mint[q] = "issued"}

\* wallet.mint: done, or cut off with the saga open, before or after the mint
\* signed.
MintDone(q) ==
  /\ mint' = [mint EXCEPT ![q] = "issued"]
  /\ received' = Recovered \union {q}
  /\ minting' = {}
  /\ UNCHANGED faults

MintCutOff(q) ==
  /\ Fault
  /\ mint' \in {mint, [mint EXCEPT ![q] = "issued"]}
  /\ received' = Recovered
  /\ minting' = {q}

past_quote_grace(q) == now >= expiry[q] + GRACE

\* Mutant: the state on record is trusted.
UnpaidOnRecord(q) == q \notin Failing /\ seen[q] = "unpaid" /\ past_quote_grace(q)

\* Unpaid on record, and in a fresh answer of the mint, past the grace.
definitively_unpaid(q) ==
  /\ q \notin Failing
  /\ seen[q] = "unpaid"
  /\ past_quote_grace(q)
  /\ mint[q] = "unpaid"

-----------------------------------------------------------------------------
(* cashu_invoice: remember the mint, buy a quote, save the association.     *)

StartChallenge ==
  /\ challenge = NoChallenge
  /\ remembered' = TRUE
  /\ challenge' = [phase |-> "quote", quote |-> NoQuote]
  /\ UNCHANGED <<now, mint, expiry, store, association, memory, pass, detached, faults>>

\* Bound: quotes are bought early enough to expire within the clock.
mint_invoice(q) ==
  /\ challenge.phase = "quote"
  /\ now + Expiry + GRACE + RETAIN <= MaxTime
  /\ ~Locked
  /\ mint[q] = "absent"
  /\ Cardinality(wallet) < MaxQuotes
  /\ mint' = [mint EXCEPT ![q] = "unpaid"]
  /\ expiry' = [expiry EXCEPT ![q] = now + Expiry]
  /\ wallet' = wallet \union {q}
  /\ received' = Recovered
  /\ minting' = {}
  /\ challenge' = [phase |-> "associate", quote |-> q]
  /\ UNCHANGED <<now, seen, association, remembered, memory, pass, detached, faults>>

Associated == {q \in Quotes : association[q] # "none"}

CanAssociate(q) == association[q] = "none" /\ Cardinality(Associated) < MaxRecords

Associate ==
  /\ challenge.phase = "associate"
  /\ CanAssociate(challenge.quote)
  /\ association' = [association EXCEPT ![challenge.quote] = "live"]
  /\ challenge' = NoChallenge
  /\ UNCHANGED <<now, mint, expiry, store, remembered, memory, pass, detached, faults>>

\* Lock busy, no capacity, terms that do not fit, an error: the quote stays
\* without an association.
FailChallenge ==
  /\ challenge # NoChallenge
  /\ challenge' = NoChallenge
  /\ UNCHANGED <<now, mint, expiry, store, association, remembered, memory,
                 pass, detached, faults>>

\* The client leaves while the association is being written.
CancelChallenge ==
  /\ challenge.phase = "associate"
  /\ challenge' = NoChallenge
  /\ detached' = detached \union {<<"insert", challenge.quote>>}
  /\ UNCHANGED <<now, mint, expiry, store, association, remembered, memory, pass, faults>>

CommitDetached(w) ==
  /\ LET q == w[2]
         value == [insert |-> IF CanAssociate(q) THEN "live" ELSE association[q],
                   retire |-> "retired", remove |-> "none"]
     IN association' = [association EXCEPT ![q] = value[w[1]]]
  /\ detached' = detached \ {w}
  /\ UNCHANGED <<now, mint, expiry, store, remembered, memory, challenge, pass, faults>>

-----------------------------------------------------------------------------
(* collect_cashu_invoice, for a client that retries with its preimage.      *)

collect_mint_invoice(q) ==
  /\ association[q] # "none"
  /\ ~Locked
  /\ q \in wallet \ (Recovered \union Failing)
  /\ seen' = [seen EXCEPT ![q] = mint[q]]
  /\ \/ mint[q] = "paid" /\ (MintDone(q) \/ MintCutOff(q))
     \/ /\ mint[q] # "paid"
        /\ received' = Recovered /\ minting' = {}
        /\ UNCHANGED <<mint, faults>>
  /\ UNCHANGED <<now, expiry, wallet, association, remembered, memory, challenge,
                 pass, detached>>

-----------------------------------------------------------------------------
(* recover_cashu_deposits, first half: recover_mint_deposits.               *)

\* Mutant: every pass starts from the first quote.
First(cursor, list) == CHOOSE q \in list : \A p \in list : q <= p

\* The element of a list that follows the cursor, round the end.
After(cursor, list) ==
  LET later == {q \in list : q > cursor}
      from == IF later # {} THEN later ELSE list
  IN CHOOSE q \in from : \A p \in from : q <= p

Visits(list) == IF Cardinality(list) < Batch THEN Cardinality(list) ELSE Batch

StartPass ==
  /\ pass = NoPass
  /\ remembered
  /\ pass' = [NoPass EXCEPT !.phase = "recover", !.associated = Associated, !.time = now]
  /\ UNCHANGED <<now, mint, expiry, store, association, remembered, memory,
                 challenge, detached, faults>>

ListUnissued ==
  /\ pass.phase = "recover"
  /\ received' = Recovered
  /\ minting' = {}
  /\ LET list == wallet \ Recovered
     IN pass' = [pass EXCEPT !.phase = "check", !.list = list, !.left = Visits(list)]
  /\ UNCHANGED <<now, mint, expiry, wallet, seen, association, remembered, memory,
                 challenge, detached, faults>>

\* The cursor advances first; then the mint is asked.
CheckQuote ==
  /\ pass.phase = "check" /\ pass.left > 0
  /\ LET q == After(deposit_cursor, pass.list)
     IN /\ deposit_cursor' = q
        /\ seen' = IF q \in Failing THEN seen ELSE [seen EXCEPT ![q] = mint[q]]
        /\ pass' = [pass EXCEPT !.phase = IF q \in Failing THEN "check" ELSE "handle",
                                !.quote = q, !.list = @ \ {q}, !.left = @ - 1]
  /\ UNCHANGED <<now, mint, expiry, wallet, minting, received, association,
                 remembered, prune_cursor, challenge, detached, faults>>

\* Mutant: associated quotes are removed too.
HandleAnyQuote ==
  /\ pass.phase = "handle"
  /\ definitively_unpaid(pass.quote)
  /\ wallet' = wallet \ {pass.quote}
  /\ pass' = [pass EXCEPT !.phase = "check"]
  /\ UNCHANGED <<now, mint, expiry, seen, minting, received, association, remembered,
                 memory, challenge, detached, faults>>

\* An unpaid quote without an association is removed, a paid one is minted.
HandleQuote ==
  /\ pass.phase = "handle"
  /\ LET q == pass.quote
         drop == q \notin pass.associated /\ definitively_unpaid(q)
     IN \/ /\ drop
           /\ wallet' = wallet \ {q}
           /\ pass' = [pass EXCEPT !.phase = "check"]
           /\ UNCHANGED <<mint, minting, received, faults>>
        \/ /\ ~drop /\ seen[q] = "paid"
           /\ MintDone(q)
           /\ pass' = [pass EXCEPT !.phase = "check"]
           /\ UNCHANGED wallet
        \/ /\ ~drop /\ seen[q] = "paid"
           /\ MintCutOff(q)
           /\ pass' = [pass EXCEPT !.phase = "prune"]
           /\ UNCHANGED wallet
        \/ /\ ~drop /\ seen[q] # "paid"
           /\ pass' = [pass EXCEPT !.phase = "check"]
           /\ UNCHANGED <<mint, wallet, minting, received, faults>>
  /\ UNCHANGED <<now, expiry, seen, association, remembered, memory, challenge, detached>>

EndRecovery ==
  /\ pass.phase = "check" /\ pass.left = 0
  /\ pass' = [pass EXCEPT !.phase = "prune"]
  /\ UNCHANGED <<now, mint, expiry, store, association, remembered, memory,
                 challenge, detached, faults>>

\* Lock busy, an error or the timeout.
RecoveryFails ==
  /\ Fault
  /\ pass.phase \in {"recover", "check", "handle"}
  /\ pass' = [pass EXCEPT !.phase = "prune"]
  /\ UNCHANGED <<now, mint, expiry, store, association, remembered, memory,
                 challenge, detached>>

-----------------------------------------------------------------------------
(* Second half: prune_cashu_deposits.                                       *)

StartPrune ==
  /\ pass.phase = "prune"
  /\ pass' = [NoPass EXCEPT !.phase = "visit", !.list = Associated,
                !.left = Visits(Associated), !.time = now,
                !.retired = {q \in Quotes : association[q] = "retired"}]
  /\ UNCHANGED <<now, mint, expiry, store, association, remembered, memory,
                 challenge, detached, faults>>

can_prune_mint_deposit(q) == q \in Recovered \/ (q \in wallet /\ definitively_unpaid(q))

VisitDeposit ==
  /\ pass.phase = "visit" /\ pass.left > 0
  /\ LET q == After(prune_cursor, pass.list)
         kept == pass.time < expiry[q] + RETAIN
         next == IF kept THEN "visit"
                 ELSE IF q \in pass.retired THEN "remove"
                 ELSE IF can_prune_mint_deposit(q) THEN "journal"
                 ELSE "visit"
     IN /\ prune_cursor' = q
        /\ pass' = [pass EXCEPT !.phase = next, !.quote = q, !.list = @ \ {q}, !.left = @ - 1]
        /\ IF kept \/ q \in pass.retired
             THEN UNCHANGED <<received, minting>>
             ELSE received' = Recovered /\ minting' = {}
  /\ UNCHANGED <<now, mint, expiry, wallet, seen, association, remembered,
                 deposit_cursor, challenge, detached, faults>>

\* The decision is on disk before the wallet forgets the quote ...
JournalRetirement ==
  /\ pass.phase = "journal"
  /\ association' = [association EXCEPT ![pass.quote] = "retired"]
  /\ pass' = [pass EXCEPT !.phase = "remove"]
  /\ UNCHANGED <<now, mint, expiry, store, remembered, memory, challenge, detached, faults>>

remove_retired_mint_quote ==
  /\ pass.phase = "remove"
  /\ wallet' = wallet \ {pass.quote}
  /\ received' = Recovered
  /\ minting' = {}
  /\ pass' = [pass EXCEPT !.phase = "unassociate"]
  /\ UNCHANGED <<now, mint, expiry, seen, association, remembered, memory,
                 challenge, detached, faults>>

\* Mutant: the association outlives its quote.
UnassociateNothing ==
  /\ pass.phase = "unassociate"
  /\ pass' = [pass EXCEPT !.phase = "visit"]
  /\ UNCHANGED <<now, mint, expiry, store, association, remembered, memory,
                 challenge, detached, faults>>

\* ... and the association goes last.
Unassociate ==
  /\ pass.phase = "unassociate"
  /\ association' = [association EXCEPT ![pass.quote] = "none"]
  /\ pass' = [pass EXCEPT !.phase = "visit"]
  /\ UNCHANGED <<now, mint, expiry, store, remembered, memory, challenge, detached, faults>>

EndPass ==
  /\ pass.phase = "visit" /\ pass.left = 0
  /\ pass' = NoPass
  /\ UNCHANGED <<now, mint, expiry, store, association, remembered, memory,
                 challenge, detached, faults>>

\* The wallet is busy or fails: the next deposit has its turn.
SkipDeposit ==
  /\ Fault
  /\ pass.phase \in {"journal", "remove"}
  /\ pass' = [pass EXCEPT !.phase = "visit"]
  /\ UNCHANGED <<now, mint, expiry, store, association, remembered, memory,
                 challenge, detached>>

\* The 30 s timeout; a write under way commits later.
PruneTimeout ==
  /\ Fault
  /\ pass.phase \in {"visit", "journal", "remove", "unassociate"}
  /\ detached' = detached \union
       CASE pass.phase = "journal" -> {<<"retire", pass.quote>>}
         [] pass.phase = "unassociate" -> {<<"remove", pass.quote>>}
         [] OTHER -> {}
  /\ pass' = NoPass
  /\ UNCHANGED <<now, mint, expiry, store, association, remembered, memory, challenge>>

\* The process dies and starts again, with the durable stores.
Crash ==
  /\ Fault
  /\ challenge' = NoChallenge
  /\ pass' = NoPass
  /\ detached' = {}
  /\ deposit_cursor' = NoQuote /\ prune_cursor' = NoQuote
  /\ UNCHANGED <<now, mint, expiry, store, association, remembered>>

-----------------------------------------------------------------------------
Maintain ==
  \/ StartPass \/ ListUnissued \/ CheckQuote \/ HandleQuote \/ EndRecovery
  \/ StartPrune \/ VisitDeposit \/ JournalRetirement \/ remove_retired_mint_quote
  \/ Unassociate \/ EndPass
Commit == \E w \in detached : CommitDetached(w)

Next ==
  \/ Tick \/ StartChallenge \/ Associate \/ FailChallenge \/ CancelChallenge
  \/ \E q \in Quotes : PayInvoice(q) \/ mint_invoice(q) \/ collect_mint_invoice(q)
  \/ Maintain \/ Commit
  \/ RecoveryFails \/ SkipDeposit \/ PruneTimeout \/ Crash

Spec == Init /\ [][Next]_vars

\* The maintenance loop keeps running, requests and writes end, time passes.
FairSpec ==
  /\ Spec
  /\ WF_vars(Maintain) /\ WF_vars(Commit) /\ WF_vars(Tick)
  /\ WF_vars(Associate \/ FailChallenge)

-----------------------------------------------------------------------------
(* Correctness.                                                             *)

\* Every variable keeps its shape, and no store outgrows its capacity.
TypeOK ==
  /\ now \in 0 .. MaxTime /\ faults \in 0 .. MaxFaults
  /\ mint \in [Quotes -> {"absent", "unpaid", "paid", "issued"}]
  /\ expiry \in [Quotes -> 0 .. MaxTime]
  /\ wallet \subseteq Quotes /\ Cardinality(wallet) <= MaxQuotes
  /\ seen \in [Quotes -> {"unpaid", "paid", "issued"}]
  /\ minting \subseteq Quotes /\ received \subseteq Quotes
  /\ association \in [Quotes -> {"none", "live", "retired"}]
  /\ remembered \in BOOLEAN
  /\ {deposit_cursor, prune_cursor} \subseteq Quotes \union {NoQuote}
  /\ challenge \in [phase : {"idle", "quote", "associate"}, quote : Quotes \union {NoQuote}]
  /\ pass \in [phase : {"idle", "recover", "check", "handle", "prune", "visit", "journal",
                        "remove", "unassociate"},
               quote : Quotes \union {NoQuote}, list : SUBSET Quotes, left : 0 .. Batch,
               associated : SUBSET Quotes, retired : SUBSET Quotes, time : 0 .. MaxTime]
  /\ detached \subseteq ({"insert", "retire", "remove"} \X Quotes)

\* Paid funds are never forgotten: while the mint owes for a paid quote the
\* wallet has the quote on record and the mint is one that recovery visits;
\* once the mint has signed, the funds are received or their saga is open.
DepositsKept ==
  \A q \in Quotes :
    /\ mint[q] = "paid" => q \in wallet /\ remembered
    /\ mint[q] = "issued" => q \in received \union minting

\* A live association can always be settled or retired: the wallet still has
\* its quote or its transaction. Without either, can_prune_mint_deposit would
\* answer no for ever and the record would hold its capacity slot for good.
LiveIsResolvable ==
  \A q \in Quotes : association[q] = "live" => q \in wallet \union received

\* A retired association is one the mint owes nothing for, now and later: the
\* decision to forget the quote is safe to resume after any crash.
RetiredIsSettled ==
  \A q \in Quotes : association[q] = "retired" =>
    q \in received \/ (mint[q] = "unpaid" /\ past_quote_grace(q))

\* A paid deposit is claimed even if its client never comes back and other
\* quotes stay unpaid or fail at every pass (the rotation of the cursor).
PaidIsClaimed ==
  \A q \in Quotes \ Failing : mint[q] = "paid" ~> q \in received

\* Every association is removed in the end and gives its capacity back, and
\* so is every quote left without one, unless it was paid.
SlotsReturned ==
  \A q \in Quotes \ Failing :
    /\ association[q] # "none" ~> association[q] = "none"
    /\ (q \in wallet /\ mint[q] = "unpaid") ~> (q \notin wallet \/ mint[q] # "unpaid")
===============================================================================
