------------------------------ MODULE Settlement ------------------------------
(***************************************************************************)
(* Lightning payments (payments/lightning/): how a 402 challenge creates   *)
(* an invoice and an L402 root, how an x402 or L402 credential is settled, *)
(* and how expired records are pruned.  All tables live in one redb        *)
(* database; every write transaction is one atomic, durable step.          *)
(*                                                                         *)
(* Two clocks: deadlines and timeouts run on tokio's monotonic clock       *)
(* (mono), while invoice expiry, credential expiry, record retention and   *)
(* pruning read the system clock (wall).  The system clock can be stepped, *)
(* also backwards, but its error stays within DRIFT:                       *)
(* mono <= wall <= mono + DRIFT.                                           *)
(***************************************************************************)
EXTENDS Integers, FiniteSets

CONSTANTS
  Keys,        \* network:payment_hash keys, one per invoice
  MintKeys,    \* keys whose invoice is made by a Cashu mint receiver
  Offers,      \* Offers[k]: the protocols of k's site, "x402" and/or "l402"
  Requests,    \* concurrent HTTP requests that carry a Lightning credential
  NoKey,       \* the key of an idle request
  SKEW,        \* clock-skew grace of settlement (60 s)
  HOUR,        \* safety window of replay barriers (3600 s)
  EXPIRY,      \* longest invoice lifetime
  DEADLINE,    \* request_timeout of the site
  DRIFT,       \* width of the band the system clock stays in
  MAX_CHALLENGE_RECORDS,
  LastIssue,   \* bound: no invoice is created after this time
  MaxTime      \* bound: the last tick

ASSUME SettlementConstants ==
  /\ IsFiniteSet(Keys)
  /\ MintKeys \subseteq Keys
  /\ Offers \in [Keys -> (SUBSET {"x402", "l402"}) \ {{}}]
  /\ \A k \in MintKeys : Offers[k] = {"l402"}
  /\ NoKey \notin Keys
  /\ {SKEW, EXPIRY, DEADLINE, DRIFT, MAX_CHALLENGE_RECORDS, LastIssue, MaxTime}
       \subseteq Nat
  /\ HOUR \in Nat \ {0}

\* Without clock steps any deadline will do (request_timeout may be off);
\* with clock steps the safety window has to cover step and deadline together.
ASSUME ClockAssumption ==
  DRIFT = 0 \/ DEADLINE + DRIFT < HOUR

VARIABLES
  mono,      \* monotonic time
  wall,      \* system clock
  lapsed,    \* history: keys whose grace the system clock has run past
  open,      \* the database has been opened by this process
  challenge, \* progress of the challenge that creates invoice k
  end,       \* expiry of invoice k (created + expiry), 0 before it exists
  roots,     \* table ROOTS: k -> valid_before, 0 when absent
  quotes,    \* table QUOTES: keys with a mint deposit association
  spent,     \* table SPENT: k -> retain_until, 0 when absent
  request,   \* progress of each settlement
  consumed,  \* history: keys that were ever inserted in SPENT
  attempts   \* history: how many requests each key let through

vars == <<mono, wall, lapsed, open, challenge, end, roots, quotes, spent,
          request, consumed, attempts>>
tables == <<roots, quotes, spent>>
clocks == <<mono, wall, lapsed>>
history == <<consumed, attempts>>

Undecided == {"checked", "invoiced", "recorded", "valid"}
ChallengeStages == Undecided \union {"none", "issued", "failed"}
Phases == {"idle", "read", "collecting", "claiming", "won", "refused"}

Idle == [phase |-> "idle", key |-> NoKey, valid |-> 0, retain |-> 0, start |-> 0]

\* Request r with its phase and the retention it will claim with replaced.
Moved(r, phase, retain) ==
  [phase |-> phase, key |-> request[r].key, valid |-> request[r].valid,
   retain |-> retain, start |-> request[r].start]

-----------------------------------------------------------------------------
(* Retention arithmetic.                                                   *)

\* Mutant: expiry off by one, as if the bound were inclusive.
ValidBeforeInclusive(e) == e + SKEW

\* L402 root expiry, exclusive (mint_l402).
ValidBefore(e) == e + SKEW + 1

\* Mutant: the barrier lives only as long as the invoice can settle.
RetainNoWindow(e) == e + SKEW

\* Replay barrier of an x402 payment (verify).
X402Retain(e) == e + SKEW + HOUR

\* Replay barrier of an L402 payment, from the stored root (settle_l402).
L402Retain(valid) == valid + (HOUR - 1)

\* Settlement accepts an x402 invoice up to the grace (validate_invoice).
InvoiceSettles(k) == wall < end[k] \/ (SKEW > 0 /\ wall <= end[k] + SKEW)

Live(table, time) == [k \in Keys |-> IF table[k] > time THEN table[k] ELSE 0]

Present(table) == {k \in Keys : table[k] # 0}

RecordCount == Cardinality(Present(roots)) + Cardinality(quotes)

check_capacity(needed) == RecordCount + needed <= MAX_CHALLENGE_RECORDS

\* Slots a challenge for k needs: a root for L402, an association for a mint.
Needed(k) == (IF "l402" \in Offers[k] THEN 1 ELSE 0)
           + (IF k \in MintKeys THEN 1 ELSE 0)

-----------------------------------------------------------------------------
Init ==
  /\ mono = 0
  /\ wall \in 0 .. DRIFT
  /\ lapsed = {}
  /\ open = FALSE
  /\ challenge = [k \in Keys |-> "none"]
  /\ end = [k \in Keys |-> 0]
  /\ roots = [k \in Keys |-> 0]
  /\ quotes = {}
  /\ spent = [k \in Keys |-> 0]
  /\ request = [r \in Requests |-> Idle]
  /\ consumed = {}
  /\ attempts = [k \in Keys |-> 0]

\* The system clock reads time: every invoice whose grace this reading is past
\* has lapsed, and a clock that is stepped back afterwards does not undo it.
ReadClock(time) ==
  /\ wall' = time
  /\ lapsed' = lapsed \union {k \in Keys : end[k] # 0 /\ time > end[k] + SKEW}

\* Time passes; the system clock may be anywhere in its band.
Tick ==
  /\ mono < MaxTime
  /\ mono' = mono + 1
  /\ \E time \in mono + 1 .. mono + 1 + DRIFT : ReadClock(time)
  /\ UNCHANGED <<open, challenge, end, tables, request, history>>

\* The system clock is stepped, possibly backwards.
StepClock ==
  /\ \E time \in mono .. mono + DRIFT : ReadClock(time)
  /\ UNCHANGED <<mono, open, challenge, end, tables, request, history>>

\* Mutant: forgets the SPENT table.
PruneRootsOnly(time) ==
  /\ roots' = Live(roots, time)
  /\ spent' = spent

prune(time) ==
  /\ roots' = Live(roots, time)
  /\ spent' = Live(spent, time)

\* The first use of the database in a process creates the tables and prunes.
OpenDatabase ==
  /\ ~open
  /\ open' = TRUE
  /\ prune(wall)
  /\ UNCHANGED <<clocks, challenge, end, quotes, request, history>>

\* The maintenance loop, every 30 seconds.
PruneExpired ==
  /\ open
  /\ prune(wall)
  /\ UNCHANGED <<clocks, open, challenge, end, quotes, request, history>>

\* Cashu cleanup drops an association once its retention window has passed.
PruneDeposit(k) ==
  /\ open
  /\ k \in quotes
  /\ wall >= end[k] + SKEW + HOUR
  /\ quotes' = quotes \ {k}
  /\ UNCHANGED <<clocks, open, challenge, end, roots, spent, request, history>>

-----------------------------------------------------------------------------
(* Challenge issuance.  The capacity is checked early, before the receiver *)
(* is asked for an invoice, and again in each inserting transaction.       *)

StartChallenge(k) ==
  /\ open
  /\ challenge[k] = "none"
  /\ check_capacity(Needed(k))
  /\ challenge' = [challenge EXCEPT ![k] = "checked"]
  /\ UNCHANGED <<clocks, open, end, tables, request, history>>

\* The receiver's invoice is unexpired and created at most SKEW ahead of us.
CreateInvoice(k) ==
  /\ challenge[k] = "checked"
  /\ mono <= LastIssue
  /\ \E e \in wall + 1 .. wall + SKEW + EXPIRY :
       end' = [end EXCEPT ![k] = e]
  /\ challenge' = [challenge EXCEPT ![k] =
       IF k \in MintKeys THEN "invoiced" ELSE "valid"]
  /\ UNCHANGED <<clocks, open, tables, request, history>>

\* The mint association is committed before the invoice is validated again; a
\* challenge that fails after this leaves its association behind.
RecordQuote(k) ==
  /\ open
  /\ challenge[k] = "invoiced"
  /\ check_capacity(1)
  /\ k \notin quotes
  /\ quotes' = quotes \union {k}
  /\ challenge' = [challenge EXCEPT ![k] = "recorded"]
  /\ UNCHANGED <<clocks, open, end, roots, spent, request, history>>

Revalidate(k) ==
  /\ challenge[k] = "recorded"
  /\ wall < end[k]
  /\ challenge' = [challenge EXCEPT ![k] = "valid"]
  /\ UNCHANGED <<clocks, open, end, tables, request, history>>

\* Mutant: trusts the early capacity check.
MintUnchecked(k) ==
  /\ open
  /\ challenge[k] = "valid"
  /\ "l402" \in Offers[k]
  /\ roots' = [roots EXCEPT ![k] = ValidBefore(end[k])]
  /\ challenge' = [challenge EXCEPT ![k] = "issued"]
  /\ UNCHANGED <<clocks, open, end, quotes, spent, request, history>>

MintL402(k) ==
  /\ open
  /\ challenge[k] = "valid"
  /\ "l402" \in Offers[k]
  /\ check_capacity(1)
  /\ roots[k] = 0
  /\ roots' = [roots EXCEPT ![k] = ValidBefore(end[k])]
  /\ challenge' = [challenge EXCEPT ![k] = "issued"]
  /\ UNCHANGED <<clocks, open, end, quotes, spent, request, history>>

\* An x402-only challenge needs no record.
OfferX402(k) ==
  /\ challenge[k] = "valid"
  /\ "l402" \notin Offers[k]
  /\ challenge' = [challenge EXCEPT ![k] = "issued"]
  /\ UNCHANGED <<clocks, open, end, tables, request, history>>

\* Receiver error, capacity lost since the early check, or disconnection.
FailChallenge(k) ==
  /\ challenge[k] \in Undecided
  /\ challenge' = [challenge EXCEPT ![k] = "failed"]
  /\ UNCHANGED <<clocks, open, end, tables, request, history>>

-----------------------------------------------------------------------------
(* Settlement.  A request holds valid proof of payment; the checks of its  *)
(* form, binding and preimage reject without touching state and are not    *)
(* modelled, those of its time are.                                        *)

\* settle: verify at one reading of the clock, then claim.
SettleX402(r, k) ==
  /\ request[r].phase = "idle"
  /\ challenge[k] = "issued"
  /\ "x402" \in Offers[k]
  /\ InvoiceSettles(k)
  /\ request' = [request EXCEPT ![r] =
       [phase |-> "claiming", key |-> k, valid |-> 0,
        retain |-> X402Retain(end[k]), start |-> mono]]
  /\ UNCHANGED <<clocks, open, challenge, end, tables, history>>

\* settle_l402: read the root in a transaction of its own.
ReadRoot(r, k) ==
  /\ open
  /\ request[r].phase = "idle"
  /\ challenge[k] = "issued"
  /\ "l402" \in Offers[k]
  /\ roots[k] # 0
  /\ request' = [request EXCEPT ![r] =
       [phase |-> "read", key |-> k, valid |-> roots[k],
        retain |-> 0, start |-> mono]]
  /\ UNCHANGED <<clocks, open, challenge, end, tables, history>>

\* ... then verify the credential against what was read.
VerifyL402(r) ==
  /\ request[r].phase = "read"
  /\ wall < request[r].valid
  /\ request' = [request EXCEPT ![r] =
       Moved(r, IF request[r].key \in MintKeys THEN "collecting" ELSE "claiming",
             L402Retain(request[r].valid))]
  /\ UNCHANGED <<clocks, open, challenge, end, tables, history>>

\* The mint-backed deposit is in the wallet (collect_cashu_invoice).
CollectDeposit(r) ==
  /\ request[r].phase = "collecting"
  /\ request[r].key \in quotes
  /\ request' = [request EXCEPT ![r] = Moved(r, "claiming", request[r].retain)]
  /\ UNCHANGED <<clocks, open, challenge, end, tables, history>>

\* The transaction that inserts key k of request r in SPENT.
InsertSpent(r, k) ==
  /\ request' = [request EXCEPT ![r] = Moved(r, "won", request[r].retain)]
  /\ spent' = [spent EXCEPT ![k] = request[r].retain]
  /\ consumed' = consumed \union {k}

RefuseSpent(r) ==
  /\ request' = [request EXCEPT ![r] = Moved(r, "refused", request[r].retain)]
  /\ UNCHANGED <<spent, consumed>>

\* Mutant: does not look at the clock again after waiting for the writer lock.
ClaimNoRecheck(r) ==
  LET k == request[r].key IN
  /\ open
  /\ request[r].phase = "claiming"
  /\ IF spent[k] # 0 THEN RefuseSpent(r) ELSE InsertSpent(r, k)
  /\ UNCHANGED <<clocks, open, challenge, end, roots, quotes, attempts>>

\* Mutant: overwrites an existing record.
ClaimOverwrites(r) ==
  LET k == request[r].key IN
  /\ open
  /\ request[r].phase = "claiming"
  /\ request[r].retain > wall
  /\ InsertSpent(r, k)
  /\ UNCHANGED <<clocks, open, challenge, end, roots, quotes, attempts>>

\* claim: one write transaction.  It runs on a blocking thread, so it commits
\* even when the request has been cancelled in the meantime.
Claim(r) ==
  LET k == request[r].key IN
  /\ open
  /\ request[r].phase = "claiming"
  /\ request[r].retain > wall
  /\ IF spent[k] # 0 THEN RefuseSpent(r) ELSE InsertSpent(r, k)
  /\ UNCHANGED <<clocks, open, challenge, end, roots, quotes, attempts>>

\* The request goes on to its handler, unless its deadline has cut it off.
Admit(r) ==
  /\ request[r].phase = "won"
  /\ mono <= request[r].start + DEADLINE
  /\ attempts' = [attempts EXCEPT ![request[r].key] = @ + 1]
  /\ request' = [request EXCEPT ![r] = Idle]
  /\ UNCHANGED <<clocks, open, challenge, end, tables, consumed>>

\* Refused, failed, disconnected or past its deadline.
Drop(r) ==
  /\ request[r].phase # "idle"
  /\ request' = [request EXCEPT ![r] = Idle]
  /\ UNCHANGED <<clocks, open, challenge, end, tables, history>>

\* The process dies; the tables survive.
Crash ==
  /\ open
  /\ open' = FALSE
  /\ request' = [r \in Requests |-> Idle]
  /\ challenge' = [k \in Keys |->
       IF challenge[k] \in Undecided THEN "failed" ELSE challenge[k]]
  /\ UNCHANGED <<clocks, end, tables, history>>

-----------------------------------------------------------------------------
Issue(k) ==
  \/ StartChallenge(k)
  \/ CreateInvoice(k)
  \/ RecordQuote(k)
  \/ Revalidate(k)
  \/ MintL402(k)
  \/ OfferX402(k)
  \/ FailChallenge(k)
  \/ PruneDeposit(k)

Settle(r) ==
  \/ \E k \in Keys : SettleX402(r, k) \/ ReadRoot(r, k)
  \/ VerifyL402(r)
  \/ CollectDeposit(r)
  \/ Claim(r)
  \/ Admit(r)
  \/ Drop(r)

Next ==
  \/ Tick
  \/ StepClock
  \/ OpenDatabase
  \/ PruneExpired
  \/ Crash
  \/ \E k \in Keys : Issue(k)
  \/ \E r \in Requests : Settle(r)

Spec == Init /\ [][Next]_vars

\* Time passes, the maintenance loop keeps running and a restarted process
\* opens its database.  Nothing is assumed of clients, receivers or crashes.
Fairness == WF_vars(Tick) /\ WF_vars(OpenDatabase) /\ WF_vars(PruneExpired)

FairSpec == Spec /\ Fairness

-----------------------------------------------------------------------------
\* Every table entry is absent (0) or an expiry, the system clock stays in its
\* band, and requests and challenges stay in their phases.
TypeOK ==
  /\ mono \in Nat
  /\ wall \in mono .. mono + DRIFT
  /\ lapsed \subseteq Keys
  /\ open \in BOOLEAN
  /\ challenge \in [Keys -> ChallengeStages]
  /\ end \in [Keys -> Nat]
  /\ roots \in [Keys -> Nat]
  /\ quotes \subseteq Keys
  /\ spent \in [Keys -> Nat]
  /\ request \in [Requests ->
       [phase : Phases, key : Keys \union {NoKey}, valid : Nat,
        retain : Nat, start : Nat]]
  /\ consumed \subseteq Keys
  /\ attempts \in [Keys -> Nat]

(***************************************************************************)
(* One payment buys one attempt: whatever the interleaving of x402 and     *)
(* L402 settlements of an invoice, of pruning, restarts and clock steps,   *)
(* at most one request gets past claim to its handler.                     *)
(***************************************************************************)
SingleUse == \A k \in Keys : attempts[k] <= 1

(***************************************************************************)
(* The replay barrier in SPENT outlives every use of its credential: once  *)
(* it is pruned, no fresh verification of the credential can succeed at    *)
(* any later clock reading, and a settlement verified earlier is either    *)
(* past its deadline or refused by the retention check in claim.           *)
(***************************************************************************)
BarrierOutlivesCredential ==
  \A k \in consumed : spent[k] = 0 =>
    /\ mono > end[k] + SKEW
    /\ \A r \in Requests :
         request[r].key = k /\ request[r].phase \in {"collecting", "claiming"} =>
           mono > request[r].start + DEADLINE \/ request[r].retain <= wall

(***************************************************************************)
(* Cleanup never evicts a live credential: from the moment an L402         *)
(* challenge is issued until the system clock first reads a time past the  *)
(* invoice's grace, its root is stored and accepted at the present reading *)
(* (prune, settle_l402), wherever the clock has been stepped in between    *)
(* and however often the process restarted.  A reading past the grace ends *)
(* the guarantee for good: a prune at that reading removes the root, and   *)
(* stepping the clock back does not bring it back.                         *)
(***************************************************************************)
LiveRootsKept ==
  \A k \in Keys :
    challenge[k] = "issued" /\ "l402" \in Offers[k] /\ k \notin lapsed
    => roots[k] > wall

(***************************************************************************)
(* Outstanding roots and associations never exceed the cap, although       *)
(* challenges race between the early capacity check and their inserts.     *)
(***************************************************************************)
CapacityRespected == RecordCount <= MAX_CHALLENGE_RECORDS

(***************************************************************************)
(* Capacity comes back: every stored root and every replay barrier is      *)
(* eventually pruned, even if the process keeps crashing.                  *)
(***************************************************************************)
RecordsExpire ==
  \A k \in Keys : /\ (roots[k] # 0) ~> (roots[k] = 0)
                  /\ (spent[k] # 0) ~> (spent[k] = 0)

\* Settlement implements the abstract one-attempt ledger.
Abstract == INSTANCE OneAttempt WITH Payments <- Keys

(***************************************************************************)
(* Refinement: claiming consumes a payment once and only the request that  *)
(* consumed it may use the attempt.                                        *)
(***************************************************************************)
ImplementsOneAttempt == Abstract!Spec
===============================================================================
