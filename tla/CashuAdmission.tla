---------------------------- MODULE CashuAdmission ----------------------------
(***************************************************************************)
(* Cashu payments of one mint (payments/mod.rs collect, payments/ledger.rs *)
(* reserve and claim): a token is reserved in the ledger, redeemed by the  *)
(* wallet, claimed in the ledger, and only then is its request admitted.   *)
(*                                                                         *)
(* A request holds the mint's wallet lock throughout.  It is a future that *)
(* the 30 s timeout or a disconnection may cancel at any await, which      *)
(* releases the lock; but a ledger transaction it has already started runs *)
(* on a blocking thread and still commits, however late, and a swap it has *)
(* sent may still reach the mint.                                          *)
(*                                                                         *)
(* The mint and the CDK wallet (sagas persisted before a swap is sent and  *)
(* resolved by recover_incomplete_sagas) are external, modelled from how   *)
(* the code uses them.  The seed, the keysets and the encoding of tokens   *)
(* are left out; a token is identified by its proofs, as token_id does.    *)
(***************************************************************************)
EXTENDS Integers

CONSTANTS
  Proofs,
  Tokens,
  ProofsOf,   \* ProofsOf[t]: what token t is made of; tokens may overlap
  Net,        \* Net[t]: value of t less the fees known when it is checked
  Shortfall,  \* how much more the mint may charge by the time of the swap
  Terms,      \* the (site, price) pairs tokens are offered for
  Price,
  Requests,
  NoToken, NoTerm, Free

ASSUME CashuConstants ==
  /\ ProofsOf \in [Tokens -> (SUBSET Proofs) \ {{}}]
  /\ Shortfall \in Nat
  /\ Net \in [Tokens -> Nat]
  /\ \A t \in Tokens : Net[t] > Shortfall
  /\ Price \in [Terms -> Nat \ {0}]
  /\ NoToken \notin Tokens /\ NoTerm \notin Terms /\ Free \notin Requests

VARIABLES
  ledger,     \* table PAYMENTS: the terms a token is reserved for, and claimed
  saga,       \* CDK store: the amount an unfinished receive of t expects, or 0
  completed,  \* CDK store: the amount of the completed receive of t, or 0
  network,    \* swaps on their way to the mint
  orphans,    \* swaps on their way whose saga has been compensated
  swapped,    \* swaps the mint has made for a saga that does not know it yet
  spent,      \* proofs the mint holds as spent
  opened, needs_recovery, lock,  \* the MintWallet of this process
  request,    \* progress of each request
  detached,   \* transactions of cancelled requests that have yet to commit
  attempts    \* history: how many requests each token let through

vars == <<ledger, saga, completed, network, orphans, swapped, spent,
          opened, needs_recovery, lock, request, detached, attempts>>
mint == <<network, orphans, swapped, spent>>
store == <<saga, completed>>
wallet == <<opened, needs_recovery, lock>>

Phases == {"idle", "opening", "recovering", "reserving", "redeeming",
           "receiving", "claiming", "won"}

Idle == [phase |-> "idle", token |-> NoToken, term |-> NoTerm]
Unreserved == [term |-> NoTerm, claimed |-> FALSE]
Operation(op, t, c) == [op |-> op, token |-> t, term |-> c]

-----------------------------------------------------------------------------
Init ==
  /\ ledger = [t \in Tokens |-> Unreserved]
  /\ saga = [t \in Tokens |-> 0]
  /\ completed = [t \in Tokens |-> 0]
  /\ network = {} /\ orphans = {} /\ swapped = {} /\ spent = {}
  /\ opened = FALSE /\ needs_recovery = FALSE /\ lock = Free
  /\ request = [r \in Requests |-> Idle]
  /\ detached = {}
  /\ attempts = [t \in Tokens |-> 0]

\* Request r goes on to a phase of its collect, holding the lock.
Goto(r, phase) ==
  request' = [request EXCEPT ![r] =
    [phase |-> phase, token |-> request[r].token, term |-> request[r].term]]

\* Request r answers with an error and releases the lock.
Finish(r) ==
  /\ request' = [request EXCEPT ![r] = Idle]
  /\ lock' = Free

\* try_lock: a busy wallet answers 503 at once, without queueing.
Start(r, t, c) ==
  /\ request[r].phase = "idle"
  /\ lock = Free
  /\ lock' = r
  /\ request' = [request EXCEPT ![r] =
       [phase |-> IF opened THEN "recovering" ELSE "opening",
        token |-> t, term |-> c]]
  /\ UNCHANGED <<ledger, store, mint, opened, needs_recovery, detached, attempts>>

\* MintWallet::open: a fresh wallet has to recover first.
Open(r) ==
  /\ request[r].phase = "opening"
  /\ opened' = TRUE
  /\ needs_recovery' = TRUE
  /\ Goto(r, "recovering")
  /\ UNCHANGED <<ledger, store, mint, lock, detached, attempts>>

\* recover_incomplete_sagas resolves one saga after the other: a swap that the
\* mint has made is completed, any other is compensated.
RecoverSaga(r, t) ==
  /\ request[r].phase = "recovering"
  /\ needs_recovery
  /\ saga[t] # 0
  /\ saga' = [saga EXCEPT ![t] = 0]
  /\ IF t \in swapped
       THEN /\ completed' = [completed EXCEPT ![t] = saga[t]]
            /\ swapped' = swapped \ {t}
            /\ UNCHANGED <<network, orphans>>
       ELSE /\ orphans' = orphans \union (network \intersect {t})
            /\ network' = network \ {t}
            /\ UNCHANGED <<completed, swapped>>
  /\ UNCHANGED <<ledger, spent, wallet, request, detached, attempts>>

\* Recovered, and the token is genuine and worth its price after fees.
Recovered(r) ==
  /\ request[r].phase = "recovering"
  /\ needs_recovery => \A t \in Tokens : saga[t] = 0
  /\ needs_recovery' = FALSE
  /\ IF Net[request[r].token] >= Price[request[r].term]
       THEN Goto(r, "reserving") /\ UNCHANGED lock
       ELSE Finish(r)
  /\ UNCHANGED <<ledger, store, mint, opened, detached, attempts>>

\* The write of Ledger::reserve.
ReserveWrite(t, c) ==
  ledger' = IF ledger[t].term = NoTerm
              THEN [ledger EXCEPT ![t] = [term |-> c, claimed |-> FALSE]]
              ELSE ledger

\* Mutant: takes a pending reservation for a redeemed one.
ReserveTrustsPending(r) ==
  LET t == request[r].token
      c == request[r].term IN
  /\ request[r].phase = "reserving"
  /\ ReserveWrite(t, c)
  /\ IF ledger[t].term \notin {NoTerm, c} \/ ledger[t].claimed
       THEN Finish(r)
       ELSE /\ Goto(r, IF ledger[t].term = c THEN "claiming" ELSE "redeeming")
            /\ UNCHANGED lock
  /\ UNCHANGED <<store, mint, opened, needs_recovery, detached, attempts>>

\* Mutant: redeems a pending token again, whether or not it was received.
ReserveForgetsReceived(r) ==
  LET t == request[r].token
      c == request[r].term IN
  /\ request[r].phase = "reserving"
  /\ ReserveWrite(t, c)
  /\ IF ledger[t].term \notin {NoTerm, c} \/ ledger[t].claimed
       THEN Finish(r)
       ELSE Goto(r, "redeeming") /\ UNCHANGED lock
  /\ UNCHANGED <<store, mint, opened, needs_recovery, detached, attempts>>

\* Mutant: no mismatch between the terms offered and those reserved.
ReserveAnyTerms(r) ==
  LET t == request[r].token
      c == request[r].term IN
  /\ request[r].phase = "reserving"
  /\ ReserveWrite(t, c)
  /\ IF ledger[t].claimed
       THEN Finish(r)
       ELSE /\ Goto(r, IF ledger[t].term # NoTerm /\ completed[t] >= Price[c]
                         THEN "claiming" ELSE "redeeming")
            /\ UNCHANGED lock
  /\ UNCHANGED <<store, mint, opened, needs_recovery, detached, attempts>>

\* Ledger::reserve and the match on its answer: a pending reservation whose
\* funds have arrived goes straight to the claim.
Reserve(r) ==
  LET t == request[r].token
      c == request[r].term IN
  /\ request[r].phase = "reserving"
  /\ ReserveWrite(t, c)
  /\ IF ledger[t].term \notin {NoTerm, c} \/ ledger[t].claimed
       THEN Finish(r)
       ELSE /\ Goto(r, IF ledger[t].term = c /\ completed[t] >= Price[c]
                         THEN "claiming" ELSE "redeeming")
            /\ UNCHANGED lock
  /\ UNCHANGED <<store, mint, opened, needs_recovery, detached, attempts>>

\* receive_proofs persists its saga and sends the swap.
Redeem(r) ==
  LET t == request[r].token IN
  /\ request[r].phase = "redeeming"
  /\ needs_recovery' = TRUE
  /\ \E amount \in Net[t] - Shortfall .. Net[t] :
       saga' = [saga EXCEPT ![t] = amount]
  /\ network' = network \union {t}
  /\ Goto(r, "receiving")
  /\ UNCHANGED <<ledger, completed, orphans, swapped, spent, opened, lock,
                 detached, attempts>>

\* Mutant: claims whatever amount arrived.
ReceiveShort(r) ==
  LET t == request[r].token IN
  /\ request[r].phase = "receiving"
  /\ t \in swapped
  /\ completed' = [completed EXCEPT ![t] = saga[t]]
  /\ saga' = [saga EXCEPT ![t] = 0]
  /\ swapped' = swapped \ {t}
  /\ needs_recovery' = FALSE
  /\ Goto(r, "claiming")
  /\ UNCHANGED <<ledger, network, orphans, spent, opened, lock, detached, attempts>>

\* The mint answers with signatures; a short amount leaves the flag set.
Receive(r) ==
  LET t == request[r].token IN
  /\ request[r].phase = "receiving"
  /\ t \in swapped
  /\ completed' = [completed EXCEPT ![t] = saga[t]]
  /\ saga' = [saga EXCEPT ![t] = 0]
  /\ swapped' = swapped \ {t}
  /\ IF saga[t] < Price[request[r].term]
       THEN Finish(r) /\ UNCHANGED needs_recovery
       ELSE /\ needs_recovery' = FALSE
            /\ Goto(r, "claiming")
            /\ UNCHANGED lock
  /\ UNCHANGED <<ledger, network, orphans, spent, opened, detached, attempts>>

\* The mint answers that the proofs are spent; the flag stays set.
Rejected(r) ==
  /\ request[r].phase = "receiving"
  /\ request[r].token \notin network \union swapped
  /\ Finish(r)
  /\ UNCHANGED <<ledger, store, mint, opened, needs_recovery, detached, attempts>>

Pending(t) == ledger[t].term # NoTerm /\ ~ledger[t].claimed

\* The write of Ledger::claim.
ClaimWrite(t) ==
  ledger' = IF Pending(t)
              THEN [ledger EXCEPT ![t] = [term |-> ledger[t].term, claimed |-> TRUE]]
              ELSE ledger

\* Mutant: lets the request through without waiting for the transaction.
ClaimUnawaited(r) ==
  LET t == request[r].token IN
  /\ request[r].phase = "claiming"
  /\ detached' = detached \union {Operation("claim", t, request[r].term)}
  /\ lock' = Free
  /\ Goto(r, "won")
  /\ UNCHANGED <<ledger, store, mint, opened, needs_recovery, attempts>>

Claim(r) ==
  LET t == request[r].token IN
  /\ request[r].phase = "claiming"
  /\ ClaimWrite(t)
  /\ lock' = Free
  /\ IF Pending(t) THEN Goto(r, "won")
                   ELSE request' = [request EXCEPT ![r] = Idle]
  /\ UNCHANGED <<store, mint, opened, needs_recovery, detached, attempts>>

Admit(r) ==
  /\ request[r].phase = "won"
  /\ attempts' = [attempts EXCEPT ![request[r].token] = @ + 1]
  /\ request' = [request EXCEPT ![r] = Idle]
  /\ UNCHANGED <<ledger, store, mint, wallet, detached>>

-----------------------------------------------------------------------------
(* The mint.  It swaps unspent proofs only, and all of a token or nothing.  *)

MintSwap(t) ==
  /\ t \in network
  /\ network' = network \ {t}
  /\ IF ProofsOf[t] \intersect spent = {}
       THEN /\ spent' = spent \union ProofsOf[t]
            /\ swapped' = swapped \union {t}
       ELSE UNCHANGED <<spent, swapped>>
  /\ UNCHANGED <<ledger, store, orphans, wallet, request, detached, attempts>>

\* A swap arrives after its saga was compensated: the funds go to outputs
\* that nobody knows any more.
MintSwapOrphan(t) ==
  /\ t \in orphans
  /\ orphans' = orphans \ {t}
  /\ spent' = IF ProofsOf[t] \intersect spent = {}
                THEN spent \union ProofsOf[t] ELSE spent
  /\ UNCHANGED <<ledger, store, network, swapped, wallet, request, detached,
                 attempts>>

\* The owner of a proof spends it elsewhere.
SpendElsewhere(p) ==
  /\ p \notin spent
  /\ spent' = spent \union {p}
  /\ UNCHANGED <<ledger, store, network, orphans, swapped, wallet, request,
                 detached, attempts>>

-----------------------------------------------------------------------------
(* Faults.                                                                  *)

\* A timeout, an error or a disconnection drops the future at an await.  The
\* transaction it was waiting for may be running already.
Cancel(r) ==
  LET t == request[r].token
      c == request[r].term IN
  /\ request[r].phase \notin {"idle", "won"}
  /\ Finish(r)
  /\ detached' \in {detached} \union
       IF request[r].phase = "reserving"
         THEN {detached \union {Operation("reserve", t, c)}}
         ELSE IF request[r].phase = "claiming"
                THEN {detached \union {Operation("claim", t, c)}}
                ELSE {}
  /\ UNCHANGED <<ledger, store, mint, opened, needs_recovery, attempts>>

\* ... and commits with nobody waiting for it.
Commit(d) ==
  /\ d \in detached
  /\ detached' = detached \ {d}
  /\ IF d.op = "reserve" THEN ReserveWrite(d.token, d.term)
                          ELSE ClaimWrite(d.token)
  /\ UNCHANGED <<store, mint, wallet, request, attempts>>

\* The client is gone before its request reaches the handler.
Disconnect(r) ==
  /\ request[r].phase = "won"
  /\ request' = [request EXCEPT ![r] = Idle]
  /\ UNCHANGED <<ledger, store, mint, wallet, detached, attempts>>

\* The process dies; ledger, CDK store and mint survive.
Crash ==
  /\ opened
  /\ opened' = FALSE
  /\ needs_recovery' = FALSE
  /\ lock' = Free
  /\ request' = [r \in Requests |-> Idle]
  /\ detached' = {}
  /\ UNCHANGED <<ledger, store, mint, attempts>>

-----------------------------------------------------------------------------
Retry(t, c) == \E r \in Requests : Start(r, t, c)

Collect(r) ==
  \/ Open(r)
  \/ \E t \in Tokens : RecoverSaga(r, t)
  \/ Recovered(r)
  \/ Reserve(r)
  \/ Redeem(r)
  \/ Receive(r)
  \/ Rejected(r)
  \/ Claim(r)
  \/ Admit(r)

Mint ==
  \/ \E t \in Tokens : MintSwap(t) \/ MintSwapOrphan(t)
  \/ \E p \in Proofs : SpendElsewhere(p)

Fault ==
  \/ \E r \in Requests : Cancel(r) \/ Disconnect(r)
  \/ Crash

Progress ==
  \/ \E t \in Tokens, c \in Terms : Retry(t, c)
  \/ \E r \in Requests : Collect(r)
  \/ Mint
  \/ \E d \in detached : Commit(d)

Next == Progress \/ Fault

Spec == Init /\ [][Next]_vars

-----------------------------------------------------------------------------
\* Amounts are never negative, records and detached transactions are well
\* formed, and the lock is free or held by a request.
TypeOK ==
  /\ ledger \in [Tokens -> [term : Terms \union {NoTerm}, claimed : BOOLEAN]]
  /\ saga \in [Tokens -> Nat]
  /\ completed \in [Tokens -> Nat]
  /\ network \subseteq Tokens
  /\ orphans \subseteq Tokens
  /\ swapped \subseteq Tokens
  /\ spent \subseteq Proofs
  /\ opened \in BOOLEAN
  /\ needs_recovery \in BOOLEAN
  /\ lock \in Requests \union {Free}
  /\ request \in [Requests ->
       [phase : Phases, token : Tokens \union {NoToken}, term : Terms \union {NoTerm}]]
  /\ detached \subseteq [op : {"reserve", "claim"}, token : Tokens, term : Terms]
  /\ attempts \in [Tokens -> Nat]

(***************************************************************************)
(* No proof pays twice: two tokens that share a proof are different ids to *)
(* the ledger, yet at most one of them ever lets a request through.  What  *)
(* prevents it is that collect claims only what the mint has swapped.      *)
(***************************************************************************)
ProofsPayOnce ==
  \A t, u \in Tokens :
    t # u /\ ProofsOf[t] \intersect ProofsOf[u] # {} => attempts[t] + attempts[u] <= 1

(***************************************************************************)
(* A claimed token has been redeemed in full: whatever was cancelled,      *)
(* recovered or committed late, the wallet has received the price of the   *)
(* terms the token was reserved for (collect_inner, Ledger::claim).        *)
(***************************************************************************)
ClaimedIsPaid ==
  \A t \in Tokens : ledger[t].claimed => completed[t] >= Price[ledger[t].term]

(***************************************************************************)
(* needs_recovery misses nothing: a receive left unfinished by a           *)
(* cancellation or a failure is recovered before the wallet is used again. *)
(***************************************************************************)
UnfinishedIsFlagged ==
  opened /\ (\E t \in Tokens : saga[t] # 0) => needs_recovery

(***************************************************************************)
(* A token admits its request under the terms it was reserved for: the     *)
(* site and price of a winner are those of the ledger record.              *)
(***************************************************************************)
WinnerKeepsTerms ==
  \A r \in Requests : request[r].phase = "won" =>
    ledger[request[r].token] = [term |-> request[r].term, claimed |-> TRUE]

\* CashuAdmission implements the abstract one-attempt ledger: a token is
\* consumed when its record is claimed.
Abstract == INSTANCE OneAttempt
  WITH Payments <- Tokens, consumed <- {t \in Tokens : ledger[t].claimed}

(***************************************************************************)
(* Refinement: admission is recorded before the handler runs, so a crash   *)
(* may lose an attempt but never authorises a second one.                  *)
(***************************************************************************)
ImplementsOneAttempt == Abstract!Spec
===============================================================================
