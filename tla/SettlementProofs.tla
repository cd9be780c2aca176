--------------------------- MODULE SettlementProofs ---------------------------
(***************************************************************************)
(* Proofs about Settlement for every set of keys and requests, every       *)
(* deadline, drift, safety window and capacity its assumptions allow.      *)
(***************************************************************************)
EXTENDS Settlement, FiniteSetTheorems, TLAPS

Timely(r) == mono <= request[r].start + DEADLINE

InFlight == {"collecting", "claiming", "won", "refused"}

\* What the tables hold about an invoice is determined by its expiry, which
\* no longer changes once a challenge has been issued.
RecordsInv ==
  \A k \in Keys :
    /\ roots[k] \in {0, ValidBefore(end[k])}
    /\ spent[k] \in {0, X402Retain(end[k])}
    /\ k \in consumed => challenge[k] = "issued"
    /\ spent[k] # 0 => challenge[k] = "issued"
    /\ roots[k] # 0 => challenge[k] = "issued"

\* A settlement past verification started before the credential expired.
RequestsInv ==
  \A r \in Requests :
    /\ request[r].phase # "idle" =>
         /\ request[r].key \in Keys
         /\ challenge[request[r].key] = "issued"
         /\ request[r].start <= mono
    /\ request[r].phase = "read" =>
         request[r].valid = ValidBefore(end[request[r].key])
    /\ request[r].phase \in InFlight =>
         /\ request[r].retain = X402Retain(end[request[r].key])
         /\ request[r].start <= end[request[r].key] + SKEW

\* A consumed payment keeps its barrier until the clock has run past it.
BarrierInv ==
  \A k \in consumed :
    spent[k] # 0 \/ mono + DRIFT >= X402Retain(end[k])

\* At most one winner of a payment can still be admitted, and only while
\* nobody has been.
WinnersInv ==
  /\ \A k \in Keys : /\ attempts[k] <= 1
                     /\ attempts[k] > 0 => k \in consumed
  /\ \A r \in Requests : request[r].phase = "won" =>
       request[r].key \in consumed
  /\ \A r \in Requests : request[r].phase = "won" /\ Timely(r) =>
       /\ attempts[request[r].key] = 0
       /\ \A s \in Requests \ {r} :
            request[s].phase = "won" /\ request[s].key = request[r].key =>
              ~Timely(s)

IInv == TypeOK /\ RecordsInv /\ RequestsInv /\ BarrierInv /\ WinnersInv

-----------------------------------------------------------------------------
\* Both protocols keep the barrier of an invoice equally long.
LEMMA RetentionAgrees ==
  ASSUME NEW e \in Nat
  PROVE  L402Retain(ValidBefore(e)) = X402Retain(e)
BY SettlementConstants DEF SettlementConstants, L402Retain, ValidBefore, X402Retain

\* The initial state satisfies the invariant.
LEMMA InitIInv == Init => IInv
<1> SUFFICES ASSUME Init PROVE IInv
  OBVIOUS
<1>1. TypeOK
  <2>1. open \in BOOLEAN
    BY ZenonT(30) DEF Init
  <2>2. request \in [Requests ->
          [phase : Phases, key : Keys \union {NoKey}, valid : Nat,
           retain : Nat, start : Nat]]
    BY DEF Init, Idle, Phases
  <2>3. mono \in Nat /\ wall \in mono .. mono + DRIFT
    BY SettlementConstants DEF SettlementConstants, Init
  <2> QED
    BY <2>1, <2>2, <2>3 DEF Init, TypeOK, ChallengeStages, Undecided
<1>2. RecordsInv /\ RequestsInv /\ BarrierInv /\ WinnersInv
  BY DEF Init, RecordsInv, RequestsInv, BarrierInv, WinnersInv, InFlight, Idle
<1> QED
  BY <1>1, <1>2 DEF IInv

\* Every step keeps the variables in their types.
LEMMA TypeStep == TypeOK /\ RequestsInv /\ [Next]_vars => TypeOK'
<1> SUFFICES ASSUME TypeOK, RequestsInv, [Next]_vars PROVE TypeOK'
  OBVIOUS
<1> USE SettlementConstants DEF SettlementConstants, TypeOK, tables, clocks, history
<1>1. CASE Tick
  BY <1>1 DEF Tick, ReadClock
<1>2. CASE StepClock
  BY <1>2 DEF StepClock, ReadClock
<1>3. CASE OpenDatabase
  BY <1>3 DEF OpenDatabase, prune, Live
<1>4. CASE PruneExpired
  BY <1>4 DEF PruneExpired, prune, Live
<1>5. CASE Crash
  BY <1>5, ZenonT(30) DEF Crash, Idle, Phases, ChallengeStages, Undecided
<1>6. ASSUME NEW k \in Keys, Issue(k) PROVE TypeOK'
  <2> USE DEF ChallengeStages, Undecided
  <2>1. CASE StartChallenge(k)
    BY <2>1 DEF StartChallenge
  <2>2. CASE CreateInvoice(k)
    BY <2>2 DEF CreateInvoice
  <2>3. CASE RecordQuote(k)
    BY <2>3 DEF RecordQuote
  <2>4. CASE MintL402(k)
    BY <2>4 DEF MintL402, ValidBefore
  <2>5. CASE OfferX402(k)
    BY <2>5 DEF OfferX402
  <2>6. CASE FailChallenge(k)
    BY <2>6 DEF FailChallenge
  <2>7. CASE PruneDeposit(k)
    BY <2>7 DEF PruneDeposit
  <2>8. CASE Revalidate(k)
    BY <2>8 DEF Revalidate
  <2> QED
    BY <1>6, <2>1, <2>2, <2>3, <2>4, <2>5, <2>6, <2>7, <2>8 DEF Issue
<1>7. ASSUME NEW r \in Requests, Settle(r) PROVE TypeOK'
  <2> USE DEF Phases
  <2>1. ASSUME NEW k \in Keys, SettleX402(r, k) PROVE TypeOK'
    BY <2>1 DEF SettleX402, X402Retain
  <2>2. ASSUME NEW k \in Keys, ReadRoot(r, k) PROVE TypeOK'
    BY <2>2 DEF ReadRoot
  <2>3. CASE VerifyL402(r)
    <3>1. L402Retain(request[r].valid) \in Nat
      BY DEF L402Retain
    <3>2. (IF request[r].key \in MintKeys THEN "collecting" ELSE "claiming")
            \in Phases
      OBVIOUS
    <3>3. Moved(r, IF request[r].key \in MintKeys THEN "collecting" ELSE "claiming",
                L402Retain(request[r].valid))
            \in [phase : Phases, key : Keys \union {NoKey}, valid : Nat,
                 retain : Nat, start : Nat]
      BY <3>1, <3>2 DEF Moved
    <3> QED
      BY <2>3, <3>3 DEF VerifyL402
  <2>4. CASE CollectDeposit(r)
    BY <2>4 DEF CollectDeposit, Moved
  <2>5. CASE Claim(r)
    <3>1. request[r].key \in Keys
      BY <2>5 DEF Claim, RequestsInv
    <3>2. CASE spent[request[r].key] # 0
      BY <2>5, <3>2 DEF Claim, RefuseSpent, Moved
    <3>3. CASE spent[request[r].key] = 0
      BY <2>5, <3>1, <3>3 DEF Claim, InsertSpent, Moved
    <3> QED
      BY <3>2, <3>3
  <2>6. CASE Admit(r)
    <3>1. request[r].key \in Keys
      BY <2>6 DEF Admit, RequestsInv
    <3> QED
      BY <2>6, <3>1 DEF Admit, Idle
  <2>7. CASE Drop(r)
    BY <2>7 DEF Drop, Idle
  <2> QED
    BY <1>7, <2>1, <2>2, <2>3, <2>4, <2>5, <2>6, <2>7 DEF Settle
<1>8. CASE UNCHANGED vars
  BY <1>8 DEF vars
<1> QED
  BY <1>1, <1>2, <1>3, <1>4, <1>5, <1>6, <1>7, <1>8 DEF Next

\* Every step keeps the tables consistent with the invoices.
LEMMA RecordsStep == IInv /\ [Next]_vars => RecordsInv'
<1> SUFFICES ASSUME IInv, [Next]_vars PROVE RecordsInv'
  OBVIOUS
<1> USE SettlementConstants
    DEF SettlementConstants, IInv, TypeOK, RecordsInv, tables, clocks, history
<1>1. CASE Tick
  BY <1>1 DEF Tick
<1>2. CASE StepClock
  BY <1>2 DEF StepClock
<1>3. CASE OpenDatabase
  BY <1>3 DEF OpenDatabase, prune, Live
<1>4. CASE PruneExpired
  BY <1>4 DEF PruneExpired, prune, Live
<1>5. CASE Crash
  BY <1>5 DEF Crash, Undecided
<1>6. ASSUME NEW k \in Keys, Issue(k) PROVE RecordsInv'
  <2>1. CASE StartChallenge(k)
    BY <2>1 DEF StartChallenge
  <2>2. CASE CreateInvoice(k)
    <3>1. roots[k] = 0 /\ spent[k] = 0 /\ k \notin consumed
      BY <2>2 DEF CreateInvoice
    <3> QED
      BY <2>2, <3>1 DEF CreateInvoice
  <2>3. CASE RecordQuote(k)
    BY <2>3 DEF RecordQuote
  <2>4. CASE MintL402(k)
    BY <2>4 DEF MintL402, ValidBefore
  <2>5. CASE OfferX402(k)
    BY <2>5 DEF OfferX402
  <2>6. CASE FailChallenge(k)
    BY <2>6 DEF FailChallenge, Undecided
  <2>7. CASE PruneDeposit(k)
    BY <2>7 DEF PruneDeposit
  <2>8. CASE Revalidate(k)
    BY <2>8 DEF Revalidate
  <2> QED
    BY <1>6, <2>1, <2>2, <2>3, <2>4, <2>5, <2>6, <2>7, <2>8 DEF Issue
<1>7. ASSUME NEW r \in Requests, Settle(r) PROVE RecordsInv'
  <2>1. CASE Claim(r)
    <3>1. /\ request[r].key \in Keys
          /\ challenge[request[r].key] = "issued"
          /\ request[r].retain = X402Retain(end[request[r].key])
      BY <2>1 DEF Claim, RequestsInv, InFlight
    <3>2. CASE spent[request[r].key] # 0
      BY <2>1, <3>2 DEF Claim, RefuseSpent
    <3>3. CASE spent[request[r].key] = 0
      BY <2>1, <3>1, <3>3 DEF Claim, InsertSpent
    <3> QED
      BY <3>2, <3>3
  <2>2. CASE ~Claim(r)
    BY <1>7, <2>2
    DEF Settle, SettleX402, ReadRoot, VerifyL402, CollectDeposit, Admit, Drop
  <2> QED
    BY <2>1, <2>2
<1>8. CASE UNCHANGED vars
  BY <1>8 DEF vars
<1> QED
  BY <1>1, <1>2, <1>3, <1>4, <1>5, <1>6, <1>7, <1>8 DEF Next

\* Every step keeps the settlements in flight within their credentials' time.
LEMMA RequestsStep == IInv /\ [Next]_vars => RequestsInv'
<1> SUFFICES ASSUME IInv, [Next]_vars PROVE RequestsInv'
  OBVIOUS
<1> USE SettlementConstants
    DEF SettlementConstants, IInv, TypeOK, RequestsInv, InFlight,
        tables, clocks, history
<1>1. CASE Tick
  BY <1>1 DEF Tick
<1>2. CASE StepClock
  BY <1>2 DEF StepClock
<1>3. CASE OpenDatabase
  BY <1>3 DEF OpenDatabase
<1>4. CASE PruneExpired
  BY <1>4 DEF PruneExpired
<1>5. CASE Crash
  BY <1>5 DEF Crash, Idle, Undecided
<1>6. ASSUME NEW k \in Keys, Issue(k) PROVE RequestsInv'
  <2>1. UNCHANGED <<mono, request>>
    BY <1>6 DEF Issue, StartChallenge, CreateInvoice, RecordQuote,
                Revalidate, MintL402, OfferX402, FailChallenge, PruneDeposit
  <2>2. \A j \in Keys : challenge[j] = "issued" =>
          challenge'[j] = "issued" /\ end'[j] = end[j]
    BY <1>6 DEF Issue, StartChallenge, CreateInvoice, RecordQuote,
                Revalidate, MintL402, OfferX402, FailChallenge, PruneDeposit, Undecided
  <2> QED
    BY <2>1, <2>2
<1>7. ASSUME NEW r \in Requests, Settle(r) PROVE RequestsInv'
  <2>1. ASSUME NEW k \in Keys, SettleX402(r, k) PROVE RequestsInv'
    <3>1. mono <= end[k] + SKEW
      BY <2>1 DEF SettleX402, InvoiceSettles
    <3> QED
      BY <2>1, <3>1 DEF SettleX402
  <2>2. ASSUME NEW k \in Keys, ReadRoot(r, k) PROVE RequestsInv'
    <3>1. roots[k] = ValidBefore(end[k])
      BY <2>2 DEF ReadRoot, RecordsInv
    <3> QED
      BY <2>2, <3>1 DEF ReadRoot
  <2>3. CASE VerifyL402(r)
    <3>1. /\ request[r].key \in Keys
          /\ request[r].valid = ValidBefore(end[request[r].key])
      BY <2>3 DEF VerifyL402
    <3>2. request[r].start <= end[request[r].key] + SKEW
      BY <2>3, <3>1 DEF VerifyL402, ValidBefore
    <3>3. L402Retain(request[r].valid) = X402Retain(end[request[r].key])
      BY <3>1, RetentionAgrees
    <3> QED
      BY <2>3, <3>1, <3>2, <3>3 DEF VerifyL402, Moved
  <2>4. CASE CollectDeposit(r)
    BY <2>4 DEF CollectDeposit, Moved
  <2>5. CASE Claim(r)
    BY <2>5 DEF Claim, InsertSpent, RefuseSpent, Moved
  <2>6. CASE Admit(r)
    BY <2>6 DEF Admit, Idle
  <2>7. CASE Drop(r)
    BY <2>7 DEF Drop, Idle
  <2> QED
    BY <1>7, <2>1, <2>2, <2>3, <2>4, <2>5, <2>6, <2>7, ZenonT(30) DEF Settle
<1>8. CASE UNCHANGED vars
  BY <1>8 DEF vars
<1> QED
  BY <1>1, <1>2, <1>3, <1>4, <1>5, <1>6, <1>7, <1>8, ZenonT(30) DEF Next

\* A barrier is only pruned once the clock has passed its retention.
LEMMA BarrierStep == IInv /\ [Next]_vars => BarrierInv'
<1> SUFFICES ASSUME IInv, [Next]_vars PROVE BarrierInv'
  OBVIOUS
<1> USE SettlementConstants
    DEF SettlementConstants, IInv, TypeOK, BarrierInv, tables, clocks, history
<1> USE DEF X402Retain
<1>1. CASE Tick
  BY <1>1 DEF Tick
<1>2. CASE StepClock
  BY <1>2 DEF StepClock
<1>3. CASE OpenDatabase \/ PruneExpired
  <2>1. UNCHANGED <<clocks, end, consumed>> /\ spent' = Live(spent, wall)
    BY <1>3 DEF OpenDatabase, PruneExpired, prune
  <2> SUFFICES ASSUME NEW k \in consumed, spent'[k] = 0
               PROVE  mono + DRIFT >= end[k] + SKEW + HOUR
    BY <2>1
  <2>2. k \in Keys /\ spent[k] \in {0, end[k] + SKEW + HOUR}
    BY DEF RecordsInv
  <2>3. spent[k] = 0 \/ spent[k] <= wall
    BY <2>1, <2>2 DEF Live
  <2> QED
    BY <2>2, <2>3
<1>4. CASE Crash
  BY <1>4 DEF Crash
<1>5. ASSUME NEW k \in Keys, Issue(k) PROVE BarrierInv'
  <2>1. UNCHANGED <<clocks, spent, consumed>>
    BY <1>5 DEF Issue, StartChallenge, CreateInvoice, RecordQuote,
                Revalidate, MintL402, OfferX402, FailChallenge, PruneDeposit
  <2>2. \A j \in consumed : end'[j] = end[j]
    BY <1>5 DEF Issue, StartChallenge, CreateInvoice, RecordQuote,
                Revalidate, MintL402, OfferX402, FailChallenge, PruneDeposit, RecordsInv
  <2> QED
    BY <2>1, <2>2
<1>6. ASSUME NEW r \in Requests, Settle(r) PROVE BarrierInv'
  <2>1. CASE Claim(r)
    <3>1. request[r].key \in Keys /\ request[r].retain > 0
      BY <2>1 DEF Claim, RequestsInv, InFlight
    <3>2. CASE spent[request[r].key] # 0
      BY <2>1, <3>2 DEF Claim, RefuseSpent
    <3>3. CASE spent[request[r].key] = 0
      BY <2>1, <3>1, <3>3 DEF Claim, InsertSpent
    <3> QED
      BY <3>2, <3>3
  <2>2. CASE ~Claim(r)
    BY <1>6, <2>2
    DEF Settle, SettleX402, ReadRoot, VerifyL402, CollectDeposit, Admit, Drop
  <2> QED
    BY <2>1, <2>2
<1>7. CASE UNCHANGED vars
  BY <1>7 DEF vars
<1> QED
  BY <1>1, <1>2, <1>3, <1>4, <1>5, <1>6, <1>7, ZenonT(30) DEF Next

\* The heart of the argument: a request that wins while it can still be
\* admitted is the first to consume its payment.  Had the payment been
\* consumed before, its barrier would have been pruned, and by then the
\* winner is past its deadline or its retention check.
LEMMA TimelyWinnerIsFirst ==
  ASSUME IInv, NEW r \in Requests, Claim(r), Timely(r),
         spent[request[r].key] = 0
  PROVE  request[r].key \notin consumed
<1> DEFINE k == request[r].key
<1> USE SettlementConstants DEF SettlementConstants, IInv, TypeOK
<1>1. /\ k \in Keys
      /\ request[r].retain = X402Retain(end[k])
      /\ request[r].start <= end[k] + SKEW
  BY DEF Claim, RequestsInv, InFlight
<1>2. request[r].retain > wall
  BY DEF Claim
<1> SUFFICES ASSUME k \in consumed PROVE FALSE
  OBVIOUS
<1>3. mono + DRIFT >= end[k] + SKEW + HOUR
  BY <1>1 DEF BarrierInv, X402Retain
<1>4. mono <= end[k] + SKEW + DEADLINE
  BY <1>1 DEF Timely
<1>5. CASE DRIFT = 0
  BY <1>1, <1>2, <1>3, <1>5 DEF X402Retain
<1>6. CASE DEADLINE + DRIFT < HOUR
  BY <1>1, <1>3, <1>4, <1>6
<1> QED
  BY <1>5, <1>6, ClockAssumption DEF ClockAssumption

\* Without clock steps a payment is won only once, deadline or not; with
\* them a late second winner exists at most past its deadline.
LEMMA WinnersStep == IInv /\ [Next]_vars => WinnersInv'
<1> SUFFICES ASSUME IInv, [Next]_vars PROVE WinnersInv'
  OBVIOUS
<1> USE SettlementConstants
    DEF SettlementConstants, IInv, TypeOK, WinnersInv, Timely,
        tables, clocks, history
<1>1. CASE Tick
  BY <1>1 DEF Tick
<1>2. CASE StepClock
  BY <1>2 DEF StepClock
<1>3. CASE OpenDatabase
  BY <1>3 DEF OpenDatabase
<1>4. CASE PruneExpired
  BY <1>4 DEF PruneExpired
<1>5. CASE Crash
  BY <1>5 DEF Crash, Idle
<1>6. ASSUME NEW k \in Keys, Issue(k) PROVE WinnersInv'
  BY <1>6 DEF Issue, StartChallenge, CreateInvoice, RecordQuote,
              Revalidate, MintL402, OfferX402, FailChallenge, PruneDeposit
<1>7. ASSUME NEW r \in Requests, Settle(r) PROVE WinnersInv'
  <2>1. ASSUME NEW k \in Keys, SettleX402(r, k) PROVE WinnersInv'
    BY <2>1, ZenonT(30) DEF SettleX402
  <2>2. ASSUME NEW k \in Keys, ReadRoot(r, k) PROVE WinnersInv'
    BY <2>2 DEF ReadRoot
  <2>3. CASE VerifyL402(r)
    BY <2>3 DEF VerifyL402, Moved
  <2>4. CASE CollectDeposit(r)
    BY <2>4 DEF CollectDeposit, Moved
  <2>5. CASE Claim(r)
    <3>1. request[r].key \in Keys
      BY <2>5 DEF Claim, RequestsInv
    <3>2. CASE spent[request[r].key] # 0
      BY <2>5, <3>1, <3>2 DEF Claim, RefuseSpent, Moved
    <3>3. CASE spent[request[r].key] = 0
      <4>1. Timely(r) => request[r].key \notin consumed
        BY <2>5, <3>3, TimelyWinnerIsFirst
      <4>2. /\ UNCHANGED <<mono, attempts>> /\ consumed' = consumed \union {request[r].key}
            /\ \A q \in Requests : /\ request'[q].key = request[q].key
                                   /\ request'[q].start = request[q].start
                                   /\ q # r => request'[q] = request[q]
        BY <2>5, <3>3 DEF Claim, InsertSpent, Moved
      <4>3. \A q \in Requests : Timely(q)' = Timely(q)
        BY <4>2
      <4> HIDE DEF Timely
      <4>4. ASSUME NEW q \in Requests, request'[q].phase = "won" PROVE request'[q].key \in consumed'
        BY <4>2, <4>4, ZenonT(30)
      <4>5. ASSUME NEW q \in Requests, request'[q].phase = "won", Timely(q)
            PROVE  /\ attempts[request[q].key] = 0
                   /\ \A s \in Requests \ {q} :
                        request'[s].phase = "won" /\ request[s].key = request[q].key => ~Timely(s)
        <5>1. CASE q = r
          BY <3>1, <4>1, <4>2, <4>5, <5>1
        <5>2. CASE q # r
          <6>1. request[q].phase = "won" /\ request[q].key \in consumed
            BY <4>2, <4>5, <5>2, ZenonT(30)
          <6> QED
            BY <4>1, <4>2, <4>5, <6>1, ZenonT(30)
        <5> QED
          BY <5>1, <5>2
      <4>6. \A k \in Keys : attempts'[k] <= 1 /\ (attempts'[k] > 0 => k \in consumed')
        BY <4>2
      <4> QED
        BY <4>2, <4>3, <4>4, <4>5, <4>6, ZenonT(30)
    <3> QED
      BY <3>2, <3>3
  <2>6. CASE Admit(r)
    <3>1. request[r].key \in Keys
      BY <2>6 DEF Admit, RequestsInv
    <3> QED
      BY <2>6, <3>1 DEF Admit, Idle
  <2>7. CASE Drop(r)
    BY <2>7 DEF Drop, Idle
  <2> QED
    BY <1>7, <2>1, <2>2, <2>3, <2>4, <2>5, <2>6, <2>7, ZenonT(30) DEF Settle
<1>8. CASE UNCHANGED vars
  BY <1>8 DEF vars
<1> QED
  BY <1>1, <1>2, <1>3, <1>4, <1>5, <1>6, <1>7, <1>8, ZenonT(30) DEF Next

-----------------------------------------------------------------------------
\* The invariant holds in every reachable state.
THEOREM Invariant == Spec => []IInv
<1>1. Init => IInv
  BY InitIInv
<1>2. IInv /\ [Next]_vars => IInv'
  BY TypeStep, RecordsStep, RequestsStep, BarrierStep, WinnersStep DEF IInv
<1> QED
  BY <1>1, <1>2, PTL DEF Spec

\* The tables, clocks and settlements keep their types.
THEOREM TypeCorrect == Spec => []TypeOK
BY Invariant, PTL DEF IInv

\* One Lightning payment admits at most one request (claim, settle,
\* settle_l402), for every number of invoices and concurrent requests.
THEOREM SingleUseHolds == Spec => []SingleUse
<1>1. IInv => SingleUse
  BY DEF IInv, WinnersInv, SingleUse
<1> QED
  BY <1>1, Invariant, PTL

\* A pruned replay barrier protects a credential nobody can use any more
\* (prune, claim): the retention arithmetic of verify and settle_l402.
THEOREM BarrierHolds == Spec => []BarrierOutlivesCredential
<1>1. IInv => BarrierOutlivesCredential
  <2> SUFFICES ASSUME IInv, NEW k \in consumed, spent[k] = 0
               PROVE  /\ mono > end[k] + SKEW
                      /\ \A r \in Requests :
                           request[r].key = k
                             /\ request[r].phase \in {"collecting", "claiming"} =>
                           \/ mono > request[r].start + DEADLINE
                           \/ request[r].retain <= wall
    BY DEF BarrierOutlivesCredential
  <2> USE SettlementConstants DEF SettlementConstants, IInv, TypeOK
  <2>1. k \in Keys /\ mono + DRIFT >= end[k] + SKEW + HOUR
    BY DEF BarrierInv, X402Retain
  <2>2. mono > end[k] + SKEW
    BY <2>1, ClockAssumption DEF ClockAssumption
  <2>3. ASSUME NEW r \in Requests, request[r].key = k,
               request[r].phase \in {"collecting", "claiming"}
        PROVE  mono > request[r].start + DEADLINE \/ request[r].retain <= wall
    <3>1. /\ request[r].retain = end[k] + SKEW + HOUR
          /\ request[r].start <= end[k] + SKEW
      BY <2>3 DEF RequestsInv, InFlight, X402Retain
    <3> QED
      BY <2>1, <3>1, ClockAssumption DEF ClockAssumption
  <2> QED
    BY <2>2, <2>3
<1> QED
  BY <1>1, Invariant, PTL

-----------------------------------------------------------------------------
\* While the clock has not run past the grace of an invoice, its L402 root is
\* stored with its full validity.  The first two conjuncts say what a key that
\* has not lapsed tells about the present reading.
RootsInv ==
  \A k \in Keys :
    /\ challenge[k] \in {"invoiced", "recorded", "valid", "issued"} => end[k] # 0
    /\ end[k] # 0 /\ k \notin lapsed => wall <= end[k] + SKEW
    /\ challenge[k] = "issued" /\ "l402" \in Offers[k] /\ k \notin lapsed =>
         roots[k] = ValidBefore(end[k])

\* Only pruning removes a root, and only when the clock has run past its grace.
LEMMA RootsStep == IInv /\ RootsInv /\ [Next]_vars => RootsInv'
<1> SUFFICES ASSUME IInv, RootsInv, [Next]_vars PROVE RootsInv'
  OBVIOUS
<1> USE SettlementConstants
    DEF SettlementConstants, IInv, TypeOK, RootsInv, ValidBefore,
        tables, clocks, history
<1>1. CASE Tick \/ StepClock
  <2>1. /\ UNCHANGED <<end, challenge, roots>> /\ wall' \in Int
        /\ lapsed' = lapsed \union {k \in Keys : end[k] # 0 /\ wall' > end[k] + SKEW}
    BY <1>1 DEF Tick, StepClock, ReadClock
  <2> QED
    BY <2>1
<1>2. CASE OpenDatabase \/ PruneExpired
  <2>1. UNCHANGED <<clocks, end, challenge>> /\ roots' = Live(roots, wall)
    BY <1>2 DEF OpenDatabase, PruneExpired, prune
  <2>2. ASSUME NEW k \in Keys, challenge[k] = "issued", "l402" \in Offers[k],
               k \notin lapsed
        PROVE  roots'[k] = roots[k]
    <3>1. roots[k] > wall
      BY <2>2
    <3> QED
      BY <2>1, <3>1 DEF Live
  <2> QED
    BY <2>1, <2>2
<1>3. CASE Crash
  BY <1>3 DEF Crash, Undecided
<1>4. ASSUME NEW k \in Keys, Issue(k) PROVE RootsInv'
  <2>1. CASE MintL402(k)
    BY <2>1 DEF MintL402
  <2>2. CASE OfferX402(k)
    BY <2>2 DEF OfferX402
  <2>3. CASE CreateInvoice(k)
    BY <2>3 DEF CreateInvoice
  <2>4. CASE ~MintL402(k) /\ ~OfferX402(k) /\ ~CreateInvoice(k)
    BY <1>4, <2>4 DEF Issue, StartChallenge, RecordQuote, Revalidate,
                      FailChallenge, PruneDeposit
  <2> QED
    BY <2>1, <2>2, <2>3, <2>4, ZenonT(30)
<1>5. ASSUME NEW r \in Requests, Settle(r) PROVE RootsInv'
  BY <1>5, ZenonT(30) DEF Settle, SettleX402, ReadRoot, VerifyL402, CollectDeposit, Claim,
              InsertSpent, RefuseSpent, Admit, Drop
<1>6. CASE UNCHANGED vars
  BY <1>6 DEF vars
<1> QED
  BY <1>1, <1>2, <1>3, <1>4, <1>5, <1>6, ZenonT(30) DEF Next

\* Cleanup never evicts a live credential: until the clock has read a time past
\* the grace of its invoice, an issued L402 root is stored and accepted (prune
\* against mint_l402 and settle_l402), for every drift of the system clock.
THEOREM LiveRootsHold == Spec => []LiveRootsKept
<1>1. Init => RootsInv
  BY DEF Init, RootsInv
<1>2. TypeOK /\ RootsInv => LiveRootsKept
  BY SettlementConstants, SMTT(30)
  DEF SettlementConstants, TypeOK, RootsInv, LiveRootsKept, ValidBefore
<1> QED
  BY <1>1, <1>2, RootsStep, Invariant, TypeCorrect, PTL DEF Spec

-----------------------------------------------------------------------------
\* Pruning cannot add a root, and a table holds finitely many.
LEMMA PruneShrinks ==
  ASSUME TypeOK, NEW time \in Nat
  PROVE  /\ IsFiniteSet(Present(roots))
         /\ Cardinality(Present(Live(roots, time))) <= Cardinality(Present(roots))
         /\ Cardinality(Present(Live(roots, time))) \in Nat
<1>1. IsFiniteSet(Present(roots))
  BY SettlementConstants, FS_Subset DEF SettlementConstants, Present
<1>2. Present(Live(roots, time)) \subseteq Present(roots)
  BY DEF Present, Live
<1>3. /\ IsFiniteSet(Present(Live(roots, time)))
      /\ Cardinality(Present(Live(roots, time))) <= Cardinality(Present(roots))
  BY <1>1, <1>2, FS_Subset
<1> QED
  BY <1>1, <1>3, FS_CardinalityType

\* Each insert checks the capacity in its own transaction, and nothing else
\* adds a record.
LEMMA CapacityStep == TypeOK /\ CapacityRespected /\ [Next]_vars => CapacityRespected'
<1> SUFFICES ASSUME TypeOK, CapacityRespected, [Next]_vars
             PROVE  CapacityRespected'
  OBVIOUS
<1> USE SettlementConstants
    DEF SettlementConstants, CapacityRespected, RecordCount, tables, clocks, history
<1> DEFINE R == Cardinality(Present(roots))
           Q == Cardinality(quotes)
<1>1. IsFiniteSet(Present(roots)) /\ IsFiniteSet(quotes)
  BY FS_Subset DEF Present, TypeOK
<1>2. R \in Nat /\ Q \in Nat
  BY <1>1, FS_CardinalityType
<1>3. ASSUME UNCHANGED <<roots, quotes>> PROVE CapacityRespected'
  BY <1>3 DEF Present
<1>4. CASE Tick \/ StepClock \/ Crash \/ UNCHANGED vars
  BY <1>3, <1>4 DEF Tick, StepClock, Crash, vars
<1>5. CASE OpenDatabase \/ PruneExpired
  <2>1. roots' = Live(roots, wall) /\ quotes' = quotes
    BY <1>5 DEF OpenDatabase, PruneExpired, prune
  <2>2. /\ Cardinality(Present(Live(roots, wall))) <= R
        /\ Cardinality(Present(Live(roots, wall))) \in Nat
    BY PruneShrinks DEF TypeOK
  <2>3. Present(roots)' = Present(Live(roots, wall))
    BY <2>1 DEF Present
  <2> QED
    BY <1>2, <2>1, <2>2, <2>3
<1>6. ASSUME NEW k \in Keys, Issue(k) PROVE CapacityRespected'
  <2>1. CASE RecordQuote(k)
    <3>1. quotes' = quotes \union {k} /\ k \notin quotes /\ roots' = roots
      BY <2>1 DEF RecordQuote
    <3>2. Cardinality(quotes') = Q + 1
      BY <1>1, <3>1, FS_AddElement, ZenonT(30)
    <3>3. R + Q + 1 <= MAX_CHALLENGE_RECORDS
      BY <2>1 DEF RecordQuote, check_capacity
    <3>4. Present(roots)' = Present(roots)
      BY <3>1 DEF Present
    <3> QED
      BY <1>2, <3>2, <3>3, <3>4
  <2>2. CASE MintL402(k)
    <3>1. Present(roots)' = Present(roots) \union {k}
      BY <2>2 DEF MintL402, Present, TypeOK, ValidBefore
    <3>2. k \notin Present(roots) /\ quotes' = quotes
      BY <2>2, ZenonT(30) DEF MintL402, Present
    <3>3. Cardinality(Present(roots)') = R + 1
      BY <1>1, <3>1, <3>2, FS_AddElement, ZenonT(30)
    <3>4. R + Q + 1 <= MAX_CHALLENGE_RECORDS
      BY <2>2, ZenonT(30) DEF MintL402, check_capacity
    <3> QED
      BY <1>2, <3>2, <3>3, <3>4
  <2>3. CASE PruneDeposit(k)
    <3>1. quotes' \subseteq quotes /\ roots' = roots
      BY <2>3 DEF PruneDeposit
    <3>2. Cardinality(quotes') <= Q /\ Cardinality(quotes') \in Nat
      BY <1>1, <3>1, FS_Subset, FS_CardinalityType
    <3>3. Present(roots)' = Present(roots)
      BY <3>1 DEF Present
    <3> QED
      BY <1>2, <3>2, <3>3
  <2>4. CASE ~RecordQuote(k) /\ ~MintL402(k) /\ ~PruneDeposit(k)
    BY <1>3, <1>6, <2>4, ZenonT(30) DEF Issue, StartChallenge, CreateInvoice, Revalidate,
                            OfferX402, FailChallenge
  <2> QED
    BY <2>1, <2>2, <2>3, <2>4
<1>7. ASSUME NEW r \in Requests, Settle(r) PROVE CapacityRespected'
  BY <1>3, <1>7, ZenonT(30) DEF Settle, SettleX402, ReadRoot, VerifyL402, CollectDeposit,
                    Claim, InsertSpent, RefuseSpent, Admit, Drop
<1> QED
  BY <1>4, <1>5, <1>6, <1>7 DEF Next

\* Racing challenges never exceed MAX_CHALLENGE_RECORDS (check_capacity in
\* cashu_invoice and mint_l402).
THEOREM CapacityHolds == Spec => []CapacityRespected
<1>1. Init => CapacityRespected
  <2> SUFFICES ASSUME Init PROVE CapacityRespected
    OBVIOUS
  <2>1. Present(roots) = {} /\ quotes = {}
    BY DEF Init, Present
  <2> QED
    BY <2>1, FS_EmptySet, SettlementConstants, SMTT(30)
    DEF SettlementConstants, CapacityRespected, RecordCount
<1> QED
  BY <1>1, CapacityStep, TypeCorrect, PTL DEF Spec

-----------------------------------------------------------------------------
\* Settlement implements OneAttempt: a first claim consumes the payment and
\* only an unexpired winner attempts; every other step stutters.
THEOREM RefinesOneAttempt == Spec => ImplementsOneAttempt
<1>1. Init => Abstract!Init
  BY DEF Init, Abstract!Init
<1>2. IInv /\ [Next]_vars => [Abstract!Next]_<<consumed, attempts>>
  <2> SUFFICES ASSUME IInv, [Next]_vars,
                      ~UNCHANGED <<consumed, attempts>>
               PROVE  Abstract!Next
    OBVIOUS
  <2>1. PICK r \in Requests : Claim(r) \/ Admit(r)
    BY ZenonT(30) DEF Next, vars, Tick, StepClock, OpenDatabase, PruneExpired, Crash, Issue,
           StartChallenge, CreateInvoice, RecordQuote, Revalidate, MintL402,
           OfferX402, FailChallenge, PruneDeposit, Settle, SettleX402, ReadRoot,
           VerifyL402, CollectDeposit, Drop, history
  <2>2. request[r].key \in Keys
    BY <2>1, ZenonT(30) DEF IInv, RequestsInv, Claim, Admit
  <2>3. CASE Claim(r)
    BY <2>2, <2>3
    DEF Claim, InsertSpent, RefuseSpent, Abstract!Next, Abstract!Consume
  <2>4. CASE Admit(r)
    <3>1. request[r].key \in consumed /\ attempts[request[r].key] = 0
      BY <2>4, ZenonT(30) DEF Admit, IInv, WinnersInv, Timely
    <3>2. attempts' = [attempts EXCEPT ![request[r].key] = 1]
      BY <2>2, <2>4, <3>1 DEF Admit, IInv, TypeOK
    <3> QED
      BY <2>2, <2>4, <3>1, <3>2, ZenonT(30) DEF Admit, Abstract!Next, Abstract!Attempt
  <2> QED
    BY <2>1, <2>3, <2>4
<1> QED
  BY <1>1, <1>2, Invariant, PTL DEF Spec, ImplementsOneAttempt, Abstract!Spec
===============================================================================
