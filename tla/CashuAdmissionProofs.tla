------------------------- MODULE CashuAdmissionProofs -------------------------
(***************************************************************************)
(* Proofs about CashuAdmission for every set of tokens, overlapping in any *)
(* way, every number of concurrent requests, every price and shortfall.    *)
(***************************************************************************)
EXTENDS CashuAdmission, TLAPS

RequestRecord ==
  [phase : Phases, token : Tokens \union {NoToken}, term : Terms \union {NoTerm}]

\* Phases in which a request is inside collect and holds the wallet lock.
Collecting == Phases \ {"idle", "won"}

\* One request at a time is inside collect, with the wallet open.
LockInv ==
  \A r \in Requests :
    /\ request[r].phase # "idle" =>
         request[r].token \in Tokens /\ request[r].term \in Terms
    /\ request[r].phase \in Collecting => lock = r
    /\ request[r].phase \in Collecting \ {"opening"} => opened

\* What recovery has to know is flagged, and a request that redeems a token
\* has nothing else left to recover.
FlagInv ==
  /\ \A t \in Tokens : opened /\ saga[t] # 0 => needs_recovery
  /\ \A r \in Requests :
       /\ request[r].phase \in {"reserving", "redeeming"} => ~needs_recovery
       /\ request[r].phase = "receiving" =>
            \A t \in Tokens \ {request[r].token} : saga[t] = 0

\* The wallet received t, or the mint has signed its outputs.
Funded(t) == completed[t] > 0 \/ t \in swapped

\* Every swap was paid for with proofs no other token was swapped with.
SwapInv ==
  /\ \A t \in Tokens : Funded(t) => ProofsOf[t] \subseteq spent
  /\ \A t \in swapped : saga[t] # 0 /\ completed[t] = 0
  /\ \A t \in network : saga[t] # 0 /\ t \notin swapped
  /\ \A t, u \in Tokens :
       t # u /\ Funded(t) /\ Funded(u) => ProofsOf[t] \intersect ProofsOf[u] = {}

\* Token t is reserved for terms c and their price is in the wallet.
Paid(t, c) == ledger[t].term = c /\ completed[t] >= Price[c]

\* A claim is only under way for a token whose price has been received.
PaidInv ==
  /\ \A t \in Tokens : ledger[t].claimed =>
       ledger[t].term \in Terms /\ completed[t] >= Price[ledger[t].term]
  /\ \A r \in Requests :
       /\ request[r].phase \in {"redeeming", "receiving", "claiming", "won"} =>
            ledger[request[r].token].term = request[r].term
       /\ request[r].phase = "claiming" => Paid(request[r].token, request[r].term)
  /\ \A d \in detached : d.op = "claim" => Paid(d.token, d.term)

\* A claimed token has at most one winner, or one attempt made.
WinnersInv ==
  /\ \A t \in Tokens : /\ attempts[t] <= 1
                       /\ attempts[t] > 0 => ledger[t].claimed
  /\ \A r \in Requests : request[r].phase = "won" =>
       /\ ledger[request[r].token].claimed
       /\ attempts[request[r].token] = 0
       /\ \A s \in Requests \ {r} :
            ~(request[s].phase = "won" /\ request[s].token = request[r].token)

IInv == TypeOK /\ LockInv /\ FlagInv /\ SwapInv /\ PaidInv /\ WinnersInv

-----------------------------------------------------------------------------
\* The initial state satisfies the invariant.
LEMMA InitIInv == Init => IInv
<1> SUFFICES ASSUME Init PROVE IInv
  OBVIOUS
<1>1. request \in [Requests -> RequestRecord]
  BY DEF Init, Idle, RequestRecord, Phases
<1>2. ledger \in [Tokens -> [term : Terms \union {NoTerm}, claimed : BOOLEAN]]
  BY DEF Init, Unreserved
<1>3. opened \in BOOLEAN /\ needs_recovery \in BOOLEAN
  BY ZenonT(30) DEF Init
<1>4. TypeOK
  BY <1>1, <1>2, <1>3 DEF Init, TypeOK, RequestRecord
<1>5. LockInv /\ FlagInv /\ SwapInv /\ PaidInv /\ WinnersInv
  BY DEF Init, LockInv, FlagInv, SwapInv, PaidInv, WinnersInv, Idle, Unreserved,
         Collecting, Funded
<1> QED
  BY <1>4, <1>5 DEF IInv

\* Moving a request to another phase keeps its record well formed.
LEMMA GotoType ==
  ASSUME TypeOK, NEW r \in Requests, NEW phase \in Phases, Goto(r, phase)
  PROVE  request' \in [Requests -> RequestRecord]
BY DEF TypeOK, Goto, RequestRecord

\* So does finishing it.
LEMMA FinishType ==
  ASSUME TypeOK, NEW r \in Requests, request' = [request EXCEPT ![r] = Idle]
  PROVE  request' \in [Requests -> RequestRecord]
BY DEF TypeOK, Idle, RequestRecord, Phases

\* The two ledger transactions keep the table well formed.
LEMMA LedgerType ==
  ASSUME TypeOK, NEW t \in Tokens, NEW c \in Terms, ReserveWrite(t, c) \/ ClaimWrite(t)
  PROVE  ledger' \in [Tokens -> [term : Terms \union {NoTerm}, claimed : BOOLEAN]]
<1>1. CASE ReserveWrite(t, c)
  <2>1. [term |-> c, claimed |-> FALSE] \in [term : Terms \union {NoTerm}, claimed : BOOLEAN]
    OBVIOUS
  <2> QED
    BY <1>1, <2>1 DEF ReserveWrite, TypeOK
<1>2. CASE ClaimWrite(t)
  <2>1. [term |-> ledger[t].term, claimed |-> TRUE]
          \in [term : Terms \union {NoTerm}, claimed : BOOLEAN]
    BY DEF TypeOK
  <2> QED
    BY <1>2, <2>1 DEF ClaimWrite, TypeOK
<1> QED
  BY <1>1, <1>2

\* Every step keeps the variables in their types.
LEMMA TypeStep == TypeOK /\ LockInv /\ [Next]_vars => TypeOK'
<1> SUFFICES ASSUME TypeOK, LockInv, [Next]_vars PROVE TypeOK'
  OBVIOUS
<1> USE CashuConstants DEF CashuConstants, mint, store, wallet
<1> USE DEF Phases
<1>1. request \in [Requests -> RequestRecord]
  BY DEF TypeOK, RequestRecord
<1>2. ASSUME NEW t \in Tokens, NEW c \in Terms, NEW r \in Requests, Start(r, t, c)
      PROVE  TypeOK'
  <2>1. request' \in [Requests -> RequestRecord]
    BY <1>1, <1>2 DEF Start, RequestRecord
  <2> QED
    BY <1>2, <2>1 DEF Start, TypeOK, RequestRecord
<1>3. ASSUME NEW r \in Requests, Collect(r) PROVE TypeOK'
  <2>1. CASE Open(r)
    <3>1. request' \in [Requests -> RequestRecord]
      BY <2>1, GotoType DEF Open
    <3> QED
      BY <2>1, <3>1 DEF Open, TypeOK, RequestRecord
  <2>2. ASSUME NEW t \in Tokens, RecoverSaga(r, t) PROVE TypeOK'
    <3>1. CASE t \in swapped
      BY <2>2, <3>1 DEF RecoverSaga, TypeOK
    <3>2. CASE t \notin swapped
      BY <2>2, <3>2 DEF RecoverSaga, TypeOK
    <3> QED
      BY <3>1, <3>2
  <2>3. CASE Recovered(r)
    <3>1. request' \in [Requests -> RequestRecord] /\ lock' \in {lock, Free}
      BY <2>3, GotoType, FinishType DEF Recovered, Finish
    <3> QED
      BY <2>3, <3>1, ZenonT(30) DEF Recovered, TypeOK, RequestRecord
  <2>4. CASE Reserve(r)
    <3>1. request[r].token \in Tokens /\ request[r].term \in Terms
      BY <2>4 DEF Reserve, LockInv
    <3>2. ledger' \in [Tokens -> [term : Terms \union {NoTerm}, claimed : BOOLEAN]]
      BY <2>4, <3>1, LedgerType DEF Reserve
    <3>3. request' \in [Requests -> RequestRecord] /\ lock' \in {lock, Free}
      BY <2>4, GotoType, FinishType DEF Reserve, Finish
    <3> QED
      BY <2>4, <3>2, <3>3 DEF Reserve, TypeOK, RequestRecord
  <2>5. CASE Redeem(r)
    <3>1. request' \in [Requests -> RequestRecord]
      BY <2>5, GotoType DEF Redeem
    <3>2. request[r].token \in Tokens
      BY <2>5 DEF Redeem, LockInv
    <3>3. saga' \in [Tokens -> Nat]
      BY <2>5, <3>2 DEF Redeem, TypeOK
    <3> QED
      BY <2>5, <3>1, <3>2, <3>3 DEF Redeem, TypeOK, RequestRecord
  <2>6. CASE Receive(r)
    <3>1. request' \in [Requests -> RequestRecord] /\ lock' \in {lock, Free}
            /\ needs_recovery' \in {needs_recovery, FALSE}
      BY <2>6, GotoType, FinishType, ZenonT(30) DEF Receive, Finish
    <3>2. saga[request[r].token] \in Nat
      BY <2>6 DEF Receive, TypeOK
    <3>3. saga' \in [Tokens -> Nat] /\ completed' \in [Tokens -> Nat]
      BY <2>6, <3>2 DEF Receive, TypeOK
    <3>4. needs_recovery' \in BOOLEAN
      BY <3>1, ZenonT(30) DEF TypeOK
    <3> QED
      BY <2>6, <3>1, <3>3, <3>4 DEF Receive, TypeOK, RequestRecord
  <2>7. CASE Rejected(r)
    <3>1. request' \in [Requests -> RequestRecord]
      BY <2>7, FinishType, ZenonT(30) DEF Rejected, Finish
    <3> QED
      BY <2>7, <3>1 DEF Rejected, Finish, TypeOK, RequestRecord
  <2>8. CASE Claim(r)
    <3>1. request[r].token \in Tokens /\ request[r].term \in Terms
      BY <2>8 DEF Claim, LockInv
    <3>2. ledger' \in [Tokens -> [term : Terms \union {NoTerm}, claimed : BOOLEAN]]
      BY <2>8, <3>1, LedgerType DEF Claim
    <3>3. request' \in [Requests -> RequestRecord]
      BY <2>8, GotoType, FinishType DEF Claim
    <3> QED
      BY <2>8, <3>2, <3>3 DEF Claim, TypeOK, RequestRecord
  <2>9. CASE Admit(r)
    <3>1. request' \in [Requests -> RequestRecord]
      BY <2>9, FinishType, ZenonT(30) DEF Admit
    <3>2. request[r].token \in Tokens
      BY <2>9 DEF Admit, LockInv
    <3>3. attempts' \in [Tokens -> Nat]
      BY <2>9, <3>2 DEF Admit, TypeOK
    <3> QED
      BY <2>9, <3>1, <3>3 DEF Admit, TypeOK, RequestRecord
  <2> QED
    BY <1>3, <2>1, <2>2, <2>3, <2>4, <2>5, <2>6, <2>7, <2>8, <2>9 DEF Collect
<1>4. ASSUME NEW t \in Tokens, MintSwap(t) \/ MintSwapOrphan(t) PROVE TypeOK'
  BY <1>4 DEF MintSwap, MintSwapOrphan, TypeOK
<1>5. ASSUME NEW p \in Proofs, SpendElsewhere(p) PROVE TypeOK'
  BY <1>5 DEF SpendElsewhere, TypeOK
<1>6. ASSUME NEW d \in detached, Commit(d) PROVE TypeOK'
  <2>1. d.token \in Tokens /\ d.term \in Terms
    BY DEF TypeOK
  <2>2. ledger' \in [Tokens -> [term : Terms \union {NoTerm}, claimed : BOOLEAN]]
    BY <1>6, <2>1, LedgerType DEF Commit
  <2> QED
    BY <1>6, <2>2 DEF Commit, TypeOK
<1>7. ASSUME NEW r \in Requests, Cancel(r) PROVE TypeOK'
  <2>1. request' \in [Requests -> RequestRecord]
    BY <1>7, FinishType, ZenonT(30) DEF Cancel, Finish
  <2>2. request[r].token \in Tokens /\ request[r].term \in Terms
    BY <1>7 DEF Cancel, LockInv
  <2>3. detached' \subseteq [op : {"reserve", "claim"}, token : Tokens, term : Terms]
    BY <1>7, <2>2 DEF Cancel, Operation, TypeOK
  <2> QED
    BY <1>7, <2>1, <2>3 DEF Cancel, Finish, TypeOK, RequestRecord
<1>8. ASSUME NEW r \in Requests, Disconnect(r) PROVE TypeOK'
  <2>1. request' \in [Requests -> RequestRecord]
    BY <1>8, FinishType, ZenonT(30) DEF Disconnect
  <2> QED
    BY <1>8, <2>1 DEF Disconnect, TypeOK, RequestRecord
<1>9. CASE Crash
  <2>1. request' \in [Requests -> RequestRecord]
    BY <1>9 DEF Crash, Idle, RequestRecord
  <2> QED
    BY <1>9, <2>1, ZenonT(30) DEF Crash, TypeOK, RequestRecord
<1>10. CASE UNCHANGED vars
  BY <1>10 DEF vars, TypeOK
<1> QED
  BY <1>2, <1>3, <1>4, <1>5, <1>6, <1>7, <1>8, <1>9, <1>10
  DEF Next, Progress, Retry, Mint, Fault

\* The lock admits one request to collect at a time.
LEMMA LockStep == IInv /\ [Next]_vars => LockInv'
<1> SUFFICES ASSUME IInv, [Next]_vars PROVE LockInv'
  OBVIOUS
<1>0. request \in [Requests -> RequestRecord] /\ LockInv
  BY DEF IInv, TypeOK, RequestRecord
<1> USE <1>0, CashuConstants
    DEF CashuConstants, RequestRecord, LockInv, Collecting, Phases, Idle, Goto, Finish,
        mint, store, wallet
<1>1. ASSUME NEW t \in Tokens, NEW c \in Terms, NEW r \in Requests, Start(r, t, c)
      PROVE  LockInv'
  BY <1>1 DEF Start
<1>2. ASSUME NEW r \in Requests, Collect(r) PROVE LockInv'
  <2>1. CASE Open(r)
    BY <2>1 DEF Open
  <2>2. ASSUME NEW t \in Tokens, RecoverSaga(r, t) PROVE LockInv'
    BY <2>2 DEF RecoverSaga
  <2>3. CASE Recovered(r)
    <3>1. CASE Net[request[r].token] >= Price[request[r].term]
      BY <2>3, <3>1 DEF Recovered
    <3>2. CASE ~(Net[request[r].token] >= Price[request[r].term])
      BY <2>3, <3>2 DEF Recovered
    <3> QED
      BY <3>1, <3>2
  <2>4. CASE Reserve(r)
    BY <2>4 DEF Reserve
  <2>5. CASE Redeem(r)
    BY <2>5 DEF Redeem
  <2>6. CASE Receive(r)
    <3>1. CASE saga[request[r].token] < Price[request[r].term]
      BY <2>6, <3>1 DEF Receive
    <3>2. CASE ~(saga[request[r].token] < Price[request[r].term])
      BY <2>6, <3>2 DEF Receive
    <3> QED
      BY <3>1, <3>2
  <2>7. CASE Rejected(r)
    BY <2>7 DEF Rejected
  <2>8. CASE Claim(r)
    BY <2>8 DEF Claim
  <2>9. CASE Admit(r)
    BY <2>9 DEF Admit
  <2> QED
    BY <1>2, <2>1, <2>2, <2>3, <2>4, <2>5, <2>6, <2>7, <2>8, <2>9 DEF Collect
<1>3. ASSUME NEW t \in Tokens, MintSwap(t) \/ MintSwapOrphan(t) PROVE LockInv'
  BY <1>3 DEF MintSwap, MintSwapOrphan
<1>4. ASSUME NEW p \in Proofs, SpendElsewhere(p) PROVE LockInv'
  BY <1>4 DEF SpendElsewhere
<1>5. ASSUME NEW d \in detached, Commit(d) PROVE LockInv'
  BY <1>5 DEF Commit
<1>6. ASSUME NEW r \in Requests, Cancel(r) \/ Disconnect(r) PROVE LockInv'
  <2>1. /\ request[r].phase # "idle"
        /\ request' = [request EXCEPT ![r] = Idle]
        /\ request[r].phase # "won" => lock' = Free
        /\ request[r].phase = "won" => lock' = lock
        /\ UNCHANGED <<saga, opened, needs_recovery>>
    BY <1>6 DEF Cancel, Disconnect
  <2> QED
    BY <2>1
<1>7. CASE Crash
  BY <1>7 DEF Crash
<1>8. CASE UNCHANGED vars
  BY <1>8 DEF vars
<1> QED
  BY <1>1, <1>2, <1>3, <1>4, <1>5, <1>6, <1>7, <1>8
  DEF Next, Progress, Retry, Mint, Fault

\* Nothing unfinished escapes the flag.
LEMMA FlagStep == IInv /\ [Next]_vars => FlagInv'
<1> SUFFICES ASSUME IInv, [Next]_vars PROVE FlagInv'
  OBVIOUS
<1>0. /\ request \in [Requests -> RequestRecord]
      /\ saga \in [Tokens -> Nat]
      /\ LockInv /\ FlagInv
  BY DEF IInv, TypeOK, RequestRecord
<1> USE <1>0
    DEF FlagInv, RequestRecord, LockInv, Collecting, Phases, Idle, Goto, Finish,
        mint, store, wallet
<1>1. ASSUME NEW t \in Tokens, NEW c \in Terms, NEW r \in Requests, Start(r, t, c)
      PROVE  FlagInv'
  BY <1>1 DEF Start
<1>2. ASSUME NEW r \in Requests, Collect(r) PROVE FlagInv'
  <2>1. CASE Open(r)
    BY <2>1 DEF Open
  <2>2. ASSUME NEW t \in Tokens, RecoverSaga(r, t) PROVE FlagInv'
    BY <2>2 DEF RecoverSaga
  <2>3. CASE Recovered(r)
    <3>1. CASE Net[request[r].token] >= Price[request[r].term]
      BY <2>3, <3>1 DEF Recovered
    <3>2. CASE ~(Net[request[r].token] >= Price[request[r].term])
      BY <2>3, <3>2 DEF Recovered
    <3> QED
      BY <3>1, <3>2
  <2>4. CASE Reserve(r)
    BY <2>4 DEF Reserve
  <2>5. CASE Redeem(r)
    BY <2>5 DEF Redeem
  <2>6. CASE Receive(r)
    <3>1. CASE saga[request[r].token] < Price[request[r].term]
      BY <2>6, <3>1 DEF Receive
    <3>2. CASE ~(saga[request[r].token] < Price[request[r].term])
      BY <2>6, <3>2 DEF Receive
    <3> QED
      BY <3>1, <3>2
  <2>7. CASE Rejected(r)
    BY <2>7 DEF Rejected
  <2>8. CASE Claim(r)
    BY <2>8 DEF Claim
  <2>9. CASE Admit(r)
    BY <2>9 DEF Admit
  <2> QED
    BY <1>2, <2>1, <2>2, <2>3, <2>4, <2>5, <2>6, <2>7, <2>8, <2>9, ZenonT(30) DEF Collect
<1>3. ASSUME NEW t \in Tokens, MintSwap(t) \/ MintSwapOrphan(t) PROVE FlagInv'
  BY <1>3 DEF MintSwap, MintSwapOrphan
<1>4. ASSUME NEW p \in Proofs, SpendElsewhere(p) PROVE FlagInv'
  BY <1>4 DEF SpendElsewhere
<1>5. ASSUME NEW d \in detached, Commit(d) PROVE FlagInv'
  BY <1>5 DEF Commit
<1>6. ASSUME NEW r \in Requests, Cancel(r) \/ Disconnect(r) PROVE FlagInv'
  <2>1. /\ request[r].phase # "idle"
        /\ request' = [request EXCEPT ![r] = Idle]
        /\ request[r].phase # "won" => lock' = Free
        /\ request[r].phase = "won" => lock' = lock
        /\ UNCHANGED <<saga, opened, needs_recovery>>
    BY <1>6 DEF Cancel, Disconnect
  <2> QED
    BY <2>1
<1>7. CASE Crash
  BY <1>7 DEF Crash
<1>8. CASE UNCHANGED vars
  BY <1>8 DEF vars
<1> QED
  BY <1>1, <1>2, <1>3, <1>4, <1>5, <1>6, <1>7, <1>8, ZenonT(30)
  DEF Next, Progress, Retry, Mint, Fault

\* Swaps spend disjoint sets of proofs.
LEMMA SwapStep == IInv /\ [Next]_vars => SwapInv'
<1> SUFFICES ASSUME IInv, [Next]_vars PROVE SwapInv'
  OBVIOUS
<1>0. /\ SwapInv
      /\ saga \in [Tokens -> Nat] /\ completed \in [Tokens -> Nat]
      /\ swapped \subseteq Tokens /\ network \subseteq Tokens
  BY DEF IInv, TypeOK
<1> USE <1>0 DEF SwapInv, Funded, mint, store, wallet
<1>1. ASSUME UNCHANGED <<store, network, swapped, spent>> PROVE SwapInv'
  BY <1>1
<1>2. ASSUME NEW t \in swapped,
             completed' = [completed EXCEPT ![t] = saga[t]],
             saga' = [saga EXCEPT ![t] = 0],
             swapped' = swapped \ {t},
             UNCHANGED <<network, spent>>
      PROVE  SwapInv'
  <2>1. \A u \in Tokens : Funded(u)' => Funded(u)
    BY <1>2
  <2>2. t \notin network
    BY <1>2
  <2> QED
    BY <1>2, <2>1, <2>2
<1>3. ASSUME NEW r \in Requests, NEW t \in Tokens, RecoverSaga(r, t) PROVE SwapInv'
  <2>1. CASE t \in swapped
    BY <1>2, <1>3, <2>1 DEF RecoverSaga
  <2>2. CASE t \notin swapped
    BY <1>3, <2>2 DEF RecoverSaga
  <2> QED
    BY <2>1, <2>2
<1>4. ASSUME NEW r \in Requests, Redeem(r) PROVE SwapInv'
  <2> DEFINE t == request[r].token
  <2>1. t \in Tokens /\ opened /\ ~needs_recovery
    BY <1>4 DEF Redeem, IInv, LockInv, FlagInv, Collecting, Phases
  <2>2. saga[t] = 0
    BY <2>1 DEF IInv, FlagInv
  <2>3. t \notin swapped
    BY <2>2
  <2>4. saga'[t] # 0 /\ \A u \in Tokens \ {t} : saga'[u] = saga[u]
    <3>1. PICK amount \in Net[t] - Shortfall .. Net[t] :
            saga' = [saga EXCEPT ![t] = amount]
      BY <1>4, ZenonT(30) DEF Redeem
    <3>2. Net[t] \in Nat /\ Shortfall \in Nat /\ Net[t] > Shortfall
      BY <2>1, CashuConstants DEF CashuConstants
    <3>3. amount # 0
      BY <3>1, <3>2
    <3> QED
      BY <2>1, <3>1, <3>3
  <2>5. network' = network \union {t} /\ UNCHANGED <<completed, swapped, spent>>
    BY <1>4 DEF Redeem
  <2>6. \A u \in Tokens : saga[u] # 0 => saga'[u] # 0
    BY <2>4
  <2> HIDE DEF t
  <2> QED
    BY <2>1, <2>3, <2>4, <2>5, <2>6
<1>5. ASSUME NEW r \in Requests, Receive(r) PROVE SwapInv'
  BY <1>2, <1>5 DEF Receive
<1>6. ASSUME NEW t \in Tokens, MintSwap(t) PROVE SwapInv'
  <2>1. CASE ProofsOf[t] \intersect spent = {}
    <3>1. ProofsOf[t] # {}
      BY CashuConstants DEF CashuConstants
    <3>2. completed[t] = 0
      BY <2>1, <3>1
    <3>3. \A u \in Tokens : Funded(u) => ProofsOf[u] \intersect ProofsOf[t] = {}
      BY <2>1
    <3>4. \A u \in Tokens : Funded(u)' => Funded(u) \/ u = t
      BY <1>6, <2>1 DEF MintSwap
    <3> QED
      BY <1>6, <2>1, <3>2, <3>3, <3>4 DEF MintSwap
  <2>2. CASE ProofsOf[t] \intersect spent # {}
    BY <1>6, <2>2 DEF MintSwap
  <2> QED
    BY <2>1, <2>2
<1>7. ASSUME NEW t \in Tokens, MintSwapOrphan(t) PROVE SwapInv'
  BY <1>7 DEF MintSwapOrphan
<1>8. ASSUME NEW p \in Proofs, SpendElsewhere(p) PROVE SwapInv'
  BY <1>8 DEF SpendElsewhere
<1>9. CASE \E r \in Requests : \/ Open(r) \/ Recovered(r) \/ Reserve(r) \/ Rejected(r)
                              \/ Claim(r) \/ Admit(r)
  BY <1>1, <1>9, ZenonT(30) DEF Open, Recovered, Reserve, Rejected, Claim, Admit
<1>10. CASE \/ \E t \in Tokens, c \in Terms : Retry(t, c)
            \/ \E d \in detached : Commit(d)
            \/ Fault
            \/ UNCHANGED vars
  BY <1>1, <1>10, ZenonT(30) DEF Retry, Start, Commit, Fault, Cancel, Disconnect, Crash, vars
<1> QED
  BY <1>3, <1>4, <1>5, <1>6, <1>7, <1>8, <1>9, <1>10, ZenonT(30) DEF Next, Progress, Collect, Mint

\* A completed receive is never revised.
LEMMA CompletedStays ==
  IInv /\ [Next]_vars => \A t \in Tokens : completed[t] > 0 => completed'[t] = completed[t]
<1> SUFFICES ASSUME IInv, [Next]_vars, NEW t \in Tokens, completed[t] > 0
             PROVE  completed'[t] = completed[t]
  OBVIOUS
<1>1. t \notin swapped /\ completed \in [Tokens -> Nat]
  BY SMTT(30) DEF IInv, SwapInv, TypeOK
<1>2. \/ completed' = completed
      \/ \E u \in swapped : completed' = [completed EXCEPT ![u] = saga[u]]
  BY ZenonT(30) DEF Next, Progress, Retry, Start, Collect, Open, RecoverSaga, Recovered, Reserve,
         Redeem, Receive, Rejected, Claim, Admit, Mint, MintSwap, MintSwapOrphan,
         SpendElsewhere, Fault, Cancel, Disconnect, Crash, Commit, vars, store
<1> QED
  BY <1>1, <1>2

\* The steps that write the ledger.
LEMMA LedgerWriters ==
  ASSUME [Next]_vars
  PROVE  \/ ledger' = ledger
         \/ \E r \in Requests : Reserve(r) \/ Claim(r)
         \/ \E d \in detached : Commit(d)
BY ZenonT(30) DEF Next, Progress, Retry, Start, Collect, Open, RecoverSaga, Recovered, Redeem,
       Receive, Rejected, Admit, Mint, MintSwap, MintSwapOrphan, SpendElsewhere,
       Fault, Cancel, Disconnect, Crash, vars

\* The steps that move request r on inside collect.
LEMMA RequestMoves ==
  ASSUME TypeOK, [Next]_vars, NEW r \in Requests
  PROVE  \/ request'[r] = request[r]
         \/ request'[r].phase \in {"idle", "opening", "recovering"}
         \/ Recovered(r) \/ Reserve(r) \/ Redeem(r) \/ Receive(r) \/ Claim(r)
<1>1. request \in [Requests -> RequestRecord]
  BY DEF TypeOK, RequestRecord
<1>2. ASSUME NEW s \in Requests, Collect(s)
      PROVE  \/ request'[r] = request[r]
             \/ request'[r].phase \in {"idle", "opening", "recovering"}
             \/ Recovered(r) \/ Reserve(r) \/ Redeem(r) \/ Receive(r) \/ Claim(r)
  <2>1. \/ Open(s) \/ Rejected(s) \/ Admit(s)
        \/ request' = request
        \/ Recovered(s) \/ Reserve(s) \/ Redeem(s) \/ Receive(s) \/ Claim(s)
    BY <1>2, Zenon DEF Collect, RecoverSaga
  <2>2. CASE Open(s) \/ Rejected(s) \/ Admit(s)
    BY <1>1, <2>2 DEF Open, Rejected, Admit, Goto, Finish, Idle
  <2>3. CASE Recovered(s) \/ Reserve(s) \/ Redeem(s) \/ Receive(s) \/ Claim(s)
    <3>1. \E y : request' = [request EXCEPT ![s] = y]
      BY <2>3, Zenon DEF Recovered, Reserve, Redeem, Receive, Claim, Goto, Finish
    <3>2. s # r => request'[r] = request[r]
      BY <1>1, <3>1
    <3> QED
      BY <2>3, <3>2, Zenon
  <2> QED
    BY <2>1, <2>2, <2>3, Zenon
<1>3. ASSUME NEW s \in Requests, NEW t \in Tokens, NEW c \in Terms, Start(s, t, c)
      PROVE  \/ request'[r] = request[r]
             \/ request'[r].phase \in {"idle", "opening", "recovering"}
  BY <1>1, <1>3 DEF Start
<1>4. CASE Fault
  BY <1>1, <1>4 DEF Fault, Cancel, Disconnect, Crash, Finish, Idle
<1>5. CASE Mint \/ (\E d \in detached : Commit(d)) \/ UNCHANGED vars
  BY <1>5 DEF Mint, MintSwap, MintSwapOrphan, SpendElsewhere, Commit, vars
<1> QED
  BY <1>2, <1>3, <1>4, <1>5, ZenonT(30) DEF Next, Progress, Retry

\* Ledger records keep the terms they were reserved for, and only a claim under
\* way, awaited or detached, marks one as claimed.
LEMMA LedgerStays ==
  ASSUME IInv, [Next]_vars, NEW t \in Tokens, ledger[t].term # NoTerm
  PROVE  /\ ledger'[t].term = ledger[t].term
         /\ ledger[t].claimed => ledger'[t].claimed
<1> USE DEF IInv, TypeOK
<1>1. ASSUME NEW u \in Tokens, NEW c \in Terms, ReserveWrite(u, c)
      PROVE  ledger'[t] = ledger[t]
  BY <1>1 DEF ReserveWrite
<1>2. ASSUME NEW u \in Tokens, ClaimWrite(u)
      PROVE  /\ ledger'[t].term = ledger[t].term
             /\ ledger[t].claimed => ledger'[t].claimed
  BY <1>2 DEF ClaimWrite, Pending
<1>3. ASSUME NEW r \in Requests, Reserve(r) PROVE ledger'[t] = ledger[t]
  BY <1>1, <1>3 DEF Reserve, LockInv
<1>4. ASSUME NEW r \in Requests, Claim(r)
      PROVE  /\ ledger'[t].term = ledger[t].term
             /\ ledger[t].claimed => ledger'[t].claimed
  BY <1>2, <1>4 DEF Claim, LockInv
<1>5. ASSUME NEW d \in detached, Commit(d)
      PROVE  /\ ledger'[t].term = ledger[t].term
             /\ ledger[t].claimed => ledger'[t].claimed
  <2>1. d.token \in Tokens /\ d.term \in Terms
    OBVIOUS
  <2> QED
    BY <1>1, <1>2, <1>5, <2>1 DEF Commit
<1>6. CASE ledger' = ledger
  BY <1>6
<1> QED
  BY <1>3, <1>4, <1>5, <1>6, LedgerWriters

\* A payment stays paid.
LEMMA PaidStays ==
  ASSUME IInv, [Next]_vars, NEW t \in Tokens, NEW c \in Terms, Paid(t, c)
  PROVE  Paid(t, c)'
<1>1. Price[c] \in Nat \ {0} /\ c # NoTerm
  BY CashuConstants DEF CashuConstants
<1>2. completed[t] \in Nat
  BY DEF IInv, TypeOK
<1>3. completed'[t] = completed[t]
  BY <1>1, <1>2, CompletedStays DEF Paid
<1>4. ledger'[t].term = ledger[t].term
  BY <1>1, LedgerStays DEF Paid
<1> QED
  BY <1>3, <1>4 DEF Paid

\* Only paid tokens are claimed.
LEMMA PaidStep == IInv /\ [Next]_vars => PaidInv'
<1> SUFFICES ASSUME IInv, [Next]_vars PROVE PaidInv'
  OBVIOUS
<1>1. ASSUME NEW t \in Tokens, ledger'[t].claimed
      PROVE  ledger'[t].term \in Terms /\ completed'[t] >= Price[ledger'[t].term]
  <2>1. PICK c \in Terms : Paid(t, c)
    <3>1. CASE ledger[t].claimed
      BY <3>1 DEF IInv, PaidInv, Paid
    <3>2. CASE ~ledger[t].claimed
      <4>1. \/ \E r \in Requests : Claim(r) /\ request[r].token = t
            \/ \E d \in detached : d.op = "claim" /\ d.token = t
        <5> USE DEF IInv, TypeOK
        <5>1. ASSUME NEW u \in Tokens, NEW c \in Terms, ReserveWrite(u, c)
              PROVE  FALSE
          BY <1>1, <3>2, <5>1 DEF ReserveWrite
        <5>2. ASSUME NEW u \in Tokens, ClaimWrite(u) PROVE u = t
          BY <1>1, <3>2, <5>2 DEF ClaimWrite
        <5>3. ASSUME NEW r \in Requests, Reserve(r) PROVE FALSE
          BY <5>1, <5>3 DEF Reserve, LockInv
        <5>4. ASSUME NEW r \in Requests, Claim(r) PROVE request[r].token = t
          BY <5>2, <5>4 DEF Claim, LockInv
        <5>5. ASSUME NEW d \in detached, Commit(d)
              PROVE  d.op = "claim" /\ d.token = t
          <6>1. d.op \in {"reserve", "claim"} /\ d.token \in Tokens /\ d.term \in Terms
            OBVIOUS
          <6> QED
            BY <5>1, <5>2, <5>5, <6>1 DEF Commit
        <5> QED
          BY <1>1, <3>2, <5>3, <5>4, <5>5, LedgerWriters
      <4>2. ASSUME NEW r \in Requests, Claim(r), request[r].token = t
            PROVE  \E c \in Terms : Paid(t, c)
        BY <4>2, ZenonT(30) DEF IInv, PaidInv, LockInv, Claim
      <4>3. ASSUME NEW d \in detached, d.op = "claim", d.token = t
            PROVE  \E c \in Terms : Paid(t, c)
        BY <4>3 DEF IInv, PaidInv, TypeOK
      <4> QED
        BY <4>1, <4>2, <4>3
    <3> QED
      BY <3>1, <3>2
  <2> QED
    BY <2>1, PaidStays DEF Paid
<1>2. ASSUME NEW r \in Requests,
             request'[r].phase \in {"redeeming", "receiving", "claiming", "won"}
      PROVE  ledger'[request'[r].token].term = request'[r].term
  <2> USE DEF IInv
  <2>1. request \in [Requests -> RequestRecord] /\ ledger \in
          [Tokens -> [term : Terms \union {NoTerm}, claimed : BOOLEAN]]
    BY DEF TypeOK, RequestRecord
  <2>2. \/ /\ request[r].phase \in {"redeeming", "receiving", "claiming", "won"}
           /\ request'[r].token = request[r].token
           /\ request'[r].term = request[r].term
        \/ /\ Reserve(r)
           /\ request'[r].token = request[r].token
           /\ request'[r].term = request[r].term
    <3>1. CASE Recovered(r)
      BY <1>2, <2>1, <3>1 DEF Recovered, Goto, Finish, Idle
    <3>2. CASE Reserve(r)
      BY <1>2, <2>1, <3>2 DEF Reserve, Goto, Finish, Idle
    <3>3. CASE Redeem(r) \/ Receive(r) \/ Claim(r)
      BY <1>2, <2>1, <3>3 DEF Redeem, Receive, Claim, Goto, Finish, Idle
    <3> QED
      BY <1>2, <2>1, <3>1, <3>2, <3>3, RequestMoves
  <2>3. request[r].token \in Tokens /\ request[r].term \in Terms
    BY <2>2, ZenonT(30) DEF LockInv, Reserve
  <2>4. CASE request[r].phase \in {"redeeming", "receiving", "claiming", "won"}
    <3>1. ledger[request[r].token].term = request[r].term
      BY <2>4 DEF PaidInv
    <3>2. request[r].term # NoTerm
      BY <2>3, CashuConstants DEF CashuConstants
    <3> QED
      BY <2>2, <2>3, <2>4, <3>1, <3>2, LedgerStays, ZenonT(30) DEF Reserve
  <2>5. CASE Reserve(r)
    <3>1. PICK t \in Tokens, c \in Terms : t = request[r].token /\ c = request[r].term
      BY <2>3, Zenon
    <3>2. request'[r].token = t /\ request'[r].term = c
      BY <2>2, <3>1, Zenon
    <3>3. /\ ReserveWrite(t, c)
          /\ Finish(r) \/ ledger[t].term \in {NoTerm, c}
      BY <2>5, <3>1, Zenon DEF Reserve
    <3>4. ~Finish(r)
      BY <1>2, <2>1 DEF Finish, Idle
    <3>5. ledger'[t].term = c
      BY <2>1, <3>3, <3>4 DEF ReserveWrite
    <3> QED
      BY <3>2, <3>5, Zenon
  <2> QED
    BY <2>2, <2>4, <2>5
<1>3. ASSUME NEW r \in Requests, request'[r].phase = "claiming"
      PROVE  Paid(request[r].token, request[r].term)' /\ request'[r].token = request[r].token
               /\ request'[r].term = request[r].term
  <2>1. request \in [Requests -> RequestRecord]
          /\ saga \in [Tokens -> Nat] /\ completed \in [Tokens -> Nat]
    BY DEF IInv, TypeOK, RequestRecord
  <2>2. CASE request'[r] = request[r]
    <3>1. Paid(request[r].token, request[r].term)
      BY <1>3, <2>2 DEF IInv, PaidInv
    <3> QED
      BY <1>3, <2>2, <3>1, PaidStays DEF IInv, LockInv
  <2>3. CASE Reserve(r)
    <3>1. /\ request[r].token \in Tokens /\ request[r].term \in Terms
          /\ request'[r].token = request[r].token /\ request'[r].term = request[r].term
          /\ Paid(request[r].token, request[r].term)
      BY <1>3, <2>1, <2>3 DEF IInv, LockInv, Reserve, Goto, Finish, Idle, Paid
    <3> QED
      BY <3>1, PaidStays
  <2>4. CASE Receive(r)
    <3>1. /\ request[r].token \in Tokens /\ request[r].term \in Terms
          /\ request'[r].token = request[r].token /\ request'[r].term = request[r].term
          /\ saga[request[r].token] >= Price[request[r].term]
          /\ completed'[request[r].token] = saga[request[r].token]
      <4>1. request[r].token \in Tokens /\ request[r].term \in Terms
        BY <2>4, ZenonT(30) DEF IInv, LockInv, Receive
      <4>2. Price[request[r].term] \in Nat
        BY <4>1, CashuConstants DEF CashuConstants
      <4> QED
        BY <1>3, <2>1, <2>4, <4>1, <4>2 DEF Receive, Goto, Finish, Idle
    <3>2. ledger'[request'[r].token].term = request'[r].term
      BY <1>2, <1>3
    <3> QED
      BY <3>1, <3>2, ZenonT(30) DEF Paid
  <2>5. CASE Recovered(r) \/ Redeem(r) \/ Claim(r)
    BY <1>3, <2>1, <2>5 DEF Recovered, Redeem, Claim, Goto, Finish, Idle
  <2> QED
    BY <1>3, <2>2, <2>3, <2>4, <2>5, RequestMoves, ZenonT(30) DEF IInv
<1>4. ASSUME NEW d \in detached', d.op = "claim" PROVE Paid(d.token, d.term)'
  <2>1. CASE d \in detached
    <3>1. d.token \in Tokens /\ d.term \in Terms /\ Paid(d.token, d.term)
      BY <1>4, <2>1 DEF IInv, PaidInv, TypeOK
    <3> QED
      BY <3>1, PaidStays
  <2>2. CASE d \notin detached
    <3>1. PICK r \in Requests : Cancel(r)
      BY <1>4, <2>2, ZenonT(30)
      DEF Next, Progress, Retry, Start, Collect, Open, RecoverSaga, Recovered, Reserve,
          Redeem, Receive, Rejected, Claim, Admit, Mint, MintSwap, MintSwapOrphan,
          SpendElsewhere, Fault, Disconnect, Crash, Commit, vars
    <3>2. /\ request[r].phase = "claiming"
          /\ d = Operation("claim", request[r].token, request[r].term)
      <4> DEFINE Of(op) == Operation(op, request[r].token, request[r].term)
      <4>1. \/ detached' = detached
            \/ /\ request[r].phase = "reserving"
               /\ detached' = detached \union {Of("reserve")}
            \/ /\ request[r].phase = "claiming"
               /\ detached' = detached \union {Of("claim")}
        BY <3>1, ZenonT(30) DEF Cancel
      <4>2. d # Of("reserve")
        BY <1>4 DEF Operation
      <4> HIDE DEF Of
      <4>3. request[r].phase = "claiming" /\ d = Of("claim")
        BY <1>4, <2>2, <4>1, <4>2
      <4> QED
        BY <4>3 DEF Of
    <3>3. /\ request[r].token \in Tokens /\ request[r].term \in Terms
          /\ Paid(request[r].token, request[r].term)
      BY <3>2 DEF IInv, LockInv, PaidInv
    <3> QED
      BY <3>2, <3>3, PaidStays DEF Operation
  <2> QED
    BY <2>1, <2>2
<1> QED
  BY <1>1, <1>2, <1>3, <1>4 DEF PaidInv, Paid

\* A claim that succeeds has no earlier winner.
LEMMA WinnersStep == IInv /\ [Next]_vars => WinnersInv'
<1> SUFFICES ASSUME IInv, [Next]_vars PROVE WinnersInv'
  OBVIOUS
<1>0. /\ request \in [Requests -> RequestRecord] /\ attempts \in [Tokens -> Nat]
      /\ WinnersInv
  BY DEF IInv, TypeOK, RequestRecord
<1>1. \A t \in Tokens : ledger[t].claimed => ledger'[t].claimed
  <2> SUFFICES ASSUME NEW t \in Tokens, ledger[t].claimed PROVE ledger'[t].claimed
    OBVIOUS
  <2>1. ledger[t].term # NoTerm
    BY CashuConstants DEF CashuConstants, IInv, PaidInv
  <2> QED
    BY <2>1, LedgerStays
<1>2. ASSUME attempts' = attempts,
             \A r \in Requests : request'[r].phase = "won" => request'[r] = request[r]
      PROVE  WinnersInv'
  BY <1>0, <1>1, <1>2 DEF WinnersInv, IInv, LockInv
<1>3. ASSUME NEW r \in Requests, Claim(r) PROVE WinnersInv'
  <2>1. request[r].token \in Tokens
    BY <1>3 DEF Claim, IInv, LockInv
  <2>2. CASE Pending(request[r].token)
    <3>1. ledger'[request[r].token].claimed /\ ~ledger[request[r].token].claimed
      BY <1>3, <2>1, <2>2 DEF Claim, ClaimWrite, Pending, IInv, TypeOK
    <3>2. attempts[request[r].token] = 0
      BY <1>0, <2>1, <3>1 DEF WinnersInv
    <3>3. \A s \in Requests :
            request[s].phase = "won" => request[s].token # request[r].token
      BY <1>0, <3>1 DEF WinnersInv
    <3>4. /\ request' = [request EXCEPT ![r] = [phase |-> "won",
                 token |-> request[r].token, term |-> request[r].term]]
          /\ attempts' = attempts
      BY <1>3, <2>2 DEF Claim, Goto
    <3>5. \A s \in Requests : request[s].phase = "won" => request[s].token \in Tokens
      BY DEF IInv, LockInv
    <3> QED
      BY <1>0, <1>1, <2>1, <3>1, <3>2, <3>3, <3>4, <3>5 DEF WinnersInv
  <2>3. CASE ~Pending(request[r].token)
    <3>1. request' = [request EXCEPT ![r] = Idle] /\ attempts' = attempts
      BY <1>3, <2>3, Zenon DEF Claim
    <3>2. \A s \in Requests : request'[s].phase = "won" => request'[s] = request[s]
      BY <1>0, <3>1 DEF Idle
    <3> QED
      BY <1>2, <3>1, <3>2, Zenon
  <2> QED
    BY <2>2, <2>3
<1>4. ASSUME NEW r \in Requests, Admit(r) PROVE WinnersInv'
  <2>1. request[r].token \in Tokens
    BY <1>4 DEF Admit, IInv, LockInv
  <2> QED
    BY <1>0, <1>1, <1>4, <2>1 DEF Admit, Idle, WinnersInv, IInv, LockInv
<1>5. CASE ~\E r \in Requests : Claim(r) \/ Admit(r)
  <2>1. attempts' = attempts
    BY <1>5, ZenonT(30) DEF Next, Progress, Retry, Start, Collect, Open, RecoverSaga, Recovered,
                Reserve, Redeem, Receive, Rejected, Mint, MintSwap, MintSwapOrphan,
                SpendElsewhere, Fault, Cancel, Disconnect, Crash, Commit, vars
  <2>2. ASSUME NEW r \in Requests, request'[r].phase = "won"
        PROVE  request'[r] = request[r]
    <3>1. ~(Recovered(r) \/ Reserve(r) \/ Redeem(r) \/ Receive(r))
      BY <1>0, <2>2 DEF Recovered, Reserve, Redeem, Receive, Goto, Finish, Idle
    <3> QED
      BY <1>5, <2>2, <3>1, RequestMoves DEF IInv
  <2> QED
    BY <1>2, <2>1, <2>2
<1> QED
  BY <1>3, <1>4, <1>5

-----------------------------------------------------------------------------
\* The invariant holds in every reachable state.
THEOREM Invariant == Spec => []IInv
<1>1. IInv /\ [Next]_vars => IInv'
  BY TypeStep, LockStep, FlagStep, SwapStep, PaidStep, WinnersStep DEF IInv
<1> QED
  BY <1>1, InitIInv, PTL DEF Spec

\* Ledger, wallet, mint and requests keep their types.
THEOREM TypeCorrect == Spec => []TypeOK
BY Invariant, PTL DEF IInv

\* A claimed token has been redeemed for its price (collect_inner, claim).
THEOREM ClaimedIsPaidHolds == Spec => []ClaimedIsPaid
<1>1. IInv => ClaimedIsPaid
  BY ZenonT(30) DEF IInv, PaidInv, ClaimedIsPaid
<1> QED
  BY <1>1, Invariant, PTL

\* Tokens that share a proof admit at most one request between them: both
\* would have been swapped, and a mint swaps a proof once.
THEOREM ProofsPayOnceHolds == Spec => []ProofsPayOnce
<1>1. IInv => ProofsPayOnce
  <2> SUFFICES ASSUME IInv, NEW t \in Tokens, NEW u \in Tokens, t # u,
                      ProofsOf[t] \intersect ProofsOf[u] # {}
               PROVE  attempts[t] + attempts[u] <= 1
    BY DEF ProofsPayOnce
  <2>1. \A v \in Tokens : attempts[v] > 0 => Funded(v)
    <3> SUFFICES ASSUME NEW v \in Tokens, attempts[v] > 0 PROVE Funded(v)
      OBVIOUS
    <3>1. ledger[v].term \in Terms /\ completed[v] >= Price[ledger[v].term]
      BY DEF IInv, WinnersInv, PaidInv
    <3>2. Price[ledger[v].term] \in Nat \ {0} /\ completed[v] \in Nat
      BY <3>1, CashuConstants DEF CashuConstants, IInv, TypeOK
    <3> QED
      BY <3>1, <3>2 DEF Funded
  <2>2. ~(Funded(t) /\ Funded(u))
    BY ZenonT(30) DEF IInv, SwapInv
  <2>3. attempts[t] \in Nat /\ attempts[t] <= 1 /\ attempts[u] \in Nat /\ attempts[u] <= 1
    BY DEF IInv, TypeOK, WinnersInv
  <2>4. ~(attempts[t] > 0) \/ ~(attempts[u] > 0)
    BY <2>1, <2>2
  <2> QED
    BY <2>3, <2>4
<1> QED
  BY <1>1, Invariant, PTL

\* Every unfinished receive is flagged for recovery (needs_recovery).
THEOREM UnfinishedIsFlaggedHolds == Spec => []UnfinishedIsFlagged
<1>1. IInv => UnfinishedIsFlagged
  BY DEF IInv, FlagInv, UnfinishedIsFlagged
<1> QED
  BY <1>1, Invariant, PTL

\* A winner is admitted under the terms its token was reserved for (reserve).
THEOREM WinnerKeepsTermsHolds == Spec => []WinnerKeepsTerms
<1>1. IInv => WinnerKeepsTerms
  <2> SUFFICES ASSUME IInv, NEW r \in Requests, request[r].phase = "won"
               PROVE  ledger[request[r].token]
                        = [term |-> request[r].term, claimed |-> TRUE]
    BY DEF WinnerKeepsTerms
  <2>1. request[r].token \in Tokens
    BY DEF IInv, LockInv
  <2>2. /\ ledger[request[r].token].term = request[r].term
        /\ ledger[request[r].token].claimed
    BY DEF IInv, PaidInv, WinnersInv
  <2>3. ledger[request[r].token] \in [term : Terms \union {NoTerm}, claimed : BOOLEAN]
    BY <2>1 DEF IInv, TypeOK
  <2>4. ledger[request[r].token].claimed = TRUE
    BY <2>2, <2>3
  <2> QED
    BY <2>2, <2>3, <2>4, ZenonT(30)
<1> QED
  BY <1>1, Invariant, PTL

\* CashuAdmission implements OneAttempt: claiming consumes the token, and only
\* the request whose claim succeeded attempts.
THEOREM RefinesOneAttempt == Spec => ImplementsOneAttempt
<1> DEFINE Consumed == {t \in Tokens : ledger[t].claimed}
<1>1. Init => Abstract!Init
  BY DEF Init, Abstract!Init, Unreserved
<1>2. IInv /\ [Next]_vars => [Abstract!Next]_<<Consumed, attempts>>
  <2> SUFFICES ASSUME IInv, [Next]_vars, ~UNCHANGED <<Consumed, attempts>>
               PROVE  Abstract!Next
    OBVIOUS
  <2>0. ledger \in [Tokens -> [term : Terms \union {NoTerm}, claimed : BOOLEAN]]
          /\ attempts \in [Tokens -> Nat]
    BY DEF IInv, TypeOK
  <2>1. ASSUME NEW t \in Tokens, ClaimWrite(t), attempts' = attempts
        PROVE  Abstract!Next
    <3>1. Pending(t)
      BY <2>1 DEF ClaimWrite
    <3>2. Consumed' = Consumed \union {t} /\ t \notin Consumed
      BY <2>0, <2>1, <3>1 DEF ClaimWrite, Pending
    <3> QED
      BY <2>1, <3>2 DEF Abstract!Next, Abstract!Consume
  <2>2. ASSUME NEW t \in Tokens, NEW c \in Terms, ReserveWrite(t, c)
        PROVE  Consumed' = Consumed
    <3>1. CASE ledger[t].term = NoTerm
      <4>1. ~ledger[t].claimed
        BY <3>1, CashuConstants DEF CashuConstants, IInv, PaidInv
      <4> QED
        BY <2>0, <2>2, <3>1, <4>1 DEF ReserveWrite
    <3>2. CASE ledger[t].term # NoTerm
      BY <2>2, <3>2 DEF ReserveWrite
    <3> QED
      BY <3>1, <3>2
  <2>3. ASSUME NEW r \in Requests, Admit(r) PROVE Abstract!Next
    <3> DEFINE t == request[r].token
    <3>1. t \in Consumed /\ attempts[t] = 0
      BY <2>3 DEF Admit, IInv, LockInv, WinnersInv
    <3>2. attempts' = [attempts EXCEPT ![t] = 1] /\ Consumed' = Consumed
      BY <2>0, <2>3, <3>1 DEF Admit
    <3> QED
      BY <3>1, <3>2, ZenonT(30) DEF Abstract!Next, Abstract!Attempt
  <2>4. CASE ~\E r \in Requests : Admit(r)
    <3>1. attempts' = attempts
      BY <2>4, ZenonT(30) DEF Next, Progress, Retry, Start, Collect, Open, RecoverSaga, Recovered,
                  Reserve, Redeem, Receive, Rejected, Claim, Mint, MintSwap,
                  MintSwapOrphan, SpendElsewhere, Fault, Cancel, Disconnect, Crash,
                  Commit, vars
    <3>2. ASSUME NEW r \in Requests, Reserve(r) PROVE FALSE
      BY <2>2, <3>1, <3>2, ZenonT(30) DEF Reserve, IInv, LockInv
    <3>3. ASSUME NEW r \in Requests, Claim(r) PROVE Abstract!Next
      BY <2>1, <3>1, <3>3 DEF Claim, IInv, LockInv
    <3>4. ASSUME NEW d \in detached, Commit(d) PROVE Abstract!Next
      <4>1. d.token \in Tokens /\ d.term \in Terms
        BY DEF IInv, TypeOK
      <4> QED
        BY <2>1, <2>2, <3>1, <3>4, <4>1 DEF Commit
    <3>5. CASE ledger' = ledger
      BY <3>1, <3>5
    <3> QED
      BY <3>2, <3>3, <3>4, <3>5, LedgerWriters
  <2> QED
    BY <2>3, <2>4
<1> QED
  BY <1>1, <1>2, Invariant, PTL DEF Spec, ImplementsOneAttempt, Abstract!Spec
===============================================================================
