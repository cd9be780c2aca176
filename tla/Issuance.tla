------------------------------- MODULE Issuance -------------------------------
(***************************************************************************)
(* Concurrency budgets: Capacity of config.rs (a semaphore and a counter   *)
(* per client, changed by try_acquire and by the drop of a permit) and its *)
(* use by payments/lightning/issuance.rs, where every invoice takes a      *)
(* permit of the global capacity and one of its receiver's.                *)
(*                                                                         *)
(* The receivers map holds weak references: a receiver's Capacity lives as *)
(* long as some permit, or an acquire in progress, refers to it, and the   *)
(* next acquire makes a fresh one.  A dropped permit releases its parts    *)
(* one at a time, without the receivers lock, between the steps of others. *)
(***************************************************************************)
EXTENDS Integers, FiniteSets

CONSTANTS
  Requests,           \* concurrent challenge requests
  Clients,            \* canonical client keys
  Receivers,          \* receiver endpoints
  Generations,        \* Capacity objects of receivers, reused once unreachable
  Global,             \* the global Capacity object
  None,
  GlobalMax, GlobalPerClient,     \* 64 and 8
  ReceiverMax, ReceiverPerClient  \* 8 and 2

ASSUME IssuanceConstants ==
  /\ Global \notin Generations
  /\ None \notin Generations \union {Global}
  /\ {GlobalMax, GlobalPerClient, ReceiverMax, ReceiverPerClient} \subseteq Nat \ {0}

VARIABLES
  used,       \* permits taken from the semaphore of each Capacity
  clients,    \* its counter of each client
  receivers,  \* weak reference of each receiver: a generation or None
  request     \* what each request does and holds

vars == <<used, clients, receivers, request>>

Objects == Generations \union {Global}
Max(c) == IF c = Global THEN GlobalMax ELSE ReceiverMax
PerClient(c) == IF c = Global THEN GlobalPerClient ELSE ReceiverPerClient

Idle == [phase |-> "idle", client |-> None, receiver |-> None,
         capacity |-> None, strong |-> FALSE]

Init ==
  /\ used = [c \in Objects |-> 0]
  /\ clients = [c \in Objects |-> [k \in Clients |-> 0]]
  /\ receivers = [e \in Receivers |-> None]
  /\ request = [r \in Requests |-> Idle]

-----------------------------------------------------------------------------
(* Capacity. try_acquire holds the clients lock throughout; the drop of a   *)
(* permit holds it for the counter, and gives the semaphore back after.     *)

CanAcquire(c, k) == clients[c][k] < PerClient(c) /\ used[c] < Max(c)

try_acquire(c, k) ==
  /\ used' = [used EXCEPT ![c] = @ + 1]
  /\ clients' = [clients EXCEPT ![c][k] = @ + 1]

\* Mutant: the counter is not taken back.
DropSlotKept(c, k) == UNCHANGED <<clients, used>>

DropSlot(c, k) ==
  /\ clients' = [clients EXCEPT ![c][k] = @ - 1]
  /\ UNCHANGED used

DropPermit(c) ==
  /\ used' = [used EXCEPT ![c] = @ - 1]
  /\ UNCHANGED clients

-----------------------------------------------------------------------------
(* Issuance::acquire.                                                       *)

\* Permits that still own their strong reference. The reference an acquire
\* takes and gives back on a refusal lives inside one step.
Strong(c) == \E r \in Requests : request[r].capacity = c /\ request[r].strong

\* A new Capacity is an object nothing refers to.
Unreachable(c) == \A r \in Requests : request[r].capacity # c

AcquireGlobal(r, k, e) ==
  /\ request[r] = Idle
  /\ CanAcquire(Global, k)
  /\ try_acquire(Global, k)
  /\ request' = [request EXCEPT ![r] = [Idle EXCEPT !.phase = "global",
                                         !.client = k, !.receiver = e]]
  /\ UNCHANGED receivers

\* retain: dead entries leave the map.
Retained == [e \in Receivers |->
  IF receivers[e] # None /\ Strong(receivers[e]) THEN receivers[e] ELSE None]

\* Under the receivers lock: the live Capacity of the endpoint, or a new one,
\* and a permit of it. A new Capacity always has one to give.
AcquireReceiver(r) ==
  /\ request[r].phase = "global"
  /\ LET e == request[r].receiver
         k == request[r].client
         Got(c) == request' = [request EXCEPT ![r].phase = "issuing",
                                              ![r].capacity = c, ![r].strong = TRUE]
     IN \/ /\ Retained[e] # None
           /\ CanAcquire(Retained[e], k)
           /\ try_acquire(Retained[e], k)
           /\ Got(Retained[e])
           /\ receivers' = Retained
        \/ /\ Retained[e] # None
           /\ ~CanAcquire(Retained[e], k)
           /\ request' = [request EXCEPT ![r].phase = "global slot"]
           /\ receivers' = Retained
           /\ UNCHANGED <<used, clients>>
        \/ /\ Retained[e] = None
           /\ \E c \in {g \in Generations : Unreachable(g)} :
                /\ used' = [used EXCEPT ![c] = 1]
                /\ clients' = [clients EXCEPT ![c] = [x \in Clients |-> IF x = k THEN 1 ELSE 0]]
                /\ Got(c)
                /\ receivers' = [Retained EXCEPT ![e] = c]

-----------------------------------------------------------------------------
(* The drop of a Permit, field by field.                                    *)

\* Mutant: the strong reference is the first field.
ReferenceFirst ==
  [issuing |-> "reference", reference |-> "slot", slot |-> "permit",
   permit |-> "global slot"]

\* What a request releases next: the counter and the semaphore of the
\* receiver, its reference, then the same of the global permit.
DropOrder ==
  [issuing |-> "slot", slot |-> "permit", permit |-> "reference",
   reference |-> "global slot"]

\* The invoice was issued or failed, or the request was cancelled.
Finish(r) ==
  /\ request[r].phase = "issuing"
  /\ request' = [request EXCEPT ![r].phase = DropOrder["issuing"]]
  /\ UNCHANGED <<used, clients, receivers>>

ReleaseSlot(r) ==
  /\ request[r].phase = "slot"
  /\ DropSlot(request[r].capacity, request[r].client)
  /\ request' = [request EXCEPT ![r].phase = DropOrder["slot"]]
  /\ UNCHANGED receivers

ReleasePermit(r) ==
  /\ request[r].phase = "permit"
  /\ DropPermit(request[r].capacity)
  /\ request' = [request EXCEPT ![r].phase = DropOrder["permit"]]
  /\ UNCHANGED receivers

ReleaseReference(r) ==
  /\ request[r].phase = "reference"
  /\ request' = [request EXCEPT ![r].phase = DropOrder["reference"], ![r].strong = FALSE]
  /\ UNCHANGED <<used, clients, receivers>>

ReleaseGlobalSlot(r) ==
  /\ request[r].phase = "global slot"
  /\ DropSlot(Global, request[r].client)
  /\ request' = [request EXCEPT ![r].phase = "global permit"]
  /\ UNCHANGED receivers

ReleaseGlobalPermit(r) ==
  /\ request[r].phase = "global permit"
  /\ DropPermit(Global)
  /\ request' = [request EXCEPT ![r] = Idle]
  /\ UNCHANGED receivers

Release(r) ==
  \/ Finish(r) \/ ReleaseSlot(r) \/ ReleasePermit(r) \/ ReleaseReference(r)
  \/ ReleaseGlobalSlot(r) \/ ReleaseGlobalPermit(r)

Next ==
  \E r \in Requests :
    \/ \E k \in Clients, e \in Receivers : AcquireGlobal(r, k, e)
    \/ AcquireReceiver(r)
    \/ Release(r)

Spec == Init /\ [][Next]_vars

-----------------------------------------------------------------------------
(* Correctness.                                                             *)

\* Requests that hold a counter slot, or a semaphore permit, of a Capacity.
ReceiverSlots == {r \in Requests : request[r].phase \in {"issuing", "slot"}}
SlotHolders(c) ==
  IF c = Global THEN {r \in Requests : request[r].phase \notin {"idle", "global permit"}}
  ELSE {r \in ReceiverSlots : request[r].capacity = c}
PermitHolders(c) ==
  IF c = Global THEN {r \in Requests : request[r].phase # "idle"}
  ELSE {r \in Requests : /\ request[r].phase \in {"issuing", "slot", "permit"}
                         /\ request[r].capacity = c}
Of(k, holders) == {r \in holders : request[r].client = k}

\* No counter of a Capacity underflows or passes its limit, no semaphore hands
\* out more permits than it has, and references stay within the objects.
TypeOK ==
  /\ \A c \in Objects : used[c] \in 0 .. Max(c)
  /\ \A c \in Objects, k \in Clients : clients[c][k] \in 0 .. PerClient(c)
  /\ receivers \in [Receivers -> Generations \union {None}]
  /\ request \in [Requests ->
       [phase : {"idle", "global", "issuing", "slot", "permit", "reference",
                 "global slot", "global permit"},
        client : Clients \union {None}, receiver : Receivers \union {None},
        capacity : Generations \union {None}, strong : BOOLEAN]]

\* Nothing leaks: every Capacity in use counts exactly the permits that have
\* not been given back, per client and in all, so a drop always finds its
\* client's counter (the debug_assert in the drop of CapacityPermit).
PermitsExact ==
  \A c \in Objects : c = Global \/ ~Unreachable(c) =>
    /\ used[c] = Cardinality(PermitHolders(c))
    /\ \A k \in Clients : clients[c][k] = Cardinality(Of(k, SlotHolders(c)))

\* An endpoint has one budget: over every Capacity ever made for it, the
\* slots in use stay within one Capacity's limits, for all and per client.
EndpointBudget ==
  \A e \in Receivers :
    LET busy == {r \in ReceiverSlots : request[r].receiver = e}
    IN /\ Cardinality(busy) <= ReceiverMax
       /\ \A k \in Clients : Cardinality(Of(k, busy)) <= ReceiverPerClient
===============================================================================
