----------------------------- MODULE LimitsProofs -----------------------------
(***************************************************************************)
(* The limits on what clients take, whatever their values.  First the      *)
(* issuance of invoices: every counter of a Capacity is exact between any  *)
(* two steps of any drops, and the weak references of the receivers give   *)
(* an endpoint one budget.  Then the rate limiter: its allowance and its   *)
(* promises.                                                               *)
(***************************************************************************)
EXTENDS Issuance, RateLimiter, FiniteSetTheorems, TLAPS

Phases == {"idle", "global", "issuing", "slot", "permit", "reference",
           "global slot", "global permit"}
RequestType ==
  [phase : Phases, client : Clients \union {None}, receiver : Receivers \union {None},
   capacity : Generations \union {None}, strong : BOOLEAN]

\* What a request x holds of Capacity c.
HasPermit(x, c) ==
  IF c = Global THEN x.phase # "idle"
  ELSE x.phase \in {"issuing", "slot", "permit"} /\ x.capacity = c
HasSlot(x, c) ==
  IF c = Global THEN x.phase \notin {"idle", "global permit"}
  ELSE x.phase \in {"issuing", "slot"} /\ x.capacity = c

PermitsOf(q, c) == {r \in Requests : HasPermit(q[r], c)}
SlotsOf(q, c, k) == {r \in Requests : HasSlot(q[r], c) /\ q[r].client = k}

\* Counters are within their limits.
Tallies ==
  /\ used \in [Objects -> Nat]
  /\ clients \in [Objects -> [Clients -> Nat]]
  /\ \A c \in Objects : used[c] <= Max(c)
  /\ \A c \in Objects, k \in Clients : clients[c][k] <= PerClient(c)

Typed ==
  /\ Tallies
  /\ receivers \in [Receivers -> Generations \union {None}]
  /\ request \in [Requests -> RequestType]

\* A request names its client and its receiver, and it has a strong reference
\* to a Capacity of a receiver from the permit of it to the end of its drop.
Coherent(x) ==
  /\ x.phase = "idle" => x = Idle
  /\ x.phase # "idle" => x.client \in Clients /\ x.receiver \in Receivers
  /\ x.strong <=> x.phase \in {"issuing", "slot", "permit", "reference"}
  /\ x.strong => x.capacity \in Generations

\* The map names the Capacity that every strong reference of an endpoint is to.
Directory ==
  \A r \in Requests :
    request[r].strong => receivers[request[r].receiver] = request[r].capacity

IInv ==
  /\ Typed
  /\ \A r \in Requests : Coherent(request[r])
  /\ IsFiniteSet(PermitsOf(request, Global))
  /\ PermitsExact
  /\ Directory

-----------------------------------------------------------------------------
(* Counting holders.                                                        *)

\* One if r is in S; if x holds a permit of c; if it holds a slot of client k.
In(r, S) == IF r \in S THEN 1 ELSE 0
Permit(x, c) == IF HasPermit(x, c) THEN 1 ELSE 0
Slot(x, c, k) == IF HasSlot(x, c) /\ x.client = k THEN 1 ELSE 0

\* They are numbers.
LEMMA Bits ==
  /\ \A r, S : In(r, S) \in Nat
  /\ \A x, c : Permit(x, c) \in Nat
  /\ \A x, c, k : Slot(x, c, k) \in Nat
  BY DEF In, Permit, Slot

\* Sets that differ in one element differ by it in cardinality.
LEMMA Swap ==
  ASSUME NEW S, NEW T, NEW r, IsFiniteSet(S), T \ {r} = S \ {r}
  PROVE  /\ IsFiniteSet(T) /\ Cardinality(S) \in Nat /\ Cardinality(T) \in Nat
         /\ Cardinality(T) + In(r, S) = Cardinality(S) + In(r, T)
<1> DEFINE Rest == S \ {r}
<1>1. IsFiniteSet(Rest) /\ r \notin Rest
  BY FS_Subset
<1>2. /\ IsFiniteSet(Rest \union {r})
      /\ Cardinality(Rest \union {r}) = Cardinality(Rest) + 1
  BY <1>1, FS_AddElement
<1>3. Cardinality(Rest) \in Nat
  BY <1>1, FS_CardinalityType
<1>4. S = IF r \in S THEN Rest \union {r} ELSE Rest
  OBVIOUS
<1>5. T = IF r \in T THEN Rest \union {r} ELSE Rest
  OBVIOUS
<1> HIDE DEF Rest
<1>6. Cardinality(S) = Cardinality(Rest) + In(r, S)
  BY <1>2, <1>3, <1>4 DEF In
<1>7. Cardinality(T) = Cardinality(Rest) + In(r, T) /\ IsFiniteSet(T)
  BY <1>1, <1>2, <1>3, <1>5 DEF In
<1> QED
  BY <1>3, <1>6, <1>7, Bits

\* The holders of the model are the ones that the requests' records tell.
LEMMA HoldersAre ==
  ASSUME NEW c
  PROVE  /\ PermitHolders(c) = PermitsOf(request, c)
         /\ PermitHolders(c)' = PermitsOf(request', c)
         /\ \A k : Of(k, SlotHolders(c)) = SlotsOf(request, c, k)
         /\ \A k : Of(k, SlotHolders(c))' = SlotsOf(request', c, k)
<1>1. PermitHolders(c) = PermitsOf(request, c)
  BY DEF PermitHolders, PermitsOf, HasPermit
<1>2. PermitHolders(c)' = PermitsOf(request', c)
  BY DEF PermitHolders, PermitsOf, HasPermit
<1>3. ASSUME NEW k PROVE Of(k, SlotHolders(c)) = SlotsOf(request, c, k)
  BY ZenonT(30) DEF Of, SlotHolders, ReceiverSlots, SlotsOf, HasSlot
<1>4. ASSUME NEW k PROVE Of(k, SlotHolders(c))' = SlotsOf(request', c, k)
  BY ZenonT(30) DEF Of, SlotHolders, ReceiverSlots, SlotsOf, HasSlot
<1> QED
  BY <1>1, <1>2, <1>3, <1>4

\* Who holds anything of a receiver holds a global permit.
LEMMA HoldersFinite ==
  ASSUME NEW q, IsFiniteSet(PermitsOf(q, Global)), NEW c, NEW k
  PROVE  IsFiniteSet(PermitsOf(q, c)) /\ IsFiniteSet(SlotsOf(q, c, k))
<1>1. PermitsOf(q, c) \subseteq PermitsOf(q, Global)
  BY DEF PermitsOf, HasPermit
<1>2. SlotsOf(q, c, k) \subseteq PermitsOf(q, Global)
  BY ZenonT(30) DEF SlotsOf, HasSlot, PermitsOf, HasPermit
<1> QED
  BY <1>1, <1>2, FS_Subset

\* From q to q1 only request r changes, and it becomes y.
Moves(q, q1, r, y) == q1[r] = y /\ \A s \in Requests \ {r} : q1[s] = q[s]

\* What a step of request r changes in the permits out, and in the slots of a client.
LEMMA CountPermits ==
  ASSUME NEW q, NEW q1, NEW r \in Requests, NEW y, Moves(q, q1, r, y),
         IsFiniteSet(PermitsOf(q, Global)), NEW c
  PROVE  /\ Cardinality(PermitsOf(q, c)) \in Nat /\ Cardinality(PermitsOf(q1, c)) \in Nat
         /\ Cardinality(PermitsOf(q1, c)) + Permit(q[r], c)
              = Cardinality(PermitsOf(q, c)) + Permit(y, c)
         /\ IsFiniteSet(PermitsOf(q1, c))
<1>1. q1[r] = y /\ \A s \in Requests : s # r => q1[s] = q[s]
  BY DEF Moves
<1>2. PermitsOf(q1, c) \ {r} = PermitsOf(q, c) \ {r}
  BY <1>1 DEF PermitsOf
<1>3. IsFiniteSet(PermitsOf(q, c))
  BY HoldersFinite
<1>4. /\ r \in PermitsOf(q, c) <=> HasPermit(q[r], c)
      /\ r \in PermitsOf(q1, c) <=> HasPermit(y, c)
  BY <1>1 DEF PermitsOf
<1>5. /\ Cardinality(PermitsOf(q, c)) \in Nat /\ Cardinality(PermitsOf(q1, c)) \in Nat
      /\ Cardinality(PermitsOf(q1, c)) + In(r, PermitsOf(q, c))
           = Cardinality(PermitsOf(q, c)) + In(r, PermitsOf(q1, c))
      /\ IsFiniteSet(PermitsOf(q1, c))
  BY <1>2, <1>3, Swap
<1> QED
  BY <1>4, <1>5 DEF In, Permit

\* The slots of client k follow request r alike.
LEMMA CountSlots ==
  ASSUME NEW q, NEW q1, NEW r \in Requests, NEW y, Moves(q, q1, r, y),
         IsFiniteSet(PermitsOf(q, Global)), NEW c, NEW k
  PROVE  /\ Cardinality(SlotsOf(q, c, k)) \in Nat /\ Cardinality(SlotsOf(q1, c, k)) \in Nat
         /\ Cardinality(SlotsOf(q1, c, k)) + Slot(q[r], c, k)
              = Cardinality(SlotsOf(q, c, k)) + Slot(y, c, k)
<1>1. q1[r] = y /\ \A s \in Requests : s # r => q1[s] = q[s]
  BY DEF Moves
<1>2. SlotsOf(q1, c, k) \ {r} = SlotsOf(q, c, k) \ {r}
  BY <1>1 DEF SlotsOf
<1>3. IsFiniteSet(SlotsOf(q, c, k))
  BY HoldersFinite
<1>4. /\ r \in SlotsOf(q, c, k) <=> HasSlot(q[r], c) /\ q[r].client = k
      /\ r \in SlotsOf(q1, c, k) <=> HasSlot(y, c) /\ y.client = k
  BY <1>1 DEF SlotsOf
<1>5. /\ Cardinality(SlotsOf(q, c, k)) \in Nat /\ Cardinality(SlotsOf(q1, c, k)) \in Nat
      /\ Cardinality(SlotsOf(q1, c, k)) + In(r, SlotsOf(q, c, k))
           = Cardinality(SlotsOf(q, c, k)) + In(r, SlotsOf(q1, c, k))
  BY <1>2, <1>3, Swap
<1> QED
  BY <1>4, <1>5 DEF In, Slot

\* A Capacity that is held has counted its holder.
LEMMA Held ==
  ASSUME IInv, NEW r \in Requests, NEW c \in Objects
  PROVE  /\ HasPermit(request[r], c) => used[c] >= 1
         /\ HasSlot(request[r], c) => clients[c][request[r].client] >= 1
<1> DEFINE k == request[r].client
<1>1. request \in [Requests -> RequestType] /\ Coherent(request[r])
  BY DEF IInv, Typed
<1>2. IsFiniteSet(PermitsOf(request, c)) /\ IsFiniteSet(SlotsOf(request, c, k))
  BY HoldersFinite DEF IInv
<1>3. ASSUME HasPermit(request[r], c) PROVE used[c] >= 1
  <2>1. c = Global \/ ~Unreachable(c)
    BY <1>3 DEF HasPermit, Unreachable
  <2>2. used[c] = Cardinality(PermitsOf(request, c))
    BY <2>1, HoldersAre DEF IInv, PermitsExact
  <2>3. r \in PermitsOf(request, c)
    BY <1>3 DEF PermitsOf
  <2>4. Cardinality(PermitsOf(request, c)) \in Nat /\ Cardinality(PermitsOf(request, c)) # 0
    BY <1>2, <2>3, FS_CardinalityType, FS_EmptySet
  <2> QED
    BY <2>2, <2>4
<1>4. ASSUME HasSlot(request[r], c) PROVE clients[c][k] >= 1
  <2>1. c = Global \/ ~Unreachable(c)
    BY <1>4, ZenonT(30) DEF HasSlot, Unreachable
  <2>2. k \in Clients
    BY <1>1, <1>4, ZenonT(30) DEF HasSlot, Coherent
  <2>3. clients[c][k] = Cardinality(SlotsOf(request, c, k))
    BY <2>1, <2>2, HoldersAre DEF IInv, PermitsExact
  <2>4. r \in SlotsOf(request, c, k)
    BY <1>4 DEF SlotsOf
  <2>5. Cardinality(SlotsOf(request, c, k)) \in Nat /\ Cardinality(SlotsOf(request, c, k)) # 0
    BY <1>2, <2>4, FS_CardinalityType, FS_EmptySet
  <2> QED
    BY <2>3, <2>5
<1> QED
  BY <1>3, <1>4

\* The counters follow what request r holds, and a Capacity that nothing
\* referred to starts from what r holds of it.
Balanced(r, y) ==
  \A c \in Objects :
    /\ c = Global \/ ~Unreachable(c) =>
         /\ used'[c] + Permit(request[r], c) = used[c] + Permit(y, c)
         /\ \A k \in Clients :
              clients'[c][k] + Slot(request[r], c, k)
                = clients[c][k] + Slot(y, c, k)
    /\ c # Global /\ Unreachable(c) /\ y.capacity = c =>
         /\ used'[c] = Permit(y, c)
         /\ \A k \in Clients : clients'[c][k] = Slot(y, c, k)

\* Two numbers that follow a third one alike are equal.
LEMMA Alike ==
  ASSUME NEW a \in Nat, NEW p \in Nat, NEW p1 \in Nat, NEW a1 \in Nat, NEW b1 \in Nat,
         a1 + p = a + p1, b1 + p = a + p1
  PROVE  a1 = b1
  OBVIOUS

\* Counters that follow the holders stay exact.
LEMMA BalancedExact ==
  ASSUME IInv, NEW r \in Requests, NEW y \in RequestType,
         Moves(request, request', r, y),
         used' \in [Objects -> Nat], clients' \in [Objects -> [Clients -> Nat]],
         Balanced(r, y)
  PROVE  PermitsExact' /\ IsFiniteSet(PermitsOf(request', Global))
<1>1. /\ request \in [Requests -> RequestType] /\ IsFiniteSet(PermitsOf(request, Global))
      /\ used \in [Objects -> Nat] /\ clients \in [Objects -> [Clients -> Nat]]
  BY DEF IInv, Typed, Tallies
<1>2. IsFiniteSet(PermitsOf(request', Global))
  BY <1>1, CountPermits, Zenon
<1>3. SUFFICES ASSUME NEW c \in Objects, c = Global \/ ~Unreachable(c)'
               PROVE  /\ used'[c] = Cardinality(PermitsOf(request', c))
                      /\ \A k \in Clients :
                           clients'[c][k] = Cardinality(SlotsOf(request', c, k))
  BY <1>2, HoldersAre DEF PermitsExact
<1>4. /\ Cardinality(PermitsOf(request, c)) \in Nat /\ Cardinality(PermitsOf(request', c)) \in Nat
      /\ Cardinality(PermitsOf(request', c)) + Permit(request[r], c)
           = Cardinality(PermitsOf(request, c)) + Permit(y, c)
  BY <1>1, CountPermits
<1>5. ASSUME NEW k
      PROVE  /\ Cardinality(SlotsOf(request, c, k)) \in Nat
             /\ Cardinality(SlotsOf(request', c, k)) \in Nat
             /\ Cardinality(SlotsOf(request', c, k))
                  + Slot(request[r], c, k)
                  = Cardinality(SlotsOf(request, c, k)) + Slot(y, c, k)
  BY <1>1, CountSlots
<1>6. CASE c = Global \/ ~Unreachable(c)
  <2>1. used[c] = Cardinality(PermitsOf(request, c))
    BY <1>6, HoldersAre DEF IInv, PermitsExact
  <2>2. used'[c] + Permit(request[r], c) = used[c] + Permit(y, c)
    BY <1>6 DEF Balanced
  <2>3. used'[c] = Cardinality(PermitsOf(request', c))
    <3>1. used'[c] \in Nat /\ Permit(request[r], c) \in Nat /\ Permit(y, c) \in Nat
      BY Bits
    <3>2. used'[c] + Permit(request[r], c) = Cardinality(PermitsOf(request, c)) + Permit(y, c)
      BY <2>1, <2>2
    <3> QED
      BY <1>4, <3>1, <3>2, Alike, Zenon
  <2>4. ASSUME NEW k \in Clients PROVE clients'[c][k] = Cardinality(SlotsOf(request', c, k))
    <3>1. clients[c][k] = Cardinality(SlotsOf(request, c, k))
      BY <1>6, HoldersAre DEF IInv, PermitsExact
    <3>2. clients'[c][k] + Slot(request[r], c, k)
            = clients[c][k] + Slot(y, c, k)
      BY <1>6 DEF Balanced
    <3>3. clients'[c][k] \in Nat /\ Slot(request[r], c, k) \in Nat /\ Slot(y, c, k) \in Nat
      BY Bits
    <3>4. clients'[c][k] + Slot(request[r], c, k)
            = Cardinality(SlotsOf(request, c, k)) + Slot(y, c, k)
      BY <3>1, <3>2
    <3> QED
      BY <1>5, <3>3, <3>4, Alike, Zenon
  <2> QED
    BY <2>3, <2>4
<1>7. CASE c # Global /\ Unreachable(c)
  <2>1. y.capacity = c
    BY <1>1, <1>3, <1>7 DEF Unreachable, Moves
  <2>2. PermitsOf(request, c) = {} /\ \A k : SlotsOf(request, c, k) = {}
    BY <1>7 DEF PermitsOf, HasPermit, SlotsOf, HasSlot, Unreachable
  <2>3. /\ ~HasPermit(request[r], c) /\ ~HasSlot(request[r], c)
    BY <1>7 DEF HasPermit, HasSlot, Unreachable
  <2>4. Cardinality(PermitsOf(request', c)) = Permit(y, c)
    BY <1>4, <2>2, <2>3, FS_EmptySet DEF Permit
  <2>5. ASSUME NEW k \in Clients
        PROVE  Cardinality(SlotsOf(request', c, k)) = Slot(y, c, k)
    <3>1. Cardinality(SlotsOf(request, c, k)) = 0
      BY <2>2, FS_EmptySet, Zenon
    <3>2. Slot(request[r], c, k) = 0
      BY <2>3 DEF Slot
    <3> QED
      BY <1>5, <3>1, <3>2, Bits
  <2> QED
    BY <1>7, <2>1, <2>4, <2>5 DEF Balanced
<1> QED
  BY <1>6, <1>7

-----------------------------------------------------------------------------
(* What a step does to the counters.                                        *)

\* The limits are positive numbers.
LEMMA LimitsAre ==
  \A c \in Objects : Max(c) \in Nat \ {0} /\ PerClient(c) \in Nat \ {0}
  BY IssuanceConstants DEF Max, PerClient

\* Nothing is taken or given back.
LEMMA TallySame ==
  ASSUME IInv, NEW r \in Requests, NEW y, UNCHANGED <<used, clients>>,
         y.client = request[r].client,
         \A c \in Objects : HasPermit(y, c) <=> HasPermit(request[r], c),
         \A c \in Objects : HasSlot(y, c) <=> HasSlot(request[r], c),
         \A c \in Objects : c # Global /\ Unreachable(c) => y.capacity # c
  PROVE  Tallies' /\ Balanced(r, y)
<1>1. Tallies'
  BY DEF IInv, Typed, Tallies
<1>2. \A c \in Objects : Permit(y, c) = Permit(request[r], c)
  BY DEF Permit
<1>3. \A c \in Objects, k \in Clients : Slot(y, c, k) = Slot(request[r], c, k)
  BY DEF Slot
<1> QED
  BY <1>1, <1>2, <1>3 DEF Balanced

\* A permit of d is taken for client k.
LEMMA TallyTaken ==
  ASSUME IInv, NEW r \in Requests, NEW y, NEW d \in Objects, NEW k \in Clients,
         CanAcquire(d, k), try_acquire(d, k), y.client = k,
         ~HasPermit(request[r], d), ~HasSlot(request[r], d),
         \A c \in Objects : HasPermit(y, c) <=> HasPermit(request[r], c) \/ c = d,
         \A c \in Objects : HasSlot(y, c) <=> HasSlot(request[r], c) \/ c = d,
         \A c \in Objects : HasSlot(request[r], c) => request[r].client = k,
         \A c \in Objects : c # Global /\ Unreachable(c) => y.capacity # c
  PROVE  Tallies' /\ Balanced(r, y)
<1>1. Tallies /\ Max(d) \in Nat /\ PerClient(d) \in Nat
  BY LimitsAre DEF IInv, Typed
<1>2. /\ used'[d] = used[d] + 1 /\ \A c \in Objects : c # d => used'[c] = used[c]
      /\ used' \in [Objects -> Nat]
  BY <1>1 DEF try_acquire, Tallies
<1>3. /\ clients'[d][k] = clients[d][k] + 1
      /\ \A c \in Objects, x \in Clients : c # d \/ x # k => clients'[c][x] = clients[c][x]
      /\ clients' \in [Objects -> [Clients -> Nat]]
  BY <1>1 DEF try_acquire, Tallies
<1>4. \A c \in Objects : used'[c] <= Max(c)
  BY <1>1, <1>2 DEF CanAcquire, Tallies
<1>5. \A c \in Objects, x \in Clients : clients'[c][x] <= PerClient(c)
  BY <1>1, <1>3 DEF CanAcquire, Tallies
<1>6. Tallies'
  BY <1>2, <1>3, <1>4, <1>5 DEF Tallies, Max, PerClient
<1>7. ASSUME NEW c \in Objects
      PROVE  used'[c] + Permit(request[r], c) = used[c] + Permit(y, c)
  BY <1>1, <1>2 DEF Permit, Tallies
<1>8. ASSUME NEW c \in Objects, NEW x \in Clients
      PROVE  clients'[c][x] + Slot(request[r], c, x) = clients[c][x] + Slot(y, c, x)
  BY <1>1, <1>3 DEF Slot, Tallies
<1> QED
  BY <1>6, <1>7, <1>8 DEF Balanced

\* The slot that r holds of d is given back.
LEMMA TallySlot ==
  ASSUME IInv, NEW r \in Requests, NEW y, NEW d \in Objects,
         HasSlot(request[r], d), DropSlot(d, request[r].client), y.client = request[r].client,
         \A c \in Objects : HasPermit(y, c) <=> HasPermit(request[r], c),
         \A c \in Objects : HasSlot(y, c) <=> HasSlot(request[r], c) /\ c # d,
         \A c \in Objects : c # Global /\ Unreachable(c) => y.capacity # c
  PROVE  Tallies' /\ Balanced(r, y)
<1> DEFINE k == request[r].client
<1>1. Tallies /\ clients[d][k] >= 1 /\ \A c \in Objects : PerClient(c) \in Nat
  BY Held, LimitsAre DEF IInv, Typed
<1>2. k \in Clients
  BY ZenonT(30) DEF IInv, Coherent, HasSlot
<1>3. /\ clients'[d][k] = clients[d][k] - 1
      /\ \A c \in Objects, x \in Clients : c # d \/ x # k => clients'[c][x] = clients[c][x]
      /\ clients' \in [Objects -> [Clients -> Nat]]
  BY <1>1, <1>2 DEF DropSlot, Tallies
<1>4. \A c \in Objects, x \in Clients : clients'[c][x] <= PerClient(c)
  BY <1>1, <1>3 DEF Tallies
<1>5. Tallies' /\ used' = used
  BY <1>1, <1>3, <1>4 DEF Tallies, DropSlot, Max, PerClient
<1>6. \A c \in Objects : Permit(y, c) = Permit(request[r], c)
  BY DEF Permit
<1>7. ASSUME NEW c \in Objects, NEW x \in Clients
      PROVE  clients'[c][x] + Slot(request[r], c, x) = clients[c][x] + Slot(y, c, x)
  BY <1>1, <1>2, <1>3 DEF Slot, Tallies
<1> QED
  BY <1>5, <1>6, <1>7 DEF Balanced

\* The permit that r holds of d is given back.
LEMMA TallyPermit ==
  ASSUME IInv, NEW r \in Requests, NEW y, NEW d \in Objects,
         HasPermit(request[r], d), DropPermit(d),
         \A c \in Objects : HasPermit(y, c) <=> HasPermit(request[r], c) /\ c # d,
         \A c \in Objects : HasSlot(y, c) <=> HasSlot(request[r], c),
         \A c \in Objects : HasSlot(y, c) => y.client = request[r].client,
         \A c \in Objects : c # Global /\ Unreachable(c) => y.capacity # c
  PROVE  Tallies' /\ Balanced(r, y)
<1>1. Tallies /\ used[d] >= 1 /\ \A c \in Objects : Max(c) \in Nat
  BY Held, LimitsAre DEF IInv, Typed
<1>2. /\ used'[d] = used[d] - 1 /\ \A c \in Objects : c # d => used'[c] = used[c]
      /\ used' \in [Objects -> Nat]
  BY <1>1 DEF DropPermit, Tallies
<1>3. \A c \in Objects : used'[c] <= Max(c)
  BY <1>1, <1>2 DEF Tallies
<1>4. Tallies' /\ clients' = clients
  BY <1>1, <1>2, <1>3 DEF Tallies, DropPermit, Max, PerClient
<1>5. \A c \in Objects, x \in Clients : Slot(y, c, x) = Slot(request[r], c, x)
  BY DEF Slot
<1>6. ASSUME NEW c \in Objects
      PROVE  used'[c] + Permit(request[r], c) = used[c] + Permit(y, c)
  BY <1>1, <1>2 DEF Permit, Tallies
<1> QED
  BY <1>4, <1>5, <1>6 DEF Balanced

\* A new Capacity d gives its first permit to client k.
LEMMA TallyNew ==
  ASSUME IInv, NEW r \in Requests, NEW y, NEW d \in Generations, NEW k \in Clients,
         Unreachable(d), used' = [used EXCEPT ![d] = 1],
         clients' = [clients EXCEPT ![d] = [x \in Clients |-> IF x = k THEN 1 ELSE 0]],
         y.client = k, request[r].client = k, y.capacity = d,
         HasPermit(y, d), HasSlot(y, d),
         \A c \in Objects : c # d => (HasPermit(y, c) <=> HasPermit(request[r], c)),
         \A c \in Objects : c # d => (HasSlot(y, c) <=> HasSlot(request[r], c))
  PROVE  Tallies' /\ Balanced(r, y)
<1>1. Tallies /\ d \in Objects /\ d # Global
  BY IssuanceConstants DEF IInv, Typed, Objects
<1>2. /\ used'[d] = 1 /\ \A c \in Objects : c # d => used'[c] = used[c]
      /\ used' \in [Objects -> Nat]
  BY <1>1 DEF Tallies
<1>3. /\ \A x \in Clients : clients'[d][x] = IF x = k THEN 1 ELSE 0
      /\ \A c \in Objects : c # d => clients'[c] = clients[c]
      /\ clients' \in [Objects -> [Clients -> Nat]]
  BY <1>1 DEF Tallies
<1>4. \A c \in Objects : used'[c] <= Max(c)
  BY <1>1, <1>2, LimitsAre DEF Tallies
<1>5. \A c \in Objects, x \in Clients : clients'[c][x] <= PerClient(c)
  BY <1>1, <1>3, LimitsAre DEF Tallies
<1>6. Tallies'
  BY <1>2, <1>3, <1>4, <1>5 DEF Tallies, Max, PerClient
<1>7. ASSUME NEW c \in Objects, c # d
      PROVE  /\ Permit(y, c) = Permit(request[r], c)
             /\ \A x \in Clients : Slot(y, c, x) = Slot(request[r], c, x)
  BY <1>7 DEF Permit, Slot
<1>8. Permit(y, d) = 1 /\ \A x \in Clients : Slot(y, d, x) = IF x = k THEN 1 ELSE 0
  BY DEF Permit, Slot
<1> QED
  BY <1>1, <1>2, <1>3, <1>6, <1>7, <1>8 DEF Balanced

-----------------------------------------------------------------------------
(* Steps.                                                                   *)

\* What a step of r has to show.
LEMMA StepKeeps ==
  ASSUME IInv, NEW r \in Requests, NEW y \in RequestType,
         request' = [request EXCEPT ![r] = y], Coherent(y),
         Tallies' /\ Balanced(r, y),
         receivers' \in [Receivers -> Generations \union {None}],
         \A s \in Requests : s # r /\ request[s].strong =>
           receivers'[request[s].receiver] = receivers[request[s].receiver],
         y.strong => receivers'[y.receiver] = y.capacity
  PROVE  IInv'
<1>1. request \in [Requests -> RequestType]
  BY DEF IInv, Typed
<1>2. Moves(request, request', r, y) /\ request' \in [Requests -> RequestType]
  BY <1>1 DEF Moves
<1>3. used' \in [Objects -> Nat] /\ clients' \in [Objects -> [Clients -> Nat]]
  BY DEF Tallies
<1>4. PermitsExact' /\ IsFiniteSet(PermitsOf(request', Global))
  BY <1>2, <1>3, BalancedExact, Zenon
<1>5. Typed'
  BY <1>2 DEF Typed, RequestType
<1>6. \A s \in Requests : Coherent(request'[s])
  BY <1>2 DEF IInv, Moves
<1>7. Directory'
  BY <1>2 DEF IInv, Directory, Moves
<1>8. (IsFiniteSet(PermitsOf(request, Global)))'
  BY <1>4 DEF PermitsOf, HasPermit
<1>9. (\A s \in Requests : Coherent(request[s]))'
  BY <1>6, Zenon DEF Coherent, Idle
<1> QED
  BY <1>4, <1>5, <1>7, <1>8, <1>9 DEF IInv

\* The same, when the map is left alone and r gains no reference.
LEMMA StepInPlace ==
  ASSUME IInv, NEW r \in Requests, NEW y \in RequestType,
         request' = [request EXCEPT ![r] = y], Coherent(y),
         Tallies' /\ Balanced(r, y), UNCHANGED receivers,
         y.strong => /\ request[r].strong /\ y.receiver = request[r].receiver
                     /\ y.capacity = request[r].capacity
  PROVE  IInv'
<1>1. /\ receivers' \in [Receivers -> Generations \union {None}]
      /\ y.strong => receivers'[y.receiver] = y.capacity
  BY DEF IInv, Typed, Directory
<1> QED
  BY <1>1, StepKeeps, Zenon

\* What is known of request r.
LEMMA RequestIs ==
  ASSUME IInv, NEW r \in Requests
  PROVE  /\ request[r] \in RequestType /\ Coherent(request[r])
         /\ \A c \in Objects : c # Global /\ Unreachable(c) => request[r].capacity # c
         /\ Global \in Objects /\ Generations \subseteq Objects /\ Global \notin Generations
         /\ None \notin Objects
  BY IssuanceConstants DEF IInv, Typed, Unreachable, Objects

\* A permit of the global Capacity, for an idle request.
LEMMA AcquireGlobalKeeps ==
  ASSUME IInv, NEW r \in Requests, NEW k \in Clients, NEW e \in Receivers,
         AcquireGlobal(r, k, e)
  PROVE  IInv'
<1> DEFINE y == [Idle EXCEPT !.phase = "global", !.client = k, !.receiver = e]
<1>1. request[r] = Idle /\ Global \in Objects /\ None \notin Objects /\ Global \notin Generations
  BY RequestIs DEF AcquireGlobal
<1>2. y.phase = "global" /\ y.client = k /\ y.receiver = e /\ y.capacity = None /\ ~y.strong
  BY DEF Idle
<1>3. y \in RequestType /\ Coherent(y)
  BY <1>2, ZenonT(30) DEF RequestType, Phases, Coherent, Idle
<1>4. /\ request' = [request EXCEPT ![r] = y] /\ UNCHANGED receivers
      /\ CanAcquire(Global, k) /\ try_acquire(Global, k)
  BY DEF AcquireGlobal
<1>5. \A c \in Objects : /\ ~HasPermit(request[r], c) /\ ~HasSlot(request[r], c)
                         /\ HasPermit(y, c) <=> c = Global
                         /\ HasSlot(y, c) <=> c = Global
  BY <1>1, <1>2 DEF HasPermit, HasSlot, Idle
<1> HIDE DEF y
<1>6. Tallies' /\ Balanced(r, y)
  BY <1>1, <1>2, <1>4, <1>5, TallyTaken
<1> QED
  BY <1>2, <1>3, <1>4, <1>6, StepInPlace, ZenonT(30)

\* A permit of the receiver's Capacity, a refusal, or a new Capacity.
LEMMA AcquireReceiverKeeps ==
  ASSUME IInv, NEW r \in Requests, AcquireReceiver(r)
  PROVE  IInv'
<1> DEFINE e == request[r].receiver
           k == request[r].client
           Got(c) == [request[r] EXCEPT !.phase = "issuing", !.capacity = c, !.strong = TRUE]
           refused == [request[r] EXCEPT !.phase = "global slot"]
<1>1. /\ request[r] \in RequestType /\ request[r].phase = "global" /\ ~request[r].strong
      /\ k \in Clients /\ e \in Receivers
      /\ Global \in Objects /\ Generations \subseteq Objects /\ Global \notin Generations
      /\ None \notin Objects
  BY RequestIs, Zenon DEF AcquireReceiver, Coherent
<1>2. /\ Retained \in [Receivers -> Generations \union {None}]
      /\ \A s \in Requests : request[s].strong =>
           Retained[request[s].receiver] = receivers[request[s].receiver]
      /\ Retained[e] # None => ~Unreachable(Retained[e]) /\ Retained[e] \in Generations
      /\ Retained[e] = None => \A s \in Requests : request[s].strong => request[s].receiver # e
  <2>1. receivers \in [Receivers -> Generations \union {None}]
    BY DEF IInv, Typed
  <2>2. Retained \in [Receivers -> Generations \union {None}]
    BY <2>1 DEF Retained
  <2>3. ASSUME NEW s \in Requests, request[s].strong
        PROVE  /\ Retained[request[s].receiver] = receivers[request[s].receiver]
               /\ Retained[request[s].receiver] # None
    <3>1. Coherent(request[s]) /\ receivers[request[s].receiver] = request[s].capacity
      BY <2>3 DEF IInv, Directory
    <3>2. request[s].receiver \in Receivers /\ request[s].capacity \in Generations
      BY <2>3, <3>1 DEF Coherent
    <3>3. request[s].capacity # None /\ Strong(request[s].capacity)
      BY <1>1, <2>3, <3>2 DEF Strong
    <3> QED
      BY <3>1, <3>2, <3>3 DEF Retained
  <2>4. Retained[e] # None => ~Unreachable(Retained[e])
    BY <1>1 DEF Retained, Strong, Unreachable
  <2> QED
    BY <1>1, <2>2, <2>3, <2>4
<1>3. ASSUME NEW c \in Generations
      PROVE  /\ Got(c) \in RequestType /\ Coherent(Got(c)) /\ Got(c).strong
             /\ Got(c).client = k /\ Got(c).receiver = e /\ Got(c).capacity = c
             /\ HasPermit(Got(c), c) /\ HasSlot(Got(c), c)
             /\ ~HasPermit(request[r], c) /\ ~HasSlot(request[r], c)
             /\ \A d \in Objects : d # c =>
                  /\ HasPermit(Got(c), d) <=> HasPermit(request[r], d)
                  /\ HasSlot(Got(c), d) <=> HasSlot(request[r], d)
  <2>1. /\ Got(c).phase = "issuing" /\ Got(c).strong /\ Got(c).client = k
        /\ Got(c).receiver = e /\ Got(c).capacity = c
    BY <1>1 DEF RequestType
  <2>2. Got(c) \in RequestType
    BY <1>1, ZenonT(30) DEF RequestType, Phases
  <2>3. Coherent(Got(c))
    BY <1>1, <2>1 DEF Coherent
  <2> HIDE DEF Got
  <2> QED
    BY <1>1, <2>1, <2>2, <2>3 DEF HasPermit, HasSlot
<1>4. CASE /\ Retained[e] # None /\ CanAcquire(Retained[e], k) /\ try_acquire(Retained[e], k)
           /\ request' = [request EXCEPT ![r].phase = "issuing", ![r].capacity = Retained[e],
                                         ![r].strong = TRUE]
           /\ receivers' = Retained
  <2> PICK c \in Generations : c = Retained[e]
    BY <1>2, <1>4
  <2> PICK y \in RequestType : y = Got(c)
    BY <1>3, Zenon
  <2>1. request' = [request EXCEPT ![r] = y]
    BY <1>4, Zenon DEF IInv, Typed
  <2>2. ~Unreachable(c) /\ c \in Objects /\ receivers'[e] = c
    BY <1>1, <1>2, <1>4
  <2>3. /\ Coherent(y) /\ y.strong /\ y.client = k /\ y.receiver = e /\ y.capacity = c
        /\ HasPermit(y, c) /\ HasSlot(y, c) /\ ~HasPermit(request[r], c) /\ ~HasSlot(request[r], c)
        /\ \A d \in Objects : d # c => (HasPermit(y, d) <=> HasPermit(request[r], d))
        /\ \A d \in Objects : d # c => (HasSlot(y, d) <=> HasSlot(request[r], d))
    BY <1>3, Zenon
  <2> HIDE DEF Got
  <2>4. \A d \in Objects : /\ HasPermit(y, d) <=> HasPermit(request[r], d) \/ d = c
                           /\ HasSlot(y, d) <=> HasSlot(request[r], d) \/ d = c
                           /\ d # Global /\ Unreachable(d) => y.capacity # d
    BY <2>2, <2>3, ZenonT(30)
  <2>5. Tallies' /\ Balanced(r, y)
    BY <1>1, <1>4, <2>2, <2>3, <2>4, TallyTaken, ZenonT(30)
  <2> QED
    BY <1>2, <1>4, <2>1, <2>2, <2>3, <2>5, StepKeeps, Zenon
<1>5. CASE /\ Retained[e] # None
           /\ request' = [request EXCEPT ![r].phase = "global slot"]
           /\ receivers' = Retained /\ UNCHANGED <<used, clients>>
  <2>1. request' = [request EXCEPT ![r] = refused]
    BY <1>5, ZenonT(30) DEF IInv, Typed
  <2>2. /\ refused.phase = "global slot" /\ ~refused.strong /\ refused.client = k
        /\ refused.receiver = e /\ refused.capacity = request[r].capacity
    BY <1>1 DEF RequestType
  <2>3. refused \in RequestType
    BY <1>1, ZenonT(30) DEF RequestType, Phases
  <2>4. Coherent(refused)
    BY <1>1, <2>2 DEF Coherent
  <2>5. \A d \in Objects : /\ HasPermit(refused, d) <=> HasPermit(request[r], d)
                           /\ HasSlot(refused, d) <=> HasSlot(request[r], d)
                           /\ d # Global /\ Unreachable(d) => refused.capacity # d
    BY <1>1, <2>2, RequestIs DEF HasPermit, HasSlot
  <2> HIDE DEF refused
  <2>6. Tallies' /\ Balanced(r, refused)
    BY <1>5, <2>2, <2>5, TallySame, ZenonT(30)
  <2> QED
    BY <1>2, <1>5, <2>1, <2>2, <2>3, <2>4, <2>6, StepKeeps, ZenonT(30)
<1>6. ASSUME Retained[e] = None, NEW c \in Generations, Unreachable(c),
             used' = [used EXCEPT ![c] = 1],
             clients' = [clients EXCEPT ![c] = [x \in Clients |-> IF x = k THEN 1 ELSE 0]],
             request' = [request EXCEPT ![r].phase = "issuing", ![r].capacity = c,
                                        ![r].strong = TRUE],
             receivers' = [Retained EXCEPT ![e] = c]
      PROVE  IInv'
  <2> PICK y \in RequestType : y = Got(c)
    BY <1>3, Zenon
  <2>1. request' = [request EXCEPT ![r] = y]
    BY <1>6, Zenon DEF IInv, Typed
  <2>2. /\ Coherent(y) /\ y.strong /\ y.client = k /\ y.receiver = e /\ y.capacity = c
        /\ HasPermit(y, c) /\ HasSlot(y, c)
        /\ \A d \in Objects : d # c => (HasPermit(y, d) <=> HasPermit(request[r], d))
        /\ \A d \in Objects : d # c => (HasSlot(y, d) <=> HasSlot(request[r], d))
    BY <1>3, Zenon
  <2> HIDE DEF Got
  <2>3. Tallies' /\ Balanced(r, y)
    BY <1>1, <1>6, <2>2, TallyNew, Zenon
  <2>4. /\ receivers' \in [Receivers -> Generations \union {None}] /\ receivers'[e] = c
        /\ \A s \in Requests : request[s].strong =>
             receivers'[request[s].receiver] = receivers[request[s].receiver]
    BY <1>1, <1>2, <1>6
  <2> QED
    BY <2>1, <2>2, <2>3, <2>4, StepKeeps, Zenon
<1> QED
  BY <1>4, <1>5, <1>6, Zenon DEF AcquireReceiver

\* A drop gives back the slot, the permit, the reference, then the global two.
LEMMA ReleaseKeeps ==
  ASSUME IInv, NEW r \in Requests, Release(r)
  PROVE  IInv'
<1> DEFINE To(p) == [request[r] EXCEPT !.phase = p]
           unreferenced == [request[r] EXCEPT !.phase = "global slot", !.strong = FALSE]
<1>0. /\ request[r] \in RequestType /\ Coherent(request[r])
      /\ \A c \in Objects : c # Global /\ Unreachable(c) => request[r].capacity # c
      /\ Global \in Objects /\ Generations \subseteq Objects /\ Global \notin Generations
      /\ None \notin Objects
      /\ request \in [Requests -> RequestType]
  BY RequestIs DEF IInv, Typed
<1>1. ASSUME NEW p \in Phases
      PROVE  /\ To(p) \in RequestType /\ To(p).phase = p /\ To(p).client = request[r].client
             /\ To(p).receiver = request[r].receiver /\ To(p).strong = request[r].strong
             /\ To(p).capacity = request[r].capacity
  BY <1>0 DEF RequestType
<1>2. CASE Finish(r)
  <2> PICK y \in RequestType : y = To("slot")
    BY <1>1, ZenonT(30) DEF Phases
  <2>1. /\ y.phase = "slot" /\ y.client = request[r].client /\ y.receiver = request[r].receiver
        /\ y.strong = request[r].strong /\ y.capacity = request[r].capacity
    BY <1>1, ZenonT(30) DEF Phases
  <2>2. /\ request[r].phase = "issuing" /\ request' = [request EXCEPT ![r] = y]
        /\ UNCHANGED <<used, clients, receivers>>
    BY <1>0, <1>2 DEF Finish, DropOrder
  <2> HIDE DEF To
  <2>3. Coherent(y)
    BY <1>0, <2>1, <2>2 DEF Coherent
  <2>4. \A c \in Objects : /\ HasPermit(y, c) <=> HasPermit(request[r], c)
                           /\ HasSlot(y, c) <=> HasSlot(request[r], c)
    BY <2>1, <2>2, ZenonT(30) DEF HasPermit, HasSlot
  <2>5. Tallies' /\ Balanced(r, y)
    BY <1>0, <2>1, <2>2, <2>4, TallySame
  <2> QED
    BY <2>1, <2>2, <2>3, <2>5, StepInPlace, Zenon
<1>3. CASE ReleaseSlot(r)
  <2> PICK y \in RequestType : y = To("permit")
    BY <1>1, ZenonT(30) DEF Phases
  <2>1. /\ y.phase = "permit" /\ y.client = request[r].client /\ y.receiver = request[r].receiver
        /\ y.strong = request[r].strong /\ y.capacity = request[r].capacity
    BY <1>1, ZenonT(30) DEF Phases
  <2>2. /\ request[r].phase = "slot" /\ request' = [request EXCEPT ![r] = y]
        /\ DropSlot(request[r].capacity, request[r].client) /\ UNCHANGED receivers
    BY <1>0, <1>3 DEF ReleaseSlot, DropOrder
  <2> HIDE DEF To
  <2> PICK d \in Generations : d = request[r].capacity
    BY <1>0, <2>2 DEF Coherent
  <2>3. Coherent(y)
    BY <1>0, <2>1, <2>2 DEF Coherent
  <2>4. \A c \in Objects : /\ HasPermit(y, c) <=> HasPermit(request[r], c)
                           /\ HasSlot(y, c) <=> HasSlot(request[r], c) /\ c # d
    BY <1>0, <2>1, <2>2, ZenonT(30) DEF HasPermit, HasSlot
  <2>5. HasSlot(request[r], d) /\ d \in Objects
    BY <1>0, <2>2 DEF HasSlot
  <2>6. Tallies' /\ Balanced(r, y)
    BY <1>0, <2>1, <2>2, <2>4, <2>5, TallySlot
  <2> QED
    BY <2>1, <2>2, <2>3, <2>6, StepInPlace, Zenon
<1>4. CASE ReleasePermit(r)
  <2> PICK y \in RequestType : y = To("reference")
    BY <1>1, ZenonT(30) DEF Phases
  <2>1. /\ y.phase = "reference" /\ y.client = request[r].client
        /\ y.receiver = request[r].receiver
        /\ y.strong = request[r].strong /\ y.capacity = request[r].capacity
    BY <1>1, ZenonT(30) DEF Phases
  <2>2. /\ request[r].phase = "permit" /\ request' = [request EXCEPT ![r] = y]
        /\ DropPermit(request[r].capacity) /\ UNCHANGED receivers
    BY <1>0, <1>4 DEF ReleasePermit, DropOrder
  <2> HIDE DEF To
  <2> PICK d \in Generations : d = request[r].capacity
    BY <1>0, <2>2 DEF Coherent
  <2>3. Coherent(y)
    BY <1>0, <2>1, <2>2 DEF Coherent
  <2>4. \A c \in Objects : /\ HasPermit(y, c) <=> HasPermit(request[r], c) /\ c # d
                           /\ HasSlot(y, c) <=> HasSlot(request[r], c)
    BY <1>0, <2>1, <2>2, ZenonT(30) DEF HasPermit, HasSlot
  <2>5. HasPermit(request[r], d) /\ d \in Objects
    BY <1>0, <2>2 DEF HasPermit
  <2>6. Tallies' /\ Balanced(r, y)
    BY <1>0, <2>1, <2>2, <2>4, <2>5, TallyPermit
  <2> QED
    BY <2>1, <2>2, <2>3, <2>6, StepInPlace, Zenon
<1>5. CASE ReleaseReference(r)
  <2> PICK y : y = unreferenced
    OBVIOUS
  <2>1. /\ y.phase = "global slot" /\ y.client = request[r].client
        /\ y.receiver = request[r].receiver /\ ~y.strong /\ y.capacity = request[r].capacity
        /\ y \in RequestType
    BY <1>0, ZenonT(30) DEF RequestType, Phases
  <2>2. /\ request[r].phase = "reference" /\ request' = [request EXCEPT ![r] = y]
        /\ UNCHANGED <<used, clients, receivers>>
    BY <1>0, <1>5, ZenonT(30) DEF ReleaseReference, DropOrder
  <2> HIDE DEF unreferenced
  <2>3. Coherent(y)
    BY <1>0, <2>1, <2>2, ZenonT(30) DEF Coherent
  <2>4. \A c \in Objects : /\ HasPermit(y, c) <=> HasPermit(request[r], c)
                           /\ HasSlot(y, c) <=> HasSlot(request[r], c)
    BY <2>1, <2>2, ZenonT(30) DEF HasPermit, HasSlot
  <2>5. Tallies' /\ Balanced(r, y)
    BY <1>0, <2>1, <2>2, <2>4, TallySame, ZenonT(30)
  <2> QED
    BY <2>1, <2>2, <2>3, <2>5, StepInPlace, ZenonT(30)
<1>6. CASE ReleaseGlobalSlot(r)
  <2> PICK y \in RequestType : y = To("global permit")
    BY <1>1, ZenonT(30) DEF Phases
  <2>1. /\ y.phase = "global permit" /\ y.client = request[r].client
        /\ y.receiver = request[r].receiver
        /\ y.strong = request[r].strong /\ y.capacity = request[r].capacity
    BY <1>1, ZenonT(30) DEF Phases
  <2>2. /\ request[r].phase = "global slot" /\ request' = [request EXCEPT ![r] = y]
        /\ DropSlot(Global, request[r].client) /\ UNCHANGED receivers
    BY <1>0, <1>6, ZenonT(30) DEF ReleaseGlobalSlot
  <2> HIDE DEF To
  <2>3. Coherent(y)
    BY <1>0, <2>1, <2>2, ZenonT(30) DEF Coherent
  <2>4. /\ \A c \in Objects : /\ HasPermit(y, c) <=> HasPermit(request[r], c)
                              /\ HasSlot(y, c) <=> HasSlot(request[r], c) /\ c # Global
        /\ HasSlot(request[r], Global)
    BY <1>0, <2>1, <2>2, ZenonT(30) DEF HasPermit, HasSlot
  <2>5. Tallies' /\ Balanced(r, y)
    BY <1>0, <2>1, <2>2, <2>4, TallySlot, ZenonT(30)
  <2> QED
    BY <2>1, <2>2, <2>3, <2>5, StepInPlace, ZenonT(30)
<1>7. CASE ReleaseGlobalPermit(r)
  <2> PICK y : y = Idle
    OBVIOUS
  <2>1. y.phase = "idle" /\ ~y.strong /\ y.capacity = None
    BY DEF Idle
  <2>2. y \in RequestType /\ Coherent(y)
    BY DEF RequestType, Phases, Idle, Coherent
  <2>3. /\ request[r].phase = "global permit" /\ request' = [request EXCEPT ![r] = y]
        /\ DropPermit(Global) /\ UNCHANGED receivers
    BY <1>7, ZenonT(30) DEF ReleaseGlobalPermit
  <2>4. /\ \A c \in Objects : /\ HasPermit(y, c) <=> HasPermit(request[r], c) /\ c # Global
                              /\ ~HasSlot(y, c) /\ ~HasSlot(request[r], c) /\ y.capacity # c
        /\ HasPermit(request[r], Global)
    BY <1>0, <2>1, <2>3, ZenonT(30) DEF HasPermit, HasSlot
  <2>5. Tallies' /\ Balanced(r, y)
    BY <1>0, <2>3, <2>4, TallyPermit, ZenonT(30)
  <2> QED
    BY <2>1, <2>2, <2>3, <2>5, StepInPlace, ZenonT(30)
<1> QED
  BY <1>2, <1>3, <1>4, <1>5, <1>6, <1>7 DEF Release

-----------------------------------------------------------------------------

\* Nothing is held at first, and nothing is counted.
LEMMA InitIInv == Init => IInv
<1> SUFFICES ASSUME Init PROVE IInv
  OBVIOUS
<1>1. \A r \in Requests : request[r] = Idle
  BY DEF Init
<1>2. Tallies
  <2>1. used \in [Objects -> Nat] /\ \A c \in Objects : used[c] <= Max(c)
    BY LimitsAre DEF Init
  <2>2. /\ clients \in [Objects -> [Clients -> Nat]]
        /\ \A c \in Objects, k \in Clients : clients[c][k] <= PerClient(c)
    BY LimitsAre DEF Init
  <2> QED
    BY <2>1, <2>2 DEF Tallies
<1>3. Idle \in RequestType /\ Coherent(Idle) /\ ~Idle.strong
  BY DEF RequestType, Phases, Idle, Coherent
<1>4. Typed
  BY <1>2, <1>3 DEF Typed, Init
<1>5. ASSUME NEW c PROVE PermitsOf(request, c) = {} /\ \A k : SlotsOf(request, c, k) = {}
  <2>0. \A r \in Requests : request[r].phase = "idle"
    BY <1>1 DEF Idle
  <2>1. ASSUME NEW r \in Requests PROVE ~HasPermit(request[r], c) /\ ~HasSlot(request[r], c)
    BY <2>0, ZenonT(30) DEF HasPermit, HasSlot
  <2> QED
    BY <2>1 DEF PermitsOf, SlotsOf
<1>6. PermitsExact
  <2>1. \A c \in Objects : used[c] = 0 /\ \A k \in Clients : clients[c][k] = 0
    BY DEF Init
  <2> QED
    BY <1>5, <2>1, HoldersAre, FS_EmptySet DEF PermitsExact
<1>7. IsFiniteSet(PermitsOf(request, Global))
  BY <1>5, FS_EmptySet
<1>8. Directory /\ \A r \in Requests : Coherent(request[r])
  BY <1>1, <1>3 DEF Directory
<1> QED
  BY <1>4, <1>6, <1>7, <1>8 DEF IInv

\* Every step of every request keeps the counters with the holders.
LEMMA NextIInv == IInv /\ [Next]_vars => IInv'
<1> SUFFICES ASSUME IInv, [Next]_vars PROVE IInv'
  OBVIOUS
<1>1. CASE Next
  BY <1>1, AcquireGlobalKeeps, AcquireReceiverKeeps, ReleaseKeeps DEF Next
<1>2. CASE UNCHANGED vars
  <2>1. /\ used' = used /\ clients' = clients /\ receivers' = receivers /\ request' = request
    BY <1>2 DEF vars
  <2>2. Typed' /\ Directory'
    BY <2>1 DEF IInv, Typed, Tallies, Directory, Max, PerClient
  <2>3. PermitsExact'
    <3> SUFFICES ASSUME NEW c \in Objects, c = Global \/ ~Unreachable(c)'
                 PROVE  /\ used'[c] = Cardinality(PermitHolders(c)')
                        /\ \A k \in Clients : clients'[c][k] = Cardinality(Of(k, SlotHolders(c))')
      BY DEF PermitsExact
    <3>1. /\ PermitHolders(c)' = PermitHolders(c)
          /\ Unreachable(c)' <=> Unreachable(c)
          /\ \A k : Of(k, SlotHolders(c))' = Of(k, SlotHolders(c))
      BY <2>1, HoldersAre DEF Unreachable
    <3>2. /\ used[c] = Cardinality(PermitHolders(c))
          /\ \A k \in Clients : clients[c][k] = Cardinality(Of(k, SlotHolders(c)))
      BY <3>1 DEF IInv, PermitsExact
    <3> QED
      BY <2>1, <3>1, <3>2, Zenon
  <2>5. (IsFiniteSet(PermitsOf(request, Global)))'
    BY <2>1 DEF IInv, PermitsOf, HasPermit
  <2>4. (\A r \in Requests : Coherent(request[r]))'
    BY <2>1, Zenon DEF IInv, Coherent, Idle
  <2> QED
    BY <2>2, <2>3, <2>4, <2>5 DEF IInv
<1> QED
  BY <1>1, <1>2

\* The endpoint's holders all hold of the one Capacity that the map names.
LEMMA InvBudget == IInv => EndpointBudget
<1> SUFFICES ASSUME IInv, NEW e \in Receivers
             PROVE  LET busy == {r \in ReceiverSlots : request[r].receiver = e}
                    IN /\ Cardinality(busy) <= ReceiverMax
                       /\ \A k \in Clients : Cardinality(Of(k, busy)) <= ReceiverPerClient
  BY DEF EndpointBudget
<1> DEFINE busy == {r \in ReceiverSlots : request[r].receiver = e}
           c == receivers[e]
<1>1. ASSUME NEW r \in busy
      PROVE  r \in Requests /\ request[r].capacity = c /\ c \in Generations
  <2>1. Coherent(request[r]) /\ request[r].strong /\ r \in Requests
    BY DEF IInv, Coherent, ReceiverSlots
  <2> QED
    BY <2>1 DEF IInv, Directory, Coherent
<1>2. CASE busy = {}
  <2>1. Cardinality(busy) = 0 /\ \A k : Cardinality(Of(k, busy)) = 0
    BY <1>2, FS_EmptySet, Zenon DEF Of
  <2> QED
    BY <2>1, IssuanceConstants
<1>3. CASE busy # {}
  <2>1. c \in Generations /\ c \in Objects /\ c # Global /\ ~Unreachable(c)
    BY <1>1, <1>3, IssuanceConstants DEF Objects, Unreachable
  <2>2. busy \subseteq PermitsOf(request, c)
    BY <1>1, <2>1 DEF PermitsOf, HasPermit, ReceiverSlots
  <2>3. \A k : Of(k, busy) \subseteq SlotsOf(request, c, k)
    BY <1>1, <2>1 DEF SlotsOf, HasSlot, ReceiverSlots, Of
  <2>4. IsFiniteSet(PermitsOf(request, c)) /\ \A k : IsFiniteSet(SlotsOf(request, c, k))
    BY HoldersFinite DEF IInv
  <2>5. /\ used[c] = Cardinality(PermitsOf(request, c))
        /\ \A k \in Clients : clients[c][k] = Cardinality(SlotsOf(request, c, k))
    BY <2>1, HoldersAre, ZenonT(30) DEF IInv, PermitsExact
  <2>6. /\ used[c] \in Nat /\ used[c] <= ReceiverMax
        /\ \A k \in Clients : clients[c][k] \in Nat /\ clients[c][k] <= ReceiverPerClient
    BY <2>1 DEF IInv, Typed, Tallies, Max, PerClient
  <2> HIDE DEF busy, c
  <2>7. Cardinality(busy) \in Nat /\ Cardinality(busy) <= used[c]
    <3>1. IsFiniteSet(busy) /\ Cardinality(busy) <= Cardinality(PermitsOf(request, c))
      BY <2>2, <2>4, FS_Subset
    <3> QED
      BY <2>5, <3>1, FS_CardinalityType
  <2>8. ASSUME NEW k \in Clients
        PROVE  Cardinality(Of(k, busy)) \in Nat /\ Cardinality(Of(k, busy)) <= clients[c][k]
    <3>1. /\ IsFiniteSet(Of(k, busy))
          /\ Cardinality(Of(k, busy)) <= Cardinality(SlotsOf(request, c, k))
      BY <2>3, <2>4, FS_Subset
    <3> QED
      BY <2>5, <3>1, FS_CardinalityType
  <2>9. Cardinality(busy) <= ReceiverMax
    BY <2>6, <2>7, IssuanceConstants
  <2>10. ASSUME NEW k \in Clients PROVE Cardinality(Of(k, busy)) <= ReceiverPerClient
    BY <2>6, <2>8, IssuanceConstants
  <2> QED
    BY <2>9, <2>10 DEF busy
<1> QED
  BY <1>2, <1>3

\* Exact counters are within the limits that the guards keep.
LEMMA InvType == IInv => TypeOK
<1> SUFFICES ASSUME IInv PROVE TypeOK
  OBVIOUS
<1>1. \A c \in Objects : Max(c) \in Nat /\ PerClient(c) \in Nat
  BY LimitsAre
<1>2. \A c \in Objects : used[c] \in 0 .. Max(c)
  BY <1>1 DEF IInv, Typed, Tallies
<1>3. \A c \in Objects, k \in Clients : clients[c][k] \in 0 .. PerClient(c)
  BY <1>1 DEF IInv, Typed, Tallies
<1> QED
  BY <1>2, <1>3, ZenonT(30) DEF IInv, Typed, RequestType, Phases, TypeOK

-----------------------------------------------------------------------------

\* For any number of requests, clients, receivers and objects, and any limits:
\* no counter of a Capacity underflows or passes its limit.
THEOREM CountersWithinLimits == Spec => []TypeOK
  BY InitIInv, NextIInv, InvType, PTL DEF Spec

\* Nothing leaks: at every step of every drop a Capacity in use counts the
\* permits and slots that are still out, so the debug_assert of the drop holds.
THEOREM PermitsNeverLeak == Spec => []PermitsExact
<1>1. IInv => PermitsExact
  BY DEF IInv
<1> QED
  BY <1>1, InitIInv, NextIInv, PTL DEF Spec

\* The weak references never give an endpoint a second budget: whatever was
\* dropped, retained or made anew in between, its slots stay within one
\* Capacity's limits.
THEOREM EndpointHasOneBudget == Spec => []EndpointBudget
  BY InitIInv, NextIInv, InvBudget, PTL DEF Spec

-----------------------------------------------------------------------------
(* The rate limiter keeps its bound and its promises for every limit, time  *)
(* unit, sweep period and number of clients.  The argument: a sweep is      *)
(* invisible (SweepInvisible), so what a client was admitted for in a       *)
(* window and what it could still spend never exceed burst plus refill.     *)

\* What the client could spend now: the refilled bucket, or a full one.
Spendable(c) == IF c \in buckets THEN refilled(c) ELSE capacity

\* Admissions of the window and what is left never pass burst plus refill.
Funded ==
  \A c \in ClientKeys :
    admitted[c] * TOKEN + Spendable(c) <= capacity + (now - since) * per_second

\* At the promised time the refill will have reached one token.
Promised ==
  \A c \in buckets : credit[c] + (promise[c] - updated[c]) * per_second >= TOKEN

RateInv == LimiterTypeOK /\ IsFiniteSet(buckets) /\ Funded /\ Promised

-----------------------------------------------------------------------------
(* Arithmetic.                                                              *)

\* The constants are positive, and a burst is worth at least one token.
LEMMA Constants ==
  /\ TOKEN \in Nat \ {0} /\ burst \in Nat \ {0} /\ per_second \in Nat \ {0}
  /\ IDLE \in Nat \ {0} /\ CLIENTS_PER_SHARD \in Nat \ {0} /\ MaxTime \in Nat
  /\ capacity \in Nat /\ capacity >= TOKEN
<1>1. TOKEN \in Nat \ {0} /\ burst \in Nat \ {0} /\ per_second \in Nat \ {0}
      /\ IDLE \in Nat \ {0} /\ CLIENTS_PER_SHARD \in Nat \ {0} /\ MaxTime \in Nat
  BY LimitConstants
<1>2. ASSUME NEW a \in Nat \ {0}, NEW b \in Nat \ {0}
      PROVE  a * b \in Nat /\ a * b >= b
  OBVIOUS
<1> QED
  BY <1>1, <1>2 DEF capacity

\* Multiplication by the rate distributes and is monotonic.
LEMMA Rate ==
  ASSUME NEW a \in Int, NEW b \in Int
  PROVE  /\ a * per_second \in Int
         /\ (a + b) * per_second = a * per_second + b * per_second
         /\ a <= b => a * per_second <= b * per_second
<1>1. ASSUME NEW r \in Nat
      PROVE  /\ a * r \in Int
             /\ (a + b) * r = a * r + b * r
             /\ a <= b => a * r <= b * r
  OBVIOUS
<1> QED
  BY <1>1, Constants

\* One unit of time refills the rate.
LEMMA RateStep ==
  ASSUME NEW t \in Int, NEW u \in Int
  PROVE  /\ (t - u) * per_second \in Int
         /\ ((t + 1) - u) * per_second = (t - u) * per_second + per_second
<1>1. ASSUME NEW r \in Nat
      PROVE  /\ (t - u) * r \in Int
             /\ ((t + 1) - u) * r = (t - u) * r + r
  OBVIOUS
<1> QED
  BY <1>1, Constants

\* The rounded-up wait refills what is missing.
LEMMA WaitEnough ==
  ASSUME NEW missing \in Nat
  PROVE  Wait(missing) \in Nat /\ Wait(missing) * per_second >= missing
<1>1. ASSUME NEW r \in Nat \ {0}
      PROVE  LET w == (missing + r - 1) \div r IN w \in Nat /\ w * r >= missing
  OBVIOUS
<1> QED
  BY <1>1, Constants DEF Wait

-----------------------------------------------------------------------------
(* Buckets.                                                                 *)

\* A refilled bucket holds at most the burst.
LEMMA RefilledType ==
  ASSUME LimiterTypeOK, NEW c \in ClientKeys
  PROVE  refilled(c) \in 0 .. capacity
<1>1. credit[c] \in 0 .. capacity /\ updated[c] \in 0 .. now /\ now \in Nat
  BY DEF LimiterTypeOK
<1>2. (now - updated[c]) * per_second \in Nat
  <2>1. now - updated[c] \in Nat
    BY <1>1
  <2>2. ASSUME NEW a \in Nat, NEW r \in Nat PROVE a * r \in Nat
    OBVIOUS
  <2> QED
    BY <2>1, <2>2, Constants
<1> QED
  BY <1>1, <1>2, Constants DEF refilled, Least

\* A sweep drops only buckets that are full again, so no client can tell.
LEMMA SweepInvisible ==
  ASSUME LimiterTypeOK, NEW c \in ClientKeys
  PROVE  /\ Available(c) = Spendable(c)
         /\ Available(c) \in 0 .. capacity
         /\ RetainedBuckets \subseteq buckets
         /\ c \in buckets \ RetainedBuckets => refilled(c) = capacity
<1>1. refilled(c) \in 0 .. capacity
  BY RefilledType
<1>2. c \in buckets \ RetainedBuckets => refilled(c) = capacity
  BY <1>1, Constants DEF RetainedBuckets
<1> QED
  BY <1>1, <1>2, Constants DEF Available, Spendable, RetainedBuckets

\* The bucket of a client that was just written holds what was written.
LEMMA WrittenBucket ==
  ASSUME LimiterTypeOK, NEW c \in ClientKeys, NEW x \in 0 .. capacity,
         now' = now, credit' = [credit EXCEPT ![c] = x],
         updated' = [updated EXCEPT ![c] = now],
         buckets' = RetainedBuckets \union {c}
  PROVE  /\ Spendable(c)' = x
         /\ \A d \in ClientKeys \ {c} : Spendable(d)' = Spendable(d)
<1>1. now \in Nat /\ credit \in [ClientKeys -> 0 .. capacity] /\ updated \in [ClientKeys -> 0 .. now]
  BY DEF LimiterTypeOK
<1>2. credit'[c] = x /\ updated'[c] = now /\ c \in buckets'
  BY <1>1
<1>3. (now - now) * per_second = 0
  BY <1>1, Constants
<1>4. refilled(c)' = x
  BY <1>1, <1>2, <1>3, Constants DEF refilled, Least, capacity
<1>5. Spendable(c)' = x
  BY <1>2, <1>4 DEF Spendable
<1>6. ASSUME NEW d \in ClientKeys \ {c}
      PROVE  Spendable(d)' = Spendable(d)
  <2>1. credit'[d] = credit[d] /\ updated'[d] = updated[d] /\ (d \in buckets' <=> d \in RetainedBuckets)
    BY <1>1
  <2>2. refilled(d)' = refilled(d)
    BY <2>1 DEF refilled, Least, capacity
  <2> QED
    BY <2>1, <2>2, SweepInvisible DEF Spendable, capacity
<1> QED
  BY <1>5, <1>6

-----------------------------------------------------------------------------
(* The invariant.                                                           *)

\* Initially nothing has been admitted or promised.
LEMMA Initially ==
  LimiterInit => RateInv
<1> SUFFICES ASSUME LimiterInit PROVE RateInv
  OBVIOUS
<1>1. IsFiniteSet(buckets) /\ Cardinality(buckets) = 0
  BY FS_EmptySet DEF LimiterInit
<1>2. LimiterTypeOK
  BY <1>1, Constants DEF LimiterInit, LimiterTypeOK, Never
<1>3. Funded
  <2> SUFFICES ASSUME NEW c \in ClientKeys
               PROVE  admitted[c] * TOKEN + Spendable(c) <= capacity + (now - since) * per_second
    BY DEF Funded
  <2>1. admitted[c] * TOKEN = 0 /\ (now - since) * per_second = 0 /\ Spendable(c) = capacity
    BY Constants DEF LimiterInit, Spendable
  <2> QED
    BY <2>1, Constants
<1>4. Promised
  BY DEF LimiterInit, Promised
<1> QED
  BY <1>1, <1>2, <1>3, <1>4 DEF RateInv

\* The shard's type survives every step.
LEMMA TypeStep ==
  RateInv /\ [LimiterNext]_limiter => LimiterTypeOK' /\ IsFiniteSet(buckets)'
<1> SUFFICES ASSUME RateInv, [LimiterNext]_limiter PROVE LimiterTypeOK' /\ IsFiniteSet(buckets)'
  OBVIOUS
<1>1. LimiterTypeOK /\ IsFiniteSet(buckets)
  BY DEF RateInv
<1>2. CASE Tick
  BY <1>1, <1>2, Constants DEF Tick, LimiterTypeOK, capacity
<1>3. CASE Observe
  BY <1>1, <1>3, Constants DEF Observe, LimiterTypeOK, capacity
<1>4. CASE UNCHANGED limiter
  BY <1>1, <1>4 DEF limiter, LimiterTypeOK, capacity
<1>5. ASSUME NEW c \in ClientKeys, Admit(c) \/ Refuse(c) \/ RefuseFull(c)
      PROVE  LimiterTypeOK' /\ IsFiniteSet(buckets)'
  <2>1. /\ IsFiniteSet(RetainedBuckets) /\ Cardinality(RetainedBuckets) <= CLIENTS_PER_SHARD
        /\ Cardinality(RetainedBuckets) \in Nat /\ RetainedBuckets \subseteq ClientKeys
    <3>1. RetainedBuckets \subseteq buckets
      BY <1>1, SweepInvisible
    <3>2. IsFiniteSet(RetainedBuckets) /\ Cardinality(RetainedBuckets) <= Cardinality(buckets)
      BY <1>1, <3>1, FS_Subset
    <3> QED
      BY <1>1, <3>1, <3>2, FS_CardinalityType, Constants DEF LimiterTypeOK
  <2>2. HasRoom(c) => /\ IsFiniteSet(RetainedBuckets \union {c})
                        /\ Cardinality(RetainedBuckets \union {c}) <= CLIENTS_PER_SHARD
    <3>1. /\ IsFiniteSet(RetainedBuckets \union {c})
          /\ Cardinality(RetainedBuckets \union {c}) =
               IF c \in RetainedBuckets THEN Cardinality(RetainedBuckets) ELSE Cardinality(RetainedBuckets) + 1
      <4> HIDE DEF RetainedBuckets
      <4> QED
        BY <2>1, FS_AddElement
    <3> QED
      BY <2>1, <3>1, Constants DEF HasRoom
  <2>3. Available(c) \in 0 .. capacity
    BY <1>1, SweepInvisible
  <2>4. Sweep => swept' \in 0 .. now
    BY <1>1 DEF Sweep, LimiterTypeOK
  <2>5. CASE Admit(c)
    BY <1>1, <2>1, <2>2, <2>3, <2>4, <2>5, Constants DEF Admit, LimiterTypeOK, capacity, Never
  <2>6. CASE Refuse(c)
    <3>1. now + Wait(TOKEN - Available(c)) \in Nat
      <4>1. TOKEN - Available(c) \in Nat
        BY <2>3, <2>6, Constants DEF Refuse
      <4> QED
        BY <1>1, <4>1, WaitEnough DEF LimiterTypeOK
    <3> QED
      BY <1>1, <2>1, <2>2, <2>3, <2>4, <2>6, <3>1, Constants DEF Refuse, LimiterTypeOK, capacity
  <2>7. CASE RefuseFull(c)
    BY <1>1, <2>1, <2>4, <2>7, Constants DEF RefuseFull, LimiterTypeOK, capacity
  <2> QED
    BY <1>5, <2>5, <2>6, <2>7
<1> QED
  BY <1>2, <1>3, <1>4, <1>5 DEF LimiterNext

\* Admissions stay funded.
LEMMA FundedStep ==
  RateInv /\ [LimiterNext]_limiter => Funded'
<1> SUFFICES ASSUME RateInv, [LimiterNext]_limiter, NEW d \in ClientKeys
             PROVE  (admitted[d] * TOKEN + Spendable(d) <= capacity + (now - since) * per_second)'
  BY DEF Funded, capacity
<1>1. LimiterTypeOK /\ capacity' = capacity
  BY DEF RateInv, capacity
<1>2. /\ admitted[d] \in Nat /\ now \in Nat /\ since \in 0 .. now /\ updated[d] \in 0 .. now
      /\ credit[d] \in 0 .. capacity /\ admitted \in [ClientKeys -> Nat]
  BY <1>1, Constants DEF LimiterTypeOK
<1>3. Spendable(d) \in 0 .. capacity
  BY <1>1, RefilledType, Constants DEF Spendable
<1>4. admitted[d] * TOKEN \in Nat /\ (now - since) * per_second \in Int
  <2>1. ASSUME NEW a \in Nat, NEW r \in Nat PROVE a * r \in Nat
    OBVIOUS
  <2>2. admitted[d] * TOKEN \in Nat
    BY <1>2, <2>1, Constants
  <2>3. now - since \in Int
    BY <1>2
  <2> QED
    BY <2>2, <2>3, Rate
<1>5. admitted[d] * TOKEN + Spendable(d) <= capacity + (now - since) * per_second
  BY DEF RateInv, Funded
<1>6. CASE Tick
  <2>1. now' = now + 1 /\ UNCHANGED <<buckets, credit, updated, since, admitted>>
    BY <1>6 DEF Tick
  <2>2. updated[d] \in Int /\ now \in Int /\ since \in Int
    BY <1>2
  <2>3. (now' - since) * per_second = (now - since) * per_second + per_second
    BY <2>1, <2>2, RateStep, ZenonT(30)
  <2>4. /\ (now' - updated[d]) * per_second = (now - updated[d]) * per_second + per_second
        /\ (now - updated[d]) * per_second \in Int
    BY <2>1, <2>2, RateStep, ZenonT(30)
  <2>5. refilled(d)' <= refilled(d) + per_second /\ refilled(d)' \in Int
    BY <1>1, <1>2, <2>1, <2>4, Constants DEF refilled, Least
  <2>6. Spendable(d)' <= Spendable(d) + per_second /\ Spendable(d)' \in Int
    BY <1>1, <2>1, <2>5, Constants DEF Spendable
  <2> QED
    BY <1>1, <1>3, <1>4, <1>5, <2>1, <2>3, <2>6, Constants
<1>7. CASE Observe
  <2>1. admitted'[d] * TOKEN = 0 /\ (now' - since') * per_second = 0
    BY <1>2, <1>7, Constants DEF Observe
  <2>2. Spendable(d)' = Spendable(d)
    BY <1>7 DEF Observe, Spendable, refilled, Least, capacity
  <2> QED
    BY <1>1, <1>3, <2>1, <2>2, Constants
<1>8. CASE UNCHANGED limiter
  BY <1>5, <1>8 DEF limiter, Spendable, refilled, Least, capacity
<1>9. ASSUME NEW c \in ClientKeys, Admit(c)
      PROVE  (admitted[d] * TOKEN + Spendable(d) <= capacity + (now - since) * per_second)'
  <2>1. Available(c) = Spendable(c) /\ Available(c) \in 0 .. capacity
    BY <1>1, SweepInvisible
  <2>2. Available(c) - TOKEN \in 0 .. capacity
    BY <1>9, <2>1, Constants DEF Admit
  <2>3. /\ Spendable(c)' = Available(c) - TOKEN
        /\ \A e \in ClientKeys \ {c} : Spendable(e)' = Spendable(e)
    BY <1>1, <1>9, <2>2, WrittenBucket, Zenon DEF Admit
  <2>4. now' = now /\ since' = since /\ admitted' = [admitted EXCEPT ![c] = @ + 1]
    BY <1>9 DEF Admit
  <2>5. CASE d = c
    <3>1. admitted'[d] * TOKEN = admitted[d] * TOKEN + TOKEN
      <4>1. ASSUME NEW a \in Nat, NEW t \in Nat PROVE (a + 1) * t = a * t + t
        OBVIOUS
      <4> QED
        BY <1>2, <2>4, <2>5, <4>1, Constants
    <3> QED
      BY <1>1, <1>3, <1>4, <1>5, <2>1, <2>3, <2>4, <2>5, <3>1, Constants
  <2>6. CASE d # c
    <3>1. admitted'[d] = admitted[d] /\ Spendable(d)' = Spendable(d)
      BY <1>2, <2>3, <2>4, <2>6
    <3> QED
      BY <1>1, <1>5, <2>4, <3>1
  <2> QED
    BY <2>5, <2>6
<1>10. ASSUME NEW c \in ClientKeys, Refuse(c)
       PROVE  (admitted[d] * TOKEN + Spendable(d) <= capacity + (now - since) * per_second)'
  <2>1. Available(c) = Spendable(c) /\ Available(c) \in 0 .. capacity
    BY <1>1, SweepInvisible
  <2>2. /\ Spendable(c)' = Available(c)
        /\ \A e \in ClientKeys \ {c} : Spendable(e)' = Spendable(e)
    BY <1>1, <1>10, <2>1, WrittenBucket, Zenon DEF Refuse
  <2> QED
    BY <1>1, <1>5, <1>10, <2>1, <2>2 DEF Refuse
<1>11. ASSUME NEW c \in ClientKeys, RefuseFull(c)
       PROVE  (admitted[d] * TOKEN + Spendable(d) <= capacity + (now - since) * per_second)'
  <2>1. refilled(d)' = refilled(d)
    BY <1>11 DEF RefuseFull, refilled, Least, capacity
  <2>2. Spendable(d)' = Spendable(d)
    BY <1>1, <1>11, <2>1, SweepInvisible DEF RefuseFull, Spendable
  <2> QED
    BY <1>1, <1>5, <1>11, <2>2 DEF RefuseFull
<1> QED
  BY <1>6, <1>7, <1>8, <1>9, <1>10, <1>11 DEF LimiterNext

\* Promises keep.
LEMMA PromisedStep ==
  RateInv /\ [LimiterNext]_limiter => Promised'
<1> SUFFICES ASSUME RateInv, [LimiterNext]_limiter, NEW d \in buckets'
             PROVE  credit'[d] + (promise'[d] - updated'[d]) * per_second >= TOKEN
  BY DEF Promised
<1>1. LimiterTypeOK /\ Promised
  BY DEF RateInv
<1>2. ASSUME d \in buckets, credit'[d] = credit[d], promise'[d] = promise[d],
             updated'[d] = updated[d]
      PROVE  credit'[d] + (promise'[d] - updated'[d]) * per_second >= TOKEN
  BY <1>1, <1>2 DEF Promised
<1>3. CASE Tick \/ Observe \/ UNCHANGED limiter
  BY <1>2, <1>3 DEF Tick, Observe, limiter
<1>4. ASSUME NEW c \in ClientKeys, Admit(c) \/ Refuse(c) \/ RefuseFull(c), d # c \/ RefuseFull(c)
      PROVE  credit'[d] + (promise'[d] - updated'[d]) * per_second >= TOKEN
  <2>1. d \in buckets
    BY <1>1, <1>4, SweepInvisible DEF Admit, Refuse, RefuseFull
  <2> QED
    BY <1>1, <1>2, <1>4, <2>1 DEF Admit, Refuse, RefuseFull, LimiterTypeOK
<1>5. ASSUME NEW c \in ClientKeys, Admit(c), d = c
      PROVE  credit'[d] + (promise'[d] - updated'[d]) * per_second >= TOKEN
  <2>1. /\ credit'[d] = Available(c) - TOKEN /\ promise'[d] = Never /\ updated'[d] = now
        /\ now \in 0 .. MaxTime /\ Available(c) >= TOKEN
    BY <1>1, <1>5 DEF Admit, LimiterTypeOK
  <2>2. Available(c) \in Int
    BY <1>1, SweepInvisible, Constants
  <2>3. (Never - now) * per_second >= TOKEN /\ (Never - now) * per_second \in Int
    <3>1. ASSUME NEW a \in Nat, NEW r \in Nat \ {0} PROVE a * r >= a /\ a * r \in Int
      OBVIOUS
    <3>2. Never - now \in Nat /\ Never - now >= TOKEN
      BY <2>1, Constants DEF Never
    <3> QED
      BY <3>1, <3>2, Constants
  <2> QED
    BY <2>1, <2>2, <2>3, Constants
<1>6. ASSUME NEW c \in ClientKeys, Refuse(c), d = c
      PROVE  credit'[d] + (promise'[d] - updated'[d]) * per_second >= TOKEN
  <2>1. /\ credit'[d] = Available(c) /\ updated'[d] = now /\ now \in Int
        /\ promise'[d] = now + Wait(TOKEN - Available(c)) /\ Available(c) < TOKEN
    BY <1>1, <1>6 DEF Refuse, LimiterTypeOK
  <2>2. Available(c) \in Nat
    BY <1>1, SweepInvisible, Constants
  <2>3. TOKEN - Available(c) \in Nat
    BY <2>1, <2>2, Constants
  <2>4. /\ Wait(TOKEN - Available(c)) \in Nat
        /\ Wait(TOKEN - Available(c)) * per_second >= TOKEN - Available(c)
    BY <2>3, WaitEnough
  <2>5. promise'[d] - updated'[d] = Wait(TOKEN - Available(c))
    BY <2>1, <2>4
  <2>6. Wait(TOKEN - Available(c)) * per_second \in Int
    BY <2>4, Rate
  <2> QED
    BY <2>1, <2>2, <2>4, <2>5, <2>6, Constants
<1> QED
  BY <1>3, <1>4, <1>5, <1>6 DEF LimiterNext

\* The invariant holds of every behaviour of the limiter.
THEOREM RateInvariant ==
  LimiterSpec => []RateInv
<1>1. RateInv /\ [LimiterNext]_limiter => RateInv'
  BY TypeStep, FundedStep, PromisedStep DEF RateInv
<1> QED
  BY Initially, <1>1, PTL DEF LimiterSpec

-----------------------------------------------------------------------------
(* What it shows.                                                           *)

\* Shards stay within their size and credit within the burst (Shard::check).
THEOREM RateTypes ==
  LimiterSpec => []LimiterTypeOK
<1>1. RateInv => LimiterTypeOK
  BY DEF RateInv
<1> QED
  BY RateInvariant, <1>1, PTL

\* No window admits a client more than its burst plus the refill of the
\* window (Shard::check), for every limit, sweep period and shard size.
THEOREM AllowanceHolds ==
  LimiterSpec => []AllowanceBound
<1>1. RateInv => AllowanceBound
  <2> SUFFICES ASSUME RateInv, NEW c \in ClientKeys
               PROVE  admitted[c] * TOKEN <= capacity + (now - since) * per_second
    BY DEF AllowanceBound
  <2>1. LimiterTypeOK /\ admitted[c] * TOKEN + Spendable(c) <= capacity + (now - since) * per_second
    BY DEF RateInv, Funded
  <2>2. Spendable(c) \in Nat
    BY <2>1, RefilledType, Constants DEF Spendable
  <2>3. admitted[c] \in Int /\ now - since \in Int
    BY <2>1 DEF LimiterTypeOK
  <2>4. admitted[c] * TOKEN \in Int /\ (now - since) * per_second \in Int
    <3>1. ASSUME NEW a \in Int, NEW r \in Nat PROVE a * r \in Int
      OBVIOUS
    <3> QED
      BY <2>3, <3>1, Constants
  <2> QED
    BY <2>1, <2>2, <2>4, Constants
<1> QED
  BY RateInvariant, <1>1, PTL

\* A client that waits out the returned duration is not refused for want of
\* credit (the rounding of Shard::check and the sweep never shorten it).
THEOREM PromiseHolds ==
  LimiterSpec => PromiseKept
<1>1. RateInv /\ [LimiterNext]_limiter => [\A c \in ClientKeys : Refuse(c) => now < promise[c]]_limiter
  <2> SUFFICES ASSUME RateInv, NEW c \in ClientKeys, Refuse(c), ~(now < promise[c])
               PROVE  FALSE
    OBVIOUS
  <2>1. LimiterTypeOK /\ Promised
    BY DEF RateInv
  <2>2. /\ now \in Nat /\ promise[c] \in Nat /\ updated[c] \in 0 .. now
        /\ credit[c] \in Nat /\ Available(c) < TOKEN
    BY <2>1, Constants DEF LimiterTypeOK, Refuse
  <2>3. c \in RetainedBuckets /\ c \in buckets /\ Available(c) = refilled(c)
    BY <2>1, <2>2, SweepInvisible, Constants DEF Available
  <2>4. credit[c] + (promise[c] - updated[c]) * per_second >= TOKEN
    BY <2>1, <2>3 DEF Promised
  <2>5. promise[c] - updated[c] \in Int /\ now - updated[c] \in Int
        /\ promise[c] - updated[c] <= now - updated[c]
    BY <2>2
  <2>6. /\ (promise[c] - updated[c]) * per_second <= (now - updated[c]) * per_second
        /\ (promise[c] - updated[c]) * per_second \in Int
        /\ (now - updated[c]) * per_second \in Int
    BY <2>5, Rate, Zenon
  <2>7. refilled(c) >= TOKEN
    BY <2>2, <2>4, <2>6, Constants DEF refilled, Least
  <2> QED
    BY <2>1, <2>2, <2>3, <2>7, RefilledType, Constants
<1> QED
  BY RateInvariant, <1>1, PTL DEF LimiterSpec, PromiseKept
===============================================================================
