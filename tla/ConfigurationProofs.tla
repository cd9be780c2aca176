------------------------- MODULE ConfigurationProofs -------------------------
(* What Config::parse and parse_directives make of blocks and directives, for *)
(* any number of them: their order is free, and each has an effect of its own.*)
EXTENDS Configuration, FiniteSetTheorems, TLAPS

-----------------------------------------------------------------------------
(* The order of what is written.                                            *)

\* A list in another order.
Reordered(list, p) == [i \in DOMAIN list |-> list[p[i]]]

\* Two finite sets that an exact correspondence pairs off have one size.
LEMMA PairedOff ==
  ASSUME NEW S, NEW T, IsFiniteSet(S), NEW f \in [S -> T],
         \A a, b \in S : f[a] = f[b] => a = b,
         \A t \in T : \E s \in S : f[s] = t
  PROVE  IsFiniteSet(T) /\ Cardinality(T) = Cardinality(S)
<1>1. f \in Injection(S, T) /\ f \in Surjection(S, T)
  BY DEF Injection, IsInjective, Surjection
<1> QED
  BY <1>1, FS_Surjection, Zenon

\* What a reordering does to the positions of a list.
LEMMA Positions ==
  ASSUME NEW list, NEW p \in Bijection(DOMAIN list, DOMAIN list)
  PROVE  /\ DOMAIN Reordered(list, p) = DOMAIN list
         /\ \A i \in DOMAIN list : p[i] \in DOMAIN list /\ Reordered(list, p)[i] = list[p[i]]
         /\ \A i, j \in DOMAIN list : p[i] = p[j] => i = j
         /\ \A j \in DOMAIN list : \E i \in DOMAIN list : p[i] = j
  BY DEF Reordered, Bijection, Injection, IsInjective, Surjection

\* The kinds of blocks, and what receivers and payouts say, move along.
LEMMA BlocksMove ==
  ASSUME NEW blocks, NEW p \in Bijection(DOMAIN blocks, DOMAIN blocks), NEW i \in DOMAIN blocks
  PROVE  /\ i \in ReceiverBlocks(Reordered(blocks, p)) <=> p[i] \in ReceiverBlocks(blocks)
         /\ i \in PayoutBlocks(Reordered(blocks, p)) <=> p[i] \in PayoutBlocks(blocks)
         /\ i \in SiteBlocks(Reordered(blocks, p)) <=> p[i] \in SiteBlocks(blocks)
         /\ ReceiverAt(Reordered(blocks, p), i) = ReceiverAt(blocks, p[i])
         /\ PayoutAt(Reordered(blocks, p), i) = PayoutAt(blocks, p[i])
<1> DEFINE c == Reordered(blocks, p)
<1>1. DOMAIN c = DOMAIN blocks /\ p[i] \in DOMAIN blocks /\ c[i] = blocks[p[i]]
  BY Positions
<1> HIDE DEF c
<1>2. /\ i \in ReceiverBlocks(c) <=> p[i] \in ReceiverBlocks(blocks)
      /\ i \in PayoutBlocks(c) <=> p[i] \in PayoutBlocks(blocks)
  BY <1>1 DEF ReceiverBlocks, PayoutBlocks
<1>3. i \in SiteBlocks(c) <=> p[i] \in SiteBlocks(blocks)
  BY <1>1, <1>2 DEF SiteBlocks
<1>4. ReceiverAt(c, i) = ReceiverAt(blocks, p[i]) /\ PayoutAt(c, i) = PayoutAt(blocks, p[i])
  BY <1>1, Zenon DEF ReceiverAt, PayoutAt
<1> QED
  BY <1>2, <1>3, <1>4, Zenon DEF c

\* Receivers are accepted or rejected wherever they stand.
LEMMA ReceiversInAnyOrder ==
  ASSUME NEW blocks, NEW p \in Bijection(DOMAIN blocks, DOMAIN blocks)
  PROVE  AcceptsReceivers(Reordered(blocks, p)) <=> AcceptsReceivers(blocks)
<1> DEFINE D == DOMAIN blocks
           c == Reordered(blocks, p)
           R == ReceiverBlocks(blocks)
           Q == ReceiverBlocks(c)
<1>1. /\ \A i \in D : p[i] \in D /\ c[i] = blocks[p[i]]
      /\ \A i, j \in D : p[i] = p[j] => i = j
      /\ \A j \in D : \E i \in D : p[i] = j
  BY Positions
<1>2. R \subseteq D /\ Q \subseteq D
  BY Positions DEF ReceiverBlocks
<1>3. \A i \in D : (i \in Q <=> p[i] \in R) /\ ReceiverAt(c, i) = ReceiverAt(blocks, p[i])
  BY BlocksMove
<1>4. AcceptsReceivers(c) <=> /\ \A i \in Q : ReceiverAt(c, i).ok
                              /\ \A i, j \in Q : c[i].name = c[j].name => i = j
  BY DEF AcceptsReceivers
<1>5. AcceptsReceivers(blocks) <=> /\ \A i \in R : ReceiverAt(blocks, i).ok
                                   /\ \A i, j \in R : blocks[i].name = blocks[j].name => i = j
  BY DEF AcceptsReceivers
<1> HIDE DEF D, c, R, Q
<1>6. (\A i \in Q : ReceiverAt(c, i).ok) <=> (\A i \in R : ReceiverAt(blocks, i).ok)
  BY <1>1, <1>2, <1>3
<1>7. ASSUME \A i, j \in R : blocks[i].name = blocks[j].name => i = j, NEW i \in Q, NEW j \in Q,
             c[i].name = c[j].name
      PROVE  i = j
  BY <1>1, <1>2, <1>3, <1>7
<1>8. ASSUME \A i, j \in Q : c[i].name = c[j].name => i = j, NEW i \in R, NEW j \in R,
             blocks[i].name = blocks[j].name
      PROVE  i = j
  <2>1. PICK a \in D, b \in D : p[a] = i /\ p[b] = j
    BY <1>1, <1>2
  <2>2. a \in Q /\ b \in Q /\ c[a].name = c[b].name
    BY <1>1, <1>3, <1>8, <2>1, Zenon
  <2> QED
    BY <1>8, <2>1, <2>2, Zenon
<1> QED
  BY <1>4, <1>5, <1>6, <1>7, <1>8, Zenon DEF c

\* Receivers with names of their own are found by them wherever they stand.
LEMMA KnownInAnyOrder ==
  ASSUME NEW blocks, NEW p \in Bijection(DOMAIN blocks, DOMAIN blocks), NEW i \in DOMAIN blocks,
         AcceptsReceivers(blocks)
  PROVE  Known(Reordered(blocks, p), i) = Known(blocks, p[i])
<1> DEFINE D == DOMAIN blocks
           c == Reordered(blocks, p)
           R == ReceiverBlocks(blocks)
           Q == ReceiverBlocks(c)
           N == {blocks[j].name : j \in R}
           M == {c[j].name : j \in Q}
           F(n) == ReceiverAt(c, CHOOSE j \in Q : c[j].name = n).fields
           G(n) == ReceiverAt(blocks, CHOOSE j \in R : blocks[j].name = n).fields
<1>1. /\ \A j \in D : p[j] \in D /\ c[j] = blocks[p[j]]
      /\ \A j \in D : \E k \in D : p[k] = j
  BY Positions, ZenonT(30)
<1>2. R \subseteq D /\ Q \subseteq D
  BY Positions DEF ReceiverBlocks
<1>3. \A j \in D : (j \in Q <=> p[j] \in R) /\ ReceiverAt(c, j) = ReceiverAt(blocks, p[j])
  BY BlocksMove
<1>4. \A j, k \in R : blocks[j].name = blocks[k].name => j = k
  BY DEF AcceptsReceivers
<1>5. Known(c, i) = [n \in M |-> F(n)] /\ Known(blocks, p[i]) = [n \in N |-> G(n)]
  BY DEF Known, Visible
<1> HIDE DEF D, c, R, Q
<1>6. M = N
  <2>1. ASSUME NEW j \in Q PROVE c[j].name \in N
    BY <1>1, <1>2, <1>3, Zenon
  <2>2. ASSUME NEW j \in R PROVE blocks[j].name \in M
    <3>1. PICK k \in D : p[k] = j
      BY <1>1, <1>2, Zenon
    <3>2. k \in Q /\ c[k].name = blocks[j].name
      BY <1>1, <1>3, <3>1, Zenon
    <3> QED
      BY <3>2, Zenon
  <2> QED
    BY <2>1, <2>2, Zenon
<1>7. ASSUME NEW n \in N PROVE F(n) = G(n)
  <2> DEFINE k == CHOOSE j \in Q : c[j].name = n
             l == CHOOSE j \in R : blocks[j].name = n
  <2>1. k \in Q /\ c[k].name = n
    <3>1. \E j \in Q : c[j].name = n
      BY <1>6, Zenon
    <3> QED
      BY <3>1, Zenon
  <2>2. l \in R /\ blocks[l].name = n
    <3>1. \E j \in R : blocks[j].name = n
      BY Zenon
    <3> QED
      BY <3>1, Zenon
  <2> HIDE DEF k, l
  <2>3. p[k] \in R /\ blocks[p[k]].name = n
    BY <1>1, <1>2, <1>3, <2>1, Zenon
  <2>4. p[k] = l
    BY <1>4, <2>2, <2>3, Zenon
  <2>5. ReceiverAt(c, k) = ReceiverAt(blocks, l)
    BY <1>2, <1>3, <2>1, <2>4, Zenon
  <2> QED
    BY <2>5, Zenon DEF k, l
<1>8. Known(c, i) = Known(blocks, p[i])
  <2> HIDE DEF M, N, F, G
  <2> QED
    BY <1>5, <1>6, <1>7
<1> QED
  BY <1>8, Zenon DEF c

\* A site is the same site wherever its block stands.
LEMMA SitesMove ==
  ASSUME NEW blocks, NEW p \in Bijection(DOMAIN blocks, DOMAIN blocks), NEW i \in DOMAIN blocks,
         AcceptsReceivers(blocks)
  PROVE  /\ Reordered(blocks, p)[i] = blocks[p[i]]
         /\ SiteAt(Reordered(blocks, p), i) = SiteAt(blocks, p[i])
<1> DEFINE c == Reordered(blocks, p)
<1>1. c[i] = blocks[p[i]] /\ Known(c, i) = Known(blocks, p[i])
  BY Positions, KnownInAnyOrder
<1> HIDE DEF c
<1>2. SiteAt(c, i) = SiteAt(blocks, p[i])
  BY <1>1, Zenon DEF SiteAt
<1> QED
  BY <1>1, <1>2, Zenon DEF c

\* So are sites, and accepted ones are the same, given acceptable receivers.
LEMMA SitesInAnyOrder ==
  ASSUME NEW blocks, NEW p \in Bijection(DOMAIN blocks, DOMAIN blocks), AcceptsReceivers(blocks)
  PROVE  /\ AcceptsSites(Reordered(blocks, p)) <=> AcceptsSites(blocks)
         /\ {SiteAt(Reordered(blocks, p), i) : i \in SiteBlocks(Reordered(blocks, p))}
              = {SiteAt(blocks, i) : i \in SiteBlocks(blocks)}
<1> DEFINE D == DOMAIN blocks
           c == Reordered(blocks, p)
           R == SiteBlocks(blocks)
           Q == SiteBlocks(c)
           Name(b) == Address[b.address].name
           Good(b, site) == Has(Address, b.address) /\ valid_domain(Address[b.address]) /\ site.ok
<1>1. /\ \A i \in D : p[i] \in D
      /\ \A i, j \in D : p[i] = p[j] => i = j
      /\ \A j \in D : \E i \in D : p[i] = j
  BY Positions
<1>2. R \subseteq D /\ Q \subseteq D
  BY Positions DEF SiteBlocks
<1>3. \A i \in D : /\ i \in Q <=> p[i] \in R
                  /\ c[i] = blocks[p[i]] /\ SiteAt(c, i) = SiteAt(blocks, p[i])
  BY BlocksMove, SitesMove
<1>4. AcceptsSites(c) <=> /\ \A i \in Q : Good(c[i], SiteAt(c, i))
                          /\ \A i, j \in Q : Name(c[i]) = Name(c[j]) => i = j
                          /\ Q # {}
  BY DEF AcceptsSites
<1>5. AcceptsSites(blocks) <=> /\ \A i \in R : Good(blocks[i], SiteAt(blocks, i))
                               /\ \A i, j \in R : Name(blocks[i]) = Name(blocks[j]) => i = j
                               /\ R # {}
  BY DEF AcceptsSites
<1> HIDE DEF D, c, R, Q, Good
<1>6. \A j \in R : \E i \in Q : p[i] = j
  BY <1>1, <1>2, <1>3
<1>7. \A i \in Q : p[i] \in R /\ c[i] = blocks[p[i]] /\ SiteAt(c, i) = SiteAt(blocks, p[i])
  BY <1>2, <1>3
<1>8. (\A i \in Q : Good(c[i], SiteAt(c, i))) <=> (\A i \in R : Good(blocks[i], SiteAt(blocks, i)))
  BY <1>6, <1>7, Zenon
<1>9. ASSUME \A i, j \in R : Name(blocks[i]) = Name(blocks[j]) => i = j,
             NEW i \in Q, NEW j \in Q, Name(c[i]) = Name(c[j])
      PROVE  i = j
  BY <1>1, <1>2, <1>7, <1>9
<1>10. ASSUME \A i, j \in Q : Name(c[i]) = Name(c[j]) => i = j,
              NEW i \in R, NEW j \in R,
              Name(blocks[i]) = Name(blocks[j])
       PROVE  i = j
  <2>1. PICK a \in Q, b \in Q : p[a] = i /\ p[b] = j
    BY <1>6
  <2>2. Name(c[a]) = Name(c[b])
    BY <1>7, <1>10, <2>1
  <2> QED
    BY <1>10, <2>1, <2>2, Zenon
<1>11. Q # {} <=> R # {}
  BY <1>6, <1>7
<1>12. AcceptsSites(c) <=> AcceptsSites(blocks)
  BY <1>4, <1>5, <1>8, <1>9, <1>10, <1>11, Zenon
<1>13. {SiteAt(c, i) : i \in Q} = {SiteAt(blocks, i) : i \in R}
  BY <1>6, <1>7
<1> QED
  BY <1>12, <1>13, Zenon DEF c, Q, R

\* So are payouts; their number does not change.
LEMMA PayoutsInAnyOrder ==
  ASSUME NEW blocks, NEW p \in Bijection(DOMAIN blocks, DOMAIN blocks), IsFiniteSet(DOMAIN blocks)
  PROVE  /\ AcceptsPayouts(Reordered(blocks, p)) <=> AcceptsPayouts(blocks)
         /\ {PayoutAt(Reordered(blocks, p), i) : i \in PayoutBlocks(Reordered(blocks, p))}
              = {PayoutAt(blocks, i) : i \in PayoutBlocks(blocks)}
<1> DEFINE D == DOMAIN blocks
           c == Reordered(blocks, p)
           R == PayoutBlocks(blocks)
           Q == PayoutBlocks(c)
           Mint(b, i) == PayoutAt(b, i).mint
<1>1. /\ \A i \in D : p[i] \in D
      /\ \A i, j \in D : p[i] = p[j] => i = j
      /\ \A j \in D : \E i \in D : p[i] = j
  BY Positions
<1>2. R \subseteq D /\ Q \subseteq D
  BY Positions DEF PayoutBlocks
<1>3. \A i \in D : (i \in Q <=> p[i] \in R) /\ PayoutAt(c, i) = PayoutAt(blocks, p[i])
  BY BlocksMove
<1>4. AcceptsPayouts(c) <=> /\ \A i \in Q : PayoutAt(c, i).ok
                            /\ \A i, j \in Q : Mint(c, i) = Mint(c, j) => i = j
                            /\ Cardinality(Q) <= MAX_PAYOUTS
  BY DEF AcceptsPayouts
<1>5. AcceptsPayouts(blocks) <=> /\ \A i \in R : PayoutAt(blocks, i).ok
                                 /\ \A i, j \in R : Mint(blocks, i) = Mint(blocks, j) => i = j
                                 /\ Cardinality(R) <= MAX_PAYOUTS
  BY DEF AcceptsPayouts
<1>6. IsFiniteSet(Q)
  BY <1>2, FS_Subset, Zenon
<1> HIDE DEF D, c, R, Q
<1>7. \A j \in R : \E i \in Q : p[i] = j
  BY <1>1, <1>2, <1>3
<1>8. \A i \in Q : p[i] \in R /\ PayoutAt(c, i) = PayoutAt(blocks, p[i])
  BY <1>2, <1>3
<1>9. (\A i \in Q : PayoutAt(c, i).ok) <=> (\A i \in R : PayoutAt(blocks, i).ok)
  BY <1>7, <1>8
<1>10. ASSUME \A i, j \in R : Mint(blocks, i) = Mint(blocks, j) => i = j,
              NEW i \in Q, NEW j \in Q, Mint(c, i) = Mint(c, j)
       PROVE  i = j
  BY <1>1, <1>2, <1>8, <1>10
<1>11. ASSUME \A i, j \in Q : Mint(c, i) = Mint(c, j) => i = j,
              NEW i \in R, NEW j \in R, Mint(blocks, i) = Mint(blocks, j)
       PROVE  i = j
  <2>1. PICK a \in Q, b \in Q : p[a] = i /\ p[b] = j
    BY <1>7
  <2>2. Mint(c, a) = Mint(c, b)
    BY <1>8, <1>11, <2>1
  <2> QED
    BY <1>11, <2>1, <2>2, Zenon
<1>12. Cardinality(R) = Cardinality(Q)
  <2> DEFINE f == [i \in Q |-> p[i]]
  <2>1. f \in [Q -> R]
    BY <1>8
  <2>2. \A i, j \in Q : f[i] = f[j] => i = j
    BY <1>1, <1>2
  <2>3. \A j \in R : \E i \in Q : f[i] = j
    BY <1>7
  <2> HIDE DEF f
  <2> QED
    BY <1>6, <2>1, <2>2, <2>3, PairedOff
<1> HIDE DEF Mint
<1>13. AcceptsPayouts(c) <=> AcceptsPayouts(blocks)
  BY <1>4, <1>5, <1>9, <1>10, <1>11, <1>12, Zenon
<1>14. {PayoutAt(c, i) : i \in Q} = {PayoutAt(blocks, i) : i \in R}
  BY <1>7, <1>8
<1> QED
  BY <1>13, <1>14, Zenon DEF c, Q, R

\* The order of the blocks of a file does not matter, whatever blocks there
\* are and however they are rearranged: Config::parse gives the same
\* configuration, or rejects both files.  In particular a site may stand
\* above the receiver it names.
THEOREM BlocksInAnyOrder ==
  ASSUME NEW B, NEW blocks \in Seq(B), NEW p \in Bijection(DOMAIN blocks, DOMAIN blocks)
  PROVE  ConfigOf(Reordered(blocks, p)) = ConfigOf(blocks)
<1> DEFINE c == Reordered(blocks, p)
           SitesOf(b) == {SiteAt(b, i) : i \in SiteBlocks(b)}
           PayoutsOf(b) == {PayoutAt(b, i) : i \in PayoutBlocks(b)}
           Whole(b) == \A i \in DOMAIN b : b[i].ok
<1>1. IsFiniteSet(DOMAIN blocks)
  BY FS_Interval
<1>2. AcceptsReceivers(c) <=> AcceptsReceivers(blocks)
  BY ReceiversInAnyOrder, Zenon
<1>3. Whole(c) <=> Whole(blocks)
  <2>1. /\ DOMAIN c = DOMAIN blocks
        /\ \A i \in DOMAIN blocks : p[i] \in DOMAIN blocks /\ c[i] = blocks[p[i]]
        /\ \A j \in DOMAIN blocks : \E i \in DOMAIN blocks : p[i] = j
    BY Positions, Zenon
  <2> HIDE DEF c
  <2>2. ASSUME Whole(blocks), NEW i \in DOMAIN blocks PROVE c[i].ok
    BY <2>1, <2>2, Zenon
  <2>3. ASSUME Whole(c), NEW j \in DOMAIN blocks PROVE blocks[j].ok
    <3>1. PICK i \in DOMAIN blocks : p[i] = j
      BY <2>1, Zenon
    <3>2. c[i].ok /\ c[i] = blocks[j]
      BY <2>1, <2>3, <3>1, Zenon
    <3> QED
      BY <3>2, Zenon
  <2> QED
    BY <2>1, <2>2, <2>3, Zenon
<1>4. (AcceptsPayouts(c) <=> AcceptsPayouts(blocks)) /\ PayoutsOf(c) = PayoutsOf(blocks)
  BY <1>1, PayoutsInAnyOrder, ZenonT(30)
<1>5. AcceptsReceivers(blocks) =>
        (AcceptsSites(c) <=> AcceptsSites(blocks)) /\ SitesOf(c) = SitesOf(blocks)
  BY SitesInAnyOrder, ZenonT(30)
<1>6. \A b : ConfigOf(b) =
        IF Whole(b) /\ AcceptsReceivers(b) /\ AcceptsPayouts(b) /\ AcceptsSites(b)
        THEN [ok |-> TRUE, sites |-> SitesOf(b), payouts |-> PayoutsOf(b)]
        ELSE Rejected
  BY Zenon DEF ConfigOf
<1> HIDE DEF c, SitesOf, PayoutsOf, Whole
<1>7. ConfigOf(c) = ConfigOf(blocks)
  BY <1>2, <1>4, <1>5, <1>6, <1>3, Zenon
<1> QED
  BY <1>7, Zenon DEF c

\* What each slot is filled with, when none is filled twice.
LEMMA SlotsInAnyOrder ==
  ASSUME NEW args, NEW p \in Bijection(DOMAIN args, DOMAIN args)
  PROVE  /\ Slots(Reordered(args, p)) = Slots(args)
         /\ GivenOnce(Reordered(args, p)) <=> GivenOnce(args)
         /\ (\A i \in DOMAIN args : Accepts(args[i]))
              <=> \A i \in DOMAIN args : Accepts(Reordered(args, p)[i])
         /\ GivenOnce(args) =>
              \A slot \in Slots(args) : ArgsOf(Reordered(args, p), slot) = ArgsOf(args, slot)
<1> DEFINE D == DOMAIN args
           c == Reordered(args, p)
<1>1. DOMAIN c = D
  BY Positions
<1>2. /\ \A i \in D : p[i] \in D /\ c[i] = args[p[i]]
      /\ \A i, j \in D : p[i] = p[j] => i = j
      /\ \A j \in D : \E i \in D : p[i] = j
  BY Positions
<1>3. /\ Slots(c) = {SlotOf(c[i]) : i \in D} /\ Slots(args) = {SlotOf(args[i]) : i \in D}
      /\ GivenOnce(c) <=> \A i, j \in D : SlotOf(c[i]) = SlotOf(c[j]) => i = j
      /\ GivenOnce(args) <=> \A i, j \in D : SlotOf(args[i]) = SlotOf(args[j]) => i = j
  BY <1>1, Zenon DEF Slots, GivenOnce
<1> HIDE DEF c, D
<1>4. Slots(c) = Slots(args)
  BY <1>2, <1>3
<1>5. GivenOnce(c) <=> GivenOnce(args)
  <2>1. ASSUME GivenOnce(args), NEW i \in D, NEW j \in D, SlotOf(c[i]) = SlotOf(c[j])
        PROVE  i = j
    <3>1. p[i] \in D /\ p[j] \in D /\ SlotOf(args[p[i]]) = SlotOf(args[p[j]])
      BY <1>2, <2>1
    <3>2. p[i] = p[j]
      BY <1>3, <2>1, <3>1, Zenon
    <3> QED
      BY <1>2, <3>2, Zenon
  <2>2. ASSUME GivenOnce(c), NEW i \in D, NEW j \in D, SlotOf(args[i]) = SlotOf(args[j])
        PROVE  i = j
    <3>1. PICK a \in D, b \in D : p[a] = i /\ p[b] = j
      BY <1>2
    <3>2. SlotOf(c[a]) = SlotOf(c[b])
      BY <1>2, <2>2, <3>1, Zenon
    <3> QED
      BY <1>3, <2>2, <3>1, <3>2, Zenon
  <2> QED
    BY <1>3, <2>1, <2>2, Zenon
<1>6. (\A i \in D : Accepts(args[i])) <=> \A i \in D : Accepts(c[i])
  BY <1>2
<1>7. ASSUME GivenOnce(args), NEW slot \in Slots(args) PROVE ArgsOf(c, slot) = ArgsOf(args, slot)
  <2> DEFINE k == CHOOSE i \in D : SlotOf(c[i]) = slot
             l == CHOOSE i \in D : SlotOf(args[i]) = slot
  <2>1. k \in D /\ SlotOf(c[k]) = slot
    <3>1. \E i \in D : SlotOf(c[i]) = slot
      BY <1>3, <1>4
    <3> QED
      BY <3>1, Zenon
  <2>2. l \in D /\ SlotOf(args[l]) = slot
    <3>1. \E i \in D : SlotOf(args[i]) = slot
      BY <1>3
    <3> QED
      BY <3>1, Zenon
  <2>3. ArgsOf(c, slot) = c[k] /\ ArgsOf(args, slot) = args[l]
    BY <1>1, Zenon DEF ArgsOf, D
  <2> HIDE DEF k, l
  <2>4. p[k] \in D /\ c[k] = args[p[k]]
    BY <1>2, <2>1, Zenon
  <2>5. p[k] = l
    BY <1>3, <1>7, <2>1, <2>2, <2>4, Zenon
  <2> QED
    BY <2>3, <2>4, <2>5, Zenon
<1> QED
  BY <1>4, <1>5, <1>6, <1>7, Zenon DEF c, D

\* Nor does the order of the directives of a site: parse_directives makes the
\* same site of them, or rejects them, in any order.
THEOREM DirectivesInAnyOrder ==
  ASSUME NEW args, NEW p \in Bijection(DOMAIN args, DOMAIN args), NEW receivers, NEW site
  PROVE  SiteOf(Reordered(args, p), receivers, site) = SiteOf(args, receivers, site)
<1> DEFINE c == Reordered(args, p)
<1>1. /\ Slots(c) = Slots(args)
      /\ GivenOnce(c) <=> GivenOnce(args)
      /\ (\A i \in DOMAIN args : Accepts(args[i])) <=> \A i \in DOMAIN c : Accepts(c[i])
      /\ GivenOnce(args) => \A slot \in Slots(args) : ArgsOf(c, slot) = ArgsOf(args, slot)
  BY SlotsInAnyOrder, Positions, ZenonT(30)
<1> HIDE DEF c
<1>2. CASE ~GivenOnce(args)
  BY <1>1, <1>2, Zenon DEF SiteOf, AcceptsSite, c
<1>3. CASE GivenOnce(args)
  <2>1. Given(c) = Given(args)
    BY <1>1, <1>3 DEF Given
  <2>2. AcceptsSite(c, receivers, site) <=> AcceptsSite(args, receivers, site)
    BY <1>1, <2>1, Zenon DEF AcceptsSite
  <2>3. AcceptsSite(args, receivers, site) => ArgsOf(c, "handler") = ArgsOf(args, "handler")
    BY <1>1, <1>3, Zenon DEF AcceptsSite
  <2> QED
    BY <1>1, <2>1, <2>2, <2>3, Zenon DEF SiteOf, c
<1> QED
  BY <1>2, <1>3

-----------------------------------------------------------------------------
(* Nothing is dropped.                                                      *)

\* An accepted site has the name of its address.
LEMMA SiteNamed ==
  ASSUME NEW blocks, NEW i, SiteAt(blocks, i).ok
  PROVE  SiteAt(blocks, i).name = Address[blocks[i].address].name
  BY DEF SiteAt, parse_directives, SiteOf, Rejected

\* Every directive of an accepted site has taken effect: one is the handler,
\* each of the others is a setting, and no later one has replaced an earlier
\* (parse_directives).
THEOREM DirectivesTakeEffect ==
  ASSUME NEW A, NEW args \in Seq(A), NEW receivers, NEW site,
         SiteOf(args, receivers, site).ok
  PROVE  1 + Cardinality(DOMAIN SiteOf(args, receivers, site).settings) = Len(args)
<1> DEFINE D == DOMAIN args
           f == [i \in D |-> SlotOf(args[i])]
<1>1. AcceptsSite(args, receivers, site)
  BY DEF SiteOf, Rejected
<1>2. DOMAIN SiteOf(args, receivers, site).settings = Slots(args) \ {"handler"}
  BY <1>1 DEF SiteOf
<1>3. IsFiniteSet(D) /\ Cardinality(D) = Len(args) /\ Len(args) \in Nat
  <2>1. D = 1 .. Len(args) /\ Len(args) \in Nat
    OBVIOUS
  <2> QED
    BY <2>1, FS_Interval
<1>4. f \in [D -> Slots(args)]
  BY DEF Slots
<1>5. \A i, j \in D : f[i] = f[j] => i = j
  BY <1>1 DEF AcceptsSite, GivenOnce
<1>6. \A slot \in Slots(args) : \E i \in D : f[i] = slot
  BY DEF Slots
<1> HIDE DEF D, f
<1>7. IsFiniteSet(Slots(args)) /\ Cardinality(Slots(args)) = Len(args)
  BY <1>3, <1>4, <1>5, <1>6, PairedOff
<1>8. Cardinality(Slots(args) \ {"handler"}) = Cardinality(Slots(args)) - 1
  BY <1>1, <1>7, FS_RemoveElement, ZenonT(30) DEF AcceptsSite
<1> QED
  BY <1>2, <1>3, <1>7, <1>8

\* So has every block of an accepted file: there are as many sites, payouts
\* and names of receivers as blocks, so that none has replaced another in the
\* maps that Config::parse collects them in.
THEOREM BlocksTakeEffect ==
  ASSUME NEW B, NEW blocks \in Seq(B), ConfigOf(blocks).ok
  PROVE  Cardinality(ConfigOf(blocks).sites) + Cardinality(ConfigOf(blocks).payouts)
           + Cardinality({blocks[i].name : i \in ReceiverBlocks(blocks)}) = Len(blocks)
<1> DEFINE D == DOMAIN blocks
           R == ReceiverBlocks(blocks)
           P == PayoutBlocks(blocks)
           S == SiteBlocks(blocks)
           sites == {SiteAt(blocks, i) : i \in S}
           payouts == {PayoutAt(blocks, i) : i \in P}
           names == {blocks[i].name : i \in R}
<1>1. AcceptsReceivers(blocks) /\ AcceptsPayouts(blocks) /\ AcceptsSites(blocks)
  BY DEF ConfigOf, Rejected
<1>2. ConfigOf(blocks).sites = sites /\ ConfigOf(blocks).payouts = payouts
  BY DEF ConfigOf, Rejected
<1>3. IsFiniteSet(D) /\ Cardinality(D) = Len(blocks) /\ Len(blocks) \in Nat
  <2>1. D = 1 .. Len(blocks) /\ Len(blocks) \in Nat
    OBVIOUS
  <2> QED
    BY <2>1, FS_Interval
<1>4. /\ R \subseteq D /\ P \subseteq D /\ S \subseteq D
      /\ R \cap P = {} /\ (R \cup P) \cap S = {} /\ (R \cup P) \cup S = D
  BY ZenonT(30) DEF ReceiverBlocks, PayoutBlocks, SiteBlocks
<1>5. \A i, j \in S : SiteAt(blocks, i) = SiteAt(blocks, j) => i = j
  BY <1>1, SiteNamed DEF AcceptsSites
<1>6. \A i, j \in P : PayoutAt(blocks, i) = PayoutAt(blocks, j) => i = j
  BY <1>1 DEF AcceptsPayouts
<1>7. \A i, j \in R : blocks[i].name = blocks[j].name => i = j
  BY <1>1 DEF AcceptsReceivers
<1>8. IsFiniteSet(R) /\ IsFiniteSet(P) /\ IsFiniteSet(S)
  BY <1>3, <1>4, FS_Subset, Zenon
<1> HIDE DEF D, R, P, S
<1>9. Cardinality(sites) = Cardinality(S)
  <2> DEFINE f == [i \in S |-> SiteAt(blocks, i)]
  <2>1. f \in [S -> sites] /\ \A t \in sites : \E i \in S : f[i] = t
    OBVIOUS
  <2>2. \A i, j \in S : f[i] = f[j] => i = j
    BY <1>5
  <2> HIDE DEF f, sites
  <2> QED
    BY <1>8, <2>1, <2>2, PairedOff, ZenonT(30)
<1>10. Cardinality(payouts) = Cardinality(P)
  <2> DEFINE f == [i \in P |-> PayoutAt(blocks, i)]
  <2>1. f \in [P -> payouts] /\ \A t \in payouts : \E i \in P : f[i] = t
    OBVIOUS
  <2>2. \A i, j \in P : f[i] = f[j] => i = j
    BY <1>6
  <2> HIDE DEF f, payouts
  <2> QED
    BY <1>8, <2>1, <2>2, PairedOff, ZenonT(30)
<1>11. Cardinality(names) = Cardinality(R)
  <2> DEFINE f == [i \in R |-> blocks[i].name]
  <2>1. f \in [R -> names] /\ \A t \in names : \E i \in R : f[i] = t
    OBVIOUS
  <2>2. \A i, j \in R : f[i] = f[j] => i = j
    BY <1>7
  <2> HIDE DEF f, names
  <2> QED
    BY <1>8, <2>1, <2>2, PairedOff, ZenonT(30)
<1>12. /\ Cardinality(D) = Cardinality(R) + Cardinality(P) + Cardinality(S)
       /\ {Cardinality(R), Cardinality(P), Cardinality(S)} \subseteq Nat
  <2>1. /\ Cardinality(R) \in Nat /\ Cardinality(P) \in Nat /\ Cardinality(S) \in Nat
        /\ Cardinality({}) = 0
    BY <1>8, FS_CardinalityType, FS_EmptySet, Zenon
  <2> DEFINE U == R \cup P
             V == U \cup S
  <2>2. /\ IsFiniteSet(U)
        /\ Cardinality(U) = Cardinality(R) + Cardinality(P) - Cardinality(R \cap P)
    BY <1>8, FS_Union, Zenon
  <2>3. Cardinality(U) \in Nat /\ Cardinality(R \cap P) = 0 /\ Cardinality(U \cap S) = 0
    BY <1>4, <2>1, <2>2, FS_CardinalityType, Zenon
  <2>4. Cardinality(V) = Cardinality(U) + Cardinality(S) - Cardinality(U \cap S)
    BY <1>8, <2>2, FS_Union, Zenon
  <2>5. V = D
    BY <1>4, Zenon
  <2> HIDE DEF U, V
  <2> QED
    BY <2>1, <2>2, <2>3, <2>4, <2>5
<1> QED
  BY <1>2, <1>3, <1>9, <1>10, <1>11, <1>12 DEF R
=============================================================================
