------------------------------ MODULE GateProofs ------------------------------
(***************************************************************************)
(* What a request is served for, for any sites, clients, requests, tokens  *)
(* and reloads.  The argument follows one request through its phases: Good *)
(* says what each phase has established under the snapshot of the request. *)
(* Nothing another request or a reload does can undo it, since versions,   *)
(* sales, passes and spent credentials only grow; and two requests never   *)
(* hold one credential, since each credential held is spent already when   *)
(* the next one is consumed.                                               *)
(***************************************************************************)
EXTENDS Gate, FiniteSetTheorems, TLAPS

Credentials == Tokens \union Invoices

RequestType ==
  [phase : Phases, shape : Shapes \union {None}, credential : Credentials \union {None, Junk},
   version : Nat, permit : BOOLEAN, headers : SUBSET Methods,
   paid : Credentials \union {None}, free : BOOLEAN, bytes : Nat, index : Nat,
   reached : SUBSET Nat, upstream : SUBSET Methods, replays : Nat]

Installed ==
  [site : Sites \union {NoSite}, payment_verification : Nat, capacity : Nat, rate_limit : Nat]

\* The terms that some site may ask of some request.
Terms ==
  {Requirements(site.lightning, RequestHash(site.lightning, shape)) :
     site \in Sites, shape \in Shapes}

PassesType == [Limiters -> [Versions -> [Clients -> Nat]]]

Typed ==
  /\ config \in Seq(Installed) /\ Len(config) \in Versions
  /\ request \in [Requests -> RequestType]
  /\ passes \in PassesType
  /\ sold \in Seq(Terms) /\ Len(sold) <= MaxSales
  /\ spent \subseteq Credentials

\* A request in flight was routed by a version that has the site.
Routed(r) ==
  /\ request[r].version \in 1 .. Len(config)
  /\ Site(r) \in Sites
  /\ Shape(r) \in Shapes
  /\ request[r].index \in 1 .. Backends
  /\ ~TooLong(Site(r), request[r].bytes)

\* Its credential is spent and good for its snapshot.
Covered(r) ==
  /\ request[r].paid \in spent
  /\ \/ request[r].paid \in Tokens /\ Worth[request[r].paid] >= Site(r).cashu
     \/ /\ request[r].paid \in 1 .. Len(sold)
        /\ sold[request[r].paid] = TermsOf(r)

Free(r) ==
  /\ request[r].free
  /\ passes["rate_limit"][request[r].version][Shape(r).client] > 0

Taken(r) == {m \in Methods : Offers(Site(r), m) /\ Shape(r)[m] > 0}

\* A body that a payment is bound to was buffered within its limit.
Bound(r) == request[r].paid \in Tokens \union {None} \/ ~TooLong(Site(r), Shape(r).length)

\* What the phases of a request have established.
Good(r) ==
  /\ request[r].paid # None => request[r].paid \in spent
  /\ request[r].phase = "idle" => request[r] = Idle
  /\ request[r].phase # "idle" =>
       /\ Routed(r)
       /\ request[r].phase \in AtHandler /\ Priced(Site(r)) => Free(r) \/ Covered(r)
       /\ request[r].phase \in {"settling", "collecting"} \/ request[r].paid # None =>
            \E m \in Methods : Taken(r) = {m}
       /\ \A m \in request[r].upstream : ~Offers(Site(r), m)
       /\ request[r].phase \notin AtHandler => request[r].paid = None
       /\ Bound(r)
  /\ request[r].replays = 0 =>
       /\ request[r].phase = "streamed" \/ request[r].bytes = 0
       /\ request[r].phase \in {"sent", "streamed"} \/ request[r].reached = {}
       /\ \E i \in Nat : request[r].reached \subseteq {i}

\* No credential is held twice.
Alone ==
  \A r, q \in Requests :
    r # q /\ request[r].paid # None => request[r].paid # request[q].paid

IInv == Typed /\ Alone /\ \A r \in Requests : Good(r)

\* Nothing that requests rely on is taken back.
Grows ==
  /\ Len(config) <= Len(config') /\ \A v \in 1 .. Len(config) : config'[v] = config[v]
  /\ Len(sold) <= Len(sold') /\ \A i \in 1 .. Len(sold) : sold'[i] = sold[i]
  /\ spent \subseteq spent'
  /\ \A v \in Versions, c \in Clients :
       passes'["rate_limit"][v][c] >= passes["rate_limit"][v][c]

\* A limiter counts naturals.
LEMMA Counts ==
  ASSUME NEW p \in PassesType, NEW l \in Limiters, NEW v \in Versions, NEW c \in Clients
  PROVE  p[l][v][c] \in Nat
<1>1. p[l] \in [Versions -> [Clients -> Nat]]
  BY DEF PassesType
<1>2. p[l][v] \in [Clients -> Nat]
  BY <1>1
<1> QED
  BY <1>2

OneMore(p, l, v, c) == [p EXCEPT ![l][v][c] = @ + 1]

\* One more pass is a pass more, and nothing else.
LEMMA Counted ==
  ASSUME NEW p \in PassesType, NEW l \in Limiters, NEW v \in Versions, NEW c \in Clients,
         NEW p1, p1 = OneMore(p, l, v, c)
  PROVE  /\ p1 \in PassesType
         /\ p1[l][v][c] = p[l][v][c] + 1
         /\ \A m \in Limiters, w \in Versions, d \in Clients :
              m # l \/ w # v \/ d # c => p1[m][w][d] = p[m][w][d]
         /\ \A m \in Limiters, w \in Versions, d \in Clients : p1[m][w][d] >= p[m][w][d]
<1>1. /\ p[l] \in [Versions -> [Clients -> Nat]]
      /\ p[l][v] \in [Clients -> Nat]
      /\ p[l][v][c] \in Nat
  BY Counts DEF PassesType
<1> DEFINE at == [p[l][v] EXCEPT ![c] = p[l][v][c] + 1]
           of == [p[l] EXCEPT ![v] = at]
<1>2. at \in [Clients -> Nat] /\ at[c] = p[l][v][c] + 1
  BY <1>1
<1>3. \A d \in Clients : d # c => at[d] = p[l][v][d]
  BY <1>1
<1> HIDE DEF at
<1>4. of \in [Versions -> [Clients -> Nat]] /\ of[v] = at
  BY <1>1, <1>2
<1>5. \A w \in Versions : w # v => of[w] = p[l][w]
  BY <1>1
<1>6. p1 = [p EXCEPT ![l] = of]
  BY DEF at, OneMore
<1> HIDE DEF of
<1>7. p1 \in PassesType /\ p1[l] = of /\ \A m \in Limiters : m # l => p1[m] = p[m]
  BY <1>4, <1>6 DEF PassesType
<1>8. ASSUME NEW m \in Limiters, NEW w \in Versions, NEW d \in Clients,
             m # l \/ w # v \/ d # c
      PROVE  p1[m][w][d] = p[m][w][d]
  BY <1>3, <1>4, <1>5, <1>7, <1>8
<1>9. p1[l][v][c] = p[l][v][c] + 1
  BY <1>2, <1>4, <1>7
<1>10. \A m \in Limiters, w \in Versions, d \in Clients : p1[m][w][d] >= p[m][w][d]
  BY <1>8, <1>9, Counts
<1> QED
  BY <1>7, <1>8, <1>9, <1>10

-----------------------------------------------------------------------------
(* The other requests.                                                      *)

\* A request that a step leaves alone stays as good as it was.
LEMMA OthersKeep ==
  ASSUME Typed, Typed', Grows, NEW q \in Requests, Good(q), request'[q] = request[q]
  PROVE  Good(q)'
<1>0. CASE request[q].phase = "idle"
  BY <1>0 DEF Good, Grows
<1>1. CASE request[q].phase # "idle"
  <2>1. Routed(q)
    BY <1>1 DEF Good
  <2>2. Site(q)' = Site(q) /\ Shape(q)' = Shape(q) /\ TermsOf(q)' = TermsOf(q)
    BY <2>1 DEF Routed, Site, Shape, Grows, TermsOf
  <2>3. Routed(q)'
    BY <2>1, <2>2 DEF Routed, Grows, Typed, Versions
  <2>4. Covered(q) => Covered(q)'
    BY <2>2 DEF Covered, Grows, Typed
  <2>5. Free(q) => Free(q)'
    <3>1. request[q].version \in Versions
      BY <2>1, GateConstants DEF Routed, Typed, Versions
    <3>2. Shape(q).client \in Clients
      BY <2>1, GateConstants DEF Routed
    <3>3. /\ passes["rate_limit"][request[q].version][Shape(q).client] \in Nat
          /\ passes'["rate_limit"][request[q].version][Shape(q).client] \in Nat
      BY <3>1, <3>2, Counts DEF Typed, Limiters
    <3> QED
      BY <2>2, <3>1, <3>2, <3>3 DEF Free, Grows
  <2>6. Taken(q)' = Taken(q)
    BY <2>2 DEF Taken
  <2> QED
    BY <1>1, <2>2, <2>3, <2>4, <2>5, <2>6 DEF Good, Bound, Grows
<1> QED
  BY <1>0, <1>1

\* A step that changes r alone, takes nothing back and leaves it good, and with
\* no credential but its own or a fresh one, keeps the whole invariant.
LEMMA OneRequest ==
  ASSUME IInv, Typed', Grows, NEW r \in Requests, NEW x \in RequestType,
         request' = [request EXCEPT ![r] = x],
         x.paid = request[r].paid \/ x.paid = None \/ x.paid \notin spent,
         Good(r)'
  PROVE  IInv'
<1>1. \A q \in Requests : request'[q] = IF q = r THEN x ELSE request[q]
  BY DEF IInv, Typed
<1>2. \A q \in Requests : Good(q)'
  BY <1>1, OthersKeep DEF IInv
<1>3. Alone'
  <2>1. \A q \in Requests : request[q].paid # None => request[q].paid \in spent
    BY DEF IInv, Good
  <2> QED
    BY <1>1, <2>1 DEF IInv, Alone
<1> QED
  BY <1>2, <1>3 DEF IInv

\* A step that leaves every request alone and takes nothing back keeps it.
LEMMA NoRequestChanges ==
  ASSUME IInv, Typed', Grows, request' = request
  PROVE  IInv'
  BY OthersKeep DEF IInv, Alone

\* With all but the requests unchanged, or in part, nothing is taken back.
LEMMA GrowsSame ==
  ASSUME Typed, UNCHANGED <<config, passes, sold, spent>>
  PROVE  Grows
<1>1. \A v \in Versions, c \in Clients : passes["rate_limit"][v][c] \in Nat
  BY Counts DEF Typed, Limiters
<1> QED
  BY <1>1 DEF Grows, Typed

\* A request that is not there is well formed.
LEMMA IdleType == Idle \in RequestType
  BY GateConstants DEF Idle, RequestType, Phases, Credentials

\* A request that is over is good.
LEMMA IdleGood ==
  ASSUME NEW r \in Requests, request'[r] = Idle
  PROVE  Good(r)'
  BY DEF Good, Idle

\* An answer ends the request: whatever else the step adds, the invariant stays.
LEMMA AnswerKeeps ==
  ASSUME IInv, Typed', Grows, NEW r \in Requests, NEW status, Answer(r, status)
  PROVE  IInv'
<1>1. request' = [request EXCEPT ![r] = Idle]
  BY DEF Answer
<1>2. request'[r] = Idle
  BY <1>1 DEF IInv, Typed
<1>3. Idle.paid = None
  BY DEF Idle
<1> QED
  BY <1>1, <1>2, <1>3, IdleType, IdleGood, OneRequest, ZenonT(30)

\* The type after a step that changes one request and nothing else.
LEMMA OneTyped ==
  ASSUME Typed, NEW r \in Requests, NEW x \in RequestType,
         request' = [request EXCEPT ![r] = x], UNCHANGED <<config, passes, sold, spent>>
  PROVE  Typed'
  BY DEF Typed

-----------------------------------------------------------------------------
(* The steps of a request.                                                  *)

\* A request goes on under its snapshot.
LEMMA Advance ==
  ASSUME IInv, Typed', Grows, NEW r \in Requests, NEW x \in RequestType,
         request' = [request EXCEPT ![r] = x],
         request[r].phase # "idle", x.phase # "idle",
         x.version = request[r].version, x.shape = request[r].shape,
         x.index \in 1 .. Backends, ~TooLong(Site(r), x.bytes),
         x.phase \in AtHandler /\ Priced(Site(r)) => Free(r)' \/ Covered(r)',
         x.phase \in {"settling", "collecting"} \/ x.paid # None =>
           \E m \in Methods : Taken(r) = {m},
         x.paid = request[r].paid \/ x.paid = None \/ x.paid \in spent' \ spent,
         \A m \in x.upstream : ~Offers(Site(r), m),
         x.phase \in AtHandler \/ x.paid = None,
         x.paid \in Tokens \union {None} \/ ~TooLong(Site(r), Shape(r).length),
         x.replays = 0 => /\ x.phase = "streamed" \/ x.bytes = 0
                          /\ x.phase \in {"sent", "streamed"} \/ x.reached = {}
                          /\ \E i \in Nat : x.reached \subseteq {i}
  PROVE  IInv'
<1>1. request'[r] = x
  BY DEF IInv, Typed
<1>2. Good(r) /\ Routed(r)
  BY DEF IInv, Good
<1>3. Site(r)' = Site(r) /\ Shape(r)' = Shape(r)
  BY <1>1, <1>2 DEF Routed, Site, Shape, Grows
<1>4. Routed(r)'
  BY <1>1, <1>2, <1>3 DEF Routed, Grows, IInv, Typed, Versions
<1>5. Taken(r)' = Taken(r)
  BY <1>3 DEF Taken
<1>6. x.paid # None => x.paid \in spent'
  BY <1>2 DEF Good, Grows
<1>7. Good(r)'
  BY <1>1, <1>3, <1>4, <1>5, <1>6 DEF Good, Bound
<1> QED
  BY <1>7, OneRequest, ZenonT(30)

\* It does before it has reached a backend.
LEMMA AdvanceBefore ==
  ASSUME IInv, Typed', Grows, NEW r \in Requests, NEW x \in RequestType,
         request' = [request EXCEPT ![r] = x],
         request[r].phase \notin {"idle", "sent", "streamed"}, x.phase # "idle",
         x.version = request[r].version, x.shape = request[r].shape,
         x.index = request[r].index, x.bytes = request[r].bytes,
         x.upstream = request[r].upstream, x.reached = request[r].reached,
         x.replays = request[r].replays,
         x.phase \in AtHandler /\ Priced(Site(r)) => Free(r)' \/ Covered(r)',
         x.phase \in {"settling", "collecting"} \/ x.paid # None =>
           \E m \in Methods : Taken(r) = {m},
         x.paid = request[r].paid \/ x.paid = None \/ x.paid \in spent' \ spent,
         x.phase \in AtHandler \/ x.paid = None,
         x.paid \in Tokens \union {None} \/ ~TooLong(Site(r), Shape(r).length)
  PROVE  IInv'
<1>1. Good(r) /\ Routed(r)
  BY DEF IInv, Good
<1>2. x.index \in 1 .. Backends /\ ~TooLong(Site(r), x.bytes)
  BY <1>1 DEF Routed
<1>3. \A m \in x.upstream : ~Offers(Site(r), m)
  BY <1>1 DEF Good
<1>4. x.replays = 0 => /\ x.phase = "streamed" \/ x.bytes = 0
                       /\ x.phase \in {"sent", "streamed"} \/ x.reached = {}
                       /\ \E i \in Nat : x.reached \subseteq {i}
  BY <1>1 DEF Good
<1> QED
  BY <1>2, <1>3, <1>4, Advance, ZenonT(30)

\* The request that a step starts from.
LEMMA InFlight ==
  ASSUME IInv, NEW r \in Requests, request[r].phase # "idle"
  PROVE  /\ request[r] \in RequestType /\ Routed(r)
         /\ request[r].version \in Versions /\ Shape(r).client \in Clients
         /\ Site(r) \in Sites /\ Shape(r) \in Shapes
<1>1. request[r] \in RequestType /\ Routed(r)
  BY DEF IInv, Typed, Good
<1>2. request[r].version \in Versions
  BY <1>1, GateConstants DEF IInv, Typed, Routed, Versions
<1> QED
  BY <1>1, <1>2, GateConstants DEF Routed

\* Passing a limiter takes nothing back.
LEMMA PassedGrows ==
  ASSUME IInv, NEW r \in Requests, request[r].phase # "idle", NEW l \in Limiters,
         Passed(l, r), UNCHANGED <<config, sold, spent>>
  PROVE  /\ Grows
         /\ passes' \in PassesType
         /\ passes'[l][request[r].version][Shape(r).client] > 0
<1> DEFINE v == request[r].version
           c == Shape(r).client
<1>1. v \in Versions /\ c \in Clients /\ passes \in PassesType
  BY InFlight DEF IInv, Typed
<1>2. passes' = OneMore(passes, l, v, c)
  BY DEF Passed, OneMore
<1> HIDE DEF v, c
<1>3. /\ passes' \in PassesType
      /\ passes'[l][v][c] = passes[l][v][c] + 1
      /\ \A m \in Limiters, w \in Versions, d \in Clients : passes'[m][w][d] >= passes[m][w][d]
  BY <1>1, <1>2, Counted
<1>4. passes[l][v][c] \in Nat
  BY <1>1, Counts
<1>5. Grows
  BY <1>3 DEF Grows, Limiters, IInv, Typed
<1> QED
  BY <1>3, <1>4, <1>5 DEF v, c

\* A request takes its snapshot, or is answered, before it has any claim.
LEMMA RouteKeeps ==
  ASSUME IInv, NEW r \in Requests, NEW shape \in Shapes, NEW c \in Known(shape),
         Route(r, shape, c)
  PROVE  IInv'
<1> DEFINE site == config[Len(config)].site
           x == [Idle EXCEPT !.phase = "routed", !.shape = shape, !.credential = c,
                   !.version = Len(config), !.headers = {m \in Methods : shape[m] > 0}]
<1>0. Typed /\ UNCHANGED <<config, passes, sold, spent>>
  BY DEF IInv, Route
<1>1. CASE Unroutable(site, shape) # {}
  <2>1. request' = request
    BY <1>1 DEF Route
  <2> QED
    BY <1>0, <2>1, GrowsSame, NoRequestChanges DEF Typed
<1>2. CASE Unroutable(site, shape) = {}
  <2>1. request' = [request EXCEPT ![r] = x]
    BY <1>2 DEF Route
  <2>2. site # NoSite
    BY <1>2 DEF Unroutable
  <2>3. Len(config) \in Nat /\ Len(config) >= 1
    BY <1>0, GateConstants DEF Typed, Versions
  <2>4. config[Len(config)] \in Installed
    BY <1>0, <2>3 DEF Typed
  <2>5. site \in Sites
    BY <2>2, <2>4 DEF Installed
  <2>6. c \in Credentials \union {None, Junk}
    <3>1. 1 .. Len(sold) \subseteq Invoices
      BY <1>0, GateConstants DEF Typed, Invoices
    <3> QED
      BY <3>1 DEF Known, Credentials
  <2>7. x \in RequestType
    BY <2>3, <2>6, IdleType, ZenonT(30) DEF RequestType, Idle, Phases
  <2>8. /\ x.phase = "routed" /\ x.paid = None /\ x.version = Len(config) /\ x.shape = shape
        /\ x.index = 1 /\ x.bytes = 0 /\ x.upstream = {} /\ x.reached = {}
    BY DEF Idle
  <2>9. ~TooLong(site, 0)
    BY <2>5, GateConstants DEF TooLong
  <2>10. Typed' /\ Grows
    BY <1>0, <2>1, <2>7, OneTyped, GrowsSame, ZenonT(30)
  <2>11. request'[r] = x
    BY <1>0, <2>1 DEF Typed
  <2> HIDE DEF x, site
  <2>12. Site(r)' = site /\ Shape(r)' = shape
    BY <1>0, <2>8, <2>11 DEF Site, Shape, site
  <2>13. Routed(r)'
    BY <1>0, <2>3, <2>5, <2>8, <2>9, <2>11, <2>12, GateConstants DEF Routed
  <2>14. Good(r)'
    BY <2>8, <2>11, <2>13 DEF Good, Bound, AtHandler
  <2> QED
    BY <2>1, <2>7, <2>8, <2>10, <2>14, OneRequest, ZenonT(30)
<1> QED
  BY <1>1, <1>2

\* A reload adds a version.
LEMMA ReloadKeeps ==
  ASSUME IInv, NEW next \in Sites \union {NoSite}, ReplaceConfig(next)
  PROVE  IInv'
<1> DEFINE old == config[Len(config)]
           Object(kind) == IF Keeps(kind, old.site, next) THEN old[kind] ELSE Len(config) + 1
           new == [site |-> next, payment_verification |-> Object("payment_verification"),
                   capacity |-> Object("capacity"), rate_limit |-> Object("rate_limit")]
<1>0. Typed /\ UNCHANGED <<request, passes, sold, spent>> /\ config' = Append(config, new)
  BY DEF IInv, ReplaceConfig
<1>1. Len(config) \in Nat /\ 1 <= Len(config) /\ Len(config) <= MaxReloads
  BY <1>0, GateConstants DEF Typed, Versions, ReplaceConfig
<1>2. old \in Installed
  BY <1>0, <1>1 DEF Typed
<1> HIDE DEF old
<1>3. new \in Installed
  BY <1>1, <1>2 DEF Installed
<1> HIDE DEF new
<1>4. /\ config' \in Seq(Installed) /\ Len(config') = Len(config) + 1
      /\ \A v \in 1 .. Len(config) : config'[v] = config[v]
  BY <1>0, <1>3 DEF Typed
<1>5. Typed'
  BY <1>0, <1>1, <1>4, GateConstants DEF Typed, Versions
<1>6. \A v \in Versions, c \in Clients : passes["rate_limit"][v][c] \in Nat
  BY <1>0, Counts DEF Typed, Limiters
<1>7. Grows
  BY <1>0, <1>1, <1>4, <1>6 DEF Grows, Typed
<1> QED
  BY <1>0, <1>5, <1>7, NoRequestChanges

\* The allowance admits the request, or it goes on to pay.
LEMMA LimitKeeps ==
  ASSUME IInv, NEW r \in Requests, Limit(r)
  PROVE  IInv'
<1> DEFINE x == [request[r] EXCEPT !.phase = "limited", !.permit = Site(r).capacity # None]
<1>0. request[r].phase = "routed" /\ UNCHANGED <<config, sold, spent>> /\ Typed
  BY DEF Limit, IInv
<1>1. request[r] \in RequestType /\ Routed(r)
  BY <1>0, InFlight
<1>2. x \in RequestType
  BY <1>1, ZenonT(30) DEF RequestType, Phases
<1>3. Grows /\ passes' \in PassesType
  <2>1. CASE Passed("payment_verification", r)
    BY <1>0, <2>1, PassedGrows DEF Limiters
  <2>2. CASE UNCHANGED passes
    BY <1>0, <2>2, GrowsSame DEF Typed
  <2> QED
    BY <2>1, <2>2 DEF Limit
<1>4. CASE \E status \in {429, 503} : Answer(r, status)
  <2>1. Typed'
    BY <1>0, <1>3, <1>4, IdleType DEF Typed, Answer
  <2> QED
    BY <1>3, <1>4, <2>1, AnswerKeeps
<1>5. CASE request' = [request EXCEPT ![r] = x]
  <2>1. Typed'
    BY <1>0, <1>2, <1>3, <1>5 DEF Typed
  <2>2. /\ x.phase = "limited" /\ x.version = request[r].version /\ x.shape = request[r].shape
        /\ x.index = request[r].index /\ x.bytes = request[r].bytes
        /\ x.upstream = request[r].upstream /\ x.reached = request[r].reached
        /\ x.replays = request[r].replays /\ x.paid = request[r].paid
    BY <1>1 DEF RequestType
  <2>3. x.paid = None
    BY <1>0, <2>2 DEF IInv, Good, AtHandler
  <2> HIDE DEF x
  <2> QED
    BY <1>0, <1>2, <1>3, <1>5, <2>1, <2>2, <2>3, AdvanceBefore, ZenonT(30) DEF AtHandler
<1> QED
  BY <1>4, <1>5, ZenonT(30) DEF Limit, Answer

\* Going on to a phase that needs no more than is known.
LEMMA GotoKeeps ==
  ASSUME IInv, NEW r \in Requests, UNCHANGED <<config, passes, sold, spent>>,
         NEW p \in {"settling", "collecting", "challenging", "connecting"}, Goto(r, p),
         request[r].phase \notin {"idle", "connecting", "sent", "streamed"},
         p = "connecting" <=> request[r].phase = "admitted",
         p \in {"settling", "collecting"} => \E m \in Methods : Taken(r) = {m}
  PROVE  IInv'
<1> DEFINE x == [request[r] EXCEPT !.phase = p]
<1>0. Typed /\ Good(r) /\ request' = [request EXCEPT ![r] = x]
  BY DEF IInv, Goto
<1>1. request[r] \in RequestType /\ Routed(r)
  BY InFlight
<1>2. x \in RequestType
  BY <1>1 DEF RequestType, Phases
<1>3. Grows /\ Typed'
  BY <1>0, <1>2, GrowsSame, OneTyped, ZenonT(30)
<1>4. /\ x.phase = p /\ x.version = request[r].version /\ x.shape = request[r].shape
      /\ x.index = request[r].index /\ x.bytes = request[r].bytes
      /\ x.upstream = request[r].upstream /\ x.reached = request[r].reached
      /\ x.replays = request[r].replays /\ x.paid = request[r].paid /\ x.free = request[r].free
  BY <1>1 DEF RequestType
<1>5. /\ x.paid # None => \E m \in Methods : Taken(r) = {m}
      /\ x.paid \in Tokens \union {None} \/ ~TooLong(Site(r), Shape(r).length)
      /\ x.phase \in AtHandler \/ x.paid = None
  BY <1>0, <1>4 DEF Good, Bound, AtHandler
<1>6. request'[r] = x
  BY <1>0 DEF Typed
<1> HIDE DEF x
<1>7. x.phase \in AtHandler /\ Priced(Site(r)) => Free(r)' \/ Covered(r)'
  <2>1. SUFFICES ASSUME p = "connecting", Priced(Site(r)) PROVE Free(r)' \/ Covered(r)'
    BY <1>4, ZenonT(30) DEF AtHandler
  <2>2. Free(r) \/ Covered(r)
    BY <1>0, <2>1, ZenonT(30) DEF Good, AtHandler
  <2>3. Site(r)' = Site(r) /\ Shape(r)' = Shape(r) /\ TermsOf(r)' = TermsOf(r)
    BY <1>4, <1>6, ZenonT(30) DEF Site, Shape, TermsOf
  <2> QED
    BY <1>4, <1>6, <2>2, <2>3, ZenonT(30) DEF Free, Covered
<1> QED
  BY <1>0, <1>2, <1>3, <1>4, <1>5, <1>7, AdvanceBefore, ZenonT(30)

\* Admission, of a request that is entitled to it.
LEMMA AdmitKeeps ==
  ASSUME IInv, NEW r \in Requests, request[r].phase \notin {"idle", "sent", "streamed"},
         NEW paid \in Credentials \union {None}, NEW free \in BOOLEAN, Admit(r, paid, free),
         UNCHANGED <<config, sold>>, Grows, passes' \in PassesType, spent' \subseteq Credentials,
         paid # None => paid \in spent' \ spent /\ \E m \in Methods : Taken(r) = {m},
         paid \in Tokens \union {None} \/ ~TooLong(Site(r), Shape(r).length),
         Priced(Site(r)) =>
           \/ free /\ passes'["rate_limit"][request[r].version][Shape(r).client] > 0
           \/ paid \in Tokens /\ Worth[paid] >= Site(r).cashu /\ paid # None
           \/ paid \in 1 .. Len(sold) /\ sold[paid] = TermsOf(r) /\ paid # None
  PROVE  IInv'
<1> DEFINE x == [request[r] EXCEPT !.phase = "admitted", !.paid = paid, !.free = free,
                                   !.headers = @ \ Stripped(Site(r))]
<1>0. Typed /\ request' = [request EXCEPT ![r] = x]
  BY ZenonT(30) DEF IInv, Admit
<1>1. request[r] \in RequestType /\ Routed(r)
  BY InFlight, ZenonT(30)
<1>2. x \in RequestType
  BY <1>1, ZenonT(30) DEF RequestType, Phases
<1>3. Typed'
  BY <1>0, <1>2 DEF Typed
<1>4. /\ x.phase = "admitted" /\ x.version = request[r].version /\ x.shape = request[r].shape
      /\ x.index = request[r].index /\ x.bytes = request[r].bytes
      /\ x.upstream = request[r].upstream /\ x.reached = request[r].reached
      /\ x.replays = request[r].replays /\ x.paid = paid /\ x.free = free
  BY <1>1 DEF RequestType
<1>5. request'[r] = x
  BY <1>0 DEF Typed
<1> HIDE DEF x
<1>6. Site(r)' = Site(r) /\ Shape(r)' = Shape(r) /\ TermsOf(r)' = TermsOf(r)
  BY <1>4, <1>5, ZenonT(30) DEF Site, Shape, TermsOf
<1>7. Priced(Site(r)) => Free(r)' \/ Covered(r)'
  BY <1>4, <1>5, <1>6, ZenonT(30) DEF Free, Covered
<1> QED
  BY <1>0, <1>2, <1>3, <1>4, <1>7, AdvanceBefore, ZenonT(30) DEF AtHandler

\* Select takes a payment only from a request that offers one.
LEMMA OnePayment ==
  ASSUME NEW r, Site(r) \in Sites, Shape(r) \in Shapes, NEW credential,
         Select(Site(r), Shape(r), credential) \in {"settling", "collecting"}
  PROVE  \E m \in Methods : Taken(r) = {m}
<1> DEFINE site == Site(r)
           shape == Shape(r)
           l402 == Offers(site, "l402") /\ shape.l402 > 0
           x402 == site.lightning # None /\ shape.x402 > 0
           cashu == site.cashu # None /\ shape.cashu > 0
<1>1. shape.cashu \in Nat /\ shape.x402 \in Nat /\ shape.l402 \in Nat
  BY GateConstants DEF Methods
<1>2. /\ "cashu" \in Taken(r) <=> cashu
      /\ "l402" \in Taken(r) <=> l402
      /\ "x402" \in Taken(r) => x402
      /\ x402 /\ Offers(site, "x402") => "x402" \in Taken(r)
      /\ Taken(r) \subseteq Methods
  BY ZenonT(30) DEF Taken, Offers, Methods
<1>3. CASE l402
  <2>1. shape.x402 = 0 /\ shape.cashu = 0
    BY <1>1, <1>3, SMTT(30) DEF Select
  <2> QED
    BY <1>2, <1>3, <2>1, SMTT(30) DEF Methods
<1>4. CASE ~l402 /\ x402
  <2>1. Offers(site, "x402") /\ shape.cashu = 0
    BY <1>1, <1>4, SMTT(30) DEF Select
  <2> QED
    BY <1>2, <1>4, <2>1, SMTT(30) DEF Methods
<1>5. CASE ~l402 /\ ~x402
  <2>1. cashu
    BY <1>5, ZenonT(30) DEF Select
  <2> QED
    BY <1>2, <1>5, <2>1, ZenonT(30) DEF Methods
<1> QED
  BY <1>3, <1>4, <1>5

\* The credential it presents becomes its own, and nobody else holds it.
LEMMA ChooseKeeps ==
  ASSUME IInv, NEW r \in Requests, Choose(r)
  PROVE  IInv'
<1> DEFINE way == Select(Site(r), Shape(r), request[r].credential)
<1>0. request[r].phase = "limited" /\ UNCHANGED <<config, sold, spent>> /\ Typed
  BY DEF Choose, IInv
<1>1. Site(r) \in Sites /\ Shape(r) \in Shapes
  BY <1>0, InFlight
<1>2. CASE UNCHANGED passes /\ (Answer(r, 400) \/ Answer(r, 401) \/ Answer(r, 429))
  <2>1. Grows
    BY <1>0, <1>2, GrowsSame
  <2>2. Typed'
    BY <1>0, <1>2, IdleType DEF Typed, Answer
  <2> QED
    BY <1>2, <2>1, <2>2, AnswerKeeps
<1>3. CASE UNCHANGED passes /\ way \in {"settling", "collecting"} /\ Goto(r, way)
  <2>1. \E m \in Methods : Taken(r) = {m}
    BY <1>1, <1>3, OnePayment
  <2> HIDE DEF way
  <2> QED
    BY <1>0, <1>3, <2>1, GotoKeeps
<1>4. CASE UNCHANGED passes /\ Goto(r, "challenging")
  BY <1>0, <1>4, GotoKeeps, ZenonT(30)
<1>5. CASE Passed("rate_limit", r) /\ Admit(r, None, TRUE)
  <2>1. /\ Grows /\ passes' \in PassesType
        /\ passes'["rate_limit"][request[r].version][Shape(r).client] > 0
    BY <1>0, <1>5, PassedGrows, ZenonT(30) DEF Limiters
  <2> QED
    BY <1>0, <1>5, <2>1, AdmitKeeps, ZenonT(30) DEF Typed
<1>6. CASE UNCHANGED passes /\ ~Priced(Site(r)) /\ Admit(r, None, FALSE)
  <2>1. Grows
    BY <1>0, <1>6, GrowsSame
  <2> QED
    BY <1>0, <1>6, <2>1, AdmitKeeps, ZenonT(30) DEF Typed
<1>7. \/ UNCHANGED passes /\ (Answer(r, 400) \/ Answer(r, 401) \/ Answer(r, 429))
      \/ UNCHANGED passes /\ way \in {"settling", "collecting"} /\ Goto(r, way)
      \/ UNCHANGED passes /\ Goto(r, "challenging")
      \/ Passed("rate_limit", r) /\ Admit(r, None, TRUE)
      \/ UNCHANGED passes /\ ~Priced(Site(r)) /\ Admit(r, None, FALSE)
  <2>1. CASE way \in {"400", "401"}
    BY <2>1, ZenonT(30) DEF Choose
  <2>2. CASE way \in {"settling", "collecting"}
    BY <2>2, ZenonT(30) DEF Choose
  <2>3. CASE way \notin {"400", "401", "settling", "collecting"}
    BY <2>3, ZenonT(30) DEF Choose
  <2> QED
    BY <2>1, <2>2, <2>3, ZenonT(30)
<1> QED
  BY <1>2, <1>3, <1>4, <1>5, <1>6, <1>7, ZenonT(30)

\* Spending credentials takes nothing back.
LEMMA SpentGrows ==
  ASSUME Typed, UNCHANGED <<config, passes, sold>>, spent \subseteq spent'
  PROVE  Grows
<1>1. \A v \in Versions, c \in Clients : passes["rate_limit"][v][c] \in Nat
  BY Counts DEF Typed, Limiters
<1> QED
  BY <1>1, SMTT(30) DEF Grows, Typed

\* An answer, with or without a credential spent.
LEMMA AnswerSpends ==
  ASSUME IInv, NEW r \in Requests, NEW status, Answer(r, status),
         UNCHANGED <<config, passes, sold>>, spent \subseteq spent', spent' \subseteq Credentials
  PROVE  IInv'
<1>1. Grows
  BY SpentGrows DEF IInv
<1>2. Typed'
  BY IdleType DEF IInv, Typed, Answer
<1> QED
  BY <1>1, <1>2, AnswerKeeps

\* A credential that pays is one that can be spent.
LEMMA PayingIsCredential ==
  ASSUME NEW r, NEW credential, Matches(r, credential) \/ Pays(r, credential)
  PROVE  credential \in Credentials /\ credential # None
  BY GateConstants, ZenonT(30) DEF Matches, Pays, Credentials, Invoices

\* An L402 or x402 credential is settled once.
LEMMA SettleKeeps ==
  ASSUME IInv, NEW r \in Requests, Settle(r)
  PROVE  IInv'
<1> DEFINE credential == request[r].credential
<1>0. request[r].phase = "settling" /\ UNCHANGED <<config, passes, sold>> /\ Typed
  BY ZenonT(30) DEF Settle, IInv
<1>1. ASSUME UNCHANGED spent, NEW status, Answer(r, status) PROVE IInv'
  BY <1>0, <1>1, AnswerSpends DEF Typed
<1>2. CASE /\ Binds(Site(r), Shape(r)) /\ Matches(r, credential) /\ credential \notin spent
           /\ spent' = spent \union {credential} /\ Admit(r, credential, FALSE)
  <2>1. credential \in Credentials /\ credential # None
    BY <1>2, PayingIsCredential
  <2>2. credential \in 1 .. Len(sold) /\ sold[credential] = TermsOf(r)
    BY <1>0, <1>2, GateConstants, SMTT(30) DEF Matches, Invoices, Typed
  <2>3. \E m \in Methods : Taken(r) = {m}
    BY <1>0, ZenonT(30) DEF IInv, Good
  <2> HIDE DEF credential
  <2>4. Grows
    BY <1>0, <1>2, SpentGrows, ZenonT(30)
  <2>5. passes' \in PassesType /\ spent' \subseteq Credentials
    BY <1>0, <1>2, <2>1 DEF Typed
  <2>6. ~TooLong(Site(r), Shape(r).length)
    BY <1>2 DEF Binds
  <2> QED
    BY <1>0, <1>2, <2>1, <2>2, <2>3, <2>4, <2>5, <2>6, AdmitKeeps, ZenonT(30)
<1>3. \/ UNCHANGED spent /\ (Answer(r, 400) \/ Answer(r, 401) \/ Answer(r, 503))
      \/ /\ Binds(Site(r), Shape(r)) /\ Matches(r, credential) /\ credential \notin spent
         /\ spent' = spent \union {credential} /\ Admit(r, credential, FALSE)
  BY ZenonT(30) DEF Settle, Answer
<1> QED
  BY <1>1, <1>2, <1>3, ZenonT(30)

\* A Cashu token is collected once.
LEMMA CollectKeeps ==
  ASSUME IInv, NEW r \in Requests, Collect(r)
  PROVE  IInv'
<1> DEFINE credential == request[r].credential
<1>0. request[r].phase = "collecting" /\ UNCHANGED <<config, passes, sold>> /\ Typed
  BY ZenonT(30) DEF Collect, IInv
<1>1. ASSUME UNCHANGED spent, NEW status, Answer(r, status) PROVE IInv'
  BY <1>0, <1>1, AnswerSpends DEF Typed
<1>2. CASE /\ Pays(r, credential) /\ credential \notin spent
           /\ spent' = spent \union {credential} /\ Admit(r, credential, FALSE)
  <2>1. credential \in Credentials /\ credential # None
    BY <1>2, PayingIsCredential
  <2>2. credential \in Tokens /\ Worth[credential] >= Site(r).cashu
    BY <1>2, ZenonT(30) DEF Pays
  <2>3. \E m \in Methods : Taken(r) = {m}
    BY <1>0, ZenonT(30) DEF IInv, Good
  <2> HIDE DEF credential
  <2>4. Grows
    BY <1>0, <1>2, SpentGrows
  <2>5. passes' \in PassesType /\ spent' \subseteq Credentials
    BY <1>0, <1>2, <2>1 DEF Typed
  <2> QED
    BY <1>0, <1>2, <2>1, <2>2, <2>3, <2>4, <2>5, AdmitKeeps, ZenonT(30)
<1>3. \/ UNCHANGED spent /\ (Answer(r, 400) \/ Answer(r, 503))
      \/ /\ Pays(r, credential) /\ credential \notin spent
         /\ spent' = spent \union {credential} /\ Admit(r, credential, FALSE)
  BY ZenonT(30) DEF Collect, Answer
<1> QED
  BY <1>1, <1>2, <1>3, ZenonT(30)

\* A challenge grants nothing.
LEMMA ChallengeKeeps ==
  ASSUME IInv, NEW r \in Requests, Challenge(r)
  PROVE  IInv'
<1>0. /\ request[r].phase = "challenging" /\ UNCHANGED <<config, passes, spent>> /\ Typed
      /\ Answer(r, 402) \/ Answer(r, 503)
  BY ZenonT(30) DEF Challenge, IInv
<1>1. CASE UNCHANGED sold
  BY <1>0, <1>1, AnswerSpends DEF Typed
<1>2. CASE Len(sold) < MaxSales /\ sold' = Append(sold, TermsOf(r))
  <2>1. Site(r) \in Sites /\ Shape(r) \in Shapes
    BY <1>0, InFlight, ZenonT(30)
  <2>2. TermsOf(r) \in Terms
    BY <2>1 DEF TermsOf, Terms
  <2>3. /\ sold' \in Seq(Terms) /\ Len(sold') = Len(sold) + 1 /\ Len(sold) \in Nat
        /\ \A i \in 1 .. Len(sold) : sold'[i] = sold[i]
    BY <1>0, <1>2, <2>2, SMTT(30) DEF Typed
  <2>4. \A v \in Versions, c \in Clients : passes["rate_limit"][v][c] \in Nat
    BY <1>0, Counts, ZenonT(30) DEF Typed, Limiters
  <2>5. Grows
    BY <1>0, <2>3, <2>4, SMTT(30) DEF Grows, Typed
  <2>6. request' \in [Requests -> RequestType]
    BY <1>0, IdleType DEF Typed, Answer
  <2>7. Typed'
    BY <1>0, <1>2, <2>3, <2>6, GateConstants, SMTT(30) DEF Typed
  <2> QED
    BY <1>0, <2>5, <2>7, AnswerKeeps
<1> QED
  BY <1>1, <1>2, ZenonT(30) DEF Challenge

\* A request that is cut off grants nothing.
LEMMA CutKeeps ==
  ASSUME IInv, NEW r \in Requests, Cut(r)
  PROVE  IInv'
<1> DEFINE credential == request[r].credential
<1>1. spent \subseteq spent' /\ spent' \subseteq Credentials
  <2>1. CASE spent' = spent
    BY <2>1 DEF IInv, Typed
  <2>2. CASE ~(Matches(r, credential) \/ Pays(r, credential))
    BY <2>2, ZenonT(30) DEF Cut, IInv, Typed
  <2>3. CASE Matches(r, credential) \/ Pays(r, credential)
    <3>1. credential \in Credentials
      BY <2>3, PayingIsCredential
    <3> QED
      BY <3>1, ZenonT(30) DEF Cut, IInv, Typed
  <2> QED
    BY <2>2, <2>3
<1> QED
  BY <1>1, AnswerSpends, ZenonT(30) DEF Cut

\* The handler gets a request that is entitled to it, without credentials.
LEMMA HandleKeeps ==
  ASSUME IInv, NEW r \in Requests, Handle(r)
  PROVE  IInv'
<1>1. UNCHANGED <<config, passes, sold, spent>> /\ request[r].phase = "admitted"
  BY ZenonT(30) DEF Handle
<1>2. Answer(r, 200) \/ Answer(r, 502) \/ Goto(r, "connecting")
  BY ZenonT(30) DEF Handle
<1>3. spent' \subseteq Credentials
  BY <1>1 DEF IInv, Typed
<1> QED
  BY <1>1, <1>2, <1>3, AnswerSpends, GotoKeeps, ZenonT(30)

\* A request that has been admitted goes on, with what it was admitted for.
LEMMA AfterKeeps ==
  ASSUME IInv, NEW r \in Requests, request[r].phase \in AtHandler, NEW x \in RequestType,
         request' = [request EXCEPT ![r] = x], UNCHANGED <<config, passes, sold, spent>>,
         x.phase \in AtHandler, x.version = request[r].version, x.shape = request[r].shape,
         x.paid = request[r].paid, x.free = request[r].free,
         x.index \in 1 .. Backends, ~TooLong(Site(r), x.bytes),
         \A m \in x.upstream : ~Offers(Site(r), m),
         x.replays = 0 => /\ x.phase = "streamed" \/ x.bytes = 0
                          /\ x.phase \in {"sent", "streamed"} \/ x.reached = {}
                          /\ \E i \in Nat : x.reached \subseteq {i}
  PROVE  IInv'
<1>0. Typed /\ Good(r) /\ request[r].phase # "idle" /\ x.phase # "idle"
  BY ZenonT(30) DEF IInv, AtHandler
<1>1. Grows /\ Typed' /\ request'[r] = x
  BY <1>0, GrowsSame, OneTyped, ZenonT(30) DEF Typed
<1>2. Site(r)' = Site(r) /\ Shape(r)' = Shape(r) /\ TermsOf(r)' = TermsOf(r)
  BY <1>1, ZenonT(30) DEF Site, Shape, TermsOf
<1>3. Priced(Site(r)) => Free(r)' \/ Covered(r)'
  <2>1. Priced(Site(r)) => Free(r) \/ Covered(r)
    BY <1>0, ZenonT(30) DEF Good
  <2> QED
    BY <1>1, <1>2, <2>1, SMTT(30) DEF Free, Covered
<1>4. /\ x.paid # None => \E m \in Methods : Taken(r) = {m}
      /\ x.paid \in Tokens \union {None} \/ ~TooLong(Site(r), Shape(r).length)
      /\ x.phase \notin {"settling", "collecting"}
  BY <1>0, ZenonT(30) DEF Good, Bound, AtHandler
<1> QED
  BY <1>0, <1>1, <1>3, <1>4, Advance, ZenonT(30)

\* The backend is sent no method that the site offers.
LEMMA OfferedAreStripped ==
  ASSUME NEW site, NEW m \in Methods, m \notin Stripped(site)
  PROVE  ~Offers(site, m)
  BY DEF Stripped, Offers, Priced, Methods

\* The steps towards and at the backend.
LEMMA BackendKeeps ==
  ASSUME IInv, NEW r \in Requests,
         Connect(r) \/ FailToConnect(r) \/ Stream(r) \/ Replay(r) \/ Respond(r)
  PROVE  IInv'
<1>0. /\ Typed /\ Good(r) /\ UNCHANGED <<config, passes, sold, spent>>
      /\ request[r].phase \in {"connecting", "sent", "streamed"}
  BY ZenonT(30) DEF IInv, Connect, FailToConnect, Stream, Replay, Respond
<1>1. /\ request[r] \in RequestType /\ Routed(r) /\ Site(r) \in Sites /\ Shape(r) \in Shapes
      /\ request[r].phase \in AtHandler
  BY <1>0, InFlight, ZenonT(30) DEF AtHandler
<1>2. ASSUME NEW status, Answer(r, status) PROVE IInv'
  BY <1>0, <1>2, AnswerSpends DEF Typed
<1>3. CASE Connect(r)
  <2> DEFINE x == [request[r] EXCEPT !.phase = "sent", !.reached = @ \union {request[r].index},
                                     !.upstream = request[r].headers \ Stripped(Site(r))]
  <2>1. x \in RequestType /\ request' = [request EXCEPT ![r] = x]
    BY <1>1, <1>3, ZenonT(30) DEF RequestType, Phases, Connect
  <2>2. /\ x.phase = "sent" /\ x.version = request[r].version /\ x.shape = request[r].shape
        /\ x.paid = request[r].paid /\ x.free = request[r].free /\ x.index = request[r].index
        /\ x.bytes = request[r].bytes /\ x.replays = request[r].replays
        /\ x.reached = request[r].reached \union {request[r].index}
        /\ x.upstream = request[r].headers \ Stripped(Site(r))
        /\ request[r].headers \subseteq Methods /\ request[r].index \in Nat
    BY <1>1, ZenonT(30) DEF RequestType
  <2> HIDE DEF x
  <2>3. \A m \in x.upstream : ~Offers(Site(r), m)
    BY <2>2, OfferedAreStripped, ZenonT(30)
  <2>4. x.replays = 0 => x.bytes = 0 /\ x.reached \subseteq {x.index}
    BY <1>0, <1>3, <2>2, ZenonT(30) DEF Connect, Good
  <2>5. x.index \in 1 .. Backends /\ ~TooLong(Site(r), x.bytes)
    BY <1>1, <2>2, ZenonT(30) DEF Routed
  <2> QED
    BY <1>0, <1>1, <2>1, <2>2, <2>3, <2>4, <2>5, AfterKeeps, ZenonT(30) DEF AtHandler
<1>4. CASE FailToConnect(r) /\ request[r].index < Backends
  <2> DEFINE x == [request[r] EXCEPT !.index = @ + 1]
  <2>1. x \in RequestType /\ request' = [request EXCEPT ![r] = x]
    BY <1>1, <1>4 DEF RequestType, FailToConnect
  <2>2. /\ x.phase = "connecting" /\ x.version = request[r].version /\ x.shape = request[r].shape
        /\ x.paid = request[r].paid /\ x.free = request[r].free /\ x.index = request[r].index + 1
        /\ x.bytes = request[r].bytes /\ x.replays = request[r].replays
        /\ x.reached = request[r].reached /\ x.upstream = request[r].upstream
    BY <1>1, <1>4 DEF RequestType, FailToConnect
  <2> HIDE DEF x
  <2>3. x.index \in 1 .. Backends /\ ~TooLong(Site(r), x.bytes)
    BY <1>1, <1>4, <2>2, GateConstants, SMTT(30) DEF Routed
  <2>4. request[r].phase = "connecting"
    BY <1>4 DEF FailToConnect
  <2>5. /\ \A m \in x.upstream : ~Offers(Site(r), m)
        /\ x.replays = 0 => x.bytes = 0 /\ x.reached = {}
    BY <1>0, <2>2, <2>4, ZenonT(30) DEF Good
  <2> QED
    BY <1>0, <1>1, <2>1, <2>2, <2>3, <2>5, AfterKeeps, ZenonT(30) DEF AtHandler
<1>5. CASE Stream(r) /\ ~TooLong(Site(r), request[r].bytes + Shape(r).length)
  <2> DEFINE bytes == request[r].bytes + Shape(r).length
             x == [request[r] EXCEPT !.phase = "streamed", !.bytes = bytes]
  <2>0. bytes \in Nat
    <3>1. request[r].bytes \in Nat
      BY <1>1, ZenonT(30) DEF RequestType
    <3>2. Shape(r).length \in Nat
      BY <1>1, GateConstants, ZenonT(30)
    <3> QED
      BY <3>1, <3>2
  <2>1. x \in RequestType /\ request' = [request EXCEPT ![r] = x]
    BY <1>1, <1>5, <2>0, ZenonT(30) DEF RequestType, Phases, Stream
  <2>2. /\ x.phase = "streamed" /\ x.version = request[r].version /\ x.shape = request[r].shape
        /\ x.paid = request[r].paid /\ x.free = request[r].free /\ x.index = request[r].index
        /\ x.bytes = bytes /\ x.replays = request[r].replays
        /\ x.reached = request[r].reached /\ x.upstream = request[r].upstream
    BY <1>1 DEF RequestType
  <2> HIDE DEF x
  <2>3. x.index \in 1 .. Backends /\ ~TooLong(Site(r), x.bytes)
    BY <1>1, <1>5, <2>2, ZenonT(30) DEF Routed
  <2>4. request[r].phase # "idle"
    BY <1>0, ZenonT(30)
  <2>5. /\ \A m \in x.upstream : ~Offers(Site(r), m)
        /\ x.replays = 0 => \E i \in Nat : x.reached \subseteq {i}
    BY <1>0, <2>2, <2>4, ZenonT(30) DEF Good
  <2> QED
    BY <1>0, <1>1, <2>1, <2>2, <2>3, <2>5, AfterKeeps, ZenonT(30) DEF AtHandler
<1>6. CASE Replay(r)
  <2> DEFINE x == [request[r] EXCEPT !.phase = "connecting", !.replays = @ + 1]
  <2>1. x \in RequestType /\ request' = [request EXCEPT ![r] = x]
    <3>1. request[r].replays + 1 \in Nat
      BY <1>1, SMTT(30) DEF RequestType
    <3>2. x \in RequestType
      BY <1>1, <3>1, ZenonT(30) DEF RequestType, Phases
    <3> QED
      BY <1>6, <3>2, ZenonT(30) DEF Replay
  <2>2. /\ x.phase = "connecting" /\ x.version = request[r].version /\ x.shape = request[r].shape
        /\ x.paid = request[r].paid /\ x.free = request[r].free /\ x.index = request[r].index
        /\ x.bytes = request[r].bytes /\ x.replays # 0
        /\ x.reached = request[r].reached /\ x.upstream = request[r].upstream
    BY <1>1 DEF RequestType
  <2> HIDE DEF x
  <2>3. x.index \in 1 .. Backends /\ ~TooLong(Site(r), x.bytes)
    BY <1>1, <2>2, ZenonT(30) DEF Routed
  <2>4. \A m \in x.upstream : ~Offers(Site(r), m)
    BY <1>0, <2>2, ZenonT(30) DEF Good
  <2> QED
    BY <1>0, <1>1, <2>1, <2>2, <2>3, <2>4, AfterKeeps, ZenonT(30) DEF AtHandler
<1>7. \/ Connect(r) \/ Replay(r)
      \/ FailToConnect(r) /\ request[r].index < Backends
      \/ Stream(r) /\ ~TooLong(Site(r), request[r].bytes + Shape(r).length)
      \/ Answer(r, 200) \/ Answer(r, 413) \/ Answer(r, 502)
  BY DEF FailToConnect, Stream, Respond, Answer
<1> QED
  BY <1>2, <1>3, <1>4, <1>5, <1>6, <1>7, ZenonT(30)

-----------------------------------------------------------------------------
(* The theorems.                                                            *)

\* No request has started.
LEMMA InitIInv == Init => IInv
<1> SUFFICES ASSUME Init PROVE IInv
  OBVIOUS
<1>1. PICK s \in Sites : config = << [site |-> s, payment_verification |-> 1,
                                      capacity |-> 1, rate_limit |-> 1] >>
  BY ZenonT(30) DEF Init
<1>2. config \in Seq(Installed) /\ Len(config) \in Versions
  BY <1>1, GateConstants, SMTT(30) DEF Installed, Versions
<1>3. request \in [Requests -> RequestType] /\ \A r \in Requests : request[r] = Idle
  BY IdleType, ZenonT(30) DEF Init
<1>4. passes \in PassesType
  BY ZenonT(30) DEF Init, PassesType
<1>5. sold \in Seq(Terms) /\ Len(sold) <= MaxSales /\ spent = {}
  BY GateConstants, SMTT(30) DEF Init
<1>6. \A r \in Requests : Good(r)
  BY <1>3, SMTT(30) DEF Good, Idle
<1>7. Alone
  BY <1>3, SMTT(30) DEF Alone, Idle
<1> QED
  BY <1>2, <1>3, <1>4, <1>5, <1>6, <1>7 DEF IInv, Typed

\* Every step keeps the invariant, and so does stuttering.
LEMMA NextIInv == IInv /\ [Next]_vars => IInv'
<1> SUFFICES ASSUME IInv, [Next]_vars PROVE IInv'
  OBVIOUS
<1>1. CASE UNCHANGED vars
  BY <1>1, NoRequestChanges, GrowsSame, ZenonT(30) DEF vars, IInv, Typed
<1>2. ASSUME NEW s \in Sites \union {NoSite}, ReplaceConfig(s) PROVE IInv'
  BY <1>2, ReloadKeeps
<1>3. ASSUME NEW r \in Requests, Step(r) PROVE IInv'
  BY <1>3, RouteKeeps, LimitKeeps, ChooseKeeps, SettleKeeps, CollectKeeps, ChallengeKeeps,
     HandleKeeps, BackendKeeps, CutKeeps, ZenonT(30) DEF Step
<1> QED
  BY <1>1, <1>2, <1>3 DEF Next

(***************************************************************************)
(* For any sites, requests and reloads: limits, versions and addresses are *)
(* in their range, and no request counts more bytes than the snapshot of   *)
(* its site allows (request_body_filter).                                  *)
(***************************************************************************)
THEOREM GateTypes == Spec => []TypeOK
<1>1. IInv => TypeOK
  <2> SUFFICES ASSUME IInv PROVE TypeOK
    OBVIOUS
  <2>1. \A l \in Limiters, v \in Versions, c \in Clients : passes[l][v][c] \in Nat
    BY Counts DEF IInv, Typed
  <2>2. \A r \in Requests : request[r].phase \in Phases
    BY DEF IInv, Typed, RequestType
  <2> QED
    BY <2>1, <2>2, ZenonT(30) DEF IInv, TypeOK, Typed, Good, Routed, Credentials
<1> QED
  BY InitIInv, NextIInv, <1>1, PTL DEF Spec

(***************************************************************************)
(* For any sites, clients, tokens, prices and reloads, nobody is served    *)
(* for less than the snapshot of their site asks, and no credential serves *)
(* two requests (request_filter, Lightning::settle, Payments::collect).    *)
(***************************************************************************)
THEOREM ServedEntitled == Spec => []ServedIsEntitled
<1>1. IInv => ServedIsEntitled
  <2> SUFFICES ASSUME IInv, NEW r \in Requests, request[r].phase \in AtHandler, Priced(Site(r)),
                      ~(request[r].free /\
                        passes["rate_limit"][request[r].version][Shape(r).client] > 0)
               PROVE  /\ request[r].paid \in spent
                      /\ \A q \in Requests \ {r} : request[q].paid # request[r].paid
                      /\ \/ /\ request[r].paid \in Tokens
                            /\ Worth[request[r].paid] >= Site(r).cashu
                         \/ /\ request[r].paid \in 1 .. Len(sold)
                            /\ sold[request[r].paid].amount = Site(r).lightning.amount
                            /\ sold[request[r].paid].receiver = Site(r).lightning.receiver
                            /\ sold[request[r].paid].hash.content = Shape(r).content
                            /\ Site(r).lightning.binds_cookie =>
                                 sold[request[r].paid].hash.cookie = Shape(r).cookie
    BY ZenonT(30) DEF ServedIsEntitled
  <2>1. Covered(r)
    BY ZenonT(30) DEF IInv, Good, Free, AtHandler
  <2>2. request[r].paid \in spent /\ request[r].paid # None
    BY <2>1, GateConstants, ZenonT(30) DEF Covered, IInv, Typed, Credentials, Invoices
  <2>3. \A q \in Requests \ {r} : request[q].paid # request[r].paid
    BY <2>2, ZenonT(30) DEF IInv, Alone
  <2>4. /\ TermsOf(r).amount = Site(r).lightning.amount
        /\ TermsOf(r).receiver = Site(r).lightning.receiver
        /\ TermsOf(r).hash.content = Shape(r).content
        /\ Site(r).lightning.binds_cookie => TermsOf(r).hash.cookie = Shape(r).cookie
    BY ZenonT(30) DEF TermsOf, Requirements, RequestHash
  <2> QED
    BY <2>1, <2>2, <2>3, <2>4, ZenonT(30) DEF Covered
<1> QED
  BY InitIInv, NextIInv, <1>1, PTL DEF Spec

(***************************************************************************)
(* For any sites and requests: a credential of a method that the site      *)
(* takes never reaches a backend, and one request pays by one method       *)
(* (request_filter, upstream_request_filter).                              *)
(***************************************************************************)
THEOREM CredentialsKept == Spec => []CredentialsStayHere
<1>1. IInv => CredentialsStayHere
  <2> SUFFICES ASSUME IInv, NEW r \in Requests, request[r].phase \in AtHandler
               PROVE  LET taken == {m \in Methods : Offers(Site(r), m)}
                      IN /\ request[r].upstream \intersect taken = {}
                         /\ request[r].paid # None =>
                              Cardinality({m \in taken : Shape(r)[m] > 0}) = 1
    BY ZenonT(30) DEF CredentialsStayHere
  <2> DEFINE taken == {m \in Methods : Offers(Site(r), m)}
  <2>1. /\ \A m \in request[r].upstream : ~Offers(Site(r), m)
        /\ request[r].paid # None => \E m \in Methods : Taken(r) = {m}
    BY ZenonT(30) DEF IInv, Good, AtHandler
  <2>2. {m \in taken : Shape(r)[m] > 0} = Taken(r)
    BY DEF Taken
  <2>3. request[r].paid # None => Cardinality(Taken(r)) = 1
    BY <2>1, FS_Singleton, ZenonT(30)
  <2> QED
    BY <2>1, <2>2, <2>3, ZenonT(30)
<1> QED
  BY InitIInv, NextIInv, <1>1, PTL DEF Spec

(***************************************************************************)
(* For any number of addresses: a failed connection moves a request on     *)
(* only before it reached a backend, unless it is replayed                 *)
(* (fail_to_connect).                                                      *)
(***************************************************************************)
THEOREM ReachesOneBackend == Spec => []OneBackend
<1>1. IInv => OneBackend
  <2> SUFFICES ASSUME IInv, NEW r \in Requests, Cardinality(request[r].reached) > 1
               PROVE  request[r].replays > 0
    BY DEF OneBackend
  <2>1. request[r].replays \in Nat
    BY DEF IInv, Typed, RequestType
  <2>2. ASSUME request[r].replays = 0 PROVE FALSE
    <3>1. PICK i \in Nat : request[r].reached \subseteq {i}
      BY <2>2, ZenonT(30) DEF IInv, Good
    <3>2. request[r].reached = {} \/ request[r].reached = {i}
      BY <3>1
    <3> QED
      BY <3>2, FS_EmptySet, FS_Singleton
  <2> QED
    BY <2>1, <2>2
<1> QED
  BY InitIInv, NextIInv, <1>1, PTL DEF Spec

\* Every step is a step of one request, or of none.
LEMMA StepIsLocal ==
  ASSUME IInv, NEW q \in Requests, Step(q), NEW r \in Requests, r # q
  PROVE  request'[r] = request[r]
  BY ZenonT(30) DEF IInv, Typed, Step, Route, Limit, Choose, Settle, Collect, Challenge, Handle, Connect,
         FailToConnect, Stream, Replay, Respond, Cut, Answer, Goto, Admit

(***************************************************************************)
(* For any sites and reloads: once its credential is consumed a request is *)
(* answered by its handler or backend, or cut; its body is still refused   *)
(* only if no payment was bound to it, or after a replay                   *)
(* (request_body_filter, lightning_binding).                               *)
(***************************************************************************)
THEOREM PaidNotRefused == Spec => PaidIsNotRefused
<1> DEFINE Fair(r) == \/ answer' \in {0, 200, 502}
                      \/ answer' = 413 /\ (request[r].paid \in Tokens \/ request[r].replays > 0)
<1>1. ASSUME IInv, Next, NEW r \in Requests,
             request[r].paid # None, request'[r].paid = None
      PROVE  Fair(r)
  <2>1. PICK q \in Requests : Step(q)
    BY <1>1, ZenonT(30) DEF Next, ReplaceConfig
  <2>2. q = r
    BY <1>1, <2>1, StepIsLocal
  <2>3. Good(r) /\ request[r] \in RequestType /\ request[r].phase \in AtHandler
    <3>1. Good(r) /\ request[r] \in RequestType
      BY <1>1 DEF IInv, Typed
    <3>2. request[r].phase # "idle"
      BY <1>1, <3>1 DEF Good, Idle
    <3> QED
      BY <1>1, <3>1, <3>2, ZenonT(30) DEF Good
  <2>4. Handle(r) \/ Connect(r) \/ FailToConnect(r) \/ Stream(r) \/ Replay(r) \/ Respond(r) \/ Cut(r)
    BY <2>1, <2>2, <2>3, ZenonT(30)
       DEF Step, AtHandler, Route, Limit, Choose, Settle, Collect, Challenge
  <2>5. CASE Stream(r)
    <3>1. Shape(r).length \in Nat /\ request[r].phase # "idle"
      BY <1>1, <2>5, InFlight, GateConstants DEF Stream
    <3>2. request[r].replays = 0 /\ request[r].paid \notin Tokens =>
            ~TooLong(Site(r), request[r].bytes + Shape(r).length)
      BY <1>1, <2>3, <2>5, <3>1 DEF Good, Bound, Stream
    <3>3. request[r].replays \in Nat
      BY <2>3 DEF RequestType
    <3> QED
      BY <2>5, <3>2, <3>3 DEF Stream, Answer
  <2>6. CASE ~Stream(r)
    BY <2>4, <2>6 DEF Handle, Connect, FailToConnect, Replay, Respond, Cut, Goto, Answer
  <2> QED
    BY <2>5, <2>6
<1>2. IInv /\ [Next]_vars =>
        [\A r \in Requests :
           request[r].paid # None /\ request'[r].paid = None =>
             \/ answer' \in {0, 200, 502}
             \/ /\ answer' = 413
                /\ request[r].paid \in Tokens \/ request[r].replays > 0]_vars
  BY <1>1
<1> QED
  BY InitIInv, NextIInv, <1>2, PTL DEF Spec, PaidIsNotRefused

-----------------------------------------------------------------------------
(* Limits across reloads of the configuration: a reload that keeps a limit   *)
(* keeps the object that counts for it, one that changes it makes a new one, *)
(* so no sequence of reloads gives a limit twice.                            *)

Kinds == Limiters \union {"capacity"}

Limits(v, kind) == config[v].site # NoSite /\ config[v].site[kind] # None

\* Versions v to w state one limit.
Stated(kind, v, w) ==
  /\ Limits(v, kind)
  /\ \A u \in v .. w : config[u].site # NoSite /\ config[u].site[kind] = config[v].site[kind]

\* An object is made by a version and kept by versions that state its limit;
\* and versions in a row that state one limit have one object.
Lineage ==
  \A kind \in Kinds, v \in 1 .. Len(config) :
    /\ config[v][kind] \in 1 .. v
    /\ \A w \in Sharing(kind, v) : w # v =>
         Limits(v, kind) /\ Limits(w, kind) /\ config[w].site[kind] = config[v].site[kind]
    /\ \A w \in v .. Len(config) : Stated(kind, v, w) => w \in Sharing(kind, v)

\* An object lets pass what its limit allows, under whatever versions.
Spending ==
  \A kind \in Limiters, c \in Clients :
    /\ IsFiniteSet(Passages(kind, c, Versions))
    /\ \A v \in Versions : v > Len(config) => passes[kind][v][c] = 0
    /\ \A v \in 1 .. Len(config) : Limits(v, kind) =>
         Cardinality(Passages(kind, c, Sharing(kind, v))) <= config[v].site[kind].max

Permits == {r \in Requests : request[r].permit}

Holding(v, c) == {r \in Holders(v) : Shape(r).client = c}

\* A Capacity has out what its limit allows, in all and per client.
Occupancy ==
  /\ IsFiniteSet(Permits)
  /\ \A v \in 1 .. Len(config) : Limits(v, "capacity") =>
       /\ Cardinality(Holders(v)) <= config[v].site.capacity.max
       /\ \A c \in Clients :
            Cardinality(Holding(v, c)) <= PerClient(config[v].site.capacity.max)

LInv == Lineage /\ Spending /\ Occupancy

\* What a version has installed.
LEMMA VersionTyped ==
  ASSUME Typed, NEW v \in 1 .. Len(config)
  PROVE  /\ Len(config) \in Nat /\ v \in Versions /\ v \in Nat
         /\ config[v].site \in Sites \union {NoSite}
         /\ \A kind \in Kinds : config[v][kind] \in Nat
         /\ \A kind \in Kinds : Limits(v, kind) => config[v].site[kind].max \in Nat
<1>1. Len(config) \in Nat /\ v \in Versions /\ v \in Nat
  BY GateConstants DEF Typed, Versions
<1>2. config[v] \in Installed
  BY <1>1 DEF Typed
<1>3. \A kind \in Kinds : config[v][kind] \in Nat
  BY <1>2 DEF Kinds, Limiters, Installed
<1>4. config[v].site \in Sites \union {NoSite}
  BY <1>2 DEF Installed
<1>5. \A kind \in Kinds : Limits(v, kind) => config[v].site[kind].max \in Nat
  BY <1>4, GateConstants DEF Kinds, Limiters, Limits
<1> QED
  BY <1>1, <1>3, <1>4, <1>5

\* What a reload appends.
LEMMA Reloaded ==
  ASSUME Typed, NEW next \in Sites \union {NoSite}, ReplaceConfig(next)
  PROVE  LET n == Len(config)
         IN /\ n \in Nat /\ n \in 1 .. n /\ n + 1 \in Versions /\ Len(config') = n + 1
            /\ \A v \in 1 .. n : config'[v] = config[v]
            /\ config'[n + 1].site = next
            /\ \A kind \in Kinds :
                 config'[n + 1][kind] =
                   IF Keeps(kind, config[n].site, next) THEN config[n][kind] ELSE n + 1
            /\ UNCHANGED <<request, passes>>
<1> DEFINE old == config[Len(config)]
           Object(kind) == IF Keeps(kind, old.site, next) THEN old[kind] ELSE Len(config) + 1
           new == [site |-> next, payment_verification |-> Object("payment_verification"),
                   capacity |-> Object("capacity"), rate_limit |-> Object("rate_limit")]
<1>1. UNCHANGED <<request, passes>> /\ config' = Append(config, new) /\ Len(config) <= MaxReloads
  BY DEF ReplaceConfig
<1>2. new.site = next /\ \A kind \in Kinds : new[kind] = Object(kind)
  BY SMTT(30) DEF Kinds, Limiters
<1>3. /\ Len(config) \in Nat /\ 1 <= Len(config) /\ Len(config) + 1 \in Versions
  BY <1>1, GateConstants, SMTT(30) DEF Typed, Versions
<1> HIDE DEF new
<1>4. /\ Len(config') = Len(config) + 1
      /\ \A v \in 1 .. Len(config) : config'[v] = config[v]
      /\ config'[Len(config) + 1] = new
  BY <1>1, SMTT(30) DEF Typed
<1> QED
  BY <1>1, <1>2, <1>3, <1>4

\* The versions that share with an older one after a reload: those that did,
\* and the new one if it kept the object.
LEMMA SharingAfter ==
  ASSUME Typed, Lineage, NEW next \in Sites \union {NoSite}, ReplaceConfig(next),
         NEW kind \in Kinds, NEW v \in 1 .. Len(config)
  PROVE  LET n == Len(config)
             kept == Keeps(kind, config[n].site, next) /\ n \in Sharing(kind, v)
         IN Sharing(kind, v)' = Sharing(kind, v) \union (IF kept THEN {n + 1} ELSE {})
<1> DEFINE n == Len(config)
<1>1. /\ n \in Nat /\ n \in 1 .. n /\ Len(config') = n + 1
      /\ \A u \in 1 .. n : config'[u] = config[u]
      /\ config'[n + 1][kind] =
           IF Keeps(kind, config[n].site, next) THEN config[n][kind] ELSE n + 1
  BY Reloaded, ZenonT(30)
<1>2. \A u \in 1 .. n : config[u][kind] \in 1 .. u
  BY ZenonT(30) DEF Lineage
<1>3. 1 .. n + 1 = 1 .. n \union {n + 1}
  BY <1>1
<1> HIDE DEF n
<1>4. Sharing(kind, v)' = {u \in 1 .. n + 1 : config'[u][kind] = config[v][kind]}
  BY <1>1 DEF Sharing, n
<1>5. Sharing(kind, v) = {u \in 1 .. n : config[u][kind] = config[v][kind]}
  BY DEF Sharing, n
<1>6. config[v][kind] # n + 1
  BY <1>1, <1>2 DEF n
<1> QED
  BY <1>1, <1>3, <1>4, <1>5, <1>6 DEF n

\* Those that share with the new version.
LEMMA SharingNew ==
  ASSUME Typed, Lineage, NEW next \in Sites \union {NoSite}, ReplaceConfig(next),
         NEW kind \in Kinds, NEW n, n = Len(config)
  PROVE  Sharing(kind, n + 1)' =
           (IF Keeps(kind, config[n].site, next) THEN Sharing(kind, n) ELSE {}) \union {n + 1}
<1>1. /\ n \in Nat /\ n \in 1 .. n /\ Len(config') = n + 1
      /\ \A u \in 1 .. n : config'[u] = config[u]
      /\ config'[n + 1][kind] =
           IF Keeps(kind, config[n].site, next) THEN config[n][kind] ELSE n + 1
  BY Reloaded, ZenonT(30)
<1>2. \A u \in 1 .. n : config[u][kind] \in 1 .. u
  BY DEF Lineage
<1>3. 1 .. n + 1 = 1 .. n \union {n + 1}
  BY <1>1
<1>4. Sharing(kind, n + 1)' = {u \in 1 .. n + 1 : config'[u][kind] = config'[n + 1][kind]}
  BY <1>1 DEF Sharing
<1>5. Sharing(kind, n) = {u \in 1 .. n : config[u][kind] = config[n][kind]}
  BY DEF Sharing
<1>6. \A u \in 1 .. n : config[u][kind] # n + 1
  BY <1>1, <1>2
<1> QED
  BY <1>1, <1>3, <1>4, <1>5, <1>6

\* A reload makes an object or keeps one whose limit it states.
LEMMA LineageReloaded ==
  ASSUME Typed, Lineage, NEW next \in Sites \union {NoSite}, ReplaceConfig(next)
  PROVE  Lineage'
<1>0. PICK n : n = Len(config)
  BY Zenon
<1>1. /\ n \in Nat /\ n \in 1 .. n /\ Len(config') = n + 1
      /\ \A u \in 1 .. n : config'[u] = config[u]
      /\ config'[n + 1].site = next
      /\ \A kind \in Kinds : config'[n + 1][kind] =
           IF Keeps(kind, config[n].site, next) THEN config[n][kind] ELSE n + 1
  BY <1>0, Reloaded
<1>2. 1 .. n + 1 = 1 .. n \union {n + 1}
  BY <1>1
<1> SUFFICES ASSUME NEW kind \in Kinds, NEW v \in 1 .. n + 1
             PROVE  /\ config'[v][kind] \in 1 .. v
                    /\ \A w \in Sharing(kind, v)' : w # v =>
                         /\ Limits(v, kind)' /\ Limits(w, kind)'
                         /\ config'[w].site[kind] = config'[v].site[kind]
                    /\ \A w \in v .. n + 1 : Stated(kind, v, w)' => w \in Sharing(kind, v)'
  BY <1>1, ZenonT(30) DEF Lineage
<1>3. \A u \in 1 .. n :
        /\ config[u][kind] \in 1 .. u
        /\ \A w \in Sharing(kind, u) : w # u =>
             /\ Limits(u, kind) /\ Limits(w, kind)
             /\ config[w].site[kind] = config[u].site[kind]
        /\ \A w \in u .. n : Stated(kind, u, w) => w \in Sharing(kind, u)
  BY <1>0, ZenonT(30) DEF Lineage
<1>4. \A u \in 1 .. n : Limits(u, kind)' <=> Limits(u, kind)
  BY <1>1, ZenonT(30) DEF Limits
<1>5. Keeps(kind, config[n].site, next) =>
        Limits(n, kind) /\ Limits(n + 1, kind)' /\ config'[n + 1].site[kind] = config[n].site[kind]
  BY <1>1 DEF Keeps, Limits
<1>6. \A u \in 1 .. n : Sharing(kind, u) \subseteq 1 .. n /\ u \in Sharing(kind, u)
  BY <1>0 DEF Sharing
<1>7. CASE v \in 1 .. n
  <2>1. Sharing(kind, v)' = Sharing(kind, v) \union
          (IF Keeps(kind, config[n].site, next) /\ n \in Sharing(kind, v) THEN {n + 1} ELSE {})
    BY <1>0, <1>7, SharingAfter
  <2>2. config'[v][kind] \in 1 .. v
    BY <1>1, <1>3, <1>7, ZenonT(30)
  <2>3. ASSUME NEW w \in Sharing(kind, v)', w # v
        PROVE  /\ Limits(v, kind)' /\ Limits(w, kind)'
               /\ config'[w].site[kind] = config'[v].site[kind]
    <3>1. CASE w \in Sharing(kind, v)
      BY <1>1, <1>3, <1>4, <1>6, <1>7, <2>3, <3>1, ZenonT(30)
    <3>2. CASE w = n + 1 /\ Keeps(kind, config[n].site, next) /\ n \in Sharing(kind, v)
      BY <1>1, <1>3, <1>4, <1>5, <1>7, <3>2, ZenonT(30)
    <3> QED
      BY <2>1, <3>1, <3>2
  <2>4. ASSUME NEW w \in v .. n + 1, Stated(kind, v, w)'
        PROVE  w \in Sharing(kind, v)'
    <3>1. CASE w \in v .. n
      <4>1. Stated(kind, v, w)
        BY <1>1, <1>4, <1>7, <2>4, <3>1, SMTT(30) DEF Stated
      <4> QED
        BY <1>3, <1>7, <2>1, <3>1, <4>1, ZenonT(30)
    <3>2. CASE w = n + 1
      <4>1. Stated(kind, v, n)
        BY <1>1, <1>4, <1>7, <2>4, <3>2, SMTT(30) DEF Stated
      <4>2. n \in Sharing(kind, v)
        BY <1>1, <1>3, <1>7, <4>1, SMTT(30)
      <4>3. /\ next # NoSite /\ next[kind] = config[v].site[kind]
            /\ Limits(v, kind)
        BY <1>1, <1>4, <1>7, <2>4, <3>2, ZenonT(30) DEF Stated
      <4>4. config[n].site # NoSite /\ config[n].site[kind] = config[v].site[kind]
        BY <1>1, <1>7, <4>1, SMTT(30) DEF Stated
      <4>5. Keeps(kind, config[n].site, next)
        BY <4>3, <4>4 DEF Keeps, Limits
      <4> QED
        BY <2>1, <3>2, <4>2, <4>5
    <3> QED
      BY <1>1, <1>7, <3>1, <3>2
  <2> QED
    BY <2>2, <2>3, <2>4
<1>8. CASE v = n + 1
  <2>1. Sharing(kind, v)' =
          (IF Keeps(kind, config[n].site, next) THEN Sharing(kind, n) ELSE {}) \union {n + 1}
    BY <1>0, <1>8, SharingNew
  <2>2. config'[v][kind] \in 1 .. v
    BY <1>1, <1>3, <1>8, SMTT(30)
  <2>3. ASSUME NEW w \in Sharing(kind, v)', w # v
        PROVE  /\ Limits(v, kind)' /\ Limits(w, kind)'
               /\ config'[w].site[kind] = config'[v].site[kind]
    <3>1. Keeps(kind, config[n].site, next) /\ w \in Sharing(kind, n) /\ w \in 1 .. n
      BY <1>1, <1>6, <1>8, <2>1, <2>3, ZenonT(30)
    <3>2. Limits(w, kind) /\ config[w].site[kind] = config[n].site[kind]
      BY <1>1, <1>3, <1>5, <3>1, ZenonT(30)
    <3> QED
      BY <1>1, <1>4, <1>5, <1>8, <3>1, <3>2, ZenonT(30)
  <2>4. \A w \in v .. n + 1 : w \in Sharing(kind, v)'
    BY <1>1, <1>8, <2>1, SMTT(30)
  <2> QED
    BY <2>2, <2>3, <2>4, ZenonT(30)
<1> QED
  BY <1>2, <1>7, <1>8, ZenonT(30)

\* A pass is known by the version it was under and its number.
LEMMA PassagesAre ==
  ASSUME NEW kind, NEW c, NEW V, NEW p
  PROVE  p \in Passages(kind, c, V) <=>
           \E v \in V : \E i \in 1 .. passes[kind][v][c] : p = <<v, i>>
  BY DEF Passages

\* Where nothing passed there are no passes.
LEMMA NoPassages ==
  ASSUME NEW kind, NEW c, NEW V, NEW U, V \subseteq U,
         \A v \in U : v \notin V => passes[kind][v][c] = 0
  PROVE  Passages(kind, c, U) = Passages(kind, c, V)
<1>1. ASSUME NEW p PROVE p \in Passages(kind, c, U) <=> p \in Passages(kind, c, V)
  BY PassagesAre
<1> QED
  BY <1>1 DEF Passages

\* Passes under fewer versions are fewer, and finitely many.
LEMMA FewerPassages ==
  ASSUME NEW kind, NEW c, NEW V, NEW W, V \subseteq W, IsFiniteSet(Passages(kind, c, W))
  PROVE  /\ IsFiniteSet(Passages(kind, c, V))
         /\ Cardinality(Passages(kind, c, V)) \in Nat
         /\ Cardinality(Passages(kind, c, W)) \in Nat
         /\ Cardinality(Passages(kind, c, V)) <= Cardinality(Passages(kind, c, W))
<1>1. Passages(kind, c, V) \in SUBSET Passages(kind, c, W)
  BY ZenonT(30) DEF Passages
<1> QED
  BY <1>1, FS_Subset, FS_CardinalityType

\* A reload spends nothing: a limiter that is kept has spent what it had, and
\* a new one nothing.
LEMMA SpendingReloaded ==
  ASSUME Typed, Lineage, Spending, NEW next \in Sites \union {NoSite}, ReplaceConfig(next)
  PROVE  Spending'
<1>0. PICK n : n = Len(config)
  BY Zenon
<1>1. /\ n \in Nat /\ n \in 1 .. n /\ n + 1 \in Versions /\ Len(config') = n + 1
      /\ \A u \in 1 .. n : config'[u] = config[u]
      /\ config'[n + 1].site = next
      /\ UNCHANGED passes
  BY <1>0, Reloaded, ZenonT(30)
<1> SUFFICES ASSUME NEW kind \in Limiters, NEW c \in Clients
             PROVE  /\ IsFiniteSet(Passages(kind, c, Versions)')
                    /\ \A v \in Versions : v > n + 1 => passes'[kind][v][c] = 0
                    /\ \A v \in 1 .. n + 1 : Limits(v, kind)' =>
                         Cardinality(Passages(kind, c, Sharing(kind, v))')
                           <= config'[v].site[kind].max
  BY <1>1, ZenonT(30) DEF Spending
<1>2. /\ IsFiniteSet(Passages(kind, c, Versions))
      /\ \A v \in Versions : v > n => passes[kind][v][c] = 0
      /\ \A v \in 1 .. n : Limits(v, kind) =>
           Cardinality(Passages(kind, c, Sharing(kind, v))) <= config[v].site[kind].max
  BY <1>0, ZenonT(30) DEF Spending
<1>3. Passages(kind, c, Versions)' = Passages(kind, c, Versions)
  BY <1>1, ZenonT(30) DEF Passages
<1>4. \A v \in Versions : v > n + 1 => passes'[kind][v][c] = 0
  BY <1>1, <1>2, SMTT(30) DEF Versions
<1>5. kind \in Kinds
  BY DEF Kinds
<1>6. \A v \in {n + 1} : passes[kind][v][c] = 0
  BY <1>1, <1>2, SMTT(30)
<1>7. ASSUME NEW v \in 1 .. n + 1, Limits(v, kind)'
      PROVE  Cardinality(Passages(kind, c, Sharing(kind, v))') <= config'[v].site[kind].max
  <2>0. Passages(kind, c, Sharing(kind, v))' = Passages(kind, c, Sharing(kind, v)')
    BY <1>1, ZenonT(30) DEF Passages
  <2>1. CASE v \in 1 .. n
    <3>1. PICK W \in SUBSET {n + 1} : Sharing(kind, v)' = Sharing(kind, v) \union W
      BY <1>0, <1>5, <2>1, SharingAfter, Zenon
    <3>2. Passages(kind, c, Sharing(kind, v)') = Passages(kind, c, Sharing(kind, v))
      <4>1. /\ Sharing(kind, v) \subseteq Sharing(kind, v)'
            /\ \A w \in Sharing(kind, v)' : w \notin Sharing(kind, v) => passes[kind][w][c] = 0
        BY <1>6, <3>1, ZenonT(30)
      <4> QED
        BY <4>1, NoPassages, SMTT(30)
    <3>3. Limits(v, kind) /\ config'[v].site[kind] = config[v].site[kind]
      BY <1>1, <1>7, <2>1, ZenonT(30) DEF Limits
    <3> QED
      BY <1>2, <2>0, <2>1, <3>2, <3>3, ZenonT(30)
  <2>2. CASE v = n + 1 /\ Keeps(kind, config[n].site, next)
    <3>1. PICK W \in SUBSET {n + 1} : Sharing(kind, v)' = Sharing(kind, n) \union W
      BY <1>0, <1>5, <2>2, SharingNew, Zenon
    <3>2. Passages(kind, c, Sharing(kind, v)') = Passages(kind, c, Sharing(kind, n))
      <4>1. /\ Sharing(kind, n) \subseteq Sharing(kind, v)'
            /\ \A w \in Sharing(kind, v)' : w \notin Sharing(kind, n) => passes[kind][w][c] = 0
        BY <1>6, <3>1, ZenonT(30)
      <4> QED
        BY <4>1, NoPassages, SMTT(30)
    <3>3. Limits(n, kind) /\ config'[v].site[kind] = config[n].site[kind]
      BY <1>1, <2>2, ZenonT(30) DEF Limits, Keeps
    <3> QED
      BY <1>1, <1>2, <2>0, <3>2, <3>3, ZenonT(30)
  <2>3. CASE v = n + 1 /\ ~Keeps(kind, config[n].site, next)
    <3>1. Sharing(kind, v)' = {n + 1}
      BY <1>0, <1>5, <2>3, SharingNew, ZenonT(30)
    <3>2. Passages(kind, c, {n + 1}) = {}
      BY <1>6, SMTT(30) DEF Passages
    <3>3. next # NoSite /\ next[kind] # None /\ config'[v].site[kind] = next[kind]
      BY <1>1, <1>7, <2>3, ZenonT(30) DEF Limits
    <3>4. next[kind].max \in Nat
      BY <3>3, GateConstants, ZenonT(30) DEF Limiters
    <3>5. Cardinality(Passages(kind, c, Sharing(kind, v))') = 0
      BY <2>0, <3>1, <3>2, FS_EmptySet
    <3> QED
      BY <3>3, <3>4, <3>5, SMTT(30)
  <2> QED
    BY <1>1, <2>1, <2>2, <2>3, SMTT(30)
<1> QED
  BY <1>2, <1>3, <1>4, <1>7, ZenonT(30)

\* One more pass adds itself to the passes under its version.
LEMMA OnePassage ==
  ASSUME IInv, NEW r \in Requests, request[r].phase # "idle", NEW l \in Limiters, Passed(l, r),
         NEW kind \in Limiters, NEW d \in Clients, NEW V \in SUBSET Versions
  PROVE  LET v == request[r].version
             c == Shape(r).client
         IN /\ \A w \in Versions : w # v => passes'[kind][w][d] = passes[kind][w][d]
            /\ (kind = l /\ d = c /\ v \in V) =>
                 \E fresh : /\ fresh \notin Passages(kind, d, V)
                           /\ Passages(kind, d, V)' = Passages(kind, d, V) \union {fresh}
            /\ ~(kind = l /\ d = c /\ v \in V) => Passages(kind, d, V)' = Passages(kind, d, V)
<1> DEFINE v == request[r].version
           c == Shape(r).client
<1>1. v \in Versions /\ c \in Clients /\ passes \in PassesType
  BY InFlight DEF IInv, Typed
<1>2. passes' = OneMore(passes, l, v, c)
  BY ZenonT(30) DEF Passed, OneMore
<1> HIDE DEF v, c
<1>3. /\ passes'[l][v][c] = passes[l][v][c] + 1
      /\ \A w \in Versions :
           kind # l \/ w # v \/ d # c => passes'[kind][w][d] = passes[kind][w][d]
  <2>1. passes'[l][v][c] = passes[l][v][c] + 1
    BY <1>1, <1>2, Counted, SMTT(30)
  <2>2. ASSUME NEW w \in Versions, kind # l \/ w # v \/ d # c
        PROVE  passes'[kind][w][d] = passes[kind][w][d]
    BY <1>1, <1>2, <2>2, Counted, SMTT(30)
  <2> QED
    BY <2>1, <2>2, ZenonT(30)
<1>4. passes[l][v][c] \in Nat
  BY <1>1, Counts
<1>5. CASE ~(kind = l /\ d = c /\ v \in V)
  <2>1. \A w \in V : passes'[kind][w][d] = passes[kind][w][d]
    BY <1>3, <1>5, ZenonT(30)
  <2>2. Passages(kind, d, V)' = Passages(kind, d, V)
    BY <2>1, ZenonT(30) DEF Passages
  <2> QED
    BY <1>3, <1>5, <2>2, ZenonT(30) DEF v, c
<1>6. CASE kind = l /\ d = c /\ v \in V
  <2> DEFINE fresh == <<v, passes[l][v][c] + 1>>
  <2>1. fresh \notin Passages(kind, d, V)
    BY <1>4, <1>6, PassagesAre, SMTT(30)
  <2>2. ASSUME NEW p
        PROVE  p \in Passages(kind, d, V)' <=> p \in Passages(kind, d, V) \/ p = fresh
    <3>1. p \in Passages(kind, d, V)' <=>
            \E w \in V : \E i \in 1 .. passes'[kind][w][d] : p = <<w, i>>
      BY SMTT(30) DEF Passages
    <3>2. p \in Passages(kind, d, V) <=>
            \E w \in V : \E i \in 1 .. passes[kind][w][d] : p = <<w, i>>
      BY SMTT(30) DEF Passages
    <3>3. \A w \in V : w # v => passes'[kind][w][d] = passes[kind][w][d]
      BY <1>3, ZenonT(30)
    <3>4. 1 .. passes'[l][v][c] = 1 .. passes[l][v][c] \union {passes[l][v][c] + 1}
      BY <1>3, <1>4, SMTT(30)
    <3> QED
      BY <1>6, <3>1, <3>2, <3>3, <3>4, ZenonT(30)
  <2> HIDE DEF fresh
  <2>3. Passages(kind, d, V)' = Passages(kind, d, V) \union {fresh}
    BY <2>2, ZenonT(30) DEF Passages
  <2> QED
    BY <1>3, <1>6, <2>1, <2>3, ZenonT(30) DEF v, c
<1> QED
  BY <1>5, <1>6, ZenonT(30) DEF v, c

\* A pass that the limiter allows leaves it within its limit.
LEMMA SpendingPassed ==
  ASSUME IInv, Lineage, Spending, NEW r \in Requests, request[r].phase # "idle",
         NEW l \in Limiters, Allowed(l, r), Passed(l, r), UNCHANGED config
  PROVE  Spending'
<1>0. PICK v, c : v = request[r].version /\ c = Shape(r).client
  OBVIOUS
<1>1. Typed /\ Routed(r) /\ v \in 1 .. Len(config) /\ v \in Versions
  BY <1>0, InFlight, ZenonT(30) DEF IInv, Routed
<1> SUFFICES ASSUME NEW kind \in Limiters, NEW d \in Clients
             PROVE  /\ IsFiniteSet(Passages(kind, d, Versions)')
                    /\ \A w \in Versions : w > Len(config) => passes'[kind][w][d] = 0
                    /\ \A w \in 1 .. Len(config) : Limits(w, kind)' =>
                         Cardinality(Passages(kind, d, Sharing(kind, w))')
                           <= config'[w].site[kind].max
  BY ZenonT(30) DEF Spending
<1>2. /\ IsFiniteSet(Passages(kind, d, Versions))
      /\ \A w \in Versions : w > Len(config) => passes[kind][w][d] = 0
      /\ \A w \in 1 .. Len(config) : Limits(w, kind) =>
           Cardinality(Passages(kind, d, Sharing(kind, w))) <= config[w].site[kind].max
  BY ZenonT(30) DEF Spending
<1>3. ASSUME NEW V \in SUBSET Versions
      PROVE  /\ \A w \in Versions : w # v => passes'[kind][w][d] = passes[kind][w][d]
             /\ (kind = l /\ d = c /\ v \in V) =>
                  \E fresh : /\ fresh \notin Passages(kind, d, V)
                            /\ Passages(kind, d, V)' = Passages(kind, d, V) \union {fresh}
             /\ ~(kind = l /\ d = c /\ v \in V) => Passages(kind, d, V)' = Passages(kind, d, V)
  BY <1>0, OnePassage
<1>4. IsFiniteSet(Passages(kind, d, Versions)')
  BY <1>2, <1>3, FS_AddElement, SMTT(30)
<1>5. \A w \in Versions : w > Len(config) => passes'[kind][w][d] = 0
  BY <1>1, <1>2, <1>3 DEF Typed
<1>6. ASSUME NEW w \in 1 .. Len(config), Limits(w, kind)'
      PROVE  Cardinality(Passages(kind, d, Sharing(kind, w))') <= config'[w].site[kind].max
  <2>0. PICK V : V = Sharing(kind, w)
    BY ZenonT(30)
  <2>1. V \subseteq Versions /\ Sharing(kind, w)' = V /\ Limits(w, kind)
    BY <1>1, <1>6, <2>0, VersionTyped, ZenonT(30) DEF Sharing, Limits
  <2>2. Passages(kind, d, Sharing(kind, w))' = Passages(kind, d, V)'
    BY <2>1, ZenonT(30) DEF Passages
  <2>3. Cardinality(Passages(kind, d, V)) <= config[w].site[kind].max
    BY <1>2, <2>0, <2>1, ZenonT(30)
  <2>4. CASE ~(kind = l /\ d = c /\ v \in V)
    BY <1>3, <2>1, <2>2, <2>3, <2>4, ZenonT(30)
  <2>5. CASE kind = l /\ d = c /\ v \in V
    <3>1. Sharing(kind, v) = V
      BY <1>1, <2>0, <2>5, ZenonT(30) DEF Sharing
    <3>2. Cardinality(Passages(kind, d, V)) < config[v].site[kind].max
      BY <1>0, <2>5, <3>1, ZenonT(30) DEF Allowed, Site
    <3>3. config[v].site[kind] = config[w].site[kind]
      BY <2>0, <2>5, ZenonT(30) DEF Lineage, Kinds
    <3>4. PICK fresh : /\ fresh \notin Passages(kind, d, V)
                       /\ Passages(kind, d, V)' = Passages(kind, d, V) \union {fresh}
      BY <1>3, <2>1, <2>5, ZenonT(30)
    <3>5. IsFiniteSet(Passages(kind, d, V)) /\ Cardinality(Passages(kind, d, V)) \in Nat
      BY <1>2, <2>1, FewerPassages, ZenonT(30)
    <3>6. Cardinality(Passages(kind, d, V)') = Cardinality(Passages(kind, d, V)) + 1
      BY <3>4, <3>5, FS_AddElement, Zenon
    <3>7. config[w].site[kind].max \in Nat
      BY <1>1, <2>1, VersionTyped, ZenonT(30) DEF Kinds
    <3> QED
      BY <2>2, <3>2, <3>3, <3>5, <3>6, <3>7
  <2> QED
    BY <2>4, <2>5, ZenonT(30)
<1> QED
  BY <1>4, <1>5, <1>6, ZenonT(30)

\* A permit is held by a request in flight.
LEMMA PermitsInFlight ==
  ASSUME IInv, NEW r \in Requests, request[r].permit
  PROVE  request[r].version \in 1 .. Len(config) /\ Shape(r).client \in Clients
<1>1. request[r].phase # "idle"
  BY DEF IInv, Good, Idle
<1> QED
  BY <1>1, InFlight, ZenonT(30) DEF Routed

\* Permits out of a Capacity are finitely many.
LEMMA FiniteHolders ==
  ASSUME Occupancy, NEW S \in SUBSET Permits
  PROVE  IsFiniteSet(S) /\ Cardinality(S) \in Nat
  BY FS_Subset, FS_CardinalityType DEF Occupancy

\* A reload hands out no permit: a Capacity that is kept has out what it had,
\* and a new one nothing.
LEMMA OccupancyReloaded ==
  ASSUME IInv, Lineage, Occupancy, NEW next \in Sites \union {NoSite}, ReplaceConfig(next)
  PROVE  Occupancy'
<1>0. PICK n : n = Len(config)
  BY Zenon
<1>1. /\ n \in Nat /\ n \in 1 .. n /\ Len(config') = n + 1
      /\ \A u \in 1 .. n : config'[u] = config[u]
      /\ config'[n + 1].site = next
      /\ UNCHANGED request
  BY <1>0, Reloaded, ZenonT(30) DEF IInv
<1>2. Typed /\ "capacity" \in Kinds
  BY DEF Kinds, IInv
<1>3. IsFiniteSet(Permits')
  BY <1>1, ZenonT(30) DEF Occupancy, Permits
<1>4. \A r \in Requests : request[r].permit => request[r].version \in 1 .. n
  BY <1>0, PermitsInFlight, ZenonT(30)
<1>5. ASSUME NEW v \in 1 .. n + 1, Limits(v, "capacity")'
      PROVE  /\ Cardinality(Holders(v)') <= config'[v].site.capacity.max
             /\ \A c \in Clients :
                  Cardinality(Holding(v, c)') <= PerClient(config'[v].site.capacity.max)
  <2>1. ASSUME NEW w \in 1 .. n, Limits(w, "capacity"),
               Sharing("capacity", v)' \subseteq Sharing("capacity", w) \union {n + 1},
               Sharing("capacity", w) \subseteq Sharing("capacity", v)',
               config'[v].site.capacity = config[w].site.capacity
        PROVE  /\ Cardinality(Holders(v)') <= config'[v].site.capacity.max
               /\ \A c \in Clients :
                    Cardinality(Holding(v, c)') <= PerClient(config'[v].site.capacity.max)
    <3>1. \A u \in 1 .. n : u \in Sharing("capacity", v)' <=> u \in Sharing("capacity", w)
      BY <1>1, <2>1
    <3>2. Holders(v)' = Holders(w)
      BY <1>1, <1>4, <3>1 DEF Holders
    <3>3. \A c \in Clients : Holding(v, c)' = Holding(w, c)
      BY <1>1, <3>2 DEF Holding, Shape
    <3>4. /\ Cardinality(Holders(w)) <= config[w].site.capacity.max
          /\ \A c \in Clients :
               Cardinality(Holding(w, c)) <= PerClient(config[w].site.capacity.max)
      BY <1>0, <2>1, ZenonT(30) DEF Occupancy
    <3> QED
      BY <2>1, <3>2, <3>3, <3>4, ZenonT(30)
  <2>2. CASE v \in 1 .. n
    <3>1. /\ Sharing("capacity", v)' \subseteq Sharing("capacity", v) \union {n + 1}
          /\ Sharing("capacity", v) \subseteq Sharing("capacity", v)'
      BY <1>0, <1>2, <2>2, SharingAfter
    <3>2. Limits(v, "capacity") /\ config'[v].site.capacity = config[v].site.capacity
      BY <1>1, <1>5, <2>2 DEF Limits
    <3> QED
      BY <2>1, <2>2, <3>1, <3>2, ZenonT(30)
  <2>3. CASE v = n + 1 /\ Keeps("capacity", config[n].site, next)
    <3>1. Sharing("capacity", v)' = Sharing("capacity", n) \union {n + 1}
      BY <1>0, <1>2, <2>3, SharingNew
    <3>2. Limits(n, "capacity") /\ config'[v].site.capacity = config[n].site.capacity
      BY <1>1, <2>3 DEF Limits, Keeps
    <3> QED
      BY <1>1, <2>1, <3>1, <3>2, ZenonT(30)
  <2>4. CASE v = n + 1 /\ ~Keeps("capacity", config[n].site, next)
    <3>1. Sharing("capacity", v)' = {n + 1}
      BY <1>0, <1>2, <2>4, SharingNew
    <3>2. Holders(v)' = {}
      BY <1>1, <1>4, <3>1 DEF Holders
    <3>3. \A c \in Clients : Holding(v, c)' = {}
      BY <3>2 DEF Holding
    <3>4. next # NoSite /\ next.capacity # None /\ config'[v].site = next
      BY <1>1, <1>5, <2>4 DEF Limits
    <3>5. next.capacity.max \in Nat
      BY <3>4, GateConstants
    <3>6. PerClient(next.capacity.max) \in Nat
      BY <3>5 DEF PerClient
    <3>7. Cardinality({}) = 0
      BY FS_EmptySet
    <3> QED
      BY <3>2, <3>3, <3>4, <3>5, <3>6, <3>7, SMTT(30)
  <2> QED
    BY <1>1, <2>2, <2>3, <2>4
<1> QED
  BY <1>1, <1>3, <1>5, ZenonT(30) DEF Occupancy

\* No permit is handed out.
NoGrant ==
  \A q \in Requests : request'[q].permit =>
    /\ request[q].permit
    /\ request'[q].version = request[q].version
    /\ request'[q].shape = request[q].shape

\* Request r is given a permit, or asked for none.
Grant(r) ==
  /\ request[r].phase # "idle"
  /\ Site(r).capacity # None => TryAcquire(r)
  /\ \A q \in Requests \ {r} : request'[q] = request[q]
  /\ request'[r].permit => Site(r).capacity # None
  /\ request'[r].version = request[r].version
  /\ request'[r].shape = request[r].shape

\* Permits that are kept or given back keep a Capacity within its limit.
LEMMA OccupancyKept ==
  ASSUME IInv, Occupancy, UNCHANGED config, NoGrant
  PROVE  Occupancy'
<1>1. Permits' \in SUBSET Permits
  BY ZenonT(30) DEF Permits, NoGrant
<1>2. IsFiniteSet(Permits')
  BY <1>1, FiniteHolders
<1>3. ASSUME NEW v \in 1 .. Len(config), Limits(v, "capacity")
      PROVE  /\ Cardinality(Holders(v)') <= config[v].site.capacity.max
             /\ \A c \in Clients :
                  Cardinality(Holding(v, c)') <= PerClient(config[v].site.capacity.max)
  <2>0. PICK max : max = config[v].site.capacity.max
    OBVIOUS
  <2>1. max \in Nat /\ PerClient(max) \in Nat
    <3>1. max \in Nat
      BY <1>3, <2>0, VersionTyped DEF IInv, Kinds
    <3> QED
      BY <3>1 DEF PerClient
  <2>2. Holders(v)' \in SUBSET Holders(v) /\ Holders(v) \in SUBSET Permits
    BY ZenonT(30) DEF Holders, Permits, NoGrant, Sharing
  <2>3. IsFiniteSet(Holders(v)) /\ Cardinality(Holders(v)) \in Nat
    BY <2>2, FiniteHolders
  <2>4. /\ Cardinality(Holders(v)) <= max
        /\ \A c \in Clients : Cardinality(Holding(v, c)) <= PerClient(max)
    BY <1>3, <2>0 DEF Occupancy
  <2>5. Cardinality(Holders(v)') <= Cardinality(Holders(v)) /\ Cardinality(Holders(v)') \in Nat
    BY <2>2, <2>3, FS_Subset, FS_CardinalityType
  <2>6. ASSUME NEW c \in Clients
        PROVE  Cardinality(Holding(v, c)') <= PerClient(max)
    <3>1. Holding(v, c)' \in SUBSET Holding(v, c)
      BY <2>2, ZenonT(30) DEF Holding, Holders, Shape, NoGrant
    <3>2. Holding(v, c) \in SUBSET Permits
      BY <2>2 DEF Holding
    <3>3. IsFiniteSet(Holding(v, c)) /\ Cardinality(Holding(v, c)) \in Nat
      BY <3>2, FiniteHolders
    <3>4. /\ Cardinality(Holding(v, c)') <= Cardinality(Holding(v, c))
          /\ Cardinality(Holding(v, c)') \in Nat
      BY <3>1, <3>3, FS_Subset, FS_CardinalityType
    <3> QED
      BY <2>1, <2>4, <3>3, <3>4
  <2> QED
    BY <2>0, <2>1, <2>3, <2>4, <2>5, <2>6, SMTT(30)
<1> QED
  BY <1>2, <1>3, ZenonT(30) DEF Occupancy, Limits

\* One element more is at most one more.
LEMMA OneMoreHolder ==
  ASSUME NEW S, NEW T, NEW x, IsFiniteSet(S), T \subseteq S \union {x}
  PROVE  /\ IsFiniteSet(T) /\ Cardinality(T) \in Nat /\ Cardinality(S) \in Nat
         /\ Cardinality(T) <= Cardinality(S) + 1
         /\ T \subseteq S => Cardinality(T) <= Cardinality(S)
<1>1. /\ IsFiniteSet(S \union {x}) /\ Cardinality(S) \in Nat
      /\ Cardinality(S \union {x}) \in Nat
      /\ Cardinality(S \union {x}) <= Cardinality(S) + 1
  BY FS_AddElement, FS_CardinalityType, SMTT(30)
<1>2. /\ IsFiniteSet(T) /\ Cardinality(T) \in Nat
      /\ Cardinality(T) <= Cardinality(S \union {x})
  BY <1>1, FS_Subset, FS_CardinalityType
<1>3. T \subseteq S => Cardinality(T) <= Cardinality(S)
  BY FS_Subset
<1> QED
  BY <1>1, <1>2, <1>3

\* A permit that try_acquire grants leaves its Capacity within its limit,
\* whichever of the versions that share it is asked.
LEMMA OccupancyGranted ==
  ASSUME IInv, Lineage, Occupancy, UNCHANGED config, NEW r \in Requests, Grant(r)
  PROVE  Occupancy'
<1>0. PICK u : u = request[r].version
  OBVIOUS
<1>1. u \in 1 .. Len(config) /\ "capacity" \in Kinds
  BY <1>0, InFlight, ZenonT(30) DEF Grant, Routed, Kinds
<1>2. IsFiniteSet(Permits')
  <2>1. Permits' \subseteq Permits \union {r}
    BY DEF Permits, Grant
  <2> QED
    BY <2>1, OneMoreHolder, Zenon DEF Occupancy
<1>3. ASSUME NEW v \in 1 .. Len(config), Limits(v, "capacity")
      PROVE  /\ Cardinality(Holders(v)') <= config[v].site.capacity.max
             /\ \A c \in Clients :
                  Cardinality(Holding(v, c)') <= PerClient(config[v].site.capacity.max)
  <2>0. PICK max : max = config[v].site.capacity.max
    OBVIOUS
  <2>1. max \in Nat /\ PerClient(max) \in Nat
    <3>1. max \in Nat
      BY <1>3, <2>0, VersionTyped DEF IInv, Kinds
    <3> QED
      BY <3>1 DEF PerClient
  <2>2. /\ Cardinality(Holders(v)) <= max
        /\ \A c \in Clients : Cardinality(Holding(v, c)) <= PerClient(max)
    BY <1>3, <2>0, ZenonT(30) DEF Occupancy
  <2>3. Sharing("capacity", v)' = Sharing("capacity", v)
    BY ZenonT(30) DEF Sharing
  <2>4. Holders(v) \in SUBSET Permits /\ \A c \in Clients : Holding(v, c) \in SUBSET Permits
    BY DEF Holders, Holding, Permits
  <2>5. IsFiniteSet(Holders(v)) /\ \A c \in Clients : IsFiniteSet(Holding(v, c))
    BY <2>4, FiniteHolders
  <2>6. Holders(v)' \subseteq Holders(v) \union {r}
    BY <2>3, ZenonT(30) DEF Holders, Grant
  <2>7. \A c \in Clients : Holding(v, c)' \subseteq Holding(v, c) \union {r}
    BY <2>3, ZenonT(30) DEF Holding, Holders, Shape, Grant
  <2>8. /\ Cardinality(Holders(v)) \in Nat /\ Cardinality(Holders(v)') \in Nat
        /\ Cardinality(Holders(v)') <= Cardinality(Holders(v)) + 1
        /\ Holders(v)' \subseteq Holders(v) => Cardinality(Holders(v)') <= Cardinality(Holders(v))
    BY <2>5, <2>6, OneMoreHolder, Zenon
  <2>9. ASSUME NEW c \in Clients
        PROVE  /\ Cardinality(Holding(v, c)) \in Nat /\ Cardinality(Holding(v, c)') \in Nat
               /\ Cardinality(Holding(v, c)') <= Cardinality(Holding(v, c)) + 1
               /\ Holding(v, c)' \subseteq Holding(v, c) =>
                    Cardinality(Holding(v, c)') <= Cardinality(Holding(v, c))
    BY <2>5, <2>7, OneMoreHolder, Zenon
  <2>10. CASE r \notin Holders(v)'
    <3>1. Holders(v)' \subseteq Holders(v)
      BY <2>6, <2>10
    <3>2. \A c \in Clients : Holding(v, c)' \subseteq Holding(v, c)
      BY <2>7, <2>10, ZenonT(30) DEF Holding
    <3> QED
      BY <2>0, <2>1, <2>2, <2>8, <2>9, <3>1, <3>2, SMTT(30)
  <2>11. CASE r \in Holders(v)'
    <3>1. u \in Sharing("capacity", v) /\ Site(r).capacity # None
      BY <1>0, <2>3, <2>11, ZenonT(30) DEF Holders, Grant
    <3>2. Sharing("capacity", u) = Sharing("capacity", v)
      BY <3>1 DEF Sharing
    <3>3. Site(r).capacity = config[v].site.capacity
      BY <1>0, <1>1, <3>1, ZenonT(30) DEF Lineage, Site
    <3>4. /\ Cardinality({h \in Holders(u) : Shape(h).client = Shape(r).client}) < PerClient(max)
          /\ Cardinality(Holders(u)) < max
      BY <1>0, <2>0, <3>1, <3>3, ZenonT(30) DEF TryAcquire, Grant
    <3>5. Holders(u) = Holders(v)
      BY <3>2 DEF Holders
    <3>6. Cardinality(Holders(v)') <= max
      BY <2>1, <2>8, <3>4, <3>5
    <3>7. ASSUME NEW c \in Clients
          PROVE  Cardinality(Holding(v, c)') <= PerClient(max)
      <4>1. CASE c = Shape(r).client
        <5>1. Cardinality(Holding(v, c)) < PerClient(max)
          BY <3>4, <3>5, <4>1 DEF Holding
        <5> QED
          BY <2>1, <2>9, <5>1
      <4>2. CASE c # Shape(r).client
        <5>1. Holding(v, c)' \subseteq Holding(v, c)
          BY <2>7, <4>2, ZenonT(30) DEF Holding, Shape, Grant
        <5> QED
          BY <2>1, <2>2, <2>9, <5>1
      <4> QED
        BY <4>1, <4>2
    <3> QED
      BY <2>0, <3>6, <3>7
  <2> QED
    BY <2>10, <2>11, ZenonT(30)
<1> QED
  BY <1>2, <1>3, ZenonT(30) DEF Occupancy, Limits

-----------------------------------------------------------------------------
(* What the steps of a request do to passes and permits.                    *)

\* An answer gives the permit back.
LEMMA AnswerGrantsNone ==
  ASSUME Typed, NEW r \in Requests, NEW status, Answer(r, status)
  PROVE  NoGrant
<1>1. \A q \in Requests : request'[q] = IF q = r THEN Idle ELSE request[q]
  BY DEF Answer, Typed
<1>2. ~Idle.permit
  BY DEF Idle
<1> QED
  BY <1>1, <1>2 DEF NoGrant

\* A request that goes on keeps what it has.
LEMMA SameGrantsNone ==
  ASSUME Typed, NEW r \in Requests, NEW x, request' = [request EXCEPT ![r] = x],
         x.permit => /\ request[r].permit
                     /\ x.version = request[r].version /\ x.shape = request[r].shape
  PROVE  NoGrant
<1>1. \A q \in Requests : request'[q] = IF q = r THEN x ELSE request[q]
  BY DEF Typed
<1> QED
  BY <1>1 DEF NoGrant

\* Every step of a request but Limit hands out no permit.
LEMMA StepGrantsNone ==
  ASSUME IInv, NEW r \in Requests, Step(r), ~Limit(r)
  PROVE  NoGrant
<1>0. Typed /\ request[r] \in RequestType
  BY DEF IInv, Typed
<1>1. ASSUME NEW status, Answer(r, status) PROVE NoGrant
  BY <1>0, <1>1, AnswerGrantsNone
<1>2. ASSUME NEW p, Goto(r, p) PROVE NoGrant
  <2> DEFINE x == [request[r] EXCEPT !.phase = p]
  <2>1. request' = [request EXCEPT ![r] = x]
    BY <1>2 DEF Goto
  <2>2. /\ x.permit = request[r].permit
        /\ x.version = request[r].version /\ x.shape = request[r].shape
    BY <1>0 DEF RequestType
  <2> HIDE DEF x
  <2> QED
    BY <1>0, <2>1, <2>2, SameGrantsNone, Zenon
<1>3. ASSUME NEW paid, NEW free, Admit(r, paid, free) PROVE NoGrant
  <2> DEFINE x == [request[r] EXCEPT !.phase = "admitted", !.paid = paid, !.free = free,
                                     !.headers = @ \ Stripped(Site(r))]
  <2>1. request' = [request EXCEPT ![r] = x]
    BY <1>3, Zenon DEF Admit
  <2>2. /\ x.permit = request[r].permit
        /\ x.version = request[r].version /\ x.shape = request[r].shape
    BY <1>0 DEF RequestType
  <2> HIDE DEF x
  <2> QED
    BY <1>0, <2>1, <2>2, SameGrantsNone, Zenon
<1>4. CASE request' = request
  BY <1>4 DEF NoGrant
<1>5. ASSUME NEW shape \in Shapes, NEW c \in Known(shape), Route(r, shape, c) PROVE NoGrant
  <2> DEFINE x == [Idle EXCEPT !.phase = "routed", !.shape = shape, !.credential = c,
                     !.version = Len(config), !.headers = {m \in Methods : shape[m] > 0}]
  <2>1. request' = request \/ request' = [request EXCEPT ![r] = x]
    BY <1>5 DEF Route
  <2>2. ~x.permit
    BY DEF Idle
  <2> HIDE DEF x
  <2> QED
    BY <1>0, <1>4, <2>1, <2>2, SameGrantsNone
<1>6. CASE Choose(r)
  <2> DEFINE way == Select(Site(r), Shape(r), request[r].credential)
  <2>1. CASE way \in {"400", "401"}
    BY <1>1, <1>6, <2>1, Zenon DEF Choose
  <2>2. CASE way \in {"settling", "collecting"}
    BY <1>2, <1>6, <2>2 DEF Choose
  <2>3. CASE way \notin {"400", "401", "settling", "collecting"}
    BY <1>1, <1>2, <1>3, <1>6, <2>3, Zenon DEF Choose
  <2> QED
    BY <2>1, <2>2, <2>3
<1>7. CASE Settle(r) \/ Collect(r) \/ Challenge(r) \/ Handle(r) \/ Respond(r) \/ Cut(r)
  <2>1. CASE Settle(r) \/ Collect(r)
    BY <1>1, <1>2, <1>3, <2>1, ZenonT(30) DEF Settle, Collect
  <2>2. CASE Challenge(r) \/ Handle(r)
    BY <1>1, <1>2, <1>3, <2>2, ZenonT(30) DEF Challenge, Handle
  <2>3. CASE Respond(r) \/ Cut(r)
    BY <1>1, <1>2, <1>3, <2>3, ZenonT(30) DEF Respond, Cut
  <2> QED
    BY <1>7, <2>1, <2>2, <2>3
<1>8. CASE Connect(r) \/ FailToConnect(r) \/ Stream(r) \/ Replay(r)
  <2>1. ASSUME NEW x, request' = [request EXCEPT ![r] = x], x.permit = request[r].permit,
               x.version = request[r].version, x.shape = request[r].shape
        PROVE  NoGrant
    BY <1>0, <2>1, SameGrantsNone, Zenon
  <2>2. CASE Connect(r)
    <3> DEFINE x == [request[r] EXCEPT !.phase = "sent", !.reached = @ \union {request[r].index},
                                       !.upstream = request[r].headers \ Stripped(Site(r))]
    <3>1. /\ request' = [request EXCEPT ![r] = x] /\ x.permit = request[r].permit
          /\ x.version = request[r].version /\ x.shape = request[r].shape
      BY <1>0, <2>2, Zenon DEF Connect, RequestType
    <3> QED
      BY <2>1, <3>1, Zenon
  <2>3. CASE FailToConnect(r) /\ request[r].index < Backends
    <3> DEFINE x == [request[r] EXCEPT !.index = @ + 1]
    <3>1. /\ request' = [request EXCEPT ![r] = x] /\ x.permit = request[r].permit
          /\ x.version = request[r].version /\ x.shape = request[r].shape
      BY <1>0, <2>3 DEF FailToConnect, RequestType
    <3> QED
      BY <2>1, <3>1, Zenon
  <2>4. CASE Stream(r) /\ ~TooLong(Site(r), request[r].bytes + Shape(r).length)
    <3> DEFINE x == [request[r] EXCEPT !.phase = "streamed",
                                       !.bytes = request[r].bytes + Shape(r).length]
    <3>1. /\ request' = [request EXCEPT ![r] = x] /\ x.permit = request[r].permit
          /\ x.version = request[r].version /\ x.shape = request[r].shape
      BY <1>0, <2>4, Zenon DEF Stream, RequestType
    <3> QED
      BY <2>1, <3>1, Zenon
  <2>5. CASE Replay(r)
    <3> DEFINE x == [request[r] EXCEPT !.phase = "connecting", !.replays = @ + 1]
    <3>1. /\ request' = [request EXCEPT ![r] = x] /\ x.permit = request[r].permit
          /\ x.version = request[r].version /\ x.shape = request[r].shape
      BY <1>0, <2>5, Zenon DEF Replay, RequestType
    <3> QED
      BY <2>1, <3>1, Zenon
  <2> QED
    BY <1>1, <1>8, <2>2, <2>3, <2>4, <2>5 DEF FailToConnect, Stream
<1> QED
  BY <1>5, <1>6, <1>7, <1>8 DEF Step

\* Limit gives the permit that it has asked for.
LEMMA LimitGrants ==
  ASSUME IInv, NEW r \in Requests, Limit(r)
  PROVE  NoGrant \/ Grant(r)
<1> DEFINE x == [request[r] EXCEPT !.phase = "limited", !.permit = Site(r).capacity # None]
<1>0. Typed /\ request[r] \in RequestType /\ request[r].phase = "routed"
  BY DEF IInv, Typed, Limit
<1>1. CASE \E status \in {429, 503} : Answer(r, status)
  BY <1>0, <1>1, AnswerGrantsNone
<1>2. CASE /\ request' = [request EXCEPT ![r] = x]
           /\ ~(Site(r).capacity # None /\ ~TryAcquire(r))
  <2>1. /\ x.version = request[r].version /\ x.shape = request[r].shape
        /\ x.permit => Site(r).capacity # None
    BY <1>0, Zenon DEF RequestType
  <2> HIDE DEF x
  <2>2. \A q \in Requests : request'[q] = IF q = r THEN x ELSE request[q]
    BY <1>0, <1>2 DEF Typed
  <2> QED
    BY <1>0, <1>2, <2>1, <2>2 DEF Grant
<1> QED
  BY <1>1, <1>2 DEF Limit, Answer

\* A limiter lets pass only whom it allows.
LEMMA StepPasses ==
  ASSUME NEW r \in Requests, Step(r)
  PROVE  /\ UNCHANGED config
         /\ \/ UNCHANGED passes
            \/ \E l \in Limiters : Allowed(l, r) /\ Passed(l, r) /\ request[r].phase # "idle"
<1>1. CASE Limit(r)
  BY <1>1 DEF Limit, Limiters
<1>2. CASE Choose(r)
  <2> DEFINE way == Select(Site(r), Shape(r), request[r].credential)
  <2>1. CASE way \in {"400", "401", "settling", "collecting"}
    BY <1>2, <2>1, Zenon DEF Choose
  <2>2. CASE way \notin {"400", "401", "settling", "collecting"}
    BY <1>2, <2>2, Zenon DEF Choose, Limiters
  <2> QED
    BY <2>1, <2>2, ZenonT(30)
<1>3. CASE ~Limit(r) /\ ~Choose(r)
  BY <1>3, Zenon DEF Step, Route, Settle, Collect, Challenge, Handle, Connect, FailToConnect, Stream,
              Replay, Respond, Cut
<1> QED
  BY <1>1, <1>2, <1>3

\* The lineage of the limiters is in the configuration.
LEMMA LineageUnchanged ==
  ASSUME Lineage, UNCHANGED config
  PROVE  Lineage'
<1>1. \A kind, v : Sharing(kind, v)' = Sharing(kind, v) /\ (Limits(v, kind)' <=> Limits(v, kind))
  BY DEF Sharing, Limits
<1>2. \A kind, v, w : Stated(kind, v, w)' <=> Stated(kind, v, w)
  BY <1>1 DEF Stated
<1> QED
  BY <1>1, <1>2, ZenonT(30) DEF Lineage

\* Nothing is spent without a pass.
LEMMA SpendingUnchanged ==
  ASSUME Spending, UNCHANGED <<config, passes>>
  PROVE  Spending'
<1>1. \A kind, v : Sharing(kind, v)' = Sharing(kind, v) /\ (Limits(v, kind)' <=> Limits(v, kind))
  BY DEF Sharing, Limits
<1>2. /\ \A kind, c : Passages(kind, c, Versions)' = Passages(kind, c, Versions)
      /\ \A kind, c, v :
           Passages(kind, c, Sharing(kind, v))' = Passages(kind, c, Sharing(kind, v))
  BY <1>1 DEF Passages
<1> QED
  BY <1>1, <1>2, SMTT(30) DEF Spending

\* No limiter and no Capacity has been asked.
LEMMA InitLInv == Init => LInv
<1> SUFFICES ASSUME Init PROVE LInv
  OBVIOUS
<1>0. IInv
  BY InitIInv
<1>1. /\ Len(config) = 1 /\ \A kind \in Kinds : config[1][kind] = 1
      /\ \A r \in Requests : ~request[r].permit
  BY SMTT(30) DEF Init, Kinds, Limiters, Idle
<1>2. \A kind \in Limiters, v \in Versions, c \in Clients : passes[kind][v][c] = 0
  BY DEF Init
<1>3. \A kind \in Kinds : Sharing(kind, 1) = {1}
  BY <1>1 DEF Sharing
<1>4. Lineage
  BY <1>1, <1>3 DEF Lineage
<1>5. \A kind \in Limiters, c \in Clients, V \in SUBSET Versions : Passages(kind, c, V) = {}
  BY <1>2 DEF Passages
<1>6. Spending
  <2>1. 1 \in 1 .. Len(config) /\ {1} \subseteq Versions
    BY <1>1, GateConstants DEF Versions
  <2>2. \A kind \in Limiters : Limits(1, kind) => config[1].site[kind].max \in Nat
    BY <1>0, <2>1, VersionTyped DEF IInv, Kinds
  <2>3. \A kind \in Limiters, c \in Clients :
          /\ IsFiniteSet(Passages(kind, c, Versions))
          /\ Cardinality(Passages(kind, c, Sharing(kind, 1))) = 0
    BY <1>3, <1>5, <2>1, FS_EmptySet, Zenon DEF Kinds
  <2> QED
    BY <1>1, <1>2, <2>2, <2>3, SMTT(30) DEF Spending
<1>7. Occupancy
  <2>1. 1 \in 1 .. Len(config)
    BY <1>1
  <2>2. Limits(1, "capacity") => config[1].site.capacity.max \in Nat
    BY <1>0, <2>1, VersionTyped DEF IInv, Kinds
  <2>3. Permits = {} /\ Holders(1) = {} /\ \A c \in Clients : Holding(1, c) = {}
    BY <1>1 DEF Permits, Holders, Holding
  <2>4. \A max \in Nat : PerClient(max) \in Nat
    BY DEF PerClient
  <2> QED
    BY <1>1, <2>2, <2>3, <2>4, FS_EmptySet DEF Occupancy
<1> QED
  BY <1>4, <1>6, <1>7 DEF LInv

\* Every step keeps the limits.
LEMMA NextLInv == IInv /\ LInv /\ [Next]_vars => LInv'
<1> SUFFICES ASSUME IInv, LInv, [Next]_vars PROVE LInv'
  OBVIOUS
<1>0. Typed /\ Lineage /\ Spending /\ Occupancy
  BY DEF IInv, LInv
<1>1. CASE UNCHANGED vars
  <2>1. NoGrant
    BY <1>1 DEF vars, NoGrant
  <2> QED
    BY <1>0, <1>1, <2>1, LineageUnchanged, SpendingUnchanged, OccupancyKept DEF vars, LInv
<1>2. ASSUME NEW s \in Sites \union {NoSite}, ReplaceConfig(s) PROVE LInv'
  BY <1>0, <1>2, LineageReloaded, SpendingReloaded, OccupancyReloaded DEF LInv
<1>3. ASSUME NEW r \in Requests, Step(r) PROVE LInv'
  <2>1. UNCHANGED config
    BY <1>3, StepPasses
  <2>2. Lineage'
    BY <1>0, <2>1, LineageUnchanged
  <2>3. Spending'
    BY <1>0, <1>3, <2>1, StepPasses, SpendingPassed, SpendingUnchanged
  <2>4. Occupancy'
    BY <1>0, <1>3, <2>1, StepGrantsNone, LimitGrants, OccupancyKept, OccupancyGranted
  <2> QED
    BY <2>2, <2>3, <2>4 DEF LInv
<1> QED
  BY <1>1, <1>2, <1>3 DEF Next

(***************************************************************************)
(* For any sites, limits, clients, requests and reloads, a reload gives    *)
(* nobody more: versions in a row that state a limit have one object for   *)
(* it (State::replace_config), and what passes an object, or is in flight  *)
(* under it, is counted over all the snapshots that requests hold.         *)
(***************************************************************************)
THEOREM ReloadsGiveNoMore == Spec => []LimitsSurviveReload
<1>1. IInv /\ LInv => LimitsSurviveReload
  <2> SUFFICES ASSUME IInv, LInv, NEW v \in 1 .. Len(config), config[v].site # NoSite,
                      NEW w \in v .. Len(config)
               PROVE  /\ Stated("capacity", v, w) =>
                           LET inflight == {r \in Requests :
                                              request[r].permit /\ request[r].version \in v .. w}
                           IN /\ Cardinality(inflight) <= config[v].site.capacity.max
                              /\ \A c \in Clients :
                                   Cardinality({r \in inflight : Shape(r).client = c})
                                     <= PerClient(config[v].site.capacity.max)
                      /\ \A kind \in Limiters : Stated(kind, v, w) =>
                           \A c \in Clients :
                             Cardinality(Passages(kind, c, v .. w)) <= config[v].site[kind].max
    BY Zenon DEF LimitsSurviveReload, Stated, Limits
  <2>0. Typed /\ Lineage /\ Spending /\ Occupancy
    BY DEF IInv, LInv
  <2>1. Len(config) \in Nat /\ v \in Nat /\ w \in Nat /\ v <= w /\ w <= Len(config)
    BY <2>0, VersionTyped
  <2>2. ASSUME NEW kind \in Kinds, Stated(kind, v, w)
        PROVE  v .. w \subseteq Sharing(kind, v) /\ Limits(v, kind)
    <3>1. \A u \in v .. w : u \in v .. Len(config) /\ Stated(kind, v, u)
      BY <2>1, <2>2 DEF Stated
    <3> QED
      BY <2>0, <2>2, <3>1 DEF Lineage, Stated
  <2>3. \A kind \in Kinds : Sharing(kind, v) \subseteq Versions
    BY <2>0, VersionTyped DEF Sharing
  <2>4. ASSUME NEW kind \in Limiters, Stated(kind, v, w), NEW c \in Clients
        PROVE  Cardinality(Passages(kind, c, v .. w)) <= config[v].site[kind].max
    <3>1. kind \in Kinds
      BY DEF Kinds
    <3>2. v .. w \subseteq Sharing(kind, v) /\ Limits(v, kind) /\ Sharing(kind, v) \subseteq Versions
      BY <2>2, <2>3, <2>4, <3>1
    <3>3. /\ IsFiniteSet(Passages(kind, c, Versions))
          /\ Cardinality(Passages(kind, c, Sharing(kind, v))) <= config[v].site[kind].max
      BY <2>0, <3>2 DEF Spending
    <3>4. IsFiniteSet(Passages(kind, c, Sharing(kind, v)))
      BY <3>2, <3>3, FewerPassages, ZenonT(30)
    <3>5. /\ Cardinality(Passages(kind, c, v .. w)) \in Nat
          /\ Cardinality(Passages(kind, c, Sharing(kind, v))) \in Nat
          /\ Cardinality(Passages(kind, c, v .. w)) <= Cardinality(Passages(kind, c, Sharing(kind, v)))
      BY <3>2, <3>4, FewerPassages
    <3>6. config[v].site[kind].max \in Nat
      BY <2>0, <3>1, <3>2, VersionTyped, ZenonT(30)
    <3> QED
      BY <3>3, <3>5, <3>6, SMTT(30)
  <2>5. ASSUME Stated("capacity", v, w)
        PROVE  LET inflight == {r \in Requests :
                                  request[r].permit /\ request[r].version \in v .. w}
               IN /\ Cardinality(inflight) <= config[v].site.capacity.max
                  /\ \A c \in Clients :
                       Cardinality({r \in inflight : Shape(r).client = c})
                         <= PerClient(config[v].site.capacity.max)
    <3> DEFINE inflight == {r \in Requests : request[r].permit /\ request[r].version \in v .. w}
               max == config[v].site.capacity.max
    <3>1. "capacity" \in Kinds
      BY DEF Kinds
    <3>2. v .. w \subseteq Sharing("capacity", v) /\ Limits(v, "capacity")
      BY <2>2, <2>5, <3>1
    <3>3. max \in Nat /\ PerClient(max) \in Nat
      <4>1. max \in Nat
        BY <2>0, <3>1, <3>2, VersionTyped
      <4> QED
        BY <4>1 DEF PerClient
    <3>4. /\ Cardinality(Holders(v)) <= max
          /\ \A c \in Clients : Cardinality(Holding(v, c)) <= PerClient(max)
      BY <2>0, <3>2 DEF Occupancy
    <3>5. inflight \subseteq Holders(v) /\ Holders(v) \in SUBSET Permits
      BY <3>2 DEF Holders, Permits
    <3> HIDE DEF inflight, max
    <3>6. ASSUME NEW S, NEW T, S \subseteq T, T \in SUBSET Permits
          PROVE  /\ Cardinality(S) \in Nat /\ Cardinality(T) \in Nat
                 /\ Cardinality(S) <= Cardinality(T)
      BY <2>0, <3>6, FiniteHolders, FS_Subset
    <3>7. Cardinality(inflight) <= max
      BY <3>3, <3>4, <3>5, <3>6
    <3>8. ASSUME NEW c \in Clients
          PROVE  Cardinality({r \in inflight : Shape(r).client = c}) <= PerClient(max)
      <4>1. /\ {r \in inflight : Shape(r).client = c} \subseteq Holding(v, c)
            /\ Holding(v, c) \in SUBSET Permits
        BY <3>5 DEF Holding
      <4> QED
        BY <3>3, <3>4, <3>6, <4>1
    <3> QED
      BY <3>7, <3>8 DEF inflight, max
  <2> QED
    BY <2>4, <2>5, ZenonT(30)
<1> QED
  BY InitIInv, NextIInv, InitLInv, NextLInv, <1>1, PTL DEF Spec
===============================================================================
