--------------------------------- MODULE Gate ---------------------------------
(***************************************************************************)
(* The request path of one domain (proxy.rs) under reloads of its          *)
(* configuration (state.rs).  A request takes a snapshot of the site when  *)
(* it is routed and runs under it to its end, while replace_config may     *)
(* install other versions with their own, or the previous, limiters.       *)
(*                                                                         *)
(* A limiter is known by the version that created it, and what it has      *)
(* spent is the number of requests it let pass: the refill of its buckets  *)
(* is RateLimiter's, and no refill happens here.  Settlement and           *)
(* collection are one step each, which Settlement and CashuAdmission       *)
(* refine; a credential may be refused for reasons of theirs.              *)
(***************************************************************************)
EXTENDS Integers, Sequences, FiniteSets

CONSTANTS
  Requests,
  Clients,
  Sites,       \* the sites that a configuration may describe for the domain
  NoSite,      \* the configuration has no site for the domain
  Shapes,      \* the requests that clients may send
  Tokens,      \* Cashu tokens
  Worth,       \* ... and their value, fees deducted
  Junk,        \* an Authorization header that is no L402 credential
  None,        \* an absent limit, policy, price, credential
  MAX_BODY,    \* largest body that can be bound to a Lightning payment
  Backends,    \* number of addresses of the upstream
  MaxReloads,  \* bound: replacements of the configuration
  MaxSales,    \* bound: invoices issued
  MaxReplays   \* bound: replays of a request on another connection

Methods == {"cashu", "x402", "l402"}

ASSUME GateConstants ==
  /\ {MaxReloads, MaxSales} \subseteq Nat
  /\ Backends \in Nat \ {0}
  /\ {None, Junk} \intersect (Tokens \union 1 .. MaxSales) = {}
  /\ None \notin Shapes /\ NoSite \notin Sites
  /\ \A shape \in Shapes :
       /\ shape.client \in Clients
       /\ shape.length \in Nat
       /\ \A m \in Methods : shape[m] \in Nat
  /\ \A site \in Sites :
       /\ site.max_body = None \/ site.max_body \in Nat
       /\ \A kind \in {"payment_verification", "capacity", "rate_limit"} :
            site[kind] = None \/ site[kind].max \in Nat

Limiters == {"payment_verification", "rate_limit"}
Versions == 1 .. MaxReloads + 1

VARIABLES
  config,    \* the versions installed so far; the last one is State.config
  request,   \* RequestContext of each request, with what the client sent
  passes,    \* requests let pass, by limiter, version of the site and client
  sold,      \* terms of the invoices issued so far
  spent,     \* credentials consumed: tokens and numbers of invoices
  answer     \* status of the response sent by the last step, 0 for none

vars == <<config, request, passes, sold, spent, answer>>

Invoices == 1 .. MaxSales

\* What the payment headers of a request may carry.  A malformed credential is
\* told from an invalid one in an Authorization header only.
Known(shape) ==
  IF \A m \in Methods : shape[m] = 0 THEN {None}
  ELSE (IF shape.cashu > 0 THEN Tokens ELSE {})
         \union (IF shape.x402 + shape.l402 > 0 THEN 1 .. Len(sold) ELSE {})
         \union (IF shape.l402 > 0 THEN {Junk} ELSE {})

Idle == [phase |-> "idle", shape |-> None, credential |-> None, version |-> 0,
         permit |-> FALSE, headers |-> {}, paid |-> None, free |-> FALSE,
         bytes |-> 0, index |-> 1, reached |-> {}, upstream |-> {},
         replays |-> 0]

Init ==
  /\ \E s \in Sites :
       config = << [site |-> s, payment_verification |-> 1,
                    capacity |-> 1, rate_limit |-> 1] >>
  /\ request = [r \in Requests |-> Idle]
  /\ passes = [l \in Limiters |-> [v \in Versions |-> [c \in Clients |-> 0]]]
  /\ sold = << >>
  /\ spent = {}
  /\ answer = 0

Site(r) == config[request[r].version].site
Shape(r) == request[r].shape

Offers(site, method) ==
  IF method = "cashu" THEN site.cashu # None
  ELSE site.lightning # None /\ method \in site.lightning.protocols
Priced(site) == site.cashu # None \/ site.lightning # None

-----------------------------------------------------------------------------
(* Reloads.                                                                 *)

\* Mutant: every configuration starts with limiters of its own.
KeepsNone(kind, old, next) == FALSE

\* A limit that the new configuration states as the old one did.
Keeps(kind, old, next) ==
  /\ old # NoSite /\ next # NoSite
  /\ old[kind] # None
  /\ next[kind] = old[kind]

ReplaceConfig(next) ==
  LET old == config[Len(config)]
      Object(kind) == IF Keeps(kind, old.site, next) THEN old[kind]
                                                     ELSE Len(config) + 1
  IN /\ Len(config) <= MaxReloads
     /\ config' = Append(config,
          [site |-> next,
           payment_verification |-> Object("payment_verification"),
           capacity |-> Object("capacity"),
           rate_limit |-> Object("rate_limit")])
     /\ answer' = 0
     /\ UNCHANGED <<request, passes, sold, spent>>

-----------------------------------------------------------------------------
(* Limits.                                                                  *)

\* The versions that use the limiter, or the Capacity, of version v.
Sharing(kind, v) == {u \in 1 .. Len(config) : config[u][kind] = config[v][kind]}

\* The passes of a client under some versions, each with its number.
Passages(kind, client, versions) ==
  UNION {{v} \X (1 .. passes[kind][v][client]) : v \in versions}

\* RateLimiter::check of the limiter in the snapshot of r.
Allowed(kind, r) ==
  Cardinality(Passages(kind, Shape(r).client, Sharing(kind, request[r].version)))
    < Site(r)[kind].max
Passed(kind, r) ==
  passes' = [passes EXCEPT ![kind][request[r].version][Shape(r).client] = @ + 1]

PerClient(max) == IF max >= 2 THEN max \div 2 ELSE 1

\* Permits out of the Capacity that version v uses.
Holders(v) ==
  {r \in Requests : request[r].permit /\ request[r].version \in Sharing("capacity", v)}
TryAcquire(r) ==
  LET holders == Holders(request[r].version)
  IN /\ Cardinality({h \in holders : Shape(h).client = Shape(r).client})
          < PerClient(Site(r).capacity.max)
     /\ Cardinality(holders) < Site(r).capacity.max

-----------------------------------------------------------------------------
(* Steps of a request.                                                      *)

\* The response is written and the context dropped, its permit with it.
Answer(r, status) ==
  /\ request' = [request EXCEPT ![r] = Idle]
  /\ answer' = status

Goto(r, phase) ==
  /\ request' = [request EXCEPT ![r].phase = phase]
  /\ answer' = 0

TooLong(site, length) == site.max_body # None /\ length > site.max_body

\* What request_filter may answer before any limit is asked, if it does.
Unroutable(site, shape) ==
  IF ~shape.host THEN {400}
  ELSE IF site = NoSite THEN {404}
  ELSE IF ~shape.tls /\ shape.acme THEN {200, 404}
  ELSE IF ~shape.tls /\ site.https THEN {308, 429}
  ELSE IF shape.tls /\ ~site.https THEN {404}
  ELSE IF shape.declared /\ TooLong(site, shape.length) THEN {413}
  ELSE {}

\* request_filter up to the first limit, with the snapshot of the site.
Route(r, shape, credential) ==
  LET site == config[Len(config)].site
      refusals == Unroutable(site, shape)
  IN /\ request[r].phase = "idle"
     /\ IF refusals = {}
          THEN /\ request' = [request EXCEPT ![r] =
                    [Idle EXCEPT !.phase = "routed", !.shape = shape,
                       !.credential = credential, !.version = Len(config),
                       !.headers = {m \in Methods : shape[m] > 0}]]
               /\ answer' = 0
          ELSE /\ answer' \in refusals
               /\ UNCHANGED request
     /\ UNCHANGED <<config, passes, sold, spent>>

PaymentAttempt(site, shape) ==
  \/ site.cashu # None /\ shape.cashu > 0
  \/ /\ site.lightning # None
     /\ \/ shape.x402 > 0
        \/ Offers(site, "l402") /\ shape.l402 > 0

\* payment_verification.check, for requests that offer a payment, and then
\* capacity.try_acquire; nothing is awaited between them, and a request that
\* fails the first never reaches the second.
Limit(r) ==
  LET attempt == PaymentAttempt(Site(r), Shape(r))
      verified == attempt => Allowed("payment_verification", r)
  IN /\ request[r].phase = "routed"
     /\ IF attempt /\ verified THEN Passed("payment_verification", r)
                               ELSE UNCHANGED passes
     /\ IF ~verified THEN Answer(r, 429)
        ELSE IF Site(r).capacity # None /\ ~TryAcquire(r) THEN Answer(r, 503)
        ELSE /\ request' = [request EXCEPT ![r].phase = "limited",
                                           ![r].permit = Site(r).capacity # None]
             /\ answer' = 0
     /\ UNCHANGED <<config, sold, spent>>

Encrypted(shape) == shape.tls \/ shape.local

\* The payment headers: how the request is to be admitted, or a refusal.
Select(site, shape, credential) ==
  LET l402 == Offers(site, "l402") /\ shape.l402 > 0
      x402 == site.lightning # None /\ shape.x402 > 0
      cashu == site.cashu # None /\ shape.cashu > 0
  IN IF l402 /\ (shape.l402 # 1 \/ credential = Junk) THEN "401"
     ELSE IF l402 /\ (shape.x402 > 0 \/ shape.cashu > 0) THEN "400"
     ELSE IF x402 /\ ~Offers(site, "x402") THEN "400"
     ELSE IF x402 /\ (shape.x402 > 1 \/ shape.cashu > 0) THEN "400"
     ELSE IF l402 \/ x402 THEN IF Encrypted(shape) THEN "settling" ELSE "400"
     ELSE IF cashu THEN IF shape.cashu = 1 /\ Encrypted(shape) THEN "collecting" ELSE "400"
     ELSE "allowance"

\* Mutant: Authorization is left to the backend.
StrippedSignatures(site) == IF Priced(site) THEN {"cashu", "x402"} ELSE {}

\* The headers that neither the session nor an upstream request keeps.
Stripped(site) ==
  (IF Offers(site, "l402") THEN {"l402"} ELSE {})
    \union (IF Priced(site) THEN {"cashu", "x402"} ELSE {})

\* Admission: what follows in request_filter is the handler.
Admit(r, paid, free) ==
  /\ request' = [request EXCEPT ![r].phase = "admitted", ![r].paid = paid,
                                ![r].free = free, ![r].headers = @ \ Stripped(Site(r))]
  /\ answer' = 0

\* The choice of a method, and the allowance for requests without payment.
Choose(r) ==
  LET site == Site(r)
      way == Select(site, Shape(r), request[r].credential)
  IN /\ request[r].phase = "limited"
     /\ CASE way = "401" -> Answer(r, 401) /\ UNCHANGED passes
          [] way = "400" -> Answer(r, 400) /\ UNCHANGED passes
          [] way \in {"settling", "collecting"} -> Goto(r, way) /\ UNCHANGED passes
          [] OTHER ->
               IF site.rate_limit # None /\ Allowed("rate_limit", r)
                 THEN Admit(r, None, TRUE) /\ Passed("rate_limit", r)
                 ELSE /\ IF Priced(site) THEN Goto(r, "challenging")
                         ELSE IF site.rate_limit # None THEN Answer(r, 429)
                         ELSE Admit(r, None, FALSE)
                      /\ UNCHANGED passes
     /\ UNCHANGED <<config, sold, spent>>

\* lightning_binding succeeds: origin and framing are supported and the whole
\* body was buffered within its limits.
Binds(site, shape) ==
  /\ shape.bindable
  /\ ~TooLong(site, shape.length)
  /\ shape.length <= MAX_BODY

\* request_hash: a cookie counts only where the policy binds it.
RequestHash(policy, shape) ==
  [content |-> shape.content,
   cookie |-> IF policy.binds_cookie THEN shape.cookie ELSE None]

\* Policy::requirements, and the terms that an L402 credential is bound to.
Requirements(policy, hash) ==
  [amount |-> policy.amount, receiver |-> policy.receiver,
   binds_cookie |-> policy.binds_cookie, hash |-> hash]

TermsOf(r) ==
  LET policy == Site(r).lightning
  IN Requirements(policy, RequestHash(policy, Shape(r)))

\* Mutant: a credential is good for its request at any price.
MatchesRequest(r, credential) ==
  /\ credential \in Invoices
  /\ credential <= Len(sold)
  /\ sold[credential].hash = TermsOf(r).hash

\* verify of x402 and of L402: the terms and the request are those sold.
Matches(r, credential) ==
  /\ credential \in Invoices
  /\ credential <= Len(sold)
  /\ sold[credential] = TermsOf(r)

\* Lightning::settle and settle_l402, the binding of the body before them.
Settle(r) ==
  LET credential == request[r].credential
      l402 == Shape(r).l402 > 0 /\ Offers(Site(r), "l402")
  IN /\ request[r].phase = "settling"
     /\ \/ /\ ~Binds(Site(r), Shape(r))
           /\ Answer(r, 400)
           /\ UNCHANGED spent
        \/ /\ Binds(Site(r), Shape(r))
           /\ Matches(r, credential)
           /\ credential \notin spent
           /\ spent' = spent \union {credential}
           /\ Admit(r, credential, FALSE)
        \/ \* invalid, used or expired; or the receiver or the store fails
           /\ \E status \in {IF l402 THEN 401 ELSE 400, 503} : Answer(r, status)
           /\ UNCHANGED spent
     /\ UNCHANGED <<config, passes, sold>>

Pays(r, credential) == credential \in Tokens /\ Worth[credential] >= Site(r).cashu

\* Payments::collect.
Collect(r) ==
  LET credential == request[r].credential
  IN /\ request[r].phase = "collecting"
     /\ \/ /\ Pays(r, credential)
           /\ credential \notin spent
           /\ spent' = spent \union {credential}
           /\ Admit(r, credential, FALSE)
        \/ /\ \E status \in {400, 503} : Answer(r, status)
           /\ UNCHANGED spent
     /\ UNCHANGED <<config, passes, sold>>

\* The challenge: an invoice for this request, if one is to be had.
Challenge(r) ==
  /\ request[r].phase = "challenging"
  /\ \/ /\ Site(r).lightning # None
        /\ Binds(Site(r), Shape(r))
        /\ Len(sold) < MaxSales
        /\ sold' = Append(sold, TermsOf(r))
        /\ Answer(r, 402)
     \/ /\ Answer(r, IF Site(r).cashu = None THEN 503 ELSE 402)
        /\ UNCHANGED sold
  /\ UNCHANGED <<config, passes, spent>>

\* Mutant: looks the site up again instead of using the snapshot.
HandleReloaded(r) ==
  /\ request[r].phase = "admitted"
  /\ IF config[Len(config)].site = NoSite THEN Answer(r, 404)
     ELSE IF config[Len(config)].site.handler = "respond" THEN Answer(r, 200)
     ELSE Goto(r, "connecting") \/ Answer(r, 502)
  /\ UNCHANGED <<config, passes, sold, spent>>

\* The handler: a fixed response, or upstream_peer, which may fail to resolve.
Handle(r) ==
  /\ request[r].phase = "admitted"
  /\ IF Site(r).handler = "respond"
       THEN Answer(r, 200)
       ELSE Goto(r, "connecting") \/ Answer(r, 502)
  /\ UNCHANGED <<config, passes, sold, spent>>

\* A connection to the current address, new or from the pool, and
\* upstream_request_filter: the request reaches the backend.
Connect(r) ==
  /\ request[r].phase = "connecting"
  /\ request' = [request EXCEPT ![r].phase = "sent",
                                ![r].reached = @ \union {request[r].index},
                                ![r].upstream = request[r].headers \ Stripped(Site(r))]
  /\ answer' = 0
  /\ UNCHANGED <<config, passes, sold, spent>>

\* fail_to_connect: the next address, as long as there is one.
FailToConnect(r) ==
  /\ request[r].phase = "connecting"
  /\ IF request[r].index < Backends
       THEN /\ request' = [request EXCEPT ![r].index = @ + 1]
            /\ answer' = 0
       ELSE Answer(r, 502)
  /\ UNCHANGED <<config, passes, sold, spent>>

\* request_body_filter: the bytes of this attempt are added to those before.
Stream(r) ==
  LET bytes == request[r].bytes + Shape(r).length
  IN /\ request[r].phase = "sent"
     /\ IF TooLong(Site(r), bytes)
          THEN Answer(r, 413)
          ELSE /\ request' = [request EXCEPT ![r].phase = "streamed", ![r].bytes = bytes]
               /\ answer' = 0
     /\ UNCHANGED <<config, passes, sold, spent>>

\* The connection, taken from the pool, closes before a response: an idempotent
\* request is sent anew to the same address.
Replay(r) ==
  /\ request[r].phase \in {"sent", "streamed"}
  /\ Shape(r).idempotent
  /\ request[r].replays < MaxReplays
  /\ request' = [request EXCEPT ![r].phase = "connecting", ![r].replays = @ + 1]
  /\ answer' = 0
  /\ UNCHANGED <<config, passes, sold, spent>>

\* The backend answers, which it may before it has read the body, or fails.
Respond(r) ==
  /\ request[r].phase \in {"sent", "streamed"}
  /\ \E status \in {200, 502} : Answer(r, status)
  /\ UNCHANGED <<config, passes, sold, spent>>

\* The deadline or the client ends a request anywhere.  A settlement that was
\* under way may still take effect.
Cut(r) ==
  LET credential == request[r].credential
      claimable ==
        \/ request[r].phase = "settling" /\ Binds(Site(r), Shape(r)) /\ Matches(r, credential)
        \/ request[r].phase = "collecting" /\ Pays(r, credential)
  IN /\ request[r].phase # "idle"
     /\ Answer(r, 0)
     /\ spent' \in {spent, spent \union {c \in {credential} : claimable}}
     /\ UNCHANGED <<config, passes, sold>>

-----------------------------------------------------------------------------
Step(r) ==
  \/ \E shape \in Shapes : \E c \in Known(shape) : Route(r, shape, c)
  \/ Limit(r)
  \/ Choose(r)
  \/ Settle(r)
  \/ Collect(r)
  \/ Challenge(r)
  \/ Handle(r)
  \/ Connect(r)
  \/ FailToConnect(r)
  \/ Stream(r)
  \/ Replay(r)
  \/ Respond(r)
  \/ Cut(r)

Next ==
  \/ \E s \in Sites \union {NoSite} : ReplaceConfig(s)
  \/ \E r \in Requests : Step(r)

Spec == Init /\ [][Next]_vars

-----------------------------------------------------------------------------
Phases == {"idle", "routed", "limited", "settling", "collecting",
           "challenging", "admitted", "connecting", "sent", "streamed"}
AtHandler == {"admitted", "connecting", "sent", "streamed"}

\* Limits are counted within their range, versions and addresses exist, and
\* no request counts more bytes than its site allows.
TypeOK ==
  /\ Len(config) \in Versions
  /\ \A l \in Limiters, v \in Versions, c \in Clients : passes[l][v][c] \in Nat
  /\ Len(sold) <= MaxSales
  /\ spent \subseteq Tokens \union Invoices
  /\ \A r \in Requests :
       /\ request[r].phase \in Phases
       /\ request[r].phase # "idle" =>
            /\ request[r].version \in 1 .. Len(config)
            /\ Shape(r) \in Shapes
            /\ request[r].index \in 1 .. Backends
            /\ ~TooLong(Site(r), request[r].bytes)

(***************************************************************************)
(* A reload gives nobody more: over any versions in a row that state the   *)
(* same limit, the requests in flight are at most max_inflight, in all and *)
(* per client, and a client passes its limiters at most burst times, no    *)
(* matter which snapshots the requests hold (State::replace_config).       *)
(***************************************************************************)
LimitsSurviveReload ==
  \A v \in 1 .. Len(config) : config[v].site # NoSite =>
    \A w \in v .. Len(config) :
      LET limit(kind) == config[v].site[kind]
          stated(kind) ==
            /\ limit(kind) # None
            /\ \A u \in v .. w :
                 config[u].site # NoSite /\ config[u].site[kind] = limit(kind)
          inflight == {r \in Requests : request[r].permit /\ request[r].version \in v .. w}
      IN /\ stated("capacity") =>
              /\ Cardinality(inflight) <= limit("capacity").max
              /\ \A c \in Clients :
                   Cardinality({r \in inflight : Shape(r).client = c})
                     <= PerClient(limit("capacity").max)
         /\ \A kind \in Limiters : stated(kind) =>
              \A c \in Clients :
                Cardinality(Passages(kind, c, v .. w)) <= limit(kind).max

(***************************************************************************)
(* Nobody is served for less than the site asks: a request at the handler  *)
(* of a priced site has either passed the allowance of its own snapshot,   *)
(* or alone holds a spent credential that was sold for this price, to this *)
(* receiver and for this very request under the policy of the snapshot, or *)
(* a token worth its price, whatever was reloaded since it was sold.       *)
(***************************************************************************)
ServedIsEntitled ==
  \A r \in Requests :
    LET site == Site(r)
        paid == request[r].paid
    IN request[r].phase \in AtHandler /\ Priced(site) =>
       \/ request[r].free /\ passes["rate_limit"][request[r].version][Shape(r).client] > 0
       \/ /\ paid \in spent
          /\ \A q \in Requests \ {r} : request[q].paid # paid
          /\ \/ paid \in Tokens /\ Worth[paid] >= site.cashu
             \/ /\ paid \in 1 .. Len(sold)
                /\ sold[paid].amount = site.lightning.amount
                /\ sold[paid].receiver = site.lightning.receiver
                /\ sold[paid].hash.content = Shape(r).content
                /\ site.lightning.binds_cookie => sold[paid].hash.cookie = Shape(r).cookie

(***************************************************************************)
(* Whoever has paid is not turned away here: after its credential was      *)
(* consumed a request is answered by its handler or its backend, or is     *)
(* cut.  Its body can still be too long only if it was not bound to the    *)
(* payment, that is for Cashu, or if it was replayed.                      *)
(***************************************************************************)
PaidIsNotRefused ==
  [][\A r \in Requests :
       request[r].paid # None /\ request'[r].paid = None =>
         \/ answer' \in {0, 200, 502}
         \/ /\ answer' = 413
            /\ request[r].paid \in Tokens \/ request[r].replays > 0]_vars

(***************************************************************************)
(* A bearer credential that the site takes never reaches a backend, on no  *)
(* attempt (upstream_request_filter); and a request that offers two of     *)
(* them pays with neither.                                                 *)
(***************************************************************************)
CredentialsStayHere ==
  \A r \in Requests : request[r].phase \in AtHandler =>
    LET taken == {m \in Methods : Offers(Site(r), m)}
    IN /\ request[r].upstream \intersect taken = {}
       /\ request[r].paid # None =>
            Cardinality({m \in taken : Shape(r)[m] > 0}) = 1

(***************************************************************************)
(* A failed connection moves a request to the next address only before it  *)
(* has reached a backend, unless it is being replayed (fail_to_connect).   *)
(***************************************************************************)
OneBackend ==
  \A r \in Requests :
    Cardinality(request[r].reached) > 1 => request[r].replays > 0
===============================================================================
