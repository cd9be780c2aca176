# Geata: TLA+ models, model checking and proofs

Geata is a reverse proxy that sells access per request: by Cashu token, by
Lightning invoice (x402 or L402), or within a free allowance. This directory
models the parts of it whose correctness depends on interleavings, crashes,
cancelled futures, clocks and lost answers, checks them with TLC on small
instances, and proves the central ones with TLAPS for every value of the
constants.

## 1. The system

| Part | Source (`crates/geata/src/`) | State | Module |
|---|---|---|---|
| Lightning challenges and settlement | `payments/lightning/{mod,l402,maintenance,receiver}.rs` | redb tables ROOTS, QUOTES, SPENT | `Settlement` |
| Invoice concurrency budgets | `payments/lightning/issuance.rs`, `Capacity` in `config.rs` | semaphores, per-client counters, weak receiver map | `Issuance` |
| Cashu token admission | `payments/mod.rs`, `payments/ledger.rs` | ledger table, CDK sagas, `needs_recovery`, wallet lock | `CashuAdmission`, `CashuRetry` |
| Mint-backed deposits | `payments/minting.rs`, `payments/lightning/cashu.rs` | mint quotes, CDK store, QUOTES and MINTS tables, two cursors | `Deposits` |
| Payouts | `payments/payout.rs`, `manage_payouts` | payout record, send sagas | `Payout` |
| Rate limiter | `rate_limit.rs` | token buckets of a shard | `RateLimiter` |
| Request pipeline | `proxy.rs`, `challenge` and `requirements` of the payment modules | request context, limiters, permits | `Gate` |
| Configuration language and its reload | `config.rs`, `watch_config` | the file, `ArcSwap<Config>` | `Tokenizer`, `Configuration`, `Geatafile`; what a reload keeps (`state.rs`) in `Gate`, domains in `Certificates` |
| Certificate automation | `automation.rs`, `acme_http.rs`, `retry.rs`, `certificates.rs`, `storage.rs` | retry journal, pending certificates, workers, CA cooldown | `Certificates` |
| Connection admission and deadlines | `connections.rs`, `BoundedProxy` of `proxy.rs` | a `Capacity`, readiness signal, deadline watches | `Connections` |
| Start-up and wallet commands | `main.rs` | data lock | exclusion of proxy and commands, in `Payout` |
| Logging | `logging.rs` | none | none |

How the parts meet. A connection takes a slot (`Connections`) and its requests
run through `Gate`, under the version of the file (`Geatafile`) that was current
when they were routed. A request without a credential takes a token from the
rate limiter, or is answered 402 with a challenge; a Lightning challenge takes
the two permits of `Issuance`, asks its receiver for an invoice (an LDK node, or
a Cashu mint through `Deposits`) and stores an L402 root. A request with a
credential is settled by `Settlement` or `CashuAdmission`; both end in a durable
claim that precedes the handler. Background loops prune expired records, claim
and retire deposits, and pay out the wallet's balance.

Two facts about the runtime shape every model. A request is a future that a
timeout or a disconnection may drop at any await. A database write runs in
`spawn_blocking`, so it commits even when the future that waits for it has been
dropped, however late.

## 2. Modules

`OneAttempt` is the abstract specification of a payment: it is consumed before
its request reaches the handler, and it lets at most one request through. An
attempt may be lost, never doubled. `Settlement` and `CashuAdmission` are each
shown to implement it.

`Settlement`. Each write transaction is one atomic step. `challenge` is
`StartChallenge` (the early capacity check), `CreateInvoice` (the receiver),
`RecordQuote` (the association of a mint-backed invoice), `Revalidate`, then
`MintL402` or `OfferX402`. `settle` is `SettleX402` and `Claim`; `settle_l402`
is `ReadRoot`, `VerifyL402`, `CollectDeposit` and `Claim`, each with its own
reading of the clock. A request that was cancelled while its claim was running
is one that claims and is dropped afterwards. `OpenDatabase` and `PruneExpired`
prune. There are two clocks: `mono` for deadlines, and `wall`, which
expiries are compared with and which may be stepped within a band of `DRIFT`.
`lapsed` is a history variable: the invoices whose grace some reading of `wall`
has been past.

`CashuAdmission`. `collect_inner` is `Start` (`try_lock`), `Open`,
`RecoverSaga`, `Recovered`, `Reserve`, `Redeem`, `Receive` or `Rejected`,
`Claim`, and `Admit` in the proxy. `Cancel` drops the future at any of them and
may leave a detached transaction, which `Commit` applies later. `MintSwap`,
`MintSwapOrphan` and `SpendElsewhere` are the mint and the other owners of a
proof (external). `CashuRetry` adds an end of faults, for the liveness property.

`Deposits`. `StartChallenge`, `mint_invoice`, `Associate` make a deposit;
`collect_mint_invoice` is the client's retry; the remaining actions are the
maintenance pass step by step: list the unissued quotes, check and handle a
batch in cursor order, then visit the associations, journal a retirement,
remove the wallet's quote and the association. Three stores change in separate
steps (mint, CDK wallet, Lightning database), with crashes, timeouts and lost
answers between any two. The `needs_recovery` flag is abstracted to "an open
saga is resolved before the next use".

`Payout`. A job is an automatic payout or a wallet command. Its phases follow
`automatic_payout`, `pay`, `pending` and `send_request`; the saved record is
`ledger`, the send saga of each operation `saga`. `CancelSave` and
`CommitDetached` are the timeout during a save and its late commit. Proxy and
commands exclude one another by the data lock (`running`). `prepared`, a history
variable, is the time of the last automatic attempt that reached the wallet,
however the attempt ended.

`Issuance`. `try_acquire` is one step under the lock of its counters. A
`Permit` is dropped field by field in declaration order (`DropOrder`), and the
drop of a `CapacityPermit` is two steps, the counter in `Drop::drop` and the
semaphore permit afterwards. A receiver's `Capacity` dies with its last strong
reference; `Generations` are the objects that can exist at once.

`RateLimiter`. `Admit`, `Refuse`, `RefuseFull` are the outcomes of
`Shard::check`, each with the sweep that precedes it. Credit is fixed point as
in the code, with the rounding of the wait.

`Certificates`. `certificate_loop` is a program counter: `Wake`, `Join` or
`JoinAborted` at its `select!`, then `Sync` (forget and load domains), `Save`,
`Decide`, `Persist`, and either a registration (`BeginRegistration`,
`Registered`, `RegistrationFails`) or `Order` per domain. Workers (`Send`,
`Ordered`, `Issued`, `WorkerFails`, `Limited`) interleave with it; a reload
aborts a worker in `Sync`, and `DropAborted` is its late drop. `Reload` happens
only where the loop awaits, since both are futures of one task. `disk` holds the
files; a write succeeds, is lost, or lands and is reported as failed. Deadlines
and lifetimes are countdowns that `Tick` decrements, so no run is bounded in
time. `window`, `demanded` and `durable` are history variables: the rest of an
order's timeout, and the pause the CA has asked for, as known and as saved.
Challenges are kept by domain: the CA may offer a token again in a new order.

`Gate`. One domain, its configuration an ever longer sequence of versions
(`ReplaceConfig`), of which a request uses the one it was routed by. A request is
a shape (what the client sends) that goes through the checks of `request_filter`
in their order, every early return included: routing and redirects, body limit,
verification limit, capacity permit, allowance, choice of the payment method,
settlement or collection or a challenge, then the handler, the attempts to
connect, the body filter and the response. `Known` is the set of credentials a
client can have; an invoice records the terms it was sold for. A limiter is
named by the version that made it, and counts what it let pass; refill is
`RateLimiter`'s matter. Settlement and collection are one step each, which `Settlement` and
`CashuAdmission` refine.

`Connections`. A connection is accepted, shakes hands if it uses TLS, waits for its first
request if it speaks HTTP/2, and serves streams. A timer that has elapsed and an
event that has arrived are both states, and a `select!` takes either. Each
request has two deadlines, the one in its watch and the one its expiration has
armed, since routing replaces the first while the second may be passing.

`Tokenizer`, `Configuration`, `Geatafile`. `Tokenizer` is `tokenize` over
sequences of characters, as recursive operators. `Configuration` is the rest of
`Config::parse`: `Blocks` cuts the tokens into blocks and `Directives` a site's
words into directives, `SiteOf` makes a site of its directives and `ConfigOf` a
configuration of the blocks. The meaning of a single word (number, rate,
duration, address, origin, path, node key, header, payment request) is a table;
the one for mints gives the mint that a spelling stands for, as `parse_mint` does.
A site keeps the words of its settings and the receiver that it names. `Geatafile` puts
both to work: the text grows piece by piece, so each reachable state is one
input, a sequence of characters, of directives, or of blocks; and `watch_config`
is `Poll` against an operator who writes and truncates the file.

`MC*` modules and the `.cfg` files give the constants their values.

## 3. Runs

| Run | Properties | Shows |
|---|---|---|
| `settlement_clock_steps` | `LiveRootsKept`, `ImplementsOneAttempt`, `RecordsExpire` | one invoice over both protocols, two requests, a stepping clock: its root stays and is accepted until the clock has read a time past its grace; capacity comes back although the process may crash |
| `settlement_no_deadline` | `SingleUse`, `BarrierOutlivesCredential`, `CapacityRespected` | three invoices, requests that outlast the replay barrier; challenges racing for capacity |
| `cashu_admission` | `ProofsPayOnce`, `ClaimedIsPaid`, `WinnerKeepsTerms`, `ImplementsOneAttempt`, `RetrySucceeds` | overlapping tokens, two prices, cancellation anywhere; `docs/cashu.md`: "retry the same token after a 503" |
| `payout` | `GuardCoversUncertain`, `NoPaymentOverUncertain`, `PayoutsSpaced`, `CooldownHolds` | automatic and manual payouts, restarts, failing saves |
| `payout_late_saves` | `GuardCoversUncertain` (violated) | see findings |
| `issuance` | `PermitsExact`, `EndpointBudget` | permits dropped between the steps of others |
| `deposits` | `DepositsKept`, `LiveIsResolvable`, `PaidIsClaimed`, `SlotsReturned` | funds and associations across three stores; the cursors rotate past a failing quote |
| `rate_limiter` | `AllowanceBound`, `PromiseKept` | sweeping, a full shard, rounding |
| `certificates` | `SavedBeforeInstalled`, `ChallengeServed`, `NoDuplicateOrders`, `PauseHonoured`, `EventuallyServed` | any three faults: crashes, reloads, failing writes, CA errors and pauses; one domain never validates |
| `gate` | `LimitsSurviveReload`, `ServedIsEntitled`, `CredentialsStayHere`, `PaidIsNotRefused` | two requests of eight shapes, two reloads that change price, protocols, limits and handler |
| `connections` | `OneSlotEach`, `SilentIsClosed`, `TimedRequestsEnd` | three connections of any kind on two slots, timers racing events |
| `geatafile` | `LinesCompose`, `QuotingKeepsText`, `OrderIsFree`, `NothingIsDropped`, `ReloadsSettle` | every text of six characters, site of four directives, file of four blocks; a file edited for ever |

Each property of a passing run is paired with a mutant, a definition next to the
one it alters and marked `Mutant`, under which the run fails.

The types of every component but `Geatafile` (the file is any sequence of the
pieces given), and `UnfinishedIsFlagged`,
`RetiredIsSettled`, `OrdersUseSavedAccount`, `ServedThroughFailures` and
`OneBackend`, are theorems (section 5) and not repeated in the runs.

### Bounds

- `Settlement`: durations are scaled to a few ticks, with their order kept
  (`SKEW` 1, `EXPIRY` 1, `HOUR` 2 or 3). `MaxTime` exceeds the retention of every
  invoice created by `LastIssue`, so barriers are pruned within a run. Two
  requests are enough for any race on one key, since a claim reads only its key;
  they are interchangeable, which the safety run uses as a symmetry. Its three
  invoices are one offered over both protocols, one over x402 alone and one that
  is mint-backed, for two records of capacity.
- `CashuAdmission`: two tokens sharing a proof, two terms, and a fee that grows
  by `Shortfall` between check and swap. Two requests: one holds the lock, the
  other competes for it or has just won.
- `Payout`: three operations, an interval of 3 and a cooldown of 2 in 6 ticks,
  room for two intervals and a restart in each.
- `Issuance`: `Generations` as many as requests, since each live object is
  referred to by one; limits of 1 and 2 in place of 64/8 and 8/2, so that every
  limit is reached.
- `Deposits`: `MaxTime` lets quotes be bought at the start only, and two of them
  fill the wallet, so that two are outstanding at once, with the failing one among
  them or not; batch 1 makes a pass leave one out. With `MaxQuotes` 3 and three
  outstanding the properties hold too, but the run takes a quarter of an hour.
  `MaxFaults` 2 lets a second fault hit the recovery of the first. A tick is no
  shorter than a pass or a blocking write (seconds against an hour of grace).
- `RateLimiter`: a `TOKEN` of 3 at a rate of 2 makes the wait round; three
  clients compete for two buckets.
- `Certificates`: two domains and two workers, so that two requests may be at
  the CA at once. With as many workers as domains the limit of four is not put
  to the test: neither that it is kept nor that domains which never validate
  leave room for others is shown. The bounds also have delays below and above
  the timeout of an order, two lengths of pause, a lifetime with time to save a
  renewal before expiry.
  `MaxFaults` 3 allows a reload that removes a domain, one that restores it, and
  a crash, or failing saves until a pending certificate has expired. A tick
  stands for the loop's interval: the loop keeps up with it, and a task that was
  aborted is dropped within the timeout of its order.
- `Gate`: two requests, since what one request may take from another is a
  permit, a pass or a credential, and each has a limit of 1 or 2; two reloads,
  so that a policy may change and come back; one client, one token, one invoice.
  The shapes have a body at and above the limit, either Lightning header, a
  cookie other than the one paid for, two methods at once, and plain HTTP. The
  theorems of `GateProofs` do without these bounds.
- `Connections`: limits of 2 and 1 for three connections of two clients; one
  stream per connection in the run, any number in the proof. The lengths of the
  timers are left out: any timer that runs may elapse.
- `Geatafile`: six characters are enough for a quote, an escape and a comment
  around a newline. `MAX_PAYOUTS` is 2 (16 in the code): four blocks hold a site
  and three payouts, one too many, or two for spellings of one mint, and the
  pieces have a site without a canonical origin. `OrderIsFree` is about
  unquoted directive names. The 1 MiB limit of the file, the overflow limits of
  its integers and the wording of its errors are left out.

### Fairness

- `RecordsExpire`: weak fairness of time, of the pruning loop of
  `manage_lightning_records`, and of a restarted process opening its database.
  Nothing is assumed of clients, receivers or crashes.
- `RetrySucceeds`: requests proceed and the mint answers (weak), faults cease,
  and clients keep retrying (strong: `try_lock` does not queue, so a client
  must not meet a busy wallet for ever).
- `PaidIsClaimed`, `SlotsReturned`: weak fairness of the maintenance loop, of
  blocking writes, of time, and of the end of a challenge. Faults are bounded.
- `EventuallyServed`: weak fairness of the loop, of the workers, of the
  registration and of time. Every request to the CA is answered or times out;
  errors, pauses and failing writes are bounded by `MaxFaults`, except that
  orders of `Failing` domains always fail.
- `SilentIsClosed`, `TimedRequestsEnd`: weak fairness of each timer and of the
  futures that wait for them. Nothing is assumed of clients and backends.
- `ReloadsSettle`: weak fairness of `Poll`, that is, the 2 s loop keeps running
  and reads of the file do not fail for ever.

## 4. Findings

- **A late save may overwrite a payout guard** (`payout_late_saves`). When the
  30 s timeout cancels a payout during `save_payout`, the blocking write goes
  on. If it has not yet begun its transaction when a later pass saves the guard
  of a new payment, it overwrites that guard with a record that has none,
  contrary to the comment at `payments/payout.rs:336`. This takes a blocking task
  delayed beyond the 5 s pause and overtaken by later ones. When a cancelled save
  commits before the next pass (`LateSaves = FALSE`), all payout properties hold.

Four observations that no run settles:

- `prune` (`payments/lightning/maintenance.rs:4`) goes by one reading of the
  system clock. A clock that is stepped ahead past the grace of an invoice evicts
  the root of a credential that was sold and not yet used, and when the clock is
  set right the credential is refused: the payment's attempt is lost, not
  doubled. `LiveRootsKept` says that nothing short of such a reading evicts a
  root; `docs/lightning.md:305` ("Cleanup never evicts live credentials or live
  replay barriers") holds with live meaning that no reading was past the grace.
  A replay barrier has the safety hour on top, which covers the step
  (`ClockAssumption`).
- `CapacityPermit::drop` (`config.rs:113`) gives the counter back before the
  semaphore permit, so that between the two a client may hold more of the
  semaphore than the half which the comment at `config.rs:88` reserves.
  `PermitsExact` and `EndpointBudget` hold all the same.
- `fail_to_connect` (`proxy.rs:673`) moves a request on to the next address. If a
  request is replayed because its pooled connection had been closed, and the new
  connection then fails, the first backend may already have seen it. Whether the
  two meet is up to Pingora; `OneBackend` excludes replayed requests.
- `body_bytes` (`proxy.rs:608`) is not reset for a replay. If Pingora passes the
  replayed body through the filter again, a paid request below its limit may be
  refused; `PaidIsNotRefused` excludes replayed requests from its clause on 413.

## 5. Proofs

| Module | Theorems |
|---|---|
| `SettlementProofs` | `TypeCorrect`, `SingleUseHolds`, `BarrierHolds`, `LiveRootsHold`, `CapacityHolds`, `RefinesOneAttempt` |
| `CashuAdmissionProofs` | `TypeCorrect`, `ClaimedIsPaidHolds`, `ProofsPayOnceHolds`, `UnfinishedIsFlaggedHolds`, `WinnerKeepsTermsHolds`, `RefinesOneAttempt` |
| `LimitsProofs` | of `Issuance`: `CountersWithinLimits`, `PermitsNeverLeak`, `EndpointHasOneBudget`; of `RateLimiter`: `RateTypes`, `AllowanceHolds`, `PromiseHolds` |
| `PayoutProofs` | `PayoutTypes`, `GuardHolds`, `NeverOverUncertain`, `SpacedPayouts`, `AttemptsCoolDown` |
| `DepositsProofs` | `DepositTypes`, `FundsKept`, `AssociationsResolvable`, `RetirementSafe` |
| `ListenerProofs` | of `Certificates`: `CertificateTypes`, `SavedFirst`, `AccountSavedFirst`, `ChallengeKept`, `ServedMeanwhile`, `OrdersNotDuplicated`, `PausesHonoured`; of `Connections`: `ConnectionTypes`, `SlotsExact` |
| `GateProofs` | `GateTypes`, `ServedEntitled`, `CredentialsKept`, `ReachesOneBackend`, `PaidNotRefused`, `ReloadsGiveNoMore` |
| `ConfigurationProofs` | `BlocksInAnyOrder`, `DirectivesInAnyOrder`, `DirectivesTakeEffect`, `BlocksTakeEffect` |

`LimitsProofs` and `ListenerProofs` each extend two components that do not
interact, which is why the initial predicate, the next-state relation and the
specification of `RateLimiter` and of `Connections` have names of their own
(`LimiterSpec`, `ConnectionSpec`).

`Settlement`, from `SettlementConstants` and `ClockAssumption` (either the system
clock does not step, or step and request deadline together stay below the
safety hour). `SingleUse` is not inductive: a barrier may be pruned while a
request that verified earlier is still on its way. The strengthening says that
a consumed key is either present in SPENT or out of reach: its invoice can no
longer settle at any clock reading, and each request in progress is past its
deadline or will fail the retention check of `claim`; and that at most one
request has won each consumed key, and none after an attempt was made.
`LiveRootsKept` rests on an invariant of its own (`RootsInv`): while an invoice has
not lapsed the present reading is within its grace, and the root of its issued
challenge is stored with its full validity, so that no prune at that reading
takes it.

`CashuAdmission`, from `CashuConstants`. The strengthening accounts for a token's
proofs: a token that is swapped, or received, has its proofs among the spent
ones and no overlapping token is in that state; a request in `claiming`, and a
detached claim, has its price received. `RefinesOneAttempt` maps `consumed` to
the claimed records of the ledger.

`RateLimiter`, from `LimitConstants`. `AllowanceBound` counts requests, so the
strengthening relates the count to credit: what was admitted in the window plus
the credit a client would have now is at most the burst plus the refill
(`Funded`). A swept bucket is full, so sweeping is invisible
(`SweepInvisible`). `Promised` says that by the promised time the bucket holds a
token.

`Payout`, from `PayoutConstants` and, as a hypothesis of each theorem,
`~LateSaves`: a cancelled save commits before the next pass (without it
`GuardCoversUncertain` is false, see the finding). `GuardCoversUncertain` is not
inductive because a job acts on the record it has loaded. The strengthening
says that a job and a detached save never coexist, so that from load to save
nobody else writes the record; that no token is uncertain while a job holds a
loaded record, but for the one it is delivering; and that every record, saved,
held by the job or detached, remembers the latest confirmed payment and the
latest attempt.

`Deposits`, from `DepositConstants`. A quote is settled when its funds were
received, or when it is unpaid past the grace; this is stable. The
strengthening says that whatever is on the way to forgetting a quote (read as
retired, decided, being written late) concerns a settled quote, whatever is on
the way to associating one concerns a quote whose invoice still runs, and a
pass is at most one tick old, so that a quote associated after it started is not
past its grace. The limits rest on the finiteness of the lists.

`Certificates`, from `CertificateConstants`. The strengthening relates memory
and disk: a pending certificate is as young as the installed one and its domain
was loaded; an open account whose credentials are not waiting is saved; retry
times, in memory and on disk, outlast every order that may still run, aborted
ones included (hence no successor's challenge is dropped); the pause kept
covers the pause asked for, in memory and on disk.

`Gate`, from `GateConstants` (sentinels differ from credentials, lengths and
counts are numbers). The strengthening follows one request through its phases
under its snapshot (`Good`), says that no credential is held twice (`Alone`), and
shows that versions, sales, passes and spent credentials only grow (`Grows`), so
that no other request and no reload can undo what a phase has established.

`Connections`, from `ConnectionConstants`. `OneSlotEach` is inductive together
with the types: a step opens one connection under `CanAcquire`, closes one, or
leaves the open ones and their slots alone.

`Issuance`, from `IssuanceConstants`. A `Capacity` is used through three fields
that are given back at different steps, by requests that need not hold it any
longer. `PermitsExact` is inductive with the types, with what a request holds in
each phase (`Coherent`) and with the finiteness of the global permits: each step
moves one request into or out of the set that one counter counts.
`EndpointBudget` needs the map of weak references (`Directory`): every strong
reference to an endpoint's `Capacity` is to the one that the map names, so that
all slots of the endpoint are slots of one object. A permit's reference goes
last, so no slot outlives the entry, and a dead entry is replaced only when no
slot of its object is out.

`LimitsSurviveReload`, from `GateConstants`. A limiter is named by the version
that made it, and a version refers to the object it made or to one it kept. The
strengthening (`LInv`) says that versions with one object state one limit, and
that versions in a row with one limit have one object (`Lineage`); that the passes
of a client under all versions that share a limiter are at most its burst, and
that a version has none before it is installed (`Spending`); and that the permits
out of a `Capacity`, counted over all those versions, are within `max` and the share of
a client (`Occupancy`). So versions that state a limit in a row are all among
the versions of one object, and what they let through is part of what that
object counted. A request keeps its snapshot from routing to its end, so no
reload moves a permit or a pass from one object to another.

The strengthenings of `Issuance`, `Payout`, `Deposits`, `Certificates`, `Gate` and
`Connections` hold in TLC too, on the instances of the runs (in `Gate` with the
address that `Good` asks for sought in `0 .. Backends`).

`Configuration`, from no assumption on its tables. `BlocksInAnyOrder` takes any
sequence of blocks and any rearrangement of it. Receivers have names of their
own, or the file is rejected, so the `CHOOSE` that looks one up has one candidate
and finds it wherever it stands (`KnownInAnyOrder`): this is what resolving the
receivers before the sites buys. The number of payouts is kept because a
rearrangement pairs the two files' payouts off. `DirectivesInAnyOrder` is the same argument
about slots, of which none is filled twice. `DirectivesTakeEffect` and
`BlocksTakeEffect` count: from directives to slots, and from blocks to sites,
mints and receiver names, acceptance makes the correspondence exact.
They are what `OrderIsFree` and `NothingIsDropped` say, for files and sites of
any length, from the directives and blocks onwards. That tokens are cut into
these directives and blocks, whatever stands next to them, is a recursion over
the tokens, and it stays with TLC.

### Only model-checked

- `LinesCompose` and `QuotingKeepsText`: what the recursive `tokenize` computes.
- `OrderIsFree` and `NothingIsDropped` as stated over the text, that is, with the
  cutting by `Blocks` and `Directives` (see above).
- The liveness properties: `RecordsExpire`, `RetrySucceeds`, `PaidIsClaimed`,
  `SlotsReturned`, `EventuallyServed`, `SilentIsClosed`, `TimedRequestsEnd` and
  `ReloadsSettle`.

Liveness under fairness and ENABLED, induction over data, and RECURSIVE operators
are outside what the prover handles.

## 6. Not modelled

- Parsing, encoding and cryptography of credentials (tokens, macaroons, invoices,
  signatures): they reject a request before any state changes. In `Gate` a
  credential is what it was sold for, and the hash of a request the content and
  the cookie that it binds.
- The parsers of single values in the Geatafile (URLs, IP prefixes, durations,
  payment requests), which are tables.
- The headers that the proxy adds to forwarded requests and to responses, and
  Pingora's own connection handling, other than as the code uses it.
- The CDK wallet, the mint, the LDK node and the CA, other than as the code uses
  them. Assumed of the wallet: a saga is persisted before its request is sent
  and resolved by recovery. Assumed of a mint: it swaps a proof once, its fresh
  answer about a quote is current, and it does not take a payment for a quote
  past its grace. A wallet whose recovery fails for ever is not modelled.
- More than one mint: wallets, ledgers and locks are per mint.
- Damaged state files (the loop then pauses and retries, changing nothing), the
  parsing of `Retry-After` and of certificates, and the TLS callback, which only
  reads `State.certificates`.
- Read-only commands (`balance`, `export`), the wiring of services and the
  parsing of the command line in `main.rs`, the example client, and logging.

## 7. What could come next

1. A composition of `Deposits` and `Settlement`, replacing `CollectDeposit`'s
   abstraction of the wallet.
2. Payout policies that change by a reload while a payout is under way.
