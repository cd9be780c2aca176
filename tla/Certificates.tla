----------------------------- MODULE Certificates -----------------------------
(***************************************************************************)
(* Certificate automation (automation.rs, acme_http.rs, retry.rs): a loop  *)
(* that orders certificates for the configured domains through workers,    *)
(* saves and installs them, and keeps a journal of retry times and of the  *)
(* pause the CA has asked for, so that both survive a restart.             *)
(*                                                                         *)
(* The loop, the watcher of the configuration and the wait for an account  *)
(* share a task: a reload happens only where the loop awaits.  Workers run *)
(* in tasks of their own.  A file write succeeds, is lost, or takes effect *)
(* and is reported as failed (the directory sync after the rename).        *)
(*                                                                         *)
(* Times are kept as what is left of them: a deadline is a countdown, a    *)
(* certificate its remaining lifetime, 0 when expired or absent.           *)
(***************************************************************************)
EXTENDS Integers, FiniteSets

CONSTANTS
  Domains,
  Failing,     \* domains the CA never validates
  Account,     \* key of the account's own retry time
  LIFE,        \* lifetime of a certificate
  TIMEOUT,     \* of an order (180 s) and of a registration (30 s)
  Delays,      \* waits that Retry::failed may choose
  Pauses,      \* Retry-After values of the CA
  SAVE,        \* pause between attempts to save (5 s)
  MaxWorkers,  \* 4
  MaxFaults    \* bound: crashes, reloads, failed writes, CA errors

None == -1

Keys == Domains \union {Account}

ASSUME CertificateConstants ==
  /\ IsFiniteSet(Domains) /\ Failing \subseteq Domains
  /\ Account \notin Domains
  /\ {LIFE, TIMEOUT, SAVE, MaxWorkers} \subseteq Nat \ {0}
  /\ Delays \subseteq Nat \ {0} /\ Pauses \subseteq Nat \ {0}
  /\ MaxFaults \in Nat

VARIABLES
  domains,     \* HTTPS domains of the configuration
  pc,          \* where the loop is
  due,         \* the interval of the loop has elapsed
  installed,   \* State.certificates
  pending,     \* issued, not yet saved; None when there is none
  loaded,      \* domains the disk was read for
  job,         \* worker of each domain
  inflight,    \* workers with a request at the CA
  aborted,     \* aborted worker of each domain, until it is joined
  challenges,  \* State.challenges, by domain: the CA may reuse a token
  account,     \* an account is open
  credentials, \* ... and its credentials are yet to be saved
  retry,       \* Retries, in memory
  cooldown,    \* Cooldown.until
  save_in,     \* until save_at
  disk,        \* the files: certificates, account, retries, ca-retry
  window,      \* history: what is left of an order nobody saw the end of
  demanded,    \* history: pause the CA has asked for, as far as known
  durable,     \* history: ... and as far as it was saved
  faults       \* number of faults so far

memory == <<pc, due, pending, loaded, account, credentials, retry, save_in>>
workers == <<job, inflight, aborted, challenges>>
pauses == <<cooldown, demanded, durable>>
vars == <<domains, installed, memory, workers, pauses, disk, window, faults>>

Most(a, b) == IF a >= b THEN a ELSE b

-----------------------------------------------------------------------------
(* Faults and file writes.                                                  *)

Fault == faults < MaxFaults /\ faults' = faults + 1
Bad(happened) == IF happened THEN Fault ELSE UNCHANGED faults

Outcomes == {"ok", "lost", "unreported"}
Written(outcome, new, old) == IF outcome = "lost" THEN old ELSE new

\* Storage::write of the retry journal, with the retry times to be saved.
WriteRetries(outcome, retries) ==
  disk' = [disk EXCEPT !.retry = Written(outcome, retries, @)]

Init ==
  /\ domains = Domains
  /\ pc = "wait" /\ due = FALSE
  /\ installed = [d \in Domains |-> 0]
  /\ pending = [d \in Domains |-> None]
  /\ loaded = {}
  /\ job = [d \in Domains |-> "none"]
  /\ aborted = [d \in Domains |-> "none"]
  /\ inflight = {} /\ challenges = {}
  /\ account = FALSE /\ credentials = FALSE
  /\ retry = [k \in Keys |-> 0]
  /\ cooldown = 0 /\ demanded = 0 /\ durable = 0
  /\ save_in = 0
  /\ disk = [certificate |-> installed, account |-> FALSE, retry |-> retry, cooldown |-> 0]
  /\ window = [k \in Keys |-> 0]
  /\ faults = 0

-----------------------------------------------------------------------------
(* Retry times.                                                                 *)

\* Mutant: the wait need not outlast the attempt.
BeginShort(delay) == delay

\* begin outlasts the attempt itself: it is journalled before the attempt.
begin(delay) == Most(delay, TIMEOUT)

\* needs_renewal: two thirds of the lifetime are over, or there is none.
needs_renewal(d) == installed[d] <= LIFE - (LIFE * 2) \div 3

-----------------------------------------------------------------------------
(* Workers: issue, with the pause checked before every request.             *)

Running(d) == job[d] \in {"ordered", "waiting"}

Send(d) ==
  /\ Running(d) /\ d \notin inflight
  /\ cooldown = 0
  /\ inflight' = inflight \union {d}
  /\ UNCHANGED <<domains, installed, memory, job, aborted, challenges, pauses, disk,
                 window, faults>>

\* The order is accepted: its challenge is served from now on ...
Ordered(d) ==
  /\ d \in inflight /\ job[d] = "ordered"
  /\ inflight' = inflight \ {d}
  /\ job' = [job EXCEPT ![d] = "waiting"]
  /\ challenges' = challenges \union {d}
  /\ UNCHANGED <<domains, installed, memory, aborted, pauses, disk, window, faults>>

\* ... until the CA has fetched it and issued the certificate.
Issued(d) ==
  /\ d \in inflight \ Failing /\ job[d] = "waiting"
  /\ d \in challenges
  /\ inflight' = inflight \ {d}
  /\ job' = [job EXCEPT ![d] = "issued"]
  /\ challenges' = challenges \ {d}
  /\ UNCHANGED <<domains, installed, memory, aborted, pauses, disk, window, faults>>

WorkerEnds(d) ==
  /\ inflight' = inflight \ {d}
  /\ job' = [job EXCEPT ![d] = "failed"]
  /\ challenges' = challenges \ {d}

\* An error of the CA, the timeout, or a pause that others have learnt of.
WorkerFails(d) ==
  /\ Running(d)
  /\ Bad(cooldown = 0 /\ d \notin Failing)
  /\ WorkerEnds(d)
  /\ UNCHANGED <<domains, installed, memory, aborted, pauses, disk, window>>

\* Mutant: the latest answer wins.
DeferLatest(pause, outcome) ==
  /\ cooldown' = pause
  /\ disk' = [disk EXCEPT !.cooldown = Written(outcome, cooldown', @)]

\* Cooldown::defer keeps the longest pause, in memory even if not on disk.
defer(pause, outcome) ==
  /\ cooldown' = Most(cooldown, pause)
  /\ disk' = [disk EXCEPT !.cooldown = Written(outcome, cooldown', @)]

Demand(pause, outcome) ==
  /\ demanded' = Most(demanded, pause)
  /\ durable' = Written(outcome, demanded', durable)

\* The CA answers with Retry-After.
Limited(d) ==
  /\ d \in inflight
  /\ Fault
  /\ \E pause \in Pauses, outcome \in Outcomes :
       defer(pause, outcome) /\ Demand(pause, outcome)
  /\ WorkerEnds(d)
  /\ UNCHANGED <<domains, installed, memory, aborted, window>>

\* An aborted worker is dropped when its task next yields, which may be after
\* it has placed its challenge: the drop of Challenges takes it away.
DropAborted(d) ==
  /\ aborted[d] = "aborting"
  /\ aborted' = [aborted EXCEPT ![d] = "aborted"]
  /\ challenges' = challenges \ {d}
  /\ UNCHANGED <<domains, installed, memory, job, inflight, pauses, disk, window, faults>>

Worker(d) ==
  \/ Send(d) \/ Ordered(d) \/ Issued(d) \/ WorkerFails(d) \/ Limited(d) \/ DropAborted(d)

-----------------------------------------------------------------------------
(* The loop: it wakes for its interval or for a worker that has ended.      *)

Wake ==
  /\ pc = "wait" /\ due
  /\ due' = FALSE /\ pc' = "sync"
  /\ UNCHANGED <<domains, installed, pending, loaded, account, credentials, retry,
                 save_in, workers, pauses, disk, window, faults>>

Join(d) ==
  /\ pc = "wait" /\ job[d] \in {"issued", "failed"}
  /\ pc' = "sync"
  /\ job' = [job EXCEPT ![d] = "none"]
  /\ window' = [window EXCEPT ![d] = 0]
  /\ IF job[d] = "issued"
       THEN pending' = [pending EXCEPT ![d] = LIFE] /\ retry' = retry
       ELSE pending' = pending /\ \E delay \in Delays : retry' = [retry EXCEPT ![d] = delay]
  /\ \E outcome \in Outcomes : WriteRetries(outcome, retry') /\ Bad(outcome # "ok")
  /\ UNCHANGED <<domains, installed, due, loaded, account, credentials, save_in,
                 inflight, aborted, challenges, pauses>>

\* The result of a worker that is no longer active is dropped.
JoinAborted(d) ==
  /\ pc = "wait" /\ aborted[d] = "aborted"
  /\ pc' = "sync"
  /\ aborted' = [aborted EXCEPT ![d] = "none"]
  /\ \E outcome \in Outcomes : WriteRetries(outcome, retry) /\ Bad(outcome # "ok")
  /\ UNCHANGED <<domains, installed, due, pending, loaded, account, credentials, retry,
                 save_in, job, inflight, challenges, pauses, window>>

\* Workers::retain drops the requests of the workers it aborts.
Requests == inflight \intersect domains

\* Forget what the configuration no longer names, load what it newly names.
Sync ==
  /\ pc = "sync"
  /\ pc' = "save"
  /\ job' = [d \in Domains |-> IF d \in domains THEN job[d] ELSE "none"]
  /\ aborted' = [d \in Domains |->
       IF d \in domains \/ job[d] = "none" THEN aborted[d]
       ELSE IF Running(d) THEN "aborting" ELSE "aborted"]
  /\ inflight' = Requests
  /\ pending' = [d \in Domains |-> IF d \in domains THEN pending[d] ELSE None]
  /\ installed' = [d \in Domains |->
       IF d \notin domains THEN 0
       ELSE IF d \notin loaded /\ installed[d] = 0 THEN disk.certificate[d]
       ELSE installed[d]]
  /\ loaded' = domains
  /\ UNCHANGED <<domains, due, account, credentials, retry, save_in, challenges,
                 pauses, disk, window, faults>>

SaveNotDue ==
  /\ pc = "save" /\ save_in > 0
  /\ pc' = "decide"
  /\ UNCHANGED <<domains, installed, due, pending, loaded, account, credentials, retry,
                 save_in, workers, pauses, disk, window, faults>>

Valid == {d \in Domains : pending[d] > 0}

\* Mutant: the certificate is installed whether or not it could be saved.
InstallAnyway(saved) ==
  installed' = [d \in Domains |-> IF d \in Valid THEN pending[d] ELSE installed[d]]

\* install, after a write that reported success.
install(saved) ==
  installed' = [d \in Domains |-> IF d \in saved THEN pending[d] ELSE installed[d]]

\* Mutant: a certificate that expired while it could not be saved is kept.
RetainedExpired(saved) ==
  [d \in Domains |-> IF d \in saved THEN None ELSE pending[d]]

\* What is to be saved later: neither what was saved nor what has expired.
Retained(saved) ==
  [d \in Domains |-> IF d \in saved \/ pending[d] = 0 THEN None ELSE pending[d]]

\* Save the account, then every pending certificate that is still valid; a
\* write that was reported as failed may have landed all the same.
Save ==
  /\ pc = "save" /\ save_in = 0
  /\ pc' = "decide" /\ save_in' = SAVE
  /\ \E ofAccount, ofRetries \in Outcomes, landed \in SUBSET Valid : \E saved \in SUBSET landed :
       /\ credentials \/ ofAccount = "ok"
       /\ saved # {} \/ ofRetries = "ok"
       /\ credentials' = (credentials /\ ofAccount # "ok")
       /\ install(saved)
       /\ pending' = Retained(saved)
       /\ retry' = [k \in Keys |-> IF k \in saved THEN 0 ELSE retry[k]]
       /\ disk' = [disk EXCEPT
            !.account = @ \/ (credentials /\ ofAccount # "lost"),
            !.certificate = [d \in Domains |-> IF d \in landed THEN pending[d] ELSE @[d]],
            !.retry = IF saved = {} THEN @ ELSE Written(ofRetries, retry', @)]
       /\ Bad(ofAccount # "ok" \/ ofRetries # "ok" \/ saved # Valid)
  /\ UNCHANGED <<domains, due, loaded, account, workers, pauses, window>>

-----------------------------------------------------------------------------
(* The loop: what to ask of the CA.                                         *)

\* JoinSet::len counts aborted workers until they are joined.
Jobs == Cardinality({d \in Domains : job[d] # "none"})
        + Cardinality({d \in Domains : aborted[d] # "none"})

Blocked ==
  \/ credentials \/ cooldown > 0 \/ Jobs >= MaxWorkers
  \/ ~account /\ retry[Account] > 0

Needed == {d \in domains : job[d] = "none" /\ pending[d] = None /\ needs_renewal(d) /\ retry[d] = 0}

loopKeeps == <<domains, installed, due, pending, loaded, save_in, aborted, challenges, inflight>>

Decide ==
  /\ pc = "decide"
  /\ pc' = IF Blocked \/ Needed = {} THEN "wait" ELSE "persist"
  /\ UNCHANGED <<loopKeeps, account, credentials, retry, job, pauses, disk, window, faults>>

\* Nothing is asked of the CA before the pause and the journal are on disk.
Persist ==
  /\ pc = "persist"
  /\ \E ofPause, ofRetries \in Outcomes :
       /\ ofPause = "ok" \/ ofRetries = "lost"
       /\ disk' = [disk EXCEPT !.cooldown = Written(ofPause, cooldown, @),
                               !.retry = Written(ofRetries, retry, @)]
       /\ durable' = Written(ofPause, demanded, durable)
       /\ pc' = IF ofPause # "ok" \/ ofRetries # "ok" THEN "wait"
                ELSE IF account THEN "order" ELSE "begin"
       /\ Bad(pc' = "wait")
  /\ UNCHANGED <<loopKeeps, account, credentials, retry, job, cooldown, demanded, window>>

\* Journal the registration before it is made.
BeginRegistration ==
  /\ pc = "begin"
  /\ \E delay \in Delays, outcome \in Outcomes :
       /\ retry' = [retry EXCEPT ![Account] = begin(delay)]
       /\ WriteRetries(outcome, retry')
       /\ pc' = IF outcome = "ok" THEN "register" ELSE "wait"
       /\ window' = IF outcome = "ok" THEN [window EXCEPT ![Account] = TIMEOUT] ELSE window
       /\ Bad(outcome # "ok")
  /\ UNCHANGED <<loopKeeps, account, credentials, job, pauses>>

\* A saved account is opened; without one a new account is created.
Registered ==
  /\ pc = "register" /\ cooldown = 0
  /\ pc' = "wait"
  /\ account' = TRUE /\ credentials' = ~disk.account
  /\ save_in' = 0
  /\ retry' = [retry EXCEPT ![Account] = 0]
  /\ window' = [window EXCEPT ![Account] = 0]
  /\ \E outcome \in Outcomes : WriteRetries(outcome, retry') /\ Bad(outcome # "ok")
  /\ UNCHANGED <<domains, installed, due, pending, loaded, workers, pauses>>

\* The CA answers the registration with Retry-After.
RegistrationLimited ==
  /\ pc = "register" /\ cooldown = 0
  /\ pc' = "limited"
  /\ Fault
  /\ \E pause \in Pauses, outcome \in Outcomes :
       defer(pause, outcome) /\ Demand(pause, outcome)
  /\ UNCHANGED <<loopKeeps, account, credentials, retry, job, window>>

\* An error of the CA, the timeout, or a pause.
RegistrationFails ==
  /\ pc \in {"register", "limited"}
  /\ pc' = "wait"
  /\ \E delay \in Delays : retry' = [retry EXCEPT ![Account] = delay]
  /\ window' = [window EXCEPT ![Account] = 0]
  /\ \E outcome \in Outcomes :
       /\ WriteRetries(outcome, retry')
       /\ Bad(outcome # "ok" \/ (pc = "register" /\ cooldown = 0))
  /\ UNCHANGED <<loopKeeps, account, credentials, job, pauses>>

\* The domain whose certificate expires first is next; its attempt is
\* journalled before its worker starts.
Order(d) ==
  /\ pc = "order"
  /\ d \in Needed /\ Jobs < MaxWorkers
  /\ \A e \in Needed : installed[d] <= installed[e]
  /\ \E delay \in Delays, outcome \in Outcomes :
       /\ retry' = [retry EXCEPT ![d] = begin(delay)]
       /\ WriteRetries(outcome, retry')
       /\ IF outcome = "ok"
            THEN /\ job' = [job EXCEPT ![d] = "ordered"]
                 /\ window' = [window EXCEPT ![d] = TIMEOUT]
                 /\ pc' = pc
            ELSE pc' = "wait" /\ UNCHANGED <<job, window>>
       /\ Bad(outcome # "ok")
  /\ UNCHANGED <<loopKeeps, account, credentials, pauses>>

OrdersDone ==
  /\ pc = "order"
  /\ Needed = {} \/ Jobs >= MaxWorkers
  /\ pc' = "wait"
  /\ UNCHANGED <<loopKeeps, account, credentials, retry, job, pauses, disk, window, faults>>

\* The loop between two awaits, and what it does when it is woken.
Loop ==
  \/ Wake \/ Sync \/ SaveNotDue \/ Save \/ Decide \/ Persist \/ BeginRegistration
  \/ OrdersDone
  \/ \E d \in Domains : Join(d) \/ JoinAborted(d) \/ Order(d)

Registration == Registered \/ RegistrationLimited \/ RegistrationFails

-----------------------------------------------------------------------------
(* The environment.                                                         *)

AtAwait == pc \in {"wait", "register", "limited"}

\* replace_config: the loop learns of it in its next round.
Reload ==
  /\ AtAwait /\ Fault
  /\ domains' \in SUBSET Domains \ {domains}
  /\ UNCHANGED <<installed, memory, workers, pauses, disk, window>>

\* main loads the saved certificates before connections are accepted.
Restart ==
  installed' = [d \in Domains |-> IF d \in domains THEN disk.certificate[d] ELSE 0]

Crash ==
  /\ Fault
  /\ Restart
  /\ pc' = "wait" /\ due' = FALSE
  /\ pending' = [d \in Domains |-> None] /\ loaded' = {}
  /\ job' = [d \in Domains |-> "none"] /\ aborted' = [d \in Domains |-> "none"]
  /\ inflight' = {} /\ challenges' = {}
  /\ account' = FALSE /\ credentials' = FALSE
  /\ retry' = disk.retry /\ cooldown' = disk.cooldown
  /\ demanded' = durable
  /\ save_in' = 0
  /\ UNCHANGED <<domains, disk, durable, window>>

Less(n) == IF n > 0 THEN n - 1 ELSE n
Each(f) == [x \in DOMAIN f |-> Less(f[x])]

\* A second passes. The loop keeps up with its interval and with workers that
\* have ended; an order ends, or is dropped, within its timeout.
Tick ==
  /\ AtAwait /\ (due => pc # "wait")
  /\ \A d \in Domains :
       /\ pc = "wait" => job[d] \notin {"issued", "failed"} /\ aborted[d] # "aborted"
       /\ window[d] = 1 => ~Running(d) /\ aborted[d] # "aborting"
  /\ window[Account] = 1 => pc = "wait"
  /\ due' = TRUE
  /\ installed' = Each(installed) /\ pending' = Each(pending)
  /\ retry' = Each(retry) /\ window' = Each(window)
  /\ cooldown' = Less(cooldown) /\ demanded' = Less(demanded) /\ durable' = Less(durable)
  /\ save_in' = Less(save_in)
  /\ disk' = [disk EXCEPT !.certificate = Each(@), !.retry = Each(@), !.cooldown = Less(@)]
  /\ UNCHANGED <<domains, pc, loaded, account, credentials, workers, faults>>

Next == Loop \/ Registration \/ (\E d \in Domains : Worker(d)) \/ Reload \/ Crash \/ Tick

Spec == Init /\ [][Next]_vars

\* The loop and the tasks are scheduled, time passes, and the CA answers every
\* request sooner or later, with an error only as often as MaxFaults allows.
FairSpec ==
  /\ Spec
  /\ WF_vars(Loop) /\ WF_vars(Registration) /\ WF_vars(Tick)
  /\ \A d \in Domains : WF_vars(Worker(d))

-----------------------------------------------------------------------------
(* Properties.                                                              *)

Lifetimes == 0 .. LIFE
Waits == Nat

\* Types, and an aborted worker has no request under way (Workers::retain).
TypeOK ==
  /\ domains \subseteq Domains /\ loaded \subseteq Domains
  /\ inflight \subseteq {d \in Domains : Running(d)} /\ challenges \subseteq Domains
  /\ pc \in {"wait", "sync", "save", "decide", "persist", "begin", "register", "limited", "order"}
  /\ {due, account, credentials} \subseteq BOOLEAN
  /\ installed \in [Domains -> Lifetimes]
  /\ pending \in [Domains -> Lifetimes \union {None}]
  /\ job \in [Domains -> {"none", "ordered", "waiting", "issued", "failed"}]
  /\ aborted \in [Domains -> {"none", "aborting", "aborted"}]
  /\ retry \in [Keys -> Waits] /\ window \in [Keys -> Waits]
  /\ {cooldown, demanded, durable, save_in, faults} \subseteq Waits
  /\ disk \in [certificate : [Domains -> Lifetimes], account : BOOLEAN,
               retry : [Keys -> Waits], cooldown : Waits]

\* "A replacement is saved atomically before it is installed in memory": what
\* handshakes are served with is never newer than what a restart would find,
\* whatever writes fail, and reloads that drop and reload a domain included.
SavedBeforeInstalled ==
  \A d \in Domains : installed[d] <= disk.certificate[d]

\* A still valid certificate remains available during failures: while its
\* domain stays configured only the passage of time shortens the lifetime of
\* the installed certificate; no failed order, failed write, reload of other
\* domains or restart does.
ServedThroughFailures ==
  [][\A d \in domains \intersect domains' : installed'[d] < installed[d] => Tick]_vars

\* "A crash during issuance must not cause immediate duplicate orders"
\* (Retry::begin): no order and no registration starts while an earlier one
\* of the same key, whose end the loop has not seen, may still be running.
NoDuplicateOrders ==
  [][\A k \in Keys : window'[k] > window[k] => window[k] = 0]_vars

\* CA pauses hold across workers and restarts (Cooldown): a request is sent,
\* by a worker or to open the account, only when every pause the CA has asked for is over, except one that a crash
\* has made the proxy forget because it could not be written.
PauseHonoured ==
  [][~(inflight' \subseteq inflight) \/ (account' /\ ~account) => demanded = 0]_vars

\* Orders are placed only with an account that a restart can use again: while
\* its credentials cannot be saved, issuance pauses (certificate_loop).
OrdersUseSavedAccount ==
  \A d \in Domains : Running(d) => disk.account

\* While a worker waits for validation, the challenge it placed is served: a
\* worker of the same domain that a reload aborted earlier, and whose drop
\* removes challenges late, does not take it away (Challenges::drop).
ChallengeServed ==
  \A d \in Domains : job[d] = "waiting" => d \in challenges

\* A configured domain that the CA will validate gets a certificate, although
\* writes fail, the proxy crashes, the CA asks for pauses and another domain
\* never validates.
EventuallyServed ==
  \A d \in Domains \ Failing :
    (d \in domains /\ installed[d] = 0) ~> (d \notin domains \/ installed[d] > 0)

===============================================================================
