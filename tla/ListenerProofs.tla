---------------------------- MODULE ListenerProofs ----------------------------
(***************************************************************************)
(* The listeners: the certificates that they serve, and the slots of their *)
(* connections.                                                            *)
(***************************************************************************)
EXTENDS Certificates, Connections, FiniteSetTheorems, TLAPS

-----------------------------------------------------------------------------
(* The safety of certificate automation, for any domains, lifetimes,        *)
(* waits, pauses, workers and number of faults.                             *)
(*                                                                          *)
(* Four facts make the properties inductive.  A pending certificate is as   *)
(* young as the installed one, and its domain was loaded, so neither a      *)
(* write reported as failed nor a reload makes the installed one outlive    *)
(* the file.  An open account whose credentials are not waiting is saved.   *)
(* The journal, in memory and on disk, outlasts every order that may still  *)
(* be running, aborted ones included.  The pause kept covers the pause      *)
(* asked for, in memory and on disk.                                        *)

PendingInv ==
  \A d \in Domains : pending[d] # None =>
    installed[d] <= pending[d] /\ d \in loaded /\ window[d] = 0

LoadedInv ==
  /\ \A d \in Domains : job[d] # "none" => d \in loaded
  /\ pc \in {"save", "decide", "persist", "begin", "order"} => loaded = domains

AccountInv ==
  /\ account /\ ~credentials => disk.account
  /\ pc \in {"persist", "begin", "order"} => ~credentials
  /\ pc = "order" => account
  /\ pc \in {"begin", "register", "limited"} => ~account

WindowInv ==
  /\ \A k \in Keys : window[k] <= retry[k] /\ window[k] <= disk.retry[k]
  /\ \A d \in Domains : Running(d) \/ aborted[d] = "aborting" => window[d] >= 1
  /\ \A d \in Domains : aborted[d] = "aborting" => job[d] = "none"
  /\ pc \in {"persist", "begin"} /\ ~account => retry[Account] = 0

PauseInv == demanded <= cooldown /\ durable <= disk.cooldown

IInv ==
  /\ TypeOK /\ SavedBeforeInstalled /\ OrdersUseSavedAccount /\ ChallengeServed
  /\ PendingInv /\ LoadedInv /\ AccountInv /\ WindowInv /\ PauseInv

USE CertificateConstants DEF Keys, Lifetimes, Waits, None, Running

-----------------------------------------------------------------------------
(* Every action keeps the invariant.                                        *)

\* A request is sent only while no pause runs.
LEMMA SendKeeps ==
  ASSUME IInv, NEW d \in Domains, Send(d)
  PROVE  IInv'
<1>1. TypeOK'
  BY DEF IInv, TypeOK, Send, memory, pauses
<1>2. SavedBeforeInstalled' /\ OrdersUseSavedAccount' /\ ChallengeServed' /\
      PendingInv' /\ LoadedInv' /\ AccountInv' /\ WindowInv' /\ PauseInv'
  BY DEF IInv, SavedBeforeInstalled, OrdersUseSavedAccount, ChallengeServed, PendingInv,
     LoadedInv, AccountInv, WindowInv, PauseInv, Send, memory, pauses
<1> QED  BY <1>1, <1>2 DEF IInv

\* The challenge is placed as the worker starts to wait.
LEMMA OrderedKeeps ==
  ASSUME IInv, NEW d \in Domains, Ordered(d)
  PROVE  IInv'
<1>1. TypeOK'
  BY DEF IInv, TypeOK, Ordered, memory, pauses
<1>2. OrdersUseSavedAccount'
  BY DEF IInv, OrdersUseSavedAccount, Ordered
<1>3. ChallengeServed'
  BY DEF IInv, ChallengeServed, Ordered
<1>4. WindowInv'
  BY DEF IInv, WindowInv, Ordered, memory
<1>5. SavedBeforeInstalled' /\ PendingInv' /\ LoadedInv' /\ AccountInv' /\
      PauseInv'
  BY DEF IInv, SavedBeforeInstalled, PendingInv, LoadedInv, AccountInv, PauseInv, Ordered,
     memory, pauses
<1> QED  BY <1>1, <1>2, <1>3, <1>4, <1>5 DEF IInv

\* The worker takes its own challenge away.
LEMMA IssuedKeeps ==
  ASSUME IInv, NEW d \in Domains, Issued(d)
  PROVE  IInv'
<1>1. TypeOK'
  BY DEF IInv, TypeOK, Issued, memory, pauses
<1>2. ChallengeServed'
  BY DEF IInv, TypeOK, ChallengeServed, Issued
<1>3. WindowInv'
  BY DEF IInv, WindowInv, Issued, memory
<1>4. SavedBeforeInstalled' /\ OrdersUseSavedAccount' /\ PendingInv' /\
      LoadedInv' /\ AccountInv' /\ PauseInv'
  BY DEF IInv, SavedBeforeInstalled, OrdersUseSavedAccount, PendingInv, LoadedInv,
     AccountInv, PauseInv, Issued, memory, pauses
<1> QED  BY <1>1, <1>2, <1>3, <1>4 DEF IInv

\* A failed worker leaves its challenge, not its journalled wait.
LEMMA WorkerFailsKeeps ==
  ASSUME IInv, NEW d \in Domains, WorkerFails(d)
  PROVE  IInv'
<1>1. TypeOK'
  BY DEF IInv, TypeOK, WorkerFails, WorkerEnds, Bad, Fault, memory, pauses
<1>2. ChallengeServed'
  BY DEF IInv, TypeOK, ChallengeServed, WorkerFails, WorkerEnds
<1>3. WindowInv'
  BY DEF IInv, WindowInv, WorkerFails, WorkerEnds, memory
<1>4. SavedBeforeInstalled' /\ OrdersUseSavedAccount' /\ PendingInv' /\
      LoadedInv' /\ AccountInv' /\ PauseInv'
  BY DEF IInv, SavedBeforeInstalled, OrdersUseSavedAccount, PendingInv, LoadedInv,
     AccountInv, PauseInv, WorkerFails, WorkerEnds, memory, pauses
<1> QED  BY <1>1, <1>2, <1>3, <1>4 DEF IInv

\* The pause grows in memory at least as much as on disk.
LEMMA LimitedKeeps ==
  ASSUME IInv, NEW d \in Domains, Limited(d)
  PROVE  IInv'
<1>1. TypeOK'
  BY DEF IInv, TypeOK, Limited, WorkerEnds, defer, Fault, Demand, Most,
     Written, memory
<1>2. ChallengeServed'
  BY DEF IInv, TypeOK, ChallengeServed, Limited, WorkerEnds
<1>3. WindowInv'
  BY DEF IInv, TypeOK, WindowInv, Limited, WorkerEnds, defer, memory
<1>4. PauseInv'
  BY DEF IInv, TypeOK, PauseInv, Limited, defer, Demand, Most, Written
<1>5. SavedBeforeInstalled' /\ OrdersUseSavedAccount' /\ PendingInv' /\
      LoadedInv' /\ AccountInv'
  BY DEF IInv, TypeOK, SavedBeforeInstalled, OrdersUseSavedAccount,
     PendingInv, LoadedInv, AccountInv, Limited, WorkerEnds, defer, memory
<1> QED  BY <1>1, <1>2, <1>3, <1>4, <1>5 DEF IInv

\* An aborted worker has no successor while it may still be dropped.
LEMMA DropAbortedKeeps ==
  ASSUME IInv, NEW d \in Domains, DropAborted(d)
  PROVE  IInv'
<1>1. TypeOK'
  BY DEF IInv, TypeOK, DropAborted, memory, pauses
<1>2. ChallengeServed'
  BY DEF IInv, ChallengeServed, WindowInv, DropAborted
<1>3. WindowInv'
  BY DEF IInv, WindowInv, DropAborted, memory
<1>4. SavedBeforeInstalled' /\ OrdersUseSavedAccount' /\ PendingInv' /\
      LoadedInv' /\ AccountInv' /\ PauseInv'
  BY DEF IInv, SavedBeforeInstalled, OrdersUseSavedAccount, PendingInv, LoadedInv,
     AccountInv, PauseInv, DropAborted, memory, pauses
<1> QED  BY <1>1, <1>2, <1>3, <1>4 DEF IInv

\* The loop wakes.
LEMMA WakeKeeps ==
  ASSUME IInv, Wake
  PROVE  IInv'
<1>1. TypeOK'
  BY Zenon DEF IInv, TypeOK, Wake, workers, pauses
<1>2. SavedBeforeInstalled' /\ OrdersUseSavedAccount' /\ ChallengeServed' /\
      PendingInv' /\ LoadedInv' /\ AccountInv' /\ WindowInv' /\ PauseInv'
  BY DEF IInv, SavedBeforeInstalled, OrdersUseSavedAccount, ChallengeServed, PendingInv,
     LoadedInv, AccountInv, WindowInv, PauseInv, Wake, workers, pauses
<1> QED  BY <1>1, <1>2 DEF IInv

\* A worker that was joined has no window, and its certificate is new.
LEMMA JoinKeeps ==
  ASSUME IInv, NEW d \in Domains, Join(d)
  PROVE  IInv'
<1>1. TypeOK'
  BY DEF IInv, TypeOK, Join, WriteRetries, Written, Bad, Fault, pauses
<1>2. SavedBeforeInstalled'
  BY DEF IInv, SavedBeforeInstalled, Join, WriteRetries
<1>3. OrdersUseSavedAccount'
  BY DEF IInv, OrdersUseSavedAccount, Join, WriteRetries
<1>4. PendingInv'
  BY DEF IInv, TypeOK, PendingInv, LoadedInv, Join
<1>5. AccountInv'
  BY DEF IInv, AccountInv, Join, WriteRetries
<1>6. WindowInv'
  BY DEF IInv, TypeOK, WindowInv, Join, WriteRetries, Written
<1>7. PauseInv'
  BY DEF IInv, PauseInv, Join, WriteRetries, pauses
<1>8. ChallengeServed' /\ LoadedInv'
  BY DEF IInv, ChallengeServed, LoadedInv, Join
<1> QED  BY <1>1, <1>2, <1>3, <1>4, <1>5, <1>6, <1>7, <1>8 DEF IInv

\* The result of an aborted worker changes no retry time.
LEMMA JoinAbortedKeeps ==
  ASSUME IInv, NEW d \in Domains, JoinAborted(d)
  PROVE  IInv'
<1>1. TypeOK'
  BY DEF IInv, TypeOK, JoinAborted, WriteRetries, Written, Bad, Fault, pauses
<1>2. SavedBeforeInstalled'
  BY DEF IInv, SavedBeforeInstalled, JoinAborted, WriteRetries
<1>3. OrdersUseSavedAccount'
  BY DEF IInv, OrdersUseSavedAccount, JoinAborted, WriteRetries
<1>4. AccountInv'
  BY DEF IInv, AccountInv, JoinAborted, WriteRetries
<1>5. WindowInv'
  BY DEF IInv, WindowInv, JoinAborted, WriteRetries, Written
<1>6. PauseInv'
  BY DEF IInv, PauseInv, JoinAborted, WriteRetries, pauses
<1>7. ChallengeServed' /\ PendingInv' /\ LoadedInv'
  BY DEF IInv, ChallengeServed, PendingInv, LoadedInv, JoinAborted
<1> QED  BY <1>1, <1>2, <1>3, <1>4, <1>5, <1>6, <1>7 DEF IInv

\* What is loaded again was not pending, and a dropped worker is aborted.
LEMMA SyncKeeps ==
  ASSUME IInv, Sync
  PROVE  IInv'
<1>1. TypeOK'
  BY DEF IInv, TypeOK, Sync, Requests, pauses
<1>2. SavedBeforeInstalled'
  BY DEF IInv, TypeOK, SavedBeforeInstalled, Sync
<1>3. ChallengeServed'
  BY DEF IInv, ChallengeServed, Sync
<1>4. PendingInv'
  BY DEF IInv, PendingInv, Sync
<1>5. LoadedInv'
  BY DEF IInv, LoadedInv, Sync
<1>6. WindowInv'
  BY DEF IInv, WindowInv, Sync
<1>7. OrdersUseSavedAccount' /\ AccountInv' /\ PauseInv'
  BY DEF IInv, OrdersUseSavedAccount, AccountInv, PauseInv, Sync, pauses
<1> QED  BY <1>1, <1>2, <1>3, <1>4, <1>5, <1>6, <1>7 DEF IInv

\* It is not time to save.
LEMMA SaveNotDueKeeps ==
  ASSUME IInv, SaveNotDue
  PROVE  IInv'
<1>1. TypeOK'
  BY DEF IInv, TypeOK, SaveNotDue, workers, pauses
<1>2. SavedBeforeInstalled' /\ OrdersUseSavedAccount' /\ ChallengeServed' /\
      PendingInv' /\ LoadedInv' /\ AccountInv' /\ WindowInv' /\ PauseInv'
  BY DEF IInv, SavedBeforeInstalled, OrdersUseSavedAccount, ChallengeServed, PendingInv,
     LoadedInv, AccountInv, WindowInv, PauseInv, SaveNotDue, workers, pauses
<1> QED  BY <1>1, <1>2 DEF IInv

\* A certificate that landed is as young as the installed one, and the
\* domain of a pending certificate has no window.
LEMMA SaveKeeps ==
  ASSUME IInv, Save
  PROVE  IInv'
<1>1. TypeOK'
  <2> DEFINE Saves(ofAccount, ofRetries, landed, saved) ==
          /\ credentials' = (credentials /\ ofAccount # "ok")
          /\ install(saved)
          /\ pending' = Retained(saved)
          /\ retry' = [k \in Keys |-> IF k \in saved THEN 0 ELSE retry[k]]
          /\ disk' = [disk EXCEPT
               !.account = @ \/ (credentials /\ ofAccount # "lost"),
               !.certificate = [d \in Domains |-> IF d \in landed THEN pending[d] ELSE @[d]],
               !.retry = IF saved = {} THEN @ ELSE Written(ofRetries, retry', @)]
          /\ Bad(ofAccount # "ok" \/ ofRetries # "ok" \/ saved # Valid)
  <2>1. PICK ofAccount \in Outcomes, ofRetries \in Outcomes,
             landed \in SUBSET Valid, saved \in SUBSET Valid :
          Saves(ofAccount, ofRetries, landed, saved)
    <3>1. PICK ofAccount \in Outcomes, ofRetries \in Outcomes, landed \in SUBSET Valid :
            \E saved \in SUBSET landed : Saves(ofAccount, ofRetries, landed, saved)
      BY Zenon DEF Save
    <3>2. PICK saved \in SUBSET landed : Saves(ofAccount, ofRetries, landed, saved)
      BY <3>1, Zenon
    <3>3. saved \in SUBSET Valid
      OBVIOUS
    <3> HIDE DEF Saves
    <3> QED  BY <3>2, <3>3
  <2>2. /\ installed' \in [Domains -> Lifetimes]
        /\ pending' \in [Domains -> Lifetimes \union {None}]
        /\ retry' \in [Keys -> Waits]
    BY <2>1 DEF IInv, TypeOK, install, Retained, Valid
  <2>3. disk' \in [certificate : [Domains -> Lifetimes], account : BOOLEAN,
                  retry : [Keys -> Waits], cooldown : Waits]
    <3> DEFINE certificate ==
                 [d \in Domains |-> IF d \in landed THEN pending[d] ELSE disk.certificate[d]]
               retries == IF saved = {} THEN disk.retry ELSE Written(ofRetries, retry', disk.retry)
    <3>1. certificate \in [Domains -> Lifetimes]
      BY DEF IInv, TypeOK, Valid
    <3>2. retries \in [Keys -> Waits]
      BY <2>2 DEF IInv, TypeOK, Written
    <3>3. (disk.account \/ (credentials /\ ofAccount # "lost")) \in BOOLEAN
      OBVIOUS
    <3>4. disk' = [disk EXCEPT !.account = disk.account \/ (credentials /\ ofAccount # "lost"),
                               !.certificate = certificate, !.retry = retries]
      BY <2>1
    <3> HIDE DEF certificate, retries
    <3> QED  BY <3>1, <3>2, <3>3, <3>4, Zenon DEF IInv, TypeOK
  <2>4. faults' \in Waits /\ credentials' \in BOOLEAN
    BY <2>1 DEF IInv, TypeOK, Bad, Fault
  <2> QED  BY <2>2, <2>3, <2>4, ZenonT(30) DEF IInv, TypeOK, Save, workers, pauses
<1>2. SavedBeforeInstalled'
  BY DEF IInv, TypeOK, SavedBeforeInstalled, PendingInv, Save, install, Valid
<1>3. OrdersUseSavedAccount'
  BY DEF IInv, TypeOK, OrdersUseSavedAccount, Save, workers
<1>4. PendingInv'
  BY DEF IInv, PendingInv, Save, install, Retained
<1>5. AccountInv'
  BY DEF IInv, TypeOK, AccountInv, Save
<1>6. WindowInv'
  BY DEF IInv, WindowInv, PendingInv, Save, Valid, Written, workers
<1>7. PauseInv'
  BY DEF IInv, PauseInv, Save, pauses
<1>8. ChallengeServed' /\ LoadedInv'
  BY DEF IInv, ChallengeServed, LoadedInv, Save, workers
<1> QED  BY <1>1, <1>2, <1>3, <1>4, <1>5, <1>6, <1>7, <1>8 DEF IInv

\* Nothing is asked of the CA while credentials wait to be saved.
LEMMA DecideKeeps ==
  ASSUME IInv, Decide
  PROVE  IInv'
<1>1. TypeOK'
  BY DEF IInv, TypeOK, Decide, pauses, loopKeeps
<1>2. AccountInv'
  BY DEF IInv, AccountInv, Decide, Blocked
<1>3. WindowInv'
  BY DEF IInv, TypeOK, WindowInv, Decide, Blocked, loopKeeps
<1>4. SavedBeforeInstalled' /\ OrdersUseSavedAccount' /\ ChallengeServed' /\
      PendingInv' /\ LoadedInv' /\ PauseInv'
  BY ZenonT(30) DEF IInv, SavedBeforeInstalled, OrdersUseSavedAccount, ChallengeServed, PendingInv,
     LoadedInv, PauseInv, Decide, pauses, loopKeeps
<1> QED  BY <1>1, <1>2, <1>3, <1>4 DEF IInv

\* The pause on disk becomes the pause in memory.
LEMMA PersistKeeps ==
  ASSUME IInv, Persist
  PROVE  IInv'
<1>1. TypeOK'
  <2>1. disk' \in [certificate : [Domains -> Lifetimes], account : BOOLEAN,
                  retry : [Keys -> Waits], cooldown : Waits]
    BY Zenon DEF IInv, TypeOK, Persist, Written
  <2>2. faults' \in Waits /\ durable' \in Waits
    BY DEF IInv, TypeOK, Persist, Written, Bad, Fault
  <2>3. pc' \in {"wait", "order", "begin"}
    BY DEF Persist
  <2> QED  BY <2>1, <2>2, <2>3 DEF IInv, TypeOK, Persist, loopKeeps
<1>2. SavedBeforeInstalled'
  BY DEF IInv, SavedBeforeInstalled, Persist, loopKeeps
<1>3. OrdersUseSavedAccount'
  BY DEF IInv, OrdersUseSavedAccount, Persist
<1>4. LoadedInv'
  BY DEF IInv, LoadedInv, Persist, loopKeeps
<1>5. AccountInv'
  BY DEF IInv, AccountInv, Persist
<1>6. WindowInv'
  BY DEF IInv, WindowInv, Persist, Written, loopKeeps
<1>7. PauseInv'
  BY DEF IInv, PauseInv, Persist, Written
<1>8. ChallengeServed' /\ PendingInv'
  BY DEF IInv, ChallengeServed, PendingInv, Persist, loopKeeps
<1> QED  BY <1>1, <1>2, <1>3, <1>4, <1>5, <1>6, <1>7, <1>8 DEF IInv

\* The wait that is journalled outlasts the registration.
LEMMA BeginRegistrationKeeps ==
  ASSUME IInv, BeginRegistration
  PROVE  IInv'
<1>1. TypeOK'
  BY DEF IInv, TypeOK, BeginRegistration, WriteRetries, Written, begin, Most,
     Bad, Fault, pauses, loopKeeps
<1>2. SavedBeforeInstalled'
  BY DEF IInv, SavedBeforeInstalled, BeginRegistration, WriteRetries, loopKeeps
<1>3. OrdersUseSavedAccount'
  BY DEF IInv, OrdersUseSavedAccount, BeginRegistration, WriteRetries
<1>4. PendingInv'
  BY DEF IInv, PendingInv, BeginRegistration, loopKeeps
<1>5. LoadedInv'
  BY DEF IInv, LoadedInv, BeginRegistration, loopKeeps
<1>6. AccountInv'
  BY DEF IInv, AccountInv, BeginRegistration
<1>7. WindowInv'
  BY DEF IInv, TypeOK, WindowInv, BeginRegistration, AccountInv, WriteRetries, Written,
     begin, Most, loopKeeps
<1>8. PauseInv'
  BY DEF IInv, PauseInv, BeginRegistration, WriteRetries, pauses
<1>9. ChallengeServed'
  BY DEF IInv, ChallengeServed, BeginRegistration, loopKeeps
<1> QED  BY <1>1, <1>2, <1>3, <1>4, <1>5, <1>6, <1>7, <1>8, <1>9 DEF IInv

\* An account that was not read from disk waits to be saved.
LEMMA RegisteredKeeps ==
  ASSUME IInv, Registered
  PROVE  IInv'
<1>1. TypeOK'
  BY DEF IInv, TypeOK, Registered, WriteRetries, Written, Bad, Fault, workers,
     pauses
<1>2. SavedBeforeInstalled'
  BY DEF IInv, SavedBeforeInstalled, Registered, WriteRetries
<1>3. OrdersUseSavedAccount'
  BY DEF IInv, OrdersUseSavedAccount, Registered, WriteRetries, workers
<1>4. PendingInv'
  BY DEF IInv, PendingInv, Registered
<1>5. AccountInv'
  BY Zenon DEF IInv, TypeOK, AccountInv, Registered, WriteRetries
<1>6. WindowInv'
  BY DEF IInv, TypeOK, WindowInv, Registered, WriteRetries, Written, workers
<1>7. PauseInv'
  BY DEF IInv, PauseInv, Registered, WriteRetries, pauses
<1>8. ChallengeServed' /\ LoadedInv'
  BY DEF IInv, ChallengeServed, LoadedInv, Registered, workers
<1> QED  BY <1>1, <1>2, <1>3, <1>4, <1>5, <1>6, <1>7, <1>8 DEF IInv

\* As for a worker.
LEMMA RegistrationLimitedKeeps ==
  ASSUME IInv, RegistrationLimited
  PROVE  IInv'
<1>1. TypeOK'
  BY DEF IInv, TypeOK, RegistrationLimited, defer, Fault, Demand, Most,
     Written, loopKeeps
<1>2. SavedBeforeInstalled'
  BY DEF IInv, SavedBeforeInstalled, RegistrationLimited, defer, loopKeeps
<1>3. OrdersUseSavedAccount'
  BY DEF IInv, OrdersUseSavedAccount, RegistrationLimited, defer
<1>4. AccountInv'
  BY DEF IInv, AccountInv, RegistrationLimited
<1>5. WindowInv'
  BY DEF IInv, WindowInv, RegistrationLimited, defer, loopKeeps
<1>6. PauseInv'
  BY DEF IInv, TypeOK, PauseInv, RegistrationLimited, defer, Demand, Most, Written
<1>7. ChallengeServed' /\ PendingInv' /\ LoadedInv'
  BY DEF IInv, ChallengeServed, PendingInv, LoadedInv, RegistrationLimited, loopKeeps
<1> QED  BY <1>1, <1>2, <1>3, <1>4, <1>5, <1>6, <1>7 DEF IInv

\* The registration is over, whatever the wait.
LEMMA RegistrationFailsKeeps ==
  ASSUME IInv, RegistrationFails
  PROVE  IInv'
<1>1. TypeOK'
  BY DEF IInv, TypeOK, RegistrationFails, WriteRetries, Written, Bad, Fault,
     pauses, loopKeeps
<1>2. SavedBeforeInstalled'
  BY DEF IInv, SavedBeforeInstalled, RegistrationFails, WriteRetries, loopKeeps
<1>3. OrdersUseSavedAccount'
  BY DEF IInv, OrdersUseSavedAccount, RegistrationFails, WriteRetries
<1>4. PendingInv'
  BY DEF IInv, PendingInv, RegistrationFails, loopKeeps
<1>5. AccountInv'
  BY DEF IInv, AccountInv, RegistrationFails
<1>6. WindowInv'
  BY DEF IInv, TypeOK, WindowInv, RegistrationFails, WriteRetries, Written, loopKeeps
<1>7. PauseInv'
  BY DEF IInv, PauseInv, RegistrationFails, WriteRetries, pauses
<1>8. ChallengeServed' /\ LoadedInv'
  BY DEF IInv, ChallengeServed, LoadedInv, RegistrationFails, loopKeeps
<1> QED  BY <1>1, <1>2, <1>3, <1>4, <1>5, <1>6, <1>7, <1>8 DEF IInv

\* An order starts only with a saved account, a loaded domain and no
\* window, and its journalled wait outlasts it.
LEMMA OrderKeeps ==
  ASSUME IInv, NEW d \in Domains, Order(d)
  PROVE  IInv'
<1>1. TypeOK'
  BY DEF IInv, TypeOK, Order, WriteRetries, Written, begin, Most, Bad, Fault, pauses,
     loopKeeps
<1>2. SavedBeforeInstalled'
  BY DEF IInv, SavedBeforeInstalled, Order, WriteRetries, loopKeeps
<1>3. OrdersUseSavedAccount'
  BY DEF IInv, OrdersUseSavedAccount, AccountInv, Order, WriteRetries
<1>4. ChallengeServed'
  BY DEF IInv, TypeOK, ChallengeServed, Order, loopKeeps
<1>5. PendingInv'
  BY DEF IInv, TypeOK, PendingInv, Order, Needed, loopKeeps
<1>6. LoadedInv'
  BY DEF IInv, TypeOK, LoadedInv, Order, Needed, loopKeeps
<1>7. AccountInv'
  BY DEF IInv, AccountInv, Order, WriteRetries
<1>8. WindowInv'
  BY DEF IInv, TypeOK, WindowInv, Order, Needed, WriteRetries, Written, begin, Most,
     loopKeeps
<1>9. PauseInv'
  BY DEF IInv, PauseInv, Order, WriteRetries, pauses
<1> QED  BY <1>1, <1>2, <1>3, <1>4, <1>5, <1>6, <1>7, <1>8, <1>9 DEF IInv

\* Nothing is left to order.
LEMMA OrdersDoneKeeps ==
  ASSUME IInv, OrdersDone
  PROVE  IInv'
<1>1. TypeOK'
  BY DEF IInv, TypeOK, OrdersDone, pauses, loopKeeps
<1>2. SavedBeforeInstalled' /\ OrdersUseSavedAccount' /\ ChallengeServed' /\
      PendingInv' /\ LoadedInv' /\ AccountInv' /\ WindowInv' /\ PauseInv'
  BY DEF IInv, SavedBeforeInstalled, OrdersUseSavedAccount, ChallengeServed, PendingInv,
     LoadedInv, AccountInv, WindowInv, PauseInv, OrdersDone, pauses, loopKeeps
<1> QED  BY <1>1, <1>2 DEF IInv

\* A reload waits for the loop to await.
LEMMA ReloadKeeps ==
  ASSUME IInv, Reload
  PROVE  IInv'
<1>1. TypeOK'
  BY DEF IInv, TypeOK, Reload, Fault, memory, workers, pauses
<1>2. LoadedInv'
  BY DEF IInv, LoadedInv, Reload, AtAwait, memory, workers
<1>3. SavedBeforeInstalled' /\ OrdersUseSavedAccount' /\ ChallengeServed' /\
      PendingInv' /\ AccountInv' /\ WindowInv' /\ PauseInv'
  BY DEF IInv, SavedBeforeInstalled, OrdersUseSavedAccount, ChallengeServed, PendingInv,
     AccountInv, WindowInv, PauseInv, Reload, memory, workers, pauses
<1> QED  BY <1>1, <1>2, <1>3 DEF IInv

\* What a restart reads is covered by what was on disk.
LEMMA CrashKeeps ==
  ASSUME IInv, Crash
  PROVE  IInv'
<1>1. TypeOK'
  <2>1. /\ installed' \in [Domains -> Lifetimes]
        /\ pending' \in [Domains -> Lifetimes \union {None}]
    BY DEF IInv, TypeOK, Crash, Restart
  <2>2. retry' \in [Keys -> Waits] /\ {cooldown', demanded', faults'} \subseteq Waits
    BY DEF IInv, TypeOK, Crash, Fault
  <2>3. /\ job' \in [Domains -> {"none", "ordered", "waiting", "issued", "failed"}]
        /\ aborted' \in [Domains -> {"none", "aborting", "aborted"}]
    BY DEF Crash
  <2>4. /\ {due', account', credentials'} \subseteq BOOLEAN
        /\ inflight' = {} /\ challenges' = {} /\ loaded' = {} /\ save_in' \in Waits
    BY Zenon DEF Crash
  <2>5. UNCHANGED <<domains, disk, durable, window>> /\ pc' = "wait"
    BY DEF Crash
  <2> QED  BY <2>1, <2>2, <2>3, <2>4, <2>5 DEF IInv, TypeOK
<1>2. SavedBeforeInstalled'
  BY DEF IInv, TypeOK, SavedBeforeInstalled, Crash, Restart
<1>3. OrdersUseSavedAccount'
  BY DEF IInv, OrdersUseSavedAccount, Crash
<1>4. ChallengeServed'
  BY DEF IInv, ChallengeServed, Crash
<1>5. PendingInv'
  BY DEF IInv, PendingInv, Crash
<1>6. LoadedInv'
  BY DEF IInv, LoadedInv, Crash
<1>7. AccountInv'
  BY DEF IInv, AccountInv, Crash
<1>8. WindowInv'
  BY DEF IInv, WindowInv, Crash
<1>9. PauseInv'
  BY DEF IInv, PauseInv, Crash
<1> QED  BY <1>1, <1>2, <1>3, <1>4, <1>5, <1>6, <1>7, <1>8, <1>9 DEF IInv

\* Time shortens both sides of every bound, and no order outlasts its
\* timeout.
LEMMA TickKeeps ==
  ASSUME IInv, Tick
  PROVE  IInv'
<1>1. TypeOK'
  <2>1. /\ installed' \in [Domains -> Lifetimes]
        /\ pending' \in [Domains -> Lifetimes \union {None}]
    BY DEF IInv, TypeOK, Tick, Each, Less
  <2>2. retry' \in [Keys -> Waits] /\ window' \in [Keys -> Waits]
    BY DEF IInv, TypeOK, Tick, Each, Less
  <2>3. {cooldown', demanded', durable', save_in'} \subseteq Waits
    BY DEF IInv, TypeOK, Tick, Less
  <2>4. disk' \in [certificate : [Domains -> Lifetimes], account : BOOLEAN,
                  retry : [Keys -> Waits], cooldown : Waits]
    <3>1. Each(disk.certificate) \in [Domains -> Lifetimes]
      BY DEF IInv, TypeOK, Each, Less
    <3>2. Each(disk.retry) \in [Keys -> Waits] /\ Less(disk.cooldown) \in Waits
      BY DEF IInv, TypeOK, Each, Less
    <3> QED  BY <3>1, <3>2, Zenon DEF IInv, TypeOK, Tick
  <2> QED  BY <2>1, <2>2, <2>3, <2>4 DEF IInv, TypeOK, Tick, workers
<1>2. SavedBeforeInstalled'
  BY DEF IInv, TypeOK, SavedBeforeInstalled, Tick, Each, Less
<1>3. OrdersUseSavedAccount'
  BY DEF IInv, OrdersUseSavedAccount, Tick, workers
<1>4. PendingInv'
  BY DEF IInv, TypeOK, PendingInv, Tick, Each, Less
<1>5. AccountInv'
  BY DEF IInv, AccountInv, Tick
<1>6. WindowInv'
  BY DEF IInv, TypeOK, WindowInv, Tick, Each, Less, workers
<1>7. PauseInv'
  BY DEF IInv, TypeOK, PauseInv, Tick, Less
<1>8. ChallengeServed' /\ LoadedInv'
  BY DEF IInv, ChallengeServed, LoadedInv, Tick, workers
<1> QED  BY <1>1, <1>2, <1>3, <1>4, <1>5, <1>6, <1>7, <1>8 DEF IInv

-----------------------------------------------------------------------------
(* The invariant, and what follows from it.                                 *)

\* Nothing is installed, ordered, journalled or paused at the start.
LEMMA InitIInv == Init => IInv
<1> SUFFICES ASSUME Init PROVE IInv
  OBVIOUS
<1>1. TypeOK
  <2>1. installed \in [Domains -> Lifetimes] /\ retry \in [Keys -> Waits]
    BY DEF Init
  <2>2. disk \in [certificate : [Domains -> Lifetimes], account : BOOLEAN,
                 retry : [Keys -> Waits], cooldown : Waits]
    BY <2>1 DEF Init
  <2> QED  BY <2>1, <2>2, Zenon DEF Init, TypeOK
<1> QED
  BY <1>1 DEF IInv, Init, SavedBeforeInstalled, OrdersUseSavedAccount, ChallengeServed,
     PendingInv, LoadedInv, AccountInv, WindowInv, PauseInv

\* A worker's step, of any domain.
LEMMA WorkerKeeps == ASSUME IInv, NEW d \in Domains, Worker(d) PROVE IInv'
BY SendKeeps, OrderedKeeps, IssuedKeeps, WorkerFailsKeeps, LimitedKeeps, DropAbortedKeeps
   DEF Worker

\* A step of the loop.
LEMMA LoopKeeps == ASSUME IInv, Loop PROVE IInv'
<1>1. ASSUME NEW d \in Domains, Join(d) \/ JoinAborted(d) \/ Order(d) PROVE IInv'
  BY <1>1, JoinKeeps, JoinAbortedKeeps, OrderKeeps
<1> QED
  BY <1>1, WakeKeeps, SyncKeeps, SaveNotDueKeeps, SaveKeeps, DecideKeeps, PersistKeeps,
     BeginRegistrationKeeps, OrdersDoneKeeps
     DEF Loop

\* Every step keeps the invariant, and so does stuttering.
LEMMA NextIInv == IInv /\ [Next]_vars => IInv'
<1> SUFFICES ASSUME IInv, [Next]_vars PROVE IInv'
  OBVIOUS
<1>1. CASE Loop
  BY <1>1, LoopKeeps
<1>2. CASE Registration
  BY <1>2, RegisteredKeeps, RegistrationLimitedKeeps, RegistrationFailsKeeps DEF Registration
<1>3. CASE \E d \in Domains : Worker(d)
  BY <1>3, WorkerKeeps
<1>4. CASE Reload \/ Crash \/ Tick
  BY <1>4, ReloadKeeps, CrashKeeps, TickKeeps
<1>5. CASE UNCHANGED vars
  BY <1>5, ZenonT(30) DEF IInv, TypeOK, SavedBeforeInstalled, OrdersUseSavedAccount, ChallengeServed,
     PendingInv, LoadedInv, AccountInv, WindowInv, PauseInv,
     vars, memory, workers, pauses
<1> QED  BY <1>1, <1>2, <1>3, <1>4, <1>5 DEF Next

\* The invariant always holds.
THEOREM IInvHolds == Spec => []IInv
BY InitIInv, NextIInv, PTL DEF Spec

\* The state of the certificate loop is always well formed, and an aborted
\* worker never has a request under way (Workers::retain).
THEOREM CertificateTypes == Spec => []TypeOK
<1>1. IInv => TypeOK
  BY DEF IInv
<1> QED  BY IInvHolds, <1>1, PTL

\* What handshakes are served with is never newer than what a restart would
\* find on disk, however writes fail (Certificates::save, install).
THEOREM SavedFirst == Spec => []SavedBeforeInstalled
<1>1. IInv => SavedBeforeInstalled
  BY DEF IInv
<1> QED  BY IInvHolds, <1>1, PTL

\* Orders are placed only with an account whose credentials are on disk
\* (certificate_loop).
THEOREM AccountSavedFirst == Spec => []OrdersUseSavedAccount
<1>1. IInv => OrdersUseSavedAccount
  BY DEF IInv
<1> QED  BY IInvHolds, <1>1, PTL

\* The late drop of an aborted worker never takes away the challenge of its
\* successor (Challenges::drop).
THEOREM ChallengeKept == Spec => []ChallengeServed
<1>1. IInv => ChallengeServed
  BY DEF IInv
<1> QED  BY IInvHolds, <1>1, PTL

\* No order and no registration starts while an earlier one of the same key
\* may still be running, restarts included (Retry::begin).
THEOREM OrdersNotDuplicated == Spec => NoDuplicateOrders
<1>1. IInv /\ [Next]_vars => [\A k \in Keys : window'[k] > window[k] => window[k] = 0]_vars
  <2> SUFFICES ASSUME IInv, Next, NEW k \in Keys, window'[k] > window[k]
               PROVE  window[k] = 0
    BY ZenonT(30) DEF vars
  <2>1. window[k] \in Nat
    BY DEF IInv, TypeOK
  <2>2. CASE BeginRegistration
    <3>1. window \in [Keys -> Nat]
      BY DEF IInv, TypeOK
    <3>2. /\ pc = "begin"
          /\ window' = window \/ window' = [window EXCEPT ![Account] = TIMEOUT]
      BY <2>2 DEF BeginRegistration
    <3>3. Account \in Keys /\ window[Account] <= retry[Account] /\ retry[Account] = 0
      BY <3>2, ZenonT(30) DEF IInv, WindowInv, AccountInv, Keys
    <3>4. k = Account
      BY <2>1, <3>1, <3>2, SMTT(30)
    <3> QED
      BY <2>1, <3>3, <3>4
  <2>3. ASSUME NEW d \in Domains, Order(d) PROVE window[k] = 0
    BY <2>3, <2>1, SMTT(30) DEF IInv, TypeOK, WindowInv, Order, Needed
  <2>4. ASSUME NEW d \in Domains, Join(d) PROVE FALSE
    BY <2>4, <2>1, SMTT(30) DEF IInv, Join
  <2>5. CASE Registered \/ RegistrationFails
    BY <2>5, <2>1, SMTT(30) DEF IInv, TypeOK, Registered, RegistrationFails
  <2>6. CASE Tick
    BY <2>6, <2>1 DEF IInv, TypeOK, Tick, Each, Less
  <2>7. CASE window' = window
    BY <2>7, <2>1
  <2>8. ASSUME NEW d \in Domains, Worker(d) \/ JoinAborted(d) PROVE window' = window
    BY <2>8, ZenonT(30) DEF Worker, Send, Ordered, Issued, WorkerFails, Limited, DropAborted, JoinAborted
  <2>9. Wake \/ Sync \/ SaveNotDue \/ Save \/ Decide \/ Persist \/ OrdersDone
        \/ RegistrationLimited \/ Reload \/ Crash => window' = window
    BY Zenon DEF Wake, Sync, SaveNotDue, Save, Decide, Persist, OrdersDone, RegistrationLimited,
       Reload, Crash
  <2> QED
    BY <2>2, <2>3, <2>4, <2>5, <2>6, <2>7, <2>8, <2>9, ZenonT(30) DEF Next, Loop, Registration
<1> QED  BY IInvHolds, <1>1, PTL DEF Spec, NoDuplicateOrders

\* While its domain stays configured, only the passage of time shortens the
\* life of the installed certificate: neither a failed order or write, nor
\* a reload, nor a restart does (Certificates::install, main).
THEOREM ServedMeanwhile == Spec => ServedThroughFailures
<1>1. IInv /\ [Next]_vars =>
        [\A d \in domains \intersect domains' : installed'[d] < installed[d] => Tick]_vars
  <2> SUFFICES ASSUME IInv, Next, NEW d \in domains, ~Tick
               PROVE  ~(installed'[d] < installed[d])
    BY DEF vars
  <2>1. d \in Domains /\ installed[d] \in Nat
    BY DEF IInv, TypeOK
  <2>2. CASE Sync
    BY <2>1, <2>2, SMTT(30) DEF IInv, TypeOK, Sync
  <2>3. CASE Save
    <3>1. PICK saved \in SUBSET Valid : install(saved)
      BY <2>3 DEF Save
    <3>2. installed'[d] = IF d \in saved THEN pending[d] ELSE installed[d]
      BY <2>1, <3>1 DEF install
    <3>3. d \in saved => pending[d] \in Nat /\ installed[d] <= pending[d]
      BY <2>1, SMTT(30) DEF Valid, IInv, TypeOK, PendingInv
    <3> QED  BY <2>1, <3>2, <3>3, SMTT(30)
  <2>4. CASE Crash
    BY <2>1, <2>4, SMTT(30) DEF IInv, TypeOK, SavedBeforeInstalled, Crash, Restart
  <2>5. CASE installed' = installed
    <3>1. installed'[d] = installed[d]
      BY <2>5, Zenon
    <3>2. ASSUME NEW n \in Nat PROVE ~(n < n)
      BY SMTT(30)
    <3> QED
      BY <2>1, <3>1, <3>2, Zenon
  <2>6. ASSUME NEW e \in Domains, Worker(e) \/ Join(e) \/ JoinAborted(e) \/ Order(e)
        PROVE  installed' = installed
    BY <2>6, ZenonT(30) DEF Worker, Send, Ordered, Issued, WorkerFails, Limited, DropAborted, Join,
       JoinAborted, Order, loopKeeps
  <2>7. Wake \/ SaveNotDue \/ Decide \/ Persist \/ BeginRegistration \/ OrdersDone
        \/ Registration \/ Reload => installed' = installed
    BY Zenon DEF Wake, SaveNotDue, Decide, Persist, BeginRegistration, OrdersDone, Registration,
       Registered, RegistrationLimited, RegistrationFails, Reload, loopKeeps
  <2> QED  BY <2>2, <2>3, <2>4, <2>5, <2>6, <2>7, ZenonT(30) DEF Next, Loop
<1> QED  BY IInvHolds, <1>1, PTL DEF Spec, ServedThroughFailures

\* No request is sent before every pause the CA has asked for is over, save
\* one that a crash made the proxy forget unwritten (Cooldown).
THEOREM PausesHonoured == Spec => PauseHonoured
<1>1. IInv /\ [Next]_vars =>
        [~(inflight' \subseteq inflight) \/ (account' /\ ~account) => demanded = 0]_vars
  <2> SUFFICES ASSUME IInv, Next, ~(inflight' \subseteq inflight) \/ (account' /\ ~account)
               PROVE  demanded = 0
    BY ZenonT(30) DEF vars
  <2>1. cooldown = 0 => demanded = 0
    BY SMTT(30) DEF IInv, TypeOK, PauseInv
  <2>2. CASE Registered \/ \E d \in Domains : Send(d)
    <3>1. cooldown = 0
      BY <2>2, Zenon DEF Registered, Send
    <3> QED
      BY <2>1, <3>1, Zenon
  <2>3. ASSUME NEW d \in Domains,
               Ordered(d) \/ Issued(d) \/ WorkerFails(d) \/ Limited(d) \/ DropAborted(d)
               \/ Join(d) \/ JoinAborted(d) \/ Order(d)
        PROVE  inflight' \subseteq inflight /\ account' = account
    BY <2>3, ZenonT(30) DEF Ordered, Issued, WorkerFails, Limited, DropAborted, WorkerEnds, Join,
       JoinAborted, Order, loopKeeps, memory
  <2>4. Wake \/ Sync \/ SaveNotDue \/ Save \/ Decide \/ Persist \/ BeginRegistration
        \/ OrdersDone \/ RegistrationLimited \/ RegistrationFails \/ Reload \/ Tick
          => inflight' \subseteq inflight /\ account' = account
    BY ZenonT(30) DEF Wake, Sync, Requests, SaveNotDue, Save, Decide, Persist,
       BeginRegistration, OrdersDone, RegistrationLimited, RegistrationFails, Reload, Tick, loopKeeps, memory, workers
  <2>5. Crash => inflight' = {} /\ account' = FALSE
    BY ZenonT(30) DEF Crash
  <2> QED  BY <2>2, <2>3, <2>4, <2>5, ZenonT(30) DEF Next, Loop, Registration, Worker
<1> QED  BY IInvHolds, <1>1, PTL DEF Spec, PauseHonoured

-----------------------------------------------------------------------------
(* Every open connection holds one slot and the limits hold, for any number *)
(* of connections, streams, clients and slots.  OneSlotEach is inductive    *)
(* together with the types: a step opens one connection under CanAcquire,   *)
(* closes one, or leaves the open ones and their slots alone.               *)

HIDE CertificateConstants DEF Keys, Lifetimes, Waits, None, Running

SlotInv == ConnectionTypeOK /\ OneSlotEach

StreamType == [phase : {"none", "reading", "routed"}, sent : Deadlines, armed : Deadlines,
                elapsed : BOOLEAN]

\* The shape of the state, without the tie between streams and connections.
StreamsTyped ==
  /\ phase \in [Connections -> {"closed", "handshake", "starting", "open"}]
  /\ kind \in [Connections -> {"plain", "h1", "h2"}]
  /\ ready \in [Connections -> BOOLEAN] /\ started \in [Connections -> BOOLEAN]
  /\ permits \in [Connections -> Nat]
  /\ stream \in [Connections -> [Streams -> StreamType]]

\* Only HTTP/2 has requests beside its first stream, or outside an open connection.
Tied(c) ==
  \A s \in Streams :
    kind[c] # "h2" /\ stream[c][s].phase # "none" => s = First /\ phase[c] = "open"

\* ConnectionTypeOK is the two together.
LEMMA TypeParts ==
  ConnectionTypeOK <=> StreamsTyped /\ \A c \in Connections : Tied(c)
  BY ZenonT(30) DEF ConnectionTypeOK, StreamsTyped, Tied, StreamType

-----------------------------------------------------------------------------
(* Types.                                                                   *)

\* A new request has the type of requests.
LEMMA RequestTypes ==
  NoRequest \in StreamType /\ Reading \in StreamType
  BY Zenon DEF NoRequest, Reading, StreamType, Deadlines

\* Changing one request keeps the type of all of them.
LEMMA StreamTyped ==
  ASSUME StreamsTyped, NEW c \in Connections, NEW s \in Streams, NEW r \in StreamType
  PROVE  [stream EXCEPT ![c][s] = r] \in [Connections -> [Streams -> StreamType]]
<1>1. [stream[c] EXCEPT ![s] = r] \in [Streams -> StreamType]
  BY DEF StreamsTyped
<1> QED
  BY <1>1 DEF StreamsTyped

\* Closing a connection keeps the types.
LEMMA CloseTyped ==
  ASSUME StreamsTyped, NEW c \in Connections, Close(c),
         stream' \in [Connections -> [Streams -> StreamType]]
  PROVE  StreamsTyped'
  BY Zenon DEF StreamsTyped, Close

\* So does the end of a request.
LEMMA EndsTyped ==
  ASSUME StreamsTyped, NEW c \in Connections, NEW s \in Streams, NEW kept \in BOOLEAN,
         Ends(c, s, kept)
  PROVE  StreamsTyped'
<1>1. stream' \in [Connections -> [Streams -> StreamType]]
  BY RequestTypes, StreamTyped, SMTT(30) DEF Ends
<1>2. CASE Close(c)
  BY <1>1, <1>2, CloseTyped
<1>3. CASE UNCHANGED <<phase, kind, ready, started, permits>>
  BY <1>1, <1>3, ZenonT(30) DEF StreamsTyped
<1> QED
  BY <1>2, <1>3 DEF Ends

\* The end of a request leaves its connection tied to its streams.
LEMMA EndsTied ==
  ASSUME StreamsTyped, NEW c \in Connections, NEW s \in Streams, NEW kept \in BOOLEAN,
         Ends(c, s, kept),
         \A d \in Connections : Tied(d), stream[c][s].phase # "none"
  PROVE  \A d \in Connections : Tied(d)'
<1> SUFFICES ASSUME NEW d \in Connections, NEW u \in Streams,
                    kind'[d] # "h2", stream'[d][u].phase # "none"
             PROVE  u = First /\ phase'[d] = "open"
  BY ZenonT(30) DEF Tied
<1>0. kind' = kind
  BY ZenonT(30) DEF Ends, Close
<1>1. CASE d # c
  <2>1. stream'[d] = stream[d] /\ phase'[d] = phase[d]
    BY <1>1, ZenonT(30) DEF Ends, Close, StreamsTyped
  <2> QED
    BY <2>1, <1>0, ZenonT(30) DEF Tied
<1>2. CASE d = c
  <2>1. s = First
    BY <1>0, <1>2, ZenonT(30) DEF Tied
  <2>2. CASE ~kept
    <3>1. stream'[c][u] = IF u = s THEN NoRequest ELSE stream[c][u]
      BY <2>2, <1>0, <1>2, SMTT(30) DEF Ends, StreamsTyped
    <3>2. u = s
      BY <3>1, <2>1, <1>0, <1>2, ZenonT(30) DEF Tied
    <3> QED
      BY <3>1, <3>2, <1>2, SMTT(30) DEF NoRequest
  <2>3. CASE kept
    <3>1. phase' = phase
      BY <2>3, ZenonT(30) DEF Ends
    <3>2. phase[c] = "open"
      BY <1>0, <1>2, ZenonT(30) DEF Tied
    <3>3. stream'[c][u] = IF u = s THEN Reading ELSE stream[c][u]
      BY <2>3, <1>0, <1>2, SMTT(30) DEF Ends, StreamsTyped
    <3> QED
      BY <3>1, <3>2, <3>3, <2>1, <1>0, <1>2, ZenonT(30) DEF Tied
  <2> QED
    BY <2>2, <2>3, ZenonT(30)
<1> QED
  BY <1>1, <1>2, ZenonT(30)

\* A change of one request, which keeps the connection as it is, keeps it tied
\* when the request was there, or is one of HTTP/2.
LEMMA RequestTied ==
  ASSUME StreamsTyped, NEW c \in Connections, NEW s \in Streams, NEW r \in StreamType,
         \A d \in Connections : Tied(d),
         stream' = [stream EXCEPT ![c][s] = r], phase' = phase, kind' = kind,
         stream[c][s].phase # "none" \/ kind[c] = "h2"
  PROVE  \A d \in Connections : Tied(d)'
<1> SUFFICES ASSUME NEW d \in Connections, NEW u \in Streams,
                    kind[d] # "h2", stream'[d][u].phase # "none"
             PROVE  u = First /\ phase[d] = "open"
  BY ZenonT(30) DEF Tied
<1>1. stream'[d][u] = IF d = c /\ u = s THEN r ELSE stream[d][u]
  BY ZenonT(30) DEF StreamsTyped
<1>2. stream[d][u].phase # "none"
  BY <1>1, ZenonT(30)
<1> QED
  BY <1>2, ZenonT(30) DEF Tied

\* A connection that loses no request and is left open, or had none, stays tied.
LEMMA IdleTied ==
  ASSUME StreamsTyped, NEW c \in Connections, \A d \in Connections : Tied(d), UNCHANGED stream,
         NEW p, phase' = [phase EXCEPT ![c] = p], \A d \in Connections \ {c} : kind'[d] = kind[d],
         \/ \A s \in Streams : stream[c][s].phase = "none"
         \/ kind'[c] = kind[c] /\ (kind[c] = "h2" \/ phase[c] # "open")
  PROVE  \A d \in Connections : Tied(d)'
<1> SUFFICES ASSUME NEW d \in Connections, NEW u \in Streams,
                    kind'[d] # "h2", stream[d][u].phase # "none"
             PROVE  u = First /\ phase'[d] = "open"
  BY ZenonT(30) DEF Tied
<1>1. d # c
  BY ZenonT(30) DEF Tied
<1> QED
  BY <1>1, ZenonT(30) DEF Tied, StreamsTyped

\* An HTTP/1 connection with no request opens with one on its first stream.
LEMMA FirstTied ==
  ASSUME StreamsTyped, NEW c \in Connections, \A d \in Connections : Tied(d),
         phase' = [phase EXCEPT ![c] = "open"], \A d \in Connections \ {c} : kind'[d] = kind[d],
         stream' = [stream EXCEPT ![c][First] = Reading],
         \A s \in Streams : stream[c][s].phase = "none"
  PROVE  \A d \in Connections : Tied(d)'
<1> SUFFICES ASSUME NEW d \in Connections, NEW u \in Streams,
                    kind'[d] # "h2", stream'[d][u].phase # "none"
             PROVE  u = First /\ phase'[d] = "open"
  BY ZenonT(30) DEF Tied
<1>1. CASE d # c
  <2>1. stream'[d] = stream[d] /\ phase'[d] = phase[d]
    BY <1>1, ZenonT(30) DEF StreamsTyped
  <2> QED
    BY <2>1, <1>1, ZenonT(30) DEF Tied
<1>2. CASE d = c
  <2>1. stream'[c][u] = IF u = First THEN Reading ELSE stream[c][u]
    <3>1. First \in Streams
      BY ConnectionConstants, ZenonT(30)
    <3> QED
      BY <3>1, ZenonT(30) DEF StreamsTyped
  <2> QED
    BY <2>1, <1>2, ZenonT(30) DEF StreamsTyped
<1> QED
  BY <1>1, <1>2, ZenonT(30)

\* Every step keeps the types.
LEMMA TypesKept ==
  ASSUME ConnectionTypeOK, [ConnectionNext]_connection
  PROVE  ConnectionTypeOK'
<1> SUFFICES StreamsTyped' /\ \A d \in Connections : Tied(d)'
  BY ZenonT(30) DEF ConnectionTypeOK, StreamsTyped, Tied, StreamType
<1>0. StreamsTyped /\ \A d \in Connections : Tied(d)
  BY TypeParts
<1>1. ASSUME NEW c \in Connections, AcceptPlain(c)
      PROVE  StreamsTyped' /\ \A d \in Connections : Tied(d)'
  <2>1. stream' \in [Connections -> [Streams -> StreamType]]
    <3>1. First \in Streams
      BY ConnectionConstants
    <3>2. stream' = [stream EXCEPT ![c][First] = Reading]
      BY <1>1, ZenonT(30) DEF AcceptPlain, Begin
    <3> QED
      BY <1>0, <3>1, <3>2, RequestTypes, StreamTyped
  <2>2. StreamsTyped'
    BY <1>0, <1>1, <2>1, SMTT(30) DEF StreamsTyped, AcceptPlain, Begin
  <2>3. \A d \in Connections \ {c} : kind'[d] = kind[d]
    BY <1>0, <1>1, ZenonT(30) DEF StreamsTyped, AcceptPlain
  <2> QED
    BY <1>0, <1>1, <2>2, <2>3, FirstTied, ZenonT(30) DEF AcceptPlain, Begin
<1>2. ASSUME NEW c \in Connections, AcceptTls(c)
      PROVE  StreamsTyped' /\ \A d \in Connections : Tied(d)'
  <2>1. StreamsTyped'
    BY <1>0, <1>2, SMTT(30) DEF StreamsTyped, AcceptTls
  <2>2. \A d \in Connections \ {c} : kind'[d] = kind[d]
    BY <1>0, <1>2, ZenonT(30) DEF StreamsTyped, AcceptTls
  <2> QED
    BY <1>0, <1>2, <2>1, <2>2, IdleTied, Zenon DEF AcceptTls
<1>3. ASSUME NEW c \in Connections, Handshake(c)
      PROVE  StreamsTyped' /\ \A d \in Connections : Tied(d)'
  <2>1. stream' \in [Connections -> [Streams -> StreamType]]
    <3>1. CASE UNCHANGED stream
      BY <1>0, <3>1 DEF StreamsTyped
    <3>2. CASE stream' = [stream EXCEPT ![c][First] = Reading]
      BY <1>0, <3>2, RequestTypes, StreamTyped, ConnectionConstants, ZenonT(30)
    <3> QED
      BY <1>3, <3>1, <3>2, ZenonT(30) DEF Handshake, Begin
  <2>2. StreamsTyped'
    BY <1>0, <1>3, <2>1, ZenonT(30) DEF StreamsTyped, Handshake, Begin
  <2>3. CASE kind[c] = "h2"
    BY <1>0, <1>3, <2>2, <2>3, IdleTied, ZenonT(30) DEF Handshake, Begin
  <2>4. CASE kind[c] # "h2"
    <3>1. \A s \in Streams : stream[c][s].phase = "none"
      BY <1>0, <1>3, <2>4, ZenonT(30) DEF Handshake, Tied
    <3> QED
      BY <1>0, <1>3, <2>2, <2>4, <3>1, FirstTied, ZenonT(30) DEF Handshake, Begin
  <2> QED
    BY <2>3, <2>4
<1>4. ASSUME NEW c \in Connections, Close(c), UNCHANGED stream,
             kind[c] = "h2" \/ phase[c] # "open"
      PROVE  StreamsTyped' /\ \A d \in Connections : Tied(d)'
  <2>1. StreamsTyped'
    BY <1>0, <1>4, CloseTyped, ZenonT(30) DEF StreamsTyped
  <2> QED
    BY <1>0, <1>4, <2>1, IdleTied, Zenon DEF Close
<1>5. ASSUME NEW c \in Connections, Disconnect(c)
      PROVE  StreamsTyped' /\ \A d \in Connections : Tied(d)'
  <2>1. CASE kind[c] = "h2"
    BY <1>4, <1>5, <2>1, ZenonT(30) DEF Disconnect
  <2>2. CASE kind[c] # "h2"
    <3>1. stream' = [stream EXCEPT ![c] = [s \in Streams |-> NoRequest]]
      BY <1>5, <2>2, ZenonT(30) DEF Disconnect
    <3>2. stream' \in [Connections -> [Streams -> StreamType]]
      BY <1>0, <3>1, RequestTypes, ZenonT(30) DEF StreamsTyped
    <3>3. StreamsTyped'
      BY <1>0, <1>5, <3>2, CloseTyped, ZenonT(30) DEF Disconnect
    <3>4. \A d \in Connections, u \in Streams :
            stream'[d][u] = IF d = c THEN NoRequest ELSE stream[d][u]
      BY <1>0, <3>1, ZenonT(30) DEF StreamsTyped
    <3>5. kind' = kind /\ \A d \in Connections \ {c} : phase'[d] = phase[d]
      BY <1>0, <1>5, ZenonT(30) DEF StreamsTyped, Disconnect, Close
    <3>6. NoRequest.phase = "none"
      BY ZenonT(30) DEF NoRequest
    <3>7. ASSUME NEW d \in Connections, d # c PROVE Tied(d)'
      BY <1>0, <3>4, <3>5, <3>7, ZenonT(30) DEF Tied
    <3>8. Tied(c)'
      BY <3>4, <3>6, ZenonT(30) DEF Tied
    <3> QED
      BY <3>3, <3>7, <3>8, Zenon
  <2> QED
    BY <2>1, <2>2
<1>6. ASSUME NEW c \in Connections, StartupElapses(c)
      PROVE  StreamsTyped' /\ \A d \in Connections : Tied(d)'
  BY <1>0, <1>6, ZenonT(30) DEF StreamsTyped, Tied, StartupElapses
<1>7. ASSUME NEW c \in Connections, StartupDeadline(c)
      PROVE  StreamsTyped' /\ \A d \in Connections : Tied(d)'
  <2>1. CASE started[c] /\ Close(c) /\ UNCHANGED stream
    BY <1>4, <1>7, <2>1, ZenonT(30) DEF StartupDeadline
  <2>2. CASE /\ phase' = [phase EXCEPT ![c] = "open"]
             /\ UNCHANGED <<kind, ready, started, permits, stream>>
    <3>1. StreamsTyped'
      BY <1>0, <2>2, ZenonT(30) DEF StreamsTyped
    <3> QED
      BY <1>0, <1>7, <2>2, <3>1, IdleTied, Zenon DEF StartupDeadline
  <2> QED
    BY <1>7, <2>1, <2>2, ZenonT(30) DEF StartupDeadline
<1>8. ASSUME NEW c \in Connections, NEW s \in Streams, NEW r \in StreamType,
             stream' = [stream EXCEPT ![c][s] = r],
             stream[c][s].phase # "none" \/ kind[c] = "h2",
             ready' \in [Connections -> BOOLEAN],
             UNCHANGED <<phase, kind, started, permits>>
      PROVE  StreamsTyped' /\ \A d \in Connections : Tied(d)'
  <2>1. stream' \in [Connections -> [Streams -> StreamType]]
    BY <1>0, <1>8, StreamTyped, ZenonT(30)
  <2>2. StreamsTyped'
    BY <1>0, <1>8, <2>1, ZenonT(30) DEF StreamsTyped
  <2> QED
    BY <1>0, <1>8, <2>2, RequestTied, Zenon
<1>9. ASSUME NEW c \in Connections, NEW s \in Streams, Request(c, s)
      PROVE  StreamsTyped' /\ \A d \in Connections : Tied(d)'
  <2>1. ready' \in [Connections -> BOOLEAN]
    BY <1>0, <1>9, ZenonT(30) DEF StreamsTyped, Request
  <2> QED
    BY <1>8, <1>9, <2>1, RequestTypes, Zenon DEF Request
<1>10. ASSUME NEW c \in Connections, NEW s \in Streams, NEW kept \in BOOLEAN, Ends(c, s, kept),
              stream[c][s].phase # "none"
       PROVE  StreamsTyped' /\ \A d \in Connections : Tied(d)'
  BY <1>0, <1>10, EndsTyped, EndsTied, ZenonT(30)
<1>11. ASSUME NEW c \in Connections, NEW s \in Streams, Route(c, s)
       PROVE  StreamsTyped' /\ \A d \in Connections : Tied(d)'
  <2>1. CASE \E kept \in BOOLEAN : Ends(c, s, kept)
    BY <1>10, <1>11, <2>1, ZenonT(30) DEF Route
  <2>2. ASSUME NEW d \in {"site", "off"},
               stream' = [stream EXCEPT ![c][s].phase = "routed", ![c][s].sent = d],
               UNCHANGED <<phase, kind, ready, started, permits>>
        PROVE  StreamsTyped' /\ \A e \in Connections : Tied(e)'
    <3> DEFINE r == [stream[c][s] EXCEPT !.phase = "routed", !.sent = d]
    <3>0. stream[c][s] \in StreamType /\ stream[c][s].phase # "none"
      BY <1>0, <1>11 DEF StreamsTyped, Route
    <3>1. r \in StreamType
      BY <3>0, Zenon DEF StreamType, Deadlines
    <3>2. stream' = [stream EXCEPT ![c][s] = r]
      BY <1>0, <2>2, Zenon DEF StreamsTyped
    <3>3. ready' \in [Connections -> BOOLEAN]
      BY <1>0, <2>2 DEF StreamsTyped
    <3> HIDE DEF r
    <3> QED
      BY <1>8, <2>2, <3>0, <3>1, <3>2, <3>3, Zenon
  <2> QED
    BY <1>11, <2>1, <2>2, ZenonT(30) DEF Route
<1>12. ASSUME NEW c \in Connections, NEW s \in Streams, Elapse(c, s)
       PROVE  StreamsTyped' /\ \A d \in Connections : Tied(d)'
  <2> DEFINE r == [stream[c][s] EXCEPT !.elapsed = TRUE]
  <2>0. stream[c][s] \in StreamType
    BY <1>0, ZenonT(30) DEF StreamsTyped
  <2>1. r \in StreamType
    BY <2>0, Zenon DEF StreamType
  <2>2. stream' = [stream EXCEPT ![c][s] = r]
    BY <1>0, <1>12 DEF StreamsTyped, Elapse
  <2>3. ready' \in [Connections -> BOOLEAN]
    BY <1>0, <1>12 DEF StreamsTyped, Elapse
  <2> HIDE DEF r
  <2> QED
    BY <1>8, <1>12, <2>1, <2>2, <2>3, ZenonT(30) DEF Elapse
<1>13. ASSUME NEW c \in Connections, NEW s \in Streams, Expiration(c, s)
       PROVE  StreamsTyped' /\ \A d \in Connections : Tied(d)'
  <2>1. CASE Ends(c, s, FALSE)
    BY <1>10, <1>13, <2>1, Zenon DEF Expiration
  <2>2. CASE /\ stream' = [stream EXCEPT ![c][s].armed = stream[c][s].sent,
                                         ![c][s].elapsed = FALSE]
             /\ UNCHANGED <<phase, kind, ready, started, permits>>
    <3> DEFINE r == [stream[c][s] EXCEPT !.armed = stream[c][s].sent, !.elapsed = FALSE]
    <3>0. stream[c][s] \in StreamType
      BY <1>0 DEF StreamsTyped
    <3>1. r \in StreamType
      BY <3>0, Zenon DEF StreamType
    <3>2. stream' = [stream EXCEPT ![c][s] = r]
      BY <1>0, <2>2, Zenon DEF StreamsTyped
    <3>3. ready' \in [Connections -> BOOLEAN]
      BY <1>0, <2>2 DEF StreamsTyped
    <3> HIDE DEF r
    <3> QED
      BY <1>8, <1>13, <2>2, <3>1, <3>2, <3>3, ZenonT(30) DEF Expiration
  <2> QED
    BY <1>13, <2>1, <2>2, Zenon DEF Expiration
<1>14. CASE UNCHANGED connection
  BY <1>0, <1>14, ZenonT(30) DEF StreamsTyped, Tied, connection
<1> QED
  BY <1>1, <1>2, <1>3, <1>4, <1>5, <1>6, <1>7, <1>9, <1>10, <1>11, <1>12, <1>13, <1>14, ZenonT(30)
     DEF ConnectionNext, ClientActs, Timers, HandshakeFails, IdleTimeout, Respond

-----------------------------------------------------------------------------
(* Slots.                                                                   *)

OpenOnes == {c \in Connections : Open(c)}
OpenOf(k) == {c \in Connections : Open(c) /\ ClientOf[c] = k}

\* Under OneSlotEach the connections that hold a slot are the open ones.
LEMMA HoldersAreOpen ==
  ASSUME OneSlotEach
  PROVE  /\ Holding(Connections) = OpenOnes
         /\ \A c \in Connections :
              Holding({d \in Connections : ClientOf[d] = ClientOf[c]}) = OpenOf(ClientOf[c])
  BY DEF OneSlotEach, Holding, OpenOnes, OpenOf, Open

\* Subsets of the connections are counted.
LEMMA Counted ==
  ASSUME NEW S \in SUBSET Connections
  PROVE  IsFiniteSet(S) /\ Cardinality(S) \in Nat
  BY FS_Subset, FS_CardinalityType, ConnectionConstants, ZenonT(30)

\* A connection is admitted when there is room for it: both counts grow by at
\* most one, and CanAcquire left one.
LEMMA AdmitKeeps ==
  ASSUME OneSlotEach, ConnectionTypeOK, NEW c \in Connections, ~Open(c), CanAcquire(c),
         NEW p \in {"handshake", "open"}, phase' = [phase EXCEPT ![c] = p],
         permits' = [permits EXCEPT ![c] = @ + 1]
  PROVE  OneSlotEach'
<1>1. \A d \in Connections : Open(d)' <=> d = c \/ Open(d)
  BY ZenonT(30) DEF ConnectionTypeOK, Open
<1>2. \A d \in Connections : permits'[d] = IF Open(d)' THEN 1 ELSE 0
  BY <1>1 DEF ConnectionTypeOK, OneSlotEach
<1>3. Cardinality({d \in Connections : Open(d)'}) <= MAX
  <2>1. {d \in Connections : Open(d)'} = OpenOnes \cup {c}
    BY <1>1 DEF OpenOnes
  <2>2. IsFiniteSet(OpenOnes) /\ Cardinality(OpenOnes) \in Nat /\ c \notin OpenOnes
    BY Counted DEF OpenOnes
  <2>3. Cardinality(OpenOnes \cup {c}) = Cardinality(OpenOnes) + 1
    BY <2>2, FS_AddElement, Zenon
  <2>4. Cardinality(OpenOnes) < MAX
    BY HoldersAreOpen DEF CanAcquire
  <2>5. MAX \in Nat
    BY ConnectionConstants
  <2>6. Cardinality(OpenOnes \cup {c}) <= MAX
    BY <2>2, <2>3, <2>4, <2>5, SMTT(30)
  <2> QED
    BY <2>1, <2>6, Zenon
<1>4. ASSUME NEW k \in Clients
      PROVE  Cardinality({d \in Connections : Open(d)' /\ ClientOf[d] = k}) <= PER_CLIENT
  <2>1. CASE ClientOf[c] = k
    <3>1. {d \in Connections : Open(d)' /\ ClientOf[d] = k} = OpenOf(k) \cup {c}
      BY <1>1, <2>1, ZenonT(30) DEF OpenOf
    <3>2. IsFiniteSet(OpenOf(k)) /\ Cardinality(OpenOf(k)) \in Nat /\ c \notin OpenOf(k)
      BY Counted, ZenonT(30) DEF OpenOf
    <3>3. Cardinality(OpenOf(k) \cup {c}) = Cardinality(OpenOf(k)) + 1
      BY <3>2, FS_AddElement, Zenon
    <3>4. Cardinality(OpenOf(k)) < PER_CLIENT
      BY <2>1, HoldersAreOpen, ZenonT(30) DEF CanAcquire
    <3>5. PER_CLIENT \in Nat
      BY ConnectionConstants
    <3>6. Cardinality(OpenOf(k) \cup {c}) <= PER_CLIENT
      BY <3>2, <3>3, <3>4, <3>5, SMTT(30)
    <3> QED
      BY <3>1, <3>6, Zenon
  <2>2. CASE ClientOf[c] # k
    <3>1. {d \in Connections : Open(d)' /\ ClientOf[d] = k}
            = {d \in Connections : Open(d) /\ ClientOf[d] = k}
      BY <1>1, <2>2, ZenonT(30)
    <3> QED
      BY <3>1, ZenonT(30) DEF OneSlotEach
  <2> QED
    BY <2>1, <2>2, ZenonT(30)
<1> QED
  BY <1>2, <1>3, <1>4, ZenonT(30) DEF OneSlotEach

\* A step that opens nothing, and leaves each slot with its connection, keeps
\* the limits.
LEMMA NoneOpens ==
  ASSUME OneSlotEach,
         \A d \in Connections : Open(d)' => Open(d),
         \A d \in Connections : permits'[d] = IF Open(d)' THEN 1 ELSE 0
  PROVE  OneSlotEach'
<1>1. ASSUME NEW S \in SUBSET Connections, NEW T \in SUBSET S
      PROVE  Cardinality(T) \in Nat /\ Cardinality(S) \in Nat /\ Cardinality(T) <= Cardinality(S)
  BY FS_Subset, FS_CardinalityType, ConnectionConstants, ZenonT(30)
<1>2. Cardinality({d \in Connections : Open(d)'}) <= MAX
  <2>1. {d \in Connections : Open(d)'} \in SUBSET {d \in Connections : Open(d)}
    OBVIOUS
  <2> QED
    BY <1>1, <2>1, ConnectionConstants DEF OneSlotEach
<1>3. ASSUME NEW k \in Clients
      PROVE  Cardinality({d \in Connections : Open(d)' /\ ClientOf[d] = k}) <= PER_CLIENT
  <2>1. {d \in Connections : Open(d)' /\ ClientOf[d] = k}
          \in SUBSET {d \in Connections : Open(d) /\ ClientOf[d] = k}
    BY ZenonT(30)
  <2>2. Cardinality({d \in Connections : Open(d) /\ ClientOf[d] = k}) <= PER_CLIENT
    BY ZenonT(30) DEF OneSlotEach
  <2> QED
    BY <1>1, <2>1, <2>2, ConnectionConstants, SMTT(30)
<1> QED
  BY <1>2, <1>3, ZenonT(30) DEF OneSlotEach

\* Closing a connection gives its slot back and no other.
LEMMA CloseKeeps ==
  ASSUME OneSlotEach, ConnectionTypeOK, NEW c \in Connections, Close(c)
  PROVE  OneSlotEach'
<1>1. \A d \in Connections : Open(d)' <=> d # c /\ Open(d)
  BY ZenonT(30) DEF ConnectionTypeOK, Open, Close
<1>2. \A d \in Connections : permits'[d] = IF d = c THEN 0 ELSE permits[d]
  BY ZenonT(30) DEF ConnectionTypeOK, Close
<1>3. \A d \in Connections : permits'[d] = IF Open(d)' THEN 1 ELSE 0
  BY <1>1, <1>2, ZenonT(30) DEF OneSlotEach
<1> QED
  BY <1>1, <1>3, NoneOpens, ZenonT(30)

\* An open connection that goes on to another phase keeps its slot.
LEMMA PhaseKeeps ==
  ASSUME OneSlotEach, ConnectionTypeOK, NEW c \in Connections, Open(c), UNCHANGED permits,
         NEW p \in {"starting", "open"}, phase' = [phase EXCEPT ![c] = p]
  PROVE  OneSlotEach'
<1>1. \A d \in Connections : Open(d)' <=> Open(d)
  BY ZenonT(30) DEF ConnectionTypeOK, Open
<1>2. \A d \in Connections : permits'[d] = IF Open(d)' THEN 1 ELSE 0
  BY <1>1, ZenonT(30) DEF OneSlotEach
<1> QED
  BY <1>1, <1>2, NoneOpens

\* A step that changes neither phases nor slots.
LEMMA SameKeeps ==
  ASSUME OneSlotEach, UNCHANGED <<phase, permits>>
  PROVE  OneSlotEach'
  BY ZenonT(30) DEF OneSlotEach, Open

\* Every step keeps one slot for each open connection.
LEMMA SlotsKept ==
  ASSUME ConnectionTypeOK, OneSlotEach, [ConnectionNext]_connection
  PROVE  OneSlotEach'
<1>1. ASSUME NEW c \in Connections, AcceptPlain(c) PROVE OneSlotEach'
  BY <1>1, AdmitKeeps, Zenon DEF AcceptPlain, Begin
<1>2. ASSUME NEW c \in Connections, AcceptTls(c) PROVE OneSlotEach'
  BY <1>2, AdmitKeeps, Zenon DEF AcceptTls
<1>3. ASSUME NEW c \in Connections, Handshake(c) PROVE OneSlotEach'
  <2>1. Open(c)
    BY <1>3 DEF Handshake, Open
  <2> QED
    BY <1>3, <2>1, PhaseKeeps, ZenonT(30) DEF Handshake, Begin
<1>4. ASSUME NEW c \in Connections, StartupDeadline(c) PROVE OneSlotEach'
  <2>1. Open(c)
    BY <1>4 DEF StartupDeadline, Open
  <2> QED
    BY <1>4, <2>1, PhaseKeeps, CloseKeeps, ZenonT(30) DEF StartupDeadline
<1>5. ASSUME NEW c \in Connections, HandshakeFails(c) \/ IdleTimeout(c) \/ Disconnect(c)
      PROVE  OneSlotEach'
  BY <1>5, CloseKeeps, ZenonT(30) DEF HandshakeFails, IdleTimeout, Disconnect
<1>6. ASSUME NEW c \in Connections, StartupElapses(c) PROVE OneSlotEach'
  BY <1>6, SameKeeps DEF StartupElapses
<1>7. ASSUME NEW c \in Connections, NEW s \in Streams, NEW kept \in BOOLEAN, Ends(c, s, kept)
      PROVE  OneSlotEach'
  BY <1>7, SameKeeps, CloseKeeps DEF Ends
<1>8. ASSUME NEW c \in Connections, NEW s \in Streams,
             \/ Request(c, s) \/ Route(c, s)
             \/ Respond(c, s) \/ Elapse(c, s) \/ Expiration(c, s)
      PROVE  OneSlotEach'
  BY <1>7, <1>8, SameKeeps, Zenon DEF Request, Route, Respond, Elapse, Expiration
<1>9. CASE UNCHANGED connection
  BY <1>9, SameKeeps DEF connection
<1> QED
  BY <1>1, <1>2, <1>3, <1>4, <1>5, <1>6, <1>8, <1>9, ZenonT(30) DEF ConnectionNext, ClientActs, Timers

-----------------------------------------------------------------------------
\* Nothing is open at the start.
LEMMA InitSlotInv ==
  ConnectionInit => SlotInv
<1> SUFFICES ASSUME ConnectionInit PROVE SlotInv
  OBVIOUS
<1>1. ConnectionTypeOK
  BY RequestTypes DEF ConnectionInit, ConnectionTypeOK, StreamType, NoRequest
<1>2. \A c \in Connections : ~Open(c) /\ permits[c] = 0
  BY DEF ConnectionInit, Open
<1>3. /\ {c \in Connections : Open(c)} = {}
      /\ \A k \in Clients : {c \in Connections : Open(c) /\ ClientOf[c] = k} = {}
  BY <1>2
<1>4. Cardinality({}) = 0
  BY FS_EmptySet
<1> QED
  BY <1>1, <1>2, <1>3, <1>4, ConnectionConstants DEF SlotInv, OneSlotEach

(***************************************************************************)
(* For any number of connections, streams and clients: phases, deadlines   *)
(* and requests have their types, and an HTTP/1 connection has no request  *)
(* but on its first stream while it is open (process_new_http).            *)
(***************************************************************************)
THEOREM ConnectionTypes ==
  ConnectionSpec => []ConnectionTypeOK
<1>1. ConnectionTypeOK /\ [ConnectionNext]_connection => ConnectionTypeOK'
  BY TypesKept
<1> QED
  BY InitSlotInv, <1>1, PTL DEF ConnectionSpec, SlotInv

(***************************************************************************)
(* For any limits and any number of clients: an open connection of either  *)
(* listener holds exactly one slot, a closed one none, and the open ones   *)
(* stay within both limits, whichever timer, event or client closes them   *)
(* (Connections::acquire, PreTlsProcess, ConnectionGuard).                 *)
(***************************************************************************)
THEOREM SlotsExact ==
  ConnectionSpec => []OneSlotEach
<1>1. SlotInv /\ [ConnectionNext]_connection => SlotInv'
  BY TypesKept, SlotsKept DEF SlotInv
<1>2. SlotInv => OneSlotEach
  BY DEF SlotInv
<1> QED
  BY InitSlotInv, <1>1, <1>2, PTL DEF ConnectionSpec
===============================================================================
