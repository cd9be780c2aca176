----------------------------- MODULE PayoutProofs -----------------------------
(***************************************************************************)
(* The guard of a payout and the spacing of payouts, for any number of     *)
(* operations and any interval and cooldown, as long as a cancelled save   *)
(* commits before the next pass.                                           *)
(*                                                                         *)
(* GuardCoversUncertain is not inductive: a job acts on the record it has  *)
(* loaded.  What makes it so is that from load to save nothing else writes *)
(* the record, since a job and a detached save never coexist, and that all *)
(* phases but the delivery itself are Settled: no token is uncertain.      *)
(* Paid says that a record, saved, held by the job or detached, has not    *)
(* forgotten the latest confirmed payment or automatic attempt.            *)
(***************************************************************************)
EXTENDS Payout, TLAPS

Uncertain(o) == saga[o] = "sent" /\ o \notin acknowledged
Settled == \A o \in Ops : ~Uncertain(o)

Paid(state) ==
  /\ prepared + COOLDOWN <= state.retry_at
  /\ state.pending = NoOp => confirmed <= state.last_paid

\* The job holds a record that it has loaded.
Loaded ==
  \/ job.phase \in Saving \union {"prepare", "confirm", "delivering"}
  \/ job.kind = "automatic" /\ job.phase = "recover"

\* One process, one job or detached saves.
Exclusive ==
  /\ job # NoJob => detached = {} /\ running # "nothing"
  /\ detached # {} => running = "proxy"
  /\ job.kind = "automatic" => running = "proxy"
  /\ job.phase \in {"first", "cooldown"} => job.kind = "automatic"

RecordInv ==
  /\ GuardCoversUncertain
  /\ Paid(Saved(ledger))
  /\ \A state \in detached : Paid(state)
  /\ detached # {} => Settled
  /\ confirmed <= now /\ prepared <= now /\ job.time <= now

JobInv ==
  /\ Loaded => Paid(job.state)
  /\ Loaded /\ job.phase # "delivering" => Settled
  /\ Loaded /\ job.phase \in {"first", "recover", "cooldown", "prepare", "finish", "clear"} =>
       job.state.pending = NoOp
  /\ job.phase \in {"guard", "confirm", "delivering"} => job.op \in Ops /\ job.state.pending = job.op
  /\ job.phase \in {"confirm", "delivering"} => ledger.pending = job.op
  /\ job.phase = "delivering" => \A o \in Ops \ {job.op} : ~Uncertain(o)

\* An automatic payout past its cooldown.
SpacingInv ==
  /\ job.kind = "automatic" /\ job.phase \in {"cooldown", "prepare", "guard", "confirm"} =>
       HasThreshold \/ job.time >= confirmed + INTERVAL
  /\ job.kind = "automatic" /\ job.phase \in {"cooldown", "prepare"} =>
       job.time >= prepared + COOLDOWN /\ job.state.retry_at >= job.time + COOLDOWN
  /\ job.kind = "automatic" /\ job.phase = "prepare" =>
       Saved(ledger).retry_at >= job.time + COOLDOWN

IInv == TypeOK /\ Exclusive /\ RecordInv /\ JobInv /\ SpacingInv

-----------------------------------------------------------------------------
(* Steps that end the job, or leave it alone.                               *)

Sagas == [Ops -> {"unused", "prepared", "sent", "closed"}]

\* Times are integers, and the empty states are states.
LEMMA StateFacts ==
  /\ COOLDOWN \in Nat /\ INTERVAL \in Nat /\ MaxTime \in Nat
  /\ Default \in States /\ Default.pending = NoOp /\ Default.retry_at = 0 /\ Default.last_paid = 0
  /\ Unset.pending = NoOp /\ Unset \notin States
  /\ NoJob.kind = "none" /\ NoJob.phase = "idle" /\ NoJob.state = Default
  /\ NoJob.op = NoOp /\ NoJob.time = 0
<1>1. COOLDOWN \in Nat /\ INTERVAL \in Nat /\ MaxTime \in Nat
  BY PayoutConstants
<1>2. Default \in States /\ Unset \notin States
  BY <1>1 DEF Default, Unset, State, States, Times
<1> QED
  BY <1>1, <1>2 DEF Default, Unset, State, NoJob, Job

JobType == [kind : {"none", "automatic", "pay", "pending"}, phase : Phases,
            state : States, op : Ops \union {NoOp}, time : 0 .. MaxTime]

\* A job without a record asks nothing of the rest.
LEMMA NoJobHolds ==
  ASSUME job' = NoJob
  PROVE  JobInv' /\ SpacingInv' /\ ~Loaded' /\ job' \in JobType
<1>1. job'.kind = "none" /\ job'.phase = "idle"
  BY StateFacts
<1>2. NoJob \in JobType
  BY StateFacts DEF NoJob, Job, JobType, Phases
<1> QED
  BY <1>1, <1>2 DEF JobInv, SpacingInv, Loaded, Saving

\* The record that a step has left alone is still as good, as long as no token
\* was sent and nothing paid, and an attempt only under its cooldown.
LEMMA RecordKept ==
  ASSUME TypeOK, RecordInv, UNCHANGED <<now, ledger, acknowledged, confirmed>>,
         detached' \subseteq detached, job'.time <= now,
         \A o \in Ops : saga'[o] = "sent" => saga[o] = "sent",
         \/ prepared' = prepared
         \/ /\ prepared' \in Int /\ prepared' <= now /\ detached = {}
            /\ prepared' + COOLDOWN <= Saved(ledger).retry_at
  PROVE  RecordInv'
<1>1. GuardCoversUncertain' /\ (Settled => Settled')
  BY DEF RecordInv, GuardCoversUncertain, Settled, Uncertain
<1>2. Saved(ledger)' = Saved(ledger)
  BY DEF Saved
<1>3. Paid(Saved(ledger))' /\ \A state \in detached' : Paid(state)'
  BY <1>2 DEF RecordInv, Paid
<1> QED
  BY <1>1, <1>3 DEF RecordInv

\* A job ends, by itself, by an error, by the timeout or with its process.
LEMMA JobEnds ==
  ASSUME IInv, job' = NoJob, UNCHANGED <<now, ledger, acknowledged, confirmed>>,
         UNCHANGED <<running, detached>> \/ (running' = "nothing" /\ detached' = {}),
         saga' \in Sagas, \A o \in Ops : saga'[o] = "sent" => saga[o] = "sent",
         needs_recovery' \in BOOLEAN,
         prepared' = prepared \/ AttemptEnds
  PROVE  IInv'
<1>0. prepared' = prepared \/ (Attempting /\ prepared' = job.time)
  BY DEF AttemptEnds
<1>1. JobInv' /\ SpacingInv' /\ job' \in JobType
  BY NoJobHolds
<1>2. prepared' \in Int /\ (prepared' # prepared => prepared' <= now /\ detached = {})
  <2>1. CASE prepared' = prepared
    BY <2>1 DEF IInv, TypeOK
  <2>2. CASE Attempting /\ prepared' = job.time
    <3>1. job # NoJob
      BY <2>2, StateFacts DEF Attempting
    <3>2. job.time \in 0 .. MaxTime
      BY DEF IInv, TypeOK
    <3> QED
      BY <2>2, <3>1, <3>2, StateFacts DEF IInv, Exclusive, RecordInv
  <2> QED
    BY <1>0, <2>1, <2>2
<1>3. TypeOK'
  BY <1>1, <1>2 DEF IInv, TypeOK, JobType, Sagas
<1>4. job'.time <= now
  BY StateFacts DEF IInv, TypeOK
<1>5. RecordInv'
  <2>1. prepared' # prepared => prepared' + COOLDOWN <= Saved(ledger).retry_at
    BY <1>0 DEF IInv, SpacingInv, Attempting
  <2> QED
    BY <1>2, <1>4, <2>1, RecordKept DEF IInv
<1>6. Exclusive'
  BY StateFacts DEF IInv, Exclusive
<1> QED
  BY <1>1, <1>3, <1>5, <1>6 DEF IInv

\* A job that is running is not NoJob, and no save is detached.
LEMMA JobRuns ==
  ASSUME IInv, job.phase # "idle"
  PROVE  job # NoJob /\ detached = {} /\ running # "nothing"
  BY StateFacts DEF IInv, Exclusive

\* What recovery does to the sagas.
LEMMA RecoveredSagas ==
  ASSUME IInv, RecoverSagas \/ UNCHANGED <<saga, needs_recovery>>
  PROVE  /\ saga' \in Sagas /\ needs_recovery' \in BOOLEAN
         /\ \A o \in Ops : saga'[o] = "sent" => saga[o] = "sent"
<1>1. CASE RecoverSagas
  <2>1. PICK redeemed \in SUBSET {o \in Ops : saga[o] = "sent"} :
          saga' = [o \in Ops |-> IF saga[o] = "prepared" \/ o \in redeemed
                                   THEN "closed" ELSE saga[o]]
    BY <1>1 DEF RecoverSagas
  <2>2. needs_recovery' = FALSE
    BY <1>1 DEF RecoverSagas
  <2> QED
    BY <2>1, <2>2, ZenonT(30) DEF IInv, TypeOK, Sagas
<1>2. CASE UNCHANGED <<saga, needs_recovery>>
  BY <1>2 DEF IInv, TypeOK, Sagas
<1> QED
  BY <1>1, <1>2

\* A job ends without touching the record or the sagas.
LEMMA EndsKeep ==
  ASSUME IInv,
         \/ SaveFails \/ PrepareFails \/ Fail \/ Exit \/ OtherRecovery
         \/ \E o \in Ops : FeeCapExceeded(o)
         \/ Recover(NoJob)
  PROVE  IInv'
<1>0. saga \in Sagas /\ needs_recovery \in BOOLEAN
  BY DEF IInv, TypeOK, Sagas
<1>1. CASE SaveFails
  <2>1. saga' \in Sagas /\ \A o \in Ops : saga'[o] = "sent" => saga[o] = "sent"
    BY <1>0, <1>1 DEF SaveFails, Sagas
  <2> QED
    BY <1>0, <1>1, <2>1, JobEnds DEF SaveFails, history
<1>2. CASE PrepareFails \/ Fail \/ Exit
  BY <1>0, <1>2, JobEnds, ZenonT(30) DEF PrepareFails, Fail, Exit
<1>3. CASE OtherRecovery \/ Recover(NoJob)
  <2>1. RecoverSagas \/ UNCHANGED <<saga, needs_recovery>>
    BY <1>3 DEF OtherRecovery, Recover
  <2> QED
    BY <1>3, <2>1, RecoveredSagas, JobEnds DEF OtherRecovery, Recover, history
<1>4. ASSUME NEW o \in Ops, FeeCapExceeded(o) PROVE IInv'
  <2>1. saga' \in Sagas /\ \A u \in Ops : saga'[u] = "sent" => saga[u] = "sent"
    BY <1>0, <1>4 DEF FeeCapExceeded, Sagas
  <2>2. needs_recovery' \in BOOLEAN
    BY <1>4, ZenonT(30) DEF FeeCapExceeded
  <2> QED
    BY <1>4, <2>1, <2>2, JobEnds DEF FeeCapExceeded
<1> QED
  BY <1>1, <1>2, <1>3, <1>4

-----------------------------------------------------------------------------
(* Time, processes and detached saves.                                      *)

\* Time only moves away from the last payment and the last attempt.
LEMMA TickKeeps == ASSUME IInv, Tick PROVE IInv'
<1>1. TypeOK'
  BY StateFacts DEF IInv, TypeOK, Tick, history
<1>2. RecordInv'
  BY DEF IInv, TypeOK, RecordInv, GuardCoversUncertain, Paid, Saved, Settled, Uncertain, Tick, history
<1>3. JobInv' /\ SpacingInv' /\ Exclusive'
  BY DEF IInv, JobInv, SpacingInv, Exclusive, Loaded, Paid, Saved, Settled, Uncertain, Tick, history
<1> QED
  BY <1>1, <1>2, <1>3 DEF IInv

\* Starting the proxy, a command or an automatic payout.
LEMMA ProcessKeeps ==
  ASSUME IInv, StartProxy \/ StartAutomatic \/ \E kind \in {"pay", "pending"} : StartCommand(kind),
         ~LateSaves
  PROVE  IInv'
<1>0. /\ UNCHANGED <<now, ledger, saga, acknowledged, confirmed, prepared>>
      /\ detached' \subseteq detached /\ now \in 0 .. MaxTime
  BY DEF IInv, TypeOK, StartProxy, StartAutomatic, StartCommand, history
<1>1. \/ job' = job /\ job = NoJob
      \/ job' = NoJob
      \/ \E kind \in {"pay", "pending"} : job' = Job(kind, "recover", Default, NoOp, now)
      \/ job' = Job("automatic", "load", Default, NoOp, now)
  BY DEF IInv, Exclusive, StartProxy, StartAutomatic, StartCommand
<1>2. job' \in JobType /\ job'.time <= now /\ ~Loaded'
      /\ job'.phase \in {"idle", "recover", "load"}
      /\ (job'.kind = "automatic" => job'.phase = "load")
  <2>1. CASE job' = NoJob
    BY <1>0, <2>1, NoJobHolds, StateFacts
  <2>2. ASSUME NEW kind \in {"pay", "pending"}, job' = Job(kind, "recover", Default, NoOp, now)
        PROVE  /\ job' \in JobType /\ job'.time <= now /\ ~Loaded'
               /\ job'.phase = "recover" /\ job'.kind # "automatic"
    BY <1>0, <2>2, StateFacts DEF Job, JobType, Phases, Loaded, Saving
  <2>3. CASE job' = Job("automatic", "load", Default, NoOp, now)
    BY <1>0, <2>3, StateFacts DEF Job, JobType, Phases, Loaded, Saving
  <2> QED
    BY <1>1, <2>1, <2>2, <2>3
<1>3. JobInv' /\ SpacingInv'
  BY <1>2 DEF JobInv, SpacingInv
<1>4. RecordInv'
  BY <1>0, <1>2, RecordKept DEF IInv
<1>5. Exclusive'
  <2>1. CASE StartProxy
    BY <2>1, StateFacts DEF IInv, Exclusive, StartProxy
  <2>2. CASE StartAutomatic
    BY <2>2, <1>2 DEF IInv, Exclusive, StartAutomatic
  <2>3. ASSUME NEW kind \in {"pay", "pending"}, StartCommand(kind) PROVE Exclusive'
    BY <2>3 DEF IInv, Exclusive, StartCommand, Job
  <2> QED
    BY <2>1, <2>2, <2>3
<1>6. running' \in {"nothing", "proxy", "cli"} /\ needs_recovery' \in BOOLEAN
  BY ZenonT(30) DEF IInv, TypeOK, StartProxy, StartAutomatic, StartCommand
<1>7. TypeOK'
  BY <1>0, <1>2, <1>6 DEF IInv, TypeOK, JobType
<1> QED
  BY <1>3, <1>4, <1>5, <1>7 DEF IInv

\* A save that is cancelled goes on as a late write.
LEMMA CancelKeeps == ASSUME IInv, CancelSave PROVE IInv'
<1>0. /\ job.kind = "automatic" /\ job.phase \in Saving /\ job' = NoJob
      /\ detached' = detached \union {job.state}
      /\ UNCHANGED <<now, ledger, saga, running, needs_recovery, acknowledged, confirmed, prepared>>
  BY DEF CancelSave, history
<1>1. Loaded /\ Settled /\ Paid(job.state) /\ running = "proxy"
  BY <1>0 DEF Saving, Loaded, IInv, JobInv, Exclusive
<1>2. JobInv' /\ SpacingInv' /\ job' \in JobType
  BY <1>0, NoJobHolds
<1>3. TypeOK'
  BY <1>0, <1>2 DEF IInv, TypeOK, JobType
<1>4. Exclusive'
  BY <1>0, <1>1, StateFacts DEF Exclusive
<1>5. RecordInv'
  BY <1>0, <1>1, StateFacts
     DEF IInv, TypeOK, RecordInv, GuardCoversUncertain, Settled, Uncertain, Paid, Saved
<1> QED
  BY <1>2, <1>3, <1>4, <1>5 DEF IInv

\* A late write lands before the next job loads the record.
LEMMA CommitKeeps ==
  ASSUME IInv, NEW state \in detached, CommitDetached(state)
  PROVE  IInv'
<1>0. /\ ledger' = state /\ detached' = detached \ {state}
      /\ UNCHANGED <<now, saga, running, needs_recovery, job, acknowledged, confirmed, prepared>>
  BY DEF CommitDetached, history
<1>1. Settled /\ Paid(state) /\ state \in States /\ state # Unset /\ job = NoJob
  BY StateFacts DEF IInv, RecordInv, TypeOK, Exclusive
<1>2. JobInv' /\ SpacingInv'
  BY <1>0, <1>1, NoJobHolds
<1>3. TypeOK' /\ Exclusive'
  BY <1>0, <1>1 DEF IInv, TypeOK, Exclusive
<1>4. RecordInv'
  BY <1>0, <1>1 DEF IInv, RecordInv, GuardCoversUncertain, Settled, Uncertain, Paid, Saved
<1> QED
  BY <1>2, <1>3, <1>4 DEF IInv

-----------------------------------------------------------------------------
(* The steps of a job.                                                      *)

\* The fields of a job, old and new.
LEMMA JobFields ==
  /\ IInv => job \in JobType
  /\ \A kind, phase, state, op, time :
       LET j == Job(kind, phase, state, op, time)
       IN /\ j.kind = kind /\ j.phase = phase /\ j.state = state /\ j.op = op /\ j.time = time
          /\ /\ kind \in {"none", "automatic", "pay", "pending"} /\ phase \in Phases
             /\ state \in States /\ op \in Ops \union {NoOp} /\ time \in 0 .. MaxTime
             => j \in JobType
  /\ \A last_paid, retry_at, pending :
       LET s == State(last_paid, retry_at, pending)
       IN /\ s.last_paid = last_paid /\ s.retry_at = retry_at /\ s.pending = pending
          /\ /\ last_paid \in Times /\ retry_at \in Times /\ pending \in Ops \union {NoOp}
             => s \in States
<1>1. IInv => job \in JobType
  BY DEF IInv, TypeOK, JobType
<1>2. \A kind, phase, state, op, time :
        LET j == Job(kind, phase, state, op, time)
        IN /\ j.kind = kind /\ j.phase = phase /\ j.state = state /\ j.op = op /\ j.time = time
           /\ /\ kind \in {"none", "automatic", "pay", "pending"} /\ phase \in Phases
              /\ state \in States /\ op \in Ops \union {NoOp} /\ time \in 0 .. MaxTime
              => j \in JobType
  BY DEF Job, JobType
<1>3. \A last_paid, retry_at, pending :
        LET s == State(last_paid, retry_at, pending)
        IN /\ s.last_paid = last_paid /\ s.retry_at = retry_at /\ s.pending = pending
           /\ /\ last_paid \in Times /\ retry_at \in Times /\ pending \in Ops \union {NoOp}
              => s \in States
  BY DEF State, States
<1> QED
  BY <1>1, <1>2, <1>3

\* A saved record with no operation pending leaves nothing uncertain.
LEMMA NonePending ==
  ASSUME IInv, Saved(ledger).pending = NoOp \/ saga[Saved(ledger).pending] # "sent"
  PROVE  Settled
<1> SUFFICES ASSUME NEW o \in Ops, Uncertain(o) PROVE FALSE
  BY ZenonT(30) DEF Settled
<1>1. ledger.pending = o
  BY DEF IInv, RecordInv, GuardCoversUncertain, Uncertain
<1>2. ledger # Unset
  BY <1>1, StateFacts, PayoutConstants
<1> QED
  BY <1>1, <1>2, PayoutConstants DEF Saved, Uncertain

\* The record, read back, is well formed.
LEMMA SavedType == ASSUME IInv PROVE Saved(ledger) \in States
  BY StateFacts DEF IInv, TypeOK, Saved

\* A job goes on and writes nothing: all but the job itself is kept.
LEMMA JobGoesOn ==
  ASSUME IInv, UNCHANGED <<now, ledger, running, detached, acknowledged, confirmed, prepared>>,
         saga' \in Sagas, \A o \in Ops : saga'[o] = "sent" => saga[o] = "sent",
         needs_recovery' \in BOOLEAN, job.phase # "idle",
         job' \in JobType, job'.kind = job.kind, job'.time = job.time,
         job'.phase \in {"first", "cooldown"} => job.kind = "automatic"
  PROVE  /\ TypeOK' /\ Exclusive' /\ RecordInv'
         /\ Settled => Settled'
<1>1. detached = {} /\ running # "nothing"
  BY JobRuns
<1>2. TypeOK' /\ Exclusive'
  BY <1>1 DEF IInv, TypeOK, Exclusive, JobType, Sagas
<1>3. RecordInv'
  BY RecordKept DEF IInv, RecordInv
<1> QED
  BY <1>2, <1>3 DEF Settled, Uncertain

\* An automatic payout goes on only past its interval and cooldown.
LEMMA LoadAutomaticKeeps == ASSUME IInv, LoadAutomatic PROVE IInv'
<1>0. /\ job.kind = "automatic" /\ job.phase = "load" /\ job \in JobType
      /\ UNCHANGED <<now, ledger, saga, running, needs_recovery, detached, acknowledged,
                     confirmed, prepared>>
  BY JobFields DEF LoadAutomatic, history
<1>1. saga \in Sagas /\ needs_recovery \in BOOLEAN
  BY DEF IInv, TypeOK, Sagas
<1>2. CASE job' = NoJob
  BY <1>0, <1>2, JobEnds DEF IInv, TypeOK, Sagas
<1>3. CASE ledger = Unset /\ job' = Holding("first", State(job.time, 0, NoOp))
  <2> DEFINE s == State(job.time, 0, NoOp)
  <2>1. /\ job'.kind = "automatic" /\ job'.phase = "first" /\ job'.state = s
        /\ job'.op = job.op /\ job'.time = job.time
    BY <1>0, <1>3, JobFields DEF Holding
  <2>2. s \in States /\ s.pending = NoOp /\ s.retry_at = 0 /\ s.last_paid = job.time /\ job.time \in Nat
    BY <1>0, StateFacts, JobFields DEF JobType, Times
  <2>3. job' \in JobType
    BY <1>0, <1>3, <2>2, JobFields DEF Holding, Phases, Saving, JobType
  <2> HIDE DEF s
  <2>4. Settled
    BY <1>3, StateFacts, NonePending DEF Saved
  <2>5. Paid(s)
    BY <1>3, <2>2, StateFacts DEF IInv, TypeOK, RecordInv, Paid, Saved
  <2>6. TypeOK' /\ Exclusive' /\ RecordInv' /\ Settled'
    BY <1>0, <1>1, <2>1, <2>3, <2>4, JobGoesOn
  <2>7. Paid(job.state)'
    BY <1>0, <2>1, <2>5 DEF Paid
  <2>8. JobInv' /\ SpacingInv'
    BY <2>1, <2>2, <2>6, <2>7 DEF JobInv, SpacingInv
  <2> QED
    BY <2>6, <2>8 DEF IInv
<1>4. CASE ledger # Unset /\ ledger.pending = NoOp /\ job' = Holding("recover", ledger)
  <2>1. /\ job'.kind = "automatic" /\ job'.phase = "recover" /\ job'.state = ledger
        /\ job'.op = job.op /\ job'.time = job.time
    BY <1>0, <1>4, JobFields DEF Holding
  <2>2. ledger \in States /\ Saved(ledger) = ledger
    BY <1>4 DEF IInv, TypeOK, Saved
  <2>3. job' \in JobType
    BY <1>0, <1>4, <2>2, JobFields DEF Holding, Phases, Saving, JobType
  <2>4. Settled /\ Paid(ledger)
    BY <1>4, <2>2, NonePending DEF IInv, RecordInv
  <2>5. TypeOK' /\ Exclusive' /\ RecordInv' /\ Settled'
    BY <1>0, <1>1, <2>1, <2>3, <2>4, JobGoesOn
  <2>6. Paid(job.state)'
    BY <1>0, <2>1, <2>4 DEF Paid
  <2>7. JobInv' /\ SpacingInv'
    BY <1>0, <1>4, <2>1, <2>5, <2>6 DEF JobInv, SpacingInv
  <2> QED
    BY <2>5, <2>7 DEF IInv
<1> QED
  BY <1>2, <1>3, <1>4 DEF LoadAutomatic

\* A recovered payment is taken over from its saga.
LEMMA RecoverAutomaticKeeps == ASSUME IInv, RecoverAutomatic PROVE IInv'
<1> DEFINE s == State(job.state.last_paid, job.time + COOLDOWN, job.state.pending)
<1>0. job.kind = "automatic" /\ job.phase = "recover" /\ job \in JobType
  BY JobFields DEF RecoverAutomatic
<1>1. CASE Recover(NoJob)
  BY <1>1, EndsKeep
<1>2. CASE due /\ Recover(Holding("cooldown", s))
  <2>1. /\ saga' \in Sagas /\ needs_recovery' \in BOOLEAN
        /\ \A o \in Ops : saga'[o] = "sent" => saga[o] = "sent"
        /\ UNCHANGED <<now, ledger, running, detached, acknowledged, confirmed, prepared>>
        /\ job' = Holding("cooldown", s)
    BY <1>2, RecoveredSagas DEF Recover, history
  <2>2. /\ job'.kind = "automatic" /\ job'.phase = "cooldown" /\ job'.state = s
        /\ job'.op = job.op /\ job'.time = job.time
    BY <1>0, <2>1, JobFields DEF Holding
  <2>3. Paid(job.state) /\ Settled /\ job.state.pending = NoOp
    BY <1>0 DEF IInv, JobInv, Loaded
  <2>4. job.time \in 0 .. MaxTime /\ job.state \in States
    BY <1>0 DEF JobType
  <2>5. /\ s.pending = NoOp /\ s.retry_at = job.time + COOLDOWN
        /\ s.last_paid = job.state.last_paid /\ s \in States
    BY <2>3, <2>4, StateFacts, JobFields DEF States, Times
  <2>6. job' \in JobType
    BY <1>0, <2>1, <2>5, JobFields DEF Holding, Phases, Saving, JobType
  <2>7. /\ job.time >= prepared + COOLDOWN
        /\ HasThreshold \/ job.time >= confirmed + INTERVAL
    <3>1. job.state.retry_at \in Nat /\ job.state.last_paid \in Nat
      BY <2>4, StateFacts DEF States, Times
    <3> QED
      BY <1>2, <2>3, <2>4, <3>1, StateFacts DEF due, Paid, IInv, TypeOK
  <2> HIDE DEF s
  <2>8. Paid(s)
    BY <2>3, <2>4, <2>5, <2>7, StateFacts DEF Paid, IInv, TypeOK
  <2>9. TypeOK' /\ Exclusive' /\ RecordInv' /\ Settled'
    BY <1>0, <2>1, <2>2, <2>3, <2>6, JobGoesOn
  <2>10. JobInv'
    <3>1. Paid(job.state)'
      BY <2>1, <2>2, <2>8 DEF Paid
    <3> QED
      BY <2>2, <2>5, <2>9, <3>1 DEF JobInv
  <2>11. SpacingInv'
    BY <2>1, <2>2, <2>4, <2>5, <2>7, StateFacts DEF SpacingInv
  <2> QED
    BY <2>9, <2>10, <2>11 DEF IInv
<1> QED
  BY <1>1, <1>2 DEF RecoverAutomatic

\* A wallet command loads the record.
LEMMA LoadCommandKeeps == ASSUME IInv, RecoverCommand \/ LoadPay \/ LoadPending PROVE IInv'
<1>0. job.kind \in {"pay", "pending"} /\ job.phase \in {"recover", "load"} /\ job \in JobType
  BY JobFields DEF RecoverCommand, LoadPay, LoadPending
<1>1. saga \in Sagas /\ needs_recovery \in BOOLEAN /\ Saved(ledger) \in States
  BY SavedType DEF IInv, TypeOK, Sagas
<1>2. CASE RecoverCommand
  <2>1. /\ saga' \in Sagas /\ needs_recovery' \in BOOLEAN
        /\ \A o \in Ops : saga'[o] = "sent" => saga[o] = "sent"
        /\ UNCHANGED <<now, ledger, running, detached, acknowledged, confirmed, prepared>>
        /\ job' = At("load")
    BY <1>2, RecoveredSagas DEF RecoverCommand, Recover, history
  <2>2. /\ job'.kind = job.kind /\ job'.phase = "load" /\ job'.time = job.time
        /\ job' \in JobType
    BY <1>0, <2>1, JobFields DEF At, Phases, JobType
  <2>3. TypeOK' /\ Exclusive' /\ RecordInv'
    BY <1>0, <2>1, <2>2, JobGoesOn
  <2>4. JobInv' /\ SpacingInv'
    BY <2>2 DEF JobInv, SpacingInv, Loaded, Saving
  <2> QED
    BY <2>3, <2>4 DEF IInv
<1>3. ASSUME UNCHANGED <<now, ledger, saga, running, needs_recovery, detached, history>>,
             NEW phase \in {"prepare", "clear"}, NEW s \in States, job' = Holding(phase, s),
             s.pending = NoOp, Paid(s), Settled
      PROVE  IInv'
  <2>1. /\ job'.kind = job.kind /\ job'.phase = phase /\ job'.time = job.time /\ job'.state = s
        /\ job' \in JobType
    BY <1>0, <1>3, JobFields DEF Holding, Phases, Saving, JobType
  <2>2. TypeOK' /\ Exclusive' /\ RecordInv' /\ Settled'
    BY <1>0, <1>1, <1>3, <2>1, JobGoesOn DEF history
  <2>3. Paid(job.state)'
    BY <1>3, <2>1 DEF Paid, history
  <2>4. JobInv' /\ SpacingInv'
    BY <1>0, <1>3, <2>1, <2>2, <2>3, ZenonT(30) DEF JobInv, SpacingInv
  <2> QED
    BY <2>2, <2>4 DEF IInv
<1>4. ASSUME UNCHANGED <<now, ledger, saga, running, needs_recovery, detached, history>>,
             job' = NoJob
      PROVE  IInv'
  BY <1>1, <1>4, JobEnds DEF history
<1>5. CASE LoadPay
  <2>1. Paid(Saved(ledger)) /\ (Saved(ledger).pending = NoOp => Settled)
    BY NonePending DEF IInv, RecordInv
  <2> QED
    BY <1>1, <1>3, <1>4, <1>5, <2>1 DEF LoadPay
<1>6. CASE LoadPending
  <2> DEFINE s == State(now, now + COOLDOWN, NoOp)
  <2>1. now \in 0 .. MaxTime
    BY DEF IInv, TypeOK
  <2>2. s \in States /\ s.pending = NoOp /\ s.retry_at = now + COOLDOWN /\ s.last_paid = now
    BY <2>1, StateFacts, JobFields DEF Times
  <2> HIDE DEF s
  <2>3. Paid(s)
    BY <2>1, <2>2, StateFacts DEF Paid, IInv, TypeOK, RecordInv
  <2>4. CASE Saved(ledger).pending \in {o \in Ops : saga[o] = "closed"}
    <3>1. Settled
      BY <2>4, NonePending
    <3>2. job' = Holding("clear", s)
      BY <1>6, <2>4 DEF LoadPending, s
    <3> QED
      BY <1>3, <1>6, <2>2, <2>3, <3>1, <3>2 DEF LoadPending
  <2>5. CASE Saved(ledger).pending \notin {o \in Ops : saga[o] = "closed"}
    BY <1>4, <1>6, <2>5 DEF LoadPending
  <2> QED
    BY <2>4, <2>5
<1> QED
  BY <1>2, <1>5, <1>6

\* A prepared send is not yet a payment.
LEMMA PrepareKeeps == ASSUME IInv, NEW o \in Ops, Prepare(o) PROVE IInv'
<1> DEFINE s == State(job.state.last_paid, job.state.retry_at, o)
<1>0. /\ job.phase = "prepare" /\ job \in JobType
      /\ saga' = [saga EXCEPT ![o] = "prepared"] /\ needs_recovery' = TRUE
      /\ job' = Job(job.kind, "guard", s, o, job.time)
      /\ prepared' = IF job.kind = "automatic" THEN job.time ELSE prepared
      /\ UNCHANGED <<now, ledger, running, detached, acknowledged, confirmed>>
  BY JobFields DEF Prepare, AttemptEnds, Attempting
<1>1. /\ detached = {} /\ running # "nothing" /\ Settled
      /\ job.time \in 0 .. MaxTime /\ job.state \in States /\ Paid(job.state)
      /\ prepared \in Int
  BY <1>0, JobRuns DEF IInv, JobInv, Loaded, JobType, TypeOK
<1>2. /\ s \in States /\ s.pending = o /\ s.retry_at = job.state.retry_at
      /\ s.last_paid = job.state.last_paid
  BY <1>1, JobFields DEF States
<1>3. /\ job'.kind = job.kind /\ job'.phase = "guard" /\ job'.state = s /\ job'.op = o
      /\ job'.time = job.time /\ job' \in JobType
  BY <1>0, <1>2, JobFields DEF Phases, Saving, JobType
<1> HIDE DEF s
<1>4. TypeOK' /\ Exclusive'
  BY <1>0, <1>1, <1>3 DEF IInv, TypeOK, Exclusive, JobType
<1>5. \A u \in Ops : saga'[u] = "sent" => saga[u] = "sent"
  BY <1>0 DEF IInv, TypeOK
<1>6. RecordInv'
  <2>1. \/ prepared' = prepared
        \/ /\ prepared' \in Int /\ prepared' <= now /\ detached = {}
           /\ prepared' + COOLDOWN <= Saved(ledger).retry_at
    BY <1>0, <1>1, StateFacts DEF IInv, RecordInv, SpacingInv
  <2> QED
    BY <1>0, <1>3, <1>5, <2>1, RecordKept DEF IInv, RecordInv
<1>7. Settled'
  BY <1>0, <1>1, <1>5 DEF Settled, Uncertain
<1>8. Paid(job.state)'
  BY <1>0, <1>1, <1>2, <1>3, StateFacts, PayoutConstants DEF Paid, IInv, SpacingInv
<1>9. JobInv'
  BY <1>2, <1>3, <1>7, <1>8 DEF JobInv
<1>10. SpacingInv'
  BY <1>0, <1>3 DEF SpacingInv, IInv
<1> QED
  BY <1>4, <1>6, <1>9, <1>10 DEF IInv

\* A revoked send leaves nothing uncertain.
LEMMA RevokeKeeps == ASSUME IInv, NEW o \in Ops, revoke_send(o) PROVE IInv'
<1>0. /\ job.kind = "pending" /\ job.phase = "load" /\ job \in JobType
      /\ saga' = [saga EXCEPT ![o] = "closed"]
      /\ UNCHANGED <<now, ledger, running, needs_recovery, job, detached, acknowledged,
                     confirmed, prepared>>
  BY JobFields, ZenonT(30) DEF revoke_send, history
<1>1. /\ saga' \in Sagas /\ needs_recovery' \in BOOLEAN
      /\ \A u \in Ops : saga'[u] = "sent" => saga[u] = "sent"
  BY <1>0 DEF IInv, TypeOK, Sagas
<1>2. TypeOK' /\ Exclusive' /\ RecordInv'
  BY <1>0, <1>1, JobGoesOn
<1>3. JobInv' /\ SpacingInv'
  BY <1>0 DEF JobInv, SpacingInv, Loaded, Saving
<1> QED
  BY <1>2, <1>3 DEF IInv

\* A payment is confirmed only under a guard that is on disk.
LEMMA ConfirmKeeps == ASSUME IInv, Confirm PROVE IInv'
<1>0. /\ job.phase = "confirm" /\ job \in JobType
      /\ saga' = [saga EXCEPT ![job.op] = "sent"] /\ confirmed' = now
      /\ job' = At("delivering")
      /\ UNCHANGED <<now, ledger, running, needs_recovery, detached, acknowledged, prepared>>
  BY JobFields DEF Confirm
<1>1. /\ detached = {} /\ running # "nothing" /\ Settled /\ now \in 0 .. MaxTime
      /\ job.op \in Ops /\ job.state.pending = job.op /\ ledger.pending = job.op
      /\ Paid(job.state)
  BY <1>0, JobRuns DEF IInv, JobInv, Loaded, TypeOK
<1>2. /\ job'.kind = job.kind /\ job'.phase = "delivering" /\ job'.state = job.state
      /\ job'.op = job.op /\ job'.time = job.time /\ job' \in JobType
  BY <1>0, JobFields DEF At, Phases, Saving, JobType
<1>3. \A o \in Ops : saga'[o] = IF o = job.op THEN "sent" ELSE saga[o]
  BY <1>0 DEF IInv, TypeOK
<1>4. TypeOK' /\ Exclusive'
  BY <1>0, <1>1, <1>2 DEF IInv, TypeOK, Exclusive, JobType
<1>5. \A o \in Ops \ {job.op} : ~Uncertain(o)'
  BY <1>0, <1>1, <1>3 DEF Settled, Uncertain
<1>6. GuardCoversUncertain'
  BY <1>0, <1>1, <1>5 DEF GuardCoversUncertain, Uncertain
<1>7. Paid(job.state)'
  BY <1>0, <1>1, <1>2, PayoutConstants DEF Paid
<1>8. Paid(Saved(ledger))'
  <2>1. ledger # Unset
    BY <1>1, StateFacts, PayoutConstants
  <2> QED
    BY <1>0, <1>1, <2>1, PayoutConstants DEF Paid, Saved, IInv, RecordInv
<1>9. RecordInv'
  BY <1>0, <1>1, <1>2, <1>6, <1>8 DEF RecordInv, IInv
<1>10. JobInv'
  BY <1>0, <1>1, <1>2, <1>5, <1>7 DEF JobInv
<1>11. SpacingInv'
  BY <1>2 DEF SpacingInv
<1> QED
  BY <1>4, <1>9, <1>10, <1>11 DEF IInv

\* A delivered payment is no longer uncertain.
LEMMA DeliveredKeeps == ASSUME IInv, Delivered PROVE IInv'
<1> DEFINE s == State(now, job.state.retry_at, NoOp)
<1>0. /\ job.phase = "delivering" /\ job \in JobType
      /\ acknowledged' = acknowledged \union {job.op}
      /\ job' = Holding("finish", s)
      /\ UNCHANGED <<now, ledger, saga, running, needs_recovery, detached, confirmed, prepared>>
  BY JobFields DEF Delivered
<1>1. /\ detached = {} /\ running # "nothing" /\ now \in 0 .. MaxTime
      /\ job.op \in Ops /\ Paid(job.state) /\ job.state \in States
      /\ \A o \in Ops \ {job.op} : ~Uncertain(o)
  BY <1>0, JobRuns DEF IInv, JobInv, Loaded, TypeOK, JobType
<1>2. s \in States /\ s.pending = NoOp /\ s.retry_at = job.state.retry_at /\ s.last_paid = now
  BY <1>1, StateFacts, JobFields, SMTT(30) DEF States, Times
<1>3. /\ job'.kind = job.kind /\ job'.phase = "finish" /\ job'.state = s
      /\ job'.op = job.op /\ job'.time = job.time /\ job' \in JobType
  <2>1. /\ job.kind \in {"none", "automatic", "pay", "pending"} /\ job.op \in Ops \union {NoOp}
        /\ job.time \in 0 .. MaxTime
    BY <1>0, Zenon DEF JobType
  <2>2. "finish" \in Phases
    BY DEF Phases, Saving
  <2>3. s \in States /\ job' = Job(job.kind, "finish", s, job.op, job.time)
    BY <1>0, <1>2, Zenon DEF Holding
  <2> HIDE DEF s
  <2> QED
    BY <2>1, <2>2, <2>3, JobFields
<1> HIDE DEF s
<1>4. TypeOK' /\ Exclusive'
  BY <1>0, <1>1, <1>3 DEF IInv, TypeOK, Exclusive, JobType
<1>5. Settled'
  BY <1>0, <1>1 DEF Settled, Uncertain
<1>6. Paid(job.state)'
  BY <1>0, <1>1, <1>2, <1>3 DEF Paid, IInv, RecordInv
<1>7. RecordInv'
  BY <1>0, <1>1, <1>3, <1>5
     DEF RecordInv, IInv, GuardCoversUncertain, Settled, Uncertain, Paid, Saved
<1>8. JobInv' /\ SpacingInv'
  BY <1>2, <1>3, <1>5, <1>6 DEF JobInv, SpacingInv
<1> QED
  BY <1>4, <1>7, <1>8 DEF IInv

\* What is saved covers what is uncertain.
LEMMA SaveKeeps == ASSUME IInv, save_payout PROVE IInv'
<1>0. /\ job.phase \in Saving /\ job \in JobType /\ ledger' = job.state /\ job' = AfterSave
      /\ UNCHANGED <<now, saga, running, detached, acknowledged, confirmed, prepared>>
  BY JobFields DEF save_payout, history
<1>1. /\ detached = {} /\ running # "nothing" /\ Settled
      /\ Paid(job.state) /\ job.state \in States /\ needs_recovery' \in BOOLEAN
  BY <1>0, JobRuns DEF IInv, JobInv, Loaded, JobType, TypeOK, Saving, save_payout
<1>2. ledger' # Unset /\ Saved(ledger)' = job.state /\ Settled'
  BY <1>0, <1>1, StateFacts DEF Saved, Settled, Uncertain
<1>3. Paid(Saved(ledger))' /\ GuardCoversUncertain'
  BY <1>0, <1>1, <1>2 DEF Paid, GuardCoversUncertain, Settled, Uncertain
<1>4. CASE job.phase \in {"finish", "clear"}
  <2>1. job' = NoJob
    BY <1>0, <1>4 DEF AfterSave
  <2>2. JobInv' /\ SpacingInv' /\ job' \in JobType
    BY <2>1, NoJobHolds
  <2>3. RecordInv'
    BY <1>0, <1>1, <1>3, <2>1, StateFacts DEF RecordInv, IInv, TypeOK
  <2>4. TypeOK' /\ Exclusive'
    BY <1>0, <1>1, <2>1, <2>2, StateFacts DEF IInv, TypeOK, Exclusive, JobType
  <2> QED
    BY <2>2, <2>3, <2>4 DEF IInv
<1>5. ASSUME NEW p \in {"recover", "prepare", "confirm"}, job' = At(p),
             job.phase = CASE p = "recover" -> "first"
                           [] p = "prepare" -> "cooldown"
                           [] p = "confirm" -> "guard"
      PROVE  IInv'
  <2>1. /\ job'.kind = job.kind /\ job'.phase = p /\ job'.state = job.state
        /\ job'.op = job.op /\ job'.time = job.time /\ job' \in JobType
    BY <1>0, <1>5, JobFields DEF At, Phases, JobType
  <2>2. RecordInv'
    BY <1>0, <1>1, <1>3, <2>1 DEF RecordInv, IInv
  <2>3. TypeOK' /\ Exclusive'
    BY <1>0, <1>1, <2>1 DEF IInv, TypeOK, Exclusive, JobType
  <2>4. Paid(job.state)'
    BY <1>0, <1>1, <2>1 DEF Paid
  <2>5. JobInv'
    <3>1. /\ p = "confirm" => job.op \in Ops /\ job.state.pending = job.op
          /\ p # "confirm" => job.state.pending = NoOp
      BY <1>5 DEF IInv, JobInv, Loaded, Saving
    <3> QED
      BY <1>0, <1>2, <2>1, <2>4, <3>1 DEF JobInv
  <2>6. SpacingInv'
    BY <1>0, <1>2, <1>5, <2>1 DEF IInv, SpacingInv
  <2> QED
    BY <2>2, <2>3, <2>5, <2>6 DEF IInv
<1> QED
  BY <1>0, <1>4, <1>5 DEF AfterSave, Saving

-----------------------------------------------------------------------------
(* The theorems.                                                            *)

\* Nothing was paid or attempted.
LEMMA InitIInv == Init => IInv
<1> SUFFICES ASSUME Init PROVE IInv
  OBVIOUS
<1>1. JobInv /\ SpacingInv /\ job \in JobType /\ Exclusive
  BY StateFacts DEF Init, NoJob, Job, JobType, Phases, JobInv, SpacingInv, Loaded, Saving, Exclusive
<1>2. TypeOK
  <2>1. now \in 0 .. MaxTime /\ confirmed \in Int /\ prepared \in Int
    BY StateFacts, SMTT(30) DEF Init
  <2>2. saga \in [Ops -> {"unused", "prepared", "sent", "closed"}]
    BY DEF Init
  <2> QED
    BY <1>1, <2>1, <2>2, ZenonT(30) DEF Init, TypeOK, JobType
<1>3. RecordInv
  BY StateFacts DEF Init, RecordInv, GuardCoversUncertain, Paid, Saved
<1> QED
  BY <1>1, <1>2, <1>3 DEF IInv

\* Every step keeps the invariant, as long as no save commits late.
LEMMA NextIInv == ASSUME ~LateSaves PROVE IInv /\ [Next]_vars => IInv'
<1> SUFFICES ASSUME IInv, [Next]_vars PROVE IInv'
  OBVIOUS
<1>1. CASE UNCHANGED vars
  <2> USE <1>1 DEF vars
  <2>1. TypeOK'
    BY Zenon DEF IInv, TypeOK
  <2>2. Exclusive'
    BY Zenon DEF IInv, Exclusive
  <2>3. RecordInv'
    BY ZenonT(30) DEF IInv, RecordInv, GuardCoversUncertain, Settled, Uncertain, Paid, Saved
  <2>4. JobInv'
    BY ZenonT(30) DEF IInv, JobInv, Loaded, Settled, Uncertain, Paid
  <2>5. SpacingInv'
    BY Zenon DEF IInv, SpacingInv, Saved
  <2> QED
    BY <2>1, <2>2, <2>3, <2>4, <2>5, Zenon DEF IInv
<1>2. CASE \/ StartProxy \/ StartAutomatic
           \/ \E kind \in {"pay", "pending"} : StartCommand(kind)
  BY <1>2, ProcessKeeps
<1>3. CASE \/ SaveFails \/ PrepareFails \/ Fail \/ Exit \/ OtherRecovery
           \/ \E o \in Ops : FeeCapExceeded(o)
  BY <1>3, EndsKeep
<1>4. CASE \E o \in Ops : Prepare(o) \/ revoke_send(o)
  BY <1>4, PrepareKeeps, RevokeKeeps
<1>5. CASE Tick \/ LoadAutomatic \/ RecoverAutomatic \/ save_payout \/ Confirm \/ Delivered \/ CancelSave
  BY <1>5, TickKeeps, LoadAutomaticKeeps, RecoverAutomaticKeeps, SaveKeeps, ConfirmKeeps,
     DeliveredKeeps, CancelKeeps
<1>6. CASE RecoverCommand \/ LoadPay \/ LoadPending
  BY <1>6, LoadCommandKeeps
<1>7. CASE \E state \in detached : CommitDetached(state)
  BY <1>7, CommitKeeps
<1> QED
  BY <1>1, <1>2, <1>3, <1>4, <1>5, <1>6, <1>7 DEF Next

(***************************************************************************)
(* For any operations and policy, if a cancelled save commits before the   *)
(* next pass: a token that may have been delivered without acknowledgement *)
(* stays named by the saved record (send_request, save_payout).            *)
(***************************************************************************)
THEOREM GuardHolds == ASSUME ~LateSaves PROVE Spec => []GuardCoversUncertain
<1>1. IInv => GuardCoversUncertain
  BY DEF IInv, RecordInv
<1> QED
  BY InitIInv, NextIInv, <1>1, PTL DEF Spec

(***************************************************************************)
(* Under the same assumption: saved records hold real times, and every     *)
(* variable keeps its type (PayoutState).                                  *)
(***************************************************************************)
THEOREM PayoutTypes == ASSUME ~LateSaves PROVE Spec => []TypeOK
<1>1. IInv => TypeOK
  BY DEF IInv
<1> QED
  BY InitIInv, NextIInv, <1>1, PTL DEF Spec

(***************************************************************************)
(* Under the same assumption: no payment is confirmed while another token  *)
(* is out whose delivery was never acknowledged (send_request, pay).       *)
(***************************************************************************)
THEOREM NeverOverUncertain == ASSUME ~LateSaves PROVE Spec => NoPaymentOverUncertain
<1>1. IInv /\ [Next]_vars =>
        [Confirm => \A o \in Ops \ {job.op} :
                      saga[o] = "sent" => o \in acknowledged]_vars
  <2> SUFFICES ASSUME IInv, Confirm, NEW o \in Ops, saga[o] = "sent" PROVE o \in acknowledged
    OBVIOUS
  <2>1. Settled
    BY ZenonT(30) DEF Confirm, IInv, JobInv, Loaded
  <2> QED
    BY <2>1 DEF Settled, Uncertain
<1> QED
  BY InitIInv, NextIInv, <1>1, PTL DEF Spec, NoPaymentOverUncertain

(***************************************************************************)
(* Under the same assumption, for any interval: an automatic payout is     *)
(* confirmed at least one interval after the latest one (due).             *)
(***************************************************************************)
THEOREM SpacedPayouts == ASSUME ~LateSaves PROVE Spec => PayoutsSpaced
<1>1. IInv /\ [Next]_vars =>
        [Confirm /\ job.kind = "automatic" /\ ~HasThreshold
           => now >= confirmed + INTERVAL]_vars
  <2> SUFFICES ASSUME IInv, Confirm, job.kind = "automatic", ~HasThreshold
               PROVE  now >= confirmed + INTERVAL
    OBVIOUS
  <2>1. job.time >= confirmed + INTERVAL
    BY DEF Confirm, IInv, SpacingInv
  <2>2. job.time <= now /\ job.time \in Int /\ now \in Int /\ confirmed \in Int
    BY DEF IInv, RecordInv, TypeOK
  <2> QED
    BY <2>1, <2>2, StateFacts
<1> QED
  BY InitIInv, NextIInv, <1>1, PTL DEF Spec, PayoutsSpaced

(***************************************************************************)
(* Under the same assumption, for any cooldown: automatic attempts that    *)
(* reach the wallet start at least one cooldown apart, however the earlier *)
(* one ended (automatic_payout, send_request).                             *)
(***************************************************************************)
THEOREM AttemptsCoolDown == ASSUME ~LateSaves PROVE Spec => []CooldownHolds
<1>1. IInv => CooldownHolds
  BY DEF IInv, SpacingInv, CooldownHolds, Attempting
<1> QED
  BY InitIInv, NextIInv, <1>1, PTL DEF Spec
===============================================================================
