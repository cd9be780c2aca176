-------------------------------- MODULE Payout --------------------------------
(***************************************************************************)
(* Operator payouts of one mint (payments/payout.rs, the payout record of  *)
(* payments/ledger.rs, manage_payouts of automation.rs): the proxy pays    *)
(* automatically when a payout is due, the operator pays by hand or        *)
(* resolves a payout with the wallet commands while the proxy is stopped.  *)
(*                                                                         *)
(* The payout record is the crash guard: it names the operation whose      *)
(* outcome is uncertain.  Each save of it is a durable transaction on a    *)
(* blocking thread, so when the 30 s timeout cancels an automatic payout a *)
(* save it was waiting for still commits, some time later.                 *)
(*                                                                         *)
(* The CDK send saga of an operation is external, modelled from how the    *)
(* code uses it: prepare, cancel or confirm, recovery, revoke.             *)
(***************************************************************************)
EXTENDS Integers

CONSTANTS
  Ops,           \* operation ids
  NoOp,
  INTERVAL,      \* interval of the payout policy
  COOLDOWN,      \* 60 s
  HasThreshold,  \* the policy also has a balance threshold
  LateSaves,     \* may a cancelled save outlast the 5 s until the next pass?
  MaxTime        \* bound: the last tick

ASSUME PayoutConstants ==
  /\ NoOp \notin Ops
  /\ {INTERVAL, COOLDOWN, MaxTime} \subseteq Nat
  /\ HasThreshold \in BOOLEAN /\ LateSaves \in BOOLEAN

VARIABLES
  now,             \* system clock
  ledger,          \* table PAYOUT: the saved PayoutState, or Unset
  saga,            \* CDK store: the send saga of each operation
  running,         \* the process that holds the data lock
  needs_recovery,  \* flag of its MintWallet
  job,             \* the payout or wallet command it is executing
  detached,        \* saves of cancelled payouts that have yet to commit
  acknowledged,    \* history: operations whose delivery was acknowledged
  confirmed,       \* history: time of the last confirm, or -INTERVAL
  prepared         \* history: time of the last automatic attempt that reached
                   \* the wallet, or -COOLDOWN

vars == <<now, ledger, saga, running, needs_recovery, job, detached,
          acknowledged, confirmed, prepared>>
history == <<acknowledged, confirmed, prepared>>

State(last_paid, retry_at, pending) ==
  [last_paid |-> last_paid, retry_at |-> retry_at, pending |-> pending]
Default == State(0, 0, NoOp)
Unset == [last_paid |-> -1, retry_at |-> -1, pending |-> NoOp]
Saved(record) == IF record = Unset THEN Default ELSE record

Saving == {"first", "cooldown", "guard", "finish", "clear"}
Phases == {"idle", "load", "recover", "prepare", "confirm", "delivering"} \union Saving

\* A job: what it is, how far it got, the state it holds in memory, the
\* operation it is paying and the time it read when it started.
Job(kind, phase, state, op, time) ==
  [kind |-> kind, phase |-> phase, state |-> state, op |-> op, time |-> time]
NoJob == Job("none", "idle", Default, NoOp, 0)
At(phase) == Job(job.kind, phase, job.state, job.op, job.time)
Holding(phase, state) == Job(job.kind, phase, state, job.op, job.time)

\* An automatic payout is asking the wallet to prepare; however that ends, it
\* was an attempt.
Attempting == job.kind = "automatic" /\ job.phase = "prepare"
AttemptEnds == prepared' = IF Attempting THEN job.time ELSE prepared

-----------------------------------------------------------------------------
Init ==
  /\ now = 0
  /\ ledger = Unset
  /\ saga = [o \in Ops |-> "unused"]
  /\ running = "nothing"
  /\ needs_recovery = FALSE
  /\ job = NoJob
  /\ detached = {}
  /\ acknowledged = {}
  /\ confirmed = -INTERVAL
  /\ prepared = -COOLDOWN

Tick ==
  /\ now < MaxTime
  /\ now' = now + 1
  /\ UNCHANGED <<ledger, saga, running, needs_recovery, job, detached, history>>

\* The proxy takes the data lock; its wallet opens with the flag set.
StartProxy ==
  /\ running = "nothing"
  /\ running' = "proxy"
  /\ needs_recovery' = TRUE
  /\ UNCHANGED <<now, ledger, saga, job, detached, history>>

\* So does one wallet command: pay, or pending (which reclaim shares).
StartCommand(kind) ==
  /\ running = "nothing"
  /\ running' = "cli"
  /\ needs_recovery' = TRUE
  /\ job' = Job(kind, "recover", Default, NoOp, now)
  /\ UNCHANGED <<now, ledger, saga, detached, history>>

\* It ends, normally or not: everything in memory is gone.
Exit ==
  /\ running # "nothing"
  /\ running' = "nothing"
  /\ needs_recovery' = FALSE
  /\ job' = NoJob
  /\ detached' = {}
  /\ AttemptEnds
  /\ UNCHANGED <<now, ledger, saga, acknowledged, confirmed>>

-----------------------------------------------------------------------------
(* The wallet.                                                              *)

\* recover_incomplete_sagas: a send that was prepared but not confirmed is
\* compensated; one that may have been delivered is completed if the receiver
\* has redeemed it, and otherwise stays.
RecoverSagas ==
  /\ \E redeemed \in SUBSET {o \in Ops : saga[o] = "sent"} :
       saga' = [o \in Ops |-> IF saga[o] = "prepared" \/ o \in redeemed
                                THEN "closed" ELSE saga[o]]
  /\ needs_recovery' = FALSE

\* Incoming payments and deposits use the wallet between payouts.
OtherRecovery ==
  /\ running = "proxy"
  /\ job = NoJob
  /\ needs_recovery
  /\ RecoverSagas
  /\ UNCHANGED <<now, ledger, running, job, detached, history>>

\* recover at the start of a job, when the flag is set.
Recover(next) ==
  /\ IF needs_recovery THEN RecoverSagas ELSE UNCHANGED <<saga, needs_recovery>>
  /\ job' = next
  /\ UNCHANGED <<now, ledger, running, detached, history>>

-----------------------------------------------------------------------------
(* automatic_payout.                                                        *)

StartAutomatic ==
  /\ running = "proxy"
  /\ job = NoJob
  /\ LateSaves \/ detached = {}
  /\ job' = Job("automatic", "load", Default, NoOp, now)
  /\ UNCHANGED <<now, ledger, saga, running, needs_recovery, detached, history>>

\* The first pass starts the interval; a pending or recent payout ends it.
LoadAutomatic ==
  /\ job.kind = "automatic" /\ job.phase = "load"
  /\ job' = IF ledger = Unset THEN Holding("first", State(job.time, 0, NoOp))
            ELSE IF ledger.pending # NoOp \/ job.time < ledger.retry_at THEN NoJob
            ELSE Holding("recover", ledger)
  /\ UNCHANGED <<now, ledger, saga, running, needs_recovery, detached, history>>

\* Balance and threshold are the wallet's: a threshold may be met at any time.
due ==
  /\ job.state.pending = NoOp
  /\ job.time >= job.state.retry_at
  /\ HasThreshold \/ job.time >= job.state.last_paid + INTERVAL

\* Mutant: the cooldown is not saved before funds are prepared.
RecoverNoCooldown ==
  /\ job.kind = "automatic" /\ job.phase = "recover"
  /\ \/ due /\ Recover(At("prepare"))
     \/ Recover(NoJob)

RecoverAutomatic ==
  /\ job.kind = "automatic" /\ job.phase = "recover"
  /\ \/ /\ due
        /\ Recover(Holding("cooldown",
             State(job.state.last_paid, job.time + COOLDOWN, job.state.pending)))
     \/ Recover(NoJob)

-----------------------------------------------------------------------------
(* Saving the record: the job goes on when the save has committed.          *)

AfterSave ==
  CASE job.phase = "first" -> At("recover")
    [] job.phase = "cooldown" -> At("prepare")
    [] job.phase = "guard" -> At("confirm")
    [] OTHER -> NoJob

save_payout ==
  /\ job.phase \in Saving
  /\ ledger' = job.state
  /\ job' = AfterSave
  /\ needs_recovery' = (needs_recovery /\ job.phase # "finish")
  /\ UNCHANGED <<now, saga, running, detached, history>>

\* The save fails. Without a guard the prepared operation is cancelled, as
\* far as the wallet can.
SaveFails ==
  /\ job.phase \in Saving
  /\ job' = NoJob
  /\ \/ UNCHANGED saga
     \/ job.phase = "guard" /\ saga' = [saga EXCEPT ![job.op] = "closed"]
  /\ UNCHANGED <<now, ledger, running, needs_recovery, detached, history>>

-----------------------------------------------------------------------------
(* send_request, shared by automatic_payout and pay.                        *)

\* The wallet prepares the operation within the fee cap ...
Prepare(o) ==
  /\ job.phase = "prepare"
  /\ saga[o] = "unused"
  /\ saga' = [saga EXCEPT ![o] = "prepared"]
  /\ needs_recovery' = TRUE
  /\ job' = Job(job.kind, "guard",
               State(job.state.last_paid, job.state.retry_at, o), o, job.time)
  /\ AttemptEnds
  /\ UNCHANGED <<now, ledger, running, detached, acknowledged, confirmed>>

\* ... or over it: the operation is cancelled ...
FeeCapExceeded(o) ==
  /\ job.phase = "prepare"
  /\ saga[o] = "unused"
  /\ \/ saga' = [saga EXCEPT ![o] = "closed"] /\ needs_recovery' = FALSE
     \/ saga' = [saga EXCEPT ![o] = "prepared"] /\ needs_recovery' = TRUE
  /\ job' = NoJob
  /\ AttemptEnds
  /\ UNCHANGED <<now, ledger, running, detached, acknowledged, confirmed>>

\* ... or not at all.
PrepareFails ==
  /\ job.phase = "prepare"
  /\ needs_recovery' = TRUE
  /\ job' = NoJob
  /\ AttemptEnds
  /\ UNCHANGED <<now, ledger, saga, running, detached, acknowledged, confirmed>>

\* confirm makes the token and delivers it; from here it may be redeemed.
Confirm ==
  /\ job.phase = "confirm"
  /\ saga' = [saga EXCEPT ![job.op] = "sent"]
  /\ confirmed' = now
  /\ job' = At("delivering")
  /\ UNCHANGED <<now, ledger, running, needs_recovery, detached, acknowledged, prepared>>

\* Mutant: the delivery does not restart the interval.
DeliveredKeepsPaid ==
  /\ job.phase = "delivering"
  /\ acknowledged' = acknowledged \union {job.op}
  /\ job' = Holding("finish", State(job.state.last_paid, job.state.retry_at, NoOp))
  /\ UNCHANGED <<now, ledger, saga, running, needs_recovery, detached, confirmed, prepared>>

\* The receiver acknowledges the delivery.
Delivered ==
  /\ job.phase = "delivering"
  /\ acknowledged' = acknowledged \union {job.op}
  /\ job' = Holding("finish", State(now, job.state.retry_at, NoOp))
  /\ UNCHANGED <<now, ledger, saga, running, needs_recovery, detached, confirmed, prepared>>

-----------------------------------------------------------------------------
(* The wallet commands.                                                     *)

RecoverCommand ==
  /\ job.kind \in {"pay", "pending"} /\ job.phase = "recover"
  /\ Recover(At("load"))

\* Mutant: pay does not look for an unresolved payout.
LoadPayUnguarded ==
  /\ job.kind = "pay" /\ job.phase = "load"
  /\ job' = Holding("prepare", Saved(ledger))
  /\ UNCHANGED <<now, ledger, saga, running, needs_recovery, detached, history>>

LoadPay ==
  /\ job.kind = "pay" /\ job.phase = "load"
  /\ job' = IF Saved(ledger).pending # NoOp THEN NoJob
            ELSE Holding("prepare", Saved(ledger))
  /\ UNCHANGED <<now, ledger, saga, running, needs_recovery, detached, history>>

\* wallet reclaim: a delivered token is swapped back if it is still unspent.
revoke_send(o) ==
  /\ job.kind = "pending" /\ job.phase = "load"
  /\ saga[o] = "sent"
  /\ saga' = [saga EXCEPT ![o] = "closed"]
  /\ UNCHANGED <<now, ledger, running, needs_recovery, job, detached, history>>

\* Mutant: the guard is cleared without asking for the saga.
LoadPendingUnchecked ==
  /\ job.kind = "pending" /\ job.phase = "load"
  /\ job' = IF Saved(ledger).pending # NoOp
              THEN Holding("clear", State(now, now + COOLDOWN, NoOp))
              ELSE NoJob
  /\ UNCHANGED <<now, ledger, saga, running, needs_recovery, detached, history>>

\* The guard is cleared once the saga of its operation is gone.
LoadPending ==
  /\ job.kind = "pending" /\ job.phase = "load"
  /\ job' = IF Saved(ledger).pending \in {o \in Ops : saga[o] = "closed"}
              THEN Holding("clear", State(now, now + COOLDOWN, NoOp))
              ELSE NoJob
  /\ UNCHANGED <<now, ledger, saga, running, needs_recovery, detached, history>>

-----------------------------------------------------------------------------
(* Errors and the timeout.                                                  *)

\* An error outside a save, or the timeout, ends the job where it is.
Fail ==
  /\ job # NoJob
  /\ job.phase \notin Saving
  /\ job' = NoJob
  /\ AttemptEnds
  /\ UNCHANGED <<now, ledger, saga, running, needs_recovery, detached, acknowledged,
                 confirmed>>

\* The timeout ends an automatic payout while a save is under way.
CancelSave ==
  /\ job.kind = "automatic"
  /\ job.phase \in Saving
  /\ detached' = detached \union {job.state}
  /\ job' = NoJob
  /\ UNCHANGED <<now, ledger, saga, running, needs_recovery, history>>

CommitDetached(state) ==
  /\ ledger' = state
  /\ detached' = detached \ {state}
  /\ UNCHANGED <<now, saga, running, needs_recovery, job, history>>

-----------------------------------------------------------------------------
Next ==
  \/ Tick \/ StartProxy \/ Exit \/ OtherRecovery
  \/ \E kind \in {"pay", "pending"} : StartCommand(kind)
  \/ StartAutomatic \/ LoadAutomatic \/ RecoverAutomatic
  \/ save_payout \/ SaveFails
  \/ \E o \in Ops : Prepare(o) \/ FeeCapExceeded(o) \/ revoke_send(o)
  \/ PrepareFails \/ Confirm \/ Delivered
  \/ RecoverCommand \/ LoadPay \/ LoadPending
  \/ Fail \/ CancelSave
  \/ \E state \in detached : CommitDetached(state)

Spec == Init /\ [][Next]_vars

-----------------------------------------------------------------------------
(* Correctness.                                                             *)

Times == 0 .. MaxTime + COOLDOWN
States == [last_paid : Times, retry_at : Times, pending : Ops \union {NoOp}]

\* Every variable keeps its shape; a saved record always holds real times.
TypeOK ==
  /\ now \in 0 .. MaxTime
  /\ ledger \in States \union {Unset}
  /\ saga \in [Ops -> {"unused", "prepared", "sent", "closed"}]
  /\ running \in {"nothing", "proxy", "cli"}
  /\ needs_recovery \in BOOLEAN
  /\ job \in [kind : {"none", "automatic", "pay", "pending"}, phase : Phases,
              state : States, op : Ops \union {NoOp}, time : 0 .. MaxTime]
  /\ detached \subseteq States
  /\ acknowledged \subseteq Ops
  /\ confirmed \in Int /\ prepared \in Int

\* A token that may have been delivered without an acknowledgement stays
\* named by the saved record until it is redeemed or reclaimed, whatever is
\* cancelled, fails or crashes: the guard that send_request leaves behind.
GuardCoversUncertain ==
  \A o \in Ops : saga[o] = "sent" /\ o \notin acknowledged => ledger.pending = o

\* No payment is created over an unresolved one: when send_request confirms,
\* no other token is out whose delivery was never acknowledged.
NoPaymentOverUncertain ==
  [][Confirm => \A o \in Ops \ {job.op} :
                  saga[o] = "sent" => o \in acknowledged]_vars

\* Under an interval policy an automatic payout is confirmed at least one
\* interval after the latest payout, across restarts and manual commands.
PayoutsSpaced ==
  [][Confirm /\ job.kind = "automatic" /\ ~HasThreshold
       => now >= confirmed + INTERVAL]_vars

\* Automatic attempts that reach the wallet (prepare_pay_request) start at least
\* one cooldown apart, whether the earlier one prepared a payment, was over its
\* fee, failed, timed out or was cut off by the end of the process.
CooldownHolds == Attempting => job.time >= prepared + COOLDOWN
===============================================================================
