------------------------------ MODULE Rebalance ------------------------------
(***************************************************************************)
(* workflows/rebalanceBps.ts and its step helpers: the cadence-driven       *)
(* rebalance of one project's fee-share weights.                            *)
(*                                                                         *)
(* Executions of the root workflow (cron ticks, operator re-triggers) take  *)
(* the root lock, select the schedule when it is due, take the schedule     *)
(* lock, compute a plan from the latest frozen snapshot, reserve an attempt *)
(* row keyed by the plan, write the plan on chain with a manager-signed     *)
(* transaction, and then mirror it into the claimer slots and advance the   *)
(* schedule.  Transactions land, revert or expire on their own; executions  *)
(* throw or die at any step and are executed again by the workflow engine.  *)
(***************************************************************************)
EXTENDS Naturals

CONSTANTS
    Runs,          \* executions of the root workflow
    Nobody,        \* no execution
    N,             \* claimer slots, numbered 1..N
    Weights,       \* basis-point values a slot can have
    LaunchPlan,    \* the weights recorded at launch
    MeritPlans,    \* plans allocateBpsByScore can compute from scores
    NoSignal,      \* a latest snapshot in which no slot's claimer scores
    RampUp, Cadence, Backoff,   \* schedule intervals, in ticks
    MaxTotal,      \* totalRebalances is counted up to here
    MaxTx, MaxSnapshots, MaxFaults,   \* bounds on what the environment does
    LeaseMayLapse, \* the schedule lease may lapse under a live execution
    MayLackContext \* the config may be locked, finalized or without slots

Plans == [1..N -> Weights]

ASSUME RebalanceAssumption ==
    /\ N \in Nat \ {0}
    /\ Nobody \notin Runs
    /\ LaunchPlan \in Plans
    /\ MeritPlans \subseteq Plans
    /\ NoSignal \notin Plans
    /\ {RampUp, Cadence, Backoff, MaxTotal} \subseteq Nat \ {0}
    /\ {MaxTx, MaxSnapshots, MaxFaults} \subseteq Nat
    /\ {LeaseMayLapse, MayLackContext} \subseteq BOOLEAN

VARIABLES
    rootOwner, rootIn,     \* the lock rebalanceBps:root
    schedOwner, schedIn,   \* the lock rebalanceBps:schedule:<id>
    pc,         \* where each execution is
    ctx,        \* what an execution holds in memory: plan, total, ..., and,
                \* for the properties, whether it has counted its rebalance
    total,      \* payout_schedules.total_rebalances
    nextRun,    \* payout_schedules.next_run_at: ticks until due, 0 when due
    slots,      \* bags_claimer_slots.current_bps
    attempt,    \* bags_rebalance_attempts.status, by plan (plan_hash)
    sigOf,      \* bags_rebalance_attempts.signatures[0], by plan; 0 = none
    delegated,  \* bags_fee_share_configs.manager_pubkey is our manager
    snapshot,   \* the plan the latest frozen snapshot's scores give
    sent,       \* transactions submitted so far; number n has signature n
    txPlan, txState,       \* what each of them does, and its fate
    chain,      \* the weights in the on-chain FeeShareConfig
    onChain,    \* history: every plan the chain has ever held
    frozen, faults         \* how much of their budgets is spent

locks == <<rootOwner, rootIn, schedOwner, schedIn>>
schedule == <<total, nextRun>>
ledger == <<attempt, sigOf>>
network == <<sent, txPlan, txState, chain, onChain>>
operators == <<delegated, snapshot, frozen>>
vars == <<locks, pc, ctx, schedule, slots, ledger, network, operators, faults>>

Root == INSTANCE Lease WITH Users <- Runs, owner <- rootOwner, inside <- rootIn
Sched == INSTANCE Lease WITH Users <- Runs, owner <- schedOwner, inside <- schedIn

Context == [plan : Plans, preserved : BOOLEAN, managed : BOOLEAN,
            total : 0..MaxTotal, sig : 0..MaxTx, cursor : 1..(N + 1),
            counted : BOOLEAN]

NoContext == [plan |-> LaunchPlan, preserved |-> FALSE, managed |-> FALSE,
              total |-> 0, sig |-> 0, cursor |-> 1, counted |-> FALSE]

\* The steps between acquiring and releasing the schedule lock.
Body == {"load", "reserve", "broadcast", "send", "record", "confirm", "mark",
         "confirmed", "write", "audit", "backoff", "note", "leave"}

Statuses == {"none", "pending", "signing", "broadcasting", "confirmed", "failed"}

TypeOK ==
    /\ Root!TypeOK
    /\ Sched!TypeOK
    /\ pc \in [Runs -> {"idle", "select", "ready", "unroot"} \cup Body]
    /\ ctx \in [Runs -> Context]
    /\ total \in 0..MaxTotal
    /\ nextRun \in Nat
    /\ slots \in Plans
    /\ attempt \in [Plans -> Statuses]
    /\ sigOf \in [Plans -> 0..MaxTx]
    /\ delegated \in BOOLEAN
    /\ snapshot \in MeritPlans \cup {NoSignal}
    /\ sent \in 0..MaxTx
    /\ txPlan \in [1..MaxTx -> Plans]
    /\ txState \in [1..MaxTx -> {"unsent", "flight", "landed", "reverted", "dropped"}]
    /\ chain \in Plans
    /\ onChain \subseteq Plans
    /\ frozen \in 0..MaxSnapshots
    /\ faults \in 0..MaxFaults

\* As recordLaunch leaves it: slots mirror the chain, the first run is ahead.
Init ==
    /\ Root!Init
    /\ Sched!Init
    /\ pc = [r \in Runs |-> "idle"]
    /\ ctx = [r \in Runs |-> NoContext]
    /\ total = 0
    /\ nextRun = 1
    /\ slots = LaunchPlan
    /\ attempt = [p \in Plans |-> "none"]
    /\ sigOf = [p \in Plans |-> 0]
    /\ delegated \in BOOLEAN
    /\ snapshot = NoSignal
    /\ sent = 0
    /\ txPlan = [i \in 1..MaxTx |-> LaunchPlan]
    /\ txState = [i \in 1..MaxTx |-> "unsent"]
    /\ chain = LaunchPlan
    /\ onChain = {LaunchPlan}
    /\ frozen = 0
    /\ faults = 0

-----------------------------------------------------------------------------
(* The root workflow.                                                      *)

Goto(r, l) == pc' = [pc EXCEPT ![r] = l]

Plan(r) == ctx[r].plan

\* Mutant: the row is never inserted, so updating it finds none.
MarkExisting(r, status) ==
    attempt' = [attempt EXCEPT ![Plan(r)] = IF @ = "none" THEN @ ELSE status]

Mark(r, status) == attempt' = [attempt EXCEPT ![Plan(r)] = status]

\* Failures are counted, those that an execution survives too.
Fault == faults < MaxFaults /\ faults' = faults + 1

\* rebalanceBps acquires the root lock; an execution that is refused ends.
Start(r) ==
    /\ pc[r] = "idle"
    /\ Root!Acquire(r)
    /\ Goto(r, "select")
    /\ UNCHANGED <<schedOwner, schedIn, ctx, schedule, slots, ledger, network,
                   operators, faults>>

\* loadDueSchedulesStep: next_run_at <= now.  Neither the project's status nor
\* the kill switch is read, and nothing sets the schedule's paused_at.
SelectDue(r) ==
    /\ pc[r] = "select"
    /\ Goto(r, IF nextRun = 0 THEN "ready" ELSE "unroot")
    /\ UNCHANGED <<locks, ctx, schedule, slots, ledger, network, operators, faults>>

\* The `finally` of rebalanceBps; the release itself may fail.
Finish(r) ==
    /\ pc[r] = "unroot"
    /\ Root!Release(r) \/ Root!Abandon(r)
    /\ Goto(r, "idle")
    /\ UNCHANGED <<schedOwner, schedIn, ctx, schedule, slots, ledger, network,
                   operators, faults>>

-----------------------------------------------------------------------------
(* processScheduleRebalance, run inside startProcessScheduleStep.          *)

\* The schedule lock is free.
Enter(r) ==
    /\ pc[r] = "ready"
    /\ Sched!Acquire(r)
    /\ Goto(r, "load")
    /\ UNCHANGED <<rootOwner, rootIn, ctx, schedule, slots, ledger, network,
                   operators, faults>>

\* Mutant: lock.acquired is not looked at.
EnterAnyway(r) ==
    /\ pc[r] = "ready"
    /\ schedOwner # Nobody
    /\ Goto(r, "load")
    /\ UNCHANGED <<locks, ctx, schedule, slots, ledger, network, operators, faults>>

\* It is taken: "skipped_locked".
EnterRefused(r) ==
    /\ pc[r] = "ready"
    /\ schedOwner # Nobody
    /\ Goto(r, "unroot")
    /\ UNCHANGED <<locks, ctx, schedule, slots, ledger, network, operators, faults>>

\* loadRebalanceContextStep and computeRebalancePlanStep: without a score the
\* slots' own weights are the plan.  next_run_at is not looked at again.
Load(r) ==
    /\ pc[r] = "load"
    /\ ctx' = [ctx EXCEPT ![r] =
                 [plan |-> IF snapshot = NoSignal THEN slots ELSE snapshot,
                  preserved |-> snapshot = NoSignal, managed |-> delegated,
                  total |-> total, sig |-> 0, cursor |-> 1, counted |-> FALSE]]
    /\ Goto(r, "reserve")
    /\ UNCHANGED <<locks, schedule, slots, ledger, network, operators, faults>>

\* The config is update-locked, finalized or gone, or it has no slots:
\* "skipped_no_context", "skipped_no_slots".  The schedule is not moved on.
\* No code of the repository brings a config there; its columns allow for it.
LoadNothing(r) ==
    /\ pc[r] = "load"
    /\ MayLackContext
    /\ Goto(r, "leave")
    /\ UNCHANGED <<locks, ctx, schedule, slots, ledger, network, operators, faults>>

\* reserveAttemptStep finds the plan confirmed: straight to finalizeSuccess.
ReserveConfirmed(r) ==
    /\ pc[r] = "reserve"
    /\ attempt[Plan(r)] = "confirmed"
    /\ ctx' = [ctx EXCEPT ![r].sig = sigOf[Plan(r)]]
    /\ Goto(r, "write")
    /\ UNCHANGED <<locks, schedule, slots, ledger, network, operators, faults>>

\* reserveAttemptStep inserts the row, or resets an unconfirmed one.
Reserve(r) ==
    /\ pc[r] = "reserve"
    /\ attempt[Plan(r)] # "confirmed"
    /\ Mark(r, "pending")
    /\ Goto(r, "broadcast")
    /\ UNCHANGED <<locks, ctx, schedule, slots, sigOf, network, operators, faults>>

-----------------------------------------------------------------------------
(* buildSignAndBroadcastStep.                                              *)

\* An earlier execution of the step already persisted a confirmation.
PersistedConfirmed(r) == attempt[Plan(r)] = "confirmed" /\ sigOf[Plan(r)] # 0

\* Short-circuit on it.
AlreadyConfirmed(r) ==
    /\ pc[r] = "broadcast"
    /\ PersistedConfirmed(r)
    /\ ctx' = [ctx EXCEPT ![r].sig = sigOf[Plan(r)]]
    /\ Goto(r, "write")
    /\ UNCHANGED <<locks, schedule, slots, ledger, network, operators, faults>>

\* The persisted row is `broadcasting`: its signature turns out confirmed.
\* (When the probe fails, the step goes on as if there were no signature.)
ProbeConfirms(r) ==
    /\ pc[r] = "broadcast"
    /\ attempt[Plan(r)] = "broadcasting"
    /\ sigOf[Plan(r)] # 0
    /\ txState[sigOf[Plan(r)]] \in {"landed", "reverted"}
    /\ Mark(r, "confirmed")
    /\ ctx' = [ctx EXCEPT ![r].sig = sigOf[Plan(r)]]
    /\ Goto(r, "write")
    /\ UNCHANGED <<locks, schedule, slots, sigOf, network, operators, faults>>

\* No manager delegated when the context was loaded: failed, row untouched.
NotDelegated(r) ==
    /\ pc[r] = "broadcast"
    /\ ~PersistedConfirmed(r)
    /\ ~ctx[r].managed
    /\ Goto(r, "backoff")
    /\ UNCHANGED <<locks, ctx, schedule, slots, ledger, network, operators, faults>>

\* The instruction cannot be built: markAttemptFailed.
BuildFails(r) ==
    /\ pc[r] = "broadcast"
    /\ ~PersistedConfirmed(r)
    /\ ctx[r].managed
    /\ Mark(r, "failed")
    /\ Goto(r, "backoff")
    /\ UNCHANGED <<locks, ctx, schedule, slots, sigOf, network, operators, faults>>

\* Instruction built, status `signing`.  The kill switch is not consulted.
Sign(r) ==
    /\ pc[r] = "broadcast"
    /\ ~PersistedConfirmed(r)
    /\ ctx[r].managed
    /\ Mark(r, "signing")
    /\ Goto(r, "send")
    /\ UNCHANGED <<locks, ctx, schedule, slots, sigOf, network, operators, faults>>

\* A transaction with a fresh signature enters the network.
Submit(r) ==
    /\ sent < MaxTx
    /\ sent' = sent + 1
    /\ txPlan' = [txPlan EXCEPT ![sent + 1] = Plan(r)]
    /\ txState' = [txState EXCEPT ![sent + 1] = "flight"]
    /\ UNCHANGED <<chain, onChain>>

\* sendTransaction returns the signature.
Send(r) ==
    /\ pc[r] = "send"
    /\ Submit(r)
    /\ ctx' = [ctx EXCEPT ![r].sig = sent + 1]
    /\ Goto(r, "record")
    /\ UNCHANGED <<locks, schedule, slots, ledger, operators, faults>>

\* sendTransaction throws; the transaction may be under way all the same.
SendFails(r) ==
    /\ pc[r] = "send"
    /\ Submit(r) \/ UNCHANGED network
    /\ Mark(r, "failed")
    /\ Goto(r, "backoff")
    /\ UNCHANGED <<locks, ctx, schedule, slots, sigOf, operators, faults>>

\* Status `broadcasting`, with the signature.
Record(r) ==
    /\ pc[r] = "record"
    /\ Mark(r, "broadcasting")
    /\ sigOf' = [sigOf EXCEPT ![Plan(r)] = ctx[r].sig]
    /\ Goto(r, "confirm")
    /\ UNCHANGED <<locks, ctx, schedule, slots, network, operators, faults>>

\* That update throws: caught like a failed send, whatever was sent.
RecordFails(r) ==
    /\ pc[r] = "record"
    /\ Fault
    /\ Mark(r, "failed")
    /\ Goto(r, "backoff")
    /\ UNCHANGED <<locks, ctx, schedule, slots, sigOf, network, operators>>

\* Mutant: confirmTransaction is not awaited.
ConfirmUnseen(r) ==
    /\ pc[r] = "confirm"
    /\ Goto(r, "mark")
    /\ UNCHANGED <<locks, ctx, schedule, slots, ledger, network, operators, faults>>

\* confirmTransaction resolves once the transaction is in a block.  Its value
\* carries the transaction's error, which the code does not read.
Confirm(r) ==
    /\ pc[r] = "confirm"
    /\ txState[ctx[r].sig] \in {"landed", "reverted"}
    /\ Goto(r, "mark")
    /\ UNCHANGED <<locks, ctx, schedule, slots, ledger, network, operators, faults>>

\* Mutant: a failed confirmation is taken for a success.
ConfirmFailsUnseen(r) ==
    /\ pc[r] = "confirm"
    /\ Mark(r, "failed")
    /\ Goto(r, "write")
    /\ UNCHANGED <<locks, ctx, schedule, slots, sigOf, network, operators, faults>>

\* It times out or the RPC fails, whatever becomes of the transaction.
ConfirmFails(r) ==
    /\ pc[r] = "confirm"
    /\ Mark(r, "failed")
    /\ Goto(r, "backoff")
    /\ UNCHANGED <<locks, ctx, schedule, slots, sigOf, network, operators, faults>>

MarkConfirmed(r) ==
    /\ pc[r] = "mark"
    /\ Mark(r, "confirmed")
    /\ Goto(r, "confirmed")
    /\ UNCHANGED <<locks, ctx, schedule, slots, sigOf, network, operators, faults>>

\* The step returns; what it returns may be lost.
ReturnConfirmed(r) ==
    /\ pc[r] = "confirmed"
    /\ Goto(r, "write")
    /\ UNCHANGED <<locks, ctx, schedule, slots, ledger, network, operators, faults>>

-----------------------------------------------------------------------------
(* finalizeSuccessStep, finalizeFailureStep and the `finally`.             *)

Succ(n) == IF n < MaxTotal THEN n + 1 ELSE n

\* One UPDATE per slot, in slot order, outside any transaction.
WriteSlot(r) ==
    /\ pc[r] = "write"
    /\ ctx[r].cursor <= N
    /\ slots' = [slots EXCEPT ![ctx[r].cursor] = Plan(r)[ctx[r].cursor]]
    /\ ctx' = [ctx EXCEPT ![r].cursor = @ + 1]
    /\ UNCHANGED <<locks, pc, schedule, ledger, network, operators, faults>>

\* Mutant: the row's own counter is incremented (SET total = total + 1).
AdvanceInPlace(r) ==
    /\ pc[r] = "write"
    /\ ctx[r].cursor > N
    /\ total' = Succ(total)
    /\ nextRun' = IF ctx[r].total = 0 THEN RampUp ELSE Cadence
    /\ ctx' = [ctx EXCEPT ![r].counted = TRUE]
    /\ Goto(r, "audit")
    /\ UNCHANGED <<locks, slots, ledger, network, operators, faults>>

\* The schedule moves on by the ramp-up rule, from the total of the context.
Advance(r) ==
    /\ pc[r] = "write"
    /\ ctx[r].cursor > N
    /\ total' = Succ(ctx[r].total)
    /\ nextRun' = IF ctx[r].total = 0 THEN RampUp ELSE Cadence
    /\ ctx' = [ctx EXCEPT ![r].counted = TRUE]
    /\ Goto(r, "audit")
    /\ UNCHANGED <<locks, slots, ledger, network, operators, faults>>

\* The audit row of either outcome; it may still throw.
Audit(r) ==
    /\ pc[r] \in {"audit", "note"}
    /\ Goto(r, "leave")
    /\ UNCHANGED <<locks, ctx, schedule, slots, ledger, network, operators, faults>>

\* Mutant: a failure leaves next_run_at in the past.
BackOffForgotten(r) ==
    /\ pc[r] = "backoff"
    /\ Goto(r, "note")
    /\ UNCHANGED <<locks, ctx, schedule, slots, ledger, network, operators, faults>>

\* finalizeFailureStep: try again in an hour; slots and total stay.
BackOff(r) ==
    /\ pc[r] = "backoff"
    /\ nextRun' = Backoff
    /\ Goto(r, "note")
    /\ UNCHANGED <<locks, ctx, total, slots, ledger, network, operators, faults>>

\* The schedule lock is released in the `finally`.
Leave(r) ==
    /\ pc[r] = "leave"
    /\ Sched!Release(r)
    /\ ctx' = [ctx EXCEPT ![r] = NoContext]
    /\ Goto(r, "unroot")
    /\ UNCHANGED <<rootOwner, rootIn, schedule, slots, ledger, network,
                   operators, faults>>

-----------------------------------------------------------------------------
(* Failures.                                                               *)

\* Where an execution whose schedule step failed goes on: the engine runs the
\* step again from its start, or gives up and the root workflow ends.
Resume(r) == \E l \in {"ready", "unroot"} : Goto(r, l)

\* A database or audit call throws: the `finally` releases the lock.
Throw(r) ==
    /\ pc[r] \in Body \ {"leave"}
    /\ Fault
    /\ Sched!Release(r)
    /\ ctx' = [ctx EXCEPT ![r] = NoContext]
    /\ Resume(r)
    /\ UNCHANGED <<rootOwner, rootIn, schedule, slots, ledger, network, operators>>

\* The function dies, or its release fails: the lock key stays behind.
Crash(r) ==
    /\ pc[r] \in Body
    /\ Fault
    /\ Sched!Abandon(r)
    /\ ctx' = [ctx EXCEPT ![r] = NoContext]
    /\ Resume(r)
    /\ UNCHANGED <<rootOwner, rootIn, schedule, slots, ledger, network, operators>>

\* The claim of a lock is executed but its answer is lost.
ClaimLost(r) ==
    /\ Fault
    /\ \/ pc[r] = "idle" /\ Root!Orphan(r) /\ UNCHANGED <<schedOwner, schedIn>>
       \/ pc[r] = "ready" /\ Sched!Orphan(r) /\ UNCHANGED <<rootOwner, rootIn>>
    /\ UNCHANGED <<pc, ctx, schedule, slots, ledger, network, operators>>

\* The step a label belongs to.
StepStart(l) ==
    CASE l \in {"broadcast", "send", "record", "confirm", "mark", "confirmed"}
           -> "broadcast"
      [] l \in {"write", "audit"} -> "write"
      [] l \in {"backoff", "note"} -> "backoff"
      [] OTHER -> l

\* Where steps are durable the engine repeats just the step that failed, with the
\* arguments it had ("at-least-once", rebalanceBps-helpers.ts:364).
Reexecute(r) ==
    /\ pc[r] \in Body
    /\ Fault
    /\ ctx' = [ctx EXCEPT ![r].cursor = 1]
    /\ Goto(r, StepStart(pc[r]))
    /\ UNCHANGED <<locks, schedule, slots, ledger, network, operators>>

\* The root workflow has no bound on its duration, its lock has.
RootLapse ==
    /\ Root!Lapse
    /\ UNCHANGED <<schedOwner, schedIn, pc, ctx, schedule, slots, ledger, network,
                   operators, faults>>

\* The schedule lock's 30 minutes exceed the time one function may run, so it
\* lapses under an execution only where LeaseMayLapse says so.
SchedLapse ==
    /\ LeaseMayLapse \/ schedOwner \notin schedIn
    /\ Sched!Lapse
    /\ UNCHANGED <<rootOwner, rootIn, pc, ctx, schedule, slots, ledger, network,
                   operators, faults>>

-----------------------------------------------------------------------------
(* The chain, the snapshots, the operators and the clock.                  *)

Resolve(i, fate) ==
    /\ txState[i] = "flight"
    /\ txState' = [txState EXCEPT ![i] = fate]
    /\ UNCHANGED <<locks, pc, ctx, schedule, slots, ledger, operators, faults,
                   sent, txPlan>>

\* manager_update_fee_config takes effect.
Land(i) ==
    /\ Resolve(i, "landed")
    /\ chain' = txPlan[i]
    /\ onChain' = onChain \cup {txPlan[i]}

\* It is in a block, but failed; or its blockhash expired.
Fall(i) ==
    /\ Resolve(i, "dropped") \/ Resolve(i, "reverted")
    /\ UNCHANGED <<chain, onChain>>

\* takeSnapshot freezes a leaderboard.
Freeze(p) ==
    /\ frozen < MaxSnapshots
    /\ p # snapshot
    /\ snapshot' = p
    /\ frozen' = frozen + 1
    /\ UNCHANGED <<locks, pc, ctx, schedule, slots, ledger, network, delegated,
                   faults>>

\* confirmManagerDelegation.
Delegate ==
    /\ ~delegated
    /\ delegated' = TRUE
    /\ UNCHANGED <<locks, pc, ctx, schedule, slots, ledger, network, snapshot,
                   frozen, faults>>

\* An hour passes.  A blockhash lives for about a minute, so transactions in
\* flight are settled first.
Tick ==
    /\ nextRun > 0
    /\ \A i \in 1..MaxTx : txState[i] # "flight"
    /\ nextRun' = nextRun - 1
    /\ UNCHANGED <<locks, pc, ctx, total, slots, ledger, network, operators, faults>>

-----------------------------------------------------------------------------

\* What an execution does when nothing goes wrong with it.
Step(r) ==
    \/ SelectDue(r) \/ Finish(r) \/ Enter(r) \/ EnterRefused(r)
    \/ Load(r) \/ LoadNothing(r) \/ ReserveConfirmed(r) \/ Reserve(r)
    \/ AlreadyConfirmed(r) \/ ProbeConfirms(r) \/ NotDelegated(r) \/ BuildFails(r)
    \/ Sign(r) \/ Send(r) \/ SendFails(r) \/ Record(r) \/ RecordFails(r)
    \/ Confirm(r) \/ ConfirmFails(r) \/ MarkConfirmed(r) \/ ReturnConfirmed(r)
    \/ WriteSlot(r) \/ Advance(r) \/ Audit(r) \/ BackOff(r) \/ Leave(r)

Environment ==
    \/ \E i \in 1..MaxTx : Land(i) \/ Fall(i)
    \/ \E p \in MeritPlans \cup {NoSignal} : Freeze(p)
    \/ Delegate
    \/ Tick
    \/ RootLapse
    \/ SchedLapse

Next ==
    \/ \E r \in Runs :
          \/ Start(r) \/ Step(r)
          \/ Throw(r) \/ Crash(r) \/ ClaimLost(r) \/ Reexecute(r)
    \/ Environment

Spec == Init /\ [][Next]_vars

\* The cron keeps firing, executions that started go on until they fail, and
\* dead locks expire.
FairSpec ==
    /\ Spec
    /\ WF_vars(\E r \in Runs : Start(r))
    /\ \A r \in Runs : WF_vars(Step(r))
    /\ WF_vars(RootLapse) /\ WF_vars(SchedLapse)

-----------------------------------------------------------------------------
(* Properties.                                                             *)

\* At most one execution is between the schedule lock's acquire and release,
\* whatever lapses, crashes and repeated steps came before.
SingleExecution ==
    \A r, s \in Runs : pc[r] \in Body /\ pc[s] \in Body => r = s

\* The mirror of the claimer weights only ever takes weights from the launch
\* or from a plan whose attempt is confirmed; a run that failed, or only
\* half-way mirrored its plan, leaves nothing else behind.
MirrorFollowsLedger ==
    \A i \in 1..N :
        \/ slots[i] = LaunchPlan[i]
        \/ \E p \in Plans : attempt[p] = "confirmed" /\ slots[i] = p[i]

\* The chain has held the plan, or a transaction for it failed on chain.
InABlock(p) ==
    p \in onChain \/ \E i \in 1..MaxTx : txPlan[i] = p /\ txState[i] = "reverted"

\* A plan is recorded as confirmed only if a transaction for it is in a block:
\* the chain has held the plan, or one of its transactions failed on chain.
\* The second case is there because neither the confirmation nor the probe of
\* an earlier signature reads value.err (rebalanceBps-helpers.ts:478, 400).
ConfirmedWasInABlock ==
    \A p \in Plans : attempt[p] = "confirmed" => InABlock(p)

\* The ledger knows every transaction, even one whose sender died at once
\* ("Reserved before signing", db/schema/bags-fee-share.ts).
LedgerCoversNetwork == \A i \in 1..sent : attempt[txPlan[i]] # "none"

\* No retry, reset or late failure takes a confirmation back.
ConfirmedIsFinal ==
    [][\A p \in Plans : attempt[p] = "confirmed" => attempt'[p] = "confirmed"]_vars

\* An execution moves the schedule on.
Counts(r) == pc[r] = "write" /\ pc'[r] = "audit"

\* Each pass through processScheduleRebalance counts one rebalance and only one:
\* what it writes from the total it loaded loses no other pass's count, and the
\* final step, repeated, writes the same again.  (A pass that is run again as a
\* whole, because its audit threw, is another pass, and so is one that skips a
\* confirmed plan: next_run_at is not looked at again under the lock.)
EachPassCountsOnce ==
    [][/\ \A r \in Runs : Counts(r) =>
              total' = IF ctx[r].counted THEN total ELSE Succ(total)
       /\ (\A r \in Runs : ~Counts(r)) => total' = total]_vars

\* A schedule that is due is rescheduled in the end, by success or by backoff,
\* if its config can be updated and has slots.
DueIsServed == nextRun = 0 ~> nextRun # 0

=============================================================================
