# A formal model of GitShipt

GitShipt (a Next.js application with Vercel crons and durable workflows,
Postgres through Drizzle, Upstash Redis, the Bags API and Solana) launches a
token for a GitHub repository and pays its trading fees to the repository's
contributors.  This directory holds TLA+ models of the parts of it whose
correctness depends on the order of things: concurrent server functions,
functions that die half-way, calls whose answer is lost, transactions that land
late.  TLC checks the models on small instances; TLAPS proves their safety for
every value of the constants.

All paths below are relative to `src/apps/web` unless they start with `src/`.

## 1. Inventory

What runs: request handlers (server actions and API routes, any number of them
side by side), nine crons (`vercel.json`), the workflows they start (built with
Vercel's Workflow kit, whose durable steps are "at-least-once"), the user's
wallet in the browser, Bags and the chain.  The handlers share Postgres rows and Redis keys and
nothing else; a row is usually read in one statement and written in another,
without a transaction around the two.

| Component | State it keeps | Operations | What makes it correct | Modelled |
|---|---|---|---|---|
| Workflow locks, `lib/workflow-locks.ts` | a Redis key with a token and a TTL | acquire, release | leases exclude each other; only the holder or time frees the key; no key stays for ever | `Lease`, `WorkflowLock` |
| Cadence rebalance, `workflows/rebalanceBps.ts`, `workflows/steps/rebalanceBps-helpers.ts` | `payout_schedules`, `bags_rebalance_attempts`, `bags_claimer_slots`, the on-chain config | due selection, plan, reserve, sign, send, confirm, mirror, reschedule, back off | one execution at a time; ledger, mirror, count and chain agree; a due schedule is served | `Rebalance` |
| Idempotency keys, `lib/idempotency.ts` | a Redis key per call: running, result or marker | look up, claim, store, undo | one `fn` at a time; genuine replays; secrets shown once | `Idempotency` |
| Project launch, `app/(public)/launch/actions.ts`, `app/api/projects/[id]/launch/route.ts`, `lib/bags/launch-integration.ts` | the `projects` row, the fee-share mirror, tokens and configs at Bags | create, launch, complete, edit, discard | config before use; mirror belongs to the launched token; one token per repository; one submission | `Launch` |
| Operators' and owners' actions, `app/admin/actions.ts`, `app/dashboard/projects/[id]/actions.ts` | the same row | direct launch, pause, kill, promote, fee | the same | `Launch`, in part |
| Snapshots and BPS plans, `workflows/takeSnapshot.ts`, `lib/payouts/bps-plan.ts`, `lib/payouts/merkle.ts` | one frozen snapshot per project and UTC day, the slots' weights | load, freeze, allocate, mirror, prove inclusion | one snapshot per day; weights add up to 10000 and are fair to the scores; plans do not go back | `Payout`, in part; a plan is a value in `Rebalance` |
| Cosigned admin actions, `lib/auth/destructive-action.ts` | `pending_admin_actions`, audit rows | request, renew, approve, resume, execute, expire | two persons; one open row per request; what is recorded happened | `AdminAction` |
| Partner fee claims, `lib/funds/partner-fee-claims.ts`, `workflows/claimPartnerFees.ts` | `partner_fee_claim_attempts` | reserve, claim, sign, confirm, review | one sender per attempt; the kill switch stops it; every confirmed transaction is on record | `PartnerClaim` |
| GitHub indexing, `workflows/indexProjectDeltas.ts` | a cursor and `contributors` rows | fetch since the cursor, aggregate, upsert, move the cursor | a failed run loses nothing | `Leaderboard` |
| Leaderboard and bot flags, `workflows/computeLeaderboard.ts`, `workflows/revalidateBotFlags.ts` | scores, ranks, exclusions | score, rank, exclude | ranks follow scores; a quiet board settles | `Leaderboard`, without the formula |
| Console refresh of contributors, `lib/queries/refresh-contributors.ts` | the same rows | list, write rows with their ranks, demote the others | a refresh leaves the board sorted, alone or not for long | `Leaderboard` |
| Audit log, `lib/audit.ts`, `db/migrations/0016_audit_hash_chain.sql`, `lib/audit-chain.ts` | rows chained by hash | append, verify page by page | an honest log is one chain; silence vouches for what was read | `AuditChain` |
| DexScreener orders, `app/dashboard/projects/[id]/dexscreener-actions.ts`, `components/bags/DexscreenerOrderDialog.tsx` | `dexscreener_orders`, two idempotency keys | create, pay, submit, cancel | one page is bought; a payment is submitted once; the row ends as Bags has it | `DexscreenerOrder` |
| Webhooks, `app/api/webhooks` | `webhooks_inbox` | store once, follow up | every delivery is handled once | no |
| Kill switch and trading halts, `lib/kill-switch.ts`, `lib/trading-controls.ts` | a Redis key, a column | throw, read | no signing while it is on | a variable of `PartnerClaim`; no other module's code reads it |
| Trading and incorporation | one row each | call Bags | the states are Bags' | no |
| Sessions, MFA, wallets, API keys, `lib/auth` | sessions, nonces, factors | look up, verify | cryptography and lookups; their secrets are `Idempotency`'s | no |
| Fund reconciliation, KPIs, health | one report row or event per run | read, report | nobody reads them back | no |
| Bags and Solana clients, `lib/bags`, `lib/solana` | none | build, check, send transactions | how a call fails is in the module that makes it | no |
| Feed, caches, queries, rate limits, pages, shared schemas | none that others decide on | read, render | — | no |

How they interact: a launch leaves the mirror (config, claimer slots, payout
schedule) the rebalance starts from; indexing feeds the leaderboard, the
leaderboard the snapshot, the snapshot the rebalance's plan; the rebalance, the
indexer and the partner claims run under workflow locks, the handlers, the
DexScreener orders and what a cosigned action does under idempotency keys;
everything writes audit rows.  The models meet at these seams: `Lease` is what
`WorkflowLock` and every key of `Idempotency` implement and `Rebalance` uses; `Payout` takes the boards
`Leaderboard` leaves as they come and makes the plans `Rebalance` carries out;
`DexscreenerOrder` uses a key as `Idempotency` shows it to behave; and
`PartnerClaim` lets executions overlap as if neither the workflow's lock nor the
console's cosign were there.

The hard parts are listed, with the line where they bite, under `hazards` in
`PROJECT.json`; where no property covers one, or a property names an exception,
the note says why.

## 2. The modules and the code

### Lease, WorkflowLock

`WorkflowLock` is `lib/workflow-locks.ts`: `Acquire` is the granted
`SET key token NX EX ttl`, `Release` the compare-and-delete script, and around
them what goes wrong: a SET that is executed and whose reply is lost
(`AcquireLost`), Redis errors, executions that die inside (`Abandon`), expiry
(`Tick`).  A token is a number drawn in order.  `age` is a history variable:
how long an execution has held its grant.

`Lease` is what the callers may rely on, with the clock hidden: `owner` and
`inside`.  `ImplementsLease` says that `WorkflowLock` refines it, with tokens
as the users; `Rebalance` is built on two instances of `Lease` (root and
schedule) instead of two copies of the clock.

### Rebalance

One schedule of one project.  The labels in `pc` follow
`processScheduleRebalance`: `load` (context and plan), `reserve` (attempt row),
`broadcast` … `confirmed` (the single step `buildSignAndBroadcastStep`, whose
labels are its awaits), `write`, `audit` (`finalizeSuccessStep`), `backoff`,
`note` (`finalizeFailureStep`), `leave` (the `finally`).  `attempt[p]` and
`sigOf[p]` are the attempt rows by `plan_hash`.  A transaction is a number;
`Land` and `Fall` decide its fate at any time, also after its sender gave up.
`Freeze` is a new snapshot: a plan, or `NoSignal` when no slot's claimer has a
score.  `LoadNothing` is a config that is locked, finalized or has no slots, which
ends the execution without a trace (`MayLackContext`).  Failures: `Throw` (a
database or audit call throws, the `finally` runs),
`Crash` (it does not), `ClaimLost`, and `Reexecute`, the engine repeating one
step with the arguments it had.  `MaxFaults` counts them.

Left out: the stub mode of development, the choice of 20 schedules per tick, and
the kill switch, which no step reads.  A slot's weight is one of three values
instead of 0..10000; no property depends on the sum.

### Idempotency

Calls of `withIdempotency` over a few cache keys, one Redis command per action.
Each key belongs to an endpoint with one of three result policies: cached,
secret (`cacheResult: false`), and void (`fn` returns nothing, which
`JSON.stringify` drops from the envelope, so the replay is refused).  `SaveLost`
is the case that decides most properties: the result is stored, the reply is
lost, and the catch block deletes a result that another call may have replayed
in between.  `KeysAreLeases` relates each key to `Lease`: the call that wrote the
key owns it, a call is inside from its claim until it has stored its result or
deleted the key.  A lost claim is a key without a holder (`Lease`'s `Orphan`),
`Undo` frees the key (`Release`), and a stored result is a lease its holder left
without freeing it (`Abandon`), which is why the next call waits for a day.

### Launch

One repository.  `row` is its `projects` row (`id` distinguishes the rows that
follow each other after a delete), `mirror` the record `recordLaunch` inserts,
`shares[m]` the treasury's part in the fee-share config of token `m`.  A call
walks through `pc` and keeps in `ctx` what it read; every handler is an entry:
`wizard` and `route` (`createAndLaunchAction`, the API route), `complete`,
`direct` (`directLaunchProject`), `edit`, `discard`, `pause`, `kill`, `promote`.
`Here(c)` is the `WHERE id = ...` of each UPDATE.  The two withIdempotency keys
that `directLaunchProject` derives from the project are `keyedMint` and
`keyedSend`; the keys the callers send are fresh for each click, so the
outermost withIdempotency is no constraint and is not modelled.  `Complete` asks
nothing of the chain, as `completeLaunchAction` does not.  `Stop` ends a call anywhere; it also stands for a step that is refused.

Left out: delegation of the config's manager after a launch, the stub's
simulated launches, permissions and rate limits, the columns a launch does not
write.

### AuditChain

`audit()` inserts in a transaction: `Begin` fixes `created_at` (its default is
`now()`, the transaction's begin), `Lock` is the trigger waiting for
`pg_advisory_xact_lock` and reading the newest row's `entry_hash`, `Commit` stores
the row and frees the lock, `Abort` fails anywhere.  Time is a rank by
`(created_at, id)`, the order the trigger and the verifier both read in
(`InOrder`), and a hash is the sequence of what was hashed into it: SHA-256 is taken to have no
collisions, and nothing else about it.  `Edit` and `Delete` are what somebody
with the database does.  `StartSweep` and `ReadPage` are
`runAuditChainVerification`, one page per step, with the cursor cut to
milliseconds (`Cut`), and `walk` what it has hashed, with the row of each, so that
a row it read twice shows.  `forked`, `tampered` and `stale` are history.  Left out:
the backfill of the migration and the row policies.

### AdminAction

One row of `pending_admin_actions` per request fingerprint; a call of
`destructiveAction` walks from `find` (is there an open row?) over `renew` or
`insert` for the requester, or `read`, `expire`, `approve`, `note` for the
approver, to `body`, `complete`, `close` and `fail`.  Each is a statement or an
audit row of its own and may throw or be the last (`Stop`).  `Lapse` is the hour
that passes.  The body takes effect or throws, also after it took effect.
`performed` and `noted` are history: which call did what under which row.  Left
out: the checks that refuse a call and change nothing, and what the body does.

### PartnerClaim

An attempt is a row found by its idempotency key; an execution is a call of
`executePartnerFeeClaimAttempt`: `Begin` reads the kill switch, `Claim` is the
UPDATE to `sending`, `List` … `Confirm` the loop over what Bags lists, `Check` its
look at the switch, `ReadBefore` and `ReadAfter` the fees whose difference decides
between succeeded and review, `Write` the last update inside the `try`, `Catch` the
clause after it.  `Throw` is any failing call, `Die` the death of the function,
`Settle` the chain processing a transaction late, with an effect on fees or
without; `moved` has those with one, and `mixed` the executions another's effect
fell between the two looks of.  `Toggle` is `toggleKillSwitch` of
`app/admin/actions.ts`.  `late` counts an execution's transactions since the switch went on;
`calm` says that it was never on and that no answer to an update was lost.

### Leaderboard

One project.  The indexer (`ix`) is one process, for its lock lets one in:
`Begin` (cursor), `Fetch` (with the all-time list when there is nothing new),
`Upsert` (which replaces the inputs of who it fetched), `Mark` (the cursor becomes
the time of this step), `Start`.  A computation is `Load`, `WriteScore` row by row,
`Assign`; `Recompute` is the console's button.  `ReadPage` and `Reclassify` are the
revalidation of bot flags.  `List`, `WriteRow`, `Demote` are the console's
`refreshProjectContributors`: a list that may be old or missing, one upsert per row
with its score and rank, and the others' ranks to null.  `IndexFails`,
`ComputeFails` and `RefreshDies` end a run for good anywhere; `MaxUpsets` bounds
failures and refreshes together.

An activity is a person and a date: that of the merge, or a commit's own, which may
lie before the time it reaches the branch (`Act(p, d)`); `since` filters by it.  A
score is the count of activities: the weights and caps of `lib/scoring/v0.ts` are
left out, since no step decides on them.  History: `from[p]` is the cursor the
inputs of `p` were fetched from, `late` the activities no fetch can have seen, and
`torn` says that the last ranking has been disturbed.

### Payout

`Load`, `Stamp`, `Insert` are `takeProjectSnapshot`; `Repeat` the engine executing
the freeze again, with a new look at the clock; two snapshots overlap (a lock may
lapse) and `Midnight` passes between any two steps.  `Allocate` is
`allocateBpsByScore` for every vector of scores, in exact fractions where the code
has doubles.  `MakePlan`, `WriteSlot`, `Drop` and `Die` are the rebalance as far as
it touches weights; what it does on chain is `Rebalance`.  Left out: the Merkle
root and tier weights (no rebalance reads them), forced periods, the feed digest.

### DexscreenerOrder

A visit is one run of the dialog's `handleSubmit`, through three server actions and
the wallet: `Ask` (the create key), `Guard`, `Request` (Bags), `Insert` (which the
partial unique index may refuse), `Answer`; `Pay` or `WalletThrows`; `Read`, `ClaimSubmit`,
`Accept` or `Refuse`, `MarkPaid` or `MarkFailed`, `Store`; `CancelRead`, `Close`.
`CreateThrows`, `SubmitThrows` and the lost answers inside `Insert` and `Accept` are
its failures, `UndoCreate` and `Release` the deletion of a key by `withIdempotency`, `Quit` a
closed tab or a dead function, the two `Lapses` a key's day.  A create key is its
header image, of one user: another user's key is another image.  History:
`asked`, `reopened`, `failedSent`; `lost`, the orders on which a call, an answer or a
visit got lost; `raced`, those cancelled by id under a submission or after they were
paid.  Left out: stub orders and the checks
before the key is taken.

## 3. Runs

| Run | Question | Bounds | Distinct states |
|---|---|---|---|
| `lock` | does the lock exclude, and does no key stay | 3 executions, TTL 2, 4 tokens | 28 thousand |
| `rebalance` | single-flight, and agreement of ledger, mirror, count and chain | 2 executions, 2 slots, a merit plan, 2 transactions that land, fail or expire, 2 snapshots, 1 fault | 1.8 million |
| `rebalance_live` | is a due schedule rescheduled in the end | the same with 1 transaction, and a config that can be updated | 375 thousand |
| `idempotency` | exclusion, genuine replays, secrets, standing answers; is each key a lease | 4 calls, 2 keys, every policy | 45 thousand |
| `launch` | config first, one submission, final mirror | 4 calls of 9 handlers, 2 rows, 2 tokens, 2 submissions and 2 throws per token | 741 thousand |
| `launch_mirror` | the mirror records the treasury's cut | 4 calls, 1 row | violated, 9 steps |
| `audit` | is an honest log one chain, what do reports and silence mean, do verifications end | 2 writers, 4 rows, pages of 2, 2 ranks per millisecond | 467 thousand |
| `admin_action` | two persons, one open row, standing approvals, true rows | 4 calls, 3 admins of whom 2 super, 3 requests of which 1 plain, 2 rows | 1.9 million |
| `partner_claim` | one sender, the switch stops, rows are true, nothing confirmed is forgotten | 3 executions, 2 attempts, 2 transactions each, 2 lamports, the second while an execution has not begun | 3.1 million |
| `leaderboard` | do ranks follow scores, do failures lose anything, does the board settle | 2 people and an agent, 2 computations, 1 tick, 1 activity, 1 failure or refresh, with none of them where the agent turns up | 510 thousand |
| `payout` | whole and fair weights, plans that do not go back | 2 snapshots, 4 slots, 5 boards, every vector of scores up to 5, 2 days, 1 fault | 384 thousand |
| `dex_order` | one page, one submission, rows as Bags has it | 3 visits, 2 images, 3 orders | 440 thousand |

Why the bounds are enough for what the runs say: every property relates at most
two executions (or calls), and a third or fourth one provides the state they
meet in: the lock's third execution claims what an overrunning one lost; the
fourth launch call is what makes configured, mirrored and deleted-again rows
possible before two calls race; the fourth admin call is the second approver of
a renewed row; the third visit makes an order while two others dispute one that
was cancelled.  A snapshot with scores and then one without, and two transactions,
give a late landing under a different plan, and a plan that preserves what a
rebalance that died left of two; two transactions of a claim are one that is
confirmed and one that fails; pages of two rows over four make a full page, a
cut inside a millisecond and a page after it; one fault reaches every failure
action in every place, and a fault's consequences are followed to the end.
The two bounds that couple things (`Apart` in
`MCPartnerClaim` and `MCLeaderboard`) stop only steps of the environment, none that
is fair: three executions overlap over one lamport and two over two; the agent
meets computations, the failures and the refresh meet people.  Every action fires
in a passing run.  The theorems below remove the bounds altogether for safety.

Each property has a mutant, an operator next to the definition it changes, that
breaks the property in the same run: it shows that the run would notice.
The type invariants are theorems and are not run again (but for `Payout`'s, which
also says that a day has one row), nor is `ConfirmedIsFinal` of `Rebalance`.
Symmetry is used over executions, calls, visits, keys and images, never in a run
with liveness.  Deadlock is not checked: bounded tokens, calls, rows, orders and
transactions run out.

## 4. Fairness

`lock` assumes only that Redis' clock goes on; an execution may stop anywhere
for ever.  `rebalance_live` assumes that the cron keeps starting executions
(`*/15` in `vercel.json`), that an execution which is neither thrown out nor
dead goes on (its awaits resolve or throw), and that dead locks lapse
(their TTL).  It assumes nothing of transactions, snapshots, operators or the
`Tick` of the schedule; faults are bounded, since a rebalance that fails every
time is never served.

`audit` assumes that a verification that is running reads its next page (the
function is given the time its cron grants it) and nothing of writers; that fewer
rows than a page are stamped in one millisecond is the named assumption
`ResAssumption`, without which the loop reads one page for ever.  `leaderboard` assumes
that the indexer is started again and goes on, and that each computation goes on
(the engine repeats a step until it fails for good, which `MaxUpsets` bounds); it
assumes nothing of the clock, GitHub, the revalidation or the console, whose
refresh may stop anywhere.  `ApartSpec` of `MCLeaderboard` has the fairness of
`FairSpec`.

## 5. Theorems

For every value of the constants, under the named assumptions on them.

* `WorkflowProofs`, on the lock: `TypeCorrect`; `HolderSafe` (`HolderKeepsKey`);
  `LockIsExclusive` (`MutualExclusion`, which follows from it: two leases in
  time would hold one key with two tokens); `LockImplementsLease`, the
  refinement, step by step.  The invariant adds that a stored key has time left,
  that tokens were drawn before they are used and that no two executions inside
  share one.
* `WorkflowProofs`, on `Payout`: `LargestRemaindersFair` (`AllocatesFairly`), for every
  number of slots and every score with a positive sum: the weights add up to
  10000, a slot is within one point of its exact share, a higher score never
  gets less, and a score of zero gets nothing.  It rests on the remainder being at
  most the number of slots whose exact share is no whole number, and on ranks being a numbering of the slots, so
  that exactly as many slots as the remainder says have a rank below it.  Then
  `PayoutTypeCorrect`, `PointsAddUp` (`AlwaysWhole`), `PlansAreFair` (`SharesAreFair`)
  and `PlansMoveOn` (`NeverBackwards`); the invariant (`PayoutIInv`) adds that a
  snapshot under way has its board and day (`Frozen`), that the last plan was made
  from a row (`BasisKept`), and that the mirror holds the plan as far as it is
  written (`Mirrored`).  The sums over slots are folds over a set: `SumsOf` shows
  that the recursion they are defined by has a solution, and `SubsetInductive` is
  induction over the subsets of a finite set for a given *set* of them, which the
  library's well-foundedness of the naturals gives without an operator parameter.
* `RebalanceProofs`: `TypeCorrect`; `OneExecution` (if the lease outlasts the
  body, `~LeaseMayLapse`): being in the body means being inside and owning the
  schedule lease; `LedgerIsComplete`, without any assumption on leases, from
  "a call past `reserve` has its row"; `ConfirmedPlansWereInABlock`
  (`ConfirmedWasInABlock`), without any assumption on leases or on what the chain does with a
  transaction, from: signatures in memory and in rows are of transactions of the
  same plan (`OwnSignature`, `RowSignature`), and a landed transaction's plan was on
  chain (`LandedOnChain`).  Its exception, a transaction that failed in a block, is the
  code's: `value.err` is not read.  Again under `~LeaseMayLapse`, `ConfirmationIsFinal` and
  `MirrorIsConfirmed` (while an execution sends and confirms, its plan's row is not
  confirmed; while it mirrors, it is) and `TotalIsCounted` (`EachPassCountsOnce`): by
  `TotalInv` the schedule's total is what the execution loaded, or its successor once
  the execution has counted, so that it overwrites nobody's count and a repeated
  last step writes the same again.
* `IdempotencyProofs`: `TypeCorrect`, `ExclusiveFn`, `GenuineReplay`,
  `SecretOnce`, `AnswerStands`.  The invariant says who holds a key: a call past
  its claim wrote what is stored, every stored result is by a call with that key
  which took effect, and an answer that stands is stored by a call that is over.
  `KeysImplementLeases` (`KeysAreLeases`) is the refinement of `Lease` by each key,
  step by step: a step of a call with another key is a stutter, since neither
  the store nor the holders of this one change.
* `IdempotencyProofs`, on `DexscreenerOrder`: `OrderTypeCorrect`; `PageBoughtOnce`
  (`OneListing`: the orders Bags took the payment of are one, but for those whose row
  was marked failed after their payment was sent), `NoSecondSubmission` (`AskedOnce`: a
  payment is told of again only under a key that was reopened, because a submission
  threw or its day was over) and `RowsMatchBags` (`BooksMatch`: of an order nobody is
  busy with, on which nothing got lost and no cancel by id met a submission or a
  payment), for every number of visits, images and orders.  The invariant (`OrderIInv`): an
  order without a row is known to the visit that made it only (`Unlisted`); what
  Bags is told of was paid, and its row is active unless it was marked failed
  afterwards (`Paid`); one row is active, and what Bags accepted has it, with that
  exception (`Listed`); while no submission threw or died, one visit is in it and
  its key says so, and a key that was answered or lapsed is of an order nobody
  can submit again (`Exclusive`); a row on which nothing was lost and no
  cancel met a submission (`raced`) is as Bags has it, or some visit is still at it
  (`Books`).
* `LaunchProofs`: `TypeCorrect`; `ConfigComesFirst` (`SharesComeFirst`), from the
  fact that the token of a call past `createFeeShareConfig` has its config;
  `OneSubmission` (`SubmittedOnce`), from counting: while a token's key is free,
  its submissions do not exceed those that threw, and one call at most is
  submitting under the key; `MirrorStays` (`MirrorIsFinal`).

* `AuditChainProofs`: `TypeCorrect`; `LogIsAChain` (`ChainIsTotal`), for every number of
  writers and rows and every page size, from: the lock is held exactly by who is
  about to insert, the times of rows and open transactions differ, and what was
  read under the lock is the tip.  `NoFalseReport` (`ReportsHaveACause`): an honest
  chain hashes into each row all rows before it (`Linked`), so that a walk which
  has hashed exactly the rows up to its cursor (`CaughtUp`) expects what it reads.
  The log was tampered with, was forked, or this very walk hashed a row twice
  (`ReadTwice`): a long log, or a full millisecond somewhere in it, is no cause.  `SilenceIsTrue` (`SilenceVouches`): while a walk is
  silent, each prefix of it is the hash in the row it ends with (`Vouched`), whatever
  was done to the log before.  Both rest on lemmas about listing a set of times
  in order (`ListConcat`, `ListAppend`, `ListUpTo`).
* `AdminActionProofs`: `TypeCorrect`; `TwoPersonsActed`; `OneRowIsOpen`; `RecordsHold`;
  `ApprovalIsFinal`.  The invariant goes along a call: a caller about to approve read
  another's request for the same thing (`ReadByAnother`), from there on the row is
  approved by the caller and the approval is on record (`ApprovedInHand`), past the body
  the body took effect (`BodyBehind`); rows keep their requester and fingerprint.
* `PartnerClaimProofs`: `TypeCorrect`, which needs that the loop stays within the list;
  `OneSends` (in calm the row's status is a lock: `RowIsLock`); `SwitchStops`
  (`SwitchSeen`: none is out by an execution about to sign); `RecordsHold`
  (`RecordsAreTrue`): what an execution has pushed is processed (`Fits`), and if it finds
  more claimed than before, one of its own transactions moved fees or another's did
  between its looks (`Measures`; `Earned` is the arithmetic of fees this takes), which is
  why it counts for the row it then writes; `AnswersAreRecorded`, an action property.
* `LeaderboardProofs`: `TypeCorrect`, with the bound that no row claims more than its
  person did; `RanksFollow` (`SortedAtRest`): whoever writes a score ranks after it or
  fails (`Ranked`), and where nobody else ranks, the rows a refresh has written stand
  as it wrote them (`Solo`, `Listing`); `CursorIsHonest` (`RangeIsCounted`), about the
  rows' `inputs`: they count what each person did from where the row was fetched from
  up to the cursor, except `late`; past its fetch the indexer holds what the rows have yet
  to count (`Fetched`).

TLC checked each strengthening as an invariant first.  Every invariant and every
action property of the passing runs is one of these theorems.  Only
model-checked: liveness (`KeyExpires`, `DueIsServed`, `SweepEnds`, `BoardSettles`), which
this prover does not do under fairness, and what is violated.

`WorkflowLock` and `Payout` are proved about in one module, and so are `Idempotency` and
`DexscreenerOrder`, whose keys it provides; hence the prefixes of the names
(`PayoutInit`, `OrderNext`) that would otherwise clash.

## 6. Where the code and its documents disagree

With a run, under `findings` in `PROJECT.json`: the mirror without the treasury's slot
(`launch_mirror`).

Seen while modelling.  First what the models contain: their steps do it, and a
property it would break names it as an exception.

* Workflow locks: nobody renews a lease, so an execution that overruns its TTL
  (`lib/workflow-locks.ts:60`) shares its key with the next one, although
  `workflows/rebalanceBps.ts:31` counts on a single one.
* Launch: direct launches record no mirror (`app/admin/actions.ts:502`); one repository
  can get two tokens (`app/(public)/launch/actions.ts:432`) although launches are
  "Idempotent on `(userId, ghRepoId)`" (`:96`); resuming makes any paused project live
  (`app/dashboard/projects/[id]/actions.ts:79`); a draft that has just been configured
  can be deleted (`app/(public)/launch/actions.ts:1627`); a late checkpoint takes a live
  project back to `launch_configured`; a killed project can be resumed or completed
  to live; the completion's signature is never looked up on chain (`:687`), so any
  text of 32 characters makes a project live; the fee in the row can differ from the
  one on chain after an edit that overlapped the launch; a direct launch that dies
  leaves its key running.
* Rebalance: a plan confirmed once is skipped for ever, whatever was confirmed
  since (`workflows/steps/rebalanceBps-helpers.ts:298`); the error in
  `confirmTransaction`'s value is not read (`:478`, nor by the probe at `:400`), so a
  reverted transaction is taken for a confirmed one; a preserved plan is signed and sent although nothing changes
  (`lib/payouts/bps-plan.ts:55`); paused projects are rebalanced; `total_rebalances` also
  counts plans that were skipped, and counts one twice when only the audit row of
  the step failed and the engine repeats the step.
* Idempotency: a failed SET of the result deletes the key and the next request
  runs `fn` again; a dead request's key refuses retries for a day.
* Audit log: the page cursor is cut to milliseconds (`lib/audit-chain.ts:68`), so the last row
  of a full page is read and hashed twice and reported: an honest log of one full
  page of 500 rows looks broken, although "a discrepancy implies tampering,
  replication drift, or a bug in the canonical function" (`:29`).  `created_at` is
  taken before the lock, so two overlapping inserts can fork the chain of an
  honest log.  After a break every later row is reported too (`:134` says
  otherwise).  Next to a fork a row that nothing was chained to can be deleted
  unnoticed, and so can the newest rows.
* Cosigned actions: the updates to expired, completed and failed are by id alone
  (`lib/auth/destructive-action.ts:449`): a row that lapsed may be marked expired while it is
  executed; a failed row may have been performed; an execution may run past the
  hour.
* Partner claims: overlapping attempts count the same fees as theirs; a reviewed
  attempt's signatures are overwritten when it is claimed again; an execution that
  sees the kill switch marks failed an attempt another is sending or has finished
  (`lib/funds/partner-fee-claims.ts:70`), which reopens it; an attempt whose sender died stays
  `sending` (`:76`); a first transaction whose confirmation throws is recorded as failed
  without its signature (`:132`); a lost answer to an update can reopen a finished
  attempt; `confirmTransaction`'s error is not read here either.
* Leaderboard: a run that finds nothing new takes the all-time list
  (`workflows/steps/indexProjectDeltas-helpers.ts:109`), although it is for when "the active
  scoring window has no qualifying activity at all" (`lib/github/indexer.ts:148`), and what is
  fetched replaces a row's inputs (`workflows/steps/indexProjectDeltas-helpers.ts:152`), although
  scores are of "a rolling 30-day window" (`app/(public)/docs/page.tsx:86`); the cursor is
  taken after the fetch, so what arrived in between is lost
  (`workflows/indexProjectDeltas.ts:48`); `since` filters by a commit's own date
  (`lib/github/indexer.ts:49`), so one dated before the cursor that lands later is never
  fetched; the indexer writes `excluded` as false and the revalidation sets it again, so
  accounts of AI vendors go in and out; a console refresh that overlaps a
  computation or another refresh, or stops half way, can leave equal ranks
  (`lib/queries/refresh-contributors.ts:134`).
* Payouts: a freeze repeated after midnight freezes a second day
  (`workflows/steps/snapshot-helpers.ts:186`) although "retries cannot create duplicate payout
  candidates" (`:174`); a rebalance that dies while it mirrors, followed by snapshots
  without scores, preserves a mixture that need not add up to 10000 although
  "Sum is exactly 10000" (`lib/payouts/bps-plan.ts:34`); two slots of one contributor
  count the score twice.
* DexScreener orders: after a wallet error the order is cancelled "so the user can
  immediately retry" (`components/bags/DexscreenerOrderDialog.tsx:126`), but a retry with the same
  header image replays the cancelled order for a day: the user pays for it, and
  its submission is refused as `wrong_state`, while "retries must create a fresh
  order" (`dexscreener-actions.ts:351`).  `already_ordered` is replayed for a day as well,
  also after the order that was in the way failed.  A wallet error after the
  broadcast cancels a paid order.  Cancelling reads the status and then writes by
  id, so it can turn a paid row into a failed one, which both comments call terminal.
  A tab closed while the wallet signs cancels nothing (`:424` counts it among the
  aborts).  An audit that throws after an order was marked failed deletes the key,
  and a submission that had read `pending` takes the row from failed to paid.

And what is recorded here only, for no module has the code it is about:

* Launch: `launch-integration.ts:10` ("Throws if a config already exists") is older than its
  idempotent code; `promoteProjectFromStub` does not look whether the project is a
  simulated one.
* Rebalance: the switch that "MUST" be read before signing (`lib/kill-switch.ts:15`) is not
  read (`workflows/steps/rebalanceBps-helpers.ts:451`); 20 due schedules are taken per tick
  without an order (`:119`), where `Rebalance` has one schedule.
* Cosigned actions: the requester's own idempotency key replays "pending" for a day.
* Partner claims: the reconciliation counts pending and sending attempts as under
  manual review (`workflows/steps/reconcileFunds-helpers.ts:59`) and always reports the switch
  as off (`:74`).
* Leaderboard: hand-written reasons are overwritten although they "are preserved";
  `workflows/revalidateBotFlags.ts:4` describes a step that nothing calls.
* Payouts: today's launches record only wallets' slots without a contributor, so
  every plan preserves the weights; the route to the treasury is not read, nor is the
  kill switch.
* Webhooks: a delivery is stored before its follow-up; when that fails, the
  redelivery is dropped as a duplicate (`app/api/webhooks/github/route.ts:47`).

## 7. Not modelled, and what is next

Not modelled: authentication (lookups and cryptography), reports and rate limits
(no state that another component decides on), rendering and validation, the
building and decoding of transactions, trading and incorporation (the states are
Bags').  Their code is most of the repository; what it does to the state of the
components above is in the modules.

Next, in this order: an abstract specification of the board (scores of what is
known, ranks by score) that `Leaderboard` implements at rest, and one of an order
(bought, given up) that `DexscreenerOrder` implements; the Merkle tree over small
lists, with proofs of inclusion; the webhook inbox with its follow-ups and a
sender that delivers again.
