---------------------------- MODULE PartnerClaim ----------------------------
(***************************************************************************)
(* lib/funds/partner-fee-claims.ts: claiming the partner's trading fees.    *)
(* An attempt is a row, found again by its idempotency key; executing it    *)
(* submits the transactions Bags lists, one after the other, and records    *)
(* their signatures.  The cron workflow executes an attempt under its lock, *)
(* the console without it, and both can come back to an attempt: executions *)
(* of one attempt, and of several, overlap here as they like.               *)
(***************************************************************************)
EXTENDS Naturals

CONSTANTS
    Runs,       \* calls of executePartnerFeeClaimAttempt
    Keys,       \* idempotency keys; an attempt is its key
    MaxTxs,     \* bound: transactions Bags lists for one claim
    MaxFees     \* bound: lamports the partner earns

ASSUME ClaimAssumption == MaxTxs \in Nat /\ MaxFees \in Nat

VARIABLES
    status,     \* each attempt's status
    signed,     \* and its signatures; a signature is <<run, index>>
    at,         \* where each execution is
    key,        \* the attempt it executes
    before,     \* the claimed and unclaimed fees it read first
    len,        \* how many transactions Bags listed
    done,       \* and how many of their signatures it has pushed
    claimed,    \* the fees claimed on chain,
    unclaimed,  \* those that wait to be claimed,
    submitted,  \* the transactions submitted
    settled,    \* and those the chain has processed
    moved,      \* history: the transactions that moved fees
    mixed,      \* history: executions that saw fees move which others claimed
    killed,     \* is the kill switch on?
    late,       \* history: transactions submitted since it went on
    calm        \* history: it was never on, and no answer to an update was lost

attempts == <<status, signed>>
run == <<key, before, len, done>>
chain == <<claimed, unclaimed, settled, moved, mixed>>
switch == <<killed, late, calm>>
vars == <<attempts, at, run, chain, submitted, switch>>

Txs == Runs \X (1..MaxTxs)
Lamports == 0..MaxFees

\* An execution that holds its attempt is at one of these.
Sending == {"before", "list", "check", "sign", "confirm", "after",
            "succeed", "doubt", "skip", "none", "catch"}

\* It has read the fees before and not yet those after.
Comparing == {"list", "check", "sign", "confirm", "after"}

TypeOK ==
    /\ status \in [Keys -> {"none", "pending", "sending", "succeeded", "failed",
                            "review", "skipped"}]
    /\ signed \in [Keys -> SUBSET Txs]
    /\ at \in [Runs -> Sending \cup {"idle", "start", "killed", "claim", "over"}]
    /\ key \in [Runs -> Keys]
    /\ before \in [Runs -> Lamports \X Lamports]
    /\ len \in [Runs -> 0..MaxTxs]
    /\ done \in [Runs -> 0..MaxTxs]
    /\ claimed \in Lamports /\ unclaimed \in Lamports
    /\ submitted \subseteq Txs
    /\ settled \subseteq Txs /\ moved \subseteq Txs /\ mixed \subseteq Runs
    /\ killed \in BOOLEAN /\ calm \in BOOLEAN
    /\ late \in [Runs -> 0..MaxTxs]

Init ==
    /\ status = [k \in Keys |-> "none"]
    /\ signed = [k \in Keys |-> {}]
    /\ at = [r \in Runs |-> "idle"]
    /\ key \in [Runs -> Keys]
    /\ before = [r \in Runs |-> <<0, 0>>]
    /\ len = [r \in Runs |-> 0]
    /\ done = [r \in Runs |-> 0]
    /\ claimed = 0 /\ unclaimed \in Lamports
    /\ submitted = {} /\ settled = {} /\ moved = {} /\ mixed = {}
    /\ killed = FALSE /\ calm = TRUE
    /\ late = [r \in Runs |-> 0]

-----------------------------------------------------------------------------
(* Helpers. *)

Goto(r, p) == at' = [at EXCEPT ![r] = p]

\* UPDATE ... SET status WHERE id: whatever the status is.
Mark(r, s) == status' = [status EXCEPT ![key[r]] = s]

\* The signatures r has pushed.
Pushed(r) == {<<r, i>> : i \in 1..done[r]}

-----------------------------------------------------------------------------
(* Taking the attempt. *)

\* reservePartnerFeeClaimAttempt: the row of the key, made if there is none.
Reserve(r) ==
    /\ at[r] = "idle"
    /\ IF status[key[r]] = "none" THEN Mark(r, "pending") ELSE UNCHANGED status
    /\ Goto(r, "start")
    /\ UNCHANGED <<signed, run, chain, submitted, switch>>

\* The kill switch is read once before the attempt is taken.
Begin(r) ==
    /\ at[r] = "start"
    /\ Goto(r, IF killed THEN "killed" ELSE "claim")
    /\ UNCHANGED <<attempts, run, chain, submitted, switch>>

\* markAttemptFailed(kill_switch_enabled), whatever has become of the attempt.
Refuse(r) ==
    /\ at[r] = "killed"
    /\ Mark(r, "failed")
    /\ Goto(r, "over")
    /\ UNCHANGED <<signed, run, chain, submitted, switch>>

\* Mutant: an attempt that is being sent can be taken.
ClaimSending(r) ==
    /\ at[r] = "claim"
    /\ IF status[key[r]] \in {"pending", "failed", "review", "sending"}
       THEN Mark(r, "sending") /\ Goto(r, "before")
       ELSE Goto(r, "over") /\ UNCHANGED status
    /\ UNCHANGED <<signed, run, chain, submitted, switch>>

\* UPDATE ... SET status = 'sending' WHERE status IN (pending, failed, review);
\* otherwise loadExistingResult.
Claim(r) ==
    /\ at[r] = "claim"
    /\ IF status[key[r]] \in {"pending", "failed", "review"}
       THEN Mark(r, "sending") /\ Goto(r, "before")
       ELSE Goto(r, "over") /\ UNCHANGED status
    /\ UNCHANGED <<signed, run, chain, submitted, switch>>

-----------------------------------------------------------------------------
(* Executing it. *)

\* The fees before; nothing to claim ends the attempt.
ReadBefore(r) ==
    /\ at[r] = "before"
    /\ before' = [before EXCEPT ![r] = <<claimed, unclaimed>>]
    /\ Goto(r, IF unclaimed = 0 THEN "skip" ELSE "list")
    /\ UNCHANGED <<attempts, key, len, done, chain, submitted, switch>>

\* Bags lists the transactions, which may be none.
List(r) ==
    /\ at[r] = "list"
    /\ \E n \in 0..MaxTxs :
         /\ len' = [len EXCEPT ![r] = n]
         /\ Goto(r, IF n = 0 THEN "none" ELSE "check")
    /\ UNCHANGED <<attempts, key, before, done, chain, submitted, switch>>

\* Mutant: the kill switch is not read between transactions.
CheckNever(r) ==
    /\ at[r] = "check"
    /\ Goto(r, IF done[r] = len[r] THEN "after" ELSE "sign")
    /\ UNCHANGED <<attempts, run, chain, submitted, switch>>

\* The loop ends, or the kill switch is read before the next transaction.
Check(r) ==
    /\ at[r] = "check"
    /\ Goto(r, IF done[r] = len[r] THEN "after"
               ELSE IF killed THEN "catch" ELSE "sign")
    /\ UNCHANGED <<attempts, run, chain, submitted, switch>>

\* signAndSubmitTransaction, which can throw though the transaction is out.
Sign(r) ==
    /\ at[r] = "sign"
    /\ submitted' = submitted \cup {<<r, done[r] + 1>>}
    /\ late' = IF killed THEN [late EXCEPT ![r] = @ + 1] ELSE late
    /\ Goto(r, "confirm") \/ Goto(r, "catch")
    /\ UNCHANGED <<attempts, run, chain, killed, calm>>

\* confirmTransaction: the chain has processed it, with what result is unread.
Confirm(r) ==
    /\ at[r] = "confirm"
    /\ <<r, done[r] + 1>> \in settled
    /\ done' = [done EXCEPT ![r] = @ + 1]
    /\ Goto(r, "check")
    /\ UNCHANGED <<attempts, key, before, len, chain, submitted, switch>>

\* Mutant: a claim whose transactions were confirmed has succeeded.
ReadNothing(r) ==
    /\ at[r] = "after"
    /\ Goto(r, "succeed")
    /\ UNCHANGED <<attempts, run, chain, submitted, switch>>

\* The fees after: more must have been claimed, and less be left, than before.
ReadAfter(r) ==
    /\ at[r] = "after"
    /\ Goto(r, IF claimed > before[r][1] /\ unclaimed < before[r][2]
               THEN "succeed" ELSE "doubt")
    /\ UNCHANGED <<attempts, run, chain, submitted, switch>>

\* A call to Bags or Solana throws.
Throw(r) ==
    /\ at[r] \in {"before", "list", "check", "sign", "confirm", "after"}
    /\ Goto(r, "catch")
    /\ UNCHANGED <<attempts, run, chain, submitted, switch>>

-----------------------------------------------------------------------------
(* Its end. *)

\* What each of the last updates inside the try writes.
Outcome(r) ==
    CASE at[r] = "succeed" -> "succeeded"
      [] at[r] = "doubt" -> "review"
      [] at[r] = "skip" -> "skipped"
      [] at[r] = "none" -> "failed"

\* The update: the signatures go with a claim that ran to its end.  Its answer
\* may be lost, and then the catch clause has the last word.
Write(r) ==
    /\ at[r] \in {"succeed", "doubt", "skip", "none"}
    /\ Mark(r, Outcome(r))
    /\ signed' = IF at[r] \in {"succeed", "doubt"}
                 THEN [signed EXCEPT ![key[r]] = Pushed(r)] ELSE signed
    /\ \/ Goto(r, "over") /\ UNCHANGED calm
       \/ Goto(r, "catch") /\ calm' = FALSE
    /\ UNCHANGED <<run, chain, submitted, killed, late>>

\* The update throws and had no effect.
WriteThrows(r) ==
    /\ at[r] \in {"succeed", "doubt", "skip", "none"}
    /\ Goto(r, "catch")
    /\ UNCHANGED <<attempts, run, chain, submitted, switch>>

\* Mutant: the catch clause takes every error for a failure.
CatchFails(r) ==
    /\ at[r] = "catch"
    /\ Mark(r, "failed")
    /\ Goto(r, "over")
    /\ UNCHANGED <<signed, run, chain, submitted, switch>>

\* The catch clause: with a signature in hand the attempt is for review
\* (markAttemptReview), without one it failed (markAttemptFailed).
Catch(r) ==
    /\ at[r] = "catch"
    /\ IF done[r] > 0
       THEN Mark(r, "review") /\ signed' = [signed EXCEPT ![key[r]] = Pushed(r)]
       ELSE Mark(r, "failed") /\ UNCHANGED signed
    /\ Goto(r, "over")
    /\ UNCHANGED <<run, chain, submitted, switch>>

-----------------------------------------------------------------------------
(* The environment. *)

\* The function dies, or a statement outside the try throws.
Die(r) ==
    /\ at[r] \notin {"idle", "over"}
    /\ Goto(r, "over")
    /\ UNCHANGED <<attempts, run, chain, submitted, switch>>

\* The chain processes a transaction, which moves fees or fails.
Settle(t) ==
    /\ t \in submitted \ settled
    /\ settled' = settled \cup {t}
    /\ \E n \in 0..unclaimed :
         /\ claimed' = claimed + n /\ unclaimed' = unclaimed - n
         /\ moved' = IF n = 0 THEN moved ELSE moved \cup {t}
         /\ mixed' = IF n = 0 THEN mixed
                     ELSE mixed \cup {r \in Runs : r # t[1] /\ at[r] \in Comparing}
    /\ UNCHANGED <<attempts, at, run, submitted, switch>>

\* The partner earns a fee.
Earn ==
    /\ claimed + unclaimed < MaxFees
    /\ unclaimed' = unclaimed + 1
    /\ UNCHANGED <<attempts, at, run, claimed, settled, moved, mixed, submitted, switch>>

\* An operator turns the kill switch on or off.
Toggle ==
    /\ killed' = ~killed
    /\ late' = [r \in Runs |-> 0]
    /\ calm' = FALSE
    /\ UNCHANGED <<attempts, at, run, chain, submitted>>

RunStep(r) ==
    \/ Reserve(r) \/ Begin(r) \/ Refuse(r) \/ Claim(r)
    \/ ReadBefore(r) \/ List(r) \/ Check(r) \/ Sign(r) \/ Confirm(r) \/ ReadAfter(r)
    \/ Throw(r)
    \/ Write(r) \/ WriteThrows(r) \/ Catch(r)
    \/ Die(r)

Next ==
    \/ \E r \in Runs : RunStep(r)
    \/ \E t \in Txs : Settle(t)
    \/ Earn
    \/ Toggle

Spec == Init /\ [][Next]_vars

-----------------------------------------------------------------------------

\* The update to 'sending' is the lock of an attempt: however often it is
\* retried or resumed, one execution at a time sends under it, as long as the
\* kill switch, which marks attempts failed unseen, and lost answers stay out.
OneSender ==
    calm => \A r, s \in Runs :
        at[r] \in Sending /\ at[s] \in Sending /\ key[r] = key[s] => r = s

\* "MUST call isKillSwitchEnabled() before signing": once the switch is on, an
\* execution gets one more transaction out at most, the one it had checked for.
KillStops == \A r \in Runs : late[r] <= 1

\* What a row says was claimed was: an attempt that succeeded or awaits review
\* has signatures, all of them of its own transactions and processed by the
\* chain, and of one that succeeded a transaction moved fees.  The fees compared
\* are the partner's, not the attempt's: an execution is excepted if another's
\* transaction moved fees between its two looks, and it alone.
RecordsAreTrue ==
    \A k \in Keys :
        /\ \A t \in signed[k] : t \in settled /\ key[t[1]] = k
        /\ status[k] \in {"succeeded", "review"} => signed[k] # {}
        /\ status[k] = "succeeded" /\ signed[k] \cap moved = {} =>
               \A t \in signed[k] : t[1] \in mixed

\* An execution that answers has its confirmed signatures in the row, whichever
\* call failed on the way: what has been done is there to be reconciled.
NothingForgotten ==
    [][\A r \in Runs :
         at[r] # "over" /\ at'[r] = "over" /\ ~Die(r) =>
             Pushed(r) \subseteq signed'[key[r]]]_vars

=============================================================================
