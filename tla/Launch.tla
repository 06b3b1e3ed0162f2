-------------------------------- MODULE Launch --------------------------------
(***************************************************************************)
(* The launch of one repository's project: the wizard                       *)
(* (app/(public)/launch/actions.ts), the API route                          *)
(* (app/api/projects/[id]/launch/route.ts), the operators' direct launch    *)
(* and the other handlers that write the same row.                          *)
(*                                                                         *)
(* A launch creates a token at Bags, a fee-share config for it on chain, a  *)
(* checkpoint in the projects row (launch_configured) and the launch        *)
(* transaction, which the user's wallet or the server signs.  Completing it *)
(* mirrors the config into bags_fee_share_configs and makes the row live.   *)
(* Every handler reads the row once and writes it later by its id, and any  *)
(* number of them run side by side: the browser and the operators' forms    *)
(* make up a new Idempotency-Key for each click.  The keys derived inside   *)
(* directLaunchProject last a day, and a behaviour here lasts less.         *)
(***************************************************************************)
EXTENDS Naturals

CONSTANTS
    Calls,       \* calls of the handlers
    Handlers,    \* the handlers that are called
    Fees,        \* platform fees a project can ask for, in basis points
    NoFee,       \* not a fee
    MaxRows,     \* rows inserted for the repository
    MaxMints,    \* calls of Bags' createTokenInfo
    MaxSends     \* launch transactions the server submits

Entries == {"wizard", "route", "complete", "direct", "edit", "discard", "pause", "kill",
            "promote"}

ASSUME LaunchAssumption ==
    /\ Handlers \subseteq Entries
    /\ Fees \subseteq 0..10000
    /\ NoFee \notin Fees
    /\ {MaxRows, MaxMints, MaxSends} \subseteq Nat

VARIABLES
    row,        \* the projects row of the repository
    rows,       \* rows inserted so far
    mirror,     \* bags_fee_share_configs with its slots and payout schedule
    mints,      \* tokens created at Bags
    shares,     \* the fee each token's submitted config gives the treasury, or none
    keyedMint,  \* result cached for the direct launch's createTokenInfo
    keyedSend,  \* its launch submission, by token: none, running or done
    offered,    \* tokens with an unsigned launch transaction in a browser
    signed,     \* tokens whose launch transaction was broadcast
    sends, throws,   \* per token, the server's submissions and those that threw
    pc, ctx     \* where each call is, and what it read

bags == <<mints, shares>>
submission == <<keyedSend, sends, throws>>
wallets == <<offered, signed>>
vars == <<row, rows, mirror, bags, keyedMint, submission, wallets, pc, ctx>>

Mints == 1..MaxMints        \* 0 is no token
Amounts == Fees \cup {NoFee}
RowIds == 0..MaxRows        \* 0 is no row

Statuses == {"absent", "draft", "launch_configured", "live", "paused", "killed"}
Wallets == {"none", "user", "pool"}

Row == [id : RowIds, status : Statuses, mint : 0..MaxMints, fee : Amounts,
        wallet : Wallets, pending : BOOLEAN]
NoRow == [id |-> 0, status |-> "absent", mint |-> 0, fee |-> NoFee, wallet |-> "none",
          pending |-> FALSE]

Mirror == [mint : 0..MaxMints, treasury : Fees \cup {0}]
NoMirror == [mint |-> 0, treasury |-> 0]

\* How a call launches: for the user's wallet, or directly, from a draft or
\* from where an earlier launch got.
Context == [mode : {"none", "user", "direct", "resume"}, id : RowIds,
            mint : 0..MaxMints, fee : Amounts, wallet : Wallets]
Knowing(mode, id, mint, fee, wallet) ==
    [mode |-> mode, id |-> id, mint |-> mint, fee |-> fee, wallet |-> wallet]
NoContext == Knowing("none", 0, 0, NoFee, "none")

Places == {"idle", "read", "token", "share", "configure", "persist", "mark", "claim",
           "send", "golive", "record", "activate", "edit", "discard", "over"}

TypeOK ==
    /\ row \in Row
    /\ rows \in RowIds
    /\ mirror \in Mirror
    /\ mints \in 0..MaxMints
    /\ shares \in [Mints -> Amounts]
    /\ keyedMint \in 0..MaxMints
    /\ keyedSend \in [Mints -> {"none", "running", "done"}]
    /\ offered \subseteq Mints
    /\ signed \subseteq Mints
    /\ sends \in [Mints -> Nat]
    /\ throws \in [Mints -> Nat]
    /\ pc \in [Calls -> Places]
    /\ ctx \in [Calls -> Context]

Init ==
    /\ row = NoRow
    /\ rows = 0
    /\ mirror = NoMirror
    /\ mints = 0
    /\ shares = [m \in Mints |-> NoFee]
    /\ keyedMint = 0
    /\ keyedSend = [m \in Mints |-> "none"]
    /\ offered = {}
    /\ signed = {}
    /\ sends = [m \in Mints |-> 0]
    /\ throws = [m \in Mints |-> 0]
    /\ pc = [c \in Calls |-> "idle"]
    /\ ctx = [c \in Calls |-> NoContext]

-----------------------------------------------------------------------------
(* Helpers. *)

Goto(c, l) == pc' = [pc EXCEPT ![c] = l]

\* A call of handler h begins; cx is what it will know.
Begin(c, h, l, cx) ==
    /\ pc[c] = "idle"
    /\ h \in Handlers
    /\ Goto(c, l)
    /\ ctx' = [ctx EXCEPT ![c] = cx]

\* It ends, and what it knew with it.
End(c) ==
    /\ Goto(c, "over")
    /\ ctx' = [ctx EXCEPT ![c] = NoContext]

\* The row a call read is still there: an UPDATE by its id finds it.
Here(c) == row.id # 0 /\ row.id = ctx[c].id

\* INSERT of a draft: ghOwner and ghRepo are unique.
Insert(fee) ==
    /\ row.id = 0
    /\ rows < MaxRows
    /\ rows' = rows + 1
    /\ row' = [id |-> rows + 1, status |-> "draft", mint |-> 0, fee |-> fee,
               wallet |-> "none", pending |-> FALSE]

\* UPDATE of what a launch writes.
Update(status, mint, wallet, pending) ==
    row' = [row EXCEPT !.status = status, !.mint = mint, !.wallet = wallet,
                       !.pending = pending]

\* The checkpoint of a launch.
Checkpoint(c) == Update("launch_configured", ctx[c].mint, ctx[c].wallet, FALSE)

-----------------------------------------------------------------------------
(* createAndLaunchAction and POST /api/projects/[id]/launch.               *)

\* The wizard inserts the project, with the fee of its form.
Create(c) ==
    \E fee \in Fees :
        /\ Insert(fee)
        /\ Begin(c, "wizard", "read", Knowing("user", rows + 1, 0, fee, "user"))
        /\ UNCHANGED <<mirror, bags, keyedMint, submission, wallets>>

\* It finds one there.  (A live project's token is returned at once.)
Recover(c) ==
    \E fee \in Fees :
        /\ row.id # 0
        /\ ~(row.status = "live" /\ row.mint # 0)
        /\ Begin(c, "wizard", "read", Knowing("user", row.id, 0, fee, "user"))
        /\ UNCHANGED <<row, rows, mirror, bags, keyedMint, submission, wallets>>

\* The route takes the project's id; its fee will be the row's.
Post(c) ==
    /\ row.id # 0
    /\ Begin(c, "route", "read", Knowing("user", row.id, 0, NoFee, "user"))
    /\ UNCHANGED <<row, rows, mirror, bags, keyedMint, submission, wallets>>

\* The row is a draft: a token is created for it.
ReadDraft(c) ==
    /\ pc[c] = "read"
    /\ Here(c)
    /\ row.status = "draft"
    /\ ctx' = [ctx EXCEPT ![c].fee = IF @ = NoFee THEN row.fee ELSE @]
    /\ Goto(c, "token")
    /\ UNCHANGED <<row, rows, mirror, bags, keyedMint, submission, wallets>>

\* It is configured for the user's wallet: its launch transaction is built
\* again and handed out.
ReadConfigured(c) ==
    /\ pc[c] = "read"
    /\ Here(c)
    /\ row.status = "launch_configured"
    /\ row.mint # 0
    /\ row.wallet = "user"
    /\ offered' = offered \cup {row.mint}
    /\ End(c)
    /\ UNCHANGED <<row, rows, mirror, bags, keyedMint, submission, signed>>

\* A direct launch keys its calls of Bags by the project's id.
Keyed(c) == ctx[c].mode = "direct" /\ Here(c)

\* createTokenInfo: a new token each time, but for one cached for the
\* project's direct launch.
CreateToken(c) ==
    /\ pc[c] = "token"
    /\ IF Keyed(c) /\ keyedMint # 0
       THEN /\ ctx' = [ctx EXCEPT ![c].mint = keyedMint]
            /\ UNCHANGED <<mints, keyedMint>>
       ELSE /\ mints < MaxMints
            /\ mints' = mints + 1
            /\ ctx' = [ctx EXCEPT ![c].mint = mints + 1]
            /\ keyedMint' = IF Keyed(c) THEN mints + 1 ELSE keyedMint
    /\ Goto(c, "share")
    /\ UNCHANGED <<row, rows, mirror, shares, submission, wallets>>

\* Mutant: the checkpoint is written before the config exists.
CheckpointFirst(c) ==
    /\ pc[c] = "share"
    /\ Here(c)
    /\ Checkpoint(c)
    /\ Goto(c, "configure")
    /\ UNCHANGED <<rows, mirror, bags, keyedMint, submission, wallets, ctx>>

\* createFeeShareConfig gives the treasury the fee and the pool the rest;
\* called again by a direct launch, it returns the cached config.
ShareFees(c) ==
    /\ pc[c] = "share"
    /\ shares' = [shares EXCEPT ![ctx[c].mint] = IF @ = NoFee THEN ctx[c].fee ELSE @]
    /\ Goto(c, "configure")
    /\ UNCHANGED <<row, rows, mirror, mints, keyedMint, submission, wallets, ctx>>

\* The checkpoint, whatever has become of the row's status since it was read.
Configure(c) ==
    /\ pc[c] = "configure"
    /\ Here(c)
    /\ Checkpoint(c)
    /\ Goto(c, IF ctx[c].mode = "direct" THEN "mark" ELSE "persist")
    /\ UNCHANGED <<rows, mirror, bags, keyedMint, submission, wallets, ctx>>

\* The same UPDATE once more, and the transaction goes to the browser.
Persist(c) ==
    /\ pc[c] = "persist"
    /\ Here(c)
    /\ Checkpoint(c)
    /\ offered' = offered \cup {ctx[c].mint}
    /\ End(c)
    /\ UNCHANGED <<rows, mirror, bags, keyedMint, submission, signed>>

\* The user's wallet signs it and broadcasts it.
Broadcast(m) ==
    /\ m \in offered \ signed
    /\ signed' = signed \cup {m}
    /\ UNCHANGED <<row, rows, mirror, bags, keyedMint, submission, offered, pc, ctx>>

-----------------------------------------------------------------------------
(* completeLaunchAction.                                                   *)

\* The browser reports a signature.  Any text of its length will do: nobody looks
\* it up on chain, and only the row is looked at.
Complete(c) ==
    /\ row.status = "launch_configured"
    /\ row.mint # 0
    /\ row.wallet = "user"
    /\ Begin(c, "complete", "record", Knowing("none", row.id, row.mint, NoFee, "user"))
    /\ UNCHANGED <<row, rows, mirror, bags, keyedMint, submission, wallets>>

\* buildLaunchClaimerSet reads the treasury's part from payout_config, where
\* PayoutConfigSchema has no such field.
PayoutFee == 0

\* Mutant: an existing mirror is replaced.
RecordAnyway(c) ==
    /\ pc[c] = "record"
    /\ Here(c)
    /\ mirror' = [mint |-> ctx[c].mint, treasury |-> PayoutFee]
    /\ Goto(c, "activate")
    /\ UNCHANGED <<row, rows, bags, keyedMint, submission, wallets, ctx>>

\* recordLaunch, one transaction: the mirror is inserted, or it is already
\* there for this token.  (For another token, recordLaunch throws.)
RecordLaunch(c) ==
    /\ pc[c] = "record"
    /\ Here(c)
    /\ mirror.mint \in {0, ctx[c].mint}
    /\ mirror' = IF mirror.mint = 0 THEN [mint |-> ctx[c].mint, treasury |-> PayoutFee]
                 ELSE mirror
    /\ Goto(c, "activate")
    /\ UNCHANGED <<row, rows, bags, keyedMint, submission, wallets, ctx>>

\* The row goes live, whatever its status and token are now.
Activate(c) ==
    /\ pc[c] = "activate"
    /\ Here(c)
    /\ Update("live", row.mint, ctx[c].wallet, FALSE)
    /\ End(c)
    /\ UNCHANGED <<rows, mirror, bags, keyedMint, submission, wallets>>

-----------------------------------------------------------------------------
(* directLaunchProject.                                                    *)

\* The repository has no project, or the operator's own draft.
DirectDraft(c) ==
    \E fee \in Fees :
        /\ \/ /\ Insert(fee)
              /\ Begin(c, "direct", "token", Knowing("direct", rows + 1, 0, fee, "pool"))
           \/ /\ row.status = "draft"
              /\ Begin(c, "direct", "token", Knowing("direct", row.id, 0, fee, "pool"))
              /\ UNCHANGED <<row, rows>>
        /\ UNCHANGED <<mirror, bags, keyedMint, submission, wallets>>

\* It has been configured: unless a submission is pending it is resumed, with
\* the wallet it was configured for.  (Anything else is refused or returned.)
DirectResume(c) ==
    /\ row.status = "launch_configured"
    /\ ~row.pending
    /\ row.mint # 0
    /\ Begin(c, "direct", "mark", Knowing("resume", row.id, row.mint, NoFee, row.wallet))
    /\ UNCHANGED <<row, rows, mirror, bags, keyedMint, submission, wallets>>

\* markDirectLaunchSubmissionPending.
MarkPending(c) ==
    /\ pc[c] = "mark"
    /\ Here(c)
    /\ Update("launch_configured", ctx[c].mint, ctx[c].wallet, TRUE)
    /\ Goto(c, "claim")
    /\ UNCHANGED <<rows, mirror, bags, keyedMint, submission, wallets, ctx>>

\* Mutant: no withIdempotency around the submission.
ClaimUnkeyed(c) ==
    /\ pc[c] = "claim"
    /\ ctx[c].wallet = "pool"
    /\ keyedSend' = [keyedSend EXCEPT ![ctx[c].mint] = "running"]
    /\ Goto(c, "send")
    /\ UNCHANGED <<row, rows, mirror, bags, keyedMint, sends, throws, wallets, ctx>>

\* The key of the submission is claimed.  The payout key cannot sign for a
\* user's wallet, so only what was configured for the pool gets further.
ClaimSubmission(c) ==
    /\ pc[c] = "claim"
    /\ ctx[c].wallet = "pool"
    /\ keyedSend[ctx[c].mint] = "none"
    /\ keyedSend' = [keyedSend EXCEPT ![ctx[c].mint] = "running"]
    /\ Goto(c, "send")
    /\ UNCHANGED <<row, rows, mirror, bags, keyedMint, sends, throws, wallets, ctx>>

\* It was submitted before: the cached signature is used.
ReplaySubmission(c) ==
    /\ pc[c] = "claim"
    /\ keyedSend[ctx[c].mint] = "done"
    /\ Goto(c, "golive")
    /\ UNCHANGED <<row, rows, mirror, bags, keyedMint, submission, wallets, ctx>>

\* A launch transaction leaves the server.
Submit(m) ==
    /\ sends[m] < MaxSends
    /\ sends' = [sends EXCEPT ![m] = @ + 1]
    /\ signed' = signed \cup {m}

\* It does and the result is cached.
SubmitLaunch(c) ==
    /\ pc[c] = "send"
    /\ Submit(ctx[c].mint)
    /\ keyedSend' = [keyedSend EXCEPT ![ctx[c].mint] = "done"]
    /\ Goto(c, "golive")
    /\ UNCHANGED <<row, rows, mirror, bags, keyedMint, throws, offered, ctx>>

\* It throws, before or after the transaction left: the key is deleted.
SubmitThrows(c) ==
    /\ pc[c] = "send"
    /\ Submit(ctx[c].mint) \/ UNCHANGED <<sends, signed>>
    /\ throws[ctx[c].mint] < MaxSends
    /\ throws' = [throws EXCEPT ![ctx[c].mint] = @ + 1]
    /\ keyedSend' = [keyedSend EXCEPT ![ctx[c].mint] = "none"]
    /\ End(c)
    /\ UNCHANGED <<row, rows, mirror, bags, keyedMint, offered>>

\* The function dies with the transaction on its way: the key stays.
SubmitDies(c) ==
    /\ pc[c] = "send"
    /\ Submit(ctx[c].mint)
    /\ End(c)
    /\ UNCHANGED <<row, rows, mirror, bags, keyedMint, keyedSend, throws, offered>>

\* The row goes live.  No mirror is recorded; a resumed launch leaves the
\* row's token as it is.
GoLive(c) ==
    /\ pc[c] = "golive"
    /\ Here(c)
    /\ Update("live", IF ctx[c].mode = "resume" THEN row.mint ELSE ctx[c].mint,
              ctx[c].wallet, FALSE)
    /\ End(c)
    /\ UNCHANGED <<rows, mirror, bags, keyedMint, submission, wallets>>

-----------------------------------------------------------------------------
(* The other handlers of the row.                                          *)

\* saveDraftAction's insert.
SaveNew ==
    /\ "edit" \in Handlers
    /\ \E fee \in Fees : Insert(fee)
    /\ UNCHANGED <<mirror, bags, keyedMint, submission, wallets, pc, ctx>>

\* saveDraftAction, PATCH and updateProjectPlatformFeeBps find a draft ...
EditRead(c) ==
    \E fee \in Fees :
        /\ row.status = "draft"
        /\ Begin(c, "edit", "edit", Knowing("none", row.id, 0, fee, "none"))
        /\ UNCHANGED <<row, rows, mirror, bags, keyedMint, submission, wallets>>

\* ... and write its fee, though it may not be one any more.
EditWrite(c) ==
    /\ pc[c] = "edit"
    /\ row' = IF Here(c) THEN [row EXCEPT !.fee = ctx[c].fee] ELSE row
    /\ End(c)
    /\ UNCHANGED <<rows, mirror, bags, keyedMint, submission, wallets>>

\* discardDraftAction and DELETE find a draft ...
DiscardRead(c) ==
    /\ row.status = "draft"
    /\ Begin(c, "discard", "discard", Knowing("none", row.id, 0, NoFee, "none"))
    /\ UNCHANGED <<row, rows, mirror, bags, keyedMint, submission, wallets>>

\* ... and delete it, whatever it is now.  The mirror goes with it, and keys
\* derived from its id are never used again.
DiscardDelete(c) ==
    /\ pc[c] = "discard"
    /\ Here(c)
    /\ row' = NoRow
    /\ mirror' = NoMirror
    /\ keyedMint' = 0
    /\ End(c)
    /\ UNCHANGED <<rows, bags, submission, wallets>>

\* pauseProject: the settings page offers Resume while the project is paused
\* and Pause in every other status but killed; the console offers Pause always.
Toggle ==
    /\ "pause" \in Handlers
    /\ row.id # 0
    /\ Update(IF row.status = "paused" THEN "live" ELSE "paused", row.mint, row.wallet,
              row.pending)
    /\ UNCHANGED <<rows, mirror, bags, keyedMint, submission, wallets, pc, ctx>>

\* deleteProject and killProject.
Kill ==
    /\ "kill" \in Handlers
    /\ row.id # 0
    /\ Update("killed", row.mint, row.wallet, row.pending)
    /\ UNCHANGED <<rows, mirror, bags, keyedMint, submission, wallets, pc, ctx>>

\* promoteProjectFromStub clears the launch for a new one.  Its transaction
\* looks neither at the status nor at the mirror, which stays.
Promote ==
    /\ "promote" \in Handlers
    /\ row.id # 0
    /\ Update("draft", 0, "none", FALSE)
    /\ UNCHANGED <<rows, mirror, bags, keyedMint, submission, wallets, pc, ctx>>

\* A call throws or dies between two steps.  So do those whose step has no
\* action above: the row is gone, the status is refused, a key is running.
Stop(c) ==
    /\ pc[c] \notin {"idle", "over"}
    /\ End(c)
    /\ UNCHANGED <<row, rows, mirror, bags, keyedMint, submission, wallets>>

CallStep(c) ==
    \/ Create(c) \/ Recover(c) \/ Post(c) \/ ReadDraft(c) \/ ReadConfigured(c)
    \/ CreateToken(c) \/ ShareFees(c) \/ Configure(c) \/ Persist(c)
    \/ Complete(c) \/ RecordLaunch(c) \/ Activate(c)
    \/ DirectDraft(c) \/ DirectResume(c) \/ MarkPending(c) \/ ClaimSubmission(c)
    \/ ReplaySubmission(c) \/ SubmitLaunch(c) \/ SubmitThrows(c) \/ SubmitDies(c)
    \/ GoLive(c)
    \/ EditRead(c) \/ EditWrite(c) \/ DiscardRead(c) \/ DiscardDelete(c) \/ Stop(c)

Next ==
    \/ \E c \in Calls : CallStep(c)
    \/ \E m \in Mints : Broadcast(m)
    \/ SaveNew \/ Toggle \/ Kill \/ Promote

Spec == Init /\ [][Next]_vars

-----------------------------------------------------------------------------

\* No token is configured, offered to a wallet, submitted or mirrored before its
\* fee-share config was submitted, whichever calls overlap or stop half-way.
SharesComeFirst ==
    \A m \in offered \cup signed \cup ({row.mint, mirror.mint} \ {0}) : shares[m] # NoFee

\* The mirror the rebalance works from is never moved to another token by a
\* second completion; only deleting the project takes it away.
MirrorIsFinal ==
    [][mirror.mint # 0 /\ row'.id = row.id => mirror' = mirror]_vars

\* Of several direct launches of one project, the server submits a token's
\* launch transaction once; another submission takes an earlier one that threw.
SubmittedOnce == \A m \in Mints : sends[m] <= throws[m] + 1

\* "a single contributor-pool claimer + an optional treasury claimer (the
\* platform-fee cut), both recorded" (buildLaunchClaimerSet): the mirror has
\* the weights of the on-chain config.
MirrorMatchesShares == mirror.mint # 0 => mirror.treasury = shares[mirror.mint]

=============================================================================
