---------------------------- MODULE AdminAction ----------------------------
(***************************************************************************)
(* lib/auth/destructive-action.ts: destructive actions of the console.  The *)
(* irreversible ones (kill a project, claim partner fees, grant super_admin)*)
(* first leave a row of pending_admin_actions and are executed when the     *)
(* same request is sent again, with the row's id, by another super admin.   *)
(* Calls overlap: each database statement and each audit row is a step of   *)
(* its own, any of them can throw, and a call can die between two of them.  *)
(***************************************************************************)
EXTENDS Naturals

CONSTANTS
    Calls,      \* calls of destructiveAction
    Admins,     \* users with the permission
    Supers,     \* those of them who are super admins
    Prints,     \* requests, told apart by their fingerprint
    Plain,      \* the requests that need no cosign
    MaxRows,    \* bound: rows of pending_admin_actions
    Nobody      \* not a user

ASSUME AdminAssumption ==
    /\ Supers \subseteq Admins /\ Nobody \notin Admins
    /\ Plain \subseteq Prints /\ Prints # {}
    /\ MaxRows \in Nat

VARIABLES
    made,       \* rows inserted so far; a row is its number
    print,      \* each row's fingerprint,
    requester,  \* actorUserId,
    approver,   \* approverUserId,
    status,     \* status
    lapsed,     \* and whether expiresAt has passed
    at,         \* where each call is
    actor,      \* who makes it
    wants,      \* what it requests
    row,        \* the row it was given or found, 0 for none
    noted,      \* audited approvals: <<call, row>>
    performed   \* history: <<call, row>> whose body took effect

rows == <<made, print, requester, approver, status, lapsed>>
request == <<actor, wants>>
vars == <<rows, at, request, row, noted, performed>>

Rows == 1..MaxRows
Statuses == {"none", "pending", "completed", "failed", "expired"}
Places == {"idle", "find", "renew", "insert", "read", "expire", "approve",
           "note", "body", "complete", "close", "fail", "over"}

TypeOK ==
    /\ made \in 0..MaxRows
    /\ print \in [Rows -> Prints]
    /\ requester \in [Rows -> Admins \cup {Nobody}]
    /\ approver \in [Rows -> Admins \cup {Nobody}]
    /\ status \in [Rows -> Statuses]
    /\ lapsed \in [Rows -> BOOLEAN]
    /\ at \in [Calls -> Places]
    /\ actor \in [Calls -> Admins]
    /\ wants \in [Calls -> Prints]
    /\ row \in [Calls -> 0..MaxRows]
    /\ noted \subseteq Calls \X Rows
    /\ performed \subseteq Calls \X (0..MaxRows)

Init ==
    /\ made = 0
    /\ print = [i \in Rows |-> CHOOSE p \in Prints : TRUE]
    /\ requester = [i \in Rows |-> Nobody]
    /\ approver = [i \in Rows |-> Nobody]
    /\ status = [i \in Rows |-> "none"]
    /\ lapsed = [i \in Rows |-> FALSE]
    /\ at = [c \in Calls |-> "idle"]
    /\ actor \in [Calls -> Admins]
    /\ wants \in [Calls -> Prints]
    /\ row = [c \in Calls |-> 0]
    /\ noted = {}
    /\ performed = {}

-----------------------------------------------------------------------------
(* Helpers. *)

Goto(c, p) == at' = [at EXCEPT ![c] = p]

\* UPDATE ... SET status WHERE id: whatever the status is.
Mark(i, s) == status' = [status EXCEPT ![i] = s]

\* The rows the unique index and findOpenPendingAction select.
Open(p) == {i \in Rows : status[i] = "pending" /\ print[i] = p}

-----------------------------------------------------------------------------
(* A request arrives. *)

\* The permission, reason, confirmation and MFA checks passed and the
\* "preflight" audit row is written.  The request carries the id of a row, or
\* none.
Start(c) ==
    /\ at[c] = "idle"
    /\ \/ wants[c] \in Plain /\ Goto(c, "body") /\ UNCHANGED row
       \/ wants[c] \notin Plain /\ Goto(c, "find") /\ UNCHANGED row
       \/ \E i \in 1..made :
            /\ wants[c] \notin Plain
            /\ row' = [row EXCEPT ![c] = i]
            /\ Goto(c, "read")
    /\ UNCHANGED <<rows, request, noted, performed>>

-----------------------------------------------------------------------------
(* Without an id: the approval is requested. *)

\* findOpenPendingAction: an open row in time is answered with its id, one
\* that lapsed is expired first.
Find(c) ==
    /\ at[c] = "find"
    /\ \/ Open(wants[c]) = {} /\ Goto(c, "insert") /\ UNCHANGED row
       \/ \E i \in Open(wants[c]) :
            /\ Goto(c, IF lapsed[i] THEN "renew" ELSE "over")
            /\ row' = [row EXCEPT ![c] = i]
    /\ UNCHANGED <<rows, request, noted, performed>>

\* expirePendingAction on the row that was found.
Renew(c) ==
    /\ at[c] = "renew"
    /\ Mark(row[c], "expired")
    /\ row' = [row EXCEPT ![c] = 0]
    /\ Goto(c, "insert")
    /\ UNCHANGED <<made, print, requester, approver, lapsed, request, noted, performed>>

\* Mutant: no unique index on open fingerprints.
InsertAnyway(c) ==
    /\ at[c] = "insert"
    /\ made < MaxRows
    /\ made' = made + 1
    /\ print' = [print EXCEPT ![made + 1] = wants[c]]
    /\ requester' = [requester EXCEPT ![made + 1] = actor[c]]
    /\ Mark(made + 1, "pending")
    /\ Goto(c, "over")
    /\ UNCHANGED <<approver, lapsed, request, row, noted, performed>>

\* The unique index lets one open row per fingerprint in.  The audit row that
\* follows, and PendingAdminActionError, change nothing.
Insert(c) ==
    /\ at[c] = "insert"
    /\ made < MaxRows
    /\ Open(wants[c]) = {}
    /\ made' = made + 1
    /\ print' = [print EXCEPT ![made + 1] = wants[c]]
    /\ requester' = [requester EXCEPT ![made + 1] = actor[c]]
    /\ Mark(made + 1, "pending")
    /\ Goto(c, "over")
    /\ UNCHANGED <<approver, lapsed, request, row, noted, performed>>

-----------------------------------------------------------------------------
(* With an id: the approval is given, or taken up again. *)

\* What the row must be for c to go on with it.
MayApprove(c, i) ==
    /\ approver[i] = Nobody
    /\ requester[i] # actor[c]
    /\ actor[c] \in Supers

MayResume(c, i) == approver[i] = actor[c] /\ actor[c] \in Supers

\* Mutant: the requester may approve.
ReadOwn(c) ==
    LET i == row[c] IN
    /\ at[c] = "read"
    /\ status[i] = "pending" /\ ~lapsed[i] /\ print[i] = wants[c]
    /\ \/ approver[i] = Nobody /\ actor[c] \in Supers /\ Goto(c, "approve")
       \/ MayResume(c, i) /\ Goto(c, "note")
    /\ UNCHANGED <<rows, request, row, noted, performed>>

\* The row is pending, in time, for this very request, and it is either
\* another's to approve or was approved by this very user.
Read(c) ==
    LET i == row[c] IN
    /\ at[c] = "read"
    /\ status[i] = "pending" /\ ~lapsed[i] /\ print[i] = wants[c]
    /\ \/ MayApprove(c, i) /\ Goto(c, "approve")
       \/ MayResume(c, i) /\ Goto(c, "note")
    /\ UNCHANGED <<rows, request, row, noted, performed>>

\* The row is pending and has lapsed.
ReadLapsed(c) ==
    /\ at[c] = "read"
    /\ status[row[c]] = "pending" /\ lapsed[row[c]]
    /\ Goto(c, "expire")
    /\ UNCHANGED <<rows, request, row, noted, performed>>

\* expirePendingAction on it; cosign_expired.
Expire(c) ==
    /\ at[c] = "expire"
    /\ Mark(row[c], "expired")
    /\ Goto(c, "over")
    /\ UNCHANGED <<made, print, requester, approver, lapsed, request, row, noted, performed>>

\* Mutant: the update does not ask whether the row is approved.
ApproveAnyway(c) ==
    /\ at[c] = "approve"
    /\ status[row[c]] = "pending"
    /\ approver' = [approver EXCEPT ![row[c]] = actor[c]]
    /\ Goto(c, "note")
    /\ UNCHANGED <<made, print, requester, status, lapsed, request, row, noted, performed>>

\* UPDATE ... WHERE status = 'pending' AND approver_user_id IS NULL.
Approve(c) ==
    /\ at[c] = "approve"
    /\ status[row[c]] = "pending"
    /\ approver[row[c]] = Nobody
    /\ approver' = [approver EXCEPT ![row[c]] = actor[c]]
    /\ Goto(c, "note")
    /\ UNCHANGED <<made, print, requester, status, lapsed, request, row, noted, performed>>

\* The audit row "approved" or "approval_resumed".
Note(c) ==
    /\ at[c] = "note"
    /\ noted' = noted \cup {<<c, row[c]>>}
    /\ Goto(c, "body")
    /\ UNCHANGED <<rows, request, row, performed>>

-----------------------------------------------------------------------------
(* Execution. *)

\* Where a call goes when its body has returned.
AfterBody(c) == IF row[c] = 0 THEN "close" ELSE "complete"
AfterThrow(c) == IF row[c] = 0 THEN "over" ELSE "fail"

\* fn returns.
Perform(c) ==
    /\ at[c] = "body"
    /\ performed' = performed \cup {<<c, row[c]>>}
    /\ Goto(c, AfterBody(c))
    /\ UNCHANGED <<rows, request, row, noted>>

\* Mutant: the error of fn is swallowed.
PerformSwallows(c) ==
    /\ at[c] = "body"
    /\ performed' \in {performed, performed \cup {<<c, row[c]>>}}
    /\ Goto(c, AfterBody(c))
    /\ UNCHANGED <<rows, request, row, noted>>

\* fn throws, before or after it took effect.
PerformThrows(c) ==
    /\ at[c] = "body"
    /\ performed' \in {performed, performed \cup {<<c, row[c]>>}}
    /\ Goto(c, AfterThrow(c))
    /\ UNCHANGED <<rows, request, row, noted>>

\* markPendingActionCompleted.
Complete(c) ==
    /\ at[c] = "complete"
    /\ Mark(row[c], "completed")
    /\ Goto(c, "close")
    /\ UNCHANGED <<made, print, requester, approver, lapsed, request, row, noted, performed>>

\* The UPDATE throws, before or after it took effect.
CompleteThrows(c) ==
    /\ at[c] = "complete"
    /\ Mark(row[c], "completed") \/ UNCHANGED status
    /\ Goto(c, "fail")
    /\ UNCHANGED <<made, print, requester, approver, lapsed, request, row, noted, performed>>

\* The audit row "completed".
Close(c) ==
    /\ at[c] = "close"
    /\ Goto(c, "over")
    /\ UNCHANGED <<rows, request, row, noted, performed>>

\* It throws inside the try: the action counts as failed.
CloseThrows(c) ==
    /\ at[c] = "close"
    /\ Goto(c, AfterThrow(c))
    /\ UNCHANGED <<rows, request, row, noted, performed>>

\* markPendingActionFailed; the audit row "failed" changes nothing.
Fail(c) ==
    /\ at[c] = "fail"
    /\ Mark(row[c], "failed")
    /\ Goto(c, "over")
    /\ UNCHANGED <<made, print, requester, approver, lapsed, request, row, noted, performed>>

-----------------------------------------------------------------------------
(* The environment. *)

\* Outside the try: a check refuses, a statement or an audit row throws, or
\* the function dies; anywhere else: it dies.
Stop(c) ==
    /\ at[c] \notin {"idle", "over"}
    /\ Goto(c, "over")
    /\ UNCHANGED <<rows, request, row, noted, performed>>

\* The hour is over.
Lapse(i) ==
    /\ i <= made
    /\ ~lapsed[i]
    /\ lapsed' = [lapsed EXCEPT ![i] = TRUE]
    /\ UNCHANGED <<made, print, requester, approver, status, at, request, row, noted, performed>>

CallStep(c) ==
    \/ Start(c)
    \/ Find(c) \/ Renew(c) \/ Insert(c)
    \/ Read(c) \/ ReadLapsed(c) \/ Expire(c) \/ Approve(c) \/ Note(c)
    \/ Perform(c) \/ PerformThrows(c)
    \/ Complete(c) \/ CompleteThrows(c) \/ Close(c) \/ CloseThrows(c) \/ Fail(c)
    \/ Stop(c)

Next ==
    \/ \E c \in Calls : CallStep(c)
    \/ \E i \in Rows : Lapse(i)

Spec == Init /\ [][Next]_vars

-----------------------------------------------------------------------------

\* "Require a second super_admin": whatever an irreversible request did, it
\* did under a row that another user had requested in the same terms and that
\* its performer, a super admin, had approved, with the approval on record
\* ("never silently").
TwoPersons ==
    \A c \in Calls, i \in 0..MaxRows :
        <<c, i>> \in performed /\ wants[c] \notin Plain =>
            /\ i \in Rows
            /\ print[i] = wants[c]
            /\ approver[i] = actor[c] /\ actor[c] \in Supers
            /\ requester[i] \notin {actor[c], Nobody}
            /\ <<c, i>> \in noted

\* A request has one open row, however many calls ask for it at once.
OneOpenRow ==
    \A i, j \in Rows :
        status[i] = "pending" /\ status[j] = "pending" /\ print[i] = print[j] => i = j

\* Once a row is approved, it is that user's for good: of two approvals that
\* overlap, one is refused.
ApprovalStands ==
    [][\A i \in Rows : approver[i] # Nobody => approver'[i] = approver[i]]_vars

\* What a row records about its execution happened: a completed row was
\* performed, and only an approved row is ever completed or failed.
RecordsAreTrue ==
    \A i \in Rows :
        /\ status[i] = "completed" => \E c \in Calls : <<c, i>> \in performed
        /\ status[i] \in {"completed", "failed"} => approver[i] # Nobody

=============================================================================
