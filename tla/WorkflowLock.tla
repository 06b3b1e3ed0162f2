---------------------------- MODULE WorkflowLock ----------------------------
(***************************************************************************)
(* lib/workflow-locks.ts: the Redis single-flight lock the workflows take   *)
(* (SET key token NX EX ttl, compare-and-delete by token).  Executions call *)
(* acquireWorkflowLock, run a body, and call releaseWorkflowLock in a       *)
(* `finally`; they crash, their Redis calls fail before or after taking     *)
(* effect, and nobody renews a lease.                                       *)
(***************************************************************************)
EXTENDS Naturals

CONSTANTS
    Runs,         \* workflow executions that contend for one lock key
    Ttl,          \* the key's time to live, in ticks
    MaxTokens     \* bound on the tokens (randomUUID calls) ever drawn

ASSUME LockAssumption == Ttl \in Nat \ {0} /\ MaxTokens \in Nat

VARIABLES
    key,      \* the token stored under the Redis key, 0 when it is absent
    left,     \* ticks until Redis expires the key
    issued,   \* tokens drawn so far: token n is the n-th randomUUID()
    pc,       \* where each execution is
    token,    \* the token in each execution's WorkflowLock handle
    age       \* ticks since the execution's lock was granted, up to Ttl

vars == <<key, left, issued, pc, token, age>>

TypeOK ==
    /\ key \in 0..MaxTokens
    /\ left \in 0..Ttl
    /\ issued \in 0..MaxTokens
    /\ pc \in [Runs -> {"idle", "inside", "out"}]
    /\ token \in [Runs -> 0..MaxTokens]
    /\ age \in [Runs -> 0..Ttl]

Init ==
    /\ key = 0
    /\ left = 0
    /\ issued = 0
    /\ pc = [r \in Runs |-> "idle"]
    /\ token = [r \in Runs |-> 0]
    /\ age = [r \in Runs |-> 0]

-----------------------------------------------------------------------------

\* Mutant: SET without NX overwrites a key that is held.
SetWithoutNX ==
    /\ issued < MaxTokens
    /\ issued' = issued + 1
    /\ key' = issued + 1
    /\ left' = Ttl

\* Mutant: SET without EX writes a key that never expires.
SetWithoutEx ==
    /\ issued < MaxTokens
    /\ issued' = issued + 1
    /\ key = 0
    /\ key' = issued + 1
    /\ left' = 0

\* SET key token NX EX ttl with the token just drawn: the key is written.
SetNX ==
    /\ issued < MaxTokens
    /\ issued' = issued + 1
    /\ key = 0
    /\ key' = issued + 1
    /\ left' = Ttl

\* acquireWorkflowLock returns {acquired: true}.
Acquire(r) ==
    /\ pc[r] = "idle"
    /\ SetNX
    /\ pc' = [pc EXCEPT ![r] = "inside"]
    /\ token' = [token EXCEPT ![r] = issued + 1]
    /\ age' = [age EXCEPT ![r] = 0]

\* acquireWorkflowLock returns {acquired: false}: the body is skipped.
Refused(r) ==
    /\ pc[r] = "idle"
    /\ issued < MaxTokens
    /\ key # 0
    /\ issued' = issued + 1
    /\ pc' = [pc EXCEPT ![r] = "out"]
    /\ UNCHANGED <<key, left, token, age>>

\* Redis runs the SET, but the client sees an error (it throws, "out") or the
\* step is executed again by the workflow engine ("idle").
AcquireLost(r) ==
    /\ pc[r] = "idle"
    /\ SetNX
    /\ \E next \in {"idle", "out"} : pc' = [pc EXCEPT ![r] = next]
    /\ UNCHANGED <<token, age>>

\* Redis is absent or the SET never reached it: WorkflowLockUnavailableError.
AcquireThrows(r) ==
    /\ pc[r] = "idle"
    /\ pc' = [pc EXCEPT ![r] = "out"]
    /\ UNCHANGED <<key, left, issued, token, age>>

\* Mutant: DEL without comparing the token.
ReleaseAnyToken(r) ==
    /\ pc[r] = "inside"
    /\ pc' = [pc EXCEPT ![r] = "out"]
    /\ key' = 0 /\ left' = 0
    /\ UNCHANGED <<issued, token, age>>

\* The EVAL of releaseWorkflowLock: delete the key if it holds our token.
Release(r) ==
    /\ pc[r] = "inside"
    /\ pc' = [pc EXCEPT ![r] = "out"]
    /\ IF key = token[r]
         THEN key' = 0 /\ left' = 0
         ELSE UNCHANGED <<key, left>>
    /\ UNCHANGED <<issued, token, age>>

\* The execution is killed, or its EVAL never reaches Redis.
Abandon(r) ==
    /\ pc[r] = "inside"
    /\ pc' = [pc EXCEPT ![r] = "out"]
    /\ UNCHANGED <<key, left, issued, token, age>>

\* The next cron tick or operator re-trigger starts an execution afresh.
Restart(r) ==
    /\ pc[r] = "out"
    /\ pc' = [pc EXCEPT ![r] = "idle"]
    /\ UNCHANGED <<key, left, issued, token, age>>

\* One tick of Redis' clock; the key expires when its time is up.
Tick ==
    /\ left > 0
    /\ left' = left - 1
    /\ key' = IF left = 1 THEN 0 ELSE key
    /\ age' = [r \in Runs |-> IF age[r] < Ttl THEN age[r] + 1 ELSE age[r]]
    /\ UNCHANGED <<issued, pc, token>>

Next ==
    \/ \E r \in Runs :
          \/ Acquire(r) \/ Refused(r) \/ AcquireLost(r) \/ AcquireThrows(r)
          \/ Release(r) \/ Abandon(r) \/ Restart(r)
    \/ Tick

Spec == Init /\ [][Next]_vars

\* Only Redis' clock is fair: an execution may stop anywhere, for ever.
FairSpec == Spec /\ WF_vars(Tick)

-----------------------------------------------------------------------------

Inside(r) == pc[r] = "inside"

\* A run is within its lease until Ttl ticks have passed since the grant.
WithinLease(r) == Inside(r) /\ age[r] < Ttl

\* Two executions are never inside together while both leases last, however
\* their claims, crashes, lost replies and late releases interleave.
MutualExclusion ==
    \A r, s \in Runs : r # s => ~(WithinLease(r) /\ WithinLease(s))

\* Nobody takes the key away from an execution before its lease is over: not
\* another claim, and not the late release of an execution that overran.
HolderKeepsKey ==
    \A r \in Runs : WithinLease(r) => key = token[r] /\ left = Ttl - age[r]

\* A crashed holder or a lost reply cannot lock a workflow out for ever: each
\* key is gone sooner or later.
KeyExpires == \A t \in 1..MaxTokens : key = t ~> key # t

\* The lock implements the lease: its users are the tokens.
LeaseView == INSTANCE Lease WITH
    Users <- 1..MaxTokens, Nobody <- 0,
    owner <- key, inside <- {token[r] : r \in {s \in Runs : Inside(s)}}

ImplementsLease == LeaseView!Spec

=============================================================================
