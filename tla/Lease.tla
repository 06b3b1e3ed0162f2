------------------------------- MODULE Lease -------------------------------
(***************************************************************************)
(* What a caller of lib/workflow-locks.ts may rely on, with the key's TTL   *)
(* hidden: one slot, owned by at most one user at a time; a user that is    *)
(* inside got in through an empty slot; leaving empties the slot only for   *)
(* the user that still owns it; and the slot may be emptied behind its      *)
(* owner's back (the lease lapses).  WorkflowLock implements this module,   *)
(* Rebalance is built on it.                                                *)
(***************************************************************************)
CONSTANTS Users, Nobody

VARIABLES
    owner,    \* the user whose token the Redis key holds, or Nobody
    inside    \* the users that were told `acquired: true` and have not left

vars == <<owner, inside>>

TypeOK ==
    /\ owner \in Users \cup {Nobody}
    /\ inside \subseteq Users

Init ==
    /\ owner = Nobody
    /\ inside = {}

Acquire(u) ==
    /\ owner = Nobody
    /\ u \notin inside
    /\ owner' = u
    /\ inside' = inside \cup {u}

\* The claim reached Redis but its caller never learned of it.
Orphan(u) ==
    /\ owner = Nobody
    /\ u \notin inside
    /\ owner' = u
    /\ UNCHANGED inside

Release(u) ==
    /\ u \in inside
    /\ inside' = inside \ {u}
    /\ owner' = IF owner = u THEN Nobody ELSE owner

\* The user dies, or its release fails: the key stays until it lapses.
Abandon(u) ==
    /\ u \in inside
    /\ inside' = inside \ {u}
    /\ UNCHANGED owner

Lapse ==
    /\ owner # Nobody
    /\ owner' = Nobody
    /\ UNCHANGED inside

Next ==
    \/ \E u \in Users : Acquire(u) \/ Orphan(u) \/ Release(u) \/ Abandon(u)
    \/ Lapse

Spec == Init /\ [][Next]_vars

=============================================================================
