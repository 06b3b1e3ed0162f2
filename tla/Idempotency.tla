---------------------------- MODULE Idempotency ----------------------------
(***************************************************************************)
(* lib/idempotency.ts: withIdempotency(key, fn).  Calls that carry the same *)
(* key look it up in Redis, claim it (SET NX), run fn, store its result and *)
(* delete the key when anything throws.  Redis calls fail before or after   *)
(* taking effect and calls die between two of them.  The key's day of life  *)
(* is longer than any request, so a key lapses only when no call works      *)
(* under it.                                                                *)
(***************************************************************************)
EXTENDS Naturals, FiniteSets

CONSTANTS
    Calls,      \* calls of withIdempotency
    Keys,       \* cache keys: scope and Idempotency-Key together
    NoCall      \* not a call

ASSUME NoCallAssumption == NoCall \notin Calls

\* What becomes of fn's result: stored, withheld because it is a one-time
\* secret (cacheResult: false), or stored in a form that cannot be read back
\* (fn returns nothing, and JSON.stringify leaves the payload out).
Policies == {"cached", "secret", "void"}

VARIABLES
    policy,     \* the policy of the endpoint behind each key
    store,      \* what Redis holds under each key
    by,         \* the call that wrote it
    at,         \* where each call is
    key,        \* the key each call carries
    answer,     \* the call whose result each call returned
    effects,    \* calls whose fn took effect
    told        \* keys with an answer their author will not take back

vars == <<policy, store, by, at, key, answer, effects, told>>

Stored == {"none", "running", "result", "sealed", "unreadable"}
Places == {"idle", "claim", "body", "save", "undo", "over"}

TypeOK ==
    /\ policy \in [Keys -> Policies]
    /\ store \in [Keys -> Stored]
    /\ by \in [Keys -> Calls \cup {NoCall}]
    /\ at \in [Calls -> Places]
    /\ key \in [Calls -> Keys]
    /\ answer \in [Calls -> Calls \cup {NoCall}]
    /\ effects \subseteq Calls
    /\ told \subseteq Keys

Init ==
    /\ policy \in [Keys -> Policies]
    /\ store = [k \in Keys |-> "none"]
    /\ by = [k \in Keys |-> NoCall]
    /\ at = [c \in Calls |-> "idle"]
    /\ key \in [Calls -> Keys]
    /\ answer = [c \in Calls |-> NoCall]
    /\ effects = {}
    /\ told = {}

-----------------------------------------------------------------------------
(* Helpers. *)

\* What Redis holds under the key of call c.
Found(c) == store[key[c]]

Goto(c, p) == at' = [at EXCEPT ![c] = p]

Write(c, value) ==
    /\ store' = [store EXCEPT ![key[c]] = value]
    /\ by' = [by EXCEPT ![key[c]] = c]

\* What fn's result is stored as.
Envelope(c) ==
    [cached |-> "result", secret |-> "sealed", void |-> "unreadable"][policy[key[c]]]

Owned == <<store, by>>
Given == <<policy, key>>

-----------------------------------------------------------------------------
(* Before the claim. *)

\* GET finds nothing.
LookMiss(c) ==
    /\ at[c] = "idle"
    /\ Found(c) = "none"
    /\ Goto(c, "claim")
    /\ UNCHANGED <<Given, Owned, answer, effects, told>>

\* Mutant: whatever GET finds is handed out.
ReplayAnything(c) ==
    /\ at[c] = "idle"
    /\ Found(c) # "none"
    /\ answer' = [answer EXCEPT ![c] = by[key[c]]]
    /\ told' = told \cup {key[c]}
    /\ Goto(c, "over")
    /\ UNCHANGED <<Given, Owned, effects>>

\* GET finds a result, and its envelope is intact: it is returned.  Its
\* author may still be about to delete it (SaveLost).
Replay(c) ==
    /\ at[c] = "idle"
    /\ Found(c) = "result"
    /\ answer' = [answer EXCEPT ![c] = by[key[c]]]
    /\ told' = IF at[by[key[c]]] = "undo" THEN told ELSE told \cup {key[c]}
    /\ Goto(c, "over")
    /\ UNCHANGED <<Given, Owned, effects>>

\* GET finds a marker or an envelope without a payload: IdempotencyReplayError.
LookRefused(c) ==
    /\ at[c] = "idle"
    /\ Found(c) \in {"running", "sealed", "unreadable"}
    /\ Goto(c, "over")
    /\ UNCHANGED <<Given, Owned, answer, effects, told>>

\* Mutant: SET without NX.
ClaimAnyway(c) ==
    /\ at[c] = "claim"
    /\ Write(c, "running")
    /\ Goto(c, "body")
    /\ UNCHANGED <<Given, answer, effects, told>>

\* SET running NX EX is granted.
Claim(c) ==
    /\ at[c] = "claim"
    /\ Found(c) = "none"
    /\ Write(c, "running")
    /\ Goto(c, "body")
    /\ UNCHANGED <<Given, answer, effects, told>>

\* Mutant: the claim is made inside the try: a refused one deletes the key.
ClaimRefusedInTry(c) ==
    /\ at[c] = "claim"
    /\ Found(c) # "none"
    /\ Goto(c, "undo")
    /\ UNCHANGED <<Given, Owned, answer, effects, told>>

\* SET NX finds the key taken: IdempotencyReplayError.
ClaimRefused(c) ==
    /\ at[c] = "claim"
    /\ Found(c) # "none"
    /\ Goto(c, "over")
    /\ UNCHANGED <<Given, Owned, answer, effects, told>>

\* SET NX is granted and its reply is lost: the call throws, outside any try.
ClaimLost(c) ==
    /\ at[c] = "claim"
    /\ Found(c) = "none"
    /\ Write(c, "running")
    /\ Goto(c, "over")
    /\ UNCHANGED <<Given, answer, effects, told>>

-----------------------------------------------------------------------------
(* Under the claim. *)

\* fn returns.
BodyReturns(c) ==
    /\ at[c] = "body"
    /\ effects' = effects \cup {c}
    /\ Goto(c, "save")
    /\ UNCHANGED <<Given, Owned, answer, told>>

\* fn throws, before or after it took effect.
BodyThrows(c) ==
    /\ at[c] = "body"
    /\ effects' \in {effects, effects \cup {c}}
    /\ Goto(c, "undo")
    /\ UNCHANGED <<Given, Owned, answer, told>>

\* Mutant: the key is released in a `finally`.
SaveAndRelease(c) ==
    /\ at[c] = "save"
    /\ Write(c, "none")
    /\ answer' = [answer EXCEPT ![c] = c]
    /\ told' = told \cup {key[c]}
    /\ Goto(c, "over")
    /\ UNCHANGED <<Given, effects>>

\* Mutant: cacheResult is ignored.
SaveSecret(c) ==
    /\ at[c] = "save"
    /\ Write(c, "result")
    /\ answer' = [answer EXCEPT ![c] = c]
    /\ told' = told \cup {key[c]}
    /\ Goto(c, "over")
    /\ UNCHANGED <<Given, effects>>

\* SET of the result or of its marker: the call returns the result.
Save(c) ==
    /\ at[c] = "save"
    /\ Write(c, Envelope(c))
    /\ answer' = [answer EXCEPT ![c] = c]
    /\ told' = told \cup {key[c]}
    /\ Goto(c, "over")
    /\ UNCHANGED <<Given, effects>>

\* The SET takes effect and its reply is lost.
SaveLost(c) ==
    /\ at[c] = "save"
    /\ Write(c, Envelope(c))
    /\ Goto(c, "undo")
    /\ UNCHANGED <<Given, answer, effects, told>>

\* The SET fails.
SaveFails(c) ==
    /\ at[c] = "save"
    /\ Goto(c, "undo")
    /\ UNCHANGED <<Given, Owned, answer, effects, told>>

\* The catch block: DEL, unconditionally, then the error is thrown on.
Undo(c) ==
    /\ at[c] = "undo"
    /\ store' = [store EXCEPT ![key[c]] = "none"]
    /\ by' = [by EXCEPT ![key[c]] = NoCall]
    /\ Goto(c, "over")
    /\ UNCHANGED <<Given, answer, effects, told>>

-----------------------------------------------------------------------------
(* The environment. *)

\* The function dies, or a Redis call outside the try (GET, SET NX, DEL)
\* throws without effect.  What was written stays.
Die(c) ==
    /\ at[c] # "over"
    /\ effects' \in IF at[c] = "body" THEN {effects, effects \cup {c}} ELSE {effects}
    /\ Goto(c, "over")
    /\ UNCHANGED <<Given, Owned, answer, told>>

\* EX: Redis drops the key.
Lapse(k) ==
    /\ store[k] # "none"
    /\ at[by[k]] = "over"
    /\ store' = [store EXCEPT ![k] = "none"]
    /\ by' = [by EXCEPT ![k] = NoCall]
    /\ told' = told \ {k}
    /\ UNCHANGED <<Given, at, answer, effects>>

CallStep(c) ==
    \/ LookMiss(c) \/ Replay(c) \/ LookRefused(c)
    \/ Claim(c) \/ ClaimRefused(c) \/ ClaimLost(c)
    \/ BodyReturns(c) \/ BodyThrows(c)
    \/ Save(c) \/ SaveLost(c) \/ SaveFails(c)
    \/ Undo(c) \/ Die(c)

Next ==
    \/ \E c \in Calls : CallStep(c)
    \/ \E k \in Keys : Lapse(k)

Spec == Init /\ [][Next]_vars

-----------------------------------------------------------------------------

\* fn never runs in two calls with one key at a time (the test "claims the
\* key before running side effects").
OneAtATime ==
    \A c, d \in Calls : at[c] = "body" /\ at[d] = "body" /\ key[c] = key[d] => c = d

\* What a call returns is the result of an fn that ran under the same key and
\* took effect: a marker, another key's result or a call that failed is never
\* replayed.
ReplayIsGenuine ==
    \A c \in Calls : answer[c] # NoCall =>
        answer[c] \in effects /\ key[answer[c]] = key[c]

\* A one-time secret is returned by the call that made it and by no other
\* (cacheResult: false, for API keys and MFA enrolment).
SecretShownOnce ==
    \A c \in Calls : policy[key[c]] = "secret" => answer[c] \in {c, NoCall}

\* Once a call returned an answer, fn does not run again under its key before
\* the key lapses; the exception is an answer replayed while the call that
\* stored it is about to delete it because the SET's reply was lost.
AnsweredOnce ==
    [][\A c \in Calls : at[c] # "body" /\ at'[c] = "body" => key[c] \notin told]_vars

\* A key as a lease: it is owned by the call that wrote it, and a call is inside
\* from its claim until it has stored its result or deleted the key.
KeyLease(k) == INSTANCE Lease WITH
    Users <- Calls,
    Nobody <- NoCall,
    owner <- IF store[k] = "none" THEN NoCall ELSE by[k],
    inside <- {c \in Calls : key[c] = k /\ at[c] \in {"body", "save", "undo"}}

\* Every key is a lease (module Lease, as the workflows' lock is): only an empty
\* key lets a call in, and a call that leaves empties no key but its own.
KeysAreLeases ==
    /\ \A k \in Keys : KeyLease(k)!Init
    /\ [][\A k \in Keys : [KeyLease(k)!Next]_(KeyLease(k)!vars)]_vars

=============================================================================
