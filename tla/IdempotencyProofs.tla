------------------------- MODULE IdempotencyProofs -------------------------
(***************************************************************************)
(* Proofs about Idempotency, for every set of calls and keys, and about     *)
(* DexscreenerOrder, whose visits go by two kinds of idempotency keys, for  *)
(* every set of visits and images.                                          *)
(***************************************************************************)
EXTENDS Idempotency, DexscreenerOrder, TLAPS

\* A call that runs fn, stores its result or deletes the key owns the key, and
\* the key says "running" until the result is stored.
OwnerHolds ==
    \A c \in Calls :
        /\ at[c] \in {"body", "save", "undo"} => by[key[c]] = c /\ store[key[c]] # "none"
        /\ at[c] \in {"body", "save"} => store[key[c]] = "running"
        /\ at[c] = "save" => c \in effects

\* What is stored was written by a call with that key, and a result that can
\* be replayed is no secret and comes from an fn that took effect.
StoredByCall ==
    \A k \in Keys :
        /\ store[k] # "none" =>
            by[k] \in Calls /\ key[by[k]] = k /\ at[by[k]] \notin {"idle", "claim"}
        /\ store[k] = "result" => by[k] \in effects /\ policy[k] = "cached"

\* An answer that will not be taken back is stored, and its author is done.
ToldSettled ==
    \A k \in told : store[k] \notin {"none", "running"} /\ at[by[k]] = "over"

IInv ==
    /\ TypeOK
    /\ OwnerHolds
    /\ StoredByCall
    /\ ToldSettled
    /\ ReplayIsGenuine
    /\ SecretShownOnce

-----------------------------------------------------------------------------

\* What a result is stored as.
LEMMA EnvelopeKind ==
    ASSUME TypeOK, NEW c \in Calls
    PROVE  /\ Envelope(c) \in {"result", "sealed", "unreadable"}
           /\ Envelope(c) = "result" => policy[key[c]] = "cached"
BY DEF TypeOK, Policies, Envelope

LEMMA InitIInv == Init => IInv
BY NoCallAssumption
   DEF Init, IInv, TypeOK, Policies, Stored, Places, OwnerHolds, StoredByCall,
       ToldSettled, ReplayIsGenuine, SecretShownOnce

\* Every step keeps the types.
LEMMA TypeStep == IInv /\ [Next]_vars => TypeOK'
<1> SUFFICES ASSUME IInv, [Next]_vars PROVE TypeOK'
    OBVIOUS
<1> USE NoCallAssumption DEF IInv, TypeOK, Stored, Places, Policies, StoredByCall, Goto, Given, Owned
<1>1. ASSUME NEW c \in Calls, LookMiss(c) PROVE TypeOK'
    BY <1>1 DEF LookMiss, Found
<1>2. ASSUME NEW c \in Calls, Replay(c) PROVE TypeOK'
    BY <1>2 DEF Replay, Found
<1>3. ASSUME NEW c \in Calls, LookRefused(c) PROVE TypeOK'
    BY <1>3 DEF LookRefused, Found
<1>4. ASSUME NEW c \in Calls, Claim(c) PROVE TypeOK'
    BY <1>4 DEF Claim, Found, Write
<1>5. ASSUME NEW c \in Calls, ClaimRefused(c) PROVE TypeOK'
    BY <1>5 DEF ClaimRefused, Found
<1>6. ASSUME NEW c \in Calls, ClaimLost(c) PROVE TypeOK'
    BY <1>6 DEF ClaimLost, Found, Write
<1>7. ASSUME NEW c \in Calls, BodyReturns(c) PROVE TypeOK'
    BY <1>7 DEF BodyReturns
<1>8. ASSUME NEW c \in Calls, BodyThrows(c) PROVE TypeOK'
    BY <1>8 DEF BodyThrows
<1>9. ASSUME NEW c \in Calls, Save(c) PROVE TypeOK'
    BY <1>9, EnvelopeKind DEF Save, Write
<1>10. ASSUME NEW c \in Calls, SaveLost(c) PROVE TypeOK'
    BY <1>10, EnvelopeKind DEF SaveLost, Write
<1>11. ASSUME NEW c \in Calls, SaveFails(c) PROVE TypeOK'
    BY <1>11 DEF SaveFails
<1>12. ASSUME NEW c \in Calls, Undo(c) PROVE TypeOK'
    BY <1>12 DEF Undo
<1>13. ASSUME NEW c \in Calls, Die(c) PROVE TypeOK'
    BY <1>13 DEF Die
<1>14. ASSUME NEW k \in Keys, Lapse(k) PROVE TypeOK'
    BY <1>14 DEF Lapse
<1>15. CASE UNCHANGED vars
    BY <1>15 DEF vars
<1>16. QED
    BY <1>1, <1>2, <1>3, <1>4, <1>5, <1>6, <1>7, <1>8, <1>9, <1>10, <1>11,
       <1>12, <1>13, <1>14, <1>15 DEF Next, CallStep

\* A key is written by its owner only: a claim needs it free, a lapse its owner done.
LEMMA OwnerStep == IInv /\ [Next]_vars => OwnerHolds'
<1> SUFFICES ASSUME IInv, [Next]_vars PROVE OwnerHolds'
    OBVIOUS
<1> USE NoCallAssumption DEF IInv, TypeOK, OwnerHolds, StoredByCall, Goto, Given, Owned
<1>1. ASSUME NEW c \in Calls, LookMiss(c) PROVE OwnerHolds'
    BY <1>1 DEF LookMiss, Found
<1>2. ASSUME NEW c \in Calls, Replay(c) PROVE OwnerHolds'
    BY <1>2 DEF Replay, Found
<1>3. ASSUME NEW c \in Calls, LookRefused(c) PROVE OwnerHolds'
    BY <1>3 DEF LookRefused, Found
<1>4. ASSUME NEW c \in Calls, Claim(c) PROVE OwnerHolds'
    BY <1>4 DEF Claim, Found, Write
<1>5. ASSUME NEW c \in Calls, ClaimRefused(c) PROVE OwnerHolds'
    BY <1>5 DEF ClaimRefused, Found
<1>6. ASSUME NEW c \in Calls, ClaimLost(c) PROVE OwnerHolds'
    BY <1>6 DEF ClaimLost, Found, Write
<1>7. ASSUME NEW c \in Calls, BodyReturns(c) PROVE OwnerHolds'
    BY <1>7 DEF BodyReturns
<1>8. ASSUME NEW c \in Calls, BodyThrows(c) PROVE OwnerHolds'
    BY <1>8 DEF BodyThrows
<1>9. ASSUME NEW c \in Calls, Save(c) PROVE OwnerHolds'
    BY <1>9, EnvelopeKind DEF Save, Write
<1>10. ASSUME NEW c \in Calls, SaveLost(c) PROVE OwnerHolds'
    BY <1>10, EnvelopeKind DEF SaveLost, Write
<1>11. ASSUME NEW c \in Calls, SaveFails(c) PROVE OwnerHolds'
    BY <1>11 DEF SaveFails
<1>12. ASSUME NEW c \in Calls, Undo(c) PROVE OwnerHolds'
    BY <1>12 DEF Undo
<1>13. ASSUME NEW c \in Calls, Die(c) PROVE OwnerHolds'
    BY <1>13 DEF Die
<1>14. ASSUME NEW k \in Keys, Lapse(k) PROVE OwnerHolds'
    BY <1>14 DEF Lapse
<1>15. CASE UNCHANGED vars
    BY <1>15 DEF vars
<1>16. QED
    BY <1>1, <1>2, <1>3, <1>4, <1>5, <1>6, <1>7, <1>8, <1>9, <1>10, <1>11,
       <1>12, <1>13, <1>14, <1>15 DEF Next, CallStep

\* Results come from owners whose fn returned.
LEMMA StoredStep == IInv /\ [Next]_vars => StoredByCall'
<1> SUFFICES ASSUME IInv, [Next]_vars PROVE StoredByCall'
    OBVIOUS
<1> USE NoCallAssumption DEF IInv, TypeOK, OwnerHolds, StoredByCall, Policies, Goto, Given, Owned
<1>1. ASSUME NEW c \in Calls, LookMiss(c) PROVE StoredByCall'
    BY <1>1 DEF LookMiss, Found
<1>2. ASSUME NEW c \in Calls, Replay(c) PROVE StoredByCall'
    BY <1>2 DEF Replay, Found
<1>3. ASSUME NEW c \in Calls, LookRefused(c) PROVE StoredByCall'
    BY <1>3 DEF LookRefused, Found
<1>4. ASSUME NEW c \in Calls, Claim(c) PROVE StoredByCall'
    BY <1>4 DEF Claim, Found, Write
<1>5. ASSUME NEW c \in Calls, ClaimRefused(c) PROVE StoredByCall'
    BY <1>5 DEF ClaimRefused, Found
<1>6. ASSUME NEW c \in Calls, ClaimLost(c) PROVE StoredByCall'
    BY <1>6 DEF ClaimLost, Found, Write
<1>7. ASSUME NEW c \in Calls, BodyReturns(c) PROVE StoredByCall'
    BY <1>7 DEF BodyReturns
<1>8. ASSUME NEW c \in Calls, BodyThrows(c) PROVE StoredByCall'
    BY <1>8 DEF BodyThrows
<1>9. ASSUME NEW c \in Calls, Save(c) PROVE StoredByCall'
    BY <1>9, EnvelopeKind DEF Save, Write
<1>10. ASSUME NEW c \in Calls, SaveLost(c) PROVE StoredByCall'
    BY <1>10, EnvelopeKind DEF SaveLost, Write
<1>11. ASSUME NEW c \in Calls, SaveFails(c) PROVE StoredByCall'
    BY <1>11 DEF SaveFails
<1>12. ASSUME NEW c \in Calls, Undo(c) PROVE StoredByCall'
    BY <1>12 DEF Undo
<1>13. ASSUME NEW c \in Calls, Die(c) PROVE StoredByCall'
    BY <1>13 DEF Die
<1>14. ASSUME NEW k \in Keys, Lapse(k) PROVE StoredByCall'
    BY <1>14 DEF Lapse
<1>15. CASE UNCHANGED vars
    BY <1>15 DEF vars
<1>16. QED
    BY <1>1, <1>2, <1>3, <1>4, <1>5, <1>6, <1>7, <1>8, <1>9, <1>10, <1>11,
       <1>12, <1>13, <1>14, <1>15 DEF Next, CallStep

\* Only its author could delete an answer, and the author is done.
LEMMA ToldStep == IInv /\ [Next]_vars => ToldSettled'
<1> SUFFICES ASSUME IInv, [Next]_vars PROVE ToldSettled'
    OBVIOUS
<1> USE NoCallAssumption DEF IInv, TypeOK, OwnerHolds, StoredByCall, ToldSettled, Goto, Given, Owned
<1>1. ASSUME NEW c \in Calls, LookMiss(c) PROVE ToldSettled'
    BY <1>1 DEF LookMiss, Found
<1>2. ASSUME NEW c \in Calls, Replay(c) PROVE ToldSettled'
    <2> DEFINE k == key[c]
    <2>1. k \in Keys /\ at[c] = "idle" /\ store[k] = "result" /\ by[k] \in Calls
        BY <1>2 DEF Replay, Found
    <2>2. at[by[k]] \in {"undo", "over"}
        BY <2>1 DEF Places
    <2>3. told' = IF at[by[k]] = "undo" THEN told ELSE told \cup {k}
        BY <1>2 DEF Replay
    <2>4. store' = store /\ by' = by /\ at' = [at EXCEPT ![c] = "over"]
        BY <1>2 DEF Replay
    <2>5. ASSUME NEW j \in told' PROVE store[j] \notin {"none", "running"} /\ at[by[j]] = "over"
        BY <2>1, <2>2, <2>3, <2>5
    <2>6. told' \subseteq Keys
        BY <2>1, <2>3
    <2>7. QED
        BY <2>4, <2>5, <2>6
<1>3. ASSUME NEW c \in Calls, LookRefused(c) PROVE ToldSettled'
    BY <1>3 DEF LookRefused, Found
<1>4. ASSUME NEW c \in Calls, Claim(c) PROVE ToldSettled'
    BY <1>4 DEF Claim, Found, Write
<1>5. ASSUME NEW c \in Calls, ClaimRefused(c) PROVE ToldSettled'
    BY <1>5 DEF ClaimRefused, Found
<1>6. ASSUME NEW c \in Calls, ClaimLost(c) PROVE ToldSettled'
    BY <1>6 DEF ClaimLost, Found, Write
<1>7. ASSUME NEW c \in Calls, BodyReturns(c) PROVE ToldSettled'
    BY <1>7 DEF BodyReturns
<1>8. ASSUME NEW c \in Calls, BodyThrows(c) PROVE ToldSettled'
    BY <1>8 DEF BodyThrows
<1>9. ASSUME NEW c \in Calls, Save(c) PROVE ToldSettled'
    BY <1>9, EnvelopeKind DEF Save, Write
<1>10. ASSUME NEW c \in Calls, SaveLost(c) PROVE ToldSettled'
    BY <1>10, EnvelopeKind DEF SaveLost, Write
<1>11. ASSUME NEW c \in Calls, SaveFails(c) PROVE ToldSettled'
    BY <1>11 DEF SaveFails
<1>12. ASSUME NEW c \in Calls, Undo(c) PROVE ToldSettled'
    BY <1>12 DEF Undo
<1>13. ASSUME NEW c \in Calls, Die(c) PROVE ToldSettled'
    BY <1>13 DEF Die
<1>14. ASSUME NEW k \in Keys, Lapse(k) PROVE ToldSettled'
    BY <1>14 DEF Lapse
<1>15. CASE UNCHANGED vars
    BY <1>15 DEF vars
<1>16. QED
    BY <1>1, <1>2, <1>3, <1>4, <1>5, <1>6, <1>7, <1>8, <1>9, <1>10, <1>11,
       <1>12, <1>13, <1>14, <1>15 DEF Next, CallStep

\* A replay hands out what StoredByCall allows.
LEMMA GenuineStep == IInv /\ [Next]_vars => ReplayIsGenuine'
<1> SUFFICES ASSUME IInv, [Next]_vars PROVE ReplayIsGenuine'
    OBVIOUS
<1> USE NoCallAssumption DEF IInv, TypeOK, OwnerHolds, StoredByCall, ReplayIsGenuine, Goto, Given, Owned
<1>1. ASSUME NEW c \in Calls, LookMiss(c) PROVE ReplayIsGenuine'
    BY <1>1 DEF LookMiss, Found
<1>2. ASSUME NEW c \in Calls, Replay(c) PROVE ReplayIsGenuine'
    BY <1>2 DEF Replay, Found
<1>3. ASSUME NEW c \in Calls, LookRefused(c) PROVE ReplayIsGenuine'
    BY <1>3 DEF LookRefused, Found
<1>4. ASSUME NEW c \in Calls, Claim(c) PROVE ReplayIsGenuine'
    BY <1>4 DEF Claim, Found, Write
<1>5. ASSUME NEW c \in Calls, ClaimRefused(c) PROVE ReplayIsGenuine'
    BY <1>5 DEF ClaimRefused, Found
<1>6. ASSUME NEW c \in Calls, ClaimLost(c) PROVE ReplayIsGenuine'
    BY <1>6 DEF ClaimLost, Found, Write
<1>7. ASSUME NEW c \in Calls, BodyReturns(c) PROVE ReplayIsGenuine'
    BY <1>7 DEF BodyReturns
<1>8. ASSUME NEW c \in Calls, BodyThrows(c) PROVE ReplayIsGenuine'
    BY <1>8 DEF BodyThrows
<1>9. ASSUME NEW c \in Calls, Save(c) PROVE ReplayIsGenuine'
    BY <1>9, EnvelopeKind DEF Save, Write
<1>10. ASSUME NEW c \in Calls, SaveLost(c) PROVE ReplayIsGenuine'
    BY <1>10, EnvelopeKind DEF SaveLost, Write
<1>11. ASSUME NEW c \in Calls, SaveFails(c) PROVE ReplayIsGenuine'
    BY <1>11 DEF SaveFails
<1>12. ASSUME NEW c \in Calls, Undo(c) PROVE ReplayIsGenuine'
    BY <1>12 DEF Undo
<1>13. ASSUME NEW c \in Calls, Die(c) PROVE ReplayIsGenuine'
    BY <1>13 DEF Die
<1>14. ASSUME NEW k \in Keys, Lapse(k) PROVE ReplayIsGenuine'
    BY <1>14 DEF Lapse
<1>15. CASE UNCHANGED vars
    BY <1>15 DEF vars
<1>16. QED
    BY <1>1, <1>2, <1>3, <1>4, <1>5, <1>6, <1>7, <1>8, <1>9, <1>10, <1>11,
       <1>12, <1>13, <1>14, <1>15 DEF Next, CallStep

\* A secret is never stored as a result.
LEMMA SecretStep == IInv /\ [Next]_vars => SecretShownOnce'
<1> SUFFICES ASSUME IInv, [Next]_vars PROVE SecretShownOnce'
    OBVIOUS
<1> USE NoCallAssumption DEF IInv, TypeOK, OwnerHolds, StoredByCall, SecretShownOnce, Goto, Given, Owned
<1>1. ASSUME NEW c \in Calls, LookMiss(c) PROVE SecretShownOnce'
    BY <1>1 DEF LookMiss, Found
<1>2. ASSUME NEW c \in Calls, Replay(c) PROVE SecretShownOnce'
    BY <1>2 DEF Replay, Found
<1>3. ASSUME NEW c \in Calls, LookRefused(c) PROVE SecretShownOnce'
    BY <1>3 DEF LookRefused, Found
<1>4. ASSUME NEW c \in Calls, Claim(c) PROVE SecretShownOnce'
    BY <1>4 DEF Claim, Found, Write
<1>5. ASSUME NEW c \in Calls, ClaimRefused(c) PROVE SecretShownOnce'
    BY <1>5 DEF ClaimRefused, Found
<1>6. ASSUME NEW c \in Calls, ClaimLost(c) PROVE SecretShownOnce'
    BY <1>6 DEF ClaimLost, Found, Write
<1>7. ASSUME NEW c \in Calls, BodyReturns(c) PROVE SecretShownOnce'
    BY <1>7 DEF BodyReturns
<1>8. ASSUME NEW c \in Calls, BodyThrows(c) PROVE SecretShownOnce'
    BY <1>8 DEF BodyThrows
<1>9. ASSUME NEW c \in Calls, Save(c) PROVE SecretShownOnce'
    BY <1>9, EnvelopeKind DEF Save, Write
<1>10. ASSUME NEW c \in Calls, SaveLost(c) PROVE SecretShownOnce'
    BY <1>10, EnvelopeKind DEF SaveLost, Write
<1>11. ASSUME NEW c \in Calls, SaveFails(c) PROVE SecretShownOnce'
    BY <1>11 DEF SaveFails
<1>12. ASSUME NEW c \in Calls, Undo(c) PROVE SecretShownOnce'
    BY <1>12 DEF Undo
<1>13. ASSUME NEW c \in Calls, Die(c) PROVE SecretShownOnce'
    BY <1>13 DEF Die
<1>14. ASSUME NEW k \in Keys, Lapse(k) PROVE SecretShownOnce'
    BY <1>14 DEF Lapse
<1>15. CASE UNCHANGED vars
    BY <1>15 DEF vars
<1>16. QED
    BY <1>1, <1>2, <1>3, <1>4, <1>5, <1>6, <1>7, <1>8, <1>9, <1>10, <1>11,
       <1>12, <1>13, <1>14, <1>15 DEF Next, CallStep

-----------------------------------------------------------------------------

THEOREM Inductive == Spec => []IInv
<1>1. IInv /\ [Next]_vars => IInv'
    BY TypeStep, OwnerStep, StoredStep, ToldStep, GenuineStep, SecretStep DEF IInv
<1>2. QED
    BY InitIInv, <1>1, PTL DEF Spec

\* The variables keep their types, for every set of calls and keys.
THEOREM TypeCorrect == Spec => []TypeOK
BY Inductive, PTL DEF IInv

\* fn never runs in two calls with one key at a time: both would own the key.
THEOREM ExclusiveFn == Spec => []OneAtATime
<1>1. IInv => OneAtATime
    BY DEF IInv, OwnerHolds, OneAtATime
<1>2. QED
    BY Inductive, <1>1, PTL

\* What is replayed is the result of an fn that took effect under this key.
THEOREM GenuineReplay == Spec => []ReplayIsGenuine
BY Inductive, PTL DEF IInv

\* A one-time secret is returned to the call that made it and to no other.
THEOREM SecretOnce == Spec => []SecretShownOnce
BY Inductive, PTL DEF IInv

\* fn does not run again under a key whose answer was given for good: a claim
\* needs the key free, and the answer occupies it.
THEOREM AnswerStands == Spec => AnsweredOnce
<1>1. IInv /\ [Next]_vars =>
        [\A c \in Calls : at[c] # "body" /\ at'[c] = "body" => key[c] \notin told]_vars
    <2> SUFFICES ASSUME IInv, Next, NEW c \in Calls, at[c] # "body", at'[c] = "body"
                 PROVE key[c] \notin told
        BY DEF vars
    <2>1. ASSUME NEW d \in Calls, CallStep(d) PROVE Claim(c)
        <3> USE DEF IInv, TypeOK, Places, Goto
        <3>1. Claim(d)
            BY <2>1 DEF CallStep, LookMiss, Replay, LookRefused, Claim, ClaimRefused, ClaimLost,
               BodyReturns, BodyThrows, Save, SaveLost, SaveFails,
               Undo, Die
        <3>2. QED
            BY <3>1 DEF Claim
    <2>2. ASSUME NEW k \in Keys, Lapse(k) PROVE FALSE
        BY <2>2 DEF Lapse
    <2>3. Claim(c)
        BY <2>1, <2>2 DEF Next
    <2>4. QED
        BY <2>3 DEF Claim, Found, IInv, ToldSettled
<1>2. QED
    BY Inductive, <1>1, PTL DEF Spec, AnsweredOnce

-----------------------------------------------------------------------------
(* Keys are leases. *)

\* The owner of a key, and who is inside.
Owner(k) == IF store[k] = "none" THEN NoCall ELSE by[k]
Inside == {"body", "save", "undo"}
In(k) == {c \in Calls : key[c] = k /\ at[c] \in Inside}

LeaseStep(k) == [KeyLease(k)!Next]_(KeyLease(k)!vars)

\* The steps of a key's lease.
LEMMA LeaseActions ==
    ASSUME NEW k \in Keys
    PROVE  /\ UNCHANGED <<Owner(k), In(k)>> => LeaseStep(k)
           /\ Owner(k) # NoCall /\ Owner(k)' = NoCall /\ In(k)' = In(k) => LeaseStep(k)
           /\ \A c \in Calls :
                /\ Owner(k) = NoCall /\ c \notin In(k) /\ Owner(k)' = c
                /\ In(k)' \in {In(k), In(k) \cup {c}}
                => LeaseStep(k)
           /\ \A c \in Calls :
                /\ c \in In(k) /\ In(k)' = In(k) \ {c}
                /\ Owner(k)' \in {Owner(k), IF Owner(k) = c THEN NoCall ELSE Owner(k)}
                => LeaseStep(k)
BY DEF LeaseStep, Owner, In, Inside, KeyLease!Next, KeyLease!vars, KeyLease!Acquire, KeyLease!Orphan,
       KeyLease!Release, KeyLease!Abandon, KeyLease!Lapse

\* A call that stays inside or outside, or is about another key, leaves who is
\* inside as it is.
LEMMA InStays ==
    ASSUME TypeOK, NEW k \in Keys, NEW c \in Calls, NEW p, Goto(c, p), key' = key,
           key[c] # k \/ (at[c] \in Inside <=> p \in Inside)
    PROVE  In(k)' = In(k)
<1>1. \A d \in Calls : at'[d] = IF d = c THEN p ELSE at[d]
    BY DEF TypeOK, Goto
<1> QED
    BY <1>1 DEF In

LEMMA InMoves ==
    ASSUME TypeOK, NEW c \in Calls, NEW p, Goto(c, p), key' = key
    PROVE  /\ at[c] \notin Inside /\ p \in Inside =>
                c \notin In(key[c]) /\ In(key[c])' = In(key[c]) \cup {c}
           /\ at[c] \in Inside /\ p \notin Inside =>
                c \in In(key[c]) /\ In(key[c])' = In(key[c]) \ {c}
<1>1. \A d \in Calls : at'[d] = IF d = c THEN p ELSE at[d]
    BY DEF TypeOK, Goto
<1>2. key'[c] = key[c]
    OBVIOUS
<1> QED
    BY <1>1, <1>2 DEF In

LEMMA LeaseKept == IInv /\ [Next]_vars => \A k \in Keys : LeaseStep(k)
<1> SUFFICES ASSUME IInv, [Next]_vars, NEW k \in Keys PROVE LeaseStep(k)
    OBVIOUS
<1> USE DEF IInv
<1>1. ASSUME NEW c \in Calls, LookMiss(c) \/ Replay(c) \/ LookRefused(c) \/ ClaimRefused(c)
      PROVE  LeaseStep(k)
    <2>1. In(k)' = In(k)
        BY <1>1, InStays DEF LookMiss, Replay, LookRefused, ClaimRefused, Inside, Given
    <2>2. Owner(k)' = Owner(k)
        BY <1>1 DEF LookMiss, Replay, LookRefused, ClaimRefused, Owner, Owned
    <2> QED
        BY <2>1, <2>2, LeaseActions
<1>2. ASSUME NEW c \in Calls, Claim(c) \/ ClaimLost(c) PROVE LeaseStep(k)
    <2>1. /\ Found(c) = "none" /\ key' = key /\ Write(c, "running") /\ at[c] \notin Inside
          /\ Goto(c, "body") \/ Goto(c, "over")
        BY <1>2 DEF Claim, ClaimLost, Given, Inside
    <2>2. CASE key[c] # k
        <3>1. In(k)' = In(k)
            BY <2>1, <2>2, InStays
        <3>2. Owner(k)' = Owner(k)
            BY <2>1, <2>2 DEF Write, Owner, TypeOK
        <3> QED
            BY <3>1, <3>2, LeaseActions
    <2>3. CASE key[c] = k
        <3>1. Owner(k) = NoCall /\ Owner(k)' = c
            BY <2>1, <2>3 DEF Found, Write, Owner, TypeOK
        <3>2. c \notin In(k) /\ In(k)' \in {In(k), In(k) \cup {c}}
            <4>1. CASE Goto(c, "body")
                BY <2>1, <2>3, <4>1, InMoves DEF Inside
            <4>2. CASE Goto(c, "over")
                BY <2>1, <4>2, InStays DEF In, Inside
            <4> QED
                BY <2>1, <4>1, <4>2
        <3> QED
            BY <3>1, <3>2, LeaseActions
    <2> QED
        BY <2>2, <2>3
<1>3. ASSUME NEW c \in Calls, BodyReturns(c) \/ BodyThrows(c) \/ SaveFails(c) PROVE LeaseStep(k)
    <2>1. In(k)' = In(k)
        BY <1>3, InStays DEF BodyReturns, BodyThrows, SaveFails, Inside, Given
    <2>2. Owner(k)' = Owner(k)
        BY <1>3 DEF BodyReturns, BodyThrows, SaveFails, Owner, Owned
    <2> QED
        BY <2>1, <2>2, LeaseActions
<1>4. ASSUME NEW c \in Calls, Save(c) \/ SaveLost(c) PROVE LeaseStep(k)
    <2>1. /\ at[c] \in Inside /\ key' = key /\ Write(c, Envelope(c))
          /\ Goto(c, "over") \/ Goto(c, "undo")
          /\ by[key[c]] = c /\ store[key[c]] # "none"
        BY <1>4 DEF Save, SaveLost, Given, Inside, OwnerHolds
    <2>2. Owner(k)' = Owner(k)
        BY <2>1, EnvelopeKind DEF Write, Owner, TypeOK
    <2>3. In(k)' = In(k) \/ (c \in In(k) /\ In(k)' = In(k) \ {c})
        <3>1. CASE Goto(c, "undo") \/ key[c] # k
            BY <2>1, <3>1, InStays DEF Inside
        <3>2. CASE Goto(c, "over") /\ key[c] = k
            BY <2>1, <3>2, InMoves DEF Inside
        <3> QED
            BY <2>1, <3>1, <3>2
    <2> QED
        BY <2>2, <2>3, LeaseActions
<1>5. ASSUME NEW c \in Calls, Undo(c) PROVE LeaseStep(k)
    <2>1. at[c] \in Inside /\ key' = key /\ Goto(c, "over") /\ by[key[c]] = c /\ store[key[c]] # "none"
        BY <1>5 DEF Undo, Given, Inside, OwnerHolds
    <2>2. CASE key[c] # k
        <3>1. In(k)' = In(k)
            BY <2>1, <2>2, InStays
        <3>2. Owner(k)' = Owner(k)
            BY <1>5, <2>2 DEF Undo, Owner, TypeOK
        <3> QED
            BY <3>1, <3>2, LeaseActions
    <2>3. CASE key[c] = k
        <3>1. c \in In(k) /\ In(k)' = In(k) \ {c}
            BY <2>1, <2>3, InMoves DEF Inside
        <3>2. Owner(k) = c /\ Owner(k)' = NoCall
            BY <1>5, <2>1, <2>3 DEF Undo, Owner, TypeOK
        <3> QED
            BY <3>1, <3>2, LeaseActions
    <2> QED
        BY <2>2, <2>3
<1>6. ASSUME NEW c \in Calls, Die(c) PROVE LeaseStep(k)
    <2>1. key' = key /\ Goto(c, "over") /\ Owner(k)' = Owner(k)
        BY <1>6 DEF Die, Given, Owned, Owner
    <2>2. In(k)' = In(k) \/ (c \in In(k) /\ In(k)' = In(k) \ {c})
        <3>1. CASE key[c] # k \/ at[c] \notin Inside
            BY <2>1, <3>1, InStays DEF Inside
        <3>2. CASE key[c] = k /\ at[c] \in Inside
            BY <2>1, <3>2, InMoves DEF Inside
        <3> QED
            BY <3>1, <3>2
    <2> QED
        BY <2>1, <2>2, LeaseActions
<1>7. ASSUME NEW j \in Keys, Lapse(j) PROVE LeaseStep(k)
    <2>1. In(k)' = In(k)
        BY <1>7 DEF Lapse, In, Given
    <2>2. CASE j = k
        <3>1. Owner(k) # NoCall /\ Owner(k)' = NoCall
            BY <1>7, <2>2, NoCallAssumption DEF Lapse, Owner, TypeOK, StoredByCall
        <3> QED
            BY <2>1, <3>1, LeaseActions
    <2>3. CASE j # k
        <3>1. Owner(k)' = Owner(k)
            BY <1>7, <2>3 DEF Lapse, Owner, TypeOK
        <3> QED
            BY <2>1, <3>1, LeaseActions
    <2> QED
        BY <2>2, <2>3
<1>8. CASE UNCHANGED vars
    <2>1. Owner(k)' = Owner(k) /\ In(k)' = In(k)
        BY <1>8 DEF vars, Owner, In
    <2> QED
        BY <2>1, LeaseActions
<1> QED
    BY <1>1, <1>2, <1>3, <1>4, <1>5, <1>6, <1>7, <1>8 DEF Next, CallStep

\* Each key is a lease: the store, its writers and the calls' places implement
\* module Lease, key by key.
THEOREM KeysImplementLeases == Spec => KeysAreLeases
<1>1. Init => \A k \in Keys : KeyLease(k)!Init
    <2> SUFFICES ASSUME Init, NEW k \in Keys PROVE KeyLease(k)!Init
        OBVIOUS
    <2>1. store[k] = "none" /\ \A c \in Calls : at[c] = "idle"
        BY DEF Init
    <2> QED
        BY <2>1 DEF KeyLease!Init
<1>2. IInv /\ [Next]_vars => [\A k \in Keys : [KeyLease(k)!Next]_(KeyLease(k)!vars)]_vars
    BY LeaseKept DEF LeaseStep
<1>3. QED
    BY Inductive, <1>1, <1>2, PTL DEF Spec, KeysAreLeases

-----------------------------------------------------------------------------
(* DexscreenerOrder. *)

\* An order that is not among the rows is known to the visit that made it, and
\* to nobody else.
Unlisted ==
    /\ \A v \in Visits :
        /\ order[v] <= made
        /\ place[v] \in {"ask", "guard", "request"} => order[v] = 0
        /\ place[v] = "insert" => order[v] # 0 /\ row[order[v]] = "none"
    /\ \A i \in Images : reply[i] <= made
    /\ \A o \in Orders : o > made => row[o] = "none"
    /\ \A o \in Orders : row[o] = "none" =>
        /\ o \notin sent /\ asked[o] = 0 /\ paying[o] = "free"
        /\ \A i \in Images : reply[i] # o
        /\ \A v \in Visits : order[v] = o => place[v] \in {"insert", "undo", "over"}
        /\ \A v, w \in Visits : order[v] = o /\ order[w] = o => v = w

\* Bags is told of payments that may be on chain only, and of an order whose row
\* is active unless it was marked failed after it was paid.
Paid ==
    /\ accepted \subseteq sent
    /\ \A o \in accepted : asked[o] > 0
    /\ \A v \in Visits :
        /\ place[v] \in Submitting \cup {"read", "claim"} => order[v] \in sent
        /\ place[v] \in Submitting \cup {"claim"} => order[v] \in Active \cup failedSent
        /\ place[v] \in Submitting \ {"bags"} => asked[order[v]] > 0

\* One row is active at most, and what Bags took has it, with that exception.
Listed ==
    /\ \A o, p \in Active : o = p
    /\ accepted \ failedSent \subseteq Active

\* While no submission of an order threw or died, one visit at most is in it,
\* its key says so, and a key that is answered or has run out since is that of
\* an order no visit submits any more.
Exclusive ==
    \A o \in Orders \ reopened :
        /\ asked[o] <= 1
        /\ \A v, w \in Visits :
            /\ order[v] = o /\ place[v] \in Submitting
            /\ order[w] = o /\ place[w] \in Submitting
            => v = w
        /\ \A v \in Visits : order[v] = o /\ place[v] \in Submitting =>
            /\ paying[o] = "running"
            /\ place[v] = "bags" => asked[o] = 0
            /\ place[v] = "store" => row[o] # "pending"
        /\ paying[o] = "answered" => row[o] # "pending"
        /\ paying[o] = "free" /\ asked[o] > 0 =>
            row[o] # "pending" /\ \A v \in Visits : order[v] = o => place[v] # "claim"

\* The row of an order on which nothing got lost and that was not cancelled under
\* a submission is what Bags has it to be, or it is pending and some visit is
\* still at it.
Books ==
    \A o \in Orders \ (lost \cup raced) :
        /\ o \notin reopened
        /\ row[o] = "paid" => o \in accepted
        /\ row[o] = "failed" => o \notin accepted
        /\ row[o] = "pending" => \E v \in Visits : order[v] = o /\ place[v] # "over"
        /\ row[o] = "pending" /\ o \in accepted =>
            \E v \in Visits : order[v] = o /\ place[v] = "mark"
        /\ paying[o] = "running" =>
            \E v \in Visits : order[v] = o /\ place[v] \in Submitting
        /\ \A v \in Visits : order[v] = o =>
            /\ place[v] = "undo" => row[o] = "none"
            /\ place[v] # "release"
            /\ place[v] = "mark" => o \in accepted
            /\ place[v] = "fail" => o \notin accepted
            /\ place[v] \in {"bags", "mark"} => row[o] = "pending"
            /\ place[v] = "claim" /\ paying[o] = "free" => row[o] = "pending"

OrderIInv ==
    /\ OrderTypeOK
    /\ Unlisted
    /\ Paid
    /\ Listed
    /\ Exclusive
    /\ Books

-----------------------------------------------------------------------------

\* Before anybody asks for an order there is none.
LEMMA OrderInitIInv == OrderInit => OrderIInv
BY OrderAssumption
   DEF OrderInit, OrderIInv, OrderTypeOK, Unlisted, Paid, Listed, Exclusive, Books,
       Orders, Active, Creating, Paying, Submitting

\* Every step keeps the types.
LEMMA OrderTypeStep == OrderTypeOK /\ [OrderNext]_orderVars => OrderTypeOK'
<1> SUFFICES ASSUME OrderTypeOK, [OrderNext]_orderVars PROVE OrderTypeOK'
    OBVIOUS
<1> USE OrderAssumption DEF OrderTypeOK, Orders, Creating, Paying, Submitting,
            Proceed, Mark, Lose, visit, createKeys, bags, history
<1>1. ASSUME NEW v \in Visits, Ask(v) PROVE OrderTypeOK'
    <2>0. /\ place[v] = "ask"
          /\ UNCHANGED <<image, made, row, reply, paying, sent, bags, history>>
        BY <1>1 DEF Ask
    <2>1. CASE place' = [place EXCEPT ![v] = "over"] /\ UNCHANGED <<order, creating>>
        BY <2>0, <2>1
    <2>2. CASE /\ place' = [place EXCEPT ![v] = IF reply[image[v]] = 0 THEN "over" ELSE "pay"]
               /\ order' = [order EXCEPT ![v] = reply[image[v]]]
               /\ UNCHANGED creating
        BY <2>0, <2>2
    <2>3. CASE /\ place' = [place EXCEPT ![v] = "guard"]
               /\ creating' = [creating EXCEPT ![image[v]] = "running"]
               /\ UNCHANGED order
        BY <2>0, <2>3
    <2>4. creating[image[v]] \in {"free", "running", "answered"}
        OBVIOUS
    <2> QED
        BY <1>1, <2>1, <2>2, <2>3, <2>4 DEF Ask
<1>2. ASSUME NEW v \in Visits, Guard(v) PROVE OrderTypeOK'
    BY <1>2 DEF Guard
<1>3. ASSUME NEW v \in Visits, Request(v) PROVE OrderTypeOK'
    <2>1. made + 1 \in 1..MaxOrders
        BY <1>3 DEF Request
    <2> QED
        BY <1>3, <2>1 DEF Request
<1>4. ASSUME NEW v \in Visits, Insert(v) PROVE OrderTypeOK'
    <2>1. place' = [place EXCEPT ![v] = "answer"] \/ place' = [place EXCEPT ![v] = "undo"]
        BY <1>4 DEF Insert
    <2>2. row' \in [Orders -> {"none", "pending", "paid", "failed"}] /\ lost' \subseteq Orders
        BY <1>4 DEF Insert
    <2>3. UNCHANGED <<visit, made, createKeys, paying, sent, bags, reopened, failedSent, raced>>
        BY <1>4 DEF Insert
    <2> QED
        BY <1>4, <2>1, <2>2, <2>3
<1>5. ASSUME NEW v \in Visits, Answer(v) PROVE OrderTypeOK'
    BY <1>5 DEF Answer
<1>6. ASSUME NEW v \in Visits, CreateThrows(v) PROVE OrderTypeOK'
    BY <1>6 DEF CreateThrows
<1>7. ASSUME NEW v \in Visits, UndoCreate(v) PROVE OrderTypeOK'
    BY <1>7 DEF UndoCreate
<1>8. ASSUME NEW v \in Visits, Pay(v) PROVE OrderTypeOK'
    <2>1. order[v] \in Orders
        BY <1>8 DEF Pay
    <2> QED
        BY <1>8, <2>1 DEF Pay
<1>9. ASSUME NEW v \in Visits, WalletThrows(v) PROVE OrderTypeOK'
    BY <1>9 DEF WalletThrows
<1>10. ASSUME NEW v \in Visits, Read(v) PROVE OrderTypeOK'
    BY <1>10 DEF Read
<1>11. ASSUME NEW v \in Visits, ClaimSubmit(v) PROVE OrderTypeOK'
    BY <1>11 DEF ClaimSubmit
<1>12. ASSUME NEW v \in Visits, Accept(v) PROVE OrderTypeOK'
    <2>1. order[v] \in Orders
        BY <1>12 DEF Accept
    <2>2. place[v] = "bags"
        BY <1>12 DEF Accept
    <2>3. asked' = [asked EXCEPT ![order[v]] = asked[order[v]] + 1] /\ asked' \in [Orders -> Nat]
        BY <1>12 DEF Accept
    <2>4. accepted' = accepted \cup {order[v]}
        BY <1>12 DEF Accept
    <2>5. UNCHANGED <<visit, made, row, createKeys, paying, sent, reopened, failedSent, raced>>
        BY <1>12 DEF Accept
    <2>6. CASE /\ place' = [place EXCEPT ![v] = "mark"]
               /\ lost' = lost
        BY <2>1, <2>2, <2>3, <2>4, <2>5, <2>6
    <2>7. CASE /\ place' = [place EXCEPT ![v] = "fail"]
               /\ lost' = lost \cup {order[v]}
        BY <2>1, <2>2, <2>3, <2>4, <2>5, <2>7
    <2> HIDE DEF OrderIInv
    <2> QED
        BY <1>12, <2>1, <2>6, <2>7 DEF Accept
<1>13. ASSUME NEW v \in Visits, Refuse(v) PROVE OrderTypeOK'
    <2>1. order[v] \in Orders /\ asked' \in [Orders -> Nat]
        BY <1>13 DEF Refuse
    <2> QED
        BY <1>13, <2>1 DEF Refuse
<1>14. ASSUME NEW v \in Visits, MarkPaid(v) PROVE OrderTypeOK'
    BY <1>14 DEF MarkPaid
<1>15. ASSUME NEW v \in Visits, MarkFailed(v) PROVE OrderTypeOK'
    <2>1. order[v] \in Orders
        BY <1>15 DEF MarkFailed
    <2> QED
        BY <1>15, <2>1 DEF MarkFailed
<1>16. ASSUME NEW v \in Visits, Store(v) PROVE OrderTypeOK'
    BY <1>16 DEF Store
<1>17. ASSUME NEW v \in Visits, SubmitThrows(v) PROVE OrderTypeOK'
    BY <1>17 DEF SubmitThrows
<1>18. ASSUME NEW v \in Visits, Release(v) PROVE OrderTypeOK'
    <2>1. order[v] \in Orders
        BY <1>18 DEF Release
    <2> QED
        BY <1>18, <2>1 DEF Release
<1>19. ASSUME NEW v \in Visits, CancelRead(v) PROVE OrderTypeOK'
    BY <1>19 DEF CancelRead
<1>20. ASSUME NEW v \in Visits, Close(v) PROVE OrderTypeOK'
    <2>1. order[v] \in Orders
        BY <1>20 DEF Close
    <2>2. failedSent' \subseteq Orders /\ raced' \subseteq Orders
        BY <1>20, <2>1 DEF Close
    <2> QED
        BY <1>20, <2>1, <2>2 DEF Close
<1>21. ASSUME NEW v \in Visits, Quit(v) PROVE OrderTypeOK'
    BY <1>21 DEF Quit
<1>22. ASSUME NEW i \in Images, CreateLapses(i) PROVE OrderTypeOK'
    BY <1>22 DEF CreateLapses
<1>23. ASSUME NEW o \in Orders, SubmitLapses(o) PROVE OrderTypeOK'
    BY <1>23 DEF SubmitLapses
<1>24. CASE UNCHANGED orderVars
    BY <1>24 DEF orderVars
<1> QED
    BY <1>1, <1>2, <1>3, <1>4, <1>5, <1>6, <1>7, <1>8, <1>9, <1>10, <1>11,
       <1>12, <1>13, <1>14, <1>15, <1>16, <1>17, <1>18, <1>19, <1>20,
       <1>21, <1>22, <1>23, <1>24
       DEF OrderNext, VisitStep

\* Orders are numbered as they are made, and Insert is the only way to a row.
LEMMA UnlistedStep == OrderIInv /\ [OrderNext]_orderVars => Unlisted'
<1> SUFFICES ASSUME OrderIInv, [OrderNext]_orderVars PROVE Unlisted'
    OBVIOUS
<1> USE OrderAssumption DEF OrderIInv, OrderTypeOK, Orders, Creating, Paying,
            Submitting, Active, Proceed, Mark, Lose, visit, createKeys, bags,
            history, Unlisted
<1>1. ASSUME NEW v \in Visits, Ask(v) PROVE Unlisted'
    <2>0. /\ place[v] = "ask"
          /\ UNCHANGED <<image, made, row, reply, paying, sent, bags, history>>
        BY <1>1 DEF Ask
    <2>1. CASE place' = [place EXCEPT ![v] = "over"] /\ UNCHANGED <<order, creating>>
        BY <2>0, <2>1
    <2>2. CASE /\ place' = [place EXCEPT ![v] = IF reply[image[v]] = 0 THEN "over" ELSE "pay"]
               /\ order' = [order EXCEPT ![v] = reply[image[v]]]
               /\ UNCHANGED creating
        BY <2>0, <2>2
    <2>3. CASE /\ place' = [place EXCEPT ![v] = "guard"]
               /\ creating' = [creating EXCEPT ![image[v]] = "running"]
               /\ UNCHANGED order
        BY <2>0, <2>3
    <2>4. creating[image[v]] \in {"free", "running", "answered"}
        OBVIOUS
    <2> QED
        BY <1>1, <2>1, <2>2, <2>3, <2>4 DEF Ask
<1>2. ASSUME NEW v \in Visits, Guard(v) PROVE Unlisted'
    BY <1>2 DEF Guard
<1>3. ASSUME NEW v \in Visits, Request(v) PROVE Unlisted'
    BY <1>3 DEF Request
<1>4. ASSUME NEW v \in Visits, Insert(v) PROVE Unlisted'
    <2>1. order[v] \in Orders /\ place[v] = "insert" /\ row[order[v]] = "none"
        BY <1>4 DEF Insert
    <2>2. UNCHANGED <<visit, made, createKeys, paying, sent, bags, reopened, failedSent, raced>>
        BY <1>4 DEF Insert
    <2>3. CASE /\ place' = [place EXCEPT ![v] = "undo"]
               /\ row' = row
               /\ lost' = lost
        BY <2>1, <2>2, <2>3
    <2>4. CASE /\ place' = [place EXCEPT ![v] = "answer"]
               /\ Active = {}
               /\ row' = [row EXCEPT ![order[v]] = "pending"]
               /\ lost' = lost
        BY <2>1, <2>2, <2>4
    <2>5. CASE /\ place' = [place EXCEPT ![v] = "undo"]
               /\ Active = {}
               /\ row' = [row EXCEPT ![order[v]] = "pending"]
               /\ lost' = lost \cup {order[v]}
        BY <2>1, <2>2, <2>5
    <2> HIDE DEF OrderIInv
    <2> QED
        BY <1>4, <2>1, <2>3, <2>4, <2>5 DEF Insert
<1>5. ASSUME NEW v \in Visits, Answer(v) PROVE Unlisted'
    BY <1>5 DEF Answer
<1>6. ASSUME NEW v \in Visits, CreateThrows(v) PROVE Unlisted'
    BY <1>6 DEF CreateThrows
<1>7. ASSUME NEW v \in Visits, UndoCreate(v) PROVE Unlisted'
    BY <1>7 DEF UndoCreate
<1>8. ASSUME NEW v \in Visits, Pay(v) PROVE Unlisted'
    <2>1. place[v] = "pay" /\ order[v] \in Orders
        BY <1>8 DEF Pay
    <2>2. row[order[v]] # "none"
        BY <2>1
    <2>3. /\ sent' = sent \cup {order[v]} /\ place' = [place EXCEPT ![v] = "read"]
          /\ UNCHANGED <<order, made, row, reply, paying, asked>>
        BY <1>8 DEF Pay
    <2> QED
        BY <2>1, <2>2, <2>3
<1>9. ASSUME NEW v \in Visits, WalletThrows(v) PROVE Unlisted'
    BY <1>9 DEF WalletThrows
<1>10. ASSUME NEW v \in Visits, Read(v) PROVE Unlisted'
    BY <1>10 DEF Read
<1>11. ASSUME NEW v \in Visits, ClaimSubmit(v) PROVE Unlisted'
    <2>1. order[v] \in Orders
        BY <1>11 DEF ClaimSubmit
    <2>2. row[order[v]] # "none"
        BY <2>1, <1>11 DEF ClaimSubmit
    <2>3. place[v] = "claim"
        BY <1>11 DEF ClaimSubmit
    <2>4. UNCHANGED <<visit, made, row, createKeys, sent, bags, history>>
        BY <1>11 DEF ClaimSubmit
    <2>5. CASE /\ place' = [place EXCEPT ![v] = "bags"]
               /\ paying[order[v]] = "free"
               /\ paying' = [paying EXCEPT ![order[v]] = "running"]
        BY <2>1, <2>2, <2>3, <2>4, <2>5
    <2>6. CASE /\ place' = [place EXCEPT ![v] = "over"]
               /\ paying[order[v]] # "free"
               /\ paying' = paying
        BY <2>1, <2>2, <2>3, <2>4, <2>6
    <2> HIDE DEF OrderIInv
    <2> QED
        BY <1>11, <2>1, <2>5, <2>6 DEF ClaimSubmit
<1>12. ASSUME NEW v \in Visits, Accept(v) PROVE Unlisted'
    <2>1. order[v] \in Orders
        BY <1>12 DEF Accept
    <2>2. row[order[v]] # "none"
        BY <2>1, <1>12 DEF Accept
    <2>3. place[v] = "bags"
        BY <1>12 DEF Accept
    <2>4. asked' = [asked EXCEPT ![order[v]] = asked[order[v]] + 1] /\ asked' \in [Orders -> Nat]
        BY <1>12 DEF Accept
    <2>5. accepted' = accepted \cup {order[v]}
        BY <1>12 DEF Accept
    <2>6. UNCHANGED <<visit, made, row, createKeys, paying, sent, reopened, failedSent, raced>>
        BY <1>12 DEF Accept
    <2>7. CASE /\ place' = [place EXCEPT ![v] = "mark"]
               /\ lost' = lost
        BY <2>1, <2>2, <2>3, <2>4, <2>5, <2>6, <2>7
    <2>8. CASE /\ place' = [place EXCEPT ![v] = "fail"]
               /\ lost' = lost \cup {order[v]}
        BY <2>1, <2>2, <2>3, <2>4, <2>5, <2>6, <2>8
    <2> HIDE DEF OrderIInv
    <2> QED
        BY <1>12, <2>1, <2>7, <2>8 DEF Accept
<1>13. ASSUME NEW v \in Visits, Refuse(v) PROVE Unlisted'
    <2>1. order[v] \in Orders
        BY <1>13 DEF Refuse
    <2>2. row[order[v]] # "none"
        BY <2>1, <1>13 DEF Refuse
    <2>3. place[v] = "bags"
        BY <1>13 DEF Refuse
    <2>4. asked' = [asked EXCEPT ![order[v]] = asked[order[v]] + 1] /\ asked' \in [Orders -> Nat]
        BY <1>13 DEF Refuse
    <2>5. UNCHANGED <<visit, made, row, createKeys, paying, sent, accepted, history>>
        BY <1>13 DEF Refuse
    <2>6. CASE /\ place' = [place EXCEPT ![v] = "fail"]
        BY <2>1, <2>2, <2>3, <2>4, <2>5, <2>6
    <2> HIDE DEF OrderIInv
    <2> QED
        BY <1>13, <2>1, <2>6 DEF Refuse
<1>14. ASSUME NEW v \in Visits, MarkPaid(v) PROVE Unlisted'
    <2>1. order[v] \in Orders
        BY <1>14 DEF MarkPaid
    <2>2. row[order[v]] # "none"
        BY <2>1, <1>14 DEF MarkPaid
    <2>3. place[v] = "mark"
        BY <1>14 DEF MarkPaid
    <2>4. UNCHANGED <<visit, made, createKeys, paying, sent, bags, history>>
        BY <1>14 DEF MarkPaid
    <2>5. CASE /\ place' = [place EXCEPT ![v] = "store"]
               /\ Active \subseteq {order[v]}
               /\ row' = [row EXCEPT ![order[v]] = "paid"]
        BY <2>1, <2>2, <2>3, <2>4, <2>5
    <2>6. CASE /\ place' = [place EXCEPT ![v] = "release"]
               /\ ~(Active \subseteq {order[v]})
               /\ row' = row
        BY <2>1, <2>2, <2>3, <2>4, <2>6
    <2> HIDE DEF OrderIInv
    <2> QED
        BY <1>14, <2>1, <2>5, <2>6 DEF MarkPaid
<1>15. ASSUME NEW v \in Visits, MarkFailed(v) PROVE Unlisted'
    BY <1>15 DEF MarkFailed
<1>16. ASSUME NEW v \in Visits, Store(v) PROVE Unlisted'
    <2>1. order[v] \in Orders
        BY <1>16 DEF Store
    <2>2. row[order[v]] # "none"
        BY <2>1, <1>16 DEF Store
    <2>3. place[v] = "store"
        BY <1>16 DEF Store
    <2>4. UNCHANGED <<visit, made, row, createKeys, sent, bags, history>>
        BY <1>16 DEF Store
    <2>5. CASE /\ place' = [place EXCEPT ![v] = "over"]
               /\ paying' = [paying EXCEPT ![order[v]] = "answered"]
        BY <2>1, <2>2, <2>3, <2>4, <2>5
    <2> HIDE DEF OrderIInv
    <2> QED
        BY <1>16, <2>1, <2>5 DEF Store
<1>17. ASSUME NEW v \in Visits, SubmitThrows(v) PROVE Unlisted'
    BY <1>17 DEF SubmitThrows
<1>18. ASSUME NEW v \in Visits, Release(v) PROVE Unlisted'
    BY <1>18 DEF Release
<1>19. ASSUME NEW v \in Visits, CancelRead(v) PROVE Unlisted'
    BY <1>19 DEF CancelRead
<1>20. ASSUME NEW v \in Visits, Close(v) PROVE Unlisted'
    BY <1>20 DEF Close
<1>21. ASSUME NEW v \in Visits, Quit(v) PROVE Unlisted'
    BY <1>21 DEF Quit
<1>22. ASSUME NEW i \in Images, CreateLapses(i) PROVE Unlisted'
    BY <1>22 DEF CreateLapses
<1>23. ASSUME NEW o \in Orders, SubmitLapses(o) PROVE Unlisted'
    BY <1>23 DEF SubmitLapses
<1>24. CASE UNCHANGED orderVars
    BY <1>24 DEF orderVars
<1> QED
    BY <1>1, <1>2, <1>3, <1>4, <1>5, <1>6, <1>7, <1>8, <1>9, <1>10, <1>11,
       <1>12, <1>13, <1>14, <1>15, <1>16, <1>17, <1>18, <1>19, <1>20,
       <1>21, <1>22, <1>23, <1>24
       DEF OrderNext, VisitStep

\* A visit submits what was sent, and a row it read as pending is only closed with
\* the mark that it was paid.
LEMMA PaidStep == OrderIInv /\ [OrderNext]_orderVars => Paid'
<1> SUFFICES ASSUME OrderIInv, [OrderNext]_orderVars PROVE Paid'
    OBVIOUS
<1> USE OrderAssumption DEF OrderIInv, OrderTypeOK, Orders, Creating, Paying,
            Submitting, Active, Proceed, Mark, Lose, visit, createKeys, bags,
            history, Unlisted, Paid
<1>1. ASSUME NEW v \in Visits, Ask(v) PROVE Paid'
    <2>0. /\ place[v] = "ask"
          /\ UNCHANGED <<image, made, row, reply, paying, sent, bags, history>>
        BY <1>1 DEF Ask
    <2>1. CASE place' = [place EXCEPT ![v] = "over"] /\ UNCHANGED <<order, creating>>
        BY <2>0, <2>1
    <2>2. CASE /\ place' = [place EXCEPT ![v] = IF reply[image[v]] = 0 THEN "over" ELSE "pay"]
               /\ order' = [order EXCEPT ![v] = reply[image[v]]]
               /\ UNCHANGED creating
        BY <2>0, <2>2
    <2>3. CASE /\ place' = [place EXCEPT ![v] = "guard"]
               /\ creating' = [creating EXCEPT ![image[v]] = "running"]
               /\ UNCHANGED order
        BY <2>0, <2>3
    <2>4. creating[image[v]] \in {"free", "running", "answered"}
        OBVIOUS
    <2> QED
        BY <1>1, <2>1, <2>2, <2>3, <2>4 DEF Ask
<1>2. ASSUME NEW v \in Visits, Guard(v) PROVE Paid'
    BY <1>2 DEF Guard
<1>3. ASSUME NEW v \in Visits, Request(v) PROVE Paid'
    BY <1>3 DEF Request
<1>4. ASSUME NEW v \in Visits, Insert(v) PROVE Paid'
    BY <1>4 DEF Insert
<1>5. ASSUME NEW v \in Visits, Answer(v) PROVE Paid'
    BY <1>5 DEF Answer
<1>6. ASSUME NEW v \in Visits, CreateThrows(v) PROVE Paid'
    BY <1>6 DEF CreateThrows
<1>7. ASSUME NEW v \in Visits, UndoCreate(v) PROVE Paid'
    BY <1>7 DEF UndoCreate
<1>8. ASSUME NEW v \in Visits, Pay(v) PROVE Paid'
    BY <1>8 DEF Pay
<1>9. ASSUME NEW v \in Visits, WalletThrows(v) PROVE Paid'
    BY <1>9 DEF WalletThrows
<1>10. ASSUME NEW v \in Visits, Read(v) PROVE Paid'
    BY <1>10 DEF Read
<1>11. ASSUME NEW v \in Visits, ClaimSubmit(v) PROVE Paid'
    BY <1>11 DEF ClaimSubmit
<1>12. ASSUME NEW v \in Visits, Accept(v) PROVE Paid'
    <2>1. order[v] \in Orders /\ order[v] \in sent /\ order[v] \in Active \cup failedSent
        BY <1>12 DEF Accept
    <2>2. UNCHANGED <<image, order, row, sent, failedSent>>
        BY <1>12 DEF Accept
    <2>3. \A o \in accepted' : o \in accepted \/ o = order[v]
        BY <1>12 DEF Accept
    <2>4. \A o \in Orders : asked'[o] >= asked[o]
        BY <1>12 DEF Accept
    <2>5. asked'[order[v]] > 0
        BY <1>12, <2>1 DEF Accept
    <2>6. \A w \in Visits : w # v => place'[w] = place[w]
        BY <1>12 DEF Accept
    <2>7. place[v] = "bags"
        BY <1>12 DEF Accept
    <2>8. accepted' \subseteq sent' /\ \A o \in accepted' : asked'[o] > 0
        <3>1. \A o \in accepted : asked[o] > 0 /\ asked[o] \in Nat /\ asked'[o] \in Nat
            BY <1>12 DEF Accept
        <3>2. accepted \subseteq Orders /\ \A o \in accepted : asked'[o] > 0
            BY <2>4, <3>1
        <3>3. accepted \subseteq sent
            OBVIOUS
        <3> HIDE DEF OrderIInv
        <3> QED
            BY <2>1, <2>2, <2>3, <2>5, <3>2, <3>3
    <2>9. ASSUME NEW w \in Visits
          PROVE  /\ (place[w] \in Submitting \cup {"read", "claim"} => order[w] \in sent)'
                 /\ (place[w] \in Submitting \cup {"claim"} => order[w] \in Active \cup failedSent)'
                 /\ (place[w] \in Submitting \ {"bags"} => asked[order[w]] > 0)'
        <3>1. CASE w = v
            BY <2>1, <2>2, <2>5, <3>1
        <3>2. CASE w # v
            <4>1. place[w] \in Submitting => order[w] \in Orders
                OBVIOUS
            <4>2. place[w] \in Submitting => asked[order[w]] \in Nat /\ asked'[order[w]] \in Nat
                BY <1>12, <4>1 DEF Accept
            <4> QED
                BY <2>2, <2>4, <2>6, <3>2, <4>1, <4>2
        <3> QED
            BY <3>1, <3>2
    <2> QED
        BY <2>8, <2>9
<1>13. ASSUME NEW v \in Visits, Refuse(v) PROVE Paid'
    BY <1>13 DEF Refuse
<1>14. ASSUME NEW v \in Visits, MarkPaid(v) PROVE Paid'
    <2>1. order[v] \in Orders
        BY <1>14 DEF MarkPaid
    <2>2. place[v] = "mark"
        BY <1>14 DEF MarkPaid
    <2>3. UNCHANGED <<image, order, sent, failedSent, accepted, asked>>
        BY <1>14 DEF MarkPaid
    <2>4. CASE /\ place' = [place EXCEPT ![v] = "store"]
               /\ row' = [row EXCEPT ![order[v]] = "paid"]
        BY <2>1, <2>2, <2>3, <2>4
    <2>5. CASE /\ place' = [place EXCEPT ![v] = "release"]
               /\ row' = row
        BY <2>1, <2>2, <2>3, <2>5
    <2> HIDE DEF OrderIInv
    <2> QED
        BY <1>14, <2>1, <2>4, <2>5 DEF MarkPaid
<1>15. ASSUME NEW v \in Visits, MarkFailed(v) PROVE Paid'
    BY <1>15 DEF MarkFailed
<1>16. ASSUME NEW v \in Visits, Store(v) PROVE Paid'
    BY <1>16 DEF Store
<1>17. ASSUME NEW v \in Visits, SubmitThrows(v) PROVE Paid'
    BY <1>17 DEF SubmitThrows
<1>18. ASSUME NEW v \in Visits, Release(v) PROVE Paid'
    BY <1>18 DEF Release
<1>19. ASSUME NEW v \in Visits, CancelRead(v) PROVE Paid'
    BY <1>19 DEF CancelRead
<1>20. ASSUME NEW v \in Visits, Close(v) PROVE Paid'
    BY <1>20 DEF Close
<1>21. ASSUME NEW v \in Visits, Quit(v) PROVE Paid'
    BY <1>21 DEF Quit
<1>22. ASSUME NEW i \in Images, CreateLapses(i) PROVE Paid'
    BY <1>22 DEF CreateLapses
<1>23. ASSUME NEW o \in Orders, SubmitLapses(o) PROVE Paid'
    BY <1>23 DEF SubmitLapses
<1>24. CASE UNCHANGED orderVars
    BY <1>24 DEF orderVars
<1> QED
    BY <1>1, <1>2, <1>3, <1>4, <1>5, <1>6, <1>7, <1>8, <1>9, <1>10, <1>11,
       <1>12, <1>13, <1>14, <1>15, <1>16, <1>17, <1>18, <1>19, <1>20,
       <1>21, <1>22, <1>23, <1>24
       DEF OrderNext, VisitStep

\* Insert and MarkPaid ask the unique index; MarkFailed and Close make room.
LEMMA ListedStep == OrderIInv /\ [OrderNext]_orderVars => Listed'
<1> SUFFICES ASSUME OrderIInv, [OrderNext]_orderVars PROVE Listed'
    OBVIOUS
<1> USE OrderAssumption DEF OrderIInv, OrderTypeOK, Orders, Creating, Paying,
            Submitting, Active, Proceed, Mark, Lose, visit, createKeys, bags,
            history, Unlisted, Paid, Listed
<1>1. ASSUME NEW v \in Visits, Ask(v) PROVE Listed'
    BY <1>1 DEF Ask
<1>2. ASSUME NEW v \in Visits, Guard(v) PROVE Listed'
    BY <1>2 DEF Guard
<1>3. ASSUME NEW v \in Visits, Request(v) PROVE Listed'
    BY <1>3 DEF Request
<1>4. ASSUME NEW v \in Visits, Insert(v) PROVE Listed'
    <2>1. order[v] \in Orders /\ place[v] = "insert" /\ row[order[v]] = "none"
        BY <1>4 DEF Insert
    <2>2. UNCHANGED <<visit, made, createKeys, paying, sent, bags, reopened, failedSent, raced>>
        BY <1>4 DEF Insert
    <2>3. CASE /\ place' = [place EXCEPT ![v] = "undo"]
               /\ row' = row
               /\ lost' = lost
        BY <2>1, <2>2, <2>3
    <2>4. CASE /\ place' = [place EXCEPT ![v] = "answer"]
               /\ Active = {}
               /\ row' = [row EXCEPT ![order[v]] = "pending"]
               /\ lost' = lost
        <3>1. Active' = {order[v]}
            BY <2>1, <2>2, <2>4
        <3> HIDE DEF Active
        <3> QED
            BY <2>1, <2>2, <2>4, <3>1
    <2>5. CASE /\ place' = [place EXCEPT ![v] = "undo"]
               /\ Active = {}
               /\ row' = [row EXCEPT ![order[v]] = "pending"]
               /\ lost' = lost \cup {order[v]}
        <3>1. Active' = {order[v]}
            BY <2>1, <2>2, <2>5
        <3> HIDE DEF Active
        <3> QED
            BY <2>1, <2>2, <2>5, <3>1
    <2> HIDE DEF OrderIInv
    <2> QED
        BY <1>4, <2>1, <2>3, <2>4, <2>5 DEF Insert
<1>5. ASSUME NEW v \in Visits, Answer(v) PROVE Listed'
    BY <1>5 DEF Answer
<1>6. ASSUME NEW v \in Visits, CreateThrows(v) PROVE Listed'
    BY <1>6 DEF CreateThrows
<1>7. ASSUME NEW v \in Visits, UndoCreate(v) PROVE Listed'
    BY <1>7 DEF UndoCreate
<1>8. ASSUME NEW v \in Visits, Pay(v) PROVE Listed'
    BY <1>8 DEF Pay
<1>9. ASSUME NEW v \in Visits, WalletThrows(v) PROVE Listed'
    BY <1>9 DEF WalletThrows
<1>10. ASSUME NEW v \in Visits, Read(v) PROVE Listed'
    BY <1>10 DEF Read
<1>11. ASSUME NEW v \in Visits, ClaimSubmit(v) PROVE Listed'
    BY <1>11 DEF ClaimSubmit
<1>12. ASSUME NEW v \in Visits, Accept(v) PROVE Listed'
    <2>1. order[v] \in Active \cup failedSent
        BY <1>12 DEF Accept
    <2>2. UNCHANGED <<row, failedSent>> /\ \A o \in accepted' : o \in accepted \/ o = order[v]
        BY <1>12 DEF Accept
    <2>3. Active' = Active
        BY <2>2
    <2>4. accepted' \ failedSent' \subseteq Active'
        <3>1. accepted \ failedSent \subseteq Active
            OBVIOUS
        <3> HIDE DEF Active, OrderIInv
        <3> QED
            BY <2>1, <2>2, <2>3, <3>1
    <2>5. (\A o, p \in Active : o = p)'
        <3> HIDE DEF Active
        <3> QED
            BY <2>3
    <2> QED
        BY <2>4, <2>5
<1>13. ASSUME NEW v \in Visits, Refuse(v) PROVE Listed'
    BY <1>13 DEF Refuse
<1>14. ASSUME NEW v \in Visits, MarkPaid(v) PROVE Listed'
    <2>1. order[v] \in Orders
        BY <1>14 DEF MarkPaid
    <2>2. place[v] = "mark"
        BY <1>14 DEF MarkPaid
    <2>3. UNCHANGED <<visit, made, createKeys, paying, sent, bags, history>>
        BY <1>14 DEF MarkPaid
    <2>4. CASE /\ place' = [place EXCEPT ![v] = "store"]
               /\ Active \subseteq {order[v]}
               /\ row' = [row EXCEPT ![order[v]] = "paid"]
        <3>1. Active' = {order[v]}
            BY <2>1, <2>2, <2>3, <2>4
        <3> HIDE DEF Active
        <3> QED
            BY <2>1, <2>2, <2>3, <2>4, <3>1
    <2>5. CASE /\ place' = [place EXCEPT ![v] = "release"]
               /\ ~(Active \subseteq {order[v]})
               /\ row' = row
        BY <2>1, <2>2, <2>3, <2>5
    <2> HIDE DEF OrderIInv
    <2> QED
        BY <1>14, <2>1, <2>4, <2>5 DEF MarkPaid
<1>15. ASSUME NEW v \in Visits, MarkFailed(v) PROVE Listed'
    <2>1. order[v] \in Orders
        BY <1>15 DEF MarkFailed
    <2>2. place[v] = "fail"
        BY <1>15 DEF MarkFailed
    <2>3. UNCHANGED <<visit, made, createKeys, paying, sent, bags, reopened, raced, lost>>
        BY <1>15 DEF MarkFailed
    <2>4. CASE /\ place' = [place EXCEPT ![v] = "store"]
               /\ row' = [row EXCEPT ![order[v]] = "failed"]
               /\ failedSent' = failedSent \cup {order[v]}
        <3>1. Active' = Active \ {order[v]}
            BY <2>1, <2>2, <2>3, <2>4
        <3> HIDE DEF Active
        <3> QED
            BY <2>1, <2>2, <2>3, <2>4, <3>1
    <2> HIDE DEF OrderIInv
    <2> QED
        BY <1>15, <2>1, <2>4 DEF MarkFailed
<1>16. ASSUME NEW v \in Visits, Store(v) PROVE Listed'
    BY <1>16 DEF Store
<1>17. ASSUME NEW v \in Visits, SubmitThrows(v) PROVE Listed'
    BY <1>17 DEF SubmitThrows
<1>18. ASSUME NEW v \in Visits, Release(v) PROVE Listed'
    BY <1>18 DEF Release
<1>19. ASSUME NEW v \in Visits, CancelRead(v) PROVE Listed'
    BY <1>19 DEF CancelRead
<1>20. ASSUME NEW v \in Visits, Close(v) PROVE Listed'
    <2>1. order[v] \in Orders
        BY <1>20 DEF Close
    <2>2. place[v] = "close"
        BY <1>20 DEF Close
    <2>3. UNCHANGED <<visit, made, createKeys, paying, sent, bags, reopened>>
        BY <1>20 DEF Close
    <2>4. row' = [row EXCEPT ![order[v]] = "failed"]
        BY <1>20 DEF Close
    <2>5. CASE /\ place' = [place EXCEPT ![v] = "over"]
               /\ order[v] \in sent
               /\ failedSent' = failedSent \cup {order[v]}
        <3>1. Active' = Active \ {order[v]}
            BY <2>1, <2>2, <2>3, <2>4, <2>5
        <3> HIDE DEF Active
        <3> QED
            BY <2>1, <2>2, <2>3, <2>4, <2>5, <3>1
    <2>6. CASE /\ place' = [place EXCEPT ![v] = "over"]
               /\ order[v] \notin sent
               /\ failedSent' = failedSent
        <3>1. Active' = Active \ {order[v]}
            BY <2>1, <2>2, <2>3, <2>4, <2>6
        <3> HIDE DEF Active
        <3> QED
            BY <2>1, <2>2, <2>3, <2>4, <2>6, <3>1
    <2> HIDE DEF OrderIInv
    <2> QED
        BY <1>20, <2>1, <2>5, <2>6 DEF Close
<1>21. ASSUME NEW v \in Visits, Quit(v) PROVE Listed'
    BY <1>21 DEF Quit
<1>22. ASSUME NEW i \in Images, CreateLapses(i) PROVE Listed'
    BY <1>22 DEF CreateLapses
<1>23. ASSUME NEW o \in Orders, SubmitLapses(o) PROVE Listed'
    BY <1>23 DEF SubmitLapses
<1>24. CASE UNCHANGED orderVars
    BY <1>24 DEF orderVars
<1> QED
    BY <1>1, <1>2, <1>3, <1>4, <1>5, <1>6, <1>7, <1>8, <1>9, <1>10, <1>11,
       <1>12, <1>13, <1>14, <1>15, <1>16, <1>17, <1>18, <1>19, <1>20,
       <1>21, <1>22, <1>23, <1>24
       DEF OrderNext, VisitStep

\* A key is claimed when it is free, and is free again without a reopening only
\* when the row is settled and nobody is about to claim.
LEMMA ExclusiveStep == OrderIInv /\ [OrderNext]_orderVars => Exclusive'
<1> SUFFICES ASSUME OrderIInv, [OrderNext]_orderVars PROVE Exclusive'
    OBVIOUS
<1> USE OrderAssumption DEF OrderIInv, OrderTypeOK, Orders, Creating, Paying,
            Submitting, Active, Proceed, Mark, Lose, visit, createKeys, bags,
            history, Unlisted, Paid, Exclusive
<1>1. ASSUME NEW v \in Visits, Ask(v) PROVE Exclusive'
    <2>0. /\ place[v] = "ask"
          /\ UNCHANGED <<image, made, row, reply, paying, sent, bags, history>>
        BY <1>1 DEF Ask
    <2>1. CASE place' = [place EXCEPT ![v] = "over"] /\ UNCHANGED <<order, creating>>
        BY <2>0, <2>1
    <2>2. CASE /\ place' = [place EXCEPT ![v] = IF reply[image[v]] = 0 THEN "over" ELSE "pay"]
               /\ order' = [order EXCEPT ![v] = reply[image[v]]]
               /\ UNCHANGED creating
        BY <2>0, <2>2
    <2>3. CASE /\ place' = [place EXCEPT ![v] = "guard"]
               /\ creating' = [creating EXCEPT ![image[v]] = "running"]
               /\ UNCHANGED order
        BY <2>0, <2>3
    <2>4. creating[image[v]] \in {"free", "running", "answered"}
        OBVIOUS
    <2> QED
        BY <1>1, <2>1, <2>2, <2>3, <2>4 DEF Ask
<1>2. ASSUME NEW v \in Visits, Guard(v) PROVE Exclusive'
    BY <1>2 DEF Guard
<1>3. ASSUME NEW v \in Visits, Request(v) PROVE Exclusive'
    BY <1>3 DEF Request
<1>4. ASSUME NEW v \in Visits, Insert(v) PROVE Exclusive'
    <2>1. order[v] \in Orders /\ row[order[v]] = "none"
        BY <1>4 DEF Insert
    <2>2. UNCHANGED <<order, paying, asked, reopened>>
        BY <1>4 DEF Insert
    <2>3. /\ \A w \in Visits : w # v => place'[w] = place[w]
          /\ place'[v] \notin Submitting \cup {"claim"}
        BY <1>4 DEF Insert
    <2>4. row' \in {row, [row EXCEPT ![order[v]] = "pending"]}
        BY <1>4 DEF Insert
    <2>5. asked[order[v]] = 0 /\ paying[order[v]] = "free"
        BY <2>1
    <2>6. \A o \in Orders : o # order[v] => row'[o] = row[o]
        BY <2>4
    <2>7. \A w \in Visits : place'[w] \in Submitting \cup {"claim"} => w # v /\ order[w] # order[v] /\ place[w] = place'[w]
        BY <2>1, <2>3
    <2> QED
        BY <2>1, <2>2, <2>5, <2>6, <2>7
<1>5. ASSUME NEW v \in Visits, Answer(v) PROVE Exclusive'
    BY <1>5 DEF Answer
<1>6. ASSUME NEW v \in Visits, CreateThrows(v) PROVE Exclusive'
    BY <1>6 DEF CreateThrows
<1>7. ASSUME NEW v \in Visits, UndoCreate(v) PROVE Exclusive'
    BY <1>7 DEF UndoCreate
<1>8. ASSUME NEW v \in Visits, Pay(v) PROVE Exclusive'
    BY <1>8 DEF Pay
<1>9. ASSUME NEW v \in Visits, WalletThrows(v) PROVE Exclusive'
    BY <1>9 DEF WalletThrows
<1>10. ASSUME NEW v \in Visits, Read(v) PROVE Exclusive'
    BY <1>10 DEF Read
<1>11. ASSUME NEW v \in Visits, ClaimSubmit(v) PROVE Exclusive'
    <2>1. order[v] \in Orders
        BY <1>11 DEF ClaimSubmit
    <2>2. place[v] = "claim"
        BY <1>11 DEF ClaimSubmit
    <2>3. UNCHANGED <<visit, made, row, createKeys, sent, bags, history>>
        BY <1>11 DEF ClaimSubmit
    <2>4. CASE /\ place' = [place EXCEPT ![v] = "bags"]
               /\ paying[order[v]] = "free"
               /\ paying' = [paying EXCEPT ![order[v]] = "running"]
        BY <2>1, <2>2, <2>3, <2>4
    <2>5. CASE /\ place' = [place EXCEPT ![v] = "over"]
               /\ paying[order[v]] # "free"
               /\ paying' = paying
        BY <2>1, <2>2, <2>3, <2>5
    <2> HIDE DEF OrderIInv
    <2> QED
        BY <1>11, <2>1, <2>4, <2>5 DEF ClaimSubmit
<1>12. ASSUME NEW v \in Visits, Accept(v) PROVE Exclusive'
    <2>1. order[v] \in Orders /\ place[v] = "bags"
        BY <1>12 DEF Accept
    <2>2. /\ asked' = [asked EXCEPT ![order[v]] = asked[order[v]] + 1]
          /\ UNCHANGED <<order, row, paying, reopened>>
        BY <1>12 DEF Accept
    <2>3. \/ place' = [place EXCEPT ![v] = "mark"]
          \/ place' = [place EXCEPT ![v] = "fail"]
        BY <1>12 DEF Accept
    <2>4. order[v] \notin reopened => asked[order[v]] = 0 /\ paying[order[v]] = "running"
        BY <2>1
    <2>5. CASE place' = [place EXCEPT ![v] = "mark"]
        BY <2>1, <2>2, <2>4, <2>5
    <2>6. CASE place' = [place EXCEPT ![v] = "fail"]
        BY <2>1, <2>2, <2>4, <2>6
    <2> QED
        BY <2>3, <2>5, <2>6
<1>13. ASSUME NEW v \in Visits, Refuse(v) PROVE Exclusive'
    BY <1>13 DEF Refuse
<1>14. ASSUME NEW v \in Visits, MarkPaid(v) PROVE Exclusive'
    <2>1. order[v] \in Orders
        BY <1>14 DEF MarkPaid
    <2>2. place[v] = "mark"
        BY <1>14 DEF MarkPaid
    <2>3. UNCHANGED <<visit, made, createKeys, paying, sent, bags, history>>
        BY <1>14 DEF MarkPaid
    <2>4. CASE /\ place' = [place EXCEPT ![v] = "store"]
               /\ Active \subseteq {order[v]}
               /\ row' = [row EXCEPT ![order[v]] = "paid"]
        BY <2>1, <2>2, <2>3, <2>4
    <2>5. CASE /\ place' = [place EXCEPT ![v] = "release"]
               /\ ~(Active \subseteq {order[v]})
               /\ row' = row
        BY <2>1, <2>2, <2>3, <2>5
    <2> HIDE DEF OrderIInv
    <2> QED
        BY <1>14, <2>1, <2>4, <2>5 DEF MarkPaid
<1>15. ASSUME NEW v \in Visits, MarkFailed(v) PROVE Exclusive'
    BY <1>15 DEF MarkFailed
<1>16. ASSUME NEW v \in Visits, Store(v) PROVE Exclusive'
    BY <1>16 DEF Store
<1>17. ASSUME NEW v \in Visits, SubmitThrows(v) PROVE Exclusive'
    BY <1>17 DEF SubmitThrows
<1>18. ASSUME NEW v \in Visits, Release(v) PROVE Exclusive'
    BY <1>18 DEF Release
<1>19. ASSUME NEW v \in Visits, CancelRead(v) PROVE Exclusive'
    BY <1>19 DEF CancelRead
<1>20. ASSUME NEW v \in Visits, Close(v) PROVE Exclusive'
    <2>1. order[v] \in Orders /\ place[v] = "close"
        BY <1>20 DEF Close
    <2>2. /\ row' = [row EXCEPT ![order[v]] = "failed"] /\ place' = [place EXCEPT ![v] = "over"]
          /\ UNCHANGED <<order, paying, asked, reopened>>
        BY <1>20 DEF Close
    <2> QED
        BY <2>1, <2>2
<1>21. ASSUME NEW v \in Visits, Quit(v) PROVE Exclusive'
    BY <1>21 DEF Quit
<1>22. ASSUME NEW i \in Images, CreateLapses(i) PROVE Exclusive'
    BY <1>22 DEF CreateLapses
<1>23. ASSUME NEW o \in Orders, SubmitLapses(o) PROVE Exclusive'
    BY <1>23 DEF SubmitLapses
<1>24. CASE UNCHANGED orderVars
    BY <1>24 DEF orderVars
<1> QED
    BY <1>1, <1>2, <1>3, <1>4, <1>5, <1>6, <1>7, <1>8, <1>9, <1>10, <1>11,
       <1>12, <1>13, <1>14, <1>15, <1>16, <1>17, <1>18, <1>19, <1>20,
       <1>21, <1>22, <1>23, <1>24
       DEF OrderNext, VisitStep

\* A visit that leaves an order leaves it settled, or to the visit that holds its
\* key, unless something got lost on it or it was cancelled under a submission.
LEMMA BooksStep == OrderIInv /\ [OrderNext]_orderVars => Books'
<1> SUFFICES ASSUME OrderIInv, [OrderNext]_orderVars PROVE Books'
    OBVIOUS
<1> USE OrderAssumption DEF OrderIInv, OrderTypeOK, Orders, Creating, Paying,
            Submitting, Active, Proceed, Mark, Lose, visit, createKeys, bags,
            history, Unlisted, Paid, Listed, Exclusive, Books
<1>1. ASSUME NEW v \in Visits, Ask(v) PROVE Books'
    <2>0. /\ place[v] = "ask"
          /\ UNCHANGED <<image, made, row, reply, paying, sent, bags, history>>
        BY <1>1 DEF Ask
    <2>1. CASE place' = [place EXCEPT ![v] = "over"] /\ UNCHANGED <<order, creating>>
        BY <2>0, <2>1
    <2>2. CASE /\ place' = [place EXCEPT ![v] = IF reply[image[v]] = 0 THEN "over" ELSE "pay"]
               /\ order' = [order EXCEPT ![v] = reply[image[v]]]
               /\ UNCHANGED creating
        BY <2>0, <2>2
    <2>3. CASE /\ place' = [place EXCEPT ![v] = "guard"]
               /\ creating' = [creating EXCEPT ![image[v]] = "running"]
               /\ UNCHANGED order
        BY <2>0, <2>3
    <2>4. creating[image[v]] \in {"free", "running", "answered"}
        OBVIOUS
    <2> QED
        BY <1>1, <2>1, <2>2, <2>3, <2>4 DEF Ask
<1>2. ASSUME NEW v \in Visits, Guard(v) PROVE Books'
    BY <1>2 DEF Guard
<1>3. ASSUME NEW v \in Visits, Request(v) PROVE Books'
    BY <1>3 DEF Request
<1>4. ASSUME NEW v \in Visits, Insert(v) PROVE Books'
    <2>1. order[v] \in Orders /\ place[v] = "insert" /\ row[order[v]] = "none"
        BY <1>4 DEF Insert
    <2>2. UNCHANGED <<visit, made, createKeys, paying, sent, bags, reopened, failedSent, raced>>
        BY <1>4 DEF Insert
    <2>3. CASE /\ place' = [place EXCEPT ![v] = "undo"]
               /\ row' = row
               /\ lost' = lost
        BY <2>1, <2>2, <2>3
    <2>4. CASE /\ place' = [place EXCEPT ![v] = "answer"]
               /\ Active = {}
               /\ row' = [row EXCEPT ![order[v]] = "pending"]
               /\ lost' = lost
        BY <2>1, <2>2, <2>4
    <2>5. CASE /\ place' = [place EXCEPT ![v] = "undo"]
               /\ Active = {}
               /\ row' = [row EXCEPT ![order[v]] = "pending"]
               /\ lost' = lost \cup {order[v]}
        BY <2>1, <2>2, <2>5
    <2> HIDE DEF OrderIInv
    <2> QED
        BY <1>4, <2>1, <2>3, <2>4, <2>5 DEF Insert
<1>5. ASSUME NEW v \in Visits, Answer(v) PROVE Books'
    BY <1>5 DEF Answer
<1>6. ASSUME NEW v \in Visits, CreateThrows(v) PROVE Books'
    BY <1>6 DEF CreateThrows
<1>7. ASSUME NEW v \in Visits, UndoCreate(v) PROVE Books'
    BY <1>7 DEF UndoCreate
<1>8. ASSUME NEW v \in Visits, Pay(v) PROVE Books'
    BY <1>8 DEF Pay
<1>9. ASSUME NEW v \in Visits, WalletThrows(v) PROVE Books'
    BY <1>9 DEF WalletThrows
<1>10. ASSUME NEW v \in Visits, Read(v) PROVE Books'
    BY <1>10 DEF Read
<1>11. ASSUME NEW v \in Visits, ClaimSubmit(v) PROVE Books'
    <2>1. order[v] \in Orders
        BY <1>11 DEF ClaimSubmit
    <2>2. place[v] = "claim"
        BY <1>11 DEF ClaimSubmit
    <2>3. UNCHANGED <<visit, made, row, createKeys, sent, bags, history>>
        BY <1>11 DEF ClaimSubmit
    <2>4. CASE /\ place' = [place EXCEPT ![v] = "bags"]
               /\ paying[order[v]] = "free"
               /\ paying' = [paying EXCEPT ![order[v]] = "running"]
        <3>1. order[v] \notin lost \cup raced => row[order[v]] = "pending"
            BY <2>1, <2>2, <2>3, <2>4
        <3> HIDE DEF Active
        <3> QED
            BY <2>1, <2>2, <2>3, <2>4, <3>1
    <2>5. CASE /\ place' = [place EXCEPT ![v] = "over"]
               /\ paying[order[v]] # "free"
               /\ paying' = paying
        <3>1. order[v] \notin lost \cup raced /\ row[order[v]] = "pending" => \E w \in Visits \ {v} : order[w] = order[v] /\ place[w] # "over"
            BY <2>1, <2>2, <2>3, <2>5
        <3> HIDE DEF Active
        <3> QED
            BY <2>1, <2>2, <2>3, <2>5, <3>1
    <2> HIDE DEF OrderIInv
    <2> QED
        BY <1>11, <2>1, <2>4, <2>5 DEF ClaimSubmit
<1>12. ASSUME NEW v \in Visits, Accept(v) PROVE Books'
    <2>1. order[v] \in Orders /\ place[v] = "bags"
        BY <1>12 DEF Accept
    <2>2. /\ accepted' = accepted \cup {order[v]}
          /\ UNCHANGED <<order, row, paying, reopened, raced>>
        BY <1>12 DEF Accept
    <2>3. CASE place' = [place EXCEPT ![v] = "mark"] /\ lost' = lost
        <3>1. order[v] \notin lost \cup raced =>
                  /\ row[order[v]] = "pending"
                  /\ \A w \in Visits : order[w] = order[v] => place[w] # "fail"
            BY <2>1
        <3> QED
            BY <2>1, <2>2, <2>3, <3>1
    <2>4. CASE place' = [place EXCEPT ![v] = "fail"] /\ lost' = lost \cup {order[v]}
        BY <2>1, <2>2, <2>4
    <2> QED
        BY <1>12, <2>1, <2>3, <2>4 DEF Accept
<1>13. ASSUME NEW v \in Visits, Refuse(v) PROVE Books'
    BY <1>13 DEF Refuse
<1>14. ASSUME NEW v \in Visits, MarkPaid(v) PROVE Books'
    <2>1. order[v] \in Orders
        BY <1>14 DEF MarkPaid
    <2>2. place[v] = "mark"
        BY <1>14 DEF MarkPaid
    <2>3. UNCHANGED <<visit, made, createKeys, paying, sent, bags, history>>
        BY <1>14 DEF MarkPaid
    <2>4. CASE /\ place' = [place EXCEPT ![v] = "store"]
               /\ Active \subseteq {order[v]}
               /\ row' = [row EXCEPT ![order[v]] = "paid"]
        BY <2>1, <2>2, <2>3, <2>4
    <2>5. CASE /\ place' = [place EXCEPT ![v] = "release"]
               /\ ~(Active \subseteq {order[v]})
               /\ row' = row
        BY <2>1, <2>2, <2>3, <2>5
    <2> HIDE DEF OrderIInv
    <2> QED
        BY <1>14, <2>1, <2>4, <2>5 DEF MarkPaid
<1>15. ASSUME NEW v \in Visits, MarkFailed(v) PROVE Books'
    BY <1>15 DEF MarkFailed
<1>16. ASSUME NEW v \in Visits, Store(v) PROVE Books'
    BY <1>16 DEF Store
<1>17. ASSUME NEW v \in Visits, SubmitThrows(v) PROVE Books'
    BY <1>17 DEF SubmitThrows
<1>18. ASSUME NEW v \in Visits, Release(v) PROVE Books'
    BY <1>18 DEF Release
<1>19. ASSUME NEW v \in Visits, CancelRead(v) PROVE Books'
    BY <1>19 DEF CancelRead
<1>20. ASSUME NEW v \in Visits, Close(v) PROVE Books'
    <2>1. order[v] \in Orders /\ place[v] = "close" /\ row[order[v]] # "none"
        <3>1. order[v] \in Orders /\ place[v] = "close"
            BY <1>20 DEF Close
        <3> QED
            BY <3>1
    <2>2. /\ row' = [row EXCEPT ![order[v]] = "failed"] /\ place' = [place EXCEPT ![v] = "over"]
          /\ UNCHANGED <<visit, made, createKeys, paying, sent, bags, reopened, lost>>
        BY <1>20 DEF Close
    <2>3. raced \subseteq raced'
        BY <1>20 DEF Close
    <2>4. order[v] \notin raced' =>
              /\ row[order[v]] # "paid"
              /\ \A w \in Visits : order[w] = order[v] => place[w] \notin {"claim", "bags", "mark"}
        BY <1>20 DEF Close
    <2>5. order[v] \notin lost \cup raced' => order[v] \notin accepted
        BY <2>1, <2>3, <2>4
    <2> QED
        BY <2>1, <2>2, <2>3, <2>4, <2>5
<1>21. ASSUME NEW v \in Visits, Quit(v) PROVE Books'
    BY <1>21 DEF Quit
<1>22. ASSUME NEW i \in Images, CreateLapses(i) PROVE Books'
    BY <1>22 DEF CreateLapses
<1>23. ASSUME NEW o \in Orders, SubmitLapses(o) PROVE Books'
    BY <1>23 DEF SubmitLapses
<1>24. CASE UNCHANGED orderVars
    BY <1>24 DEF orderVars
<1> QED
    BY <1>1, <1>2, <1>3, <1>4, <1>5, <1>6, <1>7, <1>8, <1>9, <1>10, <1>11,
       <1>12, <1>13, <1>14, <1>15, <1>16, <1>17, <1>18, <1>19, <1>20,
       <1>21, <1>22, <1>23, <1>24
       DEF OrderNext, VisitStep

-----------------------------------------------------------------------------

\* The invariant holds throughout.
LEMMA OrderInvariant == OrderSpec => []OrderIInv
<1>1. OrderIInv /\ [OrderNext]_orderVars => OrderIInv'
    BY OrderTypeStep, UnlistedStep, PaidStep, ListedStep, ExclusiveStep, BooksStep
       DEF OrderIInv
<1> QED
    BY OrderInitIInv, <1>1, PTL DEF OrderSpec

\* The types are kept, and a visit past the wallet is about some order.
THEOREM OrderTypeCorrect == OrderSpec => []OrderTypeOK
<1>1. OrderIInv => OrderTypeOK
    BY DEF OrderIInv
<1> QED
    BY OrderInvariant, <1>1, PTL

\* However many visits overlap, a page is bought once: an order Bags took payment
\* for holds the project's only active row, unless it was marked failed after it
\* was paid.
THEOREM PageBoughtOnce == OrderSpec => []OneListing
<1>1. OrderIInv => OneListing
    BY DEF OrderIInv, Listed, OneListing
<1> QED
    BY OrderInvariant, <1>1, PTL

\* Bags is told of a payment a second time only if a submission threw or died:
\* until then the order's key and the status of its row keep every other visit,
\* a replayed answer and a key that ran out from submitting it again.
THEOREM NoSecondSubmission == OrderSpec => []AskedOnce
<1>1. OrderIInv => AskedOnce
    <2> SUFFICES ASSUME OrderIInv, NEW o \in Orders, o \notin reopened
                 PROVE  ~(asked[o] > 1)
        BY DEF AskedOnce
    <2>1. asked[o] \in Nat /\ asked[o] <= 1
        BY DEF OrderIInv, OrderTypeOK, Exclusive
    <2> QED
        BY <2>1
<1> QED
    BY OrderInvariant, <1>1, PTL

\* An order that nobody is busy with is as Bags has it and does not keep the
\* project's slot, unless a call, an answer or a visit got lost on it or it was
\* cancelled by id under a submission or after it was paid.
THEOREM RowsMatchBags == OrderSpec => []BooksMatch
<1>1. OrderIInv => BooksMatch
    BY DEF OrderIInv, OrderTypeOK, Books, BooksMatch
<1> QED
    BY OrderInvariant, <1>1, PTL

=============================================================================
