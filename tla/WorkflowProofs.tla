----------------------------- MODULE WorkflowProofs -----------------------------
(***************************************************************************)
(* Proofs about two modules of the workflows.  WorkflowLock, for every set  *)
(* of executions, every TTL and every bound on the tokens: the lock is       *)
(* exclusive while leases last, and it implements Lease.  Payout, for every  *)
(* number of slots, every board and every score: plans are fair and whole,   *)
(* and never go back to an older snapshot.                                   *)
(***************************************************************************)
EXTENDS WorkflowLock, Payout, FiniteSetTheorems, FunctionTheorems, SequenceTheorems,
        WellFoundedInduction, TLAPS

\* The key is present exactly while it has time left.
KeyHasTime == key = 0 <=> left = 0

\* Tokens in use were drawn, and no two executions inside share one.
TokensDrawn ==
    /\ key <= issued
    /\ \A r \in Runs : Inside(r) => token[r] \in 1..issued
    /\ \A r, s \in Runs : Inside(r) /\ Inside(s) /\ token[r] = token[s] => r = s

IInv == TypeOK /\ KeyHasTime /\ TokensDrawn /\ HolderKeepsKey

-----------------------------------------------------------------------------

LEMMA InitIInv == Init => IInv
BY LockAssumption
   DEF Init, IInv, TypeOK, KeyHasTime, TokensDrawn, HolderKeepsKey, WithinLease, Inside

LEMMA TypeStep == IInv /\ [Next]_vars => TypeOK'
<1> SUFFICES ASSUME IInv, [Next]_vars PROVE TypeOK'
    OBVIOUS
<1> USE LockAssumption DEF IInv, TypeOK
<1>1. ASSUME NEW r \in Runs, Acquire(r) PROVE TypeOK'
    BY <1>1 DEF Acquire, SetNX
<1>2. ASSUME NEW r \in Runs, Refused(r) PROVE TypeOK'
    BY <1>2 DEF Refused
<1>3. ASSUME NEW r \in Runs, AcquireLost(r) PROVE TypeOK'
    BY <1>3 DEF AcquireLost, SetNX
<1>4. ASSUME NEW r \in Runs, AcquireThrows(r) PROVE TypeOK'
    BY <1>4 DEF AcquireThrows
<1>5. ASSUME NEW r \in Runs, Release(r) PROVE TypeOK'
    BY <1>5 DEF Release
<1>6. ASSUME NEW r \in Runs, Abandon(r) PROVE TypeOK'
    BY <1>6 DEF Abandon
<1>7. ASSUME NEW r \in Runs, Restart(r) PROVE TypeOK'
    BY <1>7 DEF Restart
<1>8. CASE Tick
    BY <1>8 DEF Tick
<1>9. CASE UNCHANGED vars
    BY <1>9 DEF vars
<1>10. QED
    BY <1>1, <1>2, <1>3, <1>4, <1>5, <1>6, <1>7, <1>8, <1>9 DEF Next

LEMMA InvStep == IInv /\ [Next]_vars => IInv'
<1> SUFFICES ASSUME IInv, [Next]_vars PROVE (KeyHasTime /\ TokensDrawn /\ HolderKeepsKey)'
    BY TypeStep DEF IInv
<1> DEFINE Goal == KeyHasTime /\ TokensDrawn /\ HolderKeepsKey
<1> USE LockAssumption
    DEF IInv, TypeOK, KeyHasTime, TokensDrawn, HolderKeepsKey, WithinLease, Inside
<1>1. ASSUME NEW r \in Runs, Acquire(r) PROVE Goal'
    BY <1>1 DEF Acquire, SetNX
<1>2. ASSUME NEW r \in Runs, Refused(r) PROVE Goal'
    BY <1>2 DEF Refused
<1>3. ASSUME NEW r \in Runs, AcquireLost(r) PROVE Goal'
    BY <1>3 DEF AcquireLost, SetNX
<1>4. ASSUME NEW r \in Runs, AcquireThrows(r) PROVE Goal'
    BY <1>4 DEF AcquireThrows
<1>5. ASSUME NEW r \in Runs, Release(r) PROVE Goal'
    BY <1>5 DEF Release
<1>6. ASSUME NEW r \in Runs, Abandon(r) PROVE Goal'
    BY <1>6 DEF Abandon
<1>7. ASSUME NEW r \in Runs, Restart(r) PROVE Goal'
    BY <1>7 DEF Restart
<1>8. CASE Tick
    BY <1>8 DEF Tick
<1>9. CASE UNCHANGED vars
    BY <1>9 DEF vars
<1>10. QED
    BY <1>1, <1>2, <1>3, <1>4, <1>5, <1>6, <1>7, <1>8, <1>9 DEF Next

\* The inductive invariant holds of every behaviour of the lock.
THEOREM Inductive == Spec => []IInv
BY InitIInv, InvStep, PTL DEF Spec

\* Every reachable state is well typed.
THEOREM TypeCorrect == Spec => []TypeOK
BY Inductive, PTL DEF IInv

\* An execution within its lease finds its own token under the key.
THEOREM HolderSafe == Spec => []HolderKeepsKey
BY Inductive, PTL DEF IInv

LEMMA Exclusive == IInv => MutualExclusion
BY DEF IInv, TokensDrawn, HolderKeepsKey, WithinLease, Inside, MutualExclusion

\* Two executions are never inside together while both leases last.
THEOREM LockIsExclusive == Spec => []MutualExclusion
BY Inductive, Exclusive, PTL

-----------------------------------------------------------------------------

\* The tokens of the executions inside, the abstract lease's `inside`.
Users == {token[r] : r \in {s \in Runs : Inside(s)}}

LEMMA LeaseInit == Init => LeaseView!Init
BY DEF Init, LeaseView!Init, Inside

LEMMA LeaseStep == IInv /\ [Next]_vars => [LeaseView!Next]_LeaseView!vars
<1> SUFFICES ASSUME IInv, [Next]_vars PROVE LeaseView!Next \/ UNCHANGED LeaseView!vars
    OBVIOUS
<1>1. ASSUME NEW r \in Runs, Acquire(r) PROVE LeaseView!Next
  <2>1. LeaseView!Acquire(issued + 1)
    BY <1>1 DEF Acquire, SetNX, LeaseView!Acquire, IInv, TypeOK, TokensDrawn, Inside
  <2>2. issued + 1 \in 1..MaxTokens
    BY <1>1, LockAssumption DEF Acquire, SetNX, IInv, TypeOK
  <2>3. QED
    BY <2>1, <2>2 DEF LeaseView!Next, LeaseView!Acquire, LeaseView!Orphan, LeaseView!Release, LeaseView!Abandon
<1>2. ASSUME NEW r \in Runs, Refused(r) PROVE UNCHANGED LeaseView!vars
    BY <1>2 DEF Refused, LeaseView!vars, IInv, TypeOK, Inside
<1>3. ASSUME NEW r \in Runs, AcquireLost(r) PROVE LeaseView!Next
  <2>1. LeaseView!Orphan(issued + 1)
    BY <1>3 DEF AcquireLost, SetNX, LeaseView!Orphan, IInv, TypeOK, TokensDrawn, Inside
  <2>2. issued + 1 \in 1..MaxTokens
    BY <1>3, LockAssumption DEF AcquireLost, SetNX, IInv, TypeOK
  <2>3. QED
    BY <2>1, <2>2 DEF LeaseView!Next, LeaseView!Acquire, LeaseView!Orphan, LeaseView!Release, LeaseView!Abandon
<1>4. ASSUME NEW r \in Runs, AcquireThrows(r) PROVE UNCHANGED LeaseView!vars
    BY <1>4 DEF AcquireThrows, LeaseView!vars, IInv, TypeOK, Inside
<1>5. ASSUME NEW r \in Runs, Release(r) PROVE LeaseView!Next
  <2>1. LeaseView!Release(token[r])
    BY <1>5 DEF Release, LeaseView!Release, IInv, TypeOK, TokensDrawn, Inside
  <2>2. token[r] \in 1..MaxTokens
    BY <1>5, LockAssumption DEF Release, IInv, TypeOK, TokensDrawn, Inside
  <2>3. QED
    BY <2>1, <2>2 DEF LeaseView!Next, LeaseView!Acquire, LeaseView!Orphan, LeaseView!Release, LeaseView!Abandon
<1>6. ASSUME NEW r \in Runs, Abandon(r) PROVE LeaseView!Next
  <2>1. LeaseView!Abandon(token[r])
    BY <1>6 DEF Abandon, LeaseView!Abandon, IInv, TypeOK, TokensDrawn, Inside
  <2>2. token[r] \in 1..MaxTokens
    BY <1>6, LockAssumption DEF Abandon, IInv, TypeOK, TokensDrawn, Inside
  <2>3. QED
    BY <2>1, <2>2 DEF LeaseView!Next, LeaseView!Acquire, LeaseView!Orphan, LeaseView!Release, LeaseView!Abandon
<1>7. ASSUME NEW r \in Runs, Restart(r) PROVE UNCHANGED LeaseView!vars
    BY <1>7 DEF Restart, LeaseView!vars, IInv, TypeOK, Inside
<1>8. ASSUME Tick PROVE LeaseView!Next \/ UNCHANGED LeaseView!vars
    BY <1>8 DEF Tick, LeaseView!Next, LeaseView!Lapse, LeaseView!vars, IInv, KeyHasTime, TypeOK, Inside
<1>9. CASE UNCHANGED vars
    BY <1>9 DEF vars, LeaseView!vars, Inside
<1>10. QED
    BY <1>1, <1>2, <1>3, <1>4, <1>5, <1>6, <1>7, <1>8, <1>9 DEF Next

\* The lock implements the lease the workflows rely on.
THEOREM LockImplementsLease == Spec => ImplementsLease
BY Inductive, LeaseInit, LeaseStep, PTL DEF Spec, ImplementsLease, LeaseView!Spec

-----------------------------------------------------------------------------
(* Sums. *)

\* The element a fold takes from a set, and the partial sums of f that
\* SumFunction is defined by.
Pick(s) == CHOOSE x \in s : TRUE
Unfold(f, g, D) == [s \in D |-> IF s = {} THEN 0 ELSE f[Pick(s)] + g[s \ {Pick(s)}]]
Sums(f, S) == CHOOSE g : g = Unfold(f, g, SUBSET S)

\* SumFunction folds the partial sums of Sums.
LEMMA SumIsSums ==
    ASSUME NEW f
    PROVE  SumFunction(f) = Sums(f, DOMAIN f)[DOMAIN f]
BY DEF SumFunction, SumFunctionOnSet, FoldFunctionOnSet, MapThenFoldSet, Sums, Unfold, Pick

\* < on the naturals as the relation that is well founded.
LEMMA LessRelated ==
    ASSUME NEW m \in Nat, NEW n \in Nat, m < n
    PROVE  <<m, n>> \in OpToRel(<, Nat)
<1> DEFINE pair == <<m, n>>
<1>1. pair \in Nat \X Nat /\ pair[1] < pair[2]
    OBVIOUS
<1> HIDE DEF pair
<1> QED
    BY <1>1 DEF OpToRel, pair

\* Induction on the natural numbers and on the subsets of a finite set, for
\* sets of them.
LEMMA NatInductive ==
    ASSUME NEW P, 0 \in P, \A n \in Nat : n \in P => n + 1 \in P
    PROVE  \A n \in Nat : n \in P
<1> DEFINE B == {n \in Nat : n \notin P}
<1> SUFFICES ASSUME B # {} PROVE FALSE
    OBVIOUS
<1>1. PICK m \in B : \A k \in B : ~(<<k, m>> \in OpToRel(<, Nat))
    BY NatLessThanWellFounded, WFMin
<1> HIDE DEF B
<1>2. m \in Nat /\ m \notin P
    BY <1>1 DEF B
<1>3. m # 0 /\ m - 1 \in Nat
    BY <1>2
<1>4. <<m - 1, m>> \in OpToRel(<, Nat)
    <2>1. m - 1 < m
        BY <1>2
    <2> QED
        BY <1>2, <1>3, <2>1, LessRelated
<1>5. m - 1 \in P
    BY <1>1, <1>4, <1>3 DEF B
<1> QED
    <2>1. (m - 1) + 1 = m
        BY <1>2
    <2> QED
        BY <1>2, <1>5, <1>3, <2>1

\* What a fold takes from a set is in it.
LEMMA PickInSet ==
    ASSUME NEW S, S # {}
    PROVE  Pick(S) \in S
BY DEF Pick

LEMMA SubsetInductive ==
    ASSUME NEW S, IsFiniteSet(S), NEW P, {} \in P,
           \A T \in SUBSET S : T # {} /\ T \ {Pick(T)} \in P => T \in P
    PROVE  \A T \in SUBSET S : T \in P
<1> DEFINE Q == {n \in Nat : \A T \in SUBSET S : Cardinality(T) = n => T \in P}
<1>1. \A T \in SUBSET S : IsFiniteSet(T) /\ Cardinality(T) \in Nat
    BY FS_Subset, FS_CardinalityType
<1>2. 0 \in Q
    BY <1>1, FS_EmptySet
<1>3. ASSUME NEW n \in Nat, n \in Q PROVE n + 1 \in Q
    <2> SUFFICES ASSUME NEW T \in SUBSET S, Cardinality(T) = n + 1 PROVE T \in P
        OBVIOUS
    <2>1. T # {}
        <3>1. Cardinality({}) = 0
            BY FS_EmptySet
        <3> QED
            BY <3>1
    <2>2. T \ {Pick(T)} \in SUBSET S /\ Cardinality(T \ {Pick(T)}) = n
        BY <1>1, <2>1, PickInSet, FS_RemoveElement
    <2> QED
        BY <1>3, <2>1, <2>2
<1>4. \A n \in Nat : n \in Q
    <2> HIDE DEF Q
    <2> QED
        BY <1>2, <1>3, NatInductive
<1> QED
    BY <1>1, <1>4

\* The recursion that defines the partial sums has a solution.
LEMMA SumsUnfold ==
    ASSUME NEW S, IsFiniteSet(S), NEW f
    PROVE  Sums(f, S) = Unfold(f, Sums(f, S), SUBSET S)
<1> DEFINE Upto(n) == {T \in SUBSET S : Cardinality(T) <= n}
           Q == {n \in Nat : \E g : g = Unfold(f, g, Upto(n))}
<1>1. \A T \in SUBSET S : IsFiniteSet(T) /\ Cardinality(T) \in Nat
    BY FS_Subset, FS_CardinalityType
<1>2. 0 \in Q
    <2>1. Upto(0) = {{}}
        BY <1>1, FS_EmptySet
    <2>2. [T \in {{}} |-> 0] = Unfold(f, [T \in {{}} |-> 0], Upto(0))
        BY <2>1 DEF Unfold
    <2> QED
        BY <2>2
<1>3. ASSUME NEW n \in Nat, n \in Q PROVE n + 1 \in Q
    <2>1. PICK g : g = Unfold(f, g, Upto(n))
        BY <1>3
    <2> DEFINE h == Unfold(f, g, Upto(n + 1))
    <2>2. \A T \in Upto(n + 1) : T # {} => T \ {Pick(T)} \in Upto(n)
        BY <1>1, PickInSet, FS_RemoveElement
    <2>3. ASSUME NEW T \in Upto(n) PROVE h[T] = g[T]
        <3>1. T \in Upto(n + 1)
            BY <1>1
        <3>2. /\ g[T] = IF T = {} THEN 0 ELSE f[Pick(T)] + g[T \ {Pick(T)}]
              /\ h[T] = IF T = {} THEN 0 ELSE f[Pick(T)] + g[T \ {Pick(T)}]
            <4>1. h = Unfold(f, g, Upto(n + 1)) /\ g = Unfold(f, g, Upto(n))
                BY <2>1
            <4>2. T \in Upto(n) /\ T \in Upto(n + 1)
                BY <3>1
            <4> HIDE DEF Upto, h
            <4>3. g[T] = IF T = {} THEN 0 ELSE f[Pick(T)] + g[T \ {Pick(T)}]
                BY <4>1, <4>2, Zenon DEF Unfold
            <4>4. h[T] = IF T = {} THEN 0 ELSE f[Pick(T)] + g[T \ {Pick(T)}]
                BY <4>1, <4>2, Zenon DEF Unfold
            <4> QED
                BY <4>3, <4>4
        <3> HIDE DEF h
        <3> QED
            BY <3>2
    <2>4. h = Unfold(f, h, Upto(n + 1))
        BY <2>2, <2>3 DEF Unfold
    <2> QED
        BY <2>4
<1>4. \A n \in Nat : n \in Q
    <2> HIDE DEF Q
    <2> QED
        BY <1>2, <1>3, NatInductive
<1>5. Upto(Cardinality(S)) = SUBSET S
    BY <1>1, FS_Subset, FS_CardinalityType
<1>6. \E g : g = Unfold(f, g, SUBSET S)
    BY <1>1, <1>4, <1>5
<1> QED
    BY <1>6 DEF Sums

\* The partial sums obey their recursion, ...
LEMMA SumsOf ==
    ASSUME NEW S, IsFiniteSet(S), NEW f
    PROVE  /\ Sums(f, S)[{}] = 0
           /\ \A T \in SUBSET S : T # {} =>
                  Sums(f, S)[T] = f[Pick(T)] + Sums(f, S)[T \ {Pick(T)}]
<1> DEFINE g == Sums(f, S)
<1>1. g = Unfold(f, g, SUBSET S)
    BY SumsUnfold
<1> HIDE DEF g
<1>2. \A T \in SUBSET S : g[T] = IF T = {} THEN 0 ELSE f[Pick(T)] + g[T \ {Pick(T)}]
    BY <1>1, Zenon DEF Unfold
<1>3. {} \in SUBSET S
    OBVIOUS
<1>4. g[{}] = 0
    BY <1>2, <1>3, Zenon
<1>5. \A T \in SUBSET S : T # {} => g[T] = f[Pick(T)] + g[T \ {Pick(T)}]
    BY <1>2, Zenon
<1> QED
    BY <1>4, <1>5 DEF g

\* ... as a rule for several functions at once.
LEMMA SumsStep ==
    ASSUME NEW S, IsFiniteSet(S), NEW T \in SUBSET S, T # {}
    PROVE  \A f : Sums(f, S)[T] = f[Pick(T)] + Sums(f, S)[T \ {Pick(T)}]
BY SumsOf

\* Numbers add up to a number.
LEMMA SumsType ==
    ASSUME NEW S, IsFiniteSet(S), NEW f \in [S -> Nat]
    PROVE  \A T \in SUBSET S : Sums(f, S)[T] \in Nat
<1> DEFINE P == {T \in SUBSET S : Sums(f, S)[T] \in Nat}
<1>1. {} \in P
    BY SumsOf
<1>2. ASSUME NEW T \in SUBSET S, T # {}, T \ {Pick(T)} \in P PROVE T \in P
    <2>1. Sums(f, S)[T] = f[Pick(T)] + Sums(f, S)[T \ {Pick(T)}]
        BY <1>2, SumsStep
    <2>2. Pick(T) \in S
        BY <1>2, PickInSet
    <2> QED
        BY <1>2, <2>1, <2>2
<1>3. \A T \in SUBSET S : T \in P
    <2> HIDE DEF P
    <2> QED
        BY <1>1, <1>2, SubsetInductive
<1> QED
    BY <1>3

\* Each f[i] * w divides by t into q[i] and r[i].
Divided(S, f, w, t, q, r) ==
    /\ f \in [S -> Nat] /\ q \in [S -> Nat] /\ r \in [S -> Nat]
    /\ \A i \in S : f[i] * w = t * q[i] + r[i]

\* No number is more than their sum.
LEMMA SumsMember ==
    ASSUME NEW S, IsFiniteSet(S), NEW f \in [S -> Nat]
    PROVE  \A T \in SUBSET S : \A i \in T : f[i] <= Sums(f, S)[T]
<1> DEFINE P == {T \in SUBSET S : \A i \in T : f[i] <= Sums(f, S)[T]}
<1>1. {} \in P
    OBVIOUS
<1>2. ASSUME NEW T \in SUBSET S, T # {}, T \ {Pick(T)} \in P PROVE T \in P
    <2> DEFINE x == Pick(T)
               U == T \ {x}
    <2>1. Sums(f, S)[T] = f[x] + Sums(f, S)[U]
        BY <1>2, SumsStep
    <2>2. x \in S /\ U \in SUBSET S
        BY <1>2, PickInSet
    <2>3. Sums(f, S)[U] \in Nat /\ f[x] \in Nat
        BY <2>2, SumsType
    <2>4. \A i \in U : f[i] <= Sums(f, S)[U] /\ f[i] \in Nat
        BY <1>2
    <2>5. \A i \in T : i = x \/ i \in U
        OBVIOUS
    <2> HIDE DEF x, U
    <2>6. \A i \in T : f[i] <= Sums(f, S)[T]
        BY <2>1, <2>3, <2>4, <2>5
    <2> QED
        BY <2>6
<1>3. \A T \in SUBSET S : T \in P
    <2> HIDE DEF P
    <2> QED
        BY <1>1, <1>2, SubsetInductive
<1> QED
    BY <1>3

\* A sum of divisions is the division of the sum.
LEMMA SumsDivide ==
    ASSUME NEW S, IsFiniteSet(S),
           NEW f, NEW q, NEW r, NEW w \in Nat, NEW t \in Nat, Divided(S, f, w, t, q, r)
    PROVE  \A T \in SUBSET S : Sums(f, S)[T] * w = t * Sums(q, S)[T] + Sums(r, S)[T]
<1> USE DEF Divided
<1> DEFINE P == {T \in SUBSET S : Sums(f, S)[T] * w = t * Sums(q, S)[T] + Sums(r, S)[T]}
<1>1. {} \in P
    BY SumsOf
<1>2. ASSUME NEW T \in SUBSET S, T # {}, T \ {Pick(T)} \in P PROVE T \in P
    <2> DEFINE x == Pick(T)
               U == T \ {x}
    <2>1. /\ Sums(f, S)[T] = f[x] + Sums(f, S)[U]
          /\ Sums(q, S)[T] = q[x] + Sums(q, S)[U]
          /\ Sums(r, S)[T] = r[x] + Sums(r, S)[U]
        BY <1>2, SumsStep
    <2>2. x \in S /\ U \in SUBSET S
        BY <1>2, PickInSet
    <2>3. Sums(f, S)[U] \in Nat /\ Sums(q, S)[U] \in Nat /\ Sums(r, S)[U] \in Nat
        BY <2>2, SumsType
    <2>4. Sums(f, S)[U] * w = t * Sums(q, S)[U] + Sums(r, S)[U]
        BY <1>2
    <2>5. f[x] \in Nat /\ q[x] \in Nat /\ r[x] \in Nat /\ f[x] * w = t * q[x] + r[x]
        BY <2>2
    <2> HIDE DEF x, U
    <2>6. ASSUME NEW a \in Nat, NEW b \in Nat PROVE (a + b) * w = a * w + b * w /\ t * (a + b) = t * a + t * b
        OBVIOUS
    <2>7. Sums(f, S)[T] * w = f[x] * w + Sums(f, S)[U] * w
        BY <2>1, <2>3, <2>5, <2>6
    <2>8. t * Sums(q, S)[T] = t * q[x] + t * Sums(q, S)[U]
        BY <2>1, <2>3, <2>5, <2>6
    <2>9. t * q[x] \in Nat /\ t * Sums(q, S)[U] \in Nat
        BY <2>3, <2>5
    <2> QED
        BY <2>1, <2>3, <2>4, <2>5, <2>7, <2>8, <2>9
<1>3. \A T \in SUBSET S : T \in P
    <2> HIDE DEF P
    <2> QED
        BY <1>1, <1>2, SubsetInductive
<1> QED
    BY <1>3

\* f is g and one more for every member of A.
Increased(S, A, f, g) ==
    /\ A \subseteq S /\ f \in [S -> Nat] /\ g \in [S -> Nat]
    /\ \A i \in S : f[i] = IF i \in A THEN g[i] + 1 ELSE g[i]

\* One more for every member of A.
LEMMA SumsCount ==
    ASSUME NEW S, IsFiniteSet(S), NEW A, NEW f, NEW g, Increased(S, A, f, g)
    PROVE  \A T \in SUBSET S : Sums(f, S)[T] = Sums(g, S)[T] + Cardinality(T \cap A)
<1> USE DEF Increased
<1> DEFINE P == {T \in SUBSET S : Sums(f, S)[T] = Sums(g, S)[T] + Cardinality(T \cap A)}
<1>1. {} \in P
    BY SumsOf, FS_EmptySet
<1>2. ASSUME NEW T \in SUBSET S, T # {}, T \ {Pick(T)} \in P PROVE T \in P
    <2> DEFINE x == Pick(T)
               U == T \ {x}
    <2>1. /\ Sums(f, S)[T] = f[x] + Sums(f, S)[U]
          /\ Sums(g, S)[T] = g[x] + Sums(g, S)[U]
        BY <1>2, SumsStep
    <2>2. x \in T /\ x \in S /\ U \in SUBSET S
        BY <1>2, PickInSet
    <2>3. Sums(f, S)[U] \in Nat /\ Sums(g, S)[U] \in Nat
        BY <2>2, SumsType
    <2>4. IsFiniteSet(T \cap A) /\ Cardinality(T \cap A) \in Nat
        BY FS_Subset, FS_CardinalityType, FS_Intersection
    <2>5. U \cap A = (T \cap A) \ {x}
        OBVIOUS
    <2>6. Cardinality(U \cap A) = IF x \in A THEN Cardinality(T \cap A) - 1 ELSE Cardinality(T \cap A)
        <3> DEFINE W == T \cap A
        <3>1. (x \in A <=> x \in W) /\ U \cap A = W \ {x} /\ IsFiniteSet(W)
            BY <2>2, <2>4
        <3> HIDE DEF W, x, U
        <3>2. Cardinality(W \ {x}) = IF x \in W THEN Cardinality(W) - 1 ELSE Cardinality(W)
            BY <3>1, FS_RemoveElement
        <3> QED
            BY <3>1, <3>2 DEF W
    <2>7. Sums(f, S)[U] = Sums(g, S)[U] + Cardinality(U \cap A)
        BY <1>2
    <2>8. f[x] \in Nat /\ g[x] \in Nat /\ f[x] = IF x \in A THEN g[x] + 1 ELSE g[x]
        BY <2>2
    <2> HIDE DEF x, U
    <2> QED
        BY <2>1, <2>3, <2>4, <2>6, <2>7, <2>8
<1>3. \A T \in SUBSET S : T \in P
    <2> HIDE DEF P
    <2> QED
        BY <1>1, <1>2, SubsetInductive
<1> QED
    BY <1>3

\* Numbers below t add up to t times their support at most.
LEMMA SumsBound ==
    ASSUME NEW S, IsFiniteSet(S), NEW A \in SUBSET S, NEW r \in [S -> Nat], NEW t \in Nat,
           \A i \in S : r[i] <= t /\ (i \notin A => r[i] = 0)
    PROVE  \A T \in SUBSET S : Sums(r, S)[T] <= t * Cardinality(T \cap A)
<1> DEFINE P == {T \in SUBSET S : Sums(r, S)[T] <= t * Cardinality(T \cap A)}
<1>1. {} \in P
    BY SumsOf, FS_EmptySet
<1>2. ASSUME NEW T \in SUBSET S, T # {}, T \ {Pick(T)} \in P PROVE T \in P
    <2> DEFINE x == Pick(T)
               U == T \ {x}
    <2>1. Sums(r, S)[T] = r[x] + Sums(r, S)[U]
        BY <1>2, SumsStep
    <2>2. x \in T /\ x \in S /\ U \in SUBSET S
        BY <1>2, PickInSet
    <2>3. Sums(r, S)[U] \in Nat
        BY <2>2, SumsType
    <2>4. IsFiniteSet(T \cap A) /\ Cardinality(T \cap A) \in Nat
        BY FS_Subset, FS_CardinalityType, FS_Intersection
    <2>5. U \cap A = (T \cap A) \ {x}
        OBVIOUS
    <2>6. Cardinality(U \cap A) = IF x \in A THEN Cardinality(T \cap A) - 1 ELSE Cardinality(T \cap A)
        <3> DEFINE W == T \cap A
        <3>1. (x \in A <=> x \in W) /\ U \cap A = W \ {x} /\ IsFiniteSet(W)
            BY <2>2, <2>4
        <3> HIDE DEF W, x, U
        <3>2. Cardinality(W \ {x}) = IF x \in W THEN Cardinality(W) - 1 ELSE Cardinality(W)
            BY <3>1, FS_RemoveElement
        <3> QED
            BY <3>1, <3>2 DEF W
    <2>7. Sums(r, S)[U] <= t * Cardinality(U \cap A)
        BY <1>2
    <2>8. r[x] \in Nat /\ r[x] <= t /\ (x \notin A => r[x] = 0)
        BY <2>2
    <2>9. t * (Cardinality(T \cap A) - 1) = t * Cardinality(T \cap A) - t
        BY <2>4
    <2>10. t * Cardinality(T \cap A) \in Nat
        BY <2>4
    <2> HIDE DEF x, U
    <2>11. CASE x \in A
        BY <2>1, <2>3, <2>4, <2>6, <2>7, <2>8, <2>9, <2>10, <2>11
    <2>12. CASE x \notin A
        BY <2>1, <2>3, <2>4, <2>6, <2>7, <2>8, <2>10, <2>12
    <2> QED
        BY <2>11, <2>12
<1>3. \A T \in SUBSET S : T \in P
    <2> HIDE DEF P
    <2> QED
        BY <1>1, <1>2, SubsetInductive
<1> QED
    BY <1>3

-----------------------------------------------------------------------------
(* The allocation. *)

Floors(s) == [i \in Slots |-> Floor(s, i)]
Residues(s) == [i \in Slots |-> Residue(s, i)]
Rank(s, i) == Cardinality({j \in Slots : Precedes(s, j, i)})
Remainder(s) == Whole - SumFunction(Floors(s))
Scored(s) == {i \in Slots : Residue(s, i) > 0}
Lucky(s) == {i \in Slots : Rank(s, i) < Remainder(s)}
Scores == {s \in [Slots -> Nat] : SumFunction(s) > 0}

\* There are N slots.
LEMMA SlotsFinite == IsFiniteSet(Slots) /\ Cardinality(Slots) = N /\ N \in Nat \ {0}
BY PayoutAssumption, FS_Interval DEF Slots

\* A sum over the slots is the last of its partial sums.
LEMMA SumOfSlots ==
    ASSUME NEW f \in [Slots -> Nat]
    PROVE  SumFunction(f) = Sums(f, Slots)[Slots] /\ SumFunction(f) \in Nat
BY SlotsFinite, SumIsSums, SumsType

\* Floor and Residue divide a slot's share of 10000 by the total.
LEMMA Division ==
    ASSUME NEW s \in Scores, NEW i \in Slots
    PROVE  /\ s[i] \in Nat /\ SumFunction(s) \in Nat \ {0}
           /\ Floor(s, i) \in Nat /\ Residue(s, i) \in Nat
           /\ Residue(s, i) < SumFunction(s)
           /\ s[i] * Whole = SumFunction(s) * Floor(s, i) + Residue(s, i)
<1>1. s[i] \in Nat /\ SumFunction(s) \in Nat \ {0}
    BY SumOfSlots DEF Scores
<1>2. s[i] * Whole \in Nat
    BY <1>1 DEF Whole
<1>3. ASSUME NEW a \in Nat, NEW t \in Nat \ {0}
      PROVE  a \div t \in Nat /\ a % t \in Nat /\ a % t < t /\ a = t * (a \div t) + (a % t)
    OBVIOUS
<1> QED
    BY <1>1, <1>2, <1>3 DEF Floor, Residue

\* The remainder is one for every slot with a residue at most.
LEMMA RemainderSmall ==
    ASSUME NEW s \in Scores
    PROVE  Remainder(s) \in 0..Cardinality(Scored(s))
<1> DEFINE t == SumFunction(s)
           k == Cardinality(Scored(s))
           q == SumFunction(Floors(s))
           r == Sums(Residues(s), Slots)[Slots]
<1>1. /\ s \in [Slots -> Nat] /\ t \in Nat \ {0}
      /\ Floors(s) \in [Slots -> Nat] /\ Residues(s) \in [Slots -> Nat]
      /\ \A i \in Slots : s[i] * Whole = t * Floors(s)[i] + Residues(s)[i]
    BY Division, SumOfSlots DEF Scores, Floors, Residues
<1>2. Whole \in Nat
    BY DEF Whole
<1>3. Sums(s, Slots)[Slots] * Whole = t * Sums(Floors(s), Slots)[Slots] + r
    <2> HIDE DEF t
    <2>1. \A T \in SUBSET Slots :
              Sums(s, Slots)[T] * Whole
                  = t * Sums(Floors(s), Slots)[T] + Sums(Residues(s), Slots)[T]
        <3> DEFINE p == Floors(s)
                   u == Residues(s)
        <3>1. t \in Nat /\ Divided(Slots, s, Whole, t, p, u)
            BY <1>1 DEF Divided
        <3> HIDE DEF p, u
        <3>2. \A T \in SUBSET Slots : Sums(s, Slots)[T] * Whole = t * Sums(p, Slots)[T] + Sums(u, Slots)[T]
            BY <1>2, <3>1, SlotsFinite, SumsDivide
        <3> QED
            BY <3>2 DEF p, u
    <2> QED
        BY <2>1
<1>4. t * Whole = t * q + r /\ q \in Nat
    BY <1>1, <1>3, SumOfSlots
<1>5. r <= t * k
    <2>1. Scored(s) \in SUBSET Slots /\ Slots \cap Scored(s) = Scored(s)
        BY DEF Scored
    <2>2. \A i \in Slots : Residues(s)[i] <= t /\ (i \notin Scored(s) => Residues(s)[i] = 0)
        BY Division DEF Scored, Residues
    <2> QED
        BY <1>1, <2>1, <2>2, SlotsFinite, SumsBound
<1>6. k \in Nat /\ r \in Nat
    <2>1. IsFiniteSet(Scored(s))
        BY SlotsFinite, FS_Subset DEF Scored
    <2> QED
        BY <1>1, <2>1, FS_CardinalityType, SlotsFinite, SumsType
<1> HIDE DEF t, k, q, r
<1>7. t * (Whole - q) = r
    BY <1>1, <1>2, <1>4, <1>6
<1>8. 0 <= Whole - q /\ Whole - q <= k
    BY <1>1, <1>2, <1>4, <1>5, <1>6, <1>7
<1> QED
    BY <1>2, <1>4, <1>6, <1>8 DEF Remainder, q, k

\* Slots are ranked by a strict total order.
LEMMA RankOrder ==
    ASSUME NEW s \in Scores, NEW i \in Slots, NEW j \in Slots
    PROVE  /\ Rank(s, i) \in 0..(N - 1)
           /\ Precedes(s, i, j) => Rank(s, i) < Rank(s, j)
           /\ i # j => Precedes(s, i, j) \/ Precedes(s, j, i)
<1> DEFINE Before(k) == {m \in Slots : Precedes(s, m, k)}
<1>1. \A m \in Slots : Residue(s, m) \in Nat /\ m \in Nat
    BY Division, PayoutAssumption DEF Slots
<1>2. \A m \in Slots : IsFiniteSet(Before(m)) /\ Cardinality(Before(m)) \in Nat
    BY SlotsFinite, FS_Subset, FS_CardinalityType
<1>3. Rank(s, i) <= N - 1
    <2>1. Before(i) \in SUBSET (Slots \ {i})
        BY <1>1 DEF Precedes
    <2>2. IsFiniteSet(Slots \ {i}) /\ Cardinality(Slots \ {i}) = N - 1
        BY SlotsFinite, FS_RemoveElement
    <2> QED
        BY <2>1, <2>2, FS_Subset DEF Rank
<1>4. ASSUME Precedes(s, i, j) PROVE Rank(s, i) < Rank(s, j)
    <2>1. i \notin Before(i)
        BY <1>1 DEF Precedes
    <2>2. Before(i) \cup {i} \in SUBSET Before(j)
        BY <1>1, <1>4 DEF Precedes
    <2>3. IsFiniteSet(Before(i)) /\ IsFiniteSet(Before(j))
        BY <1>2
    <2> HIDE DEF Before
    <2>4. Cardinality(Before(i) \cup {i}) = Cardinality(Before(i)) + 1
        BY <2>1, <2>3, FS_AddElement
    <2>5. Cardinality(Before(i) \cup {i}) <= Cardinality(Before(j))
        BY <2>2, <2>3, FS_Subset
    <2>6. Cardinality(Before(i)) \in Nat /\ Cardinality(Before(j)) \in Nat
        BY <1>2
    <2>7. Cardinality(Before(i)) < Cardinality(Before(j))
        BY <2>4, <2>5, <2>6
    <2> QED
        BY <2>7 DEF Rank, Before
<1> QED
    BY <1>1, <1>2, <1>3, <1>4, SlotsFinite DEF Rank, Precedes

\* The first k ranks are those of k slots.
LEMMA RanksCounted ==
    ASSUME NEW s \in Scores, NEW k \in 0..N
    PROVE  Cardinality({i \in Slots : Rank(s, i) < k}) = k
<1> DEFINE f == [i \in Slots |-> Rank(s, i)]
           D == {i \in Slots : Rank(s, i) < k}
           g == [i \in D |-> Rank(s, i)]
<1>1. \A i, j \in Slots : Rank(s, i) = Rank(s, j) => i = j
    <2> TAKE i, j \in Slots
    <2>1. Rank(s, i) \in Int /\ Rank(s, j) \in Int
        BY RankOrder, SlotsFinite
    <2> QED
        BY <2>1, RankOrder
<1>2. f \in Injection(Slots, 0..(N - 1))
    BY <1>1, RankOrder, SlotsFinite, Fun_IsInj
<1>3. IsFiniteSet(0..(N - 1)) /\ Cardinality(0..(N - 1)) = N
    BY SlotsFinite, FS_Interval
<1>4. f \in Surjection(Slots, 0..(N - 1))
    <2> HIDE DEF f
    <2> QED
        BY <1>2, <1>3, SlotsFinite, FS_Injection
<1>5. \A m \in 0..(N - 1) : \E i \in Slots : Rank(s, i) = m
    BY <1>4 DEF Surjection
<1>6. g \in Bijection(D, 0..(k - 1))
    <2>1. g \in [D -> 0..(k - 1)]
        BY RankOrder, SlotsFinite
    <2>2. \A i, j \in D : g[i] = g[j] => i = j
        BY <1>1
    <2>3. \A m \in 0..(k - 1) : \E i \in D : g[i] = m
        <3> TAKE m \in 0..(k - 1)
        <3>1. m \in 0..(N - 1) /\ m < k
            BY SlotsFinite
        <3>2. PICK i \in Slots : Rank(s, i) = m
            BY <1>5, <3>1
        <3> QED
            BY <3>1, <3>2
    <2> HIDE DEF g, D
    <2> QED
        BY <2>1, <2>2, <2>3, Zenon DEF Bijection, Injection, Surjection, IsInjective
<1>7. IsFiniteSet(D)
    BY SlotsFinite, FS_Subset
<1>8. Cardinality(0..(k - 1)) = Cardinality(D)
    <2> HIDE DEF g, D
    <2> QED
        BY <1>6, <1>7, FS_Bijection DEF ExistsBijection
<1>9. Cardinality(0..(k - 1)) = k
    BY SlotsFinite, FS_Interval
<1> QED
    BY <1>8, <1>9

\* What a slot is allotted.
LEMMA Allotted ==
    ASSUME NEW s \in Scores
    PROVE  /\ Allocate(s) = [i \in Slots |-> IF i \in Lucky(s) THEN Floor(s, i) + 1 ELSE Floor(s, i)]
           /\ Cardinality(Lucky(s)) = Remainder(s)
           /\ \A i \in Lucky(s) : Residue(s, i) > 0
           /\ \A i, j \in Slots : Precedes(s, i, j) /\ j \in Lucky(s) => i \in Lucky(s)
<1>1. Remainder(s) \in 0..Cardinality(Scored(s)) /\ Remainder(s) \in 0..N
    <2>1. Cardinality(Scored(s)) \in 0..N
        BY SlotsFinite, FS_Subset, FS_CardinalityType DEF Scored
    <2> QED
        BY <2>1, RemainderSmall, SlotsFinite
<1>2. Allocate(s) = [i \in Slots |-> IF i \in Lucky(s) THEN Floor(s, i) + 1 ELSE Floor(s, i)]
    BY DEF Allocate, Lucky, Rank, Remainder, Floors
<1>3. Cardinality(Lucky(s)) = Remainder(s)
    BY <1>1, RanksCounted DEF Lucky
<1>4. ASSUME NEW i \in Lucky(s) PROVE Residue(s, i) > 0
    <2> SUFFICES ASSUME ~(Residue(s, i) > 0) PROVE FALSE
        OBVIOUS
    <2>1. i \in Slots /\ Rank(s, i) < Remainder(s)
        BY DEF Lucky
    <2>2. Residue(s, i) = 0
        BY <2>1, Division
    <2>3. Scored(s) \in SUBSET {j \in Slots : Precedes(s, j, i)}
        BY <2>1, <2>2, Division DEF Scored, Precedes
    <2>4. IsFiniteSet({j \in Slots : Precedes(s, j, i)})
        BY SlotsFinite, FS_Subset
    <2>5. Cardinality(Scored(s)) <= Rank(s, i) /\ Cardinality(Scored(s)) \in Nat
        BY <2>3, <2>4, FS_Subset, FS_CardinalityType DEF Rank
    <2>6. Rank(s, i) \in Nat
        BY <2>1, RankOrder, SlotsFinite
    <2> QED
        BY <1>1, <2>1, <2>5, <2>6
<1>5. ASSUME NEW i \in Slots, NEW j \in Slots, Precedes(s, i, j), j \in Lucky(s)
      PROVE  i \in Lucky(s)
    <2>1. Rank(s, i) < Rank(s, j) /\ Rank(s, i) \in Int /\ Rank(s, j) \in Int
        BY <1>5, RankOrder, SlotsFinite
    <2>2. Rank(s, j) < Remainder(s) /\ Remainder(s) \in Int
        BY <1>1, <1>5 DEF Lucky
    <2> QED
        BY <2>1, <2>2 DEF Lucky
<1> QED
    BY <1>2, <1>3, <1>4, <1>5

\* Largest remainders hand out every basis point.
LEMMA AllocateWhole ==
    ASSUME NEW s \in Scores
    PROVE  Allocate(s) \in [Slots -> Nat] /\ SumFunction(Allocate(s)) = Whole
<1> DEFINE b == Allocate(s)
           q == Floors(s)
<1>1. b \in [Slots -> Nat] /\ q \in [Slots -> Nat]
      /\ \A i \in Slots : b[i] = IF i \in Lucky(s) THEN q[i] + 1 ELSE q[i]
    BY Allotted, Division DEF Floors
<1>2. Lucky(s) \in SUBSET Slots /\ Slots \cap Lucky(s) = Lucky(s)
    BY DEF Lucky
<1>3. Cardinality(Lucky(s)) = Whole - SumFunction(q)
    BY Allotted DEF Remainder
<1> HIDE DEF b, q
<1>4. \A T \in SUBSET Slots : Sums(b, Slots)[T] = Sums(q, Slots)[T] + Cardinality(T \cap Lucky(s))
    <2>1. Increased(Slots, Lucky(s), b, q)
        BY <1>1, <1>2 DEF Increased
    <2> QED
        BY <2>1, SlotsFinite, SumsCount
<1>5. Sums(b, Slots)[Slots] = Sums(q, Slots)[Slots] + Cardinality(Lucky(s))
    BY <1>2, <1>4
<1>6. SumFunction(b) = SumFunction(q) + (Whole - SumFunction(q)) /\ SumFunction(q) \in Nat
    BY <1>1, <1>3, <1>5, SumOfSlots
<1> QED
    BY <1>1, <1>6 DEF Whole, b

\* They are fair.
LEMMA AllocateFair ==
    ASSUME NEW s \in Scores
    PROVE  FairTo(s, Allocate(s))
<1> DEFINE b == Allocate(s)
           t == SumFunction(s)
<1>1. \A i \in Slots : b[i] = IF i \in Lucky(s) THEN Floor(s, i) + 1 ELSE Floor(s, i)
    BY Allotted
<1>2. ASSUME NEW i \in Slots, NEW j \in Slots
      PROVE  /\ b[i] * t < s[i] * Whole + t
             /\ s[i] * Whole < b[i] * t + t
             /\ s[i] > s[j] => b[i] >= b[j]
             /\ s[i] = 0 => b[i] = 0
    <2> DEFINE q == Floor(s, i)
               r == Residue(s, i)
               p == Floor(s, j)
               u == Residue(s, j)
    <2>1. /\ s[i] \in Nat /\ t \in Nat /\ t > 0 /\ q \in Nat /\ r \in Nat /\ r < t
          /\ s[i] * Whole = t * q + r
        BY Division
    <2>2. /\ s[j] \in Nat /\ p \in Nat /\ u \in Nat /\ u < t
          /\ s[j] * Whole = t * p + u
        BY Division
    <2>3. b[i] = q \/ (b[i] = q + 1 /\ r > 0)
        BY <1>1, Allotted
    <2>4. p <= b[j] /\ b[j] <= p + 1 /\ b[j] \in Nat
        BY <1>1, <2>2
    <2>5. t * q \in Nat /\ (q + 1) * t = t * q + t /\ q * t = t * q
        BY <2>1
    <2>6. s[i] * Whole \in Nat /\ s[j] * Whole \in Nat /\ t * p \in Nat
        BY <2>1, <2>2 DEF Whole
    <2>7. s[i] > s[j] => s[i] * Whole > s[j] * Whole
        BY <2>1, <2>2 DEF Whole
    <2>8. q = p /\ r > u /\ b[j] = p + 1 => b[i] = q + 1
        BY <1>1, <2>2, Allotted DEF Precedes
    <2> HIDE DEF b, t, q, r, p, u
    <2>9. b[i] * t < s[i] * Whole + t /\ s[i] * Whole < b[i] * t + t
        BY <2>1, <2>3, <2>5, <2>6
    <2>10. ASSUME s[i] > s[j] PROVE b[i] >= b[j]
        <3>1. t * q + r > t * p + u
            BY <2>1, <2>2, <2>7, <2>10
        <3>2. q >= p
            <4> SUFFICES ASSUME q + 1 <= p PROVE FALSE
                BY <2>1, <2>2
            <4>1. t * (q + 1) <= t * p /\ t * (q + 1) = t * q + t
                BY <2>1, <2>2
            <4> QED
                BY <2>1, <2>2, <2>5, <2>6, <3>1, <4>1
        <3>3. CASE q >= p + 1
            BY <2>1, <2>2, <2>3, <2>4, <3>3
        <3>4. CASE q = p
            <4>1. r > u
                BY <2>1, <2>2, <2>5, <3>1, <3>4
            <4> QED
                BY <2>1, <2>2, <2>3, <2>4, <2>8, <3>4, <4>1
        <3> QED
            BY <2>1, <2>2, <3>2, <3>3, <3>4
    <2>11. s[i] = 0 => b[i] = 0
        <3> SUFFICES ASSUME s[i] = 0 PROVE b[i] = 0
            OBVIOUS
        <3>1. t * q + r = 0
            BY <2>1 DEF Whole
        <3>2. r = 0 /\ t * q = 0
            BY <2>1, <2>5, <3>1
        <3>3. q = 0
            BY <2>1, <3>2
        <3> QED
            BY <2>3, <3>2, <3>3
    <2> QED
        BY <2>9, <2>10, <2>11
<1>3. s \in [Slots -> Nat] /\ DOMAIN s = Slots
    BY DEF Scores
<1> QED
    BY <1>2, <1>3, AllocateWhole DEF FairTo

\* No slot is allotted more than all.
LEMMA AllocateType ==
    ASSUME NEW s \in Scores
    PROVE  Allocate(s) \in Shares
<1> DEFINE b == Allocate(s)
<1>1. b \in [Slots -> Nat] /\ SumFunction(b) = Whole /\ Whole \in Nat
    BY AllocateWhole DEF Whole
<1> HIDE DEF b
<1>2. \A i \in Slots : b[i] <= Sums(b, Slots)[Slots]
    BY <1>1, SlotsFinite, SumsMember
<1>3. \A i \in Slots : b[i] \in 0..Whole
    BY <1>1, <1>2, SumOfSlots
<1> QED
    BY <1>1, <1>3 DEF Shares, b

\* The algorithm of bps-plan.ts is right: whatever the slots and their scores, the
\* points add up to 10000, each slot gets its exact share to within one point,
\* more score is no fewer points and no score is none.
THEOREM LargestRemaindersFair == AllocatesFairly
<1> SUFFICES ASSUME NEW s \in [Slots -> 0..MaxScore], SumFunction(s) > 0
             PROVE  FairTo(s, Allocate(s))
    BY DEF AllocatesFairly
<1>1. s \in Scores
    BY PayoutAssumption DEF Scores
<1> QED
    BY <1>1, AllocateFair

-----------------------------------------------------------------------------
(* Snapshots and plans. *)

\* A snapshot under way has a board, and a day when it is about to be inserted.
Frozen ==
    \A r \in Takings : /\ at[r] # "idle" => board[r] \in Boards
                       /\ at[r] = "insert" => stamp[r] \in Days

\* The last plan was made from a row.
BasisKept == basis # 0 => \E i \in DOMAIN snapshots : snapshots[i].period = basis

\* The mirror holds the plan as far as it is written; a plan made from scores is
\* what they are allotted, and one without them is the mirror itself.
Mirrored ==
    plan # <<>> =>
        /\ written < N
        /\ \A i \in 1..written : bps[i] = plan.bps[i]
        /\ plan.merit => plan.scores \in Scores /\ plan.bps = Allocate(plan.scores)
        /\ ~plan.merit => plan.bps = bps

PayoutIInv ==
    /\ PayoutTypeOK
    /\ Frozen
    /\ BasisKept
    /\ Mirrored
    /\ AlwaysWhole

SnapshotRow == [period : Days, board : Boards]

\* The invariant holds at the start.
LEMMA PayoutInitIInv == PayoutInit => PayoutIInv
<1> SUFFICES ASSUME PayoutInit PROVE PayoutIInv
    OBVIOUS
<1>1. PayoutTypeOK
    <2>1. snapshots \in Seq([period : Days, board : Boards]) /\ DOMAIN snapshots = {}
        BY DEF PayoutInit
    <2>2. today \in Days /\ written \in 0..N /\ faults \in 0..MaxFaults
        BY PayoutAssumption DEF PayoutInit, Days
    <2>3. bps \in Shares
        BY PayoutAssumption DEF PayoutInit, Shares
    <2> QED
        BY <2>1, <2>2, <2>3 DEF PayoutInit, PayoutTypeOK
<1>2. Frozen /\ BasisKept /\ Mirrored
    BY DEF PayoutInit, Frozen, BasisKept, Mirrored
<1>3. AlwaysWhole
    BY PayoutAssumption DEF PayoutInit, AlwaysWhole
<1> QED
    BY <1>1, <1>2, <1>3 DEF PayoutIInv

\* The latest snapshot is a row, and no row has a later day.
LEMMA LatestIsLast ==
    ASSUME PayoutTypeOK, snapshots # <<>>
    PROVE  /\ Latest \in DOMAIN snapshots
           /\ \A j \in DOMAIN snapshots : snapshots[j].period <= snapshots[Latest].period
<1> DEFINE D == DOMAIN snapshots
           R == {MaxDay - snapshots[i].period : i \in D}
<1>1. /\ D # {}
      /\ \A i \in D : snapshots[i].period \in 1..MaxDay
      /\ MaxDay \in Nat
    <2>1. snapshots \in Seq(SnapshotRow) /\ D = 1..Len(snapshots)
        BY DEF PayoutTypeOK, SnapshotRow
    <2>2. Len(snapshots) # 0 /\ Len(snapshots) \in Nat
        BY <2>1, EmptySeq
    <2>3. \A i \in D : snapshots[i] \in SnapshotRow
        BY <2>1, ElementOfSeq
    <2> HIDE DEF D, R
    <2>4. 1 \in D
        <3>1. 1 \in 1..Len(snapshots)
            BY <2>2
        <3> QED
            BY <2>1, <3>1
    <2>5. D # {}
        BY <2>4
    <2> QED
        BY <2>3, <2>5, PayoutAssumption DEF SnapshotRow, Days
<1>2. R \in SUBSET Nat /\ R # {}
    BY <1>1
<1>3. PICK n \in R : \A m \in R : ~(<<m, n>> \in OpToRel(<, Nat))
    BY <1>2, NatLessThanWellFounded, WFMin
<1>4. PICK i \in D : n = MaxDay - snapshots[i].period
    BY <1>3
<1>5. \A j \in D : snapshots[j].period <= snapshots[i].period
    <2> TAKE j \in D
    <2>1. MaxDay - snapshots[j].period \in R
        OBVIOUS
    <2>2. /\ ~(<<MaxDay - snapshots[j].period, n>> \in OpToRel(<, Nat))
          /\ MaxDay - snapshots[j].period \in Nat /\ n \in Nat
        BY <1>2, <1>3, <2>1
    <2>3. ~(MaxDay - snapshots[j].period < n)
        BY <2>2, LessRelated
    <2> HIDE DEF R, D
    <2> QED
        BY <1>1, <1>4, <2>3 DEF D
<1> HIDE DEF R
<1>6. Latest = CHOOSE k \in D : \A j \in D : snapshots[j].period <= snapshots[k].period
    BY DEF Latest
<1> QED
    BY <1>5, <1>6

\* An insert adds one row, of a day that had none.
LEMMA PutRow ==
    ASSUME PayoutTypeOK, Frozen, NEW r \in Takings, at[r] = "insert", Put(r)
    PROVE  /\ snapshots' \in Seq(SnapshotRow)
           /\ \A i, j \in DOMAIN snapshots' : snapshots'[i].period = snapshots'[j].period => i = j
           /\ \A i \in DOMAIN snapshots : i \in DOMAIN snapshots' /\ snapshots'[i] = snapshots[i]
<1>1. snapshots \in Seq(SnapshotRow)
    BY DEF PayoutTypeOK, SnapshotRow
<1>2. CASE snapshots' = snapshots
    BY <1>1, <1>2 DEF PayoutTypeOK
<1>3. CASE /\ \A i \in DOMAIN snapshots : snapshots[i].period # stamp[r]
           /\ snapshots' = Append(snapshots, [period |-> stamp[r], board |-> board[r]])
    <2> DEFINE e == [period |-> stamp[r], board |-> board[r]]
    <2>1. e \in SnapshotRow /\ e.period = stamp[r]
        BY DEF Frozen, SnapshotRow
    <2> HIDE DEF e
    <2>2. /\ snapshots' \in Seq(SnapshotRow) /\ Len(snapshots') = Len(snapshots) + 1
          /\ \A i \in 1..Len(snapshots) : snapshots'[i] = snapshots[i]
          /\ snapshots'[Len(snapshots) + 1] = e
        BY <1>1, <1>3, <2>1 DEF e
    <2>3. DOMAIN snapshots = 1..Len(snapshots) /\ DOMAIN snapshots' = 1..(Len(snapshots) + 1) /\ Len(snapshots) \in Nat
        BY <1>1, <2>2
    <2>4. \A i \in DOMAIN snapshots' : i \in DOMAIN snapshots \/ i = Len(snapshots) + 1
        BY <2>3
    <2>5. \A i, j \in DOMAIN snapshots : snapshots[i].period = snapshots[j].period => i = j
        BY DEF PayoutTypeOK
    <2> QED
        BY <1>3, <2>1, <2>2, <2>3, <2>4, <2>5
<1> QED
    BY <1>2, <1>3 DEF Put

\* Taking a snapshot leaves plans and mirror alone.
LEMMA TakingStep ==
    ASSUME PayoutIInv, NEW r \in Takings,
           Load(r) \/ Stamp(r) \/ Insert(r) \/ Repeat(r) \/ Quit(r)
    PROVE  PayoutIInv'
<1> USE DEF PayoutIInv
<1>1. UNCHANGED rebalance
    BY DEF Load, Stamp, Insert, Repeat, Quit
<1>2. Mirrored' /\ AlwaysWhole'
    BY <1>1 DEF rebalance, Mirrored, AlwaysWhole
<1>3. /\ snapshots' \in Seq(SnapshotRow)
      /\ \A i, j \in DOMAIN snapshots' : snapshots'[i].period = snapshots'[j].period => i = j
      /\ \A i \in DOMAIN snapshots : i \in DOMAIN snapshots' /\ snapshots'[i] = snapshots[i]
    <2>1. CASE snapshots' = snapshots
        BY <2>1 DEF PayoutTypeOK, SnapshotRow
    <2>2. CASE at[r] = "insert" /\ Put(r)
        BY <2>2, PutRow
    <2> QED
        BY <2>1, <2>2 DEF Load, Stamp, Insert, Repeat, Quit
<1>4. BasisKept'
    BY <1>1, <1>3 DEF BasisKept, rebalance
<1>5. /\ at' \in [Takings -> {"idle", "freeze", "insert"}]
      /\ board' \in [Takings -> Boards \cup {NoBoard}]
      /\ stamp' \in [Takings -> Days \cup {0}]
      /\ today' = today
    BY DEF PayoutTypeOK, Load, Stamp, Insert, Repeat, Quit, Rest
<1>6. Frozen'
    BY DEF PayoutTypeOK, Frozen, Load, Stamp, Insert, Repeat, Quit, Rest
<1>7. PayoutTypeOK'
    BY <1>1, <1>3, <1>5 DEF PayoutTypeOK, SnapshotRow, rebalance
<1> QED
    BY <1>2, <1>4, <1>6, <1>7

\* The score a slot finds on a board is a score.
LEMMA MatchType ==
    ASSUME NEW b \in Boards \cup {NoBoard}, NEW i \in Slots
    PROVE  Match(b, i) \in 0..MaxScore
<1>1. b \in [People -> 0..MaxScore] /\ MaxScore \in Nat
    BY PayoutAssumption DEF NoBoard
<1>2. IdOf[i] \in People \cup {Nobody} /\ LoginOf[i] \in People \cup {Nobody}
    BY PayoutAssumption
<1> QED
    BY <1>1, <1>2 DEF Match

\* A plan is made from a row that is as new as any, and is fair to it.
LEMMA MakePlanStep ==
    ASSUME PayoutIInv, MakePlan
    PROVE  PayoutIInv' /\ basis' >= basis
<1> USE DEF PayoutIInv
<1> DEFINE b == IF Latest = 0 THEN NoBoard ELSE snapshots[Latest].board
           s == [i \in Slots |-> Match(b, i)]
           merit == SumFunction(s) > 0
<1>1. /\ plan = <<>>
      /\ plan' = [bps |-> IF merit THEN Allocate(s) ELSE bps, scores |-> s, merit |-> merit]
      /\ basis' = IF Latest = 0 THEN 0 ELSE snapshots[Latest].period
      /\ UNCHANGED <<today, taking, snapshots, bps, written, torn, faults>>
    BY DEF MakePlan
<1> HIDE DEF b, s, merit
<1> HIDE DEF b, s, merit
<1>2. /\ b \in Boards \cup {NoBoard}
      /\ basis' \in Days \cup {0} /\ basis' >= basis
      /\ basis' # 0 => \E i \in DOMAIN snapshots : snapshots[i].period = basis'
    <2>1. CASE snapshots = <<>>
        <3>1. Latest = 0
            BY <2>1 DEF Latest
        <3>2. basis = 0
            BY <2>1 DEF BasisKept
        <3> QED
            BY <1>1, <3>1, <3>2 DEF b
    <2>2. CASE snapshots # <<>>
        <3>1. Latest \in DOMAIN snapshots
              /\ \A j \in DOMAIN snapshots : snapshots[j].period <= snapshots[Latest].period
            BY <2>2, LatestIsLast
        <3>2. snapshots \in Seq(SnapshotRow) /\ Latest \in 1..Len(snapshots)
            BY <3>1 DEF PayoutTypeOK, SnapshotRow
        <3>3. snapshots[Latest] \in SnapshotRow /\ Latest # 0
            BY <3>2, ElementOfSeq
        <3>4. b \in Boards /\ basis' = snapshots[Latest].period /\ basis' \in Days
            BY <1>1, <3>3 DEF b, SnapshotRow
        <3>5. basis' >= basis
            BY <3>1, <3>4, PayoutAssumption DEF BasisKept, Days
        <3> QED
            BY <3>1, <3>4, <3>5
    <2> QED
        BY <2>1, <2>2
<1>4. s \in [Slots -> 0..MaxScore] /\ merit \in BOOLEAN
    BY <1>2, MatchType DEF s, merit
<1>5. merit => s \in Scores
    BY <1>4, PayoutAssumption DEF Scores, merit
<1>6. plan' \in Plans
    BY <1>1, <1>4, <1>5, AllocateType DEF Plans, PayoutTypeOK
<1>7. /\ plan'.bps = IF merit THEN Allocate(s) ELSE bps
      /\ plan'.scores = s /\ plan'.merit = merit
    BY <1>1
<1>8. written = 0 /\ UNCHANGED <<today, at, board, stamp, snapshots, bps, written, torn, faults>>
    BY <1>1 DEF PayoutTypeOK, taking
<1>9. PayoutTypeOK'
    BY <1>2, <1>6, <1>8 DEF PayoutTypeOK
<1>10. Frozen' /\ BasisKept'
    BY <1>2, <1>8 DEF Frozen, BasisKept
<1>11. Mirrored'
    BY <1>4, <1>5, <1>7, <1>8, SlotsFinite DEF Mirrored
<1>12. AlwaysWhole'
    BY <1>1, <1>4, <1>5, <1>7, <1>8, AllocateWhole DEF AlwaysWhole
<1> QED
    BY <1>2, <1>9, <1>10, <1>11, <1>12

\* One more slot is mirrored; after the last one the mirror is the plan.
LEMMA WriteSlotStep ==
    ASSUME PayoutIInv, WriteSlot
    PROVE  PayoutIInv'
<1> USE DEF PayoutIInv
<1> DEFINE i == written + 1
<1>1. /\ plan # <<>> /\ plan \in Plans /\ i \in Slots
      /\ plan.bps \in Shares /\ plan.merit \in BOOLEAN /\ bps \in Shares
      /\ bps' = [bps EXCEPT ![i] = plan.bps[i]]
      /\ UNCHANGED <<today, at, board, stamp, snapshots, basis, faults>>
    BY SlotsFinite DEF WriteSlot, PayoutTypeOK, Plans, Mirrored, Slots, taking
<1>2. bps' \in Shares /\ \A j \in 1..i : bps'[j] = plan.bps[j]
    <2>1. /\ written \in 0..N /\ N \in Nat /\ i \in 1..N
          /\ \A j \in 1..written : bps[j] = plan.bps[j]
        BY <1>1, SlotsFinite DEF Mirrored, PayoutTypeOK, Slots
    <2>2. plan.bps[i] \in 0..Whole
        BY <1>1 DEF Shares
    <2>3. bps' \in Shares
        BY <1>1, <2>2 DEF Shares
    <2>4. DOMAIN bps = 1..N
        BY <1>1 DEF Shares, Slots
    <2> HIDE DEF PayoutIInv
    <2>5. \A j \in 1..i : j = i \/ (j \in 1..written /\ j # i)
        BY <2>1
    <2>6. \A j \in 1..N : bps'[j] = IF j = i THEN plan.bps[i] ELSE bps[j]
        BY <1>1, <2>4
    <2>7. \A j \in 1..i : j \in 1..N
        BY <2>1
    <2> HIDE DEF i
    <2>8. \A j \in 1..i : bps'[j] = plan.bps[j]
        BY <2>1, <2>5, <2>6, <2>7
    <2> QED
        BY <2>3, <2>8
<1>3. ~plan.merit => bps' = plan.bps
    BY <1>1 DEF Mirrored, Shares
<1>4. Frozen' /\ BasisKept'
    BY <1>1 DEF Frozen, BasisKept
<1>5. CASE i = N
    <2>1. plan' = <<>> /\ written' = 0 /\ torn' = (torn /\ ~plan.merit)
        BY <1>5 DEF WriteSlot
    <2>2. bps' = plan.bps
        BY <1>1, <1>2, <1>5 DEF Shares, Slots
    <2>3. PayoutTypeOK'
        BY <1>1, <1>2, <2>1, SlotsFinite DEF PayoutTypeOK
    <2>4. Mirrored' /\ AlwaysWhole'
        BY <1>1, <2>1, <2>2 DEF Mirrored, AlwaysWhole
    <2> QED
        BY <1>4, <2>3, <2>4
<1>6. CASE i # N
    <2>1. written' = i /\ UNCHANGED <<plan, torn>>
        BY <1>6 DEF WriteSlot
    <2>2. PayoutTypeOK'
        BY <1>1, <1>2, <1>6, <2>1, SlotsFinite DEF PayoutTypeOK, Slots
    <2>3. Mirrored'
        BY <1>1, <1>2, <1>3, <1>6, <2>1, SlotsFinite DEF Mirrored, Slots
    <2>4. AlwaysWhole'
        BY <1>1, <2>1 DEF AlwaysWhole, PayoutTypeOK
    <2> QED
        BY <1>4, <2>2, <2>3, <2>4
<1> QED
    BY <1>5, <1>6

\* The clock, a failed transaction and a death keep what is mirrored.
LEMMA OtherStep ==
    ASSUME PayoutIInv, Midnight \/ Drop \/ Die
    PROVE  PayoutIInv'
<1> USE DEF PayoutIInv
<1>1. UNCHANGED <<at, board, stamp, snapshots, bps, basis>>
    BY DEF Midnight, Drop, Die, taking, rebalance
<1>2. Frozen' /\ BasisKept'
    BY <1>1 DEF Frozen, BasisKept
<1>3. PayoutTypeOK'
    <2>1. CASE Midnight
        <3>1. today' \in Days
            BY <2>1, PayoutAssumption DEF PayoutTypeOK, Midnight, Days
        <3>2. UNCHANGED <<plan, written, torn, faults>>
            BY <2>1 DEF Midnight, rebalance
        <3> QED
            BY <1>1, <3>1, <3>2 DEF PayoutTypeOK
    <2>2. CASE Drop
        BY <1>1, <2>2 DEF PayoutTypeOK, Drop
    <2>3. CASE Die
        <3>1. faults' \in 0..MaxFaults
            BY <2>3, PayoutAssumption DEF PayoutTypeOK, Die
        <3>2. /\ UNCHANGED today
              /\ plan' = <<>> /\ torn' = TRUE /\ written' = 0 /\ written' \in 0..N
            BY <2>3, SlotsFinite DEF Die
        <3> QED
            BY <1>1, <3>1, <3>2 DEF PayoutTypeOK
    <2> QED
        BY <2>1, <2>2, <2>3
<1>4. Mirrored' /\ AlwaysWhole'
    BY <1>1 DEF Mirrored, AlwaysWhole, Midnight, Drop, Die, taking, rebalance
<1> QED
    BY <1>2, <1>3, <1>4

\* The inductive invariant of snapshots and plans.
LEMMA PayoutInvariant == PayoutSpec => []PayoutIInv
<1>1. PayoutIInv /\ [PayoutNext]_payoutVars => PayoutIInv'
    <2> SUFFICES ASSUME PayoutIInv, [PayoutNext]_payoutVars PROVE PayoutIInv'
        OBVIOUS
    <2>1. CASE UNCHANGED payoutVars
        BY <2>1 DEF payoutVars, taking, rebalance, PayoutIInv, PayoutTypeOK, Frozen, BasisKept,
               Mirrored, AlwaysWhole
    <2> QED
        BY <2>1, TakingStep, MakePlanStep, WriteSlotStep, OtherStep DEF PayoutNext
<1> QED
    BY PayoutInitIInv, <1>1, PTL DEF PayoutSpec

\* Types, and one row for each day.
THEOREM PayoutTypeCorrect == PayoutSpec => []PayoutTypeOK
<1>1. PayoutIInv => PayoutTypeOK
    BY DEF PayoutIInv
<1> QED
    BY PayoutInvariant, <1>1, PTL

\* Basis points are neither lost nor made up, by plans or by mirrors.
THEOREM PointsAddUp == PayoutSpec => []AlwaysWhole
<1>1. PayoutIInv => AlwaysWhole
    BY DEF PayoutIInv
<1> QED
    BY PayoutInvariant, <1>1, PTL

\* The plan a rebalance works on is fair to the scores it was made from.
THEOREM PlansAreFair == PayoutSpec => []SharesAreFair
<1>1. PayoutIInv => SharesAreFair
    BY LargestRemaindersFair, AllocateFair DEF PayoutIInv, Mirrored, SharesAreFair
<1> QED
    BY PayoutInvariant, <1>1, PTL

\* A plan is never made from an older snapshot than the plan before it.
THEOREM PlansMoveOn == PayoutSpec => NeverBackwards
<1>1. PayoutIInv /\ [PayoutNext]_payoutVars => [basis' >= basis]_payoutVars
    <2> SUFFICES ASSUME PayoutIInv, PayoutNext PROVE basis' >= basis
        OBVIOUS
    <2>1. basis \in Nat
        BY PayoutAssumption DEF PayoutIInv, PayoutTypeOK, Days
    <2>2. MakePlan => basis' >= basis
        BY MakePlanStep
    <2>3. ~MakePlan => basis' = basis
        BY DEF PayoutNext, Load, Stamp, Insert, Repeat, Quit, Midnight, Drop, WriteSlot, Die, rebalance
    <2> QED
        BY <2>1, <2>2, <2>3
<1> QED
    BY PayoutInvariant, <1>1, PTL DEF PayoutSpec, NeverBackwards

==============================================================================
