-------------------------- MODULE AuditChainProofs --------------------------
(***************************************************************************)
(* Proofs about AuditChain, for every set of transactions, every number of  *)
(* rows, every page size and every cut of the cursor: without tampering and *)
(* with rows committed in reading order, the log is one chain; reports have *)
(* a cause, and a silent verification vouches for what it read.             *)
(***************************************************************************)
EXTENDS AuditChain, FiniteSetTheorems, FunctionTheorems, SequenceTheorems, WellFoundedInduction,
        TLAPS

\* The lock is held exactly by the transaction that is about to insert.
LockHeld == \A w \in Writers : at[w] = "insert" <=> lock = w

\* Times were drawn; those of rows and of open transactions differ.
TimesDrawn ==
    /\ \A t \in Rows : t <= clock
    /\ \A w \in Writers : at[w] # "idle" => time[w] \in 1..clock /\ time[w] \notin Rows
    /\ \A w, v \in Writers :
         at[w] # "idle" /\ at[v] # "idle" /\ time[w] = time[v] => w = v

\* While the log is a chain, what was read under the lock is its tip.
HeadIsTip ==
    ~tampered /\ ~forked => \A w \in Writers : at[w] = "insert" => head[w] = Tip(Rows)

IInv == TypeOK /\ LockHeld /\ TimesDrawn /\ HeadIsTip /\ ChainIsTotal

-----------------------------------------------------------------------------
(* The newest row of a set. *)

LEMMA LessIsRelated ==
    ASSUME NEW m \in Nat, NEW n \in Nat, m < n
    PROVE  <<m, n>> \in OpToRel(<, Nat)
<1> DEFINE pair == <<m, n>>
<1>1. pair \in Nat \X Nat /\ pair[1] < pair[2]
    OBVIOUS
<1> HIDE DEF pair
<1>2. pair \in {ss \in Nat \X Nat : ss[1] < ss[2]}
    BY <1>1
<1>3. QED
    BY <1>2 DEF OpToRel, pair

\* A non-empty set of times has a newest one.
LEMMA NewestIn ==
    ASSUME NEW S \in SUBSET Times, S # {}
    PROVE  Newest(S) \in S /\ \A u \in S : u <= Newest(S)
<1> DEFINE R == {MaxTime - t : t \in S}
<1>1. R \in SUBSET Nat /\ R # {}
    <2>1. \A t \in S : MaxTime - t \in Nat
        BY BoundAssumption DEF Times
    <2>2. R # {}
        OBVIOUS
    <2> QED
        BY <2>1, <2>2
<1>2. PICK n \in R : \A m \in R : ~(<<m, n>> \in OpToRel(<, Nat))
    BY <1>1, NatLessThanWellFounded, WFMin
<1>3. PICK t \in S : n = MaxTime - t
    BY <1>2
<1>4. \A u \in S : u <= t
    <2> TAKE u \in S
    <2>1. MaxTime - u \in R
        OBVIOUS
    <2>2. ~(<<MaxTime - u, n>> \in OpToRel(<, Nat)) /\ MaxTime - u \in Nat /\ n \in Nat
        BY <1>1, <1>2, <2>1
    <2>3. ~(MaxTime - u < n)
        BY <2>2, LessIsRelated
    <2>4. u \in Nat /\ t \in Nat /\ MaxTime \in Nat
        BY BoundAssumption DEF Times
    <2> HIDE DEF R
    <2> QED
        BY <1>3, <2>3, <2>4
<1>5. QED
    BY <1>4 DEF Newest

\* The tip of a set depends on its rows only.
LEMMA TipStays ==
    ASSUME NEW S \in SUBSET Times, \A t \in S : log'[t] = log[t]
    PROVE  Tip(S)' = Tip(S)
<1>1. CASE S = {}
    BY <1>1 DEF Tip
<1>2. CASE S # {}
    <2>1. Newest(S) \in S
        BY <1>2, NewestIn
    <2> QED
        BY <2>1 DEF Tip
<1>3. QED
    BY <1>1, <1>2

LEMMA TipType ==
    ASSUME DOMAIN log \subseteq Times, log \in [DOMAIN log -> Row]
    PROVE  Tip(Rows) \in Hash
<1>1. CASE Rows = {}
    BY <1>1 DEF Tip, Hash
<1>2. CASE Rows # {}
    <2>1. Newest(Rows) \in Rows
        BY <1>2, NewestIn DEF Rows
    <2>2. log[Newest(Rows)] \in Row
        BY <2>1 DEF Rows
    <2> QED
        BY <1>2, <2>2 DEF Tip, Row
<1>3. QED
    BY <1>1, <1>2

LEMMA CanonicalType ==
    ASSUME NEW prev \in Hash, NEW t \in Times, NEW c \in Contents
    PROVE  Canonical(prev, t, c) \in Hash
BY DEF Canonical, Hash

-----------------------------------------------------------------------------
(* Types. *)

LEMMA InitIInv == Init => IInv
<1> SUFFICES ASSUME Init PROVE IInv
    OBVIOUS
<1>1. Rows = {}
    BY DEF Init, Rows
<1>2. TypeOK
    <2>1. <<>> \in Hash /\ 0 \in 0..MaxTime
        BY BoundAssumption DEF Hash
    <2>2. DOMAIN log \subseteq Times /\ log \in [DOMAIN log -> Row]
        BY <1>1 DEF Init, Rows
    <2> QED
        BY <2>1, <2>2 DEF Init, TypeOK, Places
<1>3. LockHeld /\ TimesDrawn /\ HeadIsTip /\ ChainIsTotal
    BY <1>1, NoWriterAssumption DEF Init, LockHeld, TimesDrawn, HeadIsTip, ChainIsTotal
<1>4. QED
    BY <1>2, <1>3 DEF IInv

LEMMA CommitType == ASSUME IInv, NEW w \in Writers, Commit(w) PROVE TypeOK'
<1> DEFINE t0 == time[w]
<1>1. t0 \in Times
    BY BoundAssumption DEF IInv, TypeOK, TimesDrawn, Commit, Times
<1>2. NewRow(w) \in Row
    <2>1. head[w] \in Hash /\ "written" \in Contents
        BY DEF IInv, TypeOK, Contents
    <2>2. Canonical(head[w], t0, "written") \in Hash
        BY <1>1, <2>1, CanonicalType
    <2> QED
        BY <2>1, <2>2 DEF NewRow, Row
<1>3. DOMAIN log' \subseteq Times /\ log' \in [DOMAIN log' -> Row]
    BY <1>1, <1>2 DEF IInv, TypeOK, Commit, Rows
<1>4. at' \in [Writers -> Places] /\ lock' \in Writers \cup {NoWriter} /\ forked' \in BOOLEAN
    BY DEF IInv, TypeOK, Commit, Places
<1>5. QED
    BY <1>3, <1>4 DEF IInv, TypeOK, Commit, sweep

LEMMA ReadType == ASSUME IInv, ReadPage PROVE TypeOK'
<1>1. Page \subseteq Times
    BY DEF Page, Rows, IInv, TypeOK
<1>2. cursor' \in 0..MaxTime
    <2>1. CASE Page = {}
        BY <2>1 DEF ReadPage, IInv, TypeOK
    <2>2. CASE Page # {}
        <3>1. Newest(Page) \in Times
            BY <1>1, <2>2, NewestIn
        <3> QED
            BY <2>2, <3>1, BoundAssumption DEF ReadPage, Times
    <2> QED
        BY <2>1, <2>2
<1>3. breaks' \subseteq Times /\ sweeping' \in BOOLEAN
    BY <1>1 DEF ReadPage, IInv, TypeOK
<1>4. QED
    BY <1>2, <1>3 DEF ReadPage, writer, IInv, TypeOK

LEMMA TypeStep == IInv /\ [Next]_vars => TypeOK'
<1> SUFFICES ASSUME IInv, [Next]_vars PROVE TypeOK'
    OBVIOUS
<1>t. TypeOK
    BY DEF IInv
<1>1. ASSUME NEW w \in Writers, Begin(w) PROVE TypeOK'
    BY <1>1, <1>t, BoundAssumption DEF Begin, TypeOK, sweep, Places
<1>2. ASSUME NEW w \in Writers, Lock(w) PROVE TypeOK'
    BY <1>2, <1>t, TipType DEF Lock, TypeOK, sweep, Places
<1>3. ASSUME NEW w \in Writers, Commit(w) PROVE TypeOK'
    BY <1>3, CommitType
<1>4. ASSUME NEW w \in Writers, Abort(w) PROVE TypeOK'
    BY <1>4, <1>t DEF Abort, TypeOK, sweep, Places
<1>5. ASSUME NEW t \in Times, Edit(t) PROVE TypeOK'
    <2>1. log[t] \in Row
        BY <1>5, <1>t DEF Edit, TypeOK, Rows
    <2>2. [log[t] EXCEPT !.content = "forged"] \in Row
        BY <2>1 DEF Row, Contents
    <2>3. DOMAIN log' = DOMAIN log /\ log' \in [DOMAIN log -> Row]
        BY <1>5, <1>t, <2>2 DEF Edit, TypeOK
    <2> QED
        BY <1>5, <1>t, <2>3 DEF Edit, TypeOK, writer, sweep
<1>6. ASSUME NEW t \in Times, Delete(t) PROVE TypeOK'
    <2>1. DOMAIN log' \subseteq Times /\ log' \in [DOMAIN log' -> Row]
        BY <1>6, <1>t DEF Delete, TypeOK, Rows
    <2> QED
        BY <1>6, <1>t, <2>1 DEF Delete, TypeOK, writer, sweep
<1>7. CASE StartSweep
    <2>1. 0 \in 0..MaxTime
        BY BoundAssumption
    <2> QED
        BY <1>7, <1>t, <2>1 DEF StartSweep, TypeOK, writer
<1>8. CASE ReadPage
    BY <1>8, ReadType
<1>9. CASE UNCHANGED vars
    BY <1>9, <1>t DEF vars, writer, sweep, TypeOK
<1>10. QED
    BY <1>1, <1>2, <1>3, <1>4, <1>5, <1>6, <1>7, <1>8, <1>9 DEF Next, WriterStep

-----------------------------------------------------------------------------
(* The chain. *)

LEMMA LockStep == IInv /\ [Next]_vars => (LockHeld /\ TimesDrawn)'
<1> SUFFICES ASSUME IInv, [Next]_vars PROVE (LockHeld /\ TimesDrawn)'
    OBVIOUS
<1> USE BoundAssumption, NoWriterAssumption DEF IInv, TypeOK, LockHeld, TimesDrawn, Rows
<1>1. ASSUME NEW w \in Writers, Begin(w) PROVE (LockHeld /\ TimesDrawn)'
    <2>1. LockHeld'
        BY <1>1 DEF Begin
    <2>2. \A t \in Rows : t <= clock
        OBVIOUS
    <2>3. \A v \in Writers : at'[v] # "idle" =>
            IF v = w THEN time'[v] = clock + 1 ELSE at[v] # "idle" /\ time'[v] = time[v]
        BY <1>1 DEF Begin
    <2>4. Rows' = Rows /\ clock' = clock + 1 /\ clock \in Nat
        BY <1>1 DEF Begin
    <2>5. \A t \in Rows : t \in Nat
        BY DEF Times
    <2>6. \A v \in Writers : at'[v] # "idle" => time'[v] \in 1..clock' /\ time'[v] \notin Rows'
        BY <2>2, <2>3, <2>4, <2>5
    <2>7. \A v, u \in Writers :
            at'[v] # "idle" /\ at'[u] # "idle" /\ time'[v] = time'[u] => v = u
        BY <2>3, <2>4
    <2>8. \A t \in Rows' : t <= clock'
        BY <2>2, <2>4, <2>5
    <2> QED
        BY <2>1, <2>6, <2>7, <2>8
<1>2. ASSUME NEW w \in Writers, Lock(w) PROVE (LockHeld /\ TimesDrawn)'
    BY <1>2 DEF Lock
<1>3. ASSUME NEW w \in Writers, Commit(w) PROVE (LockHeld /\ TimesDrawn)'
    BY <1>3 DEF Commit
<1>4. ASSUME NEW w \in Writers, Abort(w) PROVE (LockHeld /\ TimesDrawn)'
    BY <1>4 DEF Abort
<1>5. ASSUME NEW t \in Times, Edit(t) \/ Delete(t) PROVE (LockHeld /\ TimesDrawn)'
    BY <1>5 DEF Edit, Delete, writer
<1>6. CASE StartSweep \/ ReadPage \/ UNCHANGED vars
    BY <1>6 DEF StartSweep, ReadPage, vars, writer
<1>7. QED
    BY <1>1, <1>2, <1>3, <1>4, <1>5, <1>6 DEF Next, WriterStep

\* A row committed above all others extends the chain.
LEMMA CommitExtends ==
    ASSUME IInv, NEW w \in Writers, Commit(w)
    PROVE  ChainIsTotal'
<1> SUFFICES ASSUME ~tampered', ~forked' PROVE ChainIsTotal'
    BY DEF ChainIsTotal
<1> DEFINE t0 == time[w]
<1>1. ~tampered /\ ~forked /\ \A t \in Rows : ~(t > t0)
    BY DEF Commit
<1>2. t0 \in Times /\ t0 \notin Rows
    BY BoundAssumption DEF IInv, TypeOK, TimesDrawn, Commit, Times
<1>3. Rows \subseteq Times
    BY DEF IInv, TypeOK, Rows
<1>4. \A t \in Rows : t < t0
    BY <1>1, <1>2, <1>3 DEF Times
<1>5. /\ Rows' = Rows \cup {t0}
      /\ \A t \in Rows : log'[t] = log[t]
      /\ log'[t0] = NewRow(w)
    BY <1>2 DEF Commit, Rows
<1>6. ASSUME NEW t \in Rows
      PROVE  log'[t].prev = Tip(Before(t))' /\ log'[t].hash = Canonical(log'[t].prev, t, log'[t].content)
    <2>1. Before(t)' = Before(t)
        BY <1>2, <1>3, <1>4, <1>5, <1>6 DEF Before, Times
    <2>2. Tip(Before(t))' = Tip(Before(t))
        <3> DEFINE S == Before(t)
        <3>1. S \in SUBSET Times /\ \A u \in S : log'[u] = log[u]
            BY <1>3, <1>5 DEF Before
        <3> HIDE DEF S
        <3>2. Tip(S)' = Tip(S)
            BY <3>1, <2>1, TipStays DEF S
        <3> QED
            BY <3>2 DEF S
    <2> QED
        BY <1>1, <1>5, <1>6, <2>2 DEF IInv, ChainIsTotal
<1>7. ASSUME NEW x \in Rows', x = t0 PROVE log'[x].prev = Tip(Before(x))'
    <2>1. Before(x)' = Rows
        BY <1>2, <1>4, <1>5, <1>7 DEF Before, Times
    <2>2. head[w] = Tip(Rows)
        BY <1>1 DEF IInv, HeadIsTip, Commit
    <2>3. CASE Rows = {}
        BY <1>5, <1>7, <2>1, <2>2, <2>3 DEF Tip, NewRow
    <2>4. CASE Rows # {}
        <3>1. Newest(Rows) \in Rows
            BY <1>3, <2>4, NewestIn
        <3>2. Tip(Before(x))' = log'[Newest(Rows)].hash
            BY <2>1, <2>4 DEF Tip, Newest
        <3> QED
            BY <1>5, <1>7, <2>2, <2>4, <3>1, <3>2 DEF Tip, NewRow
    <2> QED
        BY <2>3, <2>4
<1>8. log'[t0].hash = Canonical(log'[t0].prev, t0, log'[t0].content)
    BY <1>5 DEF NewRow
<1>9. QED
    BY <1>5, <1>6, <1>7, <1>8 DEF ChainIsTotal

LEMMA ChainStep == IInv /\ [Next]_vars => (HeadIsTip /\ ChainIsTotal)'
<1> SUFFICES ASSUME IInv, [Next]_vars PROVE (HeadIsTip /\ ChainIsTotal)'
    OBVIOUS
<1>1. ASSUME UNCHANGED <<log, forked, tampered>>,
             \A w \in Writers : at'[w] = "insert" =>
                head'[w] = Tip(Rows) \/ (at[w] = "insert" /\ head'[w] = head[w])
      PROVE  (HeadIsTip /\ ChainIsTotal)'
    <2>1. Rows' = Rows /\ Tip(Rows)' = Tip(Rows) /\ \A t : Tip(Before(t))' = Tip(Before(t))
        BY <1>1 DEF Rows, Before, Tip
    <2> QED
        BY <1>1, <2>1 DEF IInv, HeadIsTip, ChainIsTotal
<1>2. ASSUME NEW w \in Writers, Begin(w) PROVE (HeadIsTip /\ ChainIsTotal)'
    BY <1>1, <1>2 DEF Begin, IInv, TypeOK
<1>3. ASSUME NEW w \in Writers, Lock(w) PROVE (HeadIsTip /\ ChainIsTotal)'
    BY <1>1, <1>3 DEF Lock, IInv, TypeOK
<1>4. ASSUME NEW w \in Writers, Commit(w) PROVE (HeadIsTip /\ ChainIsTotal)'
    <2>1. \A v \in Writers : at'[v] # "insert"
        BY <1>4, NoWriterAssumption DEF Commit, IInv, TypeOK, LockHeld
    <2> QED
        BY <1>4, <2>1, CommitExtends DEF HeadIsTip
<1>5. ASSUME NEW w \in Writers, Abort(w) PROVE (HeadIsTip /\ ChainIsTotal)'
    BY <1>1, <1>5 DEF Abort, IInv, TypeOK
<1>6. ASSUME NEW t \in Times, Edit(t) \/ Delete(t) PROVE (HeadIsTip /\ ChainIsTotal)'
    BY <1>6 DEF Edit, Delete, HeadIsTip, ChainIsTotal
<1>7. CASE StartSweep \/ ReadPage \/ UNCHANGED vars
    BY <1>1, <1>7 DEF StartSweep, ReadPage, vars, writer
<1>8. QED
    BY <1>2, <1>3, <1>4, <1>5, <1>6, <1>7 DEF Next, WriterStep

-----------------------------------------------------------------------------
(* The rows of a set in order. *)

\* The place of t in the order of S, and the rows of S in order as log g has them.
Place(S, t) == Cardinality({u \in S : u <= t})
List(S, g) == [i \in 1..Cardinality(S) |-> <<Nth(S, i), g[Nth(S, i)].content>>]

\* Sets of times are finite.
LEMMA TimesFinite ==
    /\ \A S \in SUBSET Times : IsFiniteSet(S) /\ Cardinality(S) \in Nat
    /\ Times \subseteq Nat \ {0}
<1>1. IsFiniteSet(Times)
    BY BoundAssumption, FS_Interval DEF Times
<1>2. \A S \in SUBSET Times : IsFiniteSet(S) /\ Cardinality(S) \in Nat
    BY <1>1, FS_Subset, FS_CardinalityType
<1> QED
    BY <1>2, BoundAssumption DEF Times

\* Places are in order.
LEMMA PlaceOrder ==
    ASSUME NEW S \in SUBSET Times, NEW t \in S
    PROVE  /\ Place(S, t) \in 1..Cardinality(S)
           /\ \A v \in S : t < v => Place(S, t) < Place(S, v)
<1> DEFINE To(v) == {u \in S : u <= v}
<1>1. \A v \in S : IsFiniteSet(To(v)) /\ Cardinality(To(v)) \in Nat /\ v \in Nat
    BY TimesFinite
<1>2. IsFiniteSet(S) /\ Cardinality(S) \in Nat
    BY TimesFinite
<1>3. Place(S, t) <= Cardinality(S)
    BY <1>2, FS_Subset DEF Place
<1>4. Place(S, t) >= 1
    <2>1. {t} \in SUBSET To(t)
        <3>1. t \in Nat
            BY <1>1
        <3>2. t \in To(t)
            BY <3>1
        <3> HIDE DEF To
        <3> QED
            BY <3>2
    <2>2. Cardinality({t}) = 1
        BY FS_Singleton
    <2>3. IsFiniteSet(To(t)) /\ Cardinality(To(t)) \in Nat
        BY <1>1
    <2> HIDE DEF To
    <2>4. Cardinality({t}) <= Cardinality(To(t))
        BY <2>1, <2>3, FS_Subset
    <2> QED
        BY <2>2, <2>3, <2>4 DEF Place, To
<1>5. ASSUME NEW v \in S, t < v PROVE Place(S, t) < Place(S, v)
    <2>1. v \notin To(t) /\ To(t) \cup {v} \in SUBSET To(v)
        <3>1. t \in Nat /\ v \in Nat /\ \A u \in S : u \in Nat
            BY <1>1
        <3>2. v \notin To(t) /\ v \in To(v) /\ \A u \in To(t) : u \in To(v)
            BY <1>5, <3>1
        <3> HIDE DEF To
        <3> QED
            BY <3>2
    <2>2. IsFiniteSet(To(t)) /\ IsFiniteSet(To(v)) /\ Cardinality(To(t)) \in Nat /\ Cardinality(To(v)) \in Nat
        BY <1>1
    <2> HIDE DEF To
    <2>3. Cardinality(To(t) \cup {v}) = Cardinality(To(t)) + 1
        BY <2>1, <2>2, FS_AddElement
    <2>4. Cardinality(To(t) \cup {v}) <= Cardinality(To(v))
        BY <2>1, <2>2, FS_Subset
    <2>5. Cardinality(To(t)) < Cardinality(To(v))
        BY <2>2, <2>3, <2>4
    <2> QED
        BY <2>5 DEF Place, To
<1>6. Place(S, t) \in Nat
    BY <1>1 DEF Place
<1> QED
    BY <1>2, <1>3, <1>4, <1>5, <1>6

\* No two members of S have one place.
LEMMA PlaceUnique ==
    ASSUME NEW S \in SUBSET Times, NEW t \in S, NEW v \in S, Place(S, t) = Place(S, v)
    PROVE  t = v
<1>1. t \in Nat /\ v \in Nat
    BY TimesFinite
<1>2. /\ t < v => Place(S, t) < Place(S, v)
      /\ v < t => Place(S, v) < Place(S, t)
      /\ Place(S, t) \in 1..Cardinality(S)
    BY PlaceOrder
<1>3. Cardinality(S) \in Nat
    BY TimesFinite
<1> QED
    BY <1>1, <1>2, <1>3

\* Places number the members of S from 1.
LEMMA NthPlace ==
    ASSUME NEW S \in SUBSET Times
    PROVE  /\ \A i \in 1..Cardinality(S) : Nth(S, i) \in S /\ Place(S, Nth(S, i)) = i
           /\ \A t \in S : Nth(S, Place(S, t)) = t
<1> DEFINE f == [t \in S |-> Place(S, t)]
           K == 1..Cardinality(S)
<1>1. IsFiniteSet(S) /\ Cardinality(S) \in Nat
    BY TimesFinite
<1>2. f \in [S -> K] /\ \A t, v \in S : f[t] = f[v] => t = v
    BY PlaceOrder, PlaceUnique
<1>3. f \in Injection(S, K)
    <2> HIDE DEF f, K
    <2> QED
        BY <1>2, Fun_IsInj
<1>4. IsFiniteSet(K) /\ Cardinality(K) = Cardinality(S)
    BY <1>1, FS_Interval
<1>5. f \in Surjection(S, K)
    <2> HIDE DEF f, K
    <2> QED
        BY <1>1, <1>3, <1>4, FS_Injection
<1>6. \A i \in K : \E t \in S : Place(S, t) = i
    BY <1>5 DEF Surjection
<1>7. \A i \in K : Nth(S, i) \in S /\ Place(S, Nth(S, i)) = i
    BY <1>6 DEF Nth, Place
<1>8. ASSUME NEW t \in S PROVE Nth(S, Place(S, t)) = t
    <2>1. Place(S, t) \in K
        BY PlaceOrder
    <2> QED
        BY <1>7, <2>1, PlaceUnique
<1> QED
    BY <1>7, <1>8

\* The places of two sets one after the other are one after the other, ...
LEMMA NthConcat ==
    ASSUME NEW A \in SUBSET Times, NEW B \in SUBSET Times, \A a \in A, b \in B : a < b
    PROVE  /\ Cardinality(A \cup B) = Cardinality(A) + Cardinality(B)
           /\ \A i \in 1..Cardinality(A) : Nth(A \cup B, i) = Nth(A, i)
           /\ \A i \in 1..Cardinality(B) : Nth(A \cup B, Cardinality(A) + i) = Nth(B, i)
<1> DEFINE S == A \cup B
<1>1. S \in SUBSET Times /\ \A t \in S : t \in Nat
    BY TimesFinite
<1>2. A \cap B = {}
    BY <1>1
<1>3. /\ IsFiniteSet(A) /\ IsFiniteSet(B)
      /\ Cardinality(A) \in Nat /\ Cardinality(B) \in Nat
    BY TimesFinite
<1>4. Cardinality(S) = Cardinality(A) + Cardinality(B)
    BY <1>2, <1>3, FS_Union, FS_EmptySet
<1>5. ASSUME NEW a \in A PROVE Place(S, a) = Place(A, a)
    <2>1. {u \in S : u <= a} = {u \in A : u <= a}
        BY <1>1
    <2> QED
        BY <2>1 DEF Place
<1>6. ASSUME NEW b \in B PROVE Place(S, b) = Cardinality(A) + Place(B, b)
    <2> DEFINE C == {u \in B : u <= b}
    <2>1. {u \in S : u <= b} = A \cup C /\ A \cap C = {}
        BY <1>1
    <2>2. IsFiniteSet(C) /\ Cardinality(C) \in Nat
        BY TimesFinite
    <2> HIDE DEF C
    <2>3. Cardinality(A \cup C) = Cardinality(A) + Cardinality(C)
        <3>1. Cardinality(A \cup C) = Cardinality(A) + Cardinality(C) - Cardinality(A \cap C)
            BY <1>3, <2>2, FS_Union
        <3>2. Cardinality(A \cap C) = 0
            BY <2>1, FS_EmptySet
        <3> QED
            BY <1>3, <2>2, <3>1, <3>2
    <2> QED
        BY <2>1, <2>3 DEF Place, C
<1>7. ASSUME NEW i \in 1..Cardinality(A) PROVE Nth(S, i) = Nth(A, i)
    <2>1. Nth(A, i) \in A /\ Place(A, Nth(A, i)) = i
        BY NthPlace
    <2>2. Nth(A, i) \in S /\ Place(S, Nth(A, i)) = i
        BY <1>5, <2>1
    <2> HIDE DEF S
    <2> QED
        BY <1>1, <2>2, NthPlace
<1>8. ASSUME NEW i \in 1..Cardinality(B) PROVE Nth(S, Cardinality(A) + i) = Nth(B, i)
    <2>1. Nth(B, i) \in B /\ Place(B, Nth(B, i)) = i
        BY NthPlace
    <2>2. Nth(B, i) \in S /\ Place(S, Nth(B, i)) = Cardinality(A) + i
        BY <1>6, <2>1
    <2> HIDE DEF S
    <2> QED
        BY <1>1, <2>2, NthPlace
<1> QED
    BY <1>4, <1>7, <1>8

\* A list is a sequence of what can be hashed.
LEMMA ListType ==
    ASSUME NEW S \in SUBSET Times, NEW g, \A t \in S : g[t].content \in Contents
    PROVE  /\ List(S, g) \in Hash /\ Len(List(S, g)) = Cardinality(S)
           /\ \A i \in 1..Cardinality(S) : List(S, g)[i] = <<Nth(S, i), g[Nth(S, i)].content>>
<1> DEFINE l == List(S, g)
<1>1. Cardinality(S) \in Nat
    BY TimesFinite
<1>2. \A i \in 1..Cardinality(S) : Nth(S, i) \in S
    BY NthPlace
<1>3. l \in [1..Cardinality(S) -> Times \X Contents]
    BY <1>2 DEF List
<1>4. \A i \in 1..Cardinality(S) : l[i] = <<Nth(S, i), g[Nth(S, i)].content>>
    BY DEF List
<1> HIDE DEF l
<1>5. l \in Seq(Times \X Contents) /\ Len(l) = Cardinality(S)
    BY <1>1, <1>3
<1> QED
    BY <1>4, <1>5 DEF l, Hash

\* ... so that its rows are.
LEMMA ListConcat ==
    ASSUME NEW A \in SUBSET Times, NEW B \in SUBSET Times, \A a \in A, b \in B : a < b,
           NEW g, \A t \in A \cup B : g[t].content \in Contents
    PROVE  List(A \cup B, g) = List(A, g) \o List(B, g)
<1> DEFINE S == A \cup B
           l == List(S, g)
           p == List(A, g)
           q == List(B, g)
<1>1. S \in SUBSET Times
    OBVIOUS
<1>2. /\ Cardinality(A) \in Nat /\ Cardinality(B) \in Nat
      /\ Cardinality(S) = Cardinality(A) + Cardinality(B)
    BY TimesFinite, NthConcat
<1>3. /\ l \in Hash /\ Len(l) = Cardinality(S)
      /\ \A i \in 1..Cardinality(S) : l[i] = <<Nth(S, i), g[Nth(S, i)].content>>
    BY <1>1, ListType
<1>4. /\ p \in Hash /\ Len(p) = Cardinality(A)
      /\ \A i \in 1..Cardinality(A) : p[i] = <<Nth(A, i), g[Nth(A, i)].content>>
    BY ListType
<1>5. /\ q \in Hash /\ Len(q) = Cardinality(B)
      /\ \A i \in 1..Cardinality(B) : q[i] = <<Nth(B, i), g[Nth(B, i)].content>>
    BY ListType
<1>6. /\ \A i \in 1..Cardinality(A) : Nth(S, i) = Nth(A, i)
      /\ \A i \in 1..Cardinality(B) : Nth(S, Cardinality(A) + i) = Nth(B, i)
    BY NthConcat
<1> HIDE DEF S, l, p, q
<1>7. /\ p \o q \in Hash /\ Len(p \o q) = Cardinality(S)
      /\ \A i \in 1..Cardinality(S) :
             (p \o q)[i] = IF i <= Cardinality(A) THEN p[i] ELSE q[i - Cardinality(A)]
    <2>1. p \in Seq(Times \X Contents) /\ q \in Seq(Times \X Contents)
        BY <1>4, <1>5 DEF Hash
    <2>2. /\ p \o q \in Seq(Times \X Contents) /\ Len(p \o q) = Len(p) + Len(q)
          /\ \A i \in 1..Len(p) + Len(q) : (p \o q)[i] = IF i <= Len(p) THEN p[i] ELSE q[i - Len(p)]
        BY <2>1, ConcatProperties
    <2>3. Len(p) = Cardinality(A) /\ Len(p) + Len(q) = Cardinality(S)
        BY <1>2, <1>4, <1>5
    <2> QED
        BY <2>2, <2>3 DEF Hash
<1>8. ASSUME NEW i \in 1..Cardinality(S) PROVE l[i] = (p \o q)[i]
    <2>1. CASE i <= Cardinality(A)
        <3>1. i \in 1..Cardinality(A)
            BY <1>2, <2>1
        <3> QED
            BY <1>3, <1>4, <1>6, <1>7, <2>1, <3>1
    <2>2. CASE ~(i <= Cardinality(A))
        <3> DEFINE k == i - Cardinality(A)
        <3>1. k \in 1..Cardinality(B) /\ i = Cardinality(A) + k
            BY <1>2, <2>2
        <3>2. (p \o q)[i] = q[k]
            BY <1>7, <2>2
        <3> HIDE DEF k
        <3>3. q[k] = <<Nth(B, k), g[Nth(B, k)].content>> /\ Nth(S, i) = Nth(B, k)
            BY <1>5, <1>6, <3>1
        <3> QED
            BY <1>3, <3>2, <3>3
    <2> QED
        BY <2>1, <2>2
<1>9. l = p \o q
    BY <1>3, <1>7, <1>8, SeqEqual DEF Hash
<1> QED
    BY <1>9 DEF l, p, q, S

\* Nothing is listed of no rows, ...
LEMMA ListEmpty ==
    ASSUME NEW g PROVE List({}, g) = <<>>
<1>1. List({}, g) \in Hash /\ Len(List({}, g)) = 0
    BY ListType, FS_EmptySet
<1> QED
    BY <1>1, EmptySeq DEF Hash

\* ... and one row of one.
LEMMA ListOne ==
    ASSUME NEW t \in Times, NEW g, g[t].content \in Contents
    PROVE  List({t}, g) = <<<<t, g[t].content>>>>
<1> DEFINE l == List({t}, g)
           e == <<t, g[t].content>>
<1>1. Cardinality({t}) = 1 /\ {t} \in SUBSET Times
    BY FS_Singleton
<1>2. Nth({t}, 1) \in {t}
    BY <1>1, NthPlace
<1>3. l \in Hash /\ Len(l) = 1 /\ l[1] = e
    <2> DEFINE S == {t}
    <2>1. S \in SUBSET Times /\ Cardinality(S) = 1 /\ Nth(S, 1) = t /\ 1 \in 1..1
        BY <1>1, <1>2
    <2>2. \A u \in S : g[u].content \in Contents
        OBVIOUS
    <2> HIDE DEF S
    <2>3. /\ List(S, g) \in Hash /\ Len(List(S, g)) = 1
          /\ List(S, g)[1] = <<t, g[t].content>>
        BY <2>1, <2>2, ListType
    <2> QED
        BY <2>3 DEF S
<1>4. e \in Times \X Contents
    OBVIOUS
<1> HIDE DEF l, e
<1>5. l = <<e>>
    BY <1>3, <1>4 DEF Hash
<1> QED
    BY <1>5 DEF l, e

\* A later row is listed last.
LEMMA ListAppend ==
    ASSUME NEW A \in SUBSET Times, NEW t \in Times, \A a \in A : a < t,
           NEW g, \A u \in A \cup {t} : g[u].content \in Contents
    PROVE  List(A \cup {t}, g) = Canonical(List(A, g), t, g[t].content)
<1> DEFINE B == {t}
<1>1. B \in SUBSET Times /\ \A a \in A, b \in B : a < b
    OBVIOUS
<1>2. \A u \in A \cup B : g[u].content \in Contents
    OBVIOUS
<1>3. List(B, g) = <<<<t, g[t].content>>>>
    BY ListOne
<1> HIDE DEF B
<1>4. List(A \cup B, g) = List(A, g) \o List(B, g)
    BY <1>1, <1>2, ListConcat
<1>5. List(A, g) \in Hash /\ <<t, g[t].content>> \in Times \X Contents
    <2>1. t \in B
        BY DEF B
    <2> QED
        BY <1>2, <2>1, ListType
<1> QED
    BY <1>3, <1>4, <1>5, AppendIsConcat DEF Hash, Canonical, B

\* A list up to its i-th row lists the rows before it, and then it.
LEMMA ListUpTo ==
    ASSUME NEW S \in SUBSET Times, NEW g, \A u \in S : g[u].content \in Contents,
           NEW i \in 1..Cardinality(S)
    PROVE  \E t \in S :
               /\ List(S, g)[i] = <<t, g[t].content>>
               /\ SubSeq(List(S, g), 1, i) = Canonical(List({u \in S : u < t}, g), t, g[t].content)
<1> DEFINE t == Nth(S, i)
           A == {u \in S : u <= t}
           B == {u \in S : u > t}
           C == {u \in S : u < t}
<1>1. t \in S /\ Cardinality(A) = i
    BY NthPlace DEF Place
<1>2. \A u \in S : u \in Nat
    BY TimesFinite
<1>3. /\ A \in SUBSET Times /\ B \in SUBSET Times /\ C \in SUBSET Times
      /\ S = A \cup B /\ A = C \cup {t}
      /\ \A a \in A, b \in B : a < b
      /\ \A c \in C : c < t
      /\ \A u \in A \cup B : g[u].content \in Contents
      /\ \A u \in C \cup {t} : g[u].content \in Contents
      /\ t \in Times
    BY <1>1, <1>2
<1>4. List(S, g)[i] = <<t, g[t].content>>
    BY ListType
<1> HIDE DEF t, A, B, C
<1>5. List(S, g) = List(A, g) \o List(B, g)
    <2>1. /\ A \in SUBSET Times /\ B \in SUBSET Times
          /\ \A a \in A, b \in B : a < b
          /\ \A u \in A \cup B : g[u].content \in Contents
        BY <1>3
    <2>2. List(A \cup B, g) = List(A, g) \o List(B, g)
        BY <2>1, ListConcat
    <2> QED
        BY <1>3, <2>2
<1>6. List(A, g) \in Hash /\ Len(List(A, g)) = i /\ List(B, g) \in Hash
    BY <1>1, <1>3, ListType
<1>7. i \in 1..i /\ 1 \in 1..i /\ i \in Nat
    BY TimesFinite
<1>8. SubSeq(List(S, g), 1, i) = List(A, g)
    BY <1>5, <1>6, <1>7, SubSeqOfConcat1, SubSeqFull DEF Hash
<1>9. List(A, g) = Canonical(List(C, g), t, g[t].content)
    BY <1>1, <1>3, ListAppend
<1> QED
    BY <1>1, <1>4, <1>8, <1>9 DEF C

\* A list depends on its rows only.
LEMMA ListStays ==
    ASSUME NEW S \in SUBSET Times, NEW g, NEW h, \A t \in S : h[t] = g[t]
    PROVE  List(S, h) = List(S, g)
<1>1. \A i \in 1..Cardinality(S) : Nth(S, i) \in S
    BY NthPlace
<1> QED
    BY <1>1 DEF List

-----------------------------------------------------------------------------
(* Verifications. *)

\* What lets a verification report a row.
Cause == tampered \/ forked \/ ReadTwice

\* A silent walk was hashed into the last row it read, and each of its prefixes
\* into the row it ends with.
Vouched ==
    ~stale /\ breaks = {} =>
        \A i \in DOMAIN walk :
            /\ walk[i][1] \in Rows
            /\ log[walk[i][1]].content = walk[i][2]
            /\ log[walk[i][1]].hash = SubSeq(walk, 1, i)

\* A chain hashes all rows before a row into it.
Linked ==
    ~tampered /\ ~forked =>
        \A t \in Rows : /\ log[t].prev = InOrder(Before(t))
                        /\ log[t].hash = InOrder(Before(t) \cup {t})

\* Without a cause, nothing is reported and a walk has hashed what is up to its
\* cursor.
CaughtUp ==
    ~Cause =>
        /\ breaks = {}
        /\ sweeping => /\ cursor = 0 \/ cursor \in Rows
                       /\ walk = InOrder({t \in Rows : t <= cursor})

WalkInv == walk \in Hash /\ Vouched /\ Linked /\ CaughtUp

\* Rows are at times and have contents.
LEMMA RowsTyped ==
    ASSUME TypeOK
    PROVE  /\ Rows \in SUBSET Times
           /\ \A t \in Rows : t \in Times /\ t \in Nat \ {0} /\ log[t].content \in Contents
<1>1. Rows \in SUBSET Times /\ \A t \in Rows : log[t] \in Row
    BY DEF TypeOK, Rows
<1> QED
    BY <1>1, TimesFinite DEF Row

\* The order a verification hashes is the list of the log.
LEMMA Listed == \A S : InOrder(S) = List(S, log)
BY DEF InOrder, List

\* A prefix that reaches into the second of two sequences.
LEMMA PrefixOfConcat ==
    ASSUME NEW s \in Hash, NEW t \in Hash, NEW k \in 1..Len(t)
    PROVE  SubSeq(s \o t, 1, Len(s) + k) = s \o SubSeq(t, 1, k)
<1> DEFINE E == Times \X Contents
           n == Len(s) + k
           p == SubSeq(s \o t, 1, n)
           q == SubSeq(t, 1, k)
<1>1. s \in Seq(E) /\ t \in Seq(E) /\ Len(s) \in Nat /\ Len(t) \in Nat
    BY LenProperties DEF Hash
<1>2. /\ s \o t \in Seq(E) /\ Len(s \o t) = Len(s) + Len(t)
      /\ \A i \in 1..Len(s) + Len(t) : (s \o t)[i] = IF i <= Len(s) THEN s[i] ELSE t[i - Len(s)]
    BY <1>1, ConcatProperties
<1>3. n \in 1..Len(s) + Len(t) /\ n \in Int /\ k \in Int /\ 1 \in Int /\ 1 <= k /\ 1 <= n /\ k <= Len(t)
    BY <1>1
<1>4. \A i \in 1..n : (s \o t)[i] \in E
    <2>1. \A i \in 1..n : i \in 1..Len(s \o t)
        BY <1>1, <1>2, <1>3
    <2> HIDE DEF E
    <2> QED
        BY <1>2, <2>1, ElementOfSeq
<1>5. \A i \in 1..k : t[i] \in E
    <2>1. \A i \in 1..k : i \in 1..Len(t)
        BY <1>1, <1>3
    <2> HIDE DEF E
    <2> QED
        BY <1>1, <2>1, ElementOfSeq
<1> HIDE DEF E
<1>6. p \in Seq(E) /\ Len(p) = n /\ \A i \in 1..n : p[i] = (s \o t)[i]
    <2>1. /\ p \in Seq(E) /\ Len(p) = n - 1 + 1
          /\ \A i \in 1..(n - 1 + 1) : p[i] = (s \o t)[1 + i - 1]
        BY <1>3, <1>4, SubSeqProperties
    <2> HIDE DEF n, p
    <2> QED
        BY <1>3, <2>1
<1>7. q \in Seq(E) /\ Len(q) = k /\ \A i \in 1..k : q[i] = t[i]
    <2>1. /\ q \in Seq(E) /\ Len(q) = k - 1 + 1
          /\ \A i \in 1..(k - 1 + 1) : q[i] = t[1 + i - 1]
        BY <1>3, <1>5, SubSeqProperties
    <2> HIDE DEF q
    <2> QED
        BY <1>3, <2>1
<1> HIDE DEF p, q
<1>8. /\ s \o q \in Seq(E) /\ Len(s \o q) = n
      /\ \A i \in 1..n : (s \o q)[i] = IF i <= Len(s) THEN s[i] ELSE q[i - Len(s)]
    BY <1>1, <1>7, ConcatProperties
<1>9. \A i \in 1..n : p[i] = (s \o q)[i]
    <2> TAKE i \in 1..n
    <2>1. i \in 1..Len(s) + Len(t)
        BY <1>1, <1>3
    <2>2. ~(i <= Len(s)) => i - Len(s) \in 1..k
        BY <1>1, <1>3
    <2> QED
        BY <1>2, <1>6, <1>7, <1>8, <2>1, <2>2
<1>10. p = s \o q
    <2> HIDE DEF n
    <2> QED
        BY <1>6, <1>8, <1>9, SeqEqual
<1> QED
    BY <1>10 DEF p, q

\* A page is a set of rows, in whatever state the cursor is.
LEMMA PageTyped ==
    ASSUME TypeOK
    PROVE  /\ Page \in SUBSET Rows /\ Page \in SUBSET Times
           /\ \A t \in Page : t \in Times /\ t \in Nat /\ log[t].content \in Contents
           /\ InOrder(Page) \in Hash /\ Len(InOrder(Page)) = Cardinality(Page)
<1>1. Page \in SUBSET Rows
    BY DEF Page
<1>2. Page \in SUBSET Times /\ \A t \in Page : t \in Times /\ t \in Nat /\ log[t].content \in Contents
    BY <1>1, RowsTyped
<1> QED
    BY <1>1, <1>2, Listed, ListType

\* Reading a page keeps what is vouched for: a row that is not reported hashes
\* the walk up to it.
LEMMA ReadVouched ==
    ASSUME TypeOK, walk \in Hash, Vouched, ReadPage
    PROVE  walk' \in Hash /\ Vouched'
<1> DEFINE l == InOrder(Page)
<1>1. /\ walk' = walk \o l /\ log' = log /\ Rows' = Rows /\ stale' = stale
      /\ breaks' = breaks \cup {t \in Page : Mismatch(t)}
    BY DEF ReadPage, Rows
<1>2. l \in Hash /\ Len(l) = Cardinality(Page)
    BY PageTyped
<1>3. /\ \A t \in Page : t \in Rows /\ log[t].content \in Contents /\ t \in Times
      /\ Page \in SUBSET Times
    BY PageTyped
<1> HIDE DEF l
<1>4. /\ walk \in Seq(Times \X Contents) /\ l \in Seq(Times \X Contents)
      /\ Len(walk) \in Nat /\ Len(l) \in Nat
    BY <1>2, LenProperties DEF Hash
<1>5. /\ walk' \in Seq(Times \X Contents) /\ Len(walk') = Len(walk) + Len(l)
      /\ \A i \in 1..Len(walk) + Len(l) : walk'[i] = IF i <= Len(walk) THEN walk[i] ELSE l[i - Len(walk)]
    BY <1>1, <1>4, ConcatProperties
<1>6. DOMAIN walk' = 1..Len(walk) + Len(l) /\ DOMAIN walk = 1..Len(walk)
    BY <1>4, <1>5, LenProperties
<1>7. ASSUME ~stale', breaks' = {}, NEW i \in DOMAIN walk'
      PROVE  /\ walk'[i][1] \in Rows'
             /\ log'[walk'[i][1]].content = walk'[i][2]
             /\ log'[walk'[i][1]].hash = SubSeq(walk', 1, i)
    <2>1. ~stale /\ breaks = {} /\ \A t \in Page : ~Mismatch(t)
        BY <1>1, <1>7
    <2>2. CASE i \in 1..Len(walk)
        <3>1. walk'[i] = walk[i]
            BY <1>4, <1>5, <2>2
        <3>2. SubSeq(walk', 1, i) = SubSeq(walk, 1, i)
            <4>1. 1 \in 1..Len(walk)
                BY <1>4, <2>2
            <4> QED
                BY <1>1, <1>4, <2>2, <4>1, SubSeqOfConcat1
        <3> QED
            BY <1>1, <1>6, <2>1, <2>2, <3>1, <3>2 DEF Vouched
    <2>3. CASE i \notin 1..Len(walk)
        <3> DEFINE k == i - Len(walk)
        <3>1. k \in 1..Len(l) /\ i = Len(walk) + k /\ walk'[i] = l[k]
            <4>1. i \in 1..Len(walk) + Len(l) /\ ~(i <= Len(walk))
                BY <1>4, <1>6, <1>7, <2>3
            <4> QED
                BY <1>4, <1>5, <4>1
        <3> HIDE DEF k
        <3>2. PICK t \in Page :
                  /\ l[k] = <<t, log[t].content>>
                  /\ SubSeq(l, 1, k) = Canonical(InOrder({u \in Page : u < t}), t, log[t].content)
            <4>1. k \in 1..Cardinality(Page) /\ l = List(Page, log)
                BY <1>2, <3>1, Listed DEF l
            <4>2. \E t \in Page :
                      /\ List(Page, log)[k] = <<t, log[t].content>>
                      /\ SubSeq(List(Page, log), 1, k)
                             = Canonical(List({u \in Page : u < t}, log), t, log[t].content)
                BY <1>3, <4>1, ListUpTo
            <4> QED
                BY <4>1, <4>2, Listed
        <3> DEFINE C == {u \in Page : u < t}
        <3>3. C \in SUBSET Times /\ \A u \in C : log[u].content \in Contents
            BY <1>3
        <3>4. InOrder(C) \in Seq(Times \X Contents)
            <4> HIDE DEF C
            <4> QED
                BY <3>3, Listed, ListType DEF Hash
        <3>5. log[t].hash = Canonical(walk \o InOrder(C), t, log[t].content)
            BY <2>1 DEF Mismatch, Expected
        <3>6. <<t, log[t].content>> \in Times \X Contents
            BY <1>3
        <3> HIDE DEF C
        <3>7. Canonical(walk \o InOrder(C), t, log[t].content)
                  = walk \o Canonical(InOrder(C), t, log[t].content)
            <4> DEFINE e == <<t, log[t].content>>
                       E == Times \X Contents
                       c == InOrder(C)
            <4>1. /\ e \in E /\ walk \in Seq(E) /\ c \in Seq(E) /\ <<e>> \in Seq(E)
                  /\ walk \o c \in Seq(E)
                BY <1>4, <3>4, <3>6, ConcatProperties
            <4> HIDE DEF e, E, c
            <4>2. Append(walk \o c, e) = (walk \o c) \o <<e>> /\ Append(c, e) = c \o <<e>>
                BY <4>1, AppendIsConcat
            <4>3. (walk \o c) \o <<e>> = walk \o (c \o <<e>>)
                BY <4>1, ConcatAssociative
            <4> QED
                BY <4>2, <4>3 DEF Canonical, e, c
        <3>8. SubSeq(walk', 1, i) = walk \o SubSeq(l, 1, k)
            BY <1>1, <1>2, <3>1, PrefixOfConcat
        <3>9. log[t].hash = SubSeq(walk', 1, i)
            BY <3>2, <3>5, <3>7, <3>8 DEF C
        <3> QED
            BY <1>1, <1>3, <3>1, <3>2, <3>9
    <2> QED
        BY <2>2, <2>3
<1>8. Vouched'
    BY <1>7 DEF Vouched
<1> QED
    BY <1>5, <1>8 DEF Hash

\* Other steps keep it: rows are only added.
LEMMA VouchedStep ==
    ASSUME IInv, walk \in Hash, Vouched, [Next]_vars
    PROVE  walk' \in Hash /\ Vouched'
<1>1. ASSUME UNCHANGED <<log, walk, breaks, stale>> PROVE walk' \in Hash /\ Vouched'
    BY <1>1 DEF Vouched, Rows
<1>2. ASSUME NEW w \in Writers, Begin(w) \/ Lock(w) \/ Abort(w) PROVE walk' \in Hash /\ Vouched'
    BY <1>1, <1>2 DEF Begin, Lock, Abort, sweep
<1>3. ASSUME NEW w \in Writers, Commit(w) PROVE walk' \in Hash /\ Vouched'
    <2>1. time[w] \notin Rows
        BY <1>3 DEF Commit, IInv, TimesDrawn
    <2>2. /\ \A t \in Rows : t \in Rows' /\ log'[t] = log[t]
          /\ UNCHANGED <<walk, breaks, stale>>
        BY <1>3, <2>1 DEF Commit, Rows, sweep
    <2> QED
        BY <2>2 DEF Vouched
<1>4. ASSUME NEW t \in Times, Edit(t) \/ Delete(t) PROVE walk' \in Hash /\ Vouched'
    BY <1>4 DEF Edit, Delete, Vouched, sweep
<1>5. CASE StartSweep
    <2>1. walk' = <<>> /\ DOMAIN walk' = {}
        BY <1>5 DEF StartSweep
    <2>2. walk' \in Hash
        BY <2>1, EmptySeq DEF Hash
    <2> QED
        BY <2>1, <2>2 DEF Vouched
<1>6. CASE ReadPage
    BY <1>6, ReadVouched DEF IInv
<1>7. CASE UNCHANGED vars
    BY <1>1, <1>7 DEF vars, sweep
<1> QED
    BY <1>2, <1>3, <1>4, <1>5, <1>6, <1>7 DEF Next, WriterStep

\* The newest row's hash lists all rows.
LEMMA TipListed ==
    ASSUME IInv, Linked, ~tampered, ~forked
    PROVE  Tip(Rows) = InOrder(Rows)
<1>1. CASE Rows = {}
    BY <1>1, Listed, ListEmpty DEF Tip
<1>2. CASE Rows # {}
    <2> DEFINE n == Newest(Rows)
    <2>1. Rows \in SUBSET Times /\ \A t \in Rows : t \in Nat
        BY RowsTyped DEF IInv
    <2>2. n \in Rows /\ \A t \in Rows : t <= n
        BY <1>2, <2>1, NewestIn
    <2> HIDE DEF n
    <2>3. Before(n) \cup {n} = Rows
        BY <2>1, <2>2 DEF Before
    <2>4. log[n].hash = InOrder(Before(n) \cup {n})
        BY <2>2 DEF Linked
    <2> QED
        BY <1>2, <2>3, <2>4 DEF Tip, n
<1> QED
    BY <1>1, <1>2

\* A row committed above all others is hashed on top of them.
LEMMA CommitLinked ==
    ASSUME IInv, Linked, NEW w \in Writers, Commit(w)
    PROVE  Linked'
<1> SUFFICES ASSUME ~tampered', ~forked'
             PROVE  \A t \in Rows' : /\ log'[t].prev = InOrder(Before(t))'
                                     /\ log'[t].hash = InOrder(Before(t) \cup {t})'
    BY DEF Linked
<1> DEFINE t0 == time[w]
<1>1. ~tampered /\ ~forked /\ \A t \in Rows : ~(t > t0)
    BY DEF Commit
<1>2. t0 \in Times /\ t0 \notin Rows
    BY BoundAssumption DEF IInv, TypeOK, TimesDrawn, Commit, Times
<1>3. Rows \in SUBSET Times /\ \A t \in Rows : t \in Times /\ t \in Nat /\ log[t].content \in Contents
    BY RowsTyped DEF IInv
<1>4. \A t \in Rows : t < t0
    BY <1>1, <1>2, <1>3 DEF Times
<1>5. /\ Rows' = Rows \cup {t0}
      /\ \A t \in Rows : log'[t] = log[t]
      /\ log'[t0] = [content |-> "written", prev |-> head[w], hash |-> Canonical(head[w], t0, "written")]
    BY <1>2 DEF Commit, Rows, NewRow
<1>6. ASSUME NEW S \in SUBSET Rows PROVE List(S, log') = InOrder(S)
    BY <1>3, <1>5, Listed, ListStays
<1>7. ASSUME NEW t \in Rows
      PROVE  log'[t].prev = InOrder(Before(t))' /\ log'[t].hash = InOrder(Before(t) \cup {t})'
    <2>1. Before(t)' = Before(t)
        BY <1>2, <1>3, <1>4, <1>5 DEF Before, Times
    <2>2. InOrder(Before(t))' = List(Before(t), log') /\ InOrder(Before(t) \cup {t})' = List(Before(t) \cup {t}, log')
        BY <2>1 DEF InOrder, List
    <2>3. Before(t) \in SUBSET Rows /\ Before(t) \cup {t} \in SUBSET Rows
        BY DEF Before
    <2>4. log[t].prev = InOrder(Before(t)) /\ log[t].hash = InOrder(Before(t) \cup {t})
        BY <1>1 DEF Linked
    <2> QED
        BY <1>5, <1>6, <2>2, <2>3, <2>4
<1>8. ASSUME NEW x \in Rows', x = t0
      PROVE  log'[x].prev = InOrder(Before(x))' /\ log'[x].hash = InOrder(Before(x) \cup {x})'
    <2>1. Before(x)' = Rows
        BY <1>2, <1>3, <1>4, <1>5, <1>8 DEF Before, Times
    <2>2. InOrder(Before(x))' = List(Rows, log') /\ InOrder(Before(x) \cup {x})' = List(Rows \cup {x}, log')
        BY <2>1 DEF InOrder, List
    <2>3. head[w] = Tip(Rows)
        BY <1>1 DEF IInv, HeadIsTip, Commit
    <2>4. head[w] = List(Rows, log')
        BY <1>1, <1>6, <2>3, TipListed
    <2>5. \A u \in Rows \cup {x} : log'[u].content \in Contents
        BY <1>3, <1>5, <1>8 DEF Contents
    <2>6. List(Rows \cup {x}, log') = Canonical(List(Rows, log'), x, log'[x].content)
        BY <1>2, <1>3, <1>4, <1>8, <2>5, ListAppend
    <2>7. log'[x].prev = head[w] /\ log'[x].hash = Canonical(head[w], x, log'[x].content)
        BY <1>5, <1>8
    <2> QED
        BY <2>2, <2>4, <2>6, <2>7
<1> QED
    BY <1>5, <1>7, <1>8

\* The chain stays linked until a cause breaks it.
LEMMA LinkedStep ==
    ASSUME IInv, Linked, [Next]_vars
    PROVE  Linked'
<1>1. ASSUME UNCHANGED <<log, tampered, forked>> PROVE Linked'
    BY <1>1 DEF Linked, Rows, InOrder, Before
<1>2. ASSUME NEW w \in Writers, Begin(w) \/ Lock(w) \/ Abort(w) PROVE Linked'
    BY <1>1, <1>2 DEF Begin, Lock, Abort
<1>3. ASSUME NEW w \in Writers, Commit(w) PROVE Linked'
    BY <1>3, CommitLinked
<1>4. ASSUME NEW t \in Times, Edit(t) \/ Delete(t) PROVE Linked'
    BY <1>4 DEF Edit, Delete, Linked
<1>5. CASE StartSweep \/ ReadPage \/ UNCHANGED vars
    BY <1>1, <1>5 DEF StartSweep, ReadPage, vars
<1> QED
    BY <1>2, <1>3, <1>4, <1>5 DEF Next, WriterStep

\* A page lists rows that can be hashed, and the walk goes on from where it was.
LEMMA ReadGoesOn ==
    ASSUME IInv, walk \in Hash, ReadPage
    PROVE  /\ walk' = walk \o List(Page, log) /\ Len(walk) \in Nat
           /\ Len(List(Page, log)) = Cardinality(Page) /\ Cardinality(Page) \in Nat
           /\ DOMAIN walk = 1..Len(walk)
           /\ DOMAIN walk' = 1..(Len(walk) + Cardinality(Page))
           /\ \A i \in 1..(Len(walk) + Cardinality(Page)) :
                  walk'[i] = IF i <= Len(walk) THEN walk[i]
                             ELSE List(Page, log)[i - Len(walk)]
<1>1. Page \in SUBSET Times /\ \A t \in Page : log[t].content \in Contents
    BY PageTyped DEF IInv
<1> DEFINE q == List(Page, log)
<1>2. q \in Hash /\ Len(q) = Cardinality(Page) /\ Cardinality(Page) \in Nat
    BY <1>1, ListType, TimesFinite
<1>3. walk' = walk \o q
    BY Listed DEF ReadPage
<1> HIDE DEF q
<1>4. walk \in Seq(Times \X Contents) /\ q \in Seq(Times \X Contents)
    BY <1>2 DEF Hash
<1>5. /\ walk' \in Seq(Times \X Contents) /\ Len(walk') = Len(walk) + Len(q)
      /\ \A i \in 1..Len(walk) + Len(q) :
             walk'[i] = IF i <= Len(walk) THEN walk[i] ELSE q[i - Len(walk)]
    BY <1>3, <1>4, ConcatProperties
<1>6. Len(walk) \in Nat /\ DOMAIN walk = 1..Len(walk) /\ DOMAIN walk' = 1..Len(walk')
    BY <1>4, <1>5, LenProperties
<1> QED
    BY <1>2, <1>3, <1>5, <1>6 DEF q

\* A cause does not go away before the next verification starts.
LEMMA CauseStays ==
    ASSUME IInv, walk \in Hash, [Next]_vars, Cause
    PROVE  Cause' \/ StartSweep
<1>1. ASSUME walk' = walk, tampered => tampered', forked => forked' PROVE Cause'
    BY <1>1 DEF Cause, ReadTwice
<1>2. ASSUME NEW w \in Writers, Begin(w) \/ Lock(w) \/ Commit(w) \/ Abort(w)
      PROVE  Cause'
    BY <1>1, <1>2 DEF Begin, Lock, Commit, Abort, sweep
<1>3. ASSUME NEW t \in Times, Edit(t) \/ Delete(t) PROVE Cause'
    BY <1>1, <1>3 DEF Edit, Delete, sweep
<1>4. CASE ReadPage
    <2>1. CASE tampered \/ forked
        BY <1>4, <2>1 DEF ReadPage, Cause
    <2>2. ASSUME NEW i \in DOMAIN walk, NEW j \in DOMAIN walk, i < j,
                 walk[i][1] = walk[j][1]
          PROVE  Cause'
        <3>1. /\ i \in DOMAIN walk' /\ walk'[i] = walk[i]
              /\ j \in DOMAIN walk' /\ walk'[j] = walk[j]
            BY <1>4, ReadGoesOn
        <3> QED
            BY <2>2, <3>1 DEF Cause, ReadTwice
    <2> QED
        BY <2>1, <2>2 DEF Cause, ReadTwice
<1>5. CASE UNCHANGED vars
    BY <1>1, <1>5 DEF vars, sweep
<1> QED
    BY <1>2, <1>3, <1>4, <1>5 DEF Next, WriterStep

\* A row behind the cut cursor that was read before is read again, or an older
\* one is: the oldest behind the cut cursor is on the page and in the walk.
LEMMA RereadIsTwice ==
    ASSUME IInv, walk \in Hash, ReadPage, walk = InOrder({t \in Rows : t <= cursor}),
           NEW t \in Rows, t > Cut(cursor), t <= cursor
    PROVE  ReadTwice'
<1> DEFINE rest == {u \in Rows : u > Cut(cursor)}
           read == {u \in Rows : u <= cursor}
           m == Nth(rest, 1)
           k == Place(read, m)
           l == Place(Page, m)
<1>1. /\ Rows \in SUBSET Times
      /\ \A u \in Rows : u \in Times /\ u \in Nat \ {0} /\ log[u].content \in Contents
    BY RowsTyped DEF IInv
<1>2. rest \in SUBSET Times /\ read \in SUBSET Times /\ t \in rest
    BY <1>1
<1>3. m \in rest /\ Place(rest, m) = 1
    <2>1. Cardinality(rest) \in Nat /\ IsFiniteSet(rest)
        BY <1>2, TimesFinite
    <2>2. Cardinality(rest) # 0
        BY <1>2, <2>1, FS_EmptySet
    <2> HIDE DEF rest
    <2>3. 1 \in 1..Cardinality(rest)
        BY <2>1, <2>2
    <2> QED
        BY <1>2, <2>3, NthPlace
<1> HIDE DEF m
<1>4. {u \in rest : u <= m} = {m}
    <2> DEFINE A == {u \in rest : u <= m}
    <2>1. A \in SUBSET Times /\ m \in A /\ Cardinality(A) = 1
        BY <1>1, <1>2, <1>3 DEF Place
    <2> HIDE DEF A
    <2>2. IsFiniteSet(A)
        BY <2>1, TimesFinite
    <2>3. \E x : A = {x}
        BY <2>1, <2>2, FS_Singleton
    <2>4. A = {m}
        BY <2>1, <2>3
    <2> QED
        BY <2>4 DEF A
<1>5. m \in Rows /\ m <= t /\ m <= cursor /\ m \in read
    <2>1. m \in Rows /\ m \in Nat /\ t \in Nat /\ cursor \in Nat
        BY <1>1, <1>3, BoundAssumption DEF IInv, TypeOK
    <2>2. m <= t
        BY <1>2, <1>4, <2>1
    <2> QED
        BY <2>1, <2>2
<1>6. m \in Page
    <2>1. {u \in rest : u < m} = {}
        BY <1>1, <1>4, <1>5
    <2>2. Cardinality({u \in rest : u < m}) = 0
        BY <2>1, FS_EmptySet
    <2> QED
        BY <1>3, <2>2, BoundAssumption DEF Page
<1>7. Page \in SUBSET Times /\ \A u \in Page : log[u].content \in Contents
    BY PageTyped DEF IInv
<1>8. /\ k \in 1..Cardinality(read) /\ Nth(read, k) = m
      /\ l \in 1..Cardinality(Page) /\ Nth(Page, l) = m
    <2> HIDE DEF read
    <2> QED
        BY <1>2, <1>5, <1>6, <1>7, PlaceOrder, NthPlace
<1>9. /\ walk = List(read, log) /\ Len(walk) = Cardinality(read)
      /\ walk[k] = <<m, log[m].content>>
      /\ List(Page, log)[l] = <<m, log[m].content>>
    <2>1. walk = List(read, log)
        BY Listed
    <2>2. \A u \in read : log[u].content \in Contents
        BY <1>1
    <2> HIDE DEF read, k, l
    <2> QED
        BY <1>2, <1>7, <1>8, <2>1, <2>2, ListType
<1>10. /\ k \in DOMAIN walk' /\ walk'[k][1] = m
       /\ Len(walk) + l \in DOMAIN walk' /\ walk'[Len(walk) + l][1] = m
       /\ k < Len(walk) + l
    <2> HIDE DEF read, k, l
    <2>1. k \in 1..Len(walk) /\ l \in 1..Cardinality(Page)
        BY <1>8, <1>9
    <2>2. walk'[k] = walk[k] /\ k \in DOMAIN walk'
        BY <2>1, ReadGoesOn
    <2>3. /\ Len(walk) + l \in 1..(Len(walk) + Cardinality(Page))
          /\ ~(Len(walk) + l <= Len(walk)) /\ (Len(walk) + l) - Len(walk) = l
        BY <2>1, ReadGoesOn
    <2>4. walk'[Len(walk) + l] = List(Page, log)[l] /\ Len(walk) + l \in DOMAIN walk'
        BY <2>3, ReadGoesOn
    <2> QED
        BY <1>9, <2>1, <2>2, <2>4, ReadGoesOn
<1> QED
    BY <1>10 DEF ReadTwice

\* Without a cause, and when no row is read again, every row of the page is
\* expected to carry the hash of the rows before it, which it does.
LEMMA PageExpected ==
    ASSUME TypeOK, ChainIsTotal, Linked, CaughtUp, sweeping, ~Cause,
           {t \in Rows : t > Cut(cursor)} = {t \in Rows : t > cursor}
    PROVE  /\ \A t \in Page : t > cursor /\ ~Mismatch(t)
           /\ Page # {} => {t \in Rows : t <= cursor} \cup Page = {t \in Rows : t <= Newest(Page)}
<1> DEFINE read == {t \in Rows : t <= cursor}
           rest == {t \in Rows : t > cursor}
           Under(t) == {u \in rest : u < t}
<1>1. Rows \in SUBSET Times /\ \A t \in Rows : t \in Times /\ t \in Nat /\ log[t].content \in Contents
    BY RowsTyped
<1>2. cursor \in Nat /\ walk = InOrder(read)
    BY BoundAssumption DEF CaughtUp, TypeOK
<1>3. Page = {t \in rest : Cardinality(Under(t)) < Batch}
    BY DEF Page
<1>4. \A t \in rest : IsFiniteSet(Under(t)) /\ Cardinality(Under(t)) \in Nat
    <2> TAKE t \in rest
    <2>1. Under(t) \in SUBSET Times
        BY <1>1
    <2> HIDE DEF Under
    <2> QED
        BY <2>1, TimesFinite
<1>5. ASSUME NEW t \in Page, NEW u \in rest, u < t PROVE u \in Page
    <2>1. t \in rest /\ Cardinality(Under(t)) < Batch
        BY <1>3
    <2>2. Under(u) \in SUBSET Under(t)
        BY <1>1, <1>5, <2>1
    <2>3. /\ IsFiniteSet(Under(t)) /\ Cardinality(Under(t)) \in Nat
          /\ Cardinality(Under(u)) \in Nat
        BY <1>4, <2>1
    <2> HIDE DEF Under
    <2>4. Cardinality(Under(u)) <= Cardinality(Under(t))
        BY <2>2, <2>3, FS_Subset
    <2>5. Cardinality(Under(u)) < Batch
        BY <2>1, <2>3, <2>4, BoundAssumption
    <2> HIDE DEF rest
    <2> QED
        BY <1>3, <2>5
<1>6. ASSUME NEW t \in Page PROVE t > cursor /\ ~Mismatch(t)
    <2> DEFINE C == {u \in Page : u < t}
    <2>1. t \in Rows /\ t > cursor /\ \A u \in Page : u \in Rows /\ u > cursor
        BY <1>3
    <2>2. \A u \in Rows : u < t <=> u \in read \/ u \in C
        BY <1>1, <1>2, <1>5, <2>1
    <2>3. /\ Before(t) = read \cup C
          /\ read \in SUBSET Times /\ C \in SUBSET Times
        BY <1>1, <2>1, <2>2 DEF Before
    <2>4. /\ \A a \in read, b \in C : a < b
          /\ \A u \in read \cup C : log[u].content \in Contents /\ u < t
        BY <1>1, <1>2, <2>1
    <2> HIDE DEF read, C
    <2>5. List(read \cup C, log) = List(read, log) \o List(C, log)
        <3>1. /\ read \in SUBSET Times /\ C \in SUBSET Times
              /\ \A a \in read, b \in C : a < b
              /\ \A u \in read \cup C : log[u].content \in Contents
            BY <2>3, <2>4
        <3> QED
            BY ONLY <3>1, ListConcat
    <2>6. Expected(t) = InOrder(Before(t))
        BY <1>2, <2>3, <2>5, Listed DEF Expected, C
    <2>7. log[t].prev = InOrder(Before(t))
        BY <2>1 DEF Linked, Cause
    <2>8. log[t].hash = Canonical(log[t].prev, t, log[t].content)
        BY <2>1 DEF ChainIsTotal, Cause
    <2> QED
        BY <2>1, <2>6, <2>7, <2>8 DEF Mismatch
<1>7. ASSUME Page # {} PROVE read \cup Page = {t \in Rows : t <= Newest(Page)}
    <2> DEFINE n == Newest(Page)
    <2>1. Page \in SUBSET rest /\ Page \in SUBSET Times
        BY <1>1, <1>3
    <2>2. n \in Page /\ \A u \in Page : u <= n
        BY <1>7, <2>1, NewestIn
    <2> HIDE DEF n
    <2>3. n \in Rows /\ n \in Nat /\ n > cursor
        BY <1>1, <2>1, <2>2
    <2>4. ASSUME NEW t \in Rows PROVE (t \in read \/ t \in Page) <=> t <= n
        <3>1. t \in Nat /\ (t \in read <=> t <= cursor) /\ (t \in rest <=> t > cursor)
            BY <1>1
        <3>2. t \in Page => t <= n
            BY <2>2
        <3>3. t \in rest /\ t < n => t \in Page
            BY <1>5, <2>2
        <3> HIDE DEF read, rest
        <3> QED
            BY <1>2, <2>2, <2>3, <3>1, <3>2, <3>3
    <2>5. \A t \in read \cup Page : t \in Rows
        BY <2>1
    <2> QED
        BY <2>4, <2>5 DEF n
<1> QED
    BY <1>6, <1>7

\* A page read without a cause is caught up with.
LEMMA ReadCaughtUp ==
    ASSUME IInv, walk \in Hash, Linked, CaughtUp, ReadPage
    PROVE  CaughtUp'
<1> SUFFICES ASSUME ~Cause'
             PROVE  /\ breaks' = {}
                    /\ sweeping' => /\ cursor' = 0 \/ cursor' \in Rows'
                                    /\ walk' = InOrder({t \in Rows : t <= cursor})'
    BY DEF CaughtUp
<1>1. UNCHANGED <<log, tampered, forked>> /\ Rows' = Rows /\ sweeping
    BY DEF ReadPage, Rows
<1>2. ~Cause
    <2>1. [Next]_vars
        BY DEF Next
    <2>2. ~StartSweep
        BY <1>1 DEF StartSweep
    <2> QED
        BY <2>1, <2>2, CauseStays
<1>3. breaks = {} /\ walk = InOrder({t \in Rows : t <= cursor}) /\ cursor \in Nat
    BY <1>1, <1>2, BoundAssumption DEF CaughtUp, IInv, TypeOK
<1>3a. {t \in Rows : t > Cut(cursor)} = {t \in Rows : t > cursor}
    <2>1. \A t \in Rows : ~(t > Cut(cursor) /\ t <= cursor)
        BY <1>3, RereadIsTwice DEF Cause
    <2>2. \A t \in Rows : t \in Nat
        BY RowsTyped DEF IInv
    <2>3. Cut(cursor) \in Nat /\ Cut(cursor) <= cursor
        BY <1>3, ResAssumption, BoundAssumption DEF Cut
    <2> QED
        BY <1>3, <2>1, <2>2, <2>3
<1>4. /\ \A t \in Page : t > cursor /\ ~Mismatch(t)
      /\ Page # {} => {t \in Rows : t <= cursor} \cup Page = {t \in Rows : t <= Newest(Page)}
    BY <1>1, <1>3a, <1>2, PageExpected DEF IInv
<1>5. breaks' = {}
    BY <1>3, <1>4 DEF ReadPage
<1>6. ASSUME sweeping'
      PROVE  /\ cursor' \in Rows
             /\ walk' = InOrder({t \in Rows : t <= cursor'})
    <2>1. /\ Page \in SUBSET Rows /\ Page \in SUBSET Times
          /\ \A t \in Page : t \in Times /\ t \in Nat /\ log[t].content \in Contents
        BY PageTyped DEF IInv
    <2>2. IsFiniteSet(Page) /\ Cardinality(Page) \in Nat
        BY <2>1, TimesFinite
    <2>3. Cardinality(Page) >= Batch /\ Page # {}
        <3>1. Cardinality(Page) >= Batch
            BY <1>6 DEF ReadPage
        <3>2. Cardinality({}) = 0
            BY FS_EmptySet
        <3> QED
            BY <3>1, <3>2, BoundAssumption
    <2> DEFINE n == Newest(Page)
    <2>4. n \in Page /\ \A u \in Page : u <= n
        BY <2>1, <2>3, NewestIn
    <2>5. cursor' = n /\ walk' = walk \o InOrder(Page)
        BY <2>3 DEF ReadPage
    <2> DEFINE A == {t \in Rows : t <= cursor}
    <2>7. A \cup Page = {t \in Rows : t <= n}
        BY <1>4, <2>3
    <2>8. walk' = List(A, log) \o List(Page, log)
        BY <1>3, <2>5, Listed
    <2>9. /\ A \in SUBSET Times /\ \A t \in A \cup Page : log[t].content \in Contents
          /\ \A a \in A, b \in Page : a < b
        BY <1>3, <1>4, <2>1, RowsTyped DEF IInv
    <2> HIDE DEF A, n
    <2>10. walk' = List(A \cup Page, log)
        BY <2>1, <2>8, <2>9, ListConcat
    <2> QED
        BY <2>1, <2>4, <2>5, <2>7, <2>10, Listed
<1>7. \A S : InOrder(S) = List(S, log)
    BY Listed
<1>8. InOrder({t \in Rows : t <= cursor})' = InOrder({t \in Rows : t <= cursor'})
    BY <1>1 DEF InOrder
<1> QED
    BY <1>1, <1>5, <1>6, <1>8

\* So is every other step: new rows come after the cursor.
LEMMA CaughtUpStep ==
    ASSUME IInv, walk \in Hash, Linked, CaughtUp, [Next]_vars
    PROVE  CaughtUp'
<1> SUFFICES ASSUME ~Cause' PROVE CaughtUp'
    BY DEF CaughtUp
<1>1. ~Cause \/ StartSweep
    BY CauseStays
<1>1a. ASSUME UNCHANGED sweep PROVE ~Cause
    <2>1. CASE StartSweep
        BY <1>1a, <2>1 DEF StartSweep, sweep
    <2> QED
        BY <1>1, <2>1
<1>2. ASSUME UNCHANGED <<log, sweep>>, ~Cause PROVE CaughtUp'
    BY <1>2 DEF CaughtUp, sweep, Rows, InOrder
<1>3. ASSUME NEW w \in Writers, Begin(w) \/ Lock(w) \/ Abort(w) PROVE CaughtUp'
    BY <1>2, <1>3, <1>1a DEF Begin, Lock, Abort
<1>4. ASSUME NEW w \in Writers, Commit(w) PROVE CaughtUp'
    <2> DEFINE t0 == time[w]
    <2>0. ~Cause
        BY <1>4, <1>1a DEF Commit
    <2>1. ~forked' /\ UNCHANGED <<sweeping, cursor, walk, breaks>>
        BY <1>4 DEF Cause, Commit, sweep
    <2>2. \A t \in Rows : ~(t > t0)
        BY <1>4, <2>1 DEF Commit
    <2>3. t0 \in Nat \ {0} /\ t0 \notin Rows
        BY <1>4, BoundAssumption DEF IInv, TypeOK, TimesDrawn, Commit
    <2>4. Rows \in SUBSET Times /\ \A t \in Rows : t \in Nat
        BY RowsTyped DEF IInv
    <2>5. Rows' = Rows \cup {t0} /\ \A t \in Rows : log'[t] = log[t]
        BY <1>4, <2>3 DEF Commit, Rows
    <2>6. ASSUME sweeping
          PROVE  /\ cursor = 0 \/ cursor \in Rows'
                 /\ walk = InOrder({t \in Rows : t <= cursor})'
        <3> DEFINE S == {t \in Rows : t <= cursor}
        <3>1. (cursor = 0 \/ cursor \in Rows) /\ walk = List(S, log)
            BY <2>0, <2>6, Listed DEF CaughtUp
        <3>2. {t \in Rows : t <= cursor}' = S
            BY <2>1, <2>2, <2>3, <2>4, <2>5, <3>1
        <3>3. S \in SUBSET Times /\ \A t \in S : log'[t] = log[t]
            BY <2>4, <2>5
        <3>4. InOrder({t \in Rows : t <= cursor})' = List(S, log')
            BY <3>2 DEF InOrder, List
        <3> HIDE DEF S
        <3>5. List(S, log') = List(S, log)
            BY <3>3, ListStays
        <3> QED
            BY <2>5, <3>1, <3>4, <3>5
    <2> QED
        BY <2>0, <2>1, <2>6 DEF CaughtUp
<1>5. ASSUME NEW t \in Times, Edit(t) \/ Delete(t) PROVE CaughtUp'
    BY <1>5 DEF Edit, Delete, Cause
<1>6. CASE StartSweep
    <2>1. breaks' = {} /\ cursor' = 0 /\ walk' = <<>> /\ log' = log
        BY <1>6 DEF StartSweep
    <2>2. {t \in Rows : t <= cursor}' = {}
        BY <2>1, RowsTyped DEF IInv, Rows
    <2>3. walk' = InOrder({t \in Rows : t <= cursor})'
        <3>1. InOrder({t \in Rows : t <= cursor})' = List({}, log')
            BY <2>2 DEF InOrder, List
        <3> QED
            BY <2>1, <3>1, ListEmpty
    <2> QED
        BY <2>1, <2>3 DEF CaughtUp
<1>7. CASE ReadPage
    BY <1>7, ReadCaughtUp
<1>8. CASE UNCHANGED vars
    BY <1>2, <1>1a, <1>8 DEF vars
<1> QED
    BY <1>3, <1>4, <1>5, <1>6, <1>7, <1>8 DEF Next, WriterStep

-----------------------------------------------------------------------------

\* The inductive invariant holds of every behaviour of the log.
THEOREM Inductive == Spec => []IInv
<1>1. IInv /\ [Next]_vars => IInv'
    BY TypeStep, LockStep, ChainStep DEF IInv
<1>2. QED
    BY <1>1, InitIInv, PTL DEF Spec

\* What a walk hashed, vouches for and has caught up with.
THEOREM WalkInductive == Spec => []WalkInv
<1>1. Init => WalkInv
    <2> SUFFICES ASSUME Init PROVE WalkInv
        OBVIOUS
    <2>1. walk = <<>> /\ DOMAIN walk = {} /\ Rows = {} /\ breaks = {} /\ ~sweeping
        BY DEF Init, Rows
    <2>2. walk \in Hash
        BY <2>1, EmptySeq DEF Hash
    <2> QED
        BY <2>1, <2>2 DEF WalkInv, Vouched, Linked, CaughtUp
<1>2. IInv /\ WalkInv /\ [Next]_vars => WalkInv'
    BY VouchedStep, LinkedStep, CaughtUpStep DEF WalkInv
<1>3. QED
    BY <1>1, <1>2, Inductive, PTL DEF Spec

\* Every variable keeps its type.
THEOREM TypeCorrect == Spec => []TypeOK
<1>1. IInv => TypeOK
    BY DEF IInv
<1>2. QED
    BY <1>1, Inductive, PTL

\* Without tampering and with rows committed in reading order, each row
\* carries the hash of the row before it.
THEOREM LogIsAChain == Spec => []ChainIsTotal
<1>1. IInv => ChainIsTotal
    BY DEF IInv
<1>2. QED
    BY <1>1, Inductive, PTL

\* A verification reports nothing but after tampering, after rows were committed
\* out of reading order, or when it read a row twice itself, however rows are
\* inserted between its pages.
THEOREM NoFalseReport == Spec => []ReportsHaveACause
<1>1. WalkInv => ReportsHaveACause
    BY DEF WalkInv, CaughtUp, Cause, ReportsHaveACause
<1>2. QED
    BY <1>1, WalkInductive, PTL

\* A silent verification vouches for everything hashed into the rows it read.
THEOREM SilenceIsTrue == Spec => []SilenceVouches
<1>1. WalkInv => SilenceVouches
    <2> SUFFICES ASSUME WalkInv, ~stale, breaks = {}, NEW i \in DOMAIN walk,
                        NEW j \in DOMAIN log[walk[i][1]].hash
                 PROVE  /\ log[walk[i][1]].hash[j][1] \in Rows
                        /\ log[log[walk[i][1]].hash[j][1]].content = log[walk[i][1]].hash[j][2]
        BY DEF SilenceVouches
    <2>1. log[walk[i][1]].hash = SubSeq(walk, 1, i)
        BY DEF WalkInv, Vouched
    <2>2. walk \in Hash /\ DOMAIN walk = 1..Len(walk) /\ Len(walk) \in Nat
        BY LenProperties DEF WalkInv, Hash
    <2>3. \A k \in 1..i : walk[k] \in Times \X Contents /\ k \in DOMAIN walk
        BY <2>2, ElementOfSeq DEF Hash
    <2>4. SubSeq(walk, 1, i) \in Hash /\ Len(SubSeq(walk, 1, i)) = i /\ i \in Nat
          /\ \A k \in 1..i : SubSeq(walk, 1, i)[k] = walk[k]
        <3>1. i \in Nat /\ 1 <= i
            BY <2>2
        <3>2. /\ SubSeq(walk, 1, i) \in Seq(Times \X Contents)
              /\ Len(SubSeq(walk, 1, i)) = i - 1 + 1
              /\ \A k \in 1..(i - 1 + 1) : SubSeq(walk, 1, i)[k] = walk[1 + k - 1]
            BY <2>3, <3>1, SubSeqProperties
        <3> QED
            BY <3>1, <3>2 DEF Hash
    <2>5. j \in 1..i
        BY <2>1, <2>4, LenProperties DEF Hash
    <2>6. log[walk[i][1]].hash[j] = walk[j] /\ j \in DOMAIN walk
        BY <2>1, <2>3, <2>4, <2>5
    <2> QED
        BY <2>6 DEF WalkInv, Vouched
<1>2. QED
    BY <1>1, WalkInductive, PTL

=============================================================================
