-------------------------- MODULE LeaderboardProofs --------------------------
(***************************************************************************)
(* What holds of Leaderboard for every number of people, computations,      *)
(* refreshes, activities and failures.  The inductive invariant says that   *)
(* only agents are excluded, what a refresh's list and its ranks are, that  *)
(* a board out of order is being written or has been disturbed, and what    *)
(* the indexer has in hand.                                                 *)
(***************************************************************************)
EXTENDS Leaderboard, FiniteSetTheorems, TLAPS

USE BoardAssumption

\* Rows of people are never left out of a ranking.
AgentsOnly == excluded \subseteq Vendors /\ page \subseteq Vendors

\* What a refresh took counts what its list names, or the owner once; its ranks
\* are of their own each and follow its counts.
Listing ==
    \A f \in Refreshes :
        /\ stage[f] = "write" <=> next[f] > 0
        /\ \A p \in People :
               /\ count[f][p] >= Cardinality(Of(p, listed[f]))
               /\ \/ count[f][p] <= Old[p] + Cardinality(Of(p, listed[f]))
                  \/ p = Owner /\ count[f][p] = 1
        /\ \A p, q \in People :
               place[f][p] > 0 /\ place[f][q] > 0 =>
                   /\ place[f][p] = place[f][q] => p = q
                   /\ count[f][p] > count[f][q] => place[f][p] < place[f][q]

\* Nobody ranks, and no ranking has been disturbed.
Calm == ~torn /\ \A k \in Computes : at[k] # "write"

\* Whoever writes a score ranks after it, or fails.
Ranked == Sorted \/ ~Calm \/ \E f \in Refreshes : Half(f)

\* In calm one refresh at a time is half through, and its rows are as it wrote them.
Solo ==
    Calm => \A f \in Refreshes :
        Half(f) =>
            /\ \A g \in Refreshes : Half(g) => g = f
            /\ \A p \in People : place[f][p] > 0 /\ place[f][p] < next[f] =>
                   p \in known /\ score[p] = count[f][p] /\ rank[p] = place[f][p]

\* What p did from where its row was fetched from, and of that up to the cursor.
Since(p) == {a \in Of(p, activity) \ late : from[p] <= a[2]}
Span(p) == {a \in Of(p, activity) \ late : from[p] <= a[2] /\ a[2] < cursor}

\* What the indexer fetched is everything it has to, and then the rows count it.
Fetched ==
    /\ cursor <= now
    /\ \A a \in activity : a[2] <= now
    /\ \A p \in People : inputs[p] >= Cardinality(Span(p))
    /\ ix \in {"fetch", "upsert"} => since = cursor
    /\ ix = "upsert" => \A a \in activity \ late : allTime \/ a[2] >= cursor => a \in taken
    /\ ix = "mark" => \A p \in People : inputs[p] >= Cardinality(Since(p))

Inv == TypeOK /\ AgentsOnly /\ Listing /\ Ranked /\ Solo /\ Fetched

-----------------------------------------------------------------------------

\* What GitHub holds is finite, and so is what anybody did there.
LEMMA FiniteActivity ==
    ASSUME TypeOK
    PROVE  /\ IsFiniteSet(activity)
           /\ \A p : Cardinality(Of(p, activity)) \in Nat
<1>1. IsFiniteSet(Times \cup {0})
  <2>1. IsFiniteSet(0..MaxTime)
    BY FS_Interval
  <2>2. Times \cup {0} \subseteq 0..MaxTime
    BY DEF Times
  <2> QED
    BY <2>1, <2>2, FS_Subset
<1>2. IsFiniteSet(People \X (Times \cup {0}))
  BY <1>1, FS_Product
<1>3. IsFiniteSet(activity)
  BY <1>2, FS_Subset DEF TypeOK
<1>4. ASSUME NEW p PROVE Cardinality(Of(p, activity)) \in Nat
  <2>1. Of(p, activity) \subseteq activity
    BY DEF Of
  <2> QED
    BY <1>3, <2>1, FS_Subset, FS_CardinalityType
<1> QED
  BY <1>3, <1>4

\* An aggregate counts no more than the person did.
LEMMA AggregateBounded ==
    ASSUME TypeOK, NEW p \in People
    PROVE  /\ Aggregate(p) \in Nat
           /\ Aggregate(p) <= Old[p] + Cardinality(Of(p, activity))
<1>1. IsFiniteSet(Of(p, activity))
  BY FiniteActivity, FS_Subset DEF Of
<1>2. Of(p, taken) \subseteq Of(p, activity)
  BY DEF Of, TypeOK
<1>3. /\ Cardinality(Of(p, taken)) \in Nat
      /\ Cardinality(Of(p, taken)) <= Cardinality(Of(p, activity))
  BY <1>1, <1>2, FS_Subset, FS_CardinalityType
<1>4. Cardinality(Of(p, activity)) \in Nat /\ Old[p] \in Nat
  BY FiniteActivity
<1> QED
  BY <1>3, <1>4 DEF Aggregate

\* What somebody did only grows.
LEMMA ActivityGrows ==
    ASSUME TypeOK, NEW q \in People, NEW p \in People, NEW d, Act(q, d)
    PROVE  /\ Cardinality(Of(p, activity')) \in Nat
           /\ Cardinality(Of(p, activity)) <= Cardinality(Of(p, activity'))
<1>1. activity' = activity \cup {<<q, d>>}
  BY DEF Act
<1>2. IsFiniteSet(activity')
  BY <1>1, FiniteActivity, FS_AddElement
<1>3. Of(p, activity') \subseteq activity' /\ Of(p, activity) \subseteq Of(p, activity')
  BY <1>1 DEF Of
<1>4. IsFiniteSet(Of(p, activity'))
  BY <1>2, <1>3, FS_Subset
<1> QED
  BY <1>3, <1>4, FS_Subset, FS_CardinalityType

\* The parts of what GitHub holds are finite, and the larger count more.
LEMMA PartsCount ==
    ASSUME TypeOK, NEW S, NEW T, S \subseteq T, T \subseteq activity
    PROVE  /\ Cardinality(S) \in Nat /\ Cardinality(T) \in Nat
           /\ Cardinality(S) <= Cardinality(T)
<1>1. IsFiniteSet(S) /\ IsFiniteSet(T)
  BY FiniteActivity, FS_Subset
<1> QED
  BY <1>1, FS_Subset, FS_CardinalityType

\* The bound of TypeOK, by name.
Bound(p, n) ==
    \/ n <= Old[p] + Cardinality(Of(p, activity))
    \/ p = Owner /\ n = 1

LEMMA InputsBounded == TypeOK => \A p \in People : Bound(p, inputs[p])
BY DEF TypeOK, Of, Bound

\* What a list counts, it counts of what GitHub holds.
LEMMA ListsCount ==
    ASSUME TypeOK, NEW l \in Lists
    PROVE  /\ l.of \subseteq activity /\ l.n \in [People -> Nat]
           /\ \A p \in People : /\ l.n[p] >= Cardinality(Of(p, l.of))
                               /\ \/ l.n[p] <= Old[p] + Cardinality(Of(p, l.of))
                                  \/ p = Owner /\ l.n[p] = 1
<1>1. CASE \E s \in SUBSET activity :
             l = [of |-> s, n |-> [p \in People |-> Old[p] + Cardinality(Of(p, s))]]
  <2>1. PICK s \in SUBSET activity :
             l = [of |-> s, n |-> [p \in People |-> Old[p] + Cardinality(Of(p, s))]]
    BY <1>1
  <2>2. \A p \in People : Cardinality(Of(p, s)) \in Nat /\ Old[p] \in Nat
    <3>1. \A p \in People : Of(p, s) \subseteq activity
      BY DEF Of
    <3> QED
      BY <3>1, PartsCount
  <2>3. \A p \in People : Old[p] + Cardinality(Of(p, s)) \in Nat
                        /\ Old[p] + Cardinality(Of(p, s)) >= Cardinality(Of(p, s))
                        /\ Old[p] + Cardinality(Of(p, s)) <= Old[p] + Cardinality(Of(p, s))
    BY <2>2
  <2> QED
    BY <2>1, <2>3
<1>2. CASE \E m \in {0, 1} :
             l = [of |-> {}, n |-> [p \in People |-> IF p = Owner THEN m ELSE 0]]
  <2>1. PICK m \in {0, 1} :
             l = [of |-> {}, n |-> [p \in People |-> IF p = Owner THEN m ELSE 0]]
    BY <1>2
  <2>2. \A p : Cardinality(Of(p, {})) = 0
    <3>1. \A p : Of(p, {}) = {}
      BY DEF Of
    <3> QED
      BY <3>1, FS_EmptySet
  <2>3. \A p \in People : Old[p] \in Nat
    OBVIOUS
  <2>4. l.of = {} /\ l.n = [p \in People |-> IF p = Owner THEN m ELSE 0]
    BY <2>1
  <2> QED
    BY <2>2, <2>3, <2>4
<1> QED
  BY <1>1, <1>2 DEF Lists

\* Ranks are numbers, one each, and follow the score.
LEMMA RankingsRank ==
    ASSUME NEW S \in SUBSET People, NEW s, NEW r \in Rankings(s, S)
    PROVE  /\ r \in [People -> Nat]
           /\ \A p, q \in S : /\ p # q => r[p] # r[q]
                              /\ s[p] > s[q] => r[p] < r[q]
           /\ \A p \in People : r[p] = 0 <=> p \notin S
<1>1. Cardinality(S) \in Nat
  BY FS_Subset, FS_CardinalityType
<1> QED
  BY <1>1 DEF Rankings

-----------------------------------------------------------------------------

LEMMA InitInv == Init => Inv
<1> SUFFICES ASSUME Init PROVE Inv
  OBVIOUS
<1>0. \A p : Cardinality(Of(p, {})) = 0
  <2>1. \A p : Of(p, {}) = {}
    BY DEF Of
  <2> QED
    BY <2>1, FS_EmptySet
<1>1. TypeOK
  <2>1. \A p \in People : Cardinality({a \in activity : a[1] = p}) = 0
    BY <1>0 DEF Init, Of
  <2>2. \A p \in People : \/ inputs[p] <= Old[p] + Cardinality({a \in activity : a[1] = p})
                          \/ p = Owner /\ inputs[p] = 1
    BY <2>1 DEF Init
  <2>3. /\ at \in [Computes -> {"idle", "load", "write"}]
        /\ got \in [Computes -> [People -> Nat]]
        /\ todo \in [Computes -> SUBSET known]
    BY DEF Init
  <2>4. /\ inputs \in [People -> Nat] /\ score \in [People -> Nat] /\ rank \in [People -> Nat]
        /\ \A p \in People \ known : inputs[p] = 0 /\ score[p] = 0 /\ rank[p] = 0
    BY DEF Init
  <2>5. upsets \in 0..MaxUpsets
    BY DEF Init
  <2>6. /\ stage \in [Refreshes -> {"idle", "write", "over"}]
        /\ listed \in [Refreshes -> SUBSET activity]
        /\ count \in [Refreshes -> [People -> Nat]] /\ place \in [Refreshes -> [People -> Nat]]
        /\ next \in [Refreshes -> Nat]
    BY DEF Init
  <2> QED
    BY <2>2, <2>3, <2>4, <2>5, <2>6 DEF Init, TypeOK
<1>2. AgentsOnly /\ Ranked /\ Solo
  BY DEF Init, AgentsOnly, Ranked, Sorted, Solo, Half
<1>3. Listing
  BY <1>0 DEF Init, Listing
<1>4. Fetched
  <2>1. \A p \in People : Span(p) = {}
    BY DEF Init, Span, Of
  <2>2. \A p \in People : Cardinality(Span(p)) = 0
    BY <2>1, FS_EmptySet
  <2> QED
    BY <2>2 DEF Init, Fetched
<1> QED
  BY <1>1, <1>2, <1>3, <1>4 DEF Inv

\* The bound of TypeOK holds after every step but those that write inputs or
\* add an activity.
LEMMA BoundKept ==
    ASSUME TypeOK, UNCHANGED <<activity, inputs>>
    PROVE  \A p \in People : \/ inputs'[p] <= Old[p] + Cardinality({a \in activity' : a[1] = p})
                             \/ p = Owner /\ inputs'[p] = 1
BY DEF TypeOK

\* A step that leaves GitHub, the rows and the histories alone.
LEMMA IndexTypes ==
    ASSUME TypeOK, UNCHANGED <<github, rows, compute, page, refresh, history>>,
           upsets' \in 0..MaxUpsets, cursor' \in Times \cup {0}, since' \in Times \cup {0},
           ix' \in {"idle", "fetch", "upsert", "mark", "start"},
           taken' \subseteq activity, allTime' \in BOOLEAN
    PROVE  TypeOK'
<1>1. UNCHANGED <<activity, inputs>>
  BY DEF github, rows
<1> QED
  BY <1>1, BoundKept DEF TypeOK, github, rows, compute, refresh, history

\* One that leaves them, the indexer and the computations alone.
LEMMA RefreshTypes ==
    ASSUME TypeOK, UNCHANGED <<github, cursor, indexer, known, inputs, score, excluded, compute, page,
                               from, late>>,
           rank' \in [People -> Nat], \A p \in People \ known : rank'[p] = 0,
           upsets' \in 0..MaxUpsets, torn' \in BOOLEAN,
           stage' \in [Refreshes -> {"idle", "write", "over"}],
           listed' \in [Refreshes -> SUBSET activity],
           count' \in [Refreshes -> [People -> Nat]], place' \in [Refreshes -> [People -> Nat]],
           next' \in [Refreshes -> Nat]
    PROVE  TypeOK'
<1>1. UNCHANGED <<activity, inputs>>
  BY DEF github
<1> QED
  BY <1>1, BoundKept DEF TypeOK, github, indexer, compute

LEMMA LeaveTypes ==
    ASSUME TypeOK, NEW f \in Refreshes, Leave(f)
    PROVE  /\ stage' \in [Refreshes -> {"idle", "write", "over"}]
           /\ listed' \in [Refreshes -> SUBSET activity]
           /\ count' \in [Refreshes -> [People -> Nat]] /\ place' \in [Refreshes -> [People -> Nat]]
           /\ next' \in [Refreshes -> Nat]
BY DEF TypeOK, Leave

LEMMA TypeStep == TypeOK /\ Listing /\ [Next]_vars => TypeOK'
<1> SUFFICES ASSUME TypeOK, Listing, [Next]_vars PROVE TypeOK'
  OBVIOUS
<1>1. CASE Begin \/ Fetch \/ Mark \/ IndexFails
  <2>1. /\ UNCHANGED <<github, rows, compute, page, refresh, history>>
        /\ upsets' \in 0..MaxUpsets /\ cursor' \in Times \cup {0} /\ since' \in Times \cup {0}
        /\ ix' \in {"idle", "fetch", "upsert", "mark", "start"}
        /\ taken' \subseteq activity /\ allTime' \in BOOLEAN
    <3>1. CASE Begin \/ Fetch
      BY <3>1 DEF Begin, Fetch, TypeOK
    <3>2. CASE Mark
      BY <3>2 DEF Mark, TypeOK
    <3>3. CASE IndexFails
      <4>1. upsets' \in 0..MaxUpsets
        BY <3>3 DEF IndexFails, TypeOK
      <4>2. since' = 0 /\ ix' = "idle" /\ taken' = {} /\ allTime' = FALSE
        BY <3>3 DEF IndexFails
      <4>3. UNCHANGED <<github, cursor, rows, compute, page, refresh, history>>
        BY <3>3 DEF IndexFails
      <4> QED
        BY <4>1, <4>2, <4>3 DEF TypeOK
    <3> QED
      BY <1>1, <3>1, <3>2, <3>3
  <2> QED
    BY <2>1, IndexTypes
<1>2. CASE Upsert
  <2>1. \A p \in People : inputs'[p] \in Nat /\ Bound(p, inputs'[p])
    BY <1>2, AggregateBounded, InputsBounded DEF Upsert, TypeOK, Bound
  <2>2. inputs' \in [People -> Nat]
    BY <1>2, <2>1 DEF Upsert
  <2>3. \A p \in People \ known' : inputs'[p] = 0 /\ score'[p] = 0 /\ rank'[p] = 0
    BY <1>2 DEF Upsert, TypeOK
  <2>4. activity' = activity
    BY <1>2 DEF Upsert, github
  <2>5. \A p \in People : \/ inputs'[p] <= Old[p] + Cardinality({a \in activity' : a[1] = p})
                          \/ p = Owner /\ inputs'[p] = 1
    BY <2>1, <2>4 DEF Of, Bound
  <2>6. known \subseteq known' /\ known' \subseteq People /\ excluded' \subseteq known'
    BY <1>2 DEF Upsert, TypeOK, Batch
  <2>7. todo' \in [Computes -> SUBSET known'] /\ page' \subseteq known'
    BY <1>2, <2>6 DEF Upsert, TypeOK, compute
  <2>8. /\ now' \in Times \cup {0}
        /\ activity' \subseteq People \X (Times \cup {0})
        /\ cursor' \in Times \cup {0} /\ since' \in Times \cup {0}
        /\ ix' \in {"idle", "fetch", "upsert", "mark", "start"}
        /\ taken' \subseteq activity' /\ allTime' \in BOOLEAN
        /\ upsets' \in 0..MaxUpsets
        /\ late' \subseteq activity'
        /\ torn' \in BOOLEAN
    BY <1>2, <2>4 DEF Upsert, TypeOK, github
  <2>9. /\ score' \in [People -> Nat] /\ rank' \in [People -> Nat]
        /\ at' \in [Computes -> {"idle", "load", "write"}]
        /\ got' \in [Computes -> [People -> Nat]]
    BY <1>2 DEF Upsert, TypeOK, compute
  <2>10. from' \in [People -> Times \cup {0}]
    BY <1>2 DEF Upsert, TypeOK
  <2>11. /\ stage' \in [Refreshes -> {"idle", "write", "over"}]
         /\ listed' \in [Refreshes -> SUBSET activity']
         /\ count' \in [Refreshes -> [People -> Nat]] /\ place' \in [Refreshes -> [People -> Nat]]
         /\ next' \in [Refreshes -> Nat]
    BY <1>2, <2>4 DEF Upsert, TypeOK, refresh
  <2> QED
    BY <2>2, <2>3, <2>5, <2>6, <2>7, <2>8, <2>9, <2>10, <2>11 DEF TypeOK
<1>3. CASE Start
  <2>1. UNCHANGED <<activity, inputs>>
    BY <1>3 DEF Start, github, rows
  <2> QED
    BY <1>3, <2>1, BoundKept DEF Start, TypeOK, github, rows, refresh, history
<1>4. ASSUME NEW k \in Computes, Load(k) \/ Recompute(k) \/ ComputeFails(k) PROVE TypeOK'
  <2>1. UNCHANGED <<github, cursor, indexer, rows, page, refresh, from, late>>
    BY <1>4 DEF Load, Recompute, ComputeFails, history
  <2>2. UNCHANGED <<activity, inputs>>
    BY <2>1 DEF github, rows
  <2>3. /\ at' \in [Computes -> {"idle", "load", "write"}]
        /\ got' \in [Computes -> [People -> Nat]]
        /\ todo' \in [Computes -> SUBSET known]
        /\ upsets' \in 0..MaxUpsets /\ torn' \in BOOLEAN
    <3>1. CASE Load(k)
      BY <3>1 DEF Load, TypeOK, Counted, history
    <3>2. CASE Recompute(k)
      BY <3>2 DEF Recompute, TypeOK, history
    <3>3. CASE ComputeFails(k)
      BY <3>3 DEF ComputeFails, TypeOK
    <3> QED
      BY <1>4, <3>1, <3>2, <3>3
  <2> QED
    BY <2>1, <2>2, <2>3, BoundKept DEF TypeOK, github, indexer, rows, refresh
<1>5. ASSUME NEW k \in Computes, NEW p \in People, WriteScore(k, p) PROVE TypeOK'
  <2>1. UNCHANGED <<activity, inputs>>
    BY <1>5 DEF WriteScore, github
  <2>2. p \in known
    BY <1>5 DEF WriteScore, TypeOK
  <2>3. score' \in [People -> Nat] /\ \A q \in People \ known : score'[q] = score[q]
    BY <1>5, <2>2 DEF WriteScore, TypeOK
  <2>4. got' \in [Computes -> [People -> Nat]] /\ todo' \in [Computes -> SUBSET known]
    BY <1>5 DEF WriteScore, TypeOK
  <2> QED
    BY <1>5, <2>1, <2>3, <2>4, BoundKept DEF WriteScore, TypeOK, github, indexer, refresh, history
<1>6. ASSUME NEW k \in Computes, Assign(k) PROVE TypeOK'
  <2>1. UNCHANGED <<activity, inputs>>
    BY <1>6 DEF Assign, github
  <2>2. rank' \in [People -> Nat] /\ \A q \in People \ known : rank'[q] = rank[q]
    <3>1. PICK r \in Rankings(score, Counted) :
            rank' = [p \in People |-> IF p \in Counted THEN r[p] ELSE rank[p]]
      BY <1>6 DEF Assign
    <3>2. Counted \in SUBSET People
      BY DEF Counted, TypeOK
    <3>3. r \in [People -> Nat]
      BY <3>1, <3>2, RankingsRank
    <3> QED
      BY <3>1, <3>3 DEF Counted, TypeOK
  <2>3. at' \in [Computes -> {"idle", "load", "write"}] /\ torn' \in BOOLEAN
    BY <1>6 DEF Assign, TypeOK
  <2>4. UNCHANGED <<github, cursor, indexer, known, inputs, score, excluded, got, todo, page,
                    refresh, upsets, from, late>>
    BY <1>6 DEF Assign
  <2> QED
    BY <2>1, <2>2, <2>3, <2>4, BoundKept DEF TypeOK, github, indexer, refresh
<1>7. CASE ReadPage \/ Reclassify
  <2>1. UNCHANGED <<activity, inputs>>
    BY <1>7 DEF ReadPage, Reclassify, github, rows
  <2>2. /\ UNCHANGED <<github, cursor, indexer, known, inputs, score, rank, compute, refresh, upsets,
                       history>>
        /\ excluded' \subseteq known /\ page' \subseteq known
    BY <1>7 DEF ReadPage, Reclassify, rows, Counted, TypeOK
  <2> QED
    BY <2>1, <2>2, BoundKept DEF TypeOK, github, indexer, compute, refresh, history
<1>8. ASSUME NEW f \in Refreshes, List(f) PROVE TypeOK'
  <2>1. PICK l \in Lists : \E r \in Rankings(l.n, {p \in People \ Vendors : l.n[p] > 0}) :
          /\ listed' = [listed EXCEPT ![f] = l.of]
          /\ count' = [count EXCEPT ![f] = l.n]
          /\ place' = [place EXCEPT ![f] = [p \in People |-> IF r[p] <= TopN THEN r[p] ELSE 0]]
    BY <1>8 DEF List
  <2>2. PICK r \in Rankings(l.n, {p \in People \ Vendors : l.n[p] > 0}) :
          place' = [place EXCEPT ![f] = [p \in People |-> IF r[p] <= TopN THEN r[p] ELSE 0]]
    BY <2>1
  <2>3. l.of \subseteq activity /\ l.n \in [People -> Nat]
    BY ListsCount
  <2>4. r \in [People -> Nat]
    <3>1. {p \in People \ Vendors : l.n[p] > 0} \in SUBSET People
      OBVIOUS
    <3> QED
      BY <3>1, RankingsRank
  <2>5. place' \in [Refreshes -> [People -> Nat]]
    BY <2>2, <2>4 DEF TypeOK
  <2>6. listed' \in [Refreshes -> SUBSET activity] /\ count' \in [Refreshes -> [People -> Nat]]
    BY <2>1, <2>3 DEF TypeOK
  <2>7. /\ upsets' \in 0..MaxUpsets /\ next' \in [Refreshes -> Nat]
        /\ stage' \in [Refreshes -> {"idle", "write", "over"}]
    BY <1>8 DEF List, TypeOK
  <2>8. UNCHANGED <<github, cursor, indexer, rows, compute, page, history>>
    BY <1>8 DEF List
  <2>9. /\ UNCHANGED <<known, inputs, score, excluded, from, late>>
        /\ torn' \in BOOLEAN /\ rank' \in [People -> Nat] /\ \A p \in People \ known : rank'[p] = 0
    BY <2>8 DEF TypeOK, rows, history
  <2> QED
    BY <2>5, <2>6, <2>7, <2>8, <2>9, RefreshTypes
<1>9. ASSUME NEW f \in Refreshes, NEW p \in People, WriteRow(f, p) PROVE TypeOK'
  <2>1. activity' = activity /\ count[f][p] \in Nat /\ place[f][p] \in Nat
    BY <1>9 DEF WriteRow, TypeOK, github
  <2>2. Bound(p, count[f][p])
    <3>1. Of(p, listed[f]) \subseteq Of(p, activity) /\ Of(p, activity) \subseteq activity
      BY DEF Of, TypeOK
    <3>2. /\ Cardinality(Of(p, listed[f])) \in Nat /\ Cardinality(Of(p, activity)) \in Nat
          /\ Cardinality(Of(p, listed[f])) <= Cardinality(Of(p, activity))
      BY <3>1, PartsCount
    <3>3. Old[p] \in Nat
      OBVIOUS
    <3> QED
      BY <2>1, <3>2, <3>3 DEF Listing, Bound
  <2>3. \A q \in People : inputs'[q] \in Nat /\ Bound(q, inputs'[q])
    BY <1>9, <2>1, <2>2, InputsBounded DEF WriteRow, TypeOK
  <2>4. \A q \in People : \/ inputs'[q] <= Old[q] + Cardinality({a \in activity' : a[1] = q})
                          \/ q = Owner /\ inputs'[q] = 1
    BY <2>1, <2>3 DEF Of, Bound
  <2>5. /\ inputs' \in [People -> Nat] /\ score' \in [People -> Nat] /\ rank' \in [People -> Nat]
        /\ \A q \in People \ known' : inputs'[q] = 0 /\ score'[q] = 0 /\ rank'[q] = 0
    BY <1>9, <2>1 DEF WriteRow, TypeOK
  <2>6. known \subseteq known' /\ known' \subseteq People /\ excluded' \subseteq known'
    BY <1>9 DEF WriteRow, TypeOK
  <2>7. /\ todo' \in [Computes -> SUBSET known'] /\ page' \subseteq known'
        /\ at' \in [Computes -> {"idle", "load", "write"}]
        /\ got' \in [Computes -> [People -> Nat]]
    BY <1>9, <2>6 DEF WriteRow, TypeOK, compute
  <2>8. /\ next' \in [Refreshes -> Nat] /\ from' \in [People -> Times \cup {0}]
        /\ late' \subseteq activity' /\ torn' \in BOOLEAN
    BY <1>9, <2>1 DEF WriteRow, TypeOK, Of
  <2>9. UNCHANGED <<github, cursor, indexer, stage, listed, count, place, upsets>>
    BY <1>9 DEF WriteRow
  <2> QED
    BY <2>4, <2>5, <2>6, <2>7, <2>8, <2>9 DEF TypeOK, github, indexer
<1>10. ASSUME NEW f \in Refreshes, Demote(f) \/ RefreshDies(f) PROVE TypeOK'
  <2>1. /\ Leave(f)
        /\ UNCHANGED <<github, cursor, indexer, known, inputs, score, excluded, compute, page,
                       upsets, from, late>>
    BY <1>10 DEF Demote, RefreshDies, rows, history
  <2>2. rank' \in [People -> Nat] /\ \A p \in People \ known : rank'[p] = 0
    BY <1>10 DEF Demote, RefreshDies, rows, TypeOK
  <2>3. torn' \in BOOLEAN /\ upsets' \in 0..MaxUpsets
    BY <1>10, <2>1 DEF Demote, RefreshDies, history, TypeOK
  <2> QED
    BY <2>1, <2>2, <2>3, LeaveTypes, RefreshTypes
<1>11. CASE Tick
  <2>1. UNCHANGED <<activity, inputs>>
    BY <1>11 DEF Tick, rows
  <2> QED
    BY <1>11, <2>1, BoundKept DEF Tick, TypeOK, Times, indexer, rows, compute, refresh, history
<1>12. ASSUME NEW q \in People, NEW d \in Times \cup {0}, Act(q, d) PROVE TypeOK'
  <2>1. inputs' = inputs /\ activity' = activity \cup {<<q, d>>}
    BY <1>12 DEF Act, rows
  <2>2. ASSUME NEW p \in People
        PROVE  \/ inputs'[p] <= Old[p] + Cardinality({a \in activity' : a[1] = p})
               \/ p = Owner /\ inputs'[p] = 1
    <3>1. /\ Cardinality(Of(p, activity')) \in Nat
          /\ Cardinality(Of(p, activity)) <= Cardinality(Of(p, activity'))
      BY <1>12, ActivityGrows
    <3>2. Bound(p, inputs[p])
      BY InputsBounded
    <3>3. inputs[p] \in Nat /\ Old[p] \in Nat /\ Cardinality(Of(p, activity)) \in Nat
      BY FiniteActivity DEF TypeOK
    <3>4. \/ inputs[p] <= Old[p] + Cardinality(Of(p, activity'))
          \/ p = Owner /\ inputs[p] = 1
      BY <3>1, <3>2, <3>3 DEF Bound
    <3> QED
      BY <2>1, <3>4 DEF Of
  <2>3. /\ activity' \subseteq People \X (Times \cup {0}) /\ taken' \subseteq activity'
        /\ late' \subseteq activity' /\ listed' \in [Refreshes -> SUBSET activity']
    BY <1>12, <2>1 DEF Act, TypeOK, indexer, refresh
  <2>4. UNCHANGED <<now, cursor, indexer, rows, compute, page, refresh, upsets, from, torn>>
    BY <1>12 DEF Act
  <2> QED
    BY <2>2, <2>3, <2>4 DEF TypeOK, indexer, rows, compute, refresh
<1>13. CASE UNCHANGED vars
  <2>1. UNCHANGED <<activity, inputs>>
    BY <1>13 DEF vars, github, rows
  <2> QED
    BY <1>13, <2>1, BoundKept DEF vars, TypeOK, github, indexer, rows, compute, refresh, history
<1> QED
  BY <1>1, <1>2, <1>3, <1>4, <1>5, <1>6, <1>7, <1>8, <1>9, <1>10, <1>11, <1>12, <1>13
     DEF Next, IndexStep, ComputeStep

\* Only one refresh moves, and it still holds what a list gives.
LEMMA ListingKept ==
    ASSUME Listing, NEW f \in Refreshes,
           \A g \in Refreshes \ {f} :
               /\ stage'[g] = stage[g] /\ listed'[g] = listed[g] /\ count'[g] = count[g]
               /\ place'[g] = place[g] /\ next'[g] = next[g],
           stage'[f] = "write" <=> next'[f] > 0,
           \A p \in People : /\ count'[f][p] >= Cardinality(Of(p, listed'[f]))
                             /\ \/ count'[f][p] <= Old[p] + Cardinality(Of(p, listed'[f]))
                                \/ p = Owner /\ count'[f][p] = 1,
           \A p, q \in People :
               place'[f][p] > 0 /\ place'[f][q] > 0 =>
                   /\ place'[f][p] = place'[f][q] => p = q
                   /\ count'[f][p] > count'[f][q] => place'[f][p] < place'[f][q]
    PROVE  Listing'
<1>1. SUFFICES ASSUME NEW g \in Refreshes
      PROVE  /\ stage'[g] = "write" <=> next'[g] > 0
             /\ \A p \in People :
                    /\ count'[g][p] >= Cardinality(Of(p, listed'[g]))
                    /\ \/ count'[g][p] <= Old[p] + Cardinality(Of(p, listed'[g]))
                       \/ p = Owner /\ count'[g][p] = 1
             /\ \A p, q \in People :
                    place'[g][p] > 0 /\ place'[g][q] > 0 =>
                        /\ place'[g][p] = place'[g][q] => p = q
                        /\ count'[g][p] > count'[g][q] => place'[g][p] < place'[g][q]
  BY DEF Listing, Of
<1>2. CASE g = f
  BY <1>2
<1>3. CASE g # f
  BY <1>3 DEF Listing
<1> QED
  BY <1>2, <1>3

\* What a refresh holds stays as it is, but in its own steps.
LEMMA ListingStep == TypeOK /\ Listing /\ [Next]_vars => Listing'
<1> SUFFICES ASSUME TypeOK, Listing, [Next]_vars PROVE Listing'
  OBVIOUS
<1>1. CASE UNCHANGED refresh
  BY <1>1 DEF Listing, refresh, Of
<1>2. ASSUME NEW f \in Refreshes, List(f) PROVE Listing'
  <2>1. PICK l \in Lists : \E r \in Rankings(l.n, {p \in People \ Vendors : l.n[p] > 0}) :
          /\ listed' = [listed EXCEPT ![f] = l.of]
          /\ count' = [count EXCEPT ![f] = l.n]
          /\ place' = [place EXCEPT ![f] = [p \in People |-> IF r[p] <= TopN THEN r[p] ELSE 0]]
    BY <1>2 DEF List
  <2> DEFINE S == {p \in People \ Vendors : l.n[p] > 0}
  <2>2. PICK r \in Rankings(l.n, S) :
          place' = [place EXCEPT ![f] = [p \in People |-> IF r[p] <= TopN THEN r[p] ELSE 0]]
    BY <2>1
  <2>3. S \in SUBSET People
    OBVIOUS
  <2> HIDE DEF S
  <2>4. /\ r \in [People -> Nat]
        /\ \A p, q \in S : /\ p # q => r[p] # r[q]
                           /\ l.n[p] > l.n[q] => r[p] < r[q]
        /\ \A p \in People : r[p] = 0 <=> p \notin S
    BY <2>3, RankingsRank
  <2>5. \A p \in People : place'[f][p] > 0 => p \in S /\ place'[f][p] = r[p]
    BY <2>2, <2>4 DEF TypeOK
  <2>6. count'[f] = l.n /\ listed'[f] = l.of /\ next'[f] = 1 /\ stage'[f] = "write"
    BY <1>2, <2>1 DEF TypeOK, List
  <2>7. \A p \in People : /\ count'[f][p] >= Cardinality(Of(p, listed'[f]))
                          /\ \/ count'[f][p] <= Old[p] + Cardinality(Of(p, listed'[f]))
                             \/ p = Owner /\ count'[f][p] = 1
    BY <2>6, ListsCount
  <2>8. \A p, q \in People :
            place'[f][p] > 0 /\ place'[f][q] > 0 =>
                /\ place'[f][p] = place'[f][q] => p = q
                /\ count'[f][p] > count'[f][q] => place'[f][p] < place'[f][q]
    BY <2>4, <2>5, <2>6
  <2>9. \A g \in Refreshes \ {f} :
            /\ stage'[g] = stage[g] /\ listed'[g] = listed[g] /\ count'[g] = count[g]
            /\ place'[g] = place[g] /\ next'[g] = next[g]
    BY <1>2, <2>1 DEF List, TypeOK
  <2>10. stage'[f] = "write" <=> next'[f] > 0
    BY <2>6
  <2> QED
    BY <2>7, <2>8, <2>9, <2>10, ListingKept
<1>3. ASSUME NEW f \in Refreshes, NEW p \in People, WriteRow(f, p) PROVE Listing'
  <2>1. UNCHANGED <<stage, listed, count, place>>
    BY <1>3 DEF WriteRow
  <2>2. \A g \in Refreshes : next'[g] > 0 <=> next[g] > 0
    BY <1>3 DEF WriteRow, TypeOK, Listing
  <2> QED
    BY <2>1, <2>2 DEF Listing, Of
<1>4. ASSUME NEW f \in Refreshes, Demote(f) \/ RefreshDies(f) PROVE Listing'
  <2>1. Leave(f)
    BY <1>4 DEF Demote, RefreshDies
  <2>2. /\ stage'[f] = "over" /\ next'[f] = 0 /\ listed'[f] = {}
        /\ \A p \in People : count'[f][p] = 0 /\ place'[f][p] = 0
    BY <2>1 DEF Leave, TypeOK
  <2>3. \A p : Cardinality(Of(p, {})) = 0
    <3>1. \A p : Of(p, {}) = {}
      BY DEF Of
    <3> QED
      BY <3>1, FS_EmptySet
  <2>4. \A p \in People : /\ count'[f][p] >= Cardinality(Of(p, listed'[f]))
                          /\ count'[f][p] <= Old[p] + Cardinality(Of(p, listed'[f]))
    <3>1. \A p \in People : Old[p] \in Nat
      OBVIOUS
    <3> QED
      BY <2>2, <2>3, <3>1
  <2>5. \A g \in Refreshes \ {f} :
            /\ stage'[g] = stage[g] /\ listed'[g] = listed[g] /\ count'[g] = count[g]
            /\ place'[g] = place[g] /\ next'[g] = next[g]
    BY <2>1 DEF Leave, TypeOK
  <2>6. /\ stage'[f] = "write" <=> next'[f] > 0
        /\ \A p \in People : ~(place'[f][p] > 0)
    BY <2>2
  <2> QED
    BY <2>4, <2>5, <2>6, ListingKept
<1> QED
  BY <1>1, <1>2, <1>3, <1>4
     DEF Next, IndexStep, Begin, Fetch, Upsert, Mark, Start, IndexFails, ComputeStep, Load, WriteScore,
         Assign, Recompute, ComputeFails, ReadPage, Reclassify, Tick, Act, vars

LEMMA AgentsStep == TypeOK /\ AgentsOnly /\ [Next]_vars => AgentsOnly'
<1> SUFFICES ASSUME TypeOK, AgentsOnly, [Next]_vars PROVE AgentsOnly'
  OBVIOUS
<1>1. CASE IndexStep \/ IndexFails
  BY <1>1 DEF AgentsOnly, IndexStep, Begin, Fetch, Upsert, Mark, Start, IndexFails, rows
<1>2. ASSUME NEW k \in Computes, ComputeStep(k) \/ Recompute(k) \/ ComputeFails(k)
      PROVE  AgentsOnly'
  BY <1>2 DEF AgentsOnly, ComputeStep, Load, WriteScore, Assign, Recompute, ComputeFails, rows
<1>3. CASE ReadPage \/ Reclassify \/ Tick
  BY <1>3 DEF AgentsOnly, ReadPage, Reclassify, Tick, rows
<1>4. ASSUME NEW p \in People, NEW d, Act(p, d) PROVE AgentsOnly'
  BY <1>4 DEF AgentsOnly, Act, rows
<1>5. ASSUME NEW f \in Refreshes,
             List(f) \/ (\E p \in People : WriteRow(f, p)) \/ Demote(f) \/ RefreshDies(f)
      PROVE  AgentsOnly'
  BY <1>5 DEF AgentsOnly, List, WriteRow, Demote, RefreshDies, rows
<1>6. CASE UNCHANGED vars
  BY <1>6 DEF AgentsOnly, vars, rows
<1> QED
  BY <1>1, <1>2, <1>3, <1>4, <1>5, <1>6 DEF Next

\* A step that leaves scores and ranks alone, and adds only people without a
\* rank, leaves a sorted board sorted.
LEMMA SortedKept ==
    ASSUME TypeOK, Sorted, UNCHANGED <<score, rank>>,
           \A p \in known' \ known : p \in People
    PROVE  Sorted'
<1> SUFFICES ASSUME NEW p \in known' \ Vendors, NEW q \in known' \ Vendors,
                    score[p] > score[q], rank[p] > 0, rank[q] > 0
             PROVE  rank[p] < rank[q]
  BY DEF Sorted
<1>1. p \in known /\ q \in known
  BY DEF TypeOK
<1> QED
  BY <1>1 DEF Sorted

\* One statement ranks every row that counts.
LEMMA AssignSorts ==
    ASSUME TypeOK, AgentsOnly, NEW k \in Computes, Assign(k)
    PROVE  Sorted'
<1>1. PICK r \in Rankings(score, Counted) :
        rank' = [p \in People |-> IF p \in Counted THEN r[p] ELSE rank[p]]
  BY DEF Assign
<1>2. score' = score /\ known' = known
  BY DEF Assign
<1>3. SUFFICES ASSUME NEW p \in known \ Vendors, NEW q \in known \ Vendors, score[p] > score[q]
               PROVE  rank'[p] < rank'[q]
  BY <1>2 DEF Sorted
<1>4. p \in Counted /\ q \in Counted /\ p \in People /\ q \in People
  BY DEF Counted, AgentsOnly, TypeOK
<1>5. r[p] < r[q]
  <2>1. Counted \in SUBSET People
    BY DEF Counted, TypeOK
  <2> QED
    BY <1>1, <1>3, <1>4, <2>1, RankingsRank
<1> QED
  BY <1>1, <1>4, <1>5

\* A refresh by itself leaves only rows that it ranked, or the ranks it found.
LEMMA DemoteSorts ==
    ASSUME TypeOK, Listing, Solo, Calm, NEW f \in Refreshes, Demote(f), Half(f)
    PROVE  Sorted'
<1>1. /\ score' = score /\ known' = known
      /\ rank' = [p \in People |-> IF place[f][p] = 0 THEN 0 ELSE rank[p]]
      /\ \A p \in People : place[f][p] < next[f]
  BY DEF Demote
<1>2. \A p \in People : place[f][p] > 0 => score[p] = count[f][p] /\ rank[p] = place[f][p]
  BY <1>1 DEF Solo
<1>3. SUFFICES ASSUME NEW p \in known, NEW q \in known, score[p] > score[q],
                      rank'[p] > 0, rank'[q] > 0
               PROVE  rank'[p] < rank'[q]
  BY <1>1 DEF Sorted
<1>4. p \in People /\ q \in People
  BY DEF TypeOK
<1>5. place[f][p] > 0 /\ place[f][q] > 0
  BY <1>1, <1>3, <1>4 DEF TypeOK
<1>6. count[f][p] > count[f][q] /\ rank'[p] = place[f][p] /\ rank'[q] = place[f][q]
  BY <1>1, <1>2, <1>3, <1>4, <1>5
<1> QED
  BY <1>4, <1>5, <1>6 DEF Listing

\* A step that calms nothing and leaves scores, ranks and what is half done alone.
LEMMA RankedKept ==
    ASSUME TypeOK, Ranked, UNCHANGED <<score, rank>>, \A p \in known' \ known : p \in People,
           Calm' => Calm, \A f \in Refreshes : Calm' /\ Half(f) => Half(f)'
    PROVE  Ranked'
BY SortedKept DEF Ranked

LEMMA RankedStep ==
    TypeOK /\ AgentsOnly /\ Listing /\ Solo /\ Ranked /\ [Next]_vars => Ranked'
<1> SUFFICES ASSUME TypeOK, AgentsOnly, Listing, Solo, Ranked, [Next]_vars PROVE Ranked'
  OBVIOUS
<1>1. CASE IndexStep \/ IndexFails \/ ReadPage \/ Reclassify \/ Tick
           \/ (\E p \in People, d \in Times \cup {0} : Act(p, d)) \/ UNCHANGED vars
  <2>1. UNCHANGED <<score, rank, torn, refresh>>
    BY <1>1 DEF IndexStep, Begin, Fetch, Upsert, Mark, Start, IndexFails, ReadPage, Reclassify,
                Tick, Act, vars, rows, history
  <2>2. \A p \in known' \ known : p \in People
    BY <1>1 DEF IndexStep, Begin, Fetch, Upsert, Mark, Start, IndexFails, ReadPage, Reclassify,
                Tick, Act, vars, rows, Batch
  <2>3. \A j \in Computes : at[j] = "write" => at'[j] = "write"
    BY <1>1 DEF IndexStep, Begin, Fetch, Upsert, Mark, Start, IndexFails, ReadPage, Reclassify,
                Tick, Act, vars, compute, TypeOK
  <2> QED
    BY <2>1, <2>2, <2>3, RankedKept DEF Calm, Half, refresh
<1>2. ASSUME NEW k \in Computes, Load(k) PROVE Ranked'
  BY <1>2 DEF Ranked, Calm, Load, TypeOK
<1>3. ASSUME NEW k \in Computes, NEW p \in People, WriteScore(k, p) PROVE Ranked'
  BY <1>3 DEF Ranked, Calm, WriteScore
<1>4. ASSUME NEW k \in Computes, Assign(k) PROVE Ranked'
  BY <1>4, AssignSorts DEF Ranked
<1>5. ASSUME NEW k \in Computes, Recompute(k) PROVE Ranked'
  <2>1. UNCHANGED <<score, rank, torn, known, refresh>>
    BY <1>5 DEF Recompute, rows, history
  <2>2. \A j \in Computes : at[j] = "write" => at'[j] = "write"
    BY <1>5 DEF Recompute, TypeOK
  <2> QED
    BY <2>1, <2>2, RankedKept DEF Calm, Half, refresh
<1>6. ASSUME NEW k \in Computes, ComputeFails(k) PROVE Ranked'
  <2>1. UNCHANGED <<score, rank, known, refresh>> /\ torn' = (torn \/ at[k] = "write")
    BY <1>6 DEF ComputeFails, rows
  <2>2. CASE at[k] = "write"
    BY <2>1, <2>2 DEF Ranked, Calm
  <2>3. CASE at[k] # "write"
    <3>1. \A j \in Computes : at[j] = "write" => at'[j] = "write"
      BY <1>6, <2>3 DEF ComputeFails, TypeOK
    <3> QED
      BY <2>1, <3>1, RankedKept DEF Calm, Half, refresh
  <2> QED
    BY <2>2, <2>3
<1>7. ASSUME NEW f \in Refreshes, List(f) PROVE Ranked'
  <2>1. UNCHANGED <<score, rank, torn, known, at>> /\ stage[f] = "idle"
    BY <1>7 DEF List, rows, compute, history
  <2>2. ~Half(f) /\ \A g \in Refreshes \ {f} : next'[g] = next[g]
    BY <1>7, <2>1 DEF List, Listing, Half, TypeOK
  <2> QED
    BY <2>1, <2>2, RankedKept DEF Calm, Half
<1>8. ASSUME NEW f \in Refreshes, NEW p \in People, WriteRow(f, p) PROVE Ranked'
  <2>1. next[f] \in Nat /\ next[f] > 0 /\ next'[f] = next[f] + 1
    BY <1>8 DEF WriteRow, Listing, TypeOK
  <2> QED
    BY <2>1 DEF Ranked, Half
<1>9. ASSUME NEW f \in Refreshes, Demote(f) PROVE Ranked'
  <2>1. UNCHANGED <<score, torn, known, at>> /\ \A g \in Refreshes \ {f} : next'[g] = next[g]
    BY <1>9 DEF Demote, Leave, compute, history, TypeOK
  <2>2. CASE Half(f) /\ Calm
    BY <1>9, <2>2, DemoteSorts DEF Ranked
  <2>3. CASE Half(f) /\ ~Calm
    BY <2>1, <2>3 DEF Ranked, Calm
  <2>4. CASE ~Half(f)
    <3>1. rank' = rank
      BY <1>9, <2>4 DEF Demote
    <3> QED
      BY <2>1, <2>4, <3>1, RankedKept DEF Calm, Half
  <2> QED
    BY <2>2, <2>3, <2>4
<1>10. ASSUME NEW f \in Refreshes, RefreshDies(f) PROVE Ranked'
  <2>1. /\ UNCHANGED <<score, rank, known, at>> /\ torn' = (torn \/ Half(f))
        /\ \A g \in Refreshes \ {f} : next'[g] = next[g]
    BY <1>10 DEF RefreshDies, Leave, rows, compute, TypeOK
  <2>2. (Calm' => Calm) /\ \A g \in Refreshes : Calm' /\ Half(g) => Half(g)'
    BY <2>1 DEF Calm, Half
  <2> QED
    BY <2>1, <2>2, RankedKept
<1> QED
  BY <1>1, <1>2, <1>3, <1>4, <1>5, <1>6, <1>7, <1>8, <1>9, <1>10 DEF Next, ComputeStep

\* A step that calms nothing, leaves scores and ranks alone and lets no refresh
\* get further.
LEMMA SoloKept ==
    ASSUME Solo, UNCHANGED <<score, rank>>, known \subseteq known', Calm' => Calm,
           \A f \in Refreshes : Half(f)' =>
               Half(f) /\ next'[f] = next[f] /\ place'[f] = place[f] /\ count'[f] = count[f]
    PROVE  Solo'
BY DEF Solo

LEMMA SoloStep == TypeOK /\ Listing /\ Solo /\ [Next]_vars => Solo'
<1> SUFFICES ASSUME TypeOK, Listing, Solo, [Next]_vars PROVE Solo'
  OBVIOUS
<1>1. CASE IndexStep \/ IndexFails \/ ReadPage \/ Reclassify \/ Tick
           \/ (\E p \in People, d \in Times \cup {0} : Act(p, d)) \/ UNCHANGED vars
  <2>1. UNCHANGED <<score, rank, torn, count, place, next>> /\ known \subseteq known'
    BY <1>1 DEF IndexStep, Begin, Fetch, Upsert, Mark, Start, IndexFails, ReadPage, Reclassify,
                Tick, Act, vars, rows, history, refresh
  <2>2. \A j \in Computes : at[j] = "write" => at'[j] = "write"
    BY <1>1 DEF IndexStep, Begin, Fetch, Upsert, Mark, Start, IndexFails, ReadPage, Reclassify,
                Tick, Act, vars, compute, TypeOK
  <2> QED
    BY <2>1, <2>2, SoloKept DEF Calm, Half
<1>2. ASSUME NEW k \in Computes, Load(k) \/ (\E p \in People : WriteScore(k, p)) PROVE Solo'
  BY <1>2 DEF Solo, Calm, Load, WriteScore, TypeOK
<1>3. ASSUME NEW k \in Computes, Assign(k) PROVE Solo'
  <2>1. next' = next /\ torn' = (\E f \in Refreshes : Half(f))
    BY <1>3 DEF Assign, refresh
  <2> QED
    BY <2>1 DEF Solo, Calm, Half
<1>4. ASSUME NEW k \in Computes, Recompute(k) \/ ComputeFails(k) PROVE Solo'
  <2>1. UNCHANGED <<score, rank, known, count, place, next>>
    BY <1>4 DEF Recompute, ComputeFails, rows, refresh
  <2>2. Calm' => Calm
    BY <1>4 DEF Recompute, ComputeFails, Calm, history, TypeOK
  <2> QED
    BY <2>1, <2>2, SoloKept DEF Half
<1>5. ASSUME NEW f \in Refreshes, List(f) PROVE Solo'
  <2>1. UNCHANGED <<score, rank, torn, known, at>>
    BY <1>5 DEF List, rows, compute, history
  <2>2. next'[f] = 1 /\ \A g \in Refreshes \ {f} :
                           next'[g] = next[g] /\ place'[g] = place[g] /\ count'[g] = count[g]
    BY <1>5 DEF List, TypeOK
  <2> QED
    BY <2>1, <2>2, SoloKept DEF Calm, Half
<1>6. ASSUME NEW f \in Refreshes, NEW p \in People, WriteRow(f, p) PROVE Solo'
  <2>1. SUFFICES ASSUME Calm' PROVE \A g \in Refreshes : Half(g)' =>
            /\ \A h \in Refreshes : Half(h)' => h = g
            /\ \A q \in People : place[g][q] > 0 /\ place[g][q] < next'[g] =>
                   q \in known' /\ score'[q] = count[g][q] /\ rank'[q] = place[g][q]
    BY <1>6 DEF Solo, WriteRow
  <2>2. Calm /\ \A g \in Refreshes \ {f} : ~Half(g)
    BY <1>6, <2>1 DEF Calm, WriteRow, compute
  <2>3. \A g \in Refreshes \ {f} : ~(Half(g)')
    BY <1>6, <2>2 DEF WriteRow, Half, TypeOK
  <2>4. ASSUME NEW q \in People, place[f][q] > 0, place[f][q] < next'[f]
        PROVE  q \in known' /\ score'[q] = count[f][q] /\ rank'[q] = place[f][q]
    <3>1. CASE q = p
      BY <1>6, <3>1 DEF WriteRow, TypeOK
    <3>2. CASE q # p
      <4>1. place[f][q] # place[f][p] /\ place[f][p] = next[f] /\ next'[f] = next[f] + 1
        BY <1>6, <2>4, <3>2 DEF WriteRow, Listing, TypeOK
      <4>2. place[f][q] < next[f] /\ Half(f)
        <5>1. place[f][q] \in Nat /\ next[f] \in Nat
          BY DEF TypeOK
        <5> QED
          BY <2>4, <4>1, <5>1 DEF Half
      <4>3. q \in known /\ score[q] = count[f][q] /\ rank[q] = place[f][q]
        BY <2>2, <2>4, <4>2 DEF Solo
      <4> QED
        BY <1>6, <3>2, <4>3 DEF WriteRow, TypeOK
    <3> QED
      BY <3>1, <3>2
  <2> QED
    BY <2>3, <2>4
<1>7. ASSUME NEW f \in Refreshes, Demote(f) \/ RefreshDies(f) PROVE Solo'
  <2>1. /\ UNCHANGED <<score, known, at>> /\ next'[f] = 0
        /\ \A g \in Refreshes \ {f} :
               next'[g] = next[g] /\ place'[g] = place[g] /\ count'[g] = count[g]
    BY <1>7 DEF Demote, RefreshDies, Leave, rows, compute, TypeOK
  <2>2. Calm' => Calm
    BY <1>7, <2>1 DEF Demote, RefreshDies, Calm, history
  <2>3. CASE rank' = rank
    BY <2>1, <2>2, <2>3, SoloKept DEF Half
  <2>4. CASE rank' # rank
    <3>1. Half(f)
      BY <1>7, <2>4 DEF Demote, RefreshDies, rows
    <3>2. Calm => \A g \in Refreshes : Half(g) => g = f
      BY <3>1 DEF Solo
    <3>3. Calm' => \A g \in Refreshes : ~(Half(g)')
      BY <2>1, <2>2, <3>2 DEF Half
    <3> QED
      BY <3>3 DEF Solo
  <2> QED
    BY <2>3, <2>4
<1> QED
  BY <1>1, <1>2, <1>3, <1>4, <1>5, <1>6, <1>7 DEF Next, ComputeStep

\* The clock, GitHub, the indexer, the inputs and the histories decide Fetched.
LEMMA FetchedKept ==
    ASSUME Fetched,
           UNCHANGED <<now, activity, cursor, ix, since, taken, allTime, inputs, from, late>>
    PROVE  Fetched'
<1>1. \A p \in People : Span(p)' = Span(p) /\ Since(p)' = Since(p)
  BY DEF Span, Since, Of
<1> QED
  BY <1>1 DEF Fetched

\* What has to be counted gets less, or no more, and it was counted.
LEMMA SpanCount ==
    ASSUME TypeOK, Fetched, NEW p \in People, Span(p)' \subseteq Span(p), inputs'[p] = inputs[p]
    PROVE  inputs'[p] >= Cardinality(Span(p)')
<1>1. Span(p) \subseteq activity
  BY DEF Span, Of
<1>2. /\ Cardinality(Span(p)') \in Nat /\ Cardinality(Span(p)) \in Nat
      /\ Cardinality(Span(p)') <= Cardinality(Span(p))
  BY <1>1, PartsCount
<1>3. inputs[p] \in Nat /\ inputs[p] >= Cardinality(Span(p))
  BY DEF Fetched, TypeOK
<1> QED
  BY <1>2, <1>3

LEMMA SinceCount ==
    ASSUME TypeOK, NEW p \in People, Since(p)' \subseteq Since(p), inputs'[p] = inputs[p],
           inputs[p] >= Cardinality(Since(p))
    PROVE  inputs'[p] >= Cardinality(Since(p)')
<1>1. Since(p) \subseteq activity
  BY DEF Since, Of
<1>2. /\ Cardinality(Since(p)') \in Nat /\ Cardinality(Since(p)) \in Nat
      /\ Cardinality(Since(p)') <= Cardinality(Since(p))
  BY <1>1, PartsCount
<1>3. inputs[p] \in Nat
  BY DEF TypeOK
<1> QED
  BY <1>2, <1>3

\* After the upsert every row counts what there was from its start on.
LEMMA UpsertCounts ==
    ASSUME TypeOK, Fetched, Upsert, NEW p \in People
    PROVE  inputs'[p] >= Cardinality(Since(p)')
<1>1. /\ UNCHANGED <<activity, late>> /\ ix = "upsert" /\ since = cursor
      /\ \A a \in activity \ late : allTime \/ a[2] >= cursor => a \in taken
  BY DEF Upsert, github, Fetched
<1>2. /\ inputs'[p] = IF p \in Batch THEN Aggregate(p) ELSE inputs[p]
      /\ from'[p] = IF p \notin Batch THEN from[p] ELSE IF allTime THEN 0 ELSE since
  BY DEF Upsert
<1>3. /\ cursor \in Nat /\ from[p] \in Nat /\ inputs[p] \in Nat /\ Old[p] \in Nat
      /\ \A a \in activity : a[2] \in Nat
  BY DEF TypeOK, Times
<1>4. Since(p)' \subseteq activity /\ Of(p, taken) \subseteq activity /\ Span(p) \subseteq activity
  BY <1>1 DEF Since, Span, Of, TypeOK
<1>5. IsFiniteSet(Of(p, taken)) /\ Cardinality(Of(p, taken)) \in Nat
  BY <1>4, FiniteActivity, FS_Subset, FS_CardinalityType
<1>6. CASE p \in Batch
  <2>1. Since(p)' \subseteq Of(p, taken)
    BY <1>1, <1>2, <1>3, <1>6 DEF Since, Of
  <2>2. /\ Cardinality(Since(p)') \in Nat
        /\ Cardinality(Since(p)') <= Cardinality(Of(p, taken))
    BY <1>4, <2>1, PartsCount
  <2>3. inputs'[p] = Cardinality(Of(p, taken)) + (IF allTime THEN Old[p] ELSE 0)
    BY <1>2, <1>6 DEF Aggregate
  <2> QED
    BY <1>3, <1>5, <2>2, <2>3
<1>7. CASE p \notin Batch
  <2>1. ~(Aggregate(p) > 0)
    BY <1>7 DEF Batch
  <2>2. Cardinality(Of(p, taken)) = 0
    BY <1>3, <1>5, <2>1 DEF Aggregate
  <2>3. Of(p, taken) = {}
    BY <1>5, <2>2, FS_EmptySet
  <2>4. \A a \in Of(p, activity) \ late : a \in activity /\ a \notin taken
    BY <2>3 DEF Of
  <2>5. Since(p)' \subseteq Span(p)
    BY <1>1, <1>2, <1>3, <1>7, <2>4 DEF Since, Span, Of
  <2>6. /\ Cardinality(Since(p)') \in Nat /\ Cardinality(Span(p)) \in Nat
        /\ Cardinality(Since(p)') <= Cardinality(Span(p))
    BY <1>4, <2>5, PartsCount
  <2>7. inputs'[p] = inputs[p] /\ inputs[p] >= Cardinality(Span(p))
    BY <1>2, <1>7 DEF Fetched
  <2> QED
    BY <1>3, <2>6, <2>7
<1> QED
  BY <1>6, <1>7

\* A refresh's row counts what its list names, and the rest is excepted.
LEMMA RowCounts ==
    ASSUME TypeOK, Listing, Fetched, NEW f \in Refreshes, NEW p \in People, WriteRow(f, p)
    PROVE  /\ inputs'[p] >= Cardinality(Span(p)')
           /\ inputs'[p] >= Cardinality(Since(p)')
<1>1. /\ inputs'[p] = count[f][p] /\ UNCHANGED <<activity, cursor>>
      /\ late' = late \cup (Of(p, activity) \ listed[f])
  BY DEF WriteRow, github, TypeOK
<1>2. Span(p)' \subseteq Of(p, listed[f]) /\ Since(p)' \subseteq Of(p, listed[f])
  BY <1>1 DEF Span, Since, Of
<1>3. Of(p, listed[f]) \subseteq activity
  BY DEF Of, TypeOK
<1>4. /\ Cardinality(Span(p)') \in Nat /\ Cardinality(Since(p)') \in Nat
      /\ Cardinality(Of(p, listed[f])) \in Nat
      /\ Cardinality(Span(p)') <= Cardinality(Of(p, listed[f]))
      /\ Cardinality(Since(p)') <= Cardinality(Of(p, listed[f]))
  BY <1>2, <1>3, PartsCount
<1>5. count[f][p] >= Cardinality(Of(p, listed[f])) /\ count[f][p] \in Nat
  BY DEF Listing, TypeOK
<1> QED
  BY <1>1, <1>4, <1>5

LEMMA FetchedStep == TypeOK /\ Listing /\ Fetched /\ [Next]_vars => Fetched'
<1> SUFFICES ASSUME TypeOK, Listing, Fetched, [Next]_vars PROVE Fetched'
  OBVIOUS
<1>0. /\ cursor \in Nat /\ now \in Nat /\ cursor <= now
      /\ \A a \in activity : a[2] \in Nat /\ a[2] <= now
      /\ \A p \in People : from[p] \in Nat /\ inputs[p] \in Nat
  BY DEF TypeOK, Times, Fetched
<1>1. CASE Begin \/ Fetch \/ Start \/ IndexFails
  <2>1. UNCHANGED <<now, activity, cursor, inputs, from, late>>
    BY <1>1 DEF Begin, Fetch, Start, IndexFails, github, rows, history
  <2>2. \A p \in People : Span(p)' = Span(p)
    BY <2>1 DEF Span, Of
  <2>3. /\ (ix \in {"fetch", "upsert"} => since = cursor)'
        /\ (ix # "mark")'
    BY <1>1, <2>1 DEF Begin, Fetch, Start, IndexFails, Fetched
  <2>4. (ix = "upsert" => \A a \in activity \ late : allTime \/ a[2] >= cursor => a \in taken)'
    BY <1>1, <2>1, <1>0 DEF Begin, Fetch, Start, IndexFails, Fetched
  <2> QED
    BY <1>0, <2>1, <2>2, <2>3, <2>4 DEF Fetched
<1>2. CASE Upsert
  <2>1. UNCHANGED <<now, activity, cursor, late>> /\ ix' = "mark"
    BY <1>2 DEF Upsert, github
  <2>2. \A p \in People : inputs'[p] >= Cardinality(Since(p)')
    BY <1>2, UpsertCounts
  <2>3. ASSUME NEW p \in People PROVE inputs'[p] >= Cardinality(Span(p)')
    <3>1. Span(p)' \subseteq Since(p)' /\ Since(p)' \subseteq activity
      BY <2>1 DEF Span, Since, Of
    <3>2. /\ Cardinality(Span(p)') \in Nat /\ Cardinality(Since(p)') \in Nat
          /\ Cardinality(Span(p)') <= Cardinality(Since(p)')
      BY <3>1, PartsCount
    <3>3. inputs'[p] \in Nat
      BY <1>2, TypeStep DEF TypeOK, Next, IndexStep
    <3> QED
      BY <2>2, <3>2, <3>3
  <2> QED
    BY <1>0, <2>1, <2>2, <2>3 DEF Fetched
<1>3. CASE Mark
  <2>1. /\ UNCHANGED <<now, activity, inputs, from, late>> /\ cursor' = now /\ ix' = "start"
        /\ ix = "mark"
    BY <1>3 DEF Mark, github, rows, history
  <2>2. ASSUME NEW p \in People PROVE inputs'[p] >= Cardinality(Span(p)')
    <3>1. Span(p)' \subseteq Since(p) /\ Since(p) \subseteq activity
      BY <2>1 DEF Span, Since, Of
    <3>2. /\ Cardinality(Span(p)') \in Nat /\ Cardinality(Since(p)) \in Nat
          /\ Cardinality(Span(p)') <= Cardinality(Since(p))
      BY <3>1, PartsCount
    <3>3. inputs[p] >= Cardinality(Since(p))
      BY <2>1 DEF Fetched
    <3> QED
      BY <1>0, <2>1, <3>2, <3>3
  <2> QED
    BY <1>0, <2>1, <2>2 DEF Fetched
<1>4. ASSUME NEW k \in Computes, ComputeStep(k) \/ Recompute(k) \/ ComputeFails(k)
      PROVE  Fetched'
  <2>1. UNCHANGED <<now, activity, cursor, ix, since, taken, allTime, inputs, from, late>>
    BY <1>4 DEF ComputeStep, Load, WriteScore, Assign, Recompute, ComputeFails, github, indexer,
                rows, history
  <2> QED
    BY <2>1, FetchedKept
<1>5. CASE ReadPage \/ Reclassify \/ UNCHANGED vars
  <2>1. UNCHANGED <<now, activity, cursor, ix, since, taken, allTime, inputs, from, late>>
    BY <1>5 DEF ReadPage, Reclassify, vars, github, indexer, rows, history
  <2> QED
    BY <2>1, FetchedKept
<1>6. ASSUME NEW f \in Refreshes, List(f) \/ Demote(f) \/ RefreshDies(f) PROVE Fetched'
  <2>1. UNCHANGED <<now, activity, cursor, ix, since, taken, allTime, inputs, from, late>>
    BY <1>6 DEF List, Demote, RefreshDies, github, indexer, rows, history
  <2> QED
    BY <2>1, FetchedKept
<1>7. ASSUME NEW f \in Refreshes, NEW p \in People, WriteRow(f, p) PROVE Fetched'
  <2>1. /\ UNCHANGED <<now, activity, cursor, ix, since, taken, allTime>>
        /\ late' = late \cup (Of(p, activity) \ listed[f])
        /\ \A q \in People \ {p} : inputs'[q] = inputs[q] /\ from'[q] = from[q]
    BY <1>7 DEF WriteRow, github, indexer, TypeOK
  <2>2. \A q \in People \ {p} : Span(q)' \subseteq Span(q) /\ Since(q)' \subseteq Since(q)
    BY <2>1 DEF Span, Since, Of
  <2>3. \A q \in People : inputs'[q] >= Cardinality(Span(q)')
    BY <1>7, <2>1, <2>2, RowCounts, SpanCount
  <2>4. ix = "mark" => \A q \in People : inputs'[q] >= Cardinality(Since(q)')
    BY <1>7, <2>1, <2>2, RowCounts, SinceCount DEF Fetched
  <2>5. (ix = "upsert" => \A a \in activity \ late : allTime \/ a[2] >= cursor => a \in taken)'
    BY <2>1 DEF Fetched
  <2> QED
    BY <1>0, <2>1, <2>3, <2>4, <2>5 DEF Fetched
<1>8. CASE Tick
  <2>1. UNCHANGED <<activity, cursor, ix, since, taken, allTime, inputs, from, late>> /\ now' = now + 1
    BY <1>8 DEF Tick, indexer, rows, history
  <2>2. \A p \in People : Span(p)' = Span(p) /\ Since(p)' = Since(p)
    BY <2>1 DEF Span, Since, Of
  <2>3. (cursor <= now /\ \A a \in activity : a[2] <= now)'
    BY <1>0, <2>1
  <2> QED
    BY <2>1, <2>2, <2>3 DEF Fetched
<1>9. ASSUME NEW p \in People, NEW d \in Times \cup {0}, Act(p, d) PROVE Fetched'
  <2>1. /\ activity' = activity \cup {<<p, d>>} /\ <<p, d>> \notin activity /\ d \in 0..now
        /\ late' = IF ix \in {"upsert", "mark"} \/ d < cursor THEN late \cup {<<p, d>>} ELSE late
        /\ UNCHANGED <<now, cursor, ix, since, taken, allTime, inputs, from>>
    BY <1>9 DEF Act, indexer, rows
  <2>2. \A q \in People : Span(q)' \subseteq Span(q)
    BY <1>0, <2>1 DEF Span, Of
  <2>3. ix \in {"upsert", "mark"} => activity' \ late' \subseteq activity \ late
    BY <2>1
  <2>4. ix = "mark" => \A q \in People : Since(q)' \subseteq Since(q)
    BY <2>1, <2>3 DEF Since, Of
  <2>5. \A q \in People : inputs'[q] >= Cardinality(Span(q)')
    BY <2>1, <2>2, SpanCount
  <2>6. ix = "mark" => \A q \in People : inputs'[q] >= Cardinality(Since(q)')
    BY <2>1, <2>4, SinceCount DEF Fetched
  <2>7. (ix = "upsert" => \A a \in activity \ late : allTime \/ a[2] >= cursor => a \in taken)'
    BY <2>1, <2>3 DEF Fetched
  <2>8. (cursor <= now /\ \A a \in activity : a[2] <= now)'
    BY <1>0, <2>1
  <2> QED
    BY <2>1, <2>5, <2>6, <2>7, <2>8 DEF Fetched
<1> QED
  BY <1>1, <1>2, <1>3, <1>4, <1>5, <1>6, <1>7, <1>8, <1>9 DEF Next, IndexStep

LEMMA Inductive == Inv /\ [Next]_vars => Inv'
BY TypeStep, ListingStep, AgentsStep, RankedStep, SoloStep, FetchedStep DEF Inv

-----------------------------------------------------------------------------

\* Type correctness of the rows, the runs and the histories; a row's inputs
\* never exceed what its person did, or the one contribution of an owner whom no
\* list names (indexProjectDeltas-helpers.ts, upsertContributors;
\* refresh-contributors.ts).
THEOREM TypeCorrect == Spec => []TypeOK
<1>1. Inv => TypeOK
  BY DEF Inv
<1> QED
  BY InitInv, Inductive, <1>1, PTL DEF Spec

\* However many computations and refreshes overlap, a board that nobody is
\* writing is in the order of its scores, unless a run failed among its writes
\* or a refresh met a ranking or another refresh (computeLeaderboard-helpers.ts,
\* writeScores and assignRanks; refresh-contributors.ts).
THEOREM RanksFollow == Spec => []SortedAtRest
<1>1. Inv => SortedAtRest
  BY DEF Inv, Ranked, Calm, SortedAtRest
<1> QED
  BY InitInv, Inductive, <1>1, PTL DEF Spec

\* Each row counts what its person did from where the row was fetched from up to
\* the cursor, whatever fails, but for what came too late for the fetch, was
\* dated before the cursor or was missing from a refresh's list
\* (indexProjectDeltas.ts).
THEOREM CursorIsHonest == Spec => []RangeIsCounted
<1>1. Inv => RangeIsCounted
  BY DEF Inv, Fetched, Span, RangeIsCounted
<1> QED
  BY InitInv, Inductive, <1>1, PTL DEF Spec

=============================================================================
