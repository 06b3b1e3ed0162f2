----------------------------- MODULE Leaderboard -----------------------------
(***************************************************************************)
(* A project's leaderboard.  workflows/indexProjectDeltas.ts fetches what   *)
(* happened on GitHub since its cursor, writes it into the contributors'    *)
(* rows, moves the cursor and starts workflows/computeLeaderboard.ts, which *)
(* writes scores row by row and then assigns ranks.  The indexer runs under *)
(* its lock (module WorkflowLock); computations overlap, with each other,   *)
(* with the indexer, with workflows/revalidateBotFlags.ts and with          *)
(* lib/queries/refresh-contributors.ts, which the console calls.  An        *)
(* activity is a commit or a merged pull request with its date, and a score *)
(* is a count of them.                                                      *)
(***************************************************************************)
EXTENDS Naturals, FiniteSets

CONSTANTS
    People,         \* contributors of the repository
    Vendors,        \* those that isAiVendorAccount names
    Old,            \* what each of them did before the scoring window
    Owner,          \* the account the repository is of
    TopN,           \* how many a refresh ranks
    Computes,       \* runs of computeLeaderboard; bound: how many overlap
    Refreshes,      \* calls of refreshProjectContributors
    MaxTime,        \* bound: ticks of the clock, all within the window
    MaxActivity,    \* bound: activities
    MaxUpsets       \* bound: runs that fail for good, and refreshes

ASSUME BoardAssumption ==
    /\ IsFiniteSet(People) /\ Vendors \subseteq People
    /\ Old \in [People -> Nat] /\ Owner \in People /\ TopN \in Nat
    /\ MaxTime \in Nat /\ MaxActivity \in Nat /\ MaxUpsets \in Nat

VARIABLES
    now,        \* the clock
    activity,   \* GitHub: who did something when, <<person, time>>
    cursor,     \* lastIncrementalSyncAt, 0 for none
    ix,         \* where the indexer is
    since,      \* what it fetches from
    taken,      \* the activities it fetched,
    allTime,    \* and whether it took the all-time list for want of any
    known,      \* the people with a row,
    inputs,     \* each row's inputs,
    score,      \* score,
    rank,       \* rank, 0 for null,
    excluded,   \* and the rows that are excluded
    at,         \* where each computation is
    got,        \* the inputs it loaded
    todo,       \* the rows it has still to write
    page,       \* the rows revalidateBotFlags is about to exclude
    stage,      \* where each refresh is
    listed,     \* the activities its list counts,
    count,      \* the counts,
    place,      \* the ranks it gives by them, 0 for none,
    next,       \* and the rank it is about to write
    upsets,     \* runs that have failed and refreshes
    from,       \* history: the cursor each row's inputs were fetched from,
    late,       \* activities that no row has to count
    torn        \* history: the last ranking has been disturbed

github == <<now, activity>>
indexer == <<ix, since, taken, allTime>>
rows == <<known, inputs, score, rank, excluded>>
compute == <<at, got, todo>>
refresh == <<stage, listed, count, place, next>>
history == <<from, late, torn>>
vars == <<github, cursor, indexer, rows, compute, page, refresh, upsets, history>>

Times == 1..MaxTime
Counted == known \ excluded

\* A refresh has written some of its rows, and has more to write.
Half(f) == next[f] > 1

TypeOK ==
    /\ now \in Times \cup {0}
    /\ activity \subseteq People \X (Times \cup {0})
    /\ cursor \in Times \cup {0} /\ since \in Times \cup {0}
    /\ ix \in {"idle", "fetch", "upsert", "mark", "start"}
    /\ taken \subseteq activity /\ allTime \in BOOLEAN
    /\ known \subseteq People /\ excluded \subseteq known
    /\ inputs \in [People -> Nat] /\ score \in [People -> Nat] /\ rank \in [People -> Nat]
    /\ \A p \in People \ known : inputs[p] = 0 /\ score[p] = 0 /\ rank[p] = 0
    /\ \A p \in People :
           \/ inputs[p] <= Old[p] + Cardinality({a \in activity : a[1] = p})
           \/ p = Owner /\ inputs[p] = 1
    /\ at \in [Computes -> {"idle", "load", "write"}]
    /\ got \in [Computes -> [People -> Nat]]
    /\ todo \in [Computes -> SUBSET known]
    /\ page \subseteq known
    /\ upsets \in 0..MaxUpsets
    /\ stage \in [Refreshes -> {"idle", "write", "over"}]
    /\ listed \in [Refreshes -> SUBSET activity]
    /\ count \in [Refreshes -> [People -> Nat]] /\ place \in [Refreshes -> [People -> Nat]]
    /\ next \in [Refreshes -> Nat]
    /\ from \in [People -> Times \cup {0}] /\ late \subseteq activity
    /\ torn \in BOOLEAN

Init ==
    /\ now = 0 /\ activity = {}
    /\ cursor = 0
    /\ ix = "idle" /\ since = 0 /\ taken = {} /\ allTime = FALSE
    /\ known = {} /\ excluded = {}
    /\ inputs = [p \in People |-> 0]
    /\ score = [p \in People |-> 0]
    /\ rank = [p \in People |-> 0]
    /\ at = [k \in Computes |-> "idle"]
    /\ got = [k \in Computes |-> [p \in People |-> 0]]
    /\ todo = [k \in Computes |-> {}]
    /\ page = {}
    /\ upsets = 0
    /\ stage = [f \in Refreshes |-> "idle"]
    /\ listed = [f \in Refreshes |-> {}]
    /\ count = [f \in Refreshes |-> [p \in People |-> 0]]
    /\ place = [f \in Refreshes |-> [p \in People |-> 0]]
    /\ next = [f \in Refreshes |-> 0]
    /\ from = [p \in People |-> 0] /\ late = {} /\ torn = FALSE

-----------------------------------------------------------------------------
(* The indexer. *)

Of(p, s) == {a \in s : a[1] = p}

\* The aggregates of the people with any: their share of what was fetched, or
\* of the all-time list.
Aggregate(p) ==
    Cardinality(Of(p, taken)) + (IF allTime THEN Old[p] ELSE 0)

Batch == {p \in People : Aggregate(p) > 0}

\* The lock is taken, the project is there and has an installation:
\* loadSinceCursor; without a cursor the whole window is fetched.
Begin ==
    /\ ix = "idle"
    /\ since' = cursor
    /\ ix' = "fetch"
    /\ UNCHANGED <<github, cursor, taken, allTime, rows, compute, page, refresh, upsets, history>>

\* fetchAndAggregate: everything from the cursor on, and the list of all
\* contributors when that is nothing.
Fetch ==
    LET recent == {a \in activity : a[2] >= since} IN
    /\ ix = "fetch"
    /\ allTime' = (recent = {})
    /\ taken' = IF recent = {} THEN activity ELSE recent
    /\ ix' = "upsert"
    /\ UNCHANGED <<github, cursor, since, rows, compute, page, refresh, upsets, history>>

\* upsertContributors: the inputs of the batch replace those of the rows, and
\* nobody in it stays excluded.
Upsert ==
    /\ ix = "upsert"
    /\ known' = known \cup Batch
    /\ inputs' = [p \in People |-> IF p \in Batch THEN Aggregate(p) ELSE inputs[p]]
    /\ excluded' = excluded \ Batch
    /\ from' = [p \in People |-> IF p \notin Batch THEN from[p]
                                ELSE IF allTime THEN 0 ELSE since]
    /\ ix' = "mark"
    /\ since' = 0 /\ taken' = {} /\ allTime' = FALSE
    /\ UNCHANGED <<github, cursor, score, rank, compute, page, refresh, upsets, late, torn>>

\* Mutant: the cursor moves before the rows are written.
MarkEarly ==
    /\ ix \in {"upsert", "mark"}
    /\ cursor' = now
    /\ ix' = IF ix = "mark" THEN "start" ELSE ix
    /\ UNCHANGED <<github, since, taken, allTime, rows, compute, page, refresh, upsets, history>>

\* markCursor(new Date()).
Mark ==
    /\ ix = "mark"
    /\ cursor' = now
    /\ ix' = "start"
    /\ UNCHANGED <<github, since, taken, allTime, rows, compute, page, refresh, upsets, history>>

\* Mutant: the indexer starts no computation.
StartNone ==
    /\ ix = "start"
    /\ ix' = "idle"
    /\ UNCHANGED <<github, cursor, since, taken, allTime, rows, compute, page, refresh, upsets, history>>

\* startComputeLeaderboardStep, and the lock is released.
Start ==
    /\ ix = "start"
    /\ \E k \in Computes : at[k] = "idle" /\ at' = [at EXCEPT ![k] = "load"]
    /\ ix' = "idle"
    /\ UNCHANGED <<github, cursor, since, taken, allTime, rows, got, todo, page, refresh, upsets, history>>

\* A step fails for good, or the run dies: what is written stays written.
IndexFails ==
    /\ ix # "idle"
    /\ upsets < MaxUpsets
    /\ upsets' = upsets + 1
    /\ ix' = "idle"
    /\ since' = 0 /\ taken' = {} /\ allTime' = FALSE
    /\ UNCHANGED <<github, cursor, rows, compute, page, refresh, history>>

-----------------------------------------------------------------------------
(* computeLeaderboard. *)

\* recomputeLeaderboard of the console starts a run of its own.
Recompute(k) ==
    /\ at[k] = "idle"
    /\ at' = [at EXCEPT ![k] = "load"]
    /\ UNCHANGED <<github, cursor, indexer, rows, got, todo, page, refresh, upsets, history>>

\* loadContributors: the inputs of the rows that are not excluded.
Load(k) ==
    /\ at[k] = "load"
    /\ got' = [got EXCEPT ![k] = [p \in People |-> IF p \in Counted THEN inputs[p] ELSE 0]]
    /\ todo' = [todo EXCEPT ![k] = Counted]
    /\ at' = [at EXCEPT ![k] = "write"]
    /\ UNCHANGED <<github, cursor, indexer, rows, page, refresh, upsets, history>>

\* writeScores: one UPDATE per row.
WriteScore(k, p) ==
    /\ at[k] = "write" /\ p \in todo[k]
    /\ score' = [score EXCEPT ![p] = got[k][p]]
    /\ got' = [got EXCEPT ![k][p] = 0]
    /\ todo' = [todo EXCEPT ![k] = @ \ {p}]
    /\ UNCHANGED <<github, cursor, indexer, known, inputs, rank, excluded, at, page, refresh,
                   upsets, history>>

\* The ranks row_number() can give to some rows by a score, ties as they fall.
Rankings(s, S) ==
    {r \in [People -> 0..Cardinality(S)] :
        /\ \A p \in People : r[p] = 0 <=> p \notin S
        /\ \A p, q \in S : /\ p # q => r[p] # r[q]
                           /\ s[p] > s[q] => r[p] < r[q]}

\* Mutant: ranks follow the scores this run computed, not those in the rows.
AssignOwn(k) ==
    /\ at[k] = "write" /\ todo[k] = {}
    /\ \E r \in Rankings(got[k], Counted) :
         rank' = [p \in People |-> IF p \in Counted THEN r[p] ELSE rank[p]]
    /\ at' = [at EXCEPT ![k] = "idle"]
    /\ torn' = (\E f \in Refreshes : Half(f))
    /\ UNCHANGED <<github, cursor, indexer, known, inputs, score, excluded, got, todo, page,
                   refresh, upsets, from, late>>

\* assignRanks: one statement ranks every row that is not excluded.
Assign(k) ==
    /\ at[k] = "write" /\ todo[k] = {}
    /\ \E r \in Rankings(score, Counted) :
         rank' = [p \in People |-> IF p \in Counted THEN r[p] ELSE rank[p]]
    /\ at' = [at EXCEPT ![k] = "idle"]
    /\ torn' = (\E f \in Refreshes : Half(f))
    /\ UNCHANGED <<github, cursor, indexer, known, inputs, score, excluded, got, todo, page,
                   refresh, upsets, from, late>>

\* A run fails for good, with some of its scores written or none.
ComputeFails(k) ==
    /\ at[k] # "idle"
    /\ upsets < MaxUpsets
    /\ upsets' = upsets + 1
    /\ at' = [at EXCEPT ![k] = "idle"]
    /\ got' = [got EXCEPT ![k] = [p \in People |-> 0]]
    /\ todo' = [todo EXCEPT ![k] = {}]
    /\ torn' = (torn \/ at[k] = "write")
    /\ UNCHANGED <<github, cursor, indexer, rows, page, refresh, from, late>>

-----------------------------------------------------------------------------
(* revalidateBotFlags. *)

\* A page of rows is read, and the vendors among them are to be excluded.
ReadPage ==
    /\ page = {}
    /\ page' = Counted \cap Vendors /\ page' # {}
    /\ UNCHANGED <<github, cursor, indexer, rows, compute, refresh, upsets, history>>

\* They are, by id; rows are un-excluded only when the list of vendors changes.
Reclassify ==
    /\ page # {}
    /\ excluded' = excluded \cup page
    /\ page' = {}
    /\ UNCHANGED <<github, cursor, indexer, known, inputs, score, rank, compute, refresh, upsets, history>>

-----------------------------------------------------------------------------
(* refreshProjectContributors. *)

\* What the public endpoint may list: what it counts now or, cached, earlier; or
\* nothing, and it is the owner with one contribution, or nobody.
Lists ==
    {[of |-> s, n |-> [p \in People |-> Old[p] + Cardinality(Of(p, s))]] : s \in SUBSET activity}
    \cup {[of |-> {}, n |-> [p \in People |-> IF p = Owner THEN m ELSE 0]] : m \in {0, 1}}

\* Agents are left out, and the first TopN are to be ranked.
List(f) ==
    /\ stage[f] = "idle"
    /\ upsets < MaxUpsets
    /\ upsets' = upsets + 1
    /\ \E l \in Lists : \E r \in Rankings(l.n, {p \in People \ Vendors : l.n[p] > 0}) :
         /\ listed' = [listed EXCEPT ![f] = l.of]
         /\ count' = [count EXCEPT ![f] = l.n]
         /\ place' = [place EXCEPT ![f] = [p \in People |-> IF r[p] <= TopN THEN r[p] ELSE 0]]
    /\ next' = [next EXCEPT ![f] = 1]
    /\ stage' = [stage EXCEPT ![f] = "write"]
    /\ UNCHANGED <<github, cursor, indexer, rows, compute, page, history>>

\* One upsert per row, score and rank at once.
WriteRow(f, p) ==
    /\ stage[f] = "write" /\ place[f][p] = next[f]
    /\ known' = known \cup {p}
    /\ inputs' = [inputs EXCEPT ![p] = count[f][p]]
    /\ score' = [score EXCEPT ![p] = count[f][p]]
    /\ rank' = [rank EXCEPT ![p] = place[f][p]]
    /\ excluded' = excluded \ {p}
    /\ next' = [next EXCEPT ![f] = @ + 1]
    /\ from' = [from EXCEPT ![p] = 0]
    /\ late' = late \cup (Of(p, activity) \ listed[f])
    /\ torn' = (torn \/ \E g \in Refreshes \ {f} : Half(g))
    /\ UNCHANGED <<github, cursor, indexer, compute, page, stage, listed, count, place, upsets>>

Leave(f) ==
    /\ stage' = [stage EXCEPT ![f] = "over"]
    /\ listed' = [listed EXCEPT ![f] = {}]
    /\ count' = [count EXCEPT ![f] = [p \in People |-> 0]]
    /\ place' = [place EXCEPT ![f] = [p \in People |-> 0]]
    /\ next' = [next EXCEPT ![f] = 0]

\* All are written: every row that is not among them loses its rank, if any is.
Demote(f) ==
    /\ stage[f] = "write" /\ \A p \in People : place[f][p] < next[f]
    /\ rank' = IF Half(f) THEN [p \in People |-> IF place[f][p] = 0 THEN 0 ELSE rank[p]]
               ELSE rank
    /\ Leave(f)
    /\ UNCHANGED <<github, cursor, indexer, known, inputs, score, excluded, compute, page,
                   upsets, history>>

\* The call fails or dies among its writes.
RefreshDies(f) ==
    /\ stage[f] = "write"
    /\ torn' = (torn \/ Half(f))
    /\ Leave(f)
    /\ UNCHANGED <<github, cursor, indexer, rows, compute, page, upsets, from, late>>

-----------------------------------------------------------------------------
(* GitHub. *)

Tick ==
    /\ now < MaxTime
    /\ now' = now + 1
    /\ UNCHANGED <<activity, cursor, indexer, rows, compute, page, refresh, upsets, history>>

\* p's pull request is merged now, or a commit of p's reaches the default branch
\* now, whose date is its own.
Act(p, d) ==
    /\ Cardinality(activity) < MaxActivity
    /\ d \in 0..now /\ <<p, d>> \notin activity
    /\ activity' = activity \cup {<<p, d>>}
    /\ late' = IF ix \in {"upsert", "mark"} \/ d < cursor THEN late \cup {<<p, d>>} ELSE late
    /\ UNCHANGED <<now, cursor, indexer, rows, compute, page, refresh, upsets, from, torn>>

IndexStep == Begin \/ Fetch \/ Upsert \/ Mark \/ Start

ComputeStep(k) == Load(k) \/ (\E p \in People : WriteScore(k, p)) \/ Assign(k)

Next ==
    \/ IndexStep \/ IndexFails
    \/ \E k \in Computes : ComputeStep(k) \/ Recompute(k) \/ ComputeFails(k)
    \/ ReadPage \/ Reclassify
    \/ \E f \in Refreshes :
         List(f) \/ (\E p \in People : WriteRow(f, p)) \/ Demote(f) \/ RefreshDies(f)
    \/ Tick
    \/ \E p \in People, d \in Times \cup {0} : Act(p, d)

Spec == Init /\ [][Next]_vars

\* The cron starts the indexer again and again, and the workflow engine carries
\* on every run that has not failed for good.
FairSpec ==
    /\ Spec
    /\ WF_vars(IndexStep)
    /\ \A k \in Computes : WF_vars(ComputeStep(k))

-----------------------------------------------------------------------------

\* Rows in the order of their scores: those of people, ranked once; a vendor's
\* keeps an old rank while it is excluded.
Sorted ==
    \A p, q \in known \ Vendors :
        score[p] > score[q] /\ rank[p] > 0 /\ rank[q] > 0 => rank[p] < rank[q]

\* However computations overlap, they leave the board sorted: whoever writes a
\* score ranks all rows after it.  So does a refresh by itself.  Only a run that
\* fails among its writes, and a refresh that meets a ranking or another refresh,
\* can leave it otherwise, until the next ranking.
SortedAtRest ==
    (\A k \in Computes : at[k] # "write") /\ (\A f \in Refreshes : ~Half(f)) /\ ~torn => Sorted

\* Runs that fail lose nothing: each row counts what its person did from where
\* the row was last fetched from up to the cursor.  Excepted is what could not
\* be fetched: what reached the branch between the fetch and the cursor of a
\* run or dated before the cursor, and what a refresh's list left out.
RangeIsCounted ==
    \A p \in People :
        inputs[p] >= Cardinality({a \in Of(p, activity) \ late : from[p] <= a[2] /\ a[2] < cursor})

\* When GitHub is quiet, every score is in the end that of the row's inputs and
\* the ranks follow.
BoardSettles ==
    <>[](Sorted /\ \A p \in known \ Vendors : score[p] = inputs[p] /\ rank[p] > 0)

=============================================================================
