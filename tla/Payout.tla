-------------------------------- MODULE Payout --------------------------------
(***************************************************************************)
(* From the leaderboard to the claimers' weights.  workflows/takeSnapshot.ts *)
(* freezes the best of a project's contributors once per UTC day; a          *)
(* rebalance allots 10000 basis points to the claimer slots by the scores of *)
(* the latest snapshot (lib/payouts/bps-plan.ts) and mirrors them slot by    *)
(* slot.  Snapshots overlap here, for a lock can lapse; rebalances do not,   *)
(* which module Rebalance shows of them; what they do on chain is its matter *)
(* too.                                                                      *)
(***************************************************************************)
EXTENDS Naturals, Sequences, FiniteSets, Functions

CONSTANTS
    People,         \* contributors
    Nobody,         \* no contributor
    N,              \* claimer slots, by slot_index from 1
    IdOf,           \* contributor_id of each slot, or Nobody
    LoginOf,        \* whose github login it has, or Nobody
    Initial,        \* its initial_bps
    Boards,         \* what the leaderboard may hold: scores, 0 for who is not
                    \* ranked among the first topN
    Takings,        \* snapshots under way; bound: how many overlap
    MaxScore,       \* bound: a score
    MaxDay,         \* bound: midnights
    MaxFaults       \* bound: rebalances that die while they mirror

Whole == 10000
Slots == 1..N

ASSUME PayoutAssumption ==
    /\ Nobody \notin People
    /\ N \in Nat \ {0}
    /\ Boards \subseteq [People -> 0..MaxScore]
    /\ IdOf \in [Slots -> People \cup {Nobody}] /\ LoginOf \in [Slots -> People \cup {Nobody}]
    /\ Initial \in [Slots -> 0..Whole] /\ SumFunction(Initial) = Whole
    /\ MaxScore \in Nat /\ MaxDay \in Nat \ {0} /\ MaxFaults \in Nat

VARIABLES
    today,      \* the UTC day
    at,         \* where each snapshot is
    board,      \* the scores it loaded
    stamp,      \* the day of its takenAt
    snapshots,  \* the rows of snapshots, in the order of their inserts
    bps,        \* current_bps of the slots
    plan,       \* the plan a rebalance works on, or <<>>
    written,    \* how many slots it has mirrored
    basis,      \* the day of the snapshot the last plan was made from, 0 for none
    torn,       \* history: a rebalance died while it mirrored
    faults      \* how many did

taking == <<at, board, stamp>>
rebalance == <<bps, plan, written, basis, torn, faults>>
payoutVars == <<today, taking, snapshots, rebalance>>

Days == 1..MaxDay
NoBoard == [p \in People |-> 0]
Shares == [Slots -> 0..Whole]

\* A plan: the weights, the scores they were made from, and whether there were any.
Plans == [bps : Shares, scores : [Slots -> 0..MaxScore], merit : BOOLEAN]

PayoutTypeOK ==
    /\ today \in Days
    /\ at \in [Takings -> {"idle", "freeze", "insert"}]
    /\ board \in [Takings -> Boards \cup {NoBoard}]
    /\ stamp \in [Takings -> Days \cup {0}]
    /\ snapshots \in Seq([period : Days, board : Boards])
    /\ \A i, j \in DOMAIN snapshots : snapshots[i].period = snapshots[j].period => i = j
    /\ bps \in Shares
    /\ plan = <<>> \/ plan \in Plans
    /\ written \in 0..N /\ (plan = <<>> => written = 0)
    /\ basis \in Days \cup {0}
    /\ torn \in BOOLEAN /\ faults \in 0..MaxFaults

PayoutInit ==
    /\ today = 1
    /\ at = [r \in Takings |-> "idle"]
    /\ board = [r \in Takings |-> NoBoard]
    /\ stamp = [r \in Takings |-> 0]
    /\ snapshots = <<>>
    /\ bps = Initial
    /\ plan = <<>> /\ written = 0
    /\ basis = 0
    /\ torn = FALSE /\ faults = 0

-----------------------------------------------------------------------------
(* takeProjectSnapshot. *)

\* loadRankedContributors: the first topN of the leaderboard, whose scores and
\* ranks (module Leaderboard) are whatever they are at this moment.
Load(r) ==
    /\ at[r] = "idle"
    /\ board' \in {[board EXCEPT ![r] = b] : b \in Boards}
    /\ at' = [at EXCEPT ![r] = "freeze"]
    /\ UNCHANGED <<today, stamp, snapshots, rebalance>>

\* freezeSnapshot reads the clock; the period is its day.
Stamp(r) ==
    /\ at[r] = "freeze"
    /\ stamp' = [stamp EXCEPT ![r] = today]
    /\ at' = [at EXCEPT ![r] = "insert"]
    /\ UNCHANGED <<today, board, snapshots, rebalance>>

\* Mutant: the insert does not look at the period.
PutAnyway(r) ==
    snapshots' = Append(snapshots, [period |-> stamp[r], board |-> board[r]])

\* INSERT ... ON CONFLICT DO NOTHING: the first row of a period stays.
Put(r) ==
    IF \E i \in DOMAIN snapshots : snapshots[i].period = stamp[r]
    THEN snapshots' = snapshots
    ELSE snapshots' = Append(snapshots, [period |-> stamp[r], board |-> board[r]])

\* The run is over.
Rest(r) ==
    /\ at' = [at EXCEPT ![r] = "idle"]
    /\ board' = [board EXCEPT ![r] = NoBoard]
    /\ stamp' = [stamp EXCEPT ![r] = 0]

Insert(r) ==
    /\ at[r] = "insert"
    /\ Put(r)
    /\ Rest(r)
    /\ UNCHANGED <<today, rebalance>>

\* The step fails, before or after its insert, and the engine repeats it.
Repeat(r) ==
    /\ at[r] = "insert"
    /\ Put(r) \/ UNCHANGED snapshots
    /\ at' = [at EXCEPT ![r] = "freeze"]
    /\ stamp' = [stamp EXCEPT ![r] = 0]
    /\ UNCHANGED <<today, board, rebalance>>

\* It fails for good.
Quit(r) ==
    /\ at[r] # "idle"
    /\ Rest(r)
    /\ UNCHANGED <<today, snapshots, rebalance>>

Midnight ==
    /\ today < MaxDay
    /\ today' = today + 1
    /\ UNCHANGED <<taking, snapshots, rebalance>>

-----------------------------------------------------------------------------
(* allocateBpsByScore. *)

\* A slot's score on a board: its contributor's, else its login's.
Match(b, i) ==
    LET Of(p) == IF p = Nobody THEN 0 ELSE b[p]
    IN  IF Of(IdOf[i]) > 0 THEN Of(IdOf[i]) ELSE Of(LoginOf[i])

Floor(s, i) == (s[i] * Whole) \div SumFunction(s)
Residue(s, i) == (s[i] * Whole) % SumFunction(s)

\* Mutant: smaller residues first.
PrecedesSmaller(s, i, j) ==
    \/ Residue(s, i) < Residue(s, j)
    \/ Residue(s, i) = Residue(s, j) /\ i < j

\* The order in which the remainder is handed out.
Precedes(s, i, j) ==
    \/ Residue(s, i) > Residue(s, j)
    \/ Residue(s, i) = Residue(s, j) /\ i < j

\* Mutant: the last unit of the remainder is not handed out.
AllocateShort(s) ==
    LET floors == [i \in Slots |-> Floor(s, i)]
        remainder == Whole - SumFunction(floors)
    IN  [i \in Slots |->
            IF Cardinality({j \in Slots : Precedes(s, j, i)}) + 1 < remainder
            THEN floors[i] + 1 ELSE floors[i]]

\* Largest remainders: whole shares first, one more for the first slots in the
\* order of their residues.  Fractions are exact here and doubles in the code,
\* where a tie between unequal scores may fall to either.
Allocate(s) ==
    LET floors == [i \in Slots |-> Floor(s, i)]
        remainder == Whole - SumFunction(floors)
    IN  [i \in Slots |->
            IF Cardinality({j \in Slots : Precedes(s, j, i)}) < remainder
            THEN floors[i] + 1 ELSE floors[i]]

\* Mutant: the row inserted last.
LatestInserted == Len(snapshots)

\* ORDER BY taken_at DESC LIMIT 1: the index of the latest snapshot, 0 for none.
Latest ==
    IF snapshots = <<>> THEN 0
    ELSE CHOOSE i \in DOMAIN snapshots :
             \A j \in DOMAIN snapshots : snapshots[j].period <= snapshots[i].period

\* loadRebalanceContextStep and computeRebalancePlanStep; without a score the
\* weights stay as they are.
MakePlan ==
    LET b == IF Latest = 0 THEN NoBoard ELSE snapshots[Latest].board
        s == [i \in Slots |-> Match(b, i)]
        merit == SumFunction(s) > 0
    IN  /\ plan = <<>>
        /\ plan' = [bps |-> IF merit THEN Allocate(s) ELSE bps, scores |-> s, merit |-> merit]
        /\ basis' = IF Latest = 0 THEN 0 ELSE snapshots[Latest].period
        /\ UNCHANGED <<today, taking, snapshots, bps, written, torn, faults>>

\* The transaction fails: nothing is mirrored.
Drop ==
    /\ plan # <<>> /\ written = 0
    /\ plan' = <<>>
    /\ UNCHANGED <<today, taking, snapshots, bps, written, basis, torn, faults>>

\* finalizeSuccessStep: one UPDATE per slot.
WriteSlot ==
    LET i == written + 1 IN
    /\ plan # <<>>
    /\ bps' = [bps EXCEPT ![i] = plan.bps[i]]
    /\ IF i = N
       THEN plan' = <<>> /\ written' = 0 /\ torn' = (torn /\ ~plan.merit)
       ELSE written' = i /\ UNCHANGED <<plan, torn>>
    /\ UNCHANGED <<today, taking, snapshots, basis, faults>>

\* The run dies between two UPDATEs.
Die ==
    /\ written > 0
    /\ faults < MaxFaults
    /\ faults' = faults + 1
    /\ plan' = <<>> /\ written' = 0 /\ torn' = TRUE
    /\ UNCHANGED <<today, taking, snapshots, bps, basis>>

PayoutNext ==
    \/ \E r \in Takings : Load(r) \/ Stamp(r) \/ Insert(r) \/ Repeat(r) \/ Quit(r)
    \/ Midnight
    \/ MakePlan \/ Drop \/ WriteSlot \/ Die

PayoutSpec == PayoutInit /\ [][PayoutNext]_payoutVars

-----------------------------------------------------------------------------

\* Basis points are never lost or made up: a plan made from scores adds up to
\* 10000 ("programming error" if not, bps-plan.ts:131), and so do the mirror
\* between two rebalances and the plan that preserves it, unless a rebalance
\* died half-way through the mirror.
AlwaysWhole ==
    /\ plan # <<>> /\ (plan.merit \/ ~torn) => SumFunction(plan.bps) = Whole
    /\ written = 0 /\ ~torn => SumFunction(bps) = Whole

\* Weights b are fair to scores s: each slot gets its exact share, up or down to
\* the next basis point, more score is no fewer points and no score is none.
FairTo(s, b) ==
    LET total == SumFunction(s) IN
    /\ SumFunction(b) = Whole
    /\ \A i, j \in DOMAIN s :
        /\ b[i] * total < s[i] * Whole + total
        /\ s[i] * Whole < b[i] * total + total
        /\ s[i] > s[j] => b[i] >= b[j]
        /\ s[i] = 0 => b[i] = 0

AllocatesFairly ==
    \A s \in [Slots -> 0..MaxScore] : SumFunction(s) > 0 => FairTo(s, Allocate(s))

\* Whatever the scores, ties and remainders included, the plan is fair to them,
\* and so is the one a rebalance works on to the snapshot it was made from.
SharesAreFair ==
    /\ AllocatesFairly
    /\ plan # <<>> /\ plan.merit => FairTo(plan.scores, plan.bps)

\* Plans never go back to an older snapshot, even when one that was stamped
\* before midnight is inserted after its successor.
NeverBackwards == [][basis' >= basis]_payoutVars

=============================================================================
