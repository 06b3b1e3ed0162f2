----------------------------- MODULE AuditChain -----------------------------
(***************************************************************************)
(* The audit log's hash chain: audit() (lib/audit.ts) inserts rows, the     *)
(* trigger of db/migrations/0016_audit_hash_chain.sql chains each to the    *)
(* newest, and verifyAuditChain (lib/audit-chain.ts) walks the log page by  *)
(* page.  A row's time is its rank by (created_at, id), the order both of   *)
(* them read in; created_at is taken when the transaction begins, the       *)
(* advisory lock when it inserts.  SHA-256 is taken to have no collisions:  *)
(* a hash is the sequence of everything that was hashed into it.            *)
(***************************************************************************)
EXTENDS Naturals, Sequences, FiniteSets

CONSTANTS
    Writers,    \* transactions that insert a row
    MaxTime,    \* bound: transactions that begin
    Batch,      \* rows per page
    Res,        \* ranks per millisecond, what the page cursor is cut to
    NoWriter    \* not a transaction

ASSUME BoundAssumption == MaxTime \in Nat /\ Batch \in Nat \ {0}

\* Fewer rows than a page are stamped within one millisecond.
ASSUME ResAssumption == Res \in 1..Batch

ASSUME NoWriterAssumption == NoWriter \notin Writers

VARIABLES
    clock,      \* the rank of the last transaction that began
    at,         \* where each transaction is
    time,       \* its created_at
    lock,       \* the holder of pg_advisory_xact_lock(7421)
    head,       \* the entry_hash its trigger read under the lock
    log,        \* audit_logs: rows by time
    sweeping,   \* a verification is running
    cursor,     \* the last row it read, 0 before the first
    walk,       \* prevEntryHash: what it hashed so far
    breaks,     \* the rows it reported
    forked,     \* history: a row was committed below the newest one
    tampered,   \* history: a row was edited or deleted
    stale       \* history: and so since the verification began

writer == <<clock, at, time, lock, head>>
sweep == <<sweeping, cursor, walk, breaks>>
vars == <<writer, log, sweep, forked, tampered, stale>>

Times == 1..MaxTime
Contents == {"written", "forged"}
Hash == Seq(Times \X Contents)
Row == [content : Contents, prev : Hash, hash : Hash]
Places == {"idle", "begun", "insert"}

TypeOK ==
    /\ clock \in 0..MaxTime
    /\ at \in [Writers -> Places]
    /\ time \in [Writers -> 0..MaxTime]
    /\ lock \in Writers \cup {NoWriter}
    /\ head \in [Writers -> Hash]
    /\ DOMAIN log \subseteq Times
    /\ log \in [DOMAIN log -> Row]
    /\ sweeping \in BOOLEAN
    /\ cursor \in 0..MaxTime
    /\ breaks \subseteq Times
    /\ forked \in BOOLEAN
    /\ tampered \in BOOLEAN
    /\ stale \in BOOLEAN

Init ==
    /\ clock = 0
    /\ at = [w \in Writers |-> "idle"]
    /\ time = [w \in Writers |-> 0]
    /\ lock = NoWriter
    /\ head = [w \in Writers |-> <<>>]
    /\ log = [t \in {} |-> <<>>]
    /\ sweeping = FALSE
    /\ cursor = 0
    /\ walk = <<>>
    /\ breaks = {}
    /\ forked = FALSE
    /\ tampered = FALSE
    /\ stale = FALSE

-----------------------------------------------------------------------------
(* The log in reading order. *)

Rows == DOMAIN log

Before(t) == {u \in Rows : u < t}
Newest(S) == CHOOSE t \in S : \A u \in S : u <= t

\* gitshipt_audit_canonical, which canonicalAuditHashFromText repeats.
Canonical(prev, t, content) == Append(prev, <<t, content>>)

\* The entry_hash of the newest row of S, '' when there is none.
Tip(S) == IF S = {} THEN <<>> ELSE log[Newest(S)].hash

-----------------------------------------------------------------------------
(* Insertion: one transaction per row. *)

\* BEGIN: now(), the default of created_at, is fixed.
Begin(w) ==
    /\ at[w] = "idle"
    /\ clock < MaxTime
    /\ clock' = clock + 1
    /\ time' = [time EXCEPT ![w] = clock + 1]
    /\ at' = [at EXCEPT ![w] = "begun"]
    /\ UNCHANGED <<lock, head, log, sweep, forked, tampered, stale>>

\* Mutant: a trigger without the advisory lock.
LockAnyway(w) ==
    /\ at[w] = "begun"
    /\ lock' = w
    /\ head' = [head EXCEPT ![w] = Tip(Rows)]
    /\ at' = [at EXCEPT ![w] = "insert"]
    /\ UNCHANGED <<clock, time, log, sweep, forked, tampered, stale>>

\* The trigger waits for the lock and reads the newest row's hash.
Lock(w) ==
    /\ at[w] = "begun"
    /\ lock = NoWriter
    /\ lock' = w
    /\ head' = [head EXCEPT ![w] = Tip(Rows)]
    /\ at' = [at EXCEPT ![w] = "insert"]
    /\ UNCHANGED <<clock, time, log, sweep, forked, tampered, stale>>

NewRow(w) ==
    [content |-> "written", prev |-> head[w],
     hash |-> Canonical(head[w], time[w], "written")]

\* The row is stored with both hashes; COMMIT releases the lock.
Commit(w) ==
    /\ at[w] = "insert"
    /\ log' = [t \in Rows \cup {time[w]} |-> IF t = time[w] THEN NewRow(w) ELSE log[t]]
    /\ forked' = (forked \/ \E t \in Rows : t > time[w])
    /\ lock' = NoWriter
    /\ at' = [at EXCEPT ![w] = "idle"]
    /\ UNCHANGED <<clock, time, head, sweep, tampered, stale>>

\* The transaction fails or its connection is lost: audit() throws.
Abort(w) ==
    /\ at[w] # "idle"
    /\ lock' = IF lock = w THEN NoWriter ELSE lock
    /\ at' = [at EXCEPT ![w] = "idle"]
    /\ UNCHANGED <<clock, time, head, log, sweep, forked, tampered, stale>>

-----------------------------------------------------------------------------
(* Changes that bypass audit(). *)

Edit(t) ==
    /\ t \in Rows
    /\ log[t].content = "written"
    /\ log' = [log EXCEPT ![t].content = "forged"]
    /\ tampered' = TRUE
    /\ stale' = TRUE
    /\ UNCHANGED <<writer, sweep, forked>>

Delete(t) ==
    /\ t \in Rows
    /\ log' = [u \in Rows \ {t} |-> log[u]]
    /\ tampered' = TRUE
    /\ stale' = TRUE
    /\ UNCHANGED <<writer, sweep, forked>>

-----------------------------------------------------------------------------
(* Verification. *)

\* The cron starts runAuditChainVerification.
StartSweep ==
    /\ ~sweeping
    /\ sweeping' = TRUE
    /\ cursor' = 0
    /\ walk' = <<>>
    /\ breaks' = {}
    /\ stale' = FALSE
    /\ UNCHANGED <<writer, log, forked, tampered>>

\* createdAt.toISOString(): milliseconds.
Cut(t) == t - (t % Res)

\* The next page: the first Batch rows after the cursor.
Page ==
    LET rest == {t \in Rows : t > Cut(cursor)}
    IN  {t \in rest : Cardinality({u \in rest : u < t}) < Batch}

\* The i-th row of S in order, and what is hashed of the rows of S.
Nth(S, i) == CHOOSE t \in S : Cardinality({u \in S : u <= t}) = i
InOrder(S) == [i \in 1..Cardinality(S) |-> <<Nth(S, i), log[Nth(S, i)].content>>]

\* Mutant: prevEntryHash is declared inside the loop, so every page starts over.
ExpectedAfresh(t) == InOrder({u \in Page : u < t})

\* prevEntryHash when the loop reaches row t of the page.
Expected(t) == walk \o InOrder({u \in Page : u < t})

\* Mutant: the row's hash is recomputed from the prev_hash it carries.
MismatchItself(t) == log[t].hash # Canonical(log[t].prev, t, log[t].content)

Mismatch(t) ==
    \/ log[t].prev # Expected(t)
    \/ log[t].hash # Canonical(Expected(t), t, log[t].content)

\* Mutant: an empty page does not end the loop.
ReadOnEmpty ==
    /\ sweeping
    /\ breaks' = breaks \cup {t \in Page : Mismatch(t)}
    /\ walk' = walk \o InOrder(Page)
    /\ cursor' = IF Page = {} THEN cursor ELSE Newest(Page)
    /\ sweeping' = (Cardinality(Page) \notin 1..(Batch - 1))
    /\ UNCHANGED <<writer, log, forked, tampered, stale>>

\* One turn of the loop: a page is selected and hashed; a page that is not
\* full is the last.
ReadPage ==
    /\ sweeping
    /\ breaks' = breaks \cup {t \in Page : Mismatch(t)}
    /\ walk' = walk \o InOrder(Page)
    /\ cursor' = IF Page = {} THEN cursor ELSE Newest(Page)
    /\ sweeping' = (Cardinality(Page) >= Batch)
    /\ UNCHANGED <<writer, log, forked, tampered, stale>>

WriterStep(w) == Begin(w) \/ Lock(w) \/ Commit(w) \/ Abort(w)

Next ==
    \/ \E w \in Writers : WriterStep(w)
    \/ \E t \in Times : Edit(t) \/ Delete(t)
    \/ StartSweep \/ ReadPage

Spec == Init /\ [][Next]_vars

\* The cron's function is given the time to finish.
FairSpec == Spec /\ WF_vars(ReadPage)

-----------------------------------------------------------------------------

\* "The chain is total": while nobody tampers and rows are committed in the
\* order they are read in, every row carries the hash of the row before it.
ChainIsTotal ==
    ~tampered /\ ~forked =>
        \A t \in Rows :
            /\ log[t].prev = Tip(Before(t))
            /\ log[t].hash = Canonical(log[t].prev, t, log[t].content)

\* This verification hashed a row a second time: a page ended at a row inside a
\* millisecond, and the next one started behind the cut cursor, not behind it.
ReadTwice == \E i, j \in DOMAIN walk : i < j /\ walk[i][1] = walk[j][1]

\* A row is reported only after tampering, after rows were committed out of
\* reading order, or by a verification that read a row twice.
ReportsHaveACause == breaks # {} => tampered \/ forked \/ ReadTwice

\* A verification that reports nothing vouches for the rows it read: whatever
\* was hashed into one of them is still in the log, unchanged.
SilenceVouches ==
    ~sweeping /\ ~stale /\ breaks = {} =>
        \A i \in DOMAIN walk : \A j \in DOMAIN log[walk[i][1]].hash :
            LET entry == log[walk[i][1]].hash[j]
            IN  entry[1] \in Rows /\ log[entry[1]].content = entry[2]

\* A verification comes to an end.
SweepEnds == sweeping ~> ~sweeping

=============================================================================
