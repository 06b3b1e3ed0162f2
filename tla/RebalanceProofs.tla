--------------------------- MODULE RebalanceProofs ---------------------------
(***************************************************************************)
(* Proofs about Rebalance, for every set of executions, every number of     *)
(* slots, every set of plans, and every bound on transactions and faults.   *)
(***************************************************************************)
EXTENDS Rebalance, TLAPS

-----------------------------------------------------------------------------
(* Type correctness.                                                       *)

LEMMA ConstantTypes ==
    /\ N \in Nat /\ N >= 1
    /\ RampUp \in Nat /\ Cadence \in Nat /\ Backoff \in Nat
    /\ MaxTotal \in Nat /\ MaxTotal >= 1
    /\ MaxTx \in Nat /\ MaxSnapshots \in Nat /\ MaxFaults \in Nat
    /\ LaunchPlan \in Plans
    /\ MeritPlans \subseteq Plans
    /\ Nobody \notin Runs
BY RebalanceAssumption

\* Counters stay within their bounds.
LEMMA Counters ==
    /\ 0 \in 0..MaxTotal /\ 0 \in 0..MaxTx /\ 0 \in 0..MaxSnapshots /\ 0 \in 0..MaxFaults
    /\ \A n \in 0..MaxTotal : Succ(n) \in 0..MaxTotal
    /\ \A n \in 0..MaxTx : n < MaxTx => n + 1 \in 0..MaxTx /\ n + 1 \in 1..MaxTx
    /\ \A n \in 0..MaxFaults : n < MaxFaults => n + 1 \in 0..MaxFaults
    /\ 1 \in 1..(N + 1)
    /\ \A n \in 1..(N + 1) : n <= N => n \in 1..N /\ n + 1 \in 1..(N + 1)
BY ConstantTypes DEF Succ

\* What may be done to the memory of an execution.
LEMMA ContextTypes ==
    /\ NoContext \in Context
    /\ \A p \in Plans, b, d \in BOOLEAN, n \in 0..MaxTotal :
          [plan |-> p, preserved |-> b, managed |-> d, total |-> n, sig |-> 0, cursor |-> 1,
           counted |-> FALSE] \in Context
    /\ \A c \in Context :
          /\ c.plan \in Plans
          /\ c.managed \in BOOLEAN
          /\ c.total \in 0..MaxTotal
          /\ c.sig \in 0..MaxTx
          /\ c.cursor \in 1..(N + 1)
          /\ \A n \in 0..MaxTx : [c EXCEPT !.sig = n] \in Context
          /\ \A k \in 1..(N + 1) : [c EXCEPT !.cursor = k] \in Context
          /\ [c EXCEPT !.counted = TRUE] \in Context
<1> USE ConstantTypes
<1>1. NoContext \in Context
    BY DEF Context, NoContext
<1>2. ASSUME NEW p \in Plans, NEW b \in BOOLEAN, NEW d \in BOOLEAN, NEW n \in 0..MaxTotal
      PROVE  [plan |-> p, preserved |-> b, managed |-> d, total |-> n, sig |-> 0, cursor |-> 1,
              counted |-> FALSE] \in Context
    BY <1>2 DEF Context, NoContext
<1>3. ASSUME NEW c \in Context
      PROVE  /\ c.plan \in Plans
             /\ c.managed \in BOOLEAN
             /\ c.total \in 0..MaxTotal
             /\ c.sig \in 0..MaxTx
             /\ c.cursor \in 1..(N + 1)
    BY <1>3 DEF Context
<1>4. ASSUME NEW c \in Context, NEW n \in 0..MaxTx
      PROVE  [c EXCEPT !.sig = n] \in Context
    BY <1>4 DEF Context
<1>5. ASSUME NEW c \in Context, NEW k \in 1..(N + 1)
      PROVE  [c EXCEPT !.cursor = k] \in Context
    BY <1>5 DEF Context
<1>6. ASSUME NEW c \in Context
      PROVE  [c EXCEPT !.counted = TRUE] \in Context
    BY <1>6 DEF Context
<1>7. QED
    BY <1>1, <1>2, <1>3, <1>4, <1>5, <1>6

LEMMA InitType == Init => TypeOK
<1> SUFFICES ASSUME Init PROVE TypeOK
    OBVIOUS
<1> USE ConstantTypes DEF Init
<1>1. Root!TypeOK /\ Sched!TypeOK
    BY DEF Root!Init, Sched!Init, Root!TypeOK, Sched!TypeOK
<1>2. pc \in [Runs -> {"idle", "select", "ready", "unroot"} \cup Body]
    OBVIOUS
<1>3. ctx \in [Runs -> Context]
    BY ContextTypes
<1>4. attempt \in [Plans -> Statuses] /\ sigOf \in [Plans -> 0..MaxTx]
    BY Counters DEF Statuses
<1>5. /\ txPlan \in [1..MaxTx -> Plans]
      /\ txState \in [1..MaxTx -> {"unsent", "flight", "landed", "reverted", "dropped"}]
    OBVIOUS
<1>6. total \in 0..MaxTotal /\ nextRun \in Nat /\ sent \in 0..MaxTx
    BY Counters
<1>7. frozen \in 0..MaxSnapshots /\ faults \in 0..MaxFaults
    BY Counters
<1>8. QED
    BY <1>1, <1>2, <1>3, <1>4, <1>5, <1>6, <1>7 DEF TypeOK

\* No step breaks TypeOK.
LEMMA TypeStep == TypeOK /\ [Next]_vars => TypeOK'
<1> SUFFICES ASSUME TypeOK, [Next]_vars PROVE TypeOK'
    OBVIOUS
<1> USE ConstantTypes DEF TypeOK, Root!TypeOK, Sched!TypeOK, Body, Goto, Mark,
        Plan, locks, schedule, ledger, network, operators, Statuses
<1>1. ASSUME NEW r \in Runs, Start(r) PROVE TypeOK'
    BY <1>1 DEF Start, Root!Acquire
<1>2. ASSUME NEW r \in Runs, SelectDue(r) PROVE TypeOK'
    BY <1>2 DEF SelectDue
<1>3. ASSUME NEW r \in Runs, Finish(r) PROVE TypeOK'
    BY <1>3 DEF Finish, Root!Release, Root!Abandon
<1>4. ASSUME NEW r \in Runs, Enter(r) PROVE TypeOK'
    BY <1>4 DEF Enter, Sched!Acquire
<1>5. ASSUME NEW r \in Runs, EnterRefused(r) PROVE TypeOK'
    BY <1>5 DEF EnterRefused
<1>6. ASSUME NEW r \in Runs, Load(r) PROVE TypeOK'
    <2>1. ctx' \in [Runs -> Context]
        BY <1>6, ContextTypes DEF Load
    <2>2. QED
        BY <1>6, <2>1, ConstantTypes, ContextTypes DEF Load
<1>6a. ASSUME NEW r \in Runs, LoadNothing(r) PROVE TypeOK'
    BY <1>6a DEF LoadNothing
<1>7. ASSUME NEW r \in Runs, ReserveConfirmed(r) PROVE TypeOK'
    <2>1. ctx' \in [Runs -> Context]
        BY <1>7, ContextTypes DEF ReserveConfirmed
    <2>2. QED
        BY <1>7, <2>1, ConstantTypes, ContextTypes DEF ReserveConfirmed
<1>8. ASSUME NEW r \in Runs, Reserve(r) PROVE TypeOK'
    BY <1>8 DEF Reserve
<1>9. ASSUME NEW r \in Runs, AlreadyConfirmed(r) PROVE TypeOK'
    <2>1. ctx' \in [Runs -> Context]
        BY <1>9, ContextTypes DEF AlreadyConfirmed
    <2>2. QED
        BY <1>9, <2>1, ConstantTypes, ContextTypes DEF AlreadyConfirmed
<1>10. ASSUME NEW r \in Runs, ProbeConfirms(r) PROVE TypeOK'
    <2>1. ctx' \in [Runs -> Context]
        BY <1>10, ContextTypes DEF ProbeConfirms
    <2>2. QED
        BY <1>10, <2>1, ConstantTypes, ContextTypes DEF ProbeConfirms
<1>11. ASSUME NEW r \in Runs, NotDelegated(r) PROVE TypeOK'
    BY <1>11 DEF NotDelegated
<1>12. ASSUME NEW r \in Runs, BuildFails(r) PROVE TypeOK'
    BY <1>12 DEF BuildFails
<1>13. ASSUME NEW r \in Runs, Sign(r) PROVE TypeOK'
    BY <1>13 DEF Sign
<1>14. ASSUME NEW r \in Runs, Send(r) PROVE TypeOK'
    <2>1. pc' \in [Runs -> {"idle", "select", "ready", "unroot"} \cup Body]
        BY <1>14, ConstantTypes DEF Send, Submit
    <2>2. sent + 1 \in 0..MaxTx /\ sent + 1 \in 1..MaxTx
        BY <1>14, Counters DEF Send, Submit
    <2>3. ctx' \in [Runs -> Context]
        BY <1>14, ContextTypes, <2>2 DEF Send, Submit
    <2>4. Plan(r) \in Plans
        BY <1>14, ContextTypes DEF Send, Submit
    <2>5. txPlan' \in [1..MaxTx -> Plans]
        BY <1>14, <2>2, <2>4 DEF Send, Submit
    <2>6. txState' \in [1..MaxTx -> {"unsent", "flight", "landed", "reverted", "dropped"}]
        BY <1>14, <2>2 DEF Send, Submit
    <2>7. QED
        BY <1>14, <2>1, <2>2, <2>3, <2>4, <2>5, <2>6 DEF Send, Submit
<1>15. ASSUME NEW r \in Runs, SendFails(r) PROVE TypeOK'
    <2>1. pc' \in [Runs -> {"idle", "select", "ready", "unroot"} \cup Body]
        BY <1>15, ConstantTypes DEF SendFails, Submit
    <2>2. Plan(r) \in Plans
        BY <1>15, ContextTypes DEF SendFails, Submit
    <2>3. sent' = sent \/ (sent < MaxTx /\ sent' = sent + 1)
        BY <1>15, ConstantTypes DEF SendFails, Submit
    <2>4. sent' \in 0..MaxTx
        BY <2>3, Counters
    <2>5. txPlan' \in [1..MaxTx -> Plans]
        BY <1>15, <2>2, Counters DEF SendFails, Submit
    <2>6. txState' \in [1..MaxTx -> {"unsent", "flight", "landed", "reverted", "dropped"}]
        BY <1>15, Counters DEF SendFails, Submit
    <2>7. attempt' \in [Plans -> Statuses]
        BY <1>15, <2>2 DEF SendFails, Submit
    <2>8. QED
        BY <1>15, <2>1, <2>2, <2>3, <2>4, <2>5, <2>6, <2>7 DEF SendFails, Submit
<1>16. ASSUME NEW r \in Runs, Record(r) PROVE TypeOK'
    <2>1. attempt' \in [Plans -> Statuses]
        BY <1>16, ContextTypes DEF Record
    <2>2. sigOf' \in [Plans -> 0..MaxTx]
        BY <1>16, ContextTypes DEF Record
    <2>3. pc' \in [Runs -> {"idle", "select", "ready", "unroot"} \cup Body]
        BY <1>16, ConstantTypes DEF Record
    <2>4. QED
        BY <1>16, <2>1, <2>2, <2>3 DEF Record
<1>17. ASSUME NEW r \in Runs, RecordFails(r) PROVE TypeOK'
    <2>1. faults' \in 0..MaxFaults
        BY <1>17, Counters DEF RecordFails, Fault
    <2>2. attempt' \in [Plans -> Statuses]
        BY <1>17, ContextTypes DEF RecordFails, Fault
    <2>3. QED
        BY <1>17, <2>1, <2>2 DEF RecordFails, Fault
<1>18. ASSUME NEW r \in Runs, Confirm(r) PROVE TypeOK'
    BY <1>18 DEF Confirm
<1>19. ASSUME NEW r \in Runs, ConfirmFails(r) PROVE TypeOK'
    BY <1>19 DEF ConfirmFails
<1>20. ASSUME NEW r \in Runs, MarkConfirmed(r) PROVE TypeOK'
    BY <1>20 DEF MarkConfirmed
<1>21. ASSUME NEW r \in Runs, ReturnConfirmed(r) PROVE TypeOK'
    BY <1>21 DEF ReturnConfirmed
<1>22. ASSUME NEW r \in Runs, WriteSlot(r) PROVE TypeOK'
    <2>1. ctx[r].cursor \in 1..N /\ Plan(r) \in Plans /\ ctx[r].cursor + 1 \in 1..(N + 1)
        <3>1. ctx[r] \in Context
            OBVIOUS
        <3>2. ctx[r].cursor \in 1..(N + 1) /\ Plan(r) \in Plans
            BY <3>1, ContextTypes
        <3>3. QED
            BY <1>22, <3>2, Counters DEF WriteSlot
    <2>2. slots' \in Plans
        BY <1>22, <2>1 DEF WriteSlot, Plans
    <2>3. ctx' \in [Runs -> Context]
        <3>1. [ctx[r] EXCEPT !.cursor = @ + 1] = [ctx[r] EXCEPT !.cursor = ctx[r].cursor + 1]
            OBVIOUS
        <3>2. QED
            BY <1>22, <2>1, <3>1, ContextTypes DEF WriteSlot
    <2>4. QED
        BY <1>22, <2>2, <2>3 DEF WriteSlot
<1>23. ASSUME NEW r \in Runs, Advance(r) PROVE TypeOK'
    <2>1. pc' \in [Runs -> {"idle", "select", "ready", "unroot"} \cup Body]
        BY <1>23, ConstantTypes DEF Advance
    <2>2. total' \in 0..MaxTotal
        BY <1>23, ContextTypes, Counters DEF Advance
    <2>3. nextRun' \in Nat
        BY <1>23, ConstantTypes DEF Advance
    <2>4. ctx' \in [Runs -> Context]
        BY <1>23, ContextTypes DEF Advance
    <2>5. QED
        BY <1>23, <2>1, <2>2, <2>3, <2>4 DEF Advance
<1>24. ASSUME NEW r \in Runs, Audit(r) PROVE TypeOK'
    BY <1>24 DEF Audit
<1>25. ASSUME NEW r \in Runs, BackOff(r) PROVE TypeOK'
    BY <1>25 DEF BackOff
<1>26. ASSUME NEW r \in Runs, Leave(r) PROVE TypeOK'
    <2>1. ctx' \in [Runs -> Context]
        BY <1>26, ContextTypes DEF Leave, Sched!Release
    <2>2. QED
        BY <1>26, <2>1, ConstantTypes, ContextTypes DEF Leave, Sched!Release
<1>27. ASSUME NEW r \in Runs, Throw(r) PROVE TypeOK'
    <2>1. ctx' \in [Runs -> Context]
        BY <1>27, ContextTypes DEF Throw, Sched!Release, Resume, Fault
    <2>2. pc' \in [Runs -> {"idle", "select", "ready", "unroot"} \cup Body]
        BY <1>27, ConstantTypes DEF Throw, Sched!Release, Resume, Fault
    <2>3. faults' \in 0..MaxFaults
        BY <1>27, Counters DEF Throw, Sched!Release, Resume, Fault
    <2>4. /\ rootOwner' \in Runs \cup {Nobody} /\ rootIn' \subseteq Runs
          /\ schedOwner' \in Runs \cup {Nobody} /\ schedIn' \subseteq Runs
        BY <1>27, ConstantTypes DEF Throw, Sched!Release, Resume, Fault
    <2>5. QED
        BY <1>27, <2>1, <2>2, <2>3, <2>4 DEF Throw, Sched!Release, Resume, Fault
<1>28. ASSUME NEW r \in Runs, Crash(r) PROVE TypeOK'
    <2>1. ctx' \in [Runs -> Context]
        BY <1>28, ContextTypes DEF Crash, Sched!Abandon, Resume, Fault
    <2>2. pc' \in [Runs -> {"idle", "select", "ready", "unroot"} \cup Body]
        BY <1>28, ConstantTypes DEF Crash, Sched!Abandon, Resume, Fault
    <2>3. faults' \in 0..MaxFaults
        BY <1>28, Counters DEF Crash, Sched!Abandon, Resume, Fault
    <2>4. /\ rootOwner' \in Runs \cup {Nobody} /\ rootIn' \subseteq Runs
          /\ schedOwner' \in Runs \cup {Nobody} /\ schedIn' \subseteq Runs
        BY <1>28, ConstantTypes DEF Crash, Sched!Abandon, Resume, Fault
    <2>5. QED
        BY <1>28, <2>1, <2>2, <2>3, <2>4 DEF Crash, Sched!Abandon, Resume, Fault
<1>29. ASSUME NEW r \in Runs, ClaimLost(r) PROVE TypeOK'
    <2>1. faults' \in 0..MaxFaults
        BY <1>29, Counters DEF ClaimLost, Root!Orphan, Sched!Orphan, Fault
    <2>2. QED
        BY <1>29, <2>1 DEF ClaimLost, Root!Orphan, Sched!Orphan, Fault
<1>30. ASSUME NEW r \in Runs, Reexecute(r) PROVE TypeOK'
    <2>1. ctx' \in [Runs -> Context]
        BY <1>30, ContextTypes, Counters DEF Reexecute, StepStart, Fault
    <2>2. pc' \in [Runs -> {"idle", "select", "ready", "unroot"} \cup Body]
        BY <1>30, ConstantTypes DEF Reexecute, StepStart, Fault
    <2>3. faults' \in 0..MaxFaults
        BY <1>30, Counters DEF Reexecute, StepStart, Fault
    <2>4. QED
        BY <1>30, <2>1, <2>2, <2>3 DEF Reexecute, StepStart, Fault
<1>31. ASSUME NEW i \in 1..MaxTx, Land(i) PROVE TypeOK'
    BY <1>31 DEF Land, Resolve
<1>32. ASSUME NEW i \in 1..MaxTx, Fall(i) PROVE TypeOK'
    BY <1>32 DEF Fall, Resolve
<1>33. ASSUME NEW p \in MeritPlans \cup {NoSignal}, Freeze(p) PROVE TypeOK'
    BY <1>33 DEF Freeze
<1>34. CASE Delegate
    BY <1>34 DEF Delegate
<1>35. CASE Tick
    BY <1>35 DEF Tick
<1>36. CASE RootLapse
    BY <1>36 DEF RootLapse, Root!Lapse
<1>37. CASE SchedLapse
    BY <1>37 DEF SchedLapse, Sched!Lapse
<1>38. CASE UNCHANGED vars
    BY <1>38 DEF vars
<1>40. QED
    BY <1>1, <1>2, <1>3, <1>4, <1>5, <1>6, <1>6a, <1>7, <1>8, <1>9, <1>10, <1>11,
       <1>12, <1>13, <1>14, <1>15, <1>16, <1>17, <1>18, <1>19, <1>20, <1>21,
       <1>22, <1>23, <1>24, <1>25, <1>26, <1>27, <1>28, <1>29, <1>30, <1>31,
       <1>32, <1>33, <1>34, <1>35, <1>36, <1>37, <1>38 DEF Next,
       Step, Environment

\* Every reachable state is well typed.
THEOREM TypeCorrect == Spec => []TypeOK
BY InitType, TypeStep, PTL DEF Spec

-----------------------------------------------------------------------------
(* One execution at a time.                                                *)

\* Who is in the body is who is inside the lock, and then its owner.
SchedInv ==
    /\ \A r \in Runs : pc[r] \in Body <=> r \in schedIn
    /\ \A r \in schedIn : schedOwner = r

\* No step breaks SchedInv.
LEMMA SchedStep ==
    ASSUME LeaseMayLapse = FALSE PROVE TypeOK /\ SchedInv /\ [Next]_vars => SchedInv'
<1> SUFFICES ASSUME TypeOK /\ SchedInv, [Next]_vars PROVE SchedInv'
    OBVIOUS
<1> USE ConstantTypes DEF TypeOK, Root!TypeOK, Sched!TypeOK, Body, Goto, locks,
        SchedInv
<1>1. ASSUME NEW r \in Runs, Start(r) PROVE SchedInv'
    BY <1>1 DEF Start, Root!Acquire
<1>2. ASSUME NEW r \in Runs, SelectDue(r) PROVE SchedInv'
    BY <1>2 DEF SelectDue
<1>3. ASSUME NEW r \in Runs, Finish(r) PROVE SchedInv'
    BY <1>3 DEF Finish, Root!Release, Root!Abandon
<1>4. ASSUME NEW r \in Runs, Enter(r) PROVE SchedInv'
    BY <1>4 DEF Enter, Sched!Acquire
<1>5. ASSUME NEW r \in Runs, EnterRefused(r) PROVE SchedInv'
    BY <1>5 DEF EnterRefused
<1>6. ASSUME NEW r \in Runs, Load(r) PROVE SchedInv'
    BY <1>6 DEF Load
<1>6a. ASSUME NEW r \in Runs, LoadNothing(r) PROVE SchedInv'
    BY <1>6a DEF LoadNothing
<1>7. ASSUME NEW r \in Runs, ReserveConfirmed(r) PROVE SchedInv'
    BY <1>7 DEF ReserveConfirmed
<1>8. ASSUME NEW r \in Runs, Reserve(r) PROVE SchedInv'
    BY <1>8 DEF Reserve
<1>9. ASSUME NEW r \in Runs, AlreadyConfirmed(r) PROVE SchedInv'
    BY <1>9 DEF AlreadyConfirmed
<1>10. ASSUME NEW r \in Runs, ProbeConfirms(r) PROVE SchedInv'
    BY <1>10 DEF ProbeConfirms
<1>11. ASSUME NEW r \in Runs, NotDelegated(r) PROVE SchedInv'
    BY <1>11 DEF NotDelegated
<1>12. ASSUME NEW r \in Runs, BuildFails(r) PROVE SchedInv'
    BY <1>12 DEF BuildFails
<1>13. ASSUME NEW r \in Runs, Sign(r) PROVE SchedInv'
    BY <1>13 DEF Sign
<1>14. ASSUME NEW r \in Runs, Send(r) PROVE SchedInv'
    BY <1>14 DEF Send, Submit
<1>15. ASSUME NEW r \in Runs, SendFails(r) PROVE SchedInv'
    BY <1>15 DEF SendFails, Submit
<1>16. ASSUME NEW r \in Runs, Record(r) PROVE SchedInv'
    BY <1>16 DEF Record
<1>17. ASSUME NEW r \in Runs, RecordFails(r) PROVE SchedInv'
    BY <1>17 DEF RecordFails, Fault
<1>18. ASSUME NEW r \in Runs, Confirm(r) PROVE SchedInv'
    BY <1>18 DEF Confirm
<1>19. ASSUME NEW r \in Runs, ConfirmFails(r) PROVE SchedInv'
    BY <1>19 DEF ConfirmFails
<1>20. ASSUME NEW r \in Runs, MarkConfirmed(r) PROVE SchedInv'
    BY <1>20 DEF MarkConfirmed
<1>21. ASSUME NEW r \in Runs, ReturnConfirmed(r) PROVE SchedInv'
    BY <1>21 DEF ReturnConfirmed
<1>22. ASSUME NEW r \in Runs, WriteSlot(r) PROVE SchedInv'
    BY <1>22 DEF WriteSlot
<1>23. ASSUME NEW r \in Runs, Advance(r) PROVE SchedInv'
    BY <1>23 DEF Advance
<1>24. ASSUME NEW r \in Runs, Audit(r) PROVE SchedInv'
    BY <1>24 DEF Audit
<1>25. ASSUME NEW r \in Runs, BackOff(r) PROVE SchedInv'
    BY <1>25 DEF BackOff
<1>26. ASSUME NEW r \in Runs, Leave(r) PROVE SchedInv'
    BY <1>26 DEF Leave, Sched!Release
<1>27. ASSUME NEW r \in Runs, Throw(r) PROVE SchedInv'
    BY <1>27 DEF Throw, Sched!Release, Resume, Fault
<1>28. ASSUME NEW r \in Runs, Crash(r) PROVE SchedInv'
    BY <1>28 DEF Crash, Sched!Abandon, Resume, Fault
<1>29. ASSUME NEW r \in Runs, ClaimLost(r) PROVE SchedInv'
    BY <1>29 DEF ClaimLost, Root!Orphan, Sched!Orphan, Fault
<1>30. ASSUME NEW r \in Runs, Reexecute(r) PROVE SchedInv'
    BY <1>30 DEF Reexecute, StepStart, Fault
<1>31. ASSUME NEW i \in 1..MaxTx, Land(i) PROVE SchedInv'
    BY <1>31 DEF Land, Resolve
<1>32. ASSUME NEW i \in 1..MaxTx, Fall(i) PROVE SchedInv'
    BY <1>32 DEF Fall, Resolve
<1>33. ASSUME NEW p \in MeritPlans \cup {NoSignal}, Freeze(p) PROVE SchedInv'
    BY <1>33 DEF Freeze
<1>34. CASE Delegate
    BY <1>34 DEF Delegate
<1>35. CASE Tick
    BY <1>35 DEF Tick
<1>36. CASE RootLapse
    BY <1>36 DEF RootLapse, Root!Lapse
<1>37. CASE SchedLapse
    BY <1>37 DEF SchedLapse, Sched!Lapse
<1>38. CASE UNCHANGED vars
    BY <1>38 DEF vars
<1>40. QED
    BY <1>1, <1>2, <1>3, <1>4, <1>5, <1>6, <1>6a, <1>7, <1>8, <1>9, <1>10, <1>11,
       <1>12, <1>13, <1>14, <1>15, <1>16, <1>17, <1>18, <1>19, <1>20, <1>21,
       <1>22, <1>23, <1>24, <1>25, <1>26, <1>27, <1>28, <1>29, <1>30, <1>31,
       <1>32, <1>33, <1>34, <1>35, <1>36, <1>37, <1>38 DEF Next,
       Step, Environment

LEMMA SchedInit == Init => SchedInv
BY DEF Init, Sched!Init, SchedInv, Body

LEMMA SchedSingle == SchedInv => SingleExecution
BY DEF SchedInv, SingleExecution

\* No two executions are ever in the body of processScheduleRebalance, if its
\* lease outlasts every execution.
THEOREM OneExecution ==
    ASSUME LeaseMayLapse = FALSE PROVE Spec => []SingleExecution
BY InitType, TypeStep, SchedInit, SchedStep, SchedSingle, PTL DEF Spec

-----------------------------------------------------------------------------
(* The ledger covers the network.                                          *)

\* What an update of an execution's memory leaves alone.
LEMMA ContextUpdates ==
    /\ \A c \in Context, n \in 0..MaxTx :
          /\ [c EXCEPT !.sig = n].plan = c.plan
          /\ [c EXCEPT !.sig = n].total = c.total
          /\ [c EXCEPT !.sig = n].sig = n
    /\ \A c \in Context, k \in 1..(N + 1) :
          /\ [c EXCEPT !.cursor = k].plan = c.plan
          /\ [c EXCEPT !.cursor = k].total = c.total
          /\ [c EXCEPT !.cursor = k].sig = c.sig
    /\ \A c \in Context :
          /\ [c EXCEPT !.counted = TRUE].plan = c.plan
          /\ [c EXCEPT !.counted = TRUE].total = c.total
          /\ [c EXCEPT !.counted = TRUE].sig = c.sig
BY DEF Context

\* Having counted is all that changes in the memory of who advances the schedule.
LEMMA AdvanceEffect ==
    TypeOK => \A r \in Runs : Advance(r) =>
        \A s \in Runs : /\ ctx'[s].plan = ctx[s].plan
                        /\ ctx'[s].total = ctx[s].total
                        /\ ctx'[s].sig = ctx[s].sig
                        /\ ctx'[s].counted = (s = r \/ ctx[s].counted)
<1> SUFFICES ASSUME TypeOK, NEW r \in Runs, Advance(r), NEW s \in Runs
             PROVE  /\ ctx'[s].plan = ctx[s].plan
                    /\ ctx'[s].total = ctx[s].total
                    /\ ctx'[s].sig = ctx[s].sig
                    /\ ctx'[s].counted = (s = r \/ ctx[s].counted)
    OBVIOUS
<1>1. ctx \in [Runs -> Context]
    BY DEF TypeOK
<1>2. ctx'[s] = IF s = r THEN [ctx[r] EXCEPT !.counted = TRUE] ELSE ctx[s]
    BY <1>1 DEF Advance
<1>3. ctx[s] \in Context /\ ctx[s].counted \in BOOLEAN
    BY <1>1 DEF Context
<1>4. [ctx[r] EXCEPT !.counted = TRUE].counted = TRUE
    BY <1>1 DEF Context
<1>5. CASE s = r
    BY <1>1, <1>2, <1>3, <1>4, <1>5, ContextUpdates
<1>6. CASE s # r
    BY <1>2, <1>3, <1>6
<1>7. QED
    BY <1>5, <1>6

\* What each kind of update does, once and for all.
LEMMA MarkEffect ==
    TypeOK => \A r \in Runs, status \in Statuses : Mark(r, status) =>
        \A p \in Plans : attempt'[p] = IF p = Plan(r) THEN status ELSE attempt[p]
BY DEF TypeOK, Mark

LEMMA GotoEffect ==
    TypeOK => \A r \in Runs : \A l : Goto(r, l) =>
        \A s \in Runs : pc'[s] = IF s = r THEN l ELSE pc[s]
BY DEF TypeOK, Goto

LEMMA SubmitEffect ==
    TypeOK => \A r \in Runs : Submit(r) =>
        /\ sent' = sent + 1
        /\ 1..sent' = 1..sent \cup {sent + 1}
        /\ sent + 1 \notin 1..sent
        /\ \A i \in 1..MaxTx :
              /\ txPlan'[i] = IF i = sent + 1 THEN Plan(r) ELSE txPlan[i]
              /\ txState'[i] = IF i = sent + 1 THEN "flight" ELSE txState[i]
        /\ sent + 1 \in 1..MaxTx
        /\ UNCHANGED <<chain, onChain>>
<1> SUFFICES ASSUME TypeOK, NEW r \in Runs, Submit(r)
             PROVE  /\ sent' = sent + 1
                    /\ 1..sent' = 1..sent \cup {sent + 1}
                    /\ sent + 1 \notin 1..sent
                    /\ \A i \in 1..MaxTx :
                          /\ txPlan'[i] = IF i = sent + 1 THEN Plan(r) ELSE txPlan[i]
                          /\ txState'[i] = IF i = sent + 1 THEN "flight" ELSE txState[i]
                    /\ sent + 1 \in 1..MaxTx
                    /\ UNCHANGED <<chain, onChain>>
    OBVIOUS
<1>1. sent \in Nat /\ sent < MaxTx /\ sent' = sent + 1
    BY ConstantTypes DEF TypeOK, Submit
<1>2. 1..sent' = 1..sent \cup {sent + 1} /\ sent + 1 \notin 1..sent /\ sent + 1 \in 1..MaxTx
    BY <1>1, ConstantTypes
<1>3. QED
    BY <1>1, <1>2 DEF TypeOK, Submit

LEMMA PlansTyped ==
    TypeOK => /\ \A r \in Runs : ctx[r] \in Context /\ Plan(r) \in Plans
              /\ \A i \in 1..MaxTx : txPlan[i] \in Plans
              /\ 1..sent \subseteq 1..MaxTx
              /\ sent \in Nat
<1> SUFFICES ASSUME TypeOK
             PROVE  /\ \A r \in Runs : ctx[r] \in Context /\ Plan(r) \in Plans
                    /\ \A i \in 1..MaxTx : txPlan[i] \in Plans
                    /\ 1..sent \subseteq 1..MaxTx
                    /\ sent \in Nat
    OBVIOUS
<1>1. \A r \in Runs : ctx[r] \in Context /\ Plan(r) \in Plans
    BY ContextTypes DEF TypeOK, Plan
<1>2. \A i \in 1..MaxTx : txPlan[i] \in Plans
    BY DEF TypeOK
<1>3. sent \in 0..MaxTx
    BY DEF TypeOK
<1>4. 1..sent \subseteq 1..MaxTx /\ sent \in Nat
    BY <1>3, ConstantTypes
<1>5. QED
    BY <1>1, <1>2, <1>4

\* From the reservation on, the plan of an execution has an attempt row.
Reserved == {"broadcast", "send", "record", "confirm", "mark", "confirmed"}

ReservedPlans == \A r \in Runs : pc[r] \in Reserved => attempt[Plan(r)] # "none"

LedgerInv == LedgerCoversNetwork /\ ReservedPlans

LEMMA LedgerInit == Init => LedgerInv
BY ConstantTypes DEF Init, LedgerInv, LedgerCoversNetwork, ReservedPlans, Reserved

\* No step breaks LedgerInv.
LEMMA LedgerStep == TypeOK /\ LedgerInv /\ [Next]_vars => LedgerInv'
<1> SUFFICES ASSUME TypeOK /\ LedgerInv, [Next]_vars PROVE LedgerInv'
    OBVIOUS
<1> USE ConstantTypes, PlansTyped, MarkEffect, GotoEffect DEF Plan, locks,
        schedule, ledger, network, operators, LedgerInv, Reserved, Body, Statuses
<1>1. ASSUME NEW r \in Runs, Start(r) PROVE LedgerInv'
    BY <1>1 DEF Start, Root!Acquire, LedgerCoversNetwork, ReservedPlans
<1>2. ASSUME NEW r \in Runs, SelectDue(r) PROVE LedgerInv'
    BY <1>2 DEF SelectDue, LedgerCoversNetwork, ReservedPlans
<1>3. ASSUME NEW r \in Runs, Finish(r) PROVE LedgerInv'
    BY <1>3 DEF Finish, Root!Release, Root!Abandon, LedgerCoversNetwork,
       ReservedPlans
<1>4. ASSUME NEW r \in Runs, Enter(r) PROVE LedgerInv'
    BY <1>4 DEF Enter, Sched!Acquire, LedgerCoversNetwork, ReservedPlans
<1>5. ASSUME NEW r \in Runs, EnterRefused(r) PROVE LedgerInv'
    BY <1>5 DEF EnterRefused, LedgerCoversNetwork, ReservedPlans
<1>6. ASSUME NEW r \in Runs, Load(r) PROVE LedgerInv'
    BY <1>6 DEF Load, LedgerCoversNetwork, ReservedPlans
<1>6a. ASSUME NEW r \in Runs, LoadNothing(r) PROVE LedgerInv'
    BY <1>6a DEF LoadNothing, LedgerCoversNetwork, ReservedPlans
<1>7. ASSUME NEW r \in Runs, ReserveConfirmed(r) PROVE LedgerInv'
    BY <1>7 DEF ReserveConfirmed, LedgerCoversNetwork, ReservedPlans
<1>8. ASSUME NEW r \in Runs, Reserve(r) PROVE LedgerInv'
    BY <1>8 DEF Reserve, LedgerCoversNetwork, ReservedPlans
<1>9. ASSUME NEW r \in Runs, AlreadyConfirmed(r) PROVE LedgerInv'
    BY <1>9 DEF AlreadyConfirmed, LedgerCoversNetwork, ReservedPlans
<1>10. ASSUME NEW r \in Runs, ProbeConfirms(r) PROVE LedgerInv'
    BY <1>10 DEF ProbeConfirms, LedgerCoversNetwork, ReservedPlans
<1>11. ASSUME NEW r \in Runs, NotDelegated(r) PROVE LedgerInv'
    BY <1>11 DEF NotDelegated, LedgerCoversNetwork, ReservedPlans
<1>12. ASSUME NEW r \in Runs, BuildFails(r) PROVE LedgerInv'
    BY <1>12 DEF BuildFails, LedgerCoversNetwork, ReservedPlans
<1>13. ASSUME NEW r \in Runs, Sign(r) PROVE LedgerInv'
    BY <1>13 DEF Sign, LedgerCoversNetwork, ReservedPlans
<1>14. ASSUME NEW r \in Runs, Send(r) PROVE LedgerInv'
    <2>1. attempt[Plan(r)] # "none" /\ attempt' = attempt
        BY <1>14 DEF Send, ReservedPlans
    <2>2. LedgerCoversNetwork'
        BY <1>14, <2>1, SubmitEffect DEF Send, LedgerCoversNetwork
    <2>3. ReservedPlans'
        BY <1>14, <2>1, SubmitEffect, ContextUpdates DEF Send, ReservedPlans
    <2>4. QED
        BY <2>2, <2>3
<1>15. ASSUME NEW r \in Runs, SendFails(r) PROVE LedgerInv'
    <2>1. Submit(r) \/ UNCHANGED <<sent, txPlan>>
        BY <1>15 DEF SendFails
    <2>2. LedgerCoversNetwork'
        BY <1>15, <2>1, SubmitEffect DEF SendFails, LedgerCoversNetwork
    <2>3. ReservedPlans'
        BY <1>15, <2>1 DEF SendFails, ReservedPlans
    <2>4. QED
        BY <2>2, <2>3
<1>16. ASSUME NEW r \in Runs, Record(r) PROVE LedgerInv'
    BY <1>16 DEF Record, LedgerCoversNetwork, ReservedPlans
<1>17. ASSUME NEW r \in Runs, RecordFails(r) PROVE LedgerInv'
    BY <1>17 DEF RecordFails, Fault, LedgerCoversNetwork, ReservedPlans
<1>18. ASSUME NEW r \in Runs, Confirm(r) PROVE LedgerInv'
    BY <1>18 DEF Confirm, LedgerCoversNetwork, ReservedPlans
<1>19. ASSUME NEW r \in Runs, ConfirmFails(r) PROVE LedgerInv'
    BY <1>19 DEF ConfirmFails, LedgerCoversNetwork, ReservedPlans
<1>20. ASSUME NEW r \in Runs, MarkConfirmed(r) PROVE LedgerInv'
    BY <1>20 DEF MarkConfirmed, LedgerCoversNetwork, ReservedPlans
<1>21. ASSUME NEW r \in Runs, ReturnConfirmed(r) PROVE LedgerInv'
    BY <1>21 DEF ReturnConfirmed, LedgerCoversNetwork, ReservedPlans
<1>22. ASSUME NEW r \in Runs, WriteSlot(r) PROVE LedgerInv'
    BY <1>22 DEF WriteSlot, LedgerCoversNetwork, ReservedPlans
<1>23. ASSUME NEW r \in Runs, Advance(r) PROVE LedgerInv'
    BY <1>23, AdvanceEffect DEF Advance, LedgerCoversNetwork, ReservedPlans
<1>24. ASSUME NEW r \in Runs, Audit(r) PROVE LedgerInv'
    BY <1>24 DEF Audit, LedgerCoversNetwork, ReservedPlans
<1>25. ASSUME NEW r \in Runs, BackOff(r) PROVE LedgerInv'
    BY <1>25 DEF BackOff, LedgerCoversNetwork, ReservedPlans
<1>26. ASSUME NEW r \in Runs, Leave(r) PROVE LedgerInv'
    BY <1>26 DEF Leave, Sched!Release, LedgerCoversNetwork, ReservedPlans
<1>27. ASSUME NEW r \in Runs, Throw(r) PROVE LedgerInv'
    BY <1>27 DEF Throw, Sched!Release, Resume, Fault, LedgerCoversNetwork,
       ReservedPlans
<1>28. ASSUME NEW r \in Runs, Crash(r) PROVE LedgerInv'
    BY <1>28 DEF Crash, Sched!Abandon, Resume, Fault, LedgerCoversNetwork,
       ReservedPlans
<1>29. ASSUME NEW r \in Runs, ClaimLost(r) PROVE LedgerInv'
    BY <1>29 DEF ClaimLost, Root!Orphan, Sched!Orphan, Fault, LedgerCoversNetwork,
       ReservedPlans
<1>30. ASSUME NEW r \in Runs, Reexecute(r) PROVE LedgerInv'
    BY <1>30 DEF Reexecute, StepStart, Fault, LedgerCoversNetwork, ReservedPlans
<1>31. ASSUME NEW i \in 1..MaxTx, Land(i) PROVE LedgerInv'
    BY <1>31 DEF Land, Resolve, LedgerCoversNetwork, ReservedPlans
<1>32. ASSUME NEW i \in 1..MaxTx, Fall(i) PROVE LedgerInv'
    BY <1>32 DEF Fall, Resolve, LedgerCoversNetwork, ReservedPlans
<1>33. ASSUME NEW p \in MeritPlans \cup {NoSignal}, Freeze(p) PROVE LedgerInv'
    BY <1>33 DEF Freeze, LedgerCoversNetwork, ReservedPlans
<1>34. CASE Delegate
    BY <1>34 DEF Delegate, LedgerCoversNetwork, ReservedPlans
<1>35. CASE Tick
    BY <1>35 DEF Tick, LedgerCoversNetwork, ReservedPlans
<1>36. CASE RootLapse
    BY <1>36 DEF RootLapse, Root!Lapse, LedgerCoversNetwork, ReservedPlans
<1>37. CASE SchedLapse
    BY <1>37 DEF SchedLapse, Sched!Lapse, LedgerCoversNetwork, ReservedPlans
<1>38. CASE UNCHANGED vars
    BY <1>38 DEF vars, LedgerCoversNetwork, ReservedPlans
<1>40. QED
    BY <1>1, <1>2, <1>3, <1>4, <1>5, <1>6, <1>6a, <1>7, <1>8, <1>9, <1>10, <1>11,
       <1>12, <1>13, <1>14, <1>15, <1>16, <1>17, <1>18, <1>19, <1>20, <1>21,
       <1>22, <1>23, <1>24, <1>25, <1>26, <1>27, <1>28, <1>29, <1>30, <1>31,
       <1>32, <1>33, <1>34, <1>35, <1>36, <1>37, <1>38 DEF Next,
       Step, Environment

\* No transaction is ever submitted that the ledger has no row for, whatever
\* lapses, crashes, repetitions and lost replies there are.
THEOREM LedgerIsComplete == Spec => []LedgerCoversNetwork
<1>1. LedgerInv => LedgerCoversNetwork
    BY DEF LedgerInv
<1>2. QED
    BY <1>1, InitType, TypeStep, LedgerInit, LedgerStep, PTL DEF Spec

-----------------------------------------------------------------------------
(* What is confirmed was in a block.                                       *)

\* What took effect was on chain; what was not sent yet has no fate.
LandedOnChain == \A i \in 1..MaxTx :
    /\ txState[i] = "landed" => txPlan[i] \in onChain
    /\ i \notin 1..sent => txState[i] = "unsent"

\* An execution waits for the transaction that it submitted itself.
OwnSignature == \A r \in Runs : pc[r] \in {"record", "confirm", "mark"} =>
    /\ ctx[r].sig \in 1..sent
    /\ txPlan[ctx[r].sig] = Plan(r)
    /\ pc[r] = "mark" => txState[ctx[r].sig] \in {"landed", "reverted"}

\* The signature on an attempt row belongs to a transaction for its plan.
RowSignature == \A p \in Plans :
    sigOf[p] # 0 => sigOf[p] \in 1..sent /\ txPlan[sigOf[p]] = p

ChainInv == LandedOnChain /\ OwnSignature /\ RowSignature /\ ConfirmedWasInABlock

LEMMA RecordEffect ==
    TypeOK => \A r \in Runs : Record(r) =>
        \A p \in Plans : sigOf'[p] = IF p = Plan(r) THEN ctx[r].sig ELSE sigOf[p]
BY DEF TypeOK, Record

\* What an execution remembers once it has the signature.
LEMMA SendEffect ==
    TypeOK => \A r \in Runs : Send(r) =>
        \A s \in Runs : /\ ctx'[s].plan = ctx[s].plan
                        /\ ctx'[s].sig = IF s = r THEN sent + 1 ELSE ctx[s].sig
<1> SUFFICES ASSUME TypeOK, NEW r \in Runs, Send(r), NEW s \in Runs
             PROVE  /\ ctx'[s].plan = ctx[s].plan
                    /\ ctx'[s].sig = IF s = r THEN sent + 1 ELSE ctx[s].sig
    OBVIOUS
<1>1. ctx \in [Runs -> Context]
    BY DEF TypeOK
<1>2. ctx'[s] = IF s = r THEN [ctx[r] EXCEPT !.sig = sent + 1] ELSE ctx[s]
    BY <1>1 DEF Send
<1>3. sent + 1 \in 0..MaxTx
    BY SubmitEffect DEF Send
<1>4. QED
    BY <1>1, <1>2, <1>3, ContextUpdates

LEMMA SendSigned == TypeOK => \A r \in Runs : Send(r) => ctx'[r].sig # 0
<1> SUFFICES ASSUME TypeOK, NEW r \in Runs, Send(r) PROVE ctx'[r].sig # 0
    OBVIOUS
<1>1. sent \in Nat
    BY PlansTyped
<1>2. ctx'[r].sig = sent + 1
    BY SendEffect
<1>3. QED
    BY <1>1, <1>2

\* A new transaction takes the place of none that had failed on chain.
LEMMA SubmittedBlocks ==
    TypeOK /\ LandedOnChain =>
        \A r \in Runs : Submit(r) => \A p \in Plans : InABlock(p) => InABlock(p)'
<1> SUFFICES ASSUME TypeOK, LandedOnChain, NEW r \in Runs, Submit(r),
                    NEW p \in Plans, InABlock(p)
             PROVE  InABlock(p)'
    OBVIOUS
<1>1. CASE p \in onChain
    BY <1>1, SubmitEffect DEF InABlock
<1>2. ASSUME NEW i \in 1..MaxTx, txPlan[i] = p, txState[i] = "reverted"
      PROVE  InABlock(p)'
    <2>1. i # sent + 1
        BY <1>2, SubmitEffect DEF LandedOnChain
    <2>2. txPlan'[i] = p /\ txState'[i] = "reverted"
        BY <1>2, <2>1, SubmitEffect
    <2>3. QED
        BY <2>2 DEF InABlock
<1>3. QED
    BY <1>1, <1>2 DEF InABlock

LEMMA ChainInit == Init => ChainInv
BY ConstantTypes
   DEF Init, ChainInv, LandedOnChain, OwnSignature, RowSignature, ConfirmedWasInABlock, InABlock

\* No step breaks ChainInv.
LEMMA ChainStep == TypeOK /\ ChainInv /\ [Next]_vars => ChainInv'
<1> SUFFICES ASSUME TypeOK /\ ChainInv, [Next]_vars PROVE ChainInv'
    OBVIOUS
<1> USE ConstantTypes, PlansTyped, MarkEffect, GotoEffect DEF Plan, locks,
        schedule, ledger, network, operators, ChainInv, Body, Statuses
<1>1. ASSUME NEW r \in Runs, Start(r) PROVE ChainInv'
    BY <1>1 DEF Start, Root!Acquire, LandedOnChain, OwnSignature, RowSignature,
       ConfirmedWasInABlock, InABlock
<1>2. ASSUME NEW r \in Runs, SelectDue(r) PROVE ChainInv'
    BY <1>2 DEF SelectDue, LandedOnChain, OwnSignature, RowSignature,
       ConfirmedWasInABlock, InABlock
<1>3. ASSUME NEW r \in Runs, Finish(r) PROVE ChainInv'
    BY <1>3 DEF Finish, Root!Release, Root!Abandon, LandedOnChain, OwnSignature,
       RowSignature, ConfirmedWasInABlock, InABlock
<1>4. ASSUME NEW r \in Runs, Enter(r) PROVE ChainInv'
    BY <1>4 DEF Enter, Sched!Acquire, LandedOnChain, OwnSignature, RowSignature,
       ConfirmedWasInABlock, InABlock
<1>5. ASSUME NEW r \in Runs, EnterRefused(r) PROVE ChainInv'
    BY <1>5 DEF EnterRefused, LandedOnChain, OwnSignature, RowSignature,
       ConfirmedWasInABlock, InABlock
<1>6. ASSUME NEW r \in Runs, Load(r) PROVE ChainInv'
    BY <1>6 DEF Load, LandedOnChain, OwnSignature, RowSignature, ConfirmedWasInABlock, InABlock
<1>6a. ASSUME NEW r \in Runs, LoadNothing(r) PROVE ChainInv'
    BY <1>6a DEF LoadNothing, LandedOnChain, OwnSignature, RowSignature,
       ConfirmedWasInABlock, InABlock
<1>7. ASSUME NEW r \in Runs, ReserveConfirmed(r) PROVE ChainInv'
    BY <1>7 DEF ReserveConfirmed, LandedOnChain, OwnSignature, RowSignature,
       ConfirmedWasInABlock, InABlock
<1>8. ASSUME NEW r \in Runs, Reserve(r) PROVE ChainInv'
    BY <1>8 DEF Reserve, LandedOnChain, OwnSignature, RowSignature,
       ConfirmedWasInABlock, InABlock
<1>9. ASSUME NEW r \in Runs, AlreadyConfirmed(r) PROVE ChainInv'
    BY <1>9 DEF AlreadyConfirmed, LandedOnChain, OwnSignature, RowSignature,
       ConfirmedWasInABlock, InABlock
<1>10. ASSUME NEW r \in Runs, ProbeConfirms(r) PROVE ChainInv'
    <2>1. InABlock(Plan(r))
        <3>1. /\ sigOf[Plan(r)] \in 1..MaxTx
              /\ txPlan[sigOf[Plan(r)]] = Plan(r)
              /\ txState[sigOf[Plan(r)]] \in {"landed", "reverted"}
            BY <1>10 DEF ProbeConfirms, RowSignature
        <3>2. QED
            BY <3>1 DEF LandedOnChain, InABlock
    <2>2. LandedOnChain'
        BY <1>10, <2>1 DEF ProbeConfirms, LandedOnChain
    <2>3. OwnSignature'
        BY <1>10, <2>1 DEF ProbeConfirms, OwnSignature
    <2>4. RowSignature'
        BY <1>10, <2>1 DEF ProbeConfirms, RowSignature
    <2>5. ConfirmedWasInABlock'
        BY <1>10, <2>1 DEF ProbeConfirms, ConfirmedWasInABlock, InABlock
    <2>6. QED
        BY <2>2, <2>3, <2>4, <2>5
<1>11. ASSUME NEW r \in Runs, NotDelegated(r) PROVE ChainInv'
    BY <1>11 DEF NotDelegated, LandedOnChain, OwnSignature, RowSignature,
       ConfirmedWasInABlock, InABlock
<1>12. ASSUME NEW r \in Runs, BuildFails(r) PROVE ChainInv'
    BY <1>12 DEF BuildFails, LandedOnChain, OwnSignature, RowSignature,
       ConfirmedWasInABlock, InABlock
<1>13. ASSUME NEW r \in Runs, Sign(r) PROVE ChainInv'
    BY <1>13 DEF Sign, LandedOnChain, OwnSignature, RowSignature,
       ConfirmedWasInABlock, InABlock
<1>14. ASSUME NEW r \in Runs, Send(r) PROVE ChainInv'
    <2>1. \A s \in Runs : /\ ctx'[s].plan = ctx[s].plan
                            /\ ctx'[s].sig = IF s = r THEN sent + 1 ELSE ctx[s].sig
        BY <1>14, SendEffect DEF Send
    <2>2. LandedOnChain'
        BY <1>14, <2>1, SubmitEffect DEF Send, LandedOnChain
    <2>3. OwnSignature'
        BY <1>14, <2>1, SubmitEffect DEF Send, OwnSignature
    <2>4. RowSignature'
        BY <1>14, <2>1, SubmitEffect DEF Send, RowSignature
    <2>5. ConfirmedWasInABlock'
        BY <1>14, SubmittedBlocks DEF Send, ConfirmedWasInABlock
    <2>6. QED
        BY <2>2, <2>3, <2>4, <2>5
<1>15. ASSUME NEW r \in Runs, SendFails(r) PROVE ChainInv'
    <2>1. Submit(r) \/ UNCHANGED network
        BY <1>15 DEF SendFails
    <2>2. LandedOnChain'
        BY <1>15, <2>1, SubmitEffect DEF SendFails, LandedOnChain
    <2>3. OwnSignature'
        BY <1>15, <2>1, SubmitEffect DEF SendFails, OwnSignature
    <2>4. RowSignature'
        BY <1>15, <2>1, SubmitEffect DEF SendFails, RowSignature
    <2>5. ConfirmedWasInABlock'
        <3>1. \A p \in Plans : InABlock(p) => InABlock(p)'
            BY <2>1, SubmittedBlocks DEF InABlock
        <3>2. QED
            BY <1>15, <3>1 DEF SendFails, ConfirmedWasInABlock
    <2>6. QED
        BY <2>2, <2>3, <2>4, <2>5
<1>16. ASSUME NEW r \in Runs, Record(r) PROVE ChainInv'
    <2>1. LandedOnChain'
        BY <1>16 DEF Record, LandedOnChain
    <2>2. OwnSignature'
        BY <1>16 DEF Record, OwnSignature
    <2>3. RowSignature'
        BY <1>16, RecordEffect DEF Record, RowSignature, OwnSignature
    <2>4. ConfirmedWasInABlock'
        BY <1>16 DEF Record, ConfirmedWasInABlock, InABlock
    <2>5. QED
        BY <2>1, <2>2, <2>3, <2>4
<1>17. ASSUME NEW r \in Runs, RecordFails(r) PROVE ChainInv'
    BY <1>17 DEF RecordFails, Fault, LandedOnChain, OwnSignature, RowSignature,
       ConfirmedWasInABlock, InABlock
<1>18. ASSUME NEW r \in Runs, Confirm(r) PROVE ChainInv'
    <2>1. txState[ctx[r].sig] \in {"landed", "reverted"}
        BY <1>18 DEF Confirm, LandedOnChain, OwnSignature, RowSignature
    <2>2. LandedOnChain'
        BY <1>18, <2>1 DEF Confirm, LandedOnChain
    <2>3. OwnSignature'
        BY <1>18, <2>1 DEF Confirm, OwnSignature
    <2>4. RowSignature'
        BY <1>18, <2>1 DEF Confirm, RowSignature
    <2>5. ConfirmedWasInABlock'
        BY <1>18, <2>1 DEF Confirm, ConfirmedWasInABlock, InABlock
    <2>6. QED
        BY <2>2, <2>3, <2>4, <2>5
<1>19. ASSUME NEW r \in Runs, ConfirmFails(r) PROVE ChainInv'
    BY <1>19 DEF ConfirmFails, LandedOnChain, OwnSignature, RowSignature,
       ConfirmedWasInABlock, InABlock
<1>20. ASSUME NEW r \in Runs, MarkConfirmed(r) PROVE ChainInv'
    <2>1. InABlock(Plan(r))
        <3>1. /\ ctx[r].sig \in 1..MaxTx
              /\ txPlan[ctx[r].sig] = Plan(r)
              /\ txState[ctx[r].sig] \in {"landed", "reverted"}
            BY <1>20 DEF MarkConfirmed, OwnSignature
        <3>2. QED
            BY <3>1 DEF LandedOnChain, InABlock
    <2>2. LandedOnChain'
        BY <1>20, <2>1 DEF MarkConfirmed, LandedOnChain
    <2>3. OwnSignature'
        BY <1>20, <2>1 DEF MarkConfirmed, OwnSignature
    <2>4. RowSignature'
        BY <1>20, <2>1 DEF MarkConfirmed, RowSignature
    <2>5. ConfirmedWasInABlock'
        BY <1>20, <2>1 DEF MarkConfirmed, ConfirmedWasInABlock, InABlock
    <2>6. QED
        BY <2>2, <2>3, <2>4, <2>5
<1>21. ASSUME NEW r \in Runs, ReturnConfirmed(r) PROVE ChainInv'
    BY <1>21 DEF ReturnConfirmed, LandedOnChain, OwnSignature, RowSignature,
       ConfirmedWasInABlock, InABlock
<1>22. ASSUME NEW r \in Runs, WriteSlot(r) PROVE ChainInv'
    BY <1>22 DEF WriteSlot, LandedOnChain, OwnSignature, RowSignature,
       ConfirmedWasInABlock, InABlock
<1>23. ASSUME NEW r \in Runs, Advance(r) PROVE ChainInv'
    BY <1>23, AdvanceEffect DEF Advance, LandedOnChain, OwnSignature, RowSignature,
       ConfirmedWasInABlock, InABlock
<1>24. ASSUME NEW r \in Runs, Audit(r) PROVE ChainInv'
    BY <1>24 DEF Audit, LandedOnChain, OwnSignature, RowSignature,
       ConfirmedWasInABlock, InABlock
<1>25. ASSUME NEW r \in Runs, BackOff(r) PROVE ChainInv'
    BY <1>25 DEF BackOff, LandedOnChain, OwnSignature, RowSignature,
       ConfirmedWasInABlock, InABlock
<1>26. ASSUME NEW r \in Runs, Leave(r) PROVE ChainInv'
    BY <1>26 DEF Leave, Sched!Release, LandedOnChain, OwnSignature, RowSignature,
       ConfirmedWasInABlock, InABlock
<1>27. ASSUME NEW r \in Runs, Throw(r) PROVE ChainInv'
    BY <1>27 DEF Throw, Sched!Release, Resume, Fault, LandedOnChain, OwnSignature,
       RowSignature, ConfirmedWasInABlock, InABlock
<1>28. ASSUME NEW r \in Runs, Crash(r) PROVE ChainInv'
    BY <1>28 DEF Crash, Sched!Abandon, Resume, Fault, LandedOnChain, OwnSignature,
       RowSignature, ConfirmedWasInABlock, InABlock
<1>29. ASSUME NEW r \in Runs, ClaimLost(r) PROVE ChainInv'
    BY <1>29 DEF ClaimLost, Root!Orphan, Sched!Orphan, Fault, LandedOnChain,
       OwnSignature, RowSignature, ConfirmedWasInABlock, InABlock
<1>30. ASSUME NEW r \in Runs, Reexecute(r) PROVE ChainInv'
    BY <1>30 DEF Reexecute, StepStart, Fault, LandedOnChain, OwnSignature,
       RowSignature, ConfirmedWasInABlock, InABlock
<1>31. ASSUME NEW i \in 1..MaxTx, Land(i) PROVE ChainInv'
    BY <1>31 DEF Land, Resolve, LandedOnChain, OwnSignature, RowSignature,
       ConfirmedWasInABlock, InABlock
<1>32. ASSUME NEW i \in 1..MaxTx, Fall(i) PROVE ChainInv'
    <2>1. PICK fate \in {"dropped", "reverted"} : Resolve(i, fate)
        BY <1>32 DEF Fall
    <2>2. \A j \in 1..MaxTx : txState'[j] = IF j = i THEN fate ELSE txState[j]
        BY <2>1 DEF Resolve, TypeOK
    <2>3. /\ txState[i] = "flight"
          /\ UNCHANGED <<pc, ctx, sigOf, attempt, sent, txPlan, chain, onChain>>
        BY <1>32, <2>1 DEF Resolve, Fall
    <2>4. LandedOnChain'
        BY <2>2, <2>3 DEF LandedOnChain
    <2>5. OwnSignature'
        BY <2>2, <2>3 DEF OwnSignature
    <2>6. RowSignature'
        BY <2>3 DEF RowSignature
    <2>7. ConfirmedWasInABlock'
        BY <2>2, <2>3 DEF ConfirmedWasInABlock, InABlock
    <2>8. QED
        BY <2>4, <2>5, <2>6, <2>7
<1>33. ASSUME NEW p \in MeritPlans \cup {NoSignal}, Freeze(p) PROVE ChainInv'
    BY <1>33 DEF Freeze, LandedOnChain, OwnSignature, RowSignature,
       ConfirmedWasInABlock, InABlock
<1>34. CASE Delegate
    BY <1>34 DEF Delegate, LandedOnChain, OwnSignature, RowSignature,
       ConfirmedWasInABlock, InABlock
<1>35. CASE Tick
    BY <1>35 DEF Tick, LandedOnChain, OwnSignature, RowSignature,
       ConfirmedWasInABlock, InABlock
<1>36. CASE RootLapse
    BY <1>36 DEF RootLapse, Root!Lapse, LandedOnChain, OwnSignature, RowSignature,
       ConfirmedWasInABlock, InABlock
<1>37. CASE SchedLapse
    BY <1>37 DEF SchedLapse, Sched!Lapse, LandedOnChain, OwnSignature,
       RowSignature, ConfirmedWasInABlock, InABlock
<1>38. CASE UNCHANGED vars
    BY <1>38 DEF vars, LandedOnChain, OwnSignature, RowSignature,
       ConfirmedWasInABlock, InABlock
<1>40. QED
    BY <1>1, <1>2, <1>3, <1>4, <1>5, <1>6, <1>6a, <1>7, <1>8, <1>9, <1>10, <1>11,
       <1>12, <1>13, <1>14, <1>15, <1>16, <1>17, <1>18, <1>19, <1>20, <1>21,
       <1>22, <1>23, <1>24, <1>25, <1>26, <1>27, <1>28, <1>29, <1>30, <1>31,
       <1>32, <1>33, <1>34, <1>35, <1>36, <1>37, <1>38 DEF Next,
       Step, Environment

\* A plan is recorded as confirmed only if a transaction for it was in a block,
\* where it may have failed: no confirmation reads the transaction's error.
THEOREM ConfirmedPlansWereInABlock == Spec => []ConfirmedWasInABlock
<1>1. ChainInv => ConfirmedWasInABlock
    BY DEF ChainInv
<1>2. QED
    BY <1>1, InitType, TypeStep, ChainInit, ChainStep, PTL DEF Spec

-----------------------------------------------------------------------------
(* Confirmations are final, and the mirror follows them.                   *)

RowSigned == \A p \in Plans : attempt[p] = "confirmed" => sigOf[p] # 0

\* What the execution in the body knows of its plan's row.
OwnRow == \A r \in Runs :
    /\ pc[r] = "record" => ctx[r].sig # 0
    /\ pc[r] \in {"confirm", "mark"} => sigOf[Plan(r)] # 0
    /\ pc[r] \in {"send", "record", "confirm", "mark"} =>
           attempt[Plan(r)] # "confirmed"
    /\ pc[r] \in {"confirmed", "write", "audit"} => attempt[Plan(r)] = "confirmed"

ConfirmedStays == \A p \in Plans : attempt[p] = "confirmed" => attempt'[p] = "confirmed"

RowInv == RowSigned /\ OwnRow /\ MirrorFollowsLedger

LEMMA RowInit == Init => RowInv
BY ConstantTypes DEF Init, RowInv, RowSigned, OwnRow, MirrorFollowsLedger

\* Every step is as ConfirmedStays says.
LEMMA ConfirmedStaysStep == TypeOK /\ RowInv /\ [Next]_vars => ConfirmedStays
<1> SUFFICES ASSUME TypeOK /\ RowInv, [Next]_vars PROVE ConfirmedStays
    OBVIOUS
<1> USE PlansTyped, MarkEffect DEF Plan, locks, schedule, ledger, network,
        operators, RowInv, Body, Statuses, RowSigned, OwnRow
<1>1. ASSUME NEW r \in Runs, Start(r) PROVE ConfirmedStays
    BY <1>1 DEF Start, Root!Acquire, ConfirmedStays
<1>2. ASSUME NEW r \in Runs, SelectDue(r) PROVE ConfirmedStays
    BY <1>2 DEF SelectDue, ConfirmedStays
<1>3. ASSUME NEW r \in Runs, Finish(r) PROVE ConfirmedStays
    BY <1>3 DEF Finish, Root!Release, Root!Abandon, ConfirmedStays
<1>4. ASSUME NEW r \in Runs, Enter(r) PROVE ConfirmedStays
    BY <1>4 DEF Enter, Sched!Acquire, ConfirmedStays
<1>5. ASSUME NEW r \in Runs, EnterRefused(r) PROVE ConfirmedStays
    BY <1>5 DEF EnterRefused, ConfirmedStays
<1>6. ASSUME NEW r \in Runs, Load(r) PROVE ConfirmedStays
    BY <1>6 DEF Load, ConfirmedStays
<1>6a. ASSUME NEW r \in Runs, LoadNothing(r) PROVE ConfirmedStays
    BY <1>6a DEF LoadNothing, ConfirmedStays
<1>7. ASSUME NEW r \in Runs, ReserveConfirmed(r) PROVE ConfirmedStays
    BY <1>7 DEF ReserveConfirmed, ConfirmedStays
<1>8. ASSUME NEW r \in Runs, Reserve(r) PROVE ConfirmedStays
    BY <1>8 DEF Reserve, ConfirmedStays
<1>9. ASSUME NEW r \in Runs, AlreadyConfirmed(r) PROVE ConfirmedStays
    BY <1>9 DEF AlreadyConfirmed, ConfirmedStays
<1>10. ASSUME NEW r \in Runs, ProbeConfirms(r) PROVE ConfirmedStays
    BY <1>10 DEF ProbeConfirms, ConfirmedStays
<1>11. ASSUME NEW r \in Runs, NotDelegated(r) PROVE ConfirmedStays
    BY <1>11 DEF NotDelegated, ConfirmedStays
<1>12. ASSUME NEW r \in Runs, BuildFails(r) PROVE ConfirmedStays
    <2>1. attempt[Plan(r)] # "confirmed"
        BY <1>12 DEF BuildFails, PersistedConfirmed
    <2>2. ConfirmedStays
        BY <1>12, <2>1 DEF BuildFails, ConfirmedStays
    <2>3. QED
        BY <2>2
<1>13. ASSUME NEW r \in Runs, Sign(r) PROVE ConfirmedStays
    <2>1. attempt[Plan(r)] # "confirmed"
        BY <1>13 DEF Sign, PersistedConfirmed
    <2>2. ConfirmedStays
        BY <1>13, <2>1 DEF Sign, ConfirmedStays
    <2>3. QED
        BY <2>2
<1>14. ASSUME NEW r \in Runs, Send(r) PROVE ConfirmedStays
    BY <1>14 DEF Send, ConfirmedStays
<1>15. ASSUME NEW r \in Runs, SendFails(r) PROVE ConfirmedStays
    BY <1>15 DEF SendFails, ConfirmedStays
<1>16. ASSUME NEW r \in Runs, Record(r) PROVE ConfirmedStays
    BY <1>16 DEF Record, ConfirmedStays
<1>17. ASSUME NEW r \in Runs, RecordFails(r) PROVE ConfirmedStays
    BY <1>17 DEF RecordFails, Fault, ConfirmedStays
<1>18. ASSUME NEW r \in Runs, Confirm(r) PROVE ConfirmedStays
    BY <1>18 DEF Confirm, ConfirmedStays
<1>19. ASSUME NEW r \in Runs, ConfirmFails(r) PROVE ConfirmedStays
    BY <1>19 DEF ConfirmFails, ConfirmedStays
<1>20. ASSUME NEW r \in Runs, MarkConfirmed(r) PROVE ConfirmedStays
    BY <1>20 DEF MarkConfirmed, ConfirmedStays
<1>21. ASSUME NEW r \in Runs, ReturnConfirmed(r) PROVE ConfirmedStays
    BY <1>21 DEF ReturnConfirmed, ConfirmedStays
<1>22. ASSUME NEW r \in Runs, WriteSlot(r) PROVE ConfirmedStays
    BY <1>22 DEF WriteSlot, ConfirmedStays
<1>23. ASSUME NEW r \in Runs, Advance(r) PROVE ConfirmedStays
    BY <1>23 DEF Advance, ConfirmedStays
<1>24. ASSUME NEW r \in Runs, Audit(r) PROVE ConfirmedStays
    BY <1>24 DEF Audit, ConfirmedStays
<1>25. ASSUME NEW r \in Runs, BackOff(r) PROVE ConfirmedStays
    BY <1>25 DEF BackOff, ConfirmedStays
<1>26. ASSUME NEW r \in Runs, Leave(r) PROVE ConfirmedStays
    BY <1>26 DEF Leave, Sched!Release, ConfirmedStays
<1>27. ASSUME NEW r \in Runs, Throw(r) PROVE ConfirmedStays
    BY <1>27 DEF Throw, Sched!Release, Resume, Fault, ConfirmedStays
<1>28. ASSUME NEW r \in Runs, Crash(r) PROVE ConfirmedStays
    BY <1>28 DEF Crash, Sched!Abandon, Resume, Fault, ConfirmedStays
<1>29. ASSUME NEW r \in Runs, ClaimLost(r) PROVE ConfirmedStays
    BY <1>29 DEF ClaimLost, Root!Orphan, Sched!Orphan, Fault, ConfirmedStays
<1>30. ASSUME NEW r \in Runs, Reexecute(r) PROVE ConfirmedStays
    BY <1>30 DEF Reexecute, StepStart, Fault, ConfirmedStays
<1>31. ASSUME NEW i \in 1..MaxTx, Land(i) PROVE ConfirmedStays
    BY <1>31 DEF Land, Resolve, ConfirmedStays
<1>32. ASSUME NEW i \in 1..MaxTx, Fall(i) PROVE ConfirmedStays
    BY <1>32 DEF Fall, Resolve, ConfirmedStays
<1>33. ASSUME NEW p \in MeritPlans \cup {NoSignal}, Freeze(p) PROVE ConfirmedStays
    BY <1>33 DEF Freeze, ConfirmedStays
<1>34. CASE Delegate
    BY <1>34 DEF Delegate, ConfirmedStays
<1>35. CASE Tick
    BY <1>35 DEF Tick, ConfirmedStays
<1>36. CASE RootLapse
    BY <1>36 DEF RootLapse, Root!Lapse, ConfirmedStays
<1>37. CASE SchedLapse
    BY <1>37 DEF SchedLapse, Sched!Lapse, ConfirmedStays
<1>38. CASE UNCHANGED vars
    BY <1>38 DEF vars, ConfirmedStays
<1>40. QED
    BY <1>1, <1>2, <1>3, <1>4, <1>5, <1>6, <1>6a, <1>7, <1>8, <1>9, <1>10, <1>11,
       <1>12, <1>13, <1>14, <1>15, <1>16, <1>17, <1>18, <1>19, <1>20, <1>21,
       <1>22, <1>23, <1>24, <1>25, <1>26, <1>27, <1>28, <1>29, <1>30, <1>31,
       <1>32, <1>33, <1>34, <1>35, <1>36, <1>37, <1>38 DEF Next,
       Step, Environment

LEMMA OthersOutside ==
    SchedInv => \A r, s \in Runs : pc[r] \in Body /\ s # r => pc[s] \notin Body
BY DEF SchedInv

\* No step breaks RowInv.
LEMMA RowStep == TypeOK /\ SchedInv /\ RowInv /\ [Next]_vars => RowInv'
<1> SUFFICES ASSUME TypeOK /\ SchedInv /\ RowInv, [Next]_vars PROVE RowInv'
    OBVIOUS
<1>0. ConfirmedStays
    BY ConfirmedStaysStep
<1> USE PlansTyped, MarkEffect, GotoEffect, OthersOutside DEF Plan, locks,
        schedule, ledger, network, operators, RowInv, Body, Statuses
<1>1. ASSUME NEW r \in Runs, Start(r) PROVE RowInv'
    BY <1>1 DEF Start, Root!Acquire, RowSigned, OwnRow, MirrorFollowsLedger
<1>2. ASSUME NEW r \in Runs, SelectDue(r) PROVE RowInv'
    BY <1>2 DEF SelectDue, RowSigned, OwnRow, MirrorFollowsLedger
<1>3. ASSUME NEW r \in Runs, Finish(r) PROVE RowInv'
    BY <1>3 DEF Finish, Root!Release, Root!Abandon, RowSigned, OwnRow,
       MirrorFollowsLedger
<1>4. ASSUME NEW r \in Runs, Enter(r) PROVE RowInv'
    BY <1>4 DEF Enter, Sched!Acquire, RowSigned, OwnRow, MirrorFollowsLedger
<1>5. ASSUME NEW r \in Runs, EnterRefused(r) PROVE RowInv'
    BY <1>5 DEF EnterRefused, RowSigned, OwnRow, MirrorFollowsLedger
<1>6. ASSUME NEW r \in Runs, Load(r) PROVE RowInv'
    BY <1>6 DEF Load, RowSigned, OwnRow, MirrorFollowsLedger
<1>6a. ASSUME NEW r \in Runs, LoadNothing(r) PROVE RowInv'
    BY <1>6a DEF LoadNothing, RowSigned, OwnRow, MirrorFollowsLedger
<1>7. ASSUME NEW r \in Runs, ReserveConfirmed(r) PROVE RowInv'
    BY <1>7 DEF ReserveConfirmed, RowSigned, OwnRow, MirrorFollowsLedger
<1>8. ASSUME NEW r \in Runs, Reserve(r) PROVE RowInv'
    BY <1>8 DEF Reserve, RowSigned, OwnRow, MirrorFollowsLedger
<1>9. ASSUME NEW r \in Runs, AlreadyConfirmed(r) PROVE RowInv'
    <2>1. RowSigned'
        BY <1>9 DEF AlreadyConfirmed, RowSigned
    <2>2. OwnRow'
        BY <1>9 DEF AlreadyConfirmed, OwnRow, PersistedConfirmed
    <2>3. MirrorFollowsLedger'
        BY <1>9 DEF AlreadyConfirmed, MirrorFollowsLedger
    <2>4. QED
        BY <2>1, <2>2, <2>3
<1>10. ASSUME NEW r \in Runs, ProbeConfirms(r) PROVE RowInv'
    BY <1>10 DEF ProbeConfirms, RowSigned, OwnRow, MirrorFollowsLedger
<1>11. ASSUME NEW r \in Runs, NotDelegated(r) PROVE RowInv'
    BY <1>11 DEF NotDelegated, RowSigned, OwnRow, MirrorFollowsLedger
<1>12. ASSUME NEW r \in Runs, BuildFails(r) PROVE RowInv'
    <2>1. RowSigned'
        BY <1>12 DEF BuildFails, RowSigned
    <2>2. OwnRow'
        BY <1>12 DEF BuildFails, OwnRow
    <2>3. MirrorFollowsLedger'
        BY <1>12, <1>0 DEF BuildFails, MirrorFollowsLedger, ConfirmedStays
    <2>4. QED
        BY <2>1, <2>2, <2>3
<1>13. ASSUME NEW r \in Runs, Sign(r) PROVE RowInv'
    <2>1. RowSigned'
        BY <1>13 DEF Sign, RowSigned
    <2>2. OwnRow'
        BY <1>13 DEF Sign, OwnRow
    <2>3. MirrorFollowsLedger'
        BY <1>13, <1>0 DEF Sign, MirrorFollowsLedger, ConfirmedStays
    <2>4. QED
        BY <2>1, <2>2, <2>3
<1>14. ASSUME NEW r \in Runs, Send(r) PROVE RowInv'
    <2>1. \A s \in Runs : ctx'[s].plan = ctx[s].plan
        BY <1>14, SendEffect DEF Send
    <2>2. ctx'[r].sig # 0
        BY <1>14, SendSigned DEF Send
    <2>3. RowSigned'
        BY <1>14, <2>1, <2>2 DEF Send, RowSigned
    <2>4. OwnRow'
        BY <1>14, <2>1, <2>2 DEF Send, OwnRow
    <2>5. MirrorFollowsLedger'
        BY <1>14, <2>1, <2>2 DEF Send, MirrorFollowsLedger
    <2>6. QED
        BY <2>3, <2>4, <2>5
<1>15. ASSUME NEW r \in Runs, SendFails(r) PROVE RowInv'
    <2>1. RowSigned'
        BY <1>15 DEF SendFails, RowSigned
    <2>2. OwnRow'
        BY <1>15 DEF SendFails, OwnRow
    <2>3. MirrorFollowsLedger'
        BY <1>15, <1>0 DEF SendFails, MirrorFollowsLedger, ConfirmedStays
    <2>4. QED
        BY <2>1, <2>2, <2>3
<1>16. ASSUME NEW r \in Runs, Record(r) PROVE RowInv'
    <2>1. \A p \in Plans : sigOf'[p] = IF p = Plan(r) THEN ctx[r].sig ELSE sigOf[p]
        BY <1>16, RecordEffect DEF Record
    <2>2. ctx[r].sig # 0
        BY <1>16 DEF Record, OwnRow
    <2>3. RowSigned'
        BY <1>16, <2>1, <2>2 DEF Record, RowSigned
    <2>4. OwnRow'
        BY <1>16, <2>1, <2>2 DEF Record, OwnRow
    <2>5. MirrorFollowsLedger'
        BY <1>16, <2>1, <2>2, <1>0 DEF Record, MirrorFollowsLedger, ConfirmedStays
    <2>6. QED
        BY <2>3, <2>4, <2>5
<1>17. ASSUME NEW r \in Runs, RecordFails(r) PROVE RowInv'
    <2>1. RowSigned'
        BY <1>17 DEF RecordFails, Fault, RowSigned
    <2>2. OwnRow'
        BY <1>17 DEF RecordFails, Fault, OwnRow
    <2>3. MirrorFollowsLedger'
        BY <1>17, <1>0 DEF RecordFails, Fault, MirrorFollowsLedger, ConfirmedStays
    <2>4. QED
        BY <2>1, <2>2, <2>3
<1>18. ASSUME NEW r \in Runs, Confirm(r) PROVE RowInv'
    BY <1>18 DEF Confirm, RowSigned, OwnRow, MirrorFollowsLedger
<1>19. ASSUME NEW r \in Runs, ConfirmFails(r) PROVE RowInv'
    <2>1. RowSigned'
        BY <1>19 DEF ConfirmFails, RowSigned
    <2>2. OwnRow'
        BY <1>19 DEF ConfirmFails, OwnRow
    <2>3. MirrorFollowsLedger'
        BY <1>19, <1>0 DEF ConfirmFails, MirrorFollowsLedger, ConfirmedStays
    <2>4. QED
        BY <2>1, <2>2, <2>3
<1>20. ASSUME NEW r \in Runs, MarkConfirmed(r) PROVE RowInv'
    <2>1. sigOf[Plan(r)] # 0
        BY <1>20 DEF MarkConfirmed, OwnRow
    <2>2. RowSigned'
        BY <1>20, <2>1 DEF MarkConfirmed, RowSigned
    <2>3. OwnRow'
        BY <1>20, <2>1 DEF MarkConfirmed, OwnRow
    <2>4. MirrorFollowsLedger'
        BY <1>20, <2>1, <1>0 DEF MarkConfirmed, MirrorFollowsLedger, ConfirmedStays
    <2>5. QED
        BY <2>2, <2>3, <2>4
<1>21. ASSUME NEW r \in Runs, ReturnConfirmed(r) PROVE RowInv'
    BY <1>21 DEF ReturnConfirmed, RowSigned, OwnRow, MirrorFollowsLedger
<1>22. ASSUME NEW r \in Runs, WriteSlot(r) PROVE RowInv'
    <2>1. attempt[Plan(r)] = "confirmed"
        BY <1>22 DEF WriteSlot, OwnRow
    <2>2. \A i \in 1..N : slots'[i] = IF i = ctx[r].cursor THEN Plan(r)[i] ELSE slots[i]
        BY <1>22 DEF WriteSlot, TypeOK, Plans
    <2>3. RowSigned'
        BY <1>22, <2>1, <2>2 DEF WriteSlot, RowSigned
    <2>4. OwnRow'
        BY <1>22, <2>1, <2>2 DEF WriteSlot, OwnRow
    <2>5. MirrorFollowsLedger'
        BY <1>22, <2>1, <2>2 DEF WriteSlot, MirrorFollowsLedger
    <2>6. QED
        BY <2>3, <2>4, <2>5
<1>23. ASSUME NEW r \in Runs, Advance(r) PROVE RowInv'
    BY <1>23, AdvanceEffect DEF Advance, RowSigned, OwnRow, MirrorFollowsLedger
<1>24. ASSUME NEW r \in Runs, Audit(r) PROVE RowInv'
    BY <1>24 DEF Audit, RowSigned, OwnRow, MirrorFollowsLedger
<1>25. ASSUME NEW r \in Runs, BackOff(r) PROVE RowInv'
    BY <1>25 DEF BackOff, RowSigned, OwnRow, MirrorFollowsLedger
<1>26. ASSUME NEW r \in Runs, Leave(r) PROVE RowInv'
    BY <1>26 DEF Leave, Sched!Release, RowSigned, OwnRow, MirrorFollowsLedger
<1>27. ASSUME NEW r \in Runs, Throw(r) PROVE RowInv'
    BY <1>27 DEF Throw, Sched!Release, Resume, Fault, RowSigned, OwnRow,
       MirrorFollowsLedger
<1>28. ASSUME NEW r \in Runs, Crash(r) PROVE RowInv'
    BY <1>28 DEF Crash, Sched!Abandon, Resume, Fault, RowSigned, OwnRow,
       MirrorFollowsLedger
<1>29. ASSUME NEW r \in Runs, ClaimLost(r) PROVE RowInv'
    BY <1>29 DEF ClaimLost, Root!Orphan, Sched!Orphan, Fault, RowSigned, OwnRow,
       MirrorFollowsLedger
<1>30. ASSUME NEW r \in Runs, Reexecute(r) PROVE RowInv'
    BY <1>30 DEF Reexecute, StepStart, Fault, RowSigned, OwnRow, MirrorFollowsLedger
<1>31. ASSUME NEW i \in 1..MaxTx, Land(i) PROVE RowInv'
    BY <1>31 DEF Land, Resolve, RowSigned, OwnRow, MirrorFollowsLedger
<1>32. ASSUME NEW i \in 1..MaxTx, Fall(i) PROVE RowInv'
    BY <1>32 DEF Fall, Resolve, RowSigned, OwnRow, MirrorFollowsLedger
<1>33. ASSUME NEW p \in MeritPlans \cup {NoSignal}, Freeze(p) PROVE RowInv'
    BY <1>33 DEF Freeze, RowSigned, OwnRow, MirrorFollowsLedger
<1>34. CASE Delegate
    BY <1>34 DEF Delegate, RowSigned, OwnRow, MirrorFollowsLedger
<1>35. CASE Tick
    BY <1>35 DEF Tick, RowSigned, OwnRow, MirrorFollowsLedger
<1>36. CASE RootLapse
    BY <1>36 DEF RootLapse, Root!Lapse, RowSigned, OwnRow, MirrorFollowsLedger
<1>37. CASE SchedLapse
    BY <1>37 DEF SchedLapse, Sched!Lapse, RowSigned, OwnRow, MirrorFollowsLedger
<1>38. CASE UNCHANGED vars
    BY <1>38 DEF vars, RowSigned, OwnRow, MirrorFollowsLedger
<1>40. QED
    BY <1>1, <1>2, <1>3, <1>4, <1>5, <1>6, <1>6a, <1>7, <1>8, <1>9, <1>10, <1>11,
       <1>12, <1>13, <1>14, <1>15, <1>16, <1>17, <1>18, <1>19, <1>20, <1>21,
       <1>22, <1>23, <1>24, <1>25, <1>26, <1>27, <1>28, <1>29, <1>30, <1>31,
       <1>32, <1>33, <1>34, <1>35, <1>36, <1>37, <1>38 DEF Next,
       Step, Environment

\* No later attempt takes a confirmation back, if leases outlast executions.
THEOREM ConfirmationIsFinal ==
    ASSUME LeaseMayLapse = FALSE PROVE Spec => ConfirmedIsFinal
<1>1. ConfirmedStays \/ UNCHANGED vars
          => [\A p \in Plans : attempt[p] = "confirmed" => attempt'[p] = "confirmed"]_vars
    BY DEF ConfirmedStays
<1>2. TypeOK /\ RowInv /\ [Next]_vars
          => [\A p \in Plans : attempt[p] = "confirmed" => attempt'[p] = "confirmed"]_vars
    BY <1>1, ConfirmedStaysStep
<1>3. QED
    BY <1>2, InitType, TypeStep, SchedInit, SchedStep, RowInit, RowStep, PTL
       DEF Spec, ConfirmedIsFinal

\* Every mirrored weight comes from the launch or from a confirmed plan.
THEOREM MirrorIsConfirmed ==
    ASSUME LeaseMayLapse = FALSE PROVE Spec => []MirrorFollowsLedger
<1>1. RowInv => MirrorFollowsLedger
    BY DEF RowInv
<1>2. QED
    BY <1>1, InitType, TypeStep, SchedInit, SchedStep, RowInit, RowStep, PTL DEF
       Spec

-----------------------------------------------------------------------------
(* Rebalances are counted one by one.                                      *)

\* The total an execution works from is the schedule's, until it has advanced
\* the schedule itself.
TotalInv == \A r \in Runs : pc[r] \in Body \ {"load", "leave"} =>
    total = IF ctx[r].counted THEN Succ(ctx[r].total) ELSE ctx[r].total

\* What EachPassCountsOnce says of a step.
OneMore ==
    /\ \A r \in Runs : Counts(r) =>
          total' = IF ctx[r].counted THEN total ELSE Succ(total)
    /\ (\A r \in Runs : ~Counts(r)) => total' = total

LEMMA TotalInit == Init => TotalInv
BY DEF Init, TotalInv, Body

\* No update of an execution's memory but the first changes its total, and only
\* the advance its having counted.
LEMMA TotalKept ==
    TypeOK => \A r \in Runs :
        ReserveConfirmed(r) \/ AlreadyConfirmed(r) \/ ProbeConfirms(r) \/ Send(r)
        \/ WriteSlot(r) \/ Reexecute(r) =>
            \A s \in Runs :
                ctx'[s].total = ctx[s].total /\ ctx'[s].counted = ctx[s].counted
<1> SUFFICES ASSUME TypeOK, NEW r \in Runs,
                    ReserveConfirmed(r) \/ AlreadyConfirmed(r) \/ ProbeConfirms(r)
                    \/ Send(r) \/ WriteSlot(r) \/ Reexecute(r),
                    NEW s \in Runs
             PROVE  ctx'[s].total = ctx[s].total /\ ctx'[s].counted = ctx[s].counted
    OBVIOUS
<1>1. ctx \in [Runs -> Context] /\ Plan(r) \in Plans
    BY PlansTyped DEF TypeOK
<1>2. \A c \in Context : \A x : /\ [c EXCEPT !.sig = x].total = c.total
                               /\ [c EXCEPT !.cursor = x].total = c.total
                               /\ [c EXCEPT !.sig = x].counted = c.counted
                               /\ [c EXCEPT !.cursor = x].counted = c.counted
    BY DEF Context
<1>3. (\E x : ctx' = [ctx EXCEPT ![r].sig = x]) \/ (\E x : ctx' = [ctx EXCEPT ![r].cursor = x])
    BY DEF ReserveConfirmed, AlreadyConfirmed, ProbeConfirms, Send, WriteSlot,
       Reexecute
<1>4. CASE \E x : ctx' = [ctx EXCEPT ![r].sig = x]
    BY <1>1, <1>2, <1>4
<1>5. CASE \E x : ctx' = [ctx EXCEPT ![r].cursor = x]
    BY <1>1, <1>2, <1>5
<1>6. QED
    BY <1>3, <1>4, <1>5

\* Every step is as OneMore says.
LEMMA OneMoreStep == TypeOK /\ SchedInv /\ TotalInv /\ [Next]_vars => OneMore
<1> SUFFICES ASSUME TypeOK /\ SchedInv /\ TotalInv, [Next]_vars PROVE OneMore
    OBVIOUS
<1> USE GotoEffect DEF locks, schedule, ledger, network, operators, Body, OneMore, Counts
<1>1. ASSUME NEW r \in Runs, Start(r) PROVE OneMore
    BY <1>1 DEF Start, Root!Acquire
<1>2. ASSUME NEW r \in Runs, SelectDue(r) PROVE OneMore
    BY <1>2 DEF SelectDue
<1>3. ASSUME NEW r \in Runs, Finish(r) PROVE OneMore
    BY <1>3 DEF Finish, Root!Release, Root!Abandon
<1>4. ASSUME NEW r \in Runs, Enter(r) PROVE OneMore
    BY <1>4 DEF Enter, Sched!Acquire
<1>5. ASSUME NEW r \in Runs, EnterRefused(r) PROVE OneMore
    BY <1>5 DEF EnterRefused
<1>6. ASSUME NEW r \in Runs, Load(r) PROVE OneMore
    BY <1>6 DEF Load
<1>6a. ASSUME NEW r \in Runs, LoadNothing(r) PROVE OneMore
    BY <1>6a DEF LoadNothing
<1>7. ASSUME NEW r \in Runs, ReserveConfirmed(r) PROVE OneMore
    BY <1>7 DEF ReserveConfirmed
<1>8. ASSUME NEW r \in Runs, Reserve(r) PROVE OneMore
    BY <1>8 DEF Reserve
<1>9. ASSUME NEW r \in Runs, AlreadyConfirmed(r) PROVE OneMore
    BY <1>9 DEF AlreadyConfirmed
<1>10. ASSUME NEW r \in Runs, ProbeConfirms(r) PROVE OneMore
    BY <1>10 DEF ProbeConfirms
<1>11. ASSUME NEW r \in Runs, NotDelegated(r) PROVE OneMore
    BY <1>11 DEF NotDelegated
<1>12. ASSUME NEW r \in Runs, BuildFails(r) PROVE OneMore
    BY <1>12 DEF BuildFails
<1>13. ASSUME NEW r \in Runs, Sign(r) PROVE OneMore
    BY <1>13 DEF Sign
<1>14. ASSUME NEW r \in Runs, Send(r) PROVE OneMore
    BY <1>14 DEF Send
<1>15. ASSUME NEW r \in Runs, SendFails(r) PROVE OneMore
    BY <1>15 DEF SendFails
<1>16. ASSUME NEW r \in Runs, Record(r) PROVE OneMore
    BY <1>16 DEF Record
<1>17. ASSUME NEW r \in Runs, RecordFails(r) PROVE OneMore
    BY <1>17 DEF RecordFails, Fault
<1>18. ASSUME NEW r \in Runs, Confirm(r) PROVE OneMore
    BY <1>18 DEF Confirm
<1>19. ASSUME NEW r \in Runs, ConfirmFails(r) PROVE OneMore
    BY <1>19 DEF ConfirmFails
<1>20. ASSUME NEW r \in Runs, MarkConfirmed(r) PROVE OneMore
    BY <1>20 DEF MarkConfirmed
<1>21. ASSUME NEW r \in Runs, ReturnConfirmed(r) PROVE OneMore
    BY <1>21 DEF ReturnConfirmed
<1>22. ASSUME NEW r \in Runs, WriteSlot(r) PROVE OneMore
    BY <1>22 DEF WriteSlot
<1>23. ASSUME NEW r \in Runs, Advance(r) PROVE OneMore
    <2>1. \A s \in Runs : Counts(s) <=> s = r
        BY <1>23 DEF Advance
    <2>2. total = IF ctx[r].counted THEN Succ(ctx[r].total) ELSE ctx[r].total
        BY <1>23 DEF Advance, TotalInv
    <2>3. total' = Succ(ctx[r].total)
        BY <1>23 DEF Advance
    <2>4. QED
        BY <2>1, <2>2, <2>3 DEF OneMore
<1>24. ASSUME NEW r \in Runs, Audit(r) PROVE OneMore
    BY <1>24 DEF Audit
<1>25. ASSUME NEW r \in Runs, BackOff(r) PROVE OneMore
    BY <1>25 DEF BackOff
<1>26. ASSUME NEW r \in Runs, Leave(r) PROVE OneMore
    BY <1>26 DEF Leave, Sched!Release
<1>27. ASSUME NEW r \in Runs, Throw(r) PROVE OneMore
    BY <1>27 DEF Throw, Sched!Release, Resume, Fault
<1>28. ASSUME NEW r \in Runs, Crash(r) PROVE OneMore
    BY <1>28 DEF Crash, Sched!Abandon, Resume, Fault
<1>29. ASSUME NEW r \in Runs, ClaimLost(r) PROVE OneMore
    BY <1>29 DEF ClaimLost, Root!Orphan, Sched!Orphan, Fault
<1>30. ASSUME NEW r \in Runs, Reexecute(r) PROVE OneMore
    BY <1>30 DEF Reexecute, StepStart, Fault
<1>31. ASSUME NEW i \in 1..MaxTx, Land(i) PROVE OneMore
    BY <1>31 DEF Land, Resolve
<1>32. ASSUME NEW i \in 1..MaxTx, Fall(i) PROVE OneMore
    BY <1>32 DEF Fall, Resolve
<1>33. ASSUME NEW p \in MeritPlans \cup {NoSignal}, Freeze(p) PROVE OneMore
    BY <1>33 DEF Freeze
<1>34. CASE Delegate
    BY <1>34 DEF Delegate
<1>35. CASE Tick
    BY <1>35 DEF Tick
<1>36. CASE RootLapse
    BY <1>36 DEF RootLapse, Root!Lapse
<1>37. CASE SchedLapse
    BY <1>37 DEF SchedLapse, Sched!Lapse
<1>38. CASE UNCHANGED vars
    BY <1>38 DEF vars
<1>40. QED
    BY <1>1, <1>2, <1>3, <1>4, <1>5, <1>6, <1>6a, <1>7, <1>8, <1>9, <1>10, <1>11,
       <1>12, <1>13, <1>14, <1>15, <1>16, <1>17, <1>18, <1>19, <1>20, <1>21,
       <1>22, <1>23, <1>24, <1>25, <1>26, <1>27, <1>28, <1>29, <1>30, <1>31,
       <1>32, <1>33, <1>34, <1>35, <1>36, <1>37, <1>38 DEF Next,
       Step, Environment

\* No step breaks TotalInv.
LEMMA TotalStep == TypeOK /\ SchedInv /\ TotalInv /\ [Next]_vars => TotalInv'
<1> SUFFICES ASSUME TypeOK /\ SchedInv /\ TotalInv, [Next]_vars PROVE TotalInv'
    OBVIOUS
<1> USE PlansTyped, GotoEffect, OthersOutside DEF locks, schedule, ledger,
        network, operators, Body
<1>1. ASSUME NEW r \in Runs, Start(r) PROVE TotalInv'
    BY <1>1 DEF Start, Root!Acquire, TotalInv
<1>2. ASSUME NEW r \in Runs, SelectDue(r) PROVE TotalInv'
    BY <1>2 DEF SelectDue, TotalInv
<1>3. ASSUME NEW r \in Runs, Finish(r) PROVE TotalInv'
    BY <1>3 DEF Finish, Root!Release, Root!Abandon, TotalInv
<1>4. ASSUME NEW r \in Runs, Enter(r) PROVE TotalInv'
    BY <1>4 DEF Enter, Sched!Acquire, TotalInv
<1>5. ASSUME NEW r \in Runs, EnterRefused(r) PROVE TotalInv'
    BY <1>5 DEF EnterRefused, TotalInv
<1>6. ASSUME NEW r \in Runs, Load(r) PROVE TotalInv'
    <2>1. ctx'[r].total = total /\ ctx'[r].counted = FALSE /\ total' = total
        BY <1>6 DEF Load, TypeOK
    <2>2. \A s \in Runs : pc'[s] = IF s = r THEN "reserve" ELSE pc[s]
        BY <1>6 DEF Load
    <2>3. QED
        BY <1>6, <2>1, <2>2 DEF Load, TotalInv
<1>6a. ASSUME NEW r \in Runs, LoadNothing(r) PROVE TotalInv'
    BY <1>6a DEF LoadNothing, TotalInv
<1>7. ASSUME NEW r \in Runs, ReserveConfirmed(r) PROVE TotalInv'
    <2>1. \A s \in Runs :
            ctx'[s].total = ctx[s].total /\ ctx'[s].counted = ctx[s].counted
        BY <1>7, TotalKept
    <2>2. QED
        BY <1>7, <2>1 DEF ReserveConfirmed, TotalInv
<1>8. ASSUME NEW r \in Runs, Reserve(r) PROVE TotalInv'
    BY <1>8 DEF Reserve, TotalInv
<1>9. ASSUME NEW r \in Runs, AlreadyConfirmed(r) PROVE TotalInv'
    <2>1. \A s \in Runs :
            ctx'[s].total = ctx[s].total /\ ctx'[s].counted = ctx[s].counted
        BY <1>9, TotalKept
    <2>2. QED
        BY <1>9, <2>1 DEF AlreadyConfirmed, TotalInv
<1>10. ASSUME NEW r \in Runs, ProbeConfirms(r) PROVE TotalInv'
    <2>1. \A s \in Runs :
            ctx'[s].total = ctx[s].total /\ ctx'[s].counted = ctx[s].counted
        BY <1>10, TotalKept
    <2>2. QED
        BY <1>10, <2>1 DEF ProbeConfirms, TotalInv
<1>11. ASSUME NEW r \in Runs, NotDelegated(r) PROVE TotalInv'
    BY <1>11 DEF NotDelegated, TotalInv
<1>12. ASSUME NEW r \in Runs, BuildFails(r) PROVE TotalInv'
    BY <1>12 DEF BuildFails, TotalInv
<1>13. ASSUME NEW r \in Runs, Sign(r) PROVE TotalInv'
    BY <1>13 DEF Sign, TotalInv
<1>14. ASSUME NEW r \in Runs, Send(r) PROVE TotalInv'
    <2>1. \A s \in Runs :
            ctx'[s].total = ctx[s].total /\ ctx'[s].counted = ctx[s].counted
        BY <1>14, TotalKept
    <2>2. QED
        BY <1>14, <2>1 DEF Send, TotalInv
<1>15. ASSUME NEW r \in Runs, SendFails(r) PROVE TotalInv'
    BY <1>15 DEF SendFails, TotalInv
<1>16. ASSUME NEW r \in Runs, Record(r) PROVE TotalInv'
    BY <1>16 DEF Record, TotalInv
<1>17. ASSUME NEW r \in Runs, RecordFails(r) PROVE TotalInv'
    BY <1>17 DEF RecordFails, Fault, TotalInv
<1>18. ASSUME NEW r \in Runs, Confirm(r) PROVE TotalInv'
    BY <1>18 DEF Confirm, TotalInv
<1>19. ASSUME NEW r \in Runs, ConfirmFails(r) PROVE TotalInv'
    BY <1>19 DEF ConfirmFails, TotalInv
<1>20. ASSUME NEW r \in Runs, MarkConfirmed(r) PROVE TotalInv'
    BY <1>20 DEF MarkConfirmed, TotalInv
<1>21. ASSUME NEW r \in Runs, ReturnConfirmed(r) PROVE TotalInv'
    BY <1>21 DEF ReturnConfirmed, TotalInv
<1>22. ASSUME NEW r \in Runs, WriteSlot(r) PROVE TotalInv'
    <2>1. \A s \in Runs :
            ctx'[s].total = ctx[s].total /\ ctx'[s].counted = ctx[s].counted
        BY <1>22, TotalKept
    <2>2. QED
        BY <1>22, <2>1 DEF WriteSlot, TotalInv
<1>23. ASSUME NEW r \in Runs, Advance(r) PROVE TotalInv'
    <2>1. \A s \in Runs : pc'[s] = IF s = r THEN "audit" ELSE pc[s]
        BY <1>23 DEF Advance
    <2>2. ctx'[r].counted = TRUE /\ ctx'[r].total = ctx[r].total
        BY <1>23, AdvanceEffect
    <2>2a. total' = Succ(ctx[r].total)
        BY <1>23 DEF Advance
    <2>3. \A s \in Runs : pc'[s] \in Body => s = r
        BY <1>23, <2>1 DEF Advance, SchedInv
    <2>4. QED
        BY <2>2, <2>2a, <2>3 DEF TotalInv
<1>24. ASSUME NEW r \in Runs, Audit(r) PROVE TotalInv'
    BY <1>24 DEF Audit, TotalInv
<1>25. ASSUME NEW r \in Runs, BackOff(r) PROVE TotalInv'
    BY <1>25 DEF BackOff, TotalInv
<1>26. ASSUME NEW r \in Runs, Leave(r) PROVE TotalInv'
    BY <1>26 DEF Leave, Sched!Release, TotalInv
<1>27. ASSUME NEW r \in Runs, Throw(r) PROVE TotalInv'
    BY <1>27 DEF Throw, Sched!Release, Resume, Fault, TotalInv
<1>28. ASSUME NEW r \in Runs, Crash(r) PROVE TotalInv'
    BY <1>28 DEF Crash, Sched!Abandon, Resume, Fault, TotalInv
<1>29. ASSUME NEW r \in Runs, ClaimLost(r) PROVE TotalInv'
    BY <1>29 DEF ClaimLost, Root!Orphan, Sched!Orphan, Fault, TotalInv
<1>30. ASSUME NEW r \in Runs, Reexecute(r) PROVE TotalInv'
    <2>1. \A s \in Runs :
            ctx'[s].total = ctx[s].total /\ ctx'[s].counted = ctx[s].counted
        BY <1>30, TotalKept
    <2>2. QED
        BY <1>30, <2>1 DEF Reexecute, StepStart, Fault, TotalInv
<1>31. ASSUME NEW i \in 1..MaxTx, Land(i) PROVE TotalInv'
    BY <1>31 DEF Land, Resolve, TotalInv
<1>32. ASSUME NEW i \in 1..MaxTx, Fall(i) PROVE TotalInv'
    BY <1>32 DEF Fall, Resolve, TotalInv
<1>33. ASSUME NEW p \in MeritPlans \cup {NoSignal}, Freeze(p) PROVE TotalInv'
    BY <1>33 DEF Freeze, TotalInv
<1>34. CASE Delegate
    BY <1>34 DEF Delegate, TotalInv
<1>35. CASE Tick
    BY <1>35 DEF Tick, TotalInv
<1>36. CASE RootLapse
    BY <1>36 DEF RootLapse, Root!Lapse, TotalInv
<1>37. CASE SchedLapse
    BY <1>37 DEF SchedLapse, Sched!Lapse, TotalInv
<1>38. CASE UNCHANGED vars
    BY <1>38 DEF vars, TotalInv
<1>40. QED
    BY <1>1, <1>2, <1>3, <1>4, <1>5, <1>6, <1>6a, <1>7, <1>8, <1>9, <1>10, <1>11,
       <1>12, <1>13, <1>14, <1>15, <1>16, <1>17, <1>18, <1>19, <1>20, <1>21,
       <1>22, <1>23, <1>24, <1>25, <1>26, <1>27, <1>28, <1>29, <1>30, <1>31,
       <1>32, <1>33, <1>34, <1>35, <1>36, <1>37, <1>38 DEF Next,
       Step, Environment

\* Each pass counts one rebalance and only one, if leases outlast executions.
THEOREM TotalIsCounted ==
    ASSUME LeaseMayLapse = FALSE PROVE Spec => EachPassCountsOnce
<1>1. TypeOK /\ SchedInv /\ TotalInv /\ [Next]_vars => [OneMore]_vars
    BY OneMoreStep
<1>2. QED
    BY <1>1, InitType, TypeStep, SchedInit, SchedStep, TotalInit, TotalStep, PTL
       DEF Spec, EachPassCountsOnce, OneMore

=============================================================================
