------------------------- MODULE PartnerClaimProofs -------------------------
(***************************************************************************)
(* What holds of PartnerClaim for every number of executions, attempts,     *)
(* transactions and lamports.  The inductive invariant says where an        *)
(* execution stands with its list, that the switch has been off since its   *)
(* last check, and that in calm the row of a sender says "sending".         *)
(***************************************************************************)
EXTENDS PartnerClaim, TLAPS

USE ClaimAssumption

\* An execution's place, its counters and the chain agree.
Fits(r) ==
    /\ at[r] \in {"idle", "start", "killed", "claim", "before", "list", "skip", "none"} =>
           done[r] = 0
    /\ at[r] = "check" => done[r] <= len[r] /\ len[r] > 0
    /\ at[r] \in {"sign", "confirm"} => done[r] < len[r]
    /\ at[r] \in {"after", "succeed", "doubt"} => done[r] > 0
    /\ \A i \in 1..done[r] : <<r, i>> \in settled

AllFit == \A r \in Runs : Fits(r)

\* What an execution compares: the transaction it waits for is the only one out
\* that it has not pushed, and if more is claimed than it read before, one of
\* its own moved it or somebody else's has mixed in.
Measures(r) ==
    /\ \A i \in 1..MaxTxs :
           <<r, i>> \in submitted => \/ i <= done[r]
                                     \/ at[r] = "confirm" /\ i = done[r] + 1
                                     \/ at[r] \in {"catch", "over"}
    /\ at[r] \in Comparing /\ r \notin mixed /\ claimed > before[r][1] =>
           \E t \in moved : t[1] = r
    /\ at[r] = "succeed" => r \in mixed \/ Pushed(r) \cap moved # {}

AllMeasure == moved \subseteq submitted /\ \A r \in Runs : Measures(r)

\* One transaction at most is out since the switch went on, and none by an
\* execution that is about to sign.
SwitchSeen ==
    \A r \in Runs :
        /\ late[r] \in {0, 1}
        /\ at[r] = "sign" \/ ~killed => late[r] = 0

\* In calm the row is the lock.
RowIsLock ==
    calm =>
        /\ ~killed
        /\ \A r \in Runs : at[r] # "killed"
        /\ \A r \in Runs : at[r] \in Sending => status[key[r]] = "sending"
        /\ \A r, s \in Runs :
               at[r] \in Sending /\ at[s] \in Sending /\ key[r] = key[s] => r = s

\* No lamport is claimed that was not earned.
Earned == claimed + unclaimed <= MaxFees

Inv == TypeOK /\ Earned /\ AllFit /\ AllMeasure /\ SwitchSeen /\ RowIsLock /\ RecordsAreTrue

-----------------------------------------------------------------------------

LEMMA InitInv == Init => Inv
<1> SUFFICES ASSUME Init PROVE Inv
  OBVIOUS
<1>0. 0 \in 0..MaxTxs /\ 0 \in Lamports
  BY DEF Lamports
<1>1. TypeOK
  BY <1>0 DEF Init, TypeOK
<1>2. Earned /\ SwitchSeen
  BY DEF Init, Earned, SwitchSeen, Lamports
<1>3. AllFit
  <2> SUFFICES ASSUME NEW r \in Runs PROVE Fits(r)
    BY DEF AllFit
  <2>1. at[r] = "idle" /\ done[r] = 0
    BY DEF Init
  <2>2. 1..done[r] = {}
    BY <2>1
  <2>3. QED
    BY <2>1, <2>2 DEF Fits
<1>4. RowIsLock /\ RecordsAreTrue
  BY DEF Init, RowIsLock, RecordsAreTrue, Sending
<1>5. AllMeasure
  BY DEF Init, AllMeasure, Measures, Comparing
<1>6. QED
  BY <1>1, <1>2, <1>3, <1>4, <1>5 DEF Inv

\* A listed transaction is one of Txs.
LEMMA ListedTx ==
    ASSUME NEW r \in Runs, NEW i \in 1..MaxTxs
    PROVE  <<r, i>> \in Txs
  BY DEF Txs

\* The signatures an execution has pushed are transactions of its own, and
\* there are some once the first is confirmed.
LEMMA PushedAre ==
    ASSUME Inv, NEW r \in Runs
    PROVE  /\ Pushed(r) \subseteq Txs
           /\ Pushed(r) \subseteq settled
           /\ \A t \in Pushed(r) : t[1] = r
           /\ done[r] > 0 => Pushed(r) # {}
<1>1. done[r] \in 0..MaxTxs /\ Fits(r)
  BY DEF Inv, TypeOK, AllFit
<1>2. Pushed(r) \subseteq Txs
  BY <1>1, ListedTx DEF Pushed
<1>3. Pushed(r) \subseteq settled /\ \A t \in Pushed(r) : t[1] = r
  BY <1>1 DEF Pushed, Fits
<1>4. ASSUME done[r] > 0 PROVE <<r, 1>> \in Pushed(r)
  BY <1>1, <1>4 DEF Pushed
<1>5. QED
  BY <1>2, <1>3, <1>4

\* The types are kept: the counters stay within the list.
LEMMA TypeStep ==
    ASSUME Inv, [Next]_vars
    PROVE  TypeOK'
<1>1. CASE UNCHANGED vars
  BY <1>1 DEF vars, attempts, run, chain, switch, Inv, TypeOK, AllFit, Fits, SwitchSeen, Sending, Lamports, Txs
<1>2. ASSUME NEW r \in Runs, RunStep(r)
      PROVE  TypeOK'
  <2>1. CASE Reserve(r)
    BY <2>1 DEF Reserve, Goto, Mark, vars, attempts, run, chain, switch, Inv, TypeOK, AllFit, Fits, SwitchSeen, Sending, Lamports, Txs
  <2>2. CASE Begin(r)
    BY <2>2 DEF Begin, Goto, vars, attempts, run, chain, switch, Inv, TypeOK, AllFit, Fits, SwitchSeen, Sending, Lamports, Txs
  <2>3. CASE Refuse(r)
    BY <2>3 DEF Refuse, Goto, Mark, vars, attempts, run, chain, switch, Inv, TypeOK, AllFit, Fits, SwitchSeen, Sending, Lamports, Txs
  <2>4. CASE Claim(r)
    BY <2>4 DEF Claim, Goto, Mark, vars, attempts, run, chain, switch, Inv, TypeOK, AllFit, Fits, SwitchSeen, Sending, Lamports, Txs
  <2>5. CASE ReadBefore(r)
    BY <2>5 DEF ReadBefore, Goto, vars, attempts, run, chain, switch, Inv, TypeOK, AllFit, Fits, SwitchSeen, Sending, Lamports, Txs
  <2>6. CASE List(r)
    BY <2>6 DEF List, Goto, vars, attempts, run, chain, switch, Inv, TypeOK, AllFit, Fits, SwitchSeen, Sending, Lamports, Txs
  <2>7. CASE Check(r)
    BY <2>7 DEF Check, Goto, vars, attempts, run, chain, switch, Inv, TypeOK, AllFit, Fits, SwitchSeen, Sending, Lamports, Txs
  <2>8. CASE Sign(r)
    <3>1. done[r] + 1 \in 1..MaxTxs /\ late[r] = 0
      BY <2>8 DEF Sign, Inv, TypeOK, AllFit, Fits, SwitchSeen
    <3>2. <<r, done[r] + 1>> \in Txs /\ late[r] + 1 \in 0..MaxTxs
      BY <3>1, ListedTx
    <3>3. QED
      BY <2>8, <3>2 DEF Sign, Goto, vars, attempts, run, chain, switch, Inv, TypeOK, Sending
  <2>9. CASE Confirm(r)
    BY <2>9 DEF Confirm, Goto, vars, attempts, run, chain, switch, Inv, TypeOK, AllFit, Fits, SwitchSeen, Sending, Lamports, Txs
  <2>10. CASE ReadAfter(r)
    BY <2>10 DEF ReadAfter, Goto, vars, attempts, run, chain, switch, Inv, TypeOK, AllFit, Fits, SwitchSeen, Sending, Lamports, Txs
  <2>11. CASE Throw(r)
    BY <2>11 DEF Throw, Goto, vars, attempts, run, chain, switch, Inv, TypeOK, AllFit, Fits, SwitchSeen, Sending, Lamports, Txs
  <2>12. CASE Write(r)
    <3>1. Pushed(r) \subseteq Txs /\ Outcome(r) \in {"succeeded", "review", "skipped", "failed"}
      BY <2>12, PushedAre DEF Write, Outcome
    <3>2. QED
      BY <2>12, <3>1 DEF Write, Goto, Mark, vars, attempts, run, chain, switch, Inv, TypeOK, Sending
  <2>13. CASE WriteThrows(r)
    BY <2>13 DEF WriteThrows, Goto, vars, attempts, run, chain, switch, Inv, TypeOK, AllFit, Fits, SwitchSeen, Sending, Lamports, Txs
  <2>14. CASE Catch(r)
    BY <2>14, PushedAre DEF Catch, Goto, Mark, vars, attempts, run, chain, switch, Inv, TypeOK, Sending
  <2>15. CASE Die(r)
    BY <2>15 DEF Die, Goto, vars, attempts, run, chain, switch, Inv, TypeOK, AllFit, Fits, SwitchSeen, Sending, Lamports, Txs
  <2>16. QED
    BY <1>2, <2>1, <2>2, <2>3, <2>4, <2>5, <2>6, <2>7, <2>8, <2>9, <2>10, <2>11, <2>12, <2>13, <2>14, <2>15 DEF RunStep
<1>3. ASSUME NEW t \in Txs, Settle(t)
      PROVE  TypeOK'
  BY <1>3 DEF Settle, attempts, run, chain, switch, Inv, TypeOK, Earned, Lamports
<1>4. CASE Earn
  BY <1>4 DEF Earn, vars, attempts, run, chain, switch, Inv, TypeOK, AllFit, Fits, SwitchSeen, Sending, Lamports, Txs
<1>5. CASE Toggle
  <2>1. 0 \in 0..MaxTxs
    OBVIOUS
  <2>2. late' \in [Runs -> 0..MaxTxs] /\ killed' \in BOOLEAN /\ calm' \in BOOLEAN
    BY <1>5, <2>1 DEF Toggle
  <2>3. QED
    BY <1>5, <2>2 DEF Toggle, attempts, run, chain, Inv, TypeOK
<1>6. QED
  BY <1>1, <1>2, <1>3, <1>4, <1>5 DEF Next

\* Claiming moves lamports, it makes none.
LEMMA EarnedStep ==
    ASSUME Inv, [Next]_vars
    PROVE  Earned'
<1>1. CASE UNCHANGED vars
  BY <1>1 DEF vars, attempts, run, chain, switch, Inv, TypeOK, Earned, Lamports
<1>2. ASSUME NEW r \in Runs, RunStep(r)
      PROVE  Earned'
  <2>1. CASE Reserve(r)
    BY <2>1 DEF Reserve, Goto, Mark, vars, attempts, run, chain, switch, Inv, TypeOK, Earned, Lamports
  <2>2. CASE Begin(r)
    BY <2>2 DEF Begin, Goto, vars, attempts, run, chain, switch, Inv, TypeOK, Earned, Lamports
  <2>3. CASE Refuse(r)
    BY <2>3 DEF Refuse, Goto, Mark, vars, attempts, run, chain, switch, Inv, TypeOK, Earned, Lamports
  <2>4. CASE Claim(r)
    BY <2>4 DEF Claim, Goto, Mark, vars, attempts, run, chain, switch, Inv, TypeOK, Earned, Lamports
  <2>5. CASE ReadBefore(r)
    BY <2>5 DEF ReadBefore, Goto, vars, attempts, run, chain, switch, Inv, TypeOK, Earned, Lamports
  <2>6. CASE List(r)
    BY <2>6 DEF List, Goto, vars, attempts, run, chain, switch, Inv, TypeOK, Earned, Lamports
  <2>7. CASE Check(r)
    BY <2>7 DEF Check, Goto, vars, attempts, run, chain, switch, Inv, TypeOK, Earned, Lamports
  <2>8. CASE Sign(r)
    BY <2>8 DEF Sign, Goto, vars, attempts, run, chain, switch, Inv, TypeOK, Earned, Lamports
  <2>9. CASE Confirm(r)
    BY <2>9 DEF Confirm, Goto, vars, attempts, run, chain, switch, Inv, TypeOK, Earned, Lamports
  <2>10. CASE ReadAfter(r)
    BY <2>10 DEF ReadAfter, Goto, vars, attempts, run, chain, switch, Inv, TypeOK, Earned, Lamports
  <2>11. CASE Throw(r)
    BY <2>11 DEF Throw, Goto, vars, attempts, run, chain, switch, Inv, TypeOK, Earned, Lamports
  <2>12. CASE Write(r)
    BY <2>12 DEF Write, Goto, Mark, Outcome, Pushed, vars, attempts, run, chain, switch, Inv, TypeOK, Earned, Lamports
  <2>13. CASE WriteThrows(r)
    BY <2>13 DEF WriteThrows, Goto, vars, attempts, run, chain, switch, Inv, TypeOK, Earned, Lamports
  <2>14. CASE Catch(r)
    BY <2>14 DEF Catch, Goto, Mark, Pushed, vars, attempts, run, chain, switch, Inv, TypeOK, Earned, Lamports
  <2>15. CASE Die(r)
    BY <2>15 DEF Die, Goto, vars, attempts, run, chain, switch, Inv, TypeOK, Earned, Lamports
  <2>16. QED
    BY <1>2, <2>1, <2>2, <2>3, <2>4, <2>5, <2>6, <2>7, <2>8, <2>9, <2>10, <2>11, <2>12, <2>13, <2>14, <2>15 DEF RunStep
<1>3. ASSUME NEW t \in Txs, Settle(t)
      PROVE  Earned'
  BY <1>3 DEF Settle, vars, attempts, run, chain, switch, Inv, TypeOK, Earned, Lamports
<1>4. CASE Earn
  BY <1>4 DEF Earn, vars, attempts, run, chain, switch, Inv, TypeOK, Earned, Lamports
<1>5. CASE Toggle
  BY <1>5 DEF Toggle, vars, attempts, run, chain, switch, Inv, TypeOK, Earned, Lamports
<1>6. QED
  BY <1>1, <1>2, <1>3, <1>4, <1>5 DEF Next

\* Places, counters and chain keep agreeing.
LEMMA FitStep ==
    ASSUME Inv, [Next]_vars
    PROVE  AllFit'
<1>1. CASE UNCHANGED vars
  BY <1>1 DEF vars, attempts, run, chain, switch, Inv, TypeOK, AllFit, Fits, Sending, Lamports, Txs
<1>2. ASSUME NEW r \in Runs, RunStep(r)
      PROVE  AllFit'
  <2>1. CASE Reserve(r)
    BY <2>1 DEF Reserve, Goto, Mark, vars, attempts, run, chain, switch, Inv, TypeOK, AllFit, Fits, Sending, Lamports, Txs
  <2>2. CASE Begin(r)
    BY <2>2 DEF Begin, Goto, vars, attempts, run, chain, switch, Inv, TypeOK, AllFit, Fits, Sending, Lamports, Txs
  <2>3. CASE Refuse(r)
    BY <2>3 DEF Refuse, Goto, Mark, vars, attempts, run, chain, switch, Inv, TypeOK, AllFit, Fits, Sending, Lamports, Txs
  <2>4. CASE Claim(r)
    BY <2>4 DEF Claim, Goto, Mark, vars, attempts, run, chain, switch, Inv, TypeOK, AllFit, Fits, Sending, Lamports, Txs
  <2>5. CASE ReadBefore(r)
    BY <2>5 DEF ReadBefore, Goto, vars, attempts, run, chain, switch, Inv, TypeOK, AllFit, Fits, Sending, Lamports, Txs
  <2>6. CASE List(r)
    BY <2>6 DEF List, Goto, vars, attempts, run, chain, switch, Inv, TypeOK, AllFit, Fits, Sending, Lamports, Txs
  <2>7. CASE Check(r)
    <3> SUFFICES ASSUME NEW x \in Runs PROVE Fits(x)'
      BY DEF AllFit
    <3>t. TypeOK /\ Fits(x) /\ Fits(r)
      BY DEF Inv, AllFit
    <3>1. done' = done /\ len' = len /\ settled' = settled
      BY <2>7 DEF Check, run, chain
    <3>2. CASE x # r
      BY <2>7, <3>1, <3>2, <3>t DEF Check, Goto, Fits, TypeOK
    <3>3. CASE x = r
      <4>1. \/ at'[r] = "after" /\ done[r] = len[r]
            \/ at'[r] \in {"catch", "sign"} /\ done[r] # len[r]
        BY <2>7, <3>t DEF Check, Goto, TypeOK
      <4>2. done[r] <= len[r] /\ len[r] > 0 /\ done[r] \in Nat /\ len[r] \in Nat
        BY <2>7, <3>t DEF Check, Fits, TypeOK
      <4>3. QED
        BY <3>1, <3>3, <4>1, <4>2, <3>t DEF Fits
    <3>4. QED
      BY <3>2, <3>3
  <2>8. CASE Sign(r)
    BY <2>8 DEF Sign, Goto, vars, attempts, run, chain, switch, Inv, TypeOK, AllFit, Fits, Sending, Lamports, Txs
  <2>9. CASE Confirm(r)
    <3> SUFFICES ASSUME NEW x \in Runs PROVE Fits(x)'
      BY DEF AllFit
    <3>t. TypeOK /\ Fits(x) /\ Fits(r)
      BY DEF Inv, AllFit
    <3>1. CASE x # r
      BY <2>9, <3>1, <3>t DEF Confirm, Goto, chain, Fits, TypeOK
    <3>2. CASE x = r
      <4>1. done'[r] = done[r] + 1 /\ at'[r] = "check" /\ settled' = settled /\ len' = len
        BY <2>9, <3>t DEF Confirm, Goto, chain, TypeOK
      <4>2. \A i \in 1..done'[r] : <<r, i>> \in settled
        <5>1. done[r] \in 0..MaxTxs /\ <<r, done[r] + 1>> \in settled
          BY <2>9, <3>t DEF Confirm, TypeOK
        <5>2. \A i \in 1..done[r] : <<r, i>> \in settled
          BY <3>t DEF Fits
        <5>3. \A i \in 1..(done[r] + 1) : i = done[r] + 1 \/ i \in 1..done[r]
          BY <5>1
        <5>4. QED
          BY <4>1, <5>1, <5>2, <5>3
      <4>3. done'[r] <= len[r] /\ len[r] > 0
        BY <2>9, <4>1, <3>t DEF Confirm, Fits, TypeOK
      <4>4. QED
        BY <3>2, <4>1, <4>2, <4>3 DEF Fits
    <3>3. QED
      BY <3>1, <3>2
  <2>10. CASE ReadAfter(r)
    BY <2>10 DEF ReadAfter, Goto, vars, attempts, run, chain, switch, Inv, TypeOK, AllFit, Fits, Sending, Lamports, Txs
  <2>11. CASE Throw(r)
    BY <2>11 DEF Throw, Goto, vars, attempts, run, chain, switch, Inv, TypeOK, AllFit, Fits, Sending, Lamports, Txs
  <2>12. CASE Write(r)
    BY <2>12 DEF Write, Goto, Mark, Outcome, Pushed, vars, attempts, run, chain, switch, Inv, TypeOK, AllFit, Fits, Sending, Lamports, Txs
  <2>13. CASE WriteThrows(r)
    BY <2>13 DEF WriteThrows, Goto, vars, attempts, run, chain, switch, Inv, TypeOK, AllFit, Fits, Sending, Lamports, Txs
  <2>14. CASE Catch(r)
    BY <2>14 DEF Catch, Goto, Mark, Pushed, vars, attempts, run, chain, switch, Inv, TypeOK, AllFit, Fits, Sending, Lamports, Txs
  <2>15. CASE Die(r)
    BY <2>15 DEF Die, Goto, vars, attempts, run, chain, switch, Inv, TypeOK, AllFit, Fits, Sending, Lamports, Txs
  <2>16. QED
    BY <1>2, <2>1, <2>2, <2>3, <2>4, <2>5, <2>6, <2>7, <2>8, <2>9, <2>10, <2>11, <2>12, <2>13, <2>14, <2>15 DEF RunStep
<1>3. ASSUME NEW t \in Txs, Settle(t)
      PROVE  AllFit'
  BY <1>3 DEF Settle, vars, attempts, run, chain, switch, Inv, TypeOK, AllFit, Fits, Sending, Lamports, Txs
<1>4. CASE Earn
  BY <1>4 DEF Earn, vars, attempts, run, chain, switch, Inv, TypeOK, AllFit, Fits, Sending, Lamports, Txs
<1>5. CASE Toggle
  BY <1>5 DEF Toggle, vars, attempts, run, chain, switch, Inv, TypeOK, AllFit, Fits, Sending, Lamports, Txs
<1>6. QED
  BY <1>1, <1>2, <1>3, <1>4, <1>5 DEF Next

\* The comparison keeps telling what it can tell.
LEMMA MeasureStep ==
    ASSUME Inv, [Next]_vars
    PROVE  AllMeasure'
<1>t. TypeOK /\ AllFit /\ AllMeasure
  BY DEF Inv
<1>1. CASE UNCHANGED vars
  BY <1>1, <1>t DEF vars, attempts, run, chain, switch, AllMeasure, Measures, Pushed
<1>2. ASSUME NEW r \in Runs, RunStep(r)
      PROVE  AllMeasure'
  <2>m. moved' = moved /\ mixed' = mixed /\ submitted \subseteq submitted' /\ claimed' = claimed
    BY <1>2 DEF RunStep, Reserve, Begin, Refuse, Claim, ReadBefore, List, Check, Sign, Confirm,
       ReadAfter, Throw, Write, WriteThrows, Catch, Die, chain
  <2>o. ASSUME NEW x \in Runs, x # r
        PROVE  Measures(x)'
    <3>1. /\ at'[x] = at[x] /\ done'[x] = done[x] /\ before'[x] = before[x]
          /\ \A i \in 1..MaxTxs : <<x, i>> \in submitted' => <<x, i>> \in submitted
      BY <1>2, <1>t, <2>o DEF RunStep, Reserve, Begin, Refuse, Claim, ReadBefore, List, Check,
         Sign, Confirm, ReadAfter, Throw, Write, WriteThrows, Catch, Die, Goto, run, TypeOK
    <3>2. QED
      BY <2>m, <2>o, <3>1, <1>t DEF AllMeasure, Measures, Pushed
  <2> SUFFICES Measures(r)'
    BY <1>t, <2>m, <2>o DEF AllMeasure
  <2>t. Measures(r) /\ Fits(r) /\ done[r] \in 0..MaxTxs
    BY <1>t DEF AllMeasure, AllFit, TypeOK
  <2>1. CASE Reserve(r)
    BY <2>1, <2>t, <2>m, <1>t DEF Reserve, Goto, run, Fits, TypeOK, Measures, Comparing, Pushed
  <2>2. CASE Begin(r)
    BY <2>2, <2>t, <2>m, <1>t DEF Begin, Goto, run, Fits, TypeOK, Measures, Comparing, Pushed
  <2>3. CASE Refuse(r)
    BY <2>3, <2>t, <2>m, <1>t DEF Refuse, Goto, run, Fits, TypeOK, Measures, Comparing, Pushed
  <2>4. CASE Claim(r)
    BY <2>4, <2>t, <2>m, <1>t DEF Claim, Goto, run, Fits, TypeOK, Measures, Comparing, Pushed
  <2>5. CASE ReadBefore(r)
    <3>1. before'[r][1] = claimed /\ claimed' = claimed /\ claimed \in Nat /\ done' = done
      BY <2>5, <1>t DEF ReadBefore, chain, TypeOK, Lamports
    <3>2. at'[r] \in {"skip", "list"} /\ at[r] = "before" /\ submitted' = submitted
      BY <2>5, <1>t DEF ReadBefore, Goto, TypeOK
    <3>3. QED
      BY <3>1, <3>2, <2>t DEF Measures
  <2>6. CASE List(r)
    BY <2>6, <2>t, <2>m, <1>t DEF List, Goto, run, Fits, TypeOK, Measures, Comparing, Pushed
  <2>7. CASE Check(r)
    BY <2>7, <2>t, <2>m, <1>t DEF Check, Goto, run, Fits, TypeOK, Measures, Comparing, Pushed
  <2>8. CASE Sign(r)
    <3>1. done'[r] \in Nat
      BY <2>8, <1>t, <2>t DEF Sign, run, TypeOK
    <3>2. QED
      BY <2>8, <3>1, <2>t, <2>m, <1>t DEF Sign, Goto, run, TypeOK, Measures, Comparing
  <2>9. CASE Confirm(r)
    <3>1. /\ at[r] = "confirm" /\ at'[r] = "check" /\ done'[r] = done[r] + 1
          /\ before' = before /\ submitted' = submitted
      BY <2>9, <1>t DEF Confirm, Goto, TypeOK
    <3>2. \A i \in 1..MaxTxs :
              <<r, i>> \in submitted' => \/ i <= done'[r]
                                         \/ at'[r] = "confirm" /\ i = done'[r] + 1
                                         \/ at'[r] \in {"catch", "over"}
      <4>1. ASSUME NEW i \in 1..MaxTxs, <<r, i>> \in submitted'
            PROVE  i <= done'[r]
        <5>1. i <= done[r] \/ i = done[r] + 1
          BY <3>1, <4>1, <2>t DEF Measures
        <5>2. QED
          BY <3>1, <5>1, <2>t
      <4>2. QED
        BY <4>1
    <3>3. r \notin mixed' /\ claimed' > before'[r][1] => \E t \in moved' : t[1] = r
      BY <3>1, <2>t, <2>m DEF Measures, Comparing
    <3>4. at'[r] = "succeed" => r \in mixed' \/ Pushed(r)' \cap moved' # {}
      BY <3>1
    <3>5. QED
      BY <3>2, <3>3, <3>4 DEF Measures
  <2>10. CASE ReadAfter(r)
    <3>1. /\ at[r] = "after" /\ done' = done /\ submitted' = submitted
          /\ at'[r] \in {"succeed", "doubt"}
      BY <2>10, <1>t DEF ReadAfter, Goto, run, TypeOK
    <3>2. ASSUME at'[r] = "succeed", r \notin mixed
          PROVE  Pushed(r) \cap moved # {}
      <4>1. claimed > before[r][1]
        BY <2>10, <3>2, <1>t DEF ReadAfter, Goto, TypeOK
      <4>2. PICK t \in moved : t[1] = r
        BY <3>1, <3>2, <4>1, <2>t DEF Measures, Comparing
      <4>3. t \in submitted /\ t \in Txs
        BY <1>t DEF AllMeasure, TypeOK
      <4>4. PICK i \in 1..MaxTxs : t = <<r, i>>
        BY <4>2, <4>3 DEF Txs
      <4>5. i <= done[r]
        BY <4>3, <4>4, <3>1, <2>t DEF Measures
      <4>6. t \in Pushed(r)
        BY <4>4, <4>5, <2>t DEF Pushed
      <4>7. QED
        BY <4>6
    <3>3. Pushed(r)' = Pushed(r)
      BY <3>1 DEF Pushed
    <3>4. QED
      BY <3>1, <3>2, <3>3, <2>m, <2>t DEF Measures, Comparing
  <2>11. CASE Throw(r)
    BY <2>11, <2>t, <2>m, <1>t DEF Throw, Goto, run, Fits, TypeOK, Measures, Comparing, Pushed
  <2>12. CASE Write(r)
    BY <2>12, <2>t, <2>m, <1>t DEF Write, Goto, run, Fits, TypeOK, Measures, Comparing, Pushed
  <2>13. CASE WriteThrows(r)
    BY <2>13, <2>t, <2>m, <1>t DEF WriteThrows, Goto, run, Fits, TypeOK, Measures, Comparing, Pushed
  <2>14. CASE Catch(r)
    BY <2>14, <2>t, <2>m, <1>t DEF Catch, Goto, run, Fits, TypeOK, Measures, Comparing, Pushed
  <2>15. CASE Die(r)
    BY <2>15, <2>t, <2>m, <1>t DEF Die, Goto, run, Fits, TypeOK, Measures, Comparing, Pushed
  <2>16. QED
    BY <1>2, <2>1, <2>2, <2>3, <2>4, <2>5, <2>6, <2>7, <2>8, <2>9, <2>10, <2>11, <2>12, <2>13, <2>14, <2>15 DEF RunStep
<1>3. ASSUME NEW t \in Txs, Settle(t)
      PROVE  AllMeasure'
  <2>1. PICK n \in 0..unclaimed :
            /\ claimed' = claimed + n
            /\ moved' = IF n = 0 THEN moved ELSE moved \cup {t}
            /\ mixed' = IF n = 0 THEN mixed
                        ELSE mixed \cup {r \in Runs : r # t[1] /\ at[r] \in Comparing}
    BY <1>3 DEF Settle
  <2>2. UNCHANGED <<at, run, submitted>> /\ t \in submitted /\ unclaimed \in Nat /\ claimed \in Nat
    BY <1>3, <1>t DEF Settle, TypeOK, Lamports
  <2>3. moved \subseteq moved' /\ mixed \subseteq mixed' /\ moved' \subseteq submitted'
    BY <2>1, <2>2, <1>t DEF AllMeasure
  <2>4. ASSUME NEW r \in Runs
        PROVE  Measures(r)'
    <3>1. CASE n = 0
      BY <3>1, <2>1, <2>2, <1>t DEF AllMeasure, Measures, Pushed, run
    <3>2. CASE n # 0 /\ t[1] = r
      BY <3>2, <2>1, <2>2, <2>3, <1>t DEF AllMeasure, Measures, Pushed, run
    <3>3. CASE n # 0 /\ t[1] # r
      BY <3>3, <2>1, <2>2, <2>3, <1>t DEF AllMeasure, Measures, Pushed, run
    <3>4. QED
      BY <3>1, <3>2, <3>3
  <2>5. QED
    BY <2>3, <2>4 DEF AllMeasure
<1>4. CASE Earn \/ Toggle
  BY <1>4, <1>t DEF Earn, Toggle, run, chain, AllMeasure, Measures, Pushed
<1>5. QED
  BY <1>1, <1>2, <1>3, <1>4 DEF Next

\* Between two transactions the switch is read.
LEMMA SwitchStep ==
    ASSUME Inv, [Next]_vars
    PROVE  SwitchSeen'
<1>1. CASE UNCHANGED vars
  BY <1>1 DEF vars, attempts, run, chain, switch, Inv, TypeOK, SwitchSeen
<1>2. ASSUME NEW r \in Runs, RunStep(r)
      PROVE  SwitchSeen'
  <2>1. CASE Reserve(r)
    BY <2>1 DEF Reserve, Goto, Mark, vars, attempts, run, chain, switch, Inv, TypeOK, SwitchSeen
  <2>2. CASE Begin(r)
    BY <2>2 DEF Begin, Goto, vars, attempts, run, chain, switch, Inv, TypeOK, SwitchSeen
  <2>3. CASE Refuse(r)
    BY <2>3 DEF Refuse, Goto, Mark, vars, attempts, run, chain, switch, Inv, TypeOK, SwitchSeen
  <2>4. CASE Claim(r)
    BY <2>4 DEF Claim, Goto, Mark, vars, attempts, run, chain, switch, Inv, TypeOK, SwitchSeen
  <2>5. CASE ReadBefore(r)
    BY <2>5 DEF ReadBefore, Goto, vars, attempts, run, chain, switch, Inv, TypeOK, SwitchSeen
  <2>6. CASE List(r)
    BY <2>6 DEF List, Goto, vars, attempts, run, chain, switch, Inv, TypeOK, SwitchSeen
  <2>7. CASE Check(r)
    BY <2>7 DEF Check, Goto, vars, attempts, run, chain, switch, Inv, TypeOK, SwitchSeen
  <2>8. CASE Sign(r)
    BY <2>8 DEF Sign, Goto, vars, attempts, run, chain, switch, Inv, TypeOK, SwitchSeen
  <2>9. CASE Confirm(r)
    BY <2>9 DEF Confirm, Goto, vars, attempts, run, chain, switch, Inv, TypeOK, SwitchSeen
  <2>10. CASE ReadAfter(r)
    BY <2>10 DEF ReadAfter, Goto, vars, attempts, run, chain, switch, Inv, TypeOK, SwitchSeen
  <2>11. CASE Throw(r)
    BY <2>11 DEF Throw, Goto, vars, attempts, run, chain, switch, Inv, TypeOK, SwitchSeen
  <2>12. CASE Write(r)
    BY <2>12 DEF Write, Goto, Mark, Outcome, Pushed, vars, attempts, run, chain, switch, Inv, TypeOK, SwitchSeen
  <2>13. CASE WriteThrows(r)
    BY <2>13 DEF WriteThrows, Goto, vars, attempts, run, chain, switch, Inv, TypeOK, SwitchSeen
  <2>14. CASE Catch(r)
    BY <2>14 DEF Catch, Goto, Mark, Pushed, vars, attempts, run, chain, switch, Inv, TypeOK, SwitchSeen
  <2>15. CASE Die(r)
    BY <2>15 DEF Die, Goto, vars, attempts, run, chain, switch, Inv, TypeOK, SwitchSeen
  <2>16. QED
    BY <1>2, <2>1, <2>2, <2>3, <2>4, <2>5, <2>6, <2>7, <2>8, <2>9, <2>10, <2>11, <2>12, <2>13, <2>14, <2>15 DEF RunStep
<1>3. ASSUME NEW t \in Txs, Settle(t)
      PROVE  SwitchSeen'
  BY <1>3 DEF Settle, vars, attempts, run, chain, switch, Inv, TypeOK, SwitchSeen
<1>4. CASE Earn
  BY <1>4 DEF Earn, vars, attempts, run, chain, switch, Inv, TypeOK, SwitchSeen
<1>5. CASE Toggle
  BY <1>5 DEF Toggle, vars, attempts, run, chain, switch, Inv, TypeOK, SwitchSeen
<1>6. QED
  BY <1>1, <1>2, <1>3, <1>4, <1>5 DEF Next

\* Only the claim makes a sender, and it needs a row that is not being sent.
LEMMA LockStep ==
    ASSUME Inv, [Next]_vars
    PROVE  RowIsLock'
<1>1. CASE UNCHANGED vars
  BY <1>1 DEF vars, attempts, run, chain, switch, Inv, TypeOK, RowIsLock, Sending
<1>2. ASSUME NEW r \in Runs, RunStep(r)
      PROVE  RowIsLock'
  <2>1. CASE Reserve(r)
    BY <2>1 DEF Reserve, Goto, Mark, vars, attempts, run, chain, switch, Inv, TypeOK, RowIsLock, Sending
  <2>2. CASE Begin(r)
    BY <2>2 DEF Begin, Goto, vars, attempts, run, chain, switch, Inv, TypeOK, RowIsLock, Sending
  <2>3. CASE Refuse(r)
    BY <2>3 DEF Refuse, Goto, Mark, vars, attempts, run, chain, switch, Inv, TypeOK, RowIsLock, Sending
  <2>4. CASE Claim(r)
    <3>1. CASE status[key[r]] \in {"pending", "failed", "review"}
      <4>1. calm' = calm /\ killed' = killed /\ key' = key
        BY <2>4 DEF Claim, run, switch
      <4>2. at' = [at EXCEPT ![r] = "before"] /\ status' = [status EXCEPT ![key[r]] = "sending"]
        BY <2>4, <3>1 DEF Claim, Goto, Mark
      <4>3. calm => \A s \in Runs : key[s] = key[r] => at[s] \notin Sending
        BY <3>1 DEF Inv, RowIsLock
      <4>4. QED
        BY <4>1, <4>2, <4>3 DEF Inv, TypeOK, RowIsLock, Sending
    <3>2. CASE status[key[r]] \notin {"pending", "failed", "review"}
      BY <2>4, <3>2 DEF Claim, Goto, run, switch, Inv, TypeOK, RowIsLock, Sending
    <3>3. QED
      BY <3>1, <3>2
  <2>5. CASE ReadBefore(r)
    BY <2>5 DEF ReadBefore, Goto, vars, attempts, run, chain, switch, Inv, TypeOK, RowIsLock, Sending
  <2>6. CASE List(r)
    BY <2>6 DEF List, Goto, vars, attempts, run, chain, switch, Inv, TypeOK, RowIsLock, Sending
  <2>7. CASE Check(r)
    BY <2>7 DEF Check, Goto, vars, attempts, run, chain, switch, Inv, TypeOK, RowIsLock, Sending
  <2>8. CASE Sign(r)
    <3>1. calm' = calm /\ killed' = killed /\ key' = key /\ status' = status
      BY <2>8 DEF Sign, attempts, run
    <3>2. /\ at[r] \in Sending /\ at'[r] \in Sending /\ at'[r] # "killed"
          /\ \A x \in Runs : x # r => at'[x] = at[x]
      BY <2>8 DEF Sign, Goto, Inv, TypeOK, Sending
    <3>3. QED
      BY <3>1, <3>2 DEF Inv, RowIsLock
  <2>9. CASE Confirm(r)
    BY <2>9 DEF Confirm, Goto, vars, attempts, run, chain, switch, Inv, TypeOK, RowIsLock, Sending
  <2>10. CASE ReadAfter(r)
    BY <2>10 DEF ReadAfter, Goto, vars, attempts, run, chain, switch, Inv, TypeOK, RowIsLock, Sending
  <2>11. CASE Throw(r)
    BY <2>11 DEF Throw, Goto, vars, attempts, run, chain, switch, Inv, TypeOK, RowIsLock, Sending
  <2>12. CASE Write(r)
    <3>1. CASE calm'
      <4>1. calm /\ calm' = calm /\ killed' = killed /\ key' = key
        BY <2>12, <3>1 DEF Write, run, Inv, TypeOK
      <4>2. at' = [at EXCEPT ![r] = "over"] /\ at[r] \in Sending
        BY <2>12, <3>1 DEF Write, Goto, Sending
      <4>3. status' = [status EXCEPT ![key[r]] = Outcome(r)]
        BY <2>12 DEF Write, Mark
      <4>4. \A s \in Runs : s # r /\ at[s] \in Sending => key[s] # key[r]
        BY <4>1, <4>2 DEF Inv, RowIsLock
      <4>5. QED
        BY <4>1, <4>2, <4>3, <4>4 DEF Inv, TypeOK, RowIsLock, Sending
    <3>2. CASE ~calm'
      BY <3>2 DEF RowIsLock
    <3>3. QED
      BY <3>1, <3>2
  <2>13. CASE WriteThrows(r)
    BY <2>13 DEF WriteThrows, Goto, vars, attempts, run, chain, switch, Inv, TypeOK, RowIsLock, Sending
  <2>14. CASE Catch(r)
    BY <2>14 DEF Catch, Goto, Mark, Pushed, vars, attempts, run, chain, switch, Inv, TypeOK, RowIsLock, Sending
  <2>15. CASE Die(r)
    BY <2>15 DEF Die, Goto, vars, attempts, run, chain, switch, Inv, TypeOK, RowIsLock, Sending
  <2>16. QED
    BY <1>2, <2>1, <2>2, <2>3, <2>4, <2>5, <2>6, <2>7, <2>8, <2>9, <2>10, <2>11, <2>12, <2>13, <2>14, <2>15 DEF RunStep
<1>3. ASSUME NEW t \in Txs, Settle(t)
      PROVE  RowIsLock'
  BY <1>3 DEF Settle, vars, attempts, run, chain, switch, Inv, TypeOK, RowIsLock, Sending
<1>4. CASE Earn
  BY <1>4 DEF Earn, vars, attempts, run, chain, switch, Inv, TypeOK, RowIsLock, Sending
<1>5. CASE Toggle
  BY <1>5 DEF Toggle, vars, attempts, run, chain, switch, Inv, TypeOK, RowIsLock, Sending
<1>6. QED
  BY <1>1, <1>2, <1>3, <1>4, <1>5 DEF Next

\* What the rows say stays true.
LEMMA RecordStep ==
    ASSUME Inv, [Next]_vars
    PROVE  RecordsAreTrue'
<1>1. CASE UNCHANGED vars
  BY <1>1 DEF vars, attempts, run, chain, switch, Inv, TypeOK, AllFit, Fits, RecordsAreTrue, Sending, Lamports, Txs
<1>2. ASSUME NEW r \in Runs, RunStep(r)
      PROVE  RecordsAreTrue'
  <2>1. CASE Reserve(r)
    <3>1. UNCHANGED <<signed, settled, key, moved, mixed>>
      BY <2>1 DEF Reserve, run, chain
    <3>2. \A k \in Keys : status'[k] = status[k] \/ status'[k] = "pending"
      BY <2>1 DEF Reserve, Mark, Inv, TypeOK
    <3>3. QED
      BY <3>1, <3>2 DEF Inv, RecordsAreTrue
  <2>2. CASE Begin(r)
    BY <2>2 DEF Begin, Goto, vars, attempts, run, chain, switch, Inv, TypeOK, AllFit, Fits, RecordsAreTrue, Sending, Lamports, Txs
  <2>3. CASE Refuse(r)
    BY <2>3 DEF Refuse, Goto, Mark, vars, attempts, run, chain, switch, Inv, TypeOK, AllFit, Fits, RecordsAreTrue, Sending, Lamports, Txs
  <2>4. CASE Claim(r)
    <3>1. UNCHANGED <<signed, settled, key, moved, mixed>>
      BY <2>4 DEF Claim, run, chain
    <3>2. \A k \in Keys : status'[k] = status[k] \/ status'[k] = "sending"
      BY <2>4 DEF Claim, Mark, Inv, TypeOK
    <3>3. QED
      BY <3>1, <3>2 DEF Inv, RecordsAreTrue
  <2>5. CASE ReadBefore(r)
    BY <2>5 DEF ReadBefore, Goto, vars, attempts, run, chain, switch, Inv, TypeOK, AllFit, Fits, RecordsAreTrue, Sending, Lamports, Txs
  <2>6. CASE List(r)
    BY <2>6 DEF List, Goto, vars, attempts, run, chain, switch, Inv, TypeOK, AllFit, Fits, RecordsAreTrue, Sending, Lamports, Txs
  <2>7. CASE Check(r)
    BY <2>7 DEF Check, Goto, vars, attempts, run, chain, switch, Inv, TypeOK, AllFit, Fits, RecordsAreTrue, Sending, Lamports, Txs
  <2>8. CASE Sign(r)
    BY <2>8 DEF Sign, Goto, vars, attempts, run, chain, switch, Inv, TypeOK, AllFit, Fits, RecordsAreTrue, Sending, Lamports, Txs
  <2>9. CASE Confirm(r)
    BY <2>9 DEF Confirm, Goto, vars, attempts, run, chain, switch, Inv, TypeOK, AllFit, Fits, RecordsAreTrue, Sending, Lamports, Txs
  <2>10. CASE ReadAfter(r)
    BY <2>10 DEF ReadAfter, Goto, vars, attempts, run, chain, switch, Inv, TypeOK, AllFit, Fits, RecordsAreTrue, Sending, Lamports, Txs
  <2>11. CASE Throw(r)
    BY <2>11 DEF Throw, Goto, vars, attempts, run, chain, switch, Inv, TypeOK, AllFit, Fits, RecordsAreTrue, Sending, Lamports, Txs
  <2>12. CASE Write(r)
    <3> SUFFICES ASSUME NEW k \in Keys
                 PROVE  /\ \A t \in signed'[k] : t \in settled' /\ key'[t[1]] = k
                        /\ status'[k] \in {"succeeded", "review"} => signed'[k] # {}
                        /\ status'[k] = "succeeded" /\ signed'[k] \cap moved' = {} =>
                               \A t \in signed'[k] : t[1] \in mixed'
      BY DEF RecordsAreTrue
    <3>t. TypeOK /\ Fits(r) /\ RecordsAreTrue
      BY DEF Inv, AllFit
    <3>1. settled' = settled /\ key' = key /\ moved' = moved /\ mixed' = mixed
      BY <2>12 DEF Write, run, chain
    <3>2. CASE k # key[r]
      BY <2>12, <3>1, <3>2, <3>t DEF Write, Mark, RecordsAreTrue, TypeOK
    <3>3. CASE k = key[r] /\ at[r] \in {"succeed", "doubt"}
      <4>1. signed'[k] = Pushed(r)
        BY <2>12, <3>3, <3>t DEF Write, TypeOK
      <4>2. status'[k] = Outcome(r)
        BY <2>12, <3>3, <3>t DEF Write, Mark, TypeOK
      <4>3. done[r] > 0 /\ (at[r] = "succeed" => r \in mixed \/ Pushed(r) \cap moved # {})
        BY <3>3, <3>t DEF Fits, Inv, AllMeasure, Measures
      <4>4. Outcome(r) = "succeeded" => at[r] = "succeed"
        BY <3>3 DEF Outcome
      <4>5. QED
        BY <3>1, <3>3, <4>1, <4>2, <4>3, <4>4, PushedAre
    <3>4. CASE k = key[r] /\ at[r] \in {"skip", "none"}
      <4>1. status'[k] \in {"skipped", "failed"} /\ signed' = signed
        BY <2>12, <3>4, <3>t DEF Write, Mark, Outcome, TypeOK
      <4>2. QED
        BY <3>1, <4>1, <3>t DEF RecordsAreTrue
    <3>5. QED
      BY <2>12, <3>2, <3>3, <3>4 DEF Write
  <2>13. CASE WriteThrows(r)
    BY <2>13 DEF WriteThrows, Goto, vars, attempts, run, chain, switch, Inv, TypeOK, AllFit, Fits, RecordsAreTrue, Sending, Lamports, Txs
  <2>14. CASE Catch(r)
    <3> SUFFICES ASSUME NEW k \in Keys
                 PROVE  /\ \A t \in signed'[k] : t \in settled' /\ key'[t[1]] = k
                        /\ status'[k] \in {"succeeded", "review"} => signed'[k] # {}
                        /\ status'[k] = "succeeded" /\ signed'[k] \cap moved' = {} =>
                               \A t \in signed'[k] : t[1] \in mixed'
      BY DEF RecordsAreTrue
    <3>t. TypeOK /\ RecordsAreTrue
      BY DEF Inv
    <3>1. settled' = settled /\ key' = key /\ moved' = moved /\ mixed' = mixed
      BY <2>14 DEF Catch, run, chain
    <3>2. CASE k # key[r]
      BY <2>14, <3>1, <3>2, <3>t DEF Catch, Mark, RecordsAreTrue, TypeOK
    <3>3. CASE k = key[r] /\ done[r] > 0
      <4>1. signed'[k] = Pushed(r) /\ status'[k] = "review"
        BY <2>14, <3>3, <3>t DEF Catch, Mark, TypeOK
      <4>2. QED
        BY <3>1, <3>3, <4>1, PushedAre
    <3>4. CASE k = key[r] /\ ~(done[r] > 0)
      <4>1. signed' = signed /\ status'[k] = "failed"
        BY <2>14, <3>4, <3>t DEF Catch, Mark, TypeOK
      <4>2. QED
        BY <3>1, <4>1, <3>t DEF RecordsAreTrue
    <3>5. QED
      BY <3>2, <3>3, <3>4
  <2>15. CASE Die(r)
    BY <2>15 DEF Die, Goto, vars, attempts, run, chain, switch, Inv, TypeOK, AllFit, Fits, RecordsAreTrue, Sending, Lamports, Txs
  <2>16. QED
    BY <1>2, <2>1, <2>2, <2>3, <2>4, <2>5, <2>6, <2>7, <2>8, <2>9, <2>10, <2>11, <2>12, <2>13, <2>14, <2>15 DEF RunStep
<1>3. ASSUME NEW t \in Txs, Settle(t)
      PROVE  RecordsAreTrue'
  BY <1>3 DEF Settle, vars, attempts, run, chain, switch, Inv, TypeOK, AllFit, Fits, RecordsAreTrue, Sending, Lamports, Txs
<1>4. CASE Earn
  BY <1>4 DEF Earn, vars, attempts, run, chain, switch, Inv, TypeOK, AllFit, Fits, RecordsAreTrue, Sending, Lamports, Txs
<1>5. CASE Toggle
  BY <1>5 DEF Toggle, vars, attempts, run, chain, switch, Inv, TypeOK, AllFit, Fits, RecordsAreTrue, Sending, Lamports, Txs
<1>6. QED
  BY <1>1, <1>2, <1>3, <1>4, <1>5 DEF Next

\* Every step keeps the invariant.
THEOREM Inductive == Spec => []Inv
<1>1. Inv /\ [Next]_vars => Inv'
  BY TypeStep, EarnedStep, FitStep, MeasureStep, SwitchStep, LockStep, RecordStep DEF Inv
<1>2. QED
  BY InitInv, <1>1, PTL DEF Spec

\* The variables keep their types.
THEOREM TypeCorrect == Spec => []TypeOK
  BY Inductive, PTL DEF Inv

\* One execution at a time sends under an attempt, in calm.
THEOREM OneSends == Spec => []OneSender
<1>1. Inv => OneSender
  BY DEF Inv, RowIsLock, OneSender
<1>2. QED
  BY Inductive, <1>1, PTL

\* Once the switch is on, an execution gets one more transaction out at most.
THEOREM SwitchStops == Spec => []KillStops
<1>1. Inv => KillStops
  <2>1. \A n \in {0, 1} : n <= 1
    OBVIOUS
  <2>2. QED
    BY <2>1 DEF Inv, SwitchSeen, KillStops
<1>2. QED
  BY Inductive, <1>1, PTL

\* The rows tell the truth about what was claimed.
THEOREM RecordsHold == Spec => []RecordsAreTrue
  BY Inductive, PTL DEF Inv

\* An execution that answers leaves its signatures in the row.
THEOREM AnswersAreRecorded == Spec => NothingForgotten
<1>1. ASSUME Inv, [Next]_vars
      PROVE  [\A r \in Runs :
                at[r] # "over" /\ at'[r] = "over" /\ ~Die(r) =>
                    Pushed(r) \subseteq signed'[key[r]]]_vars
  <2> SUFFICES ASSUME NEW r \in Runs, at[r] # "over", at'[r] = "over", ~Die(r), Next
               PROVE  Pushed(r) \subseteq signed'[key[r]]
    BY <1>1
  <2>t. TypeOK /\ Fits(r)
    BY <1>1 DEF Inv, AllFit
  <2>n. done[r] = 0 => Pushed(r) = {}
    BY <2>t DEF TypeOK, Pushed
  <2>1. ASSUME NEW q \in Runs, RunStep(q)
        PROVE  Pushed(r) \subseteq signed'[key[r]]
    <3>1. CASE q # r
      <4>1. at'[r] = at[r]
        BY <2>1, <3>1, <2>t DEF RunStep, Reserve, Begin, Refuse, Claim, ReadBefore, List,
           Check, Sign, Confirm, ReadAfter, Throw, Write, WriteThrows, Catch, Die, Goto, TypeOK
      <4>2. QED
        BY <4>1
    <3>2. CASE q = r
      <4>1. CASE Refuse(r) \/ Claim(r)
        BY <4>1, <2>t, <2>n DEF Refuse, Claim, Fits
      <4>2. CASE Write(r)
        BY <4>2, <2>t, <2>n DEF Write, Fits, TypeOK
      <4>3. CASE Catch(r)
        <5>1. CASE done[r] > 0
          BY <4>3, <5>1, <2>t DEF Catch, TypeOK
        <5>2. CASE done[r] = 0
          BY <5>2, <2>n
        <5>3. QED
          BY <5>1, <5>2, <2>t DEF TypeOK
      <4>4. CASE Reserve(r) \/ Begin(r) \/ ReadBefore(r) \/ List(r) \/ Check(r) \/ Sign(r)
                 \/ Confirm(r) \/ ReadAfter(r) \/ Throw(r) \/ WriteThrows(r)
        BY <4>4, <2>t DEF Reserve, Begin, ReadBefore, List, Check, Sign, Confirm, ReadAfter,
           Throw, WriteThrows, Goto, TypeOK
      <4>5. QED
        BY <2>1, <3>2, <4>1, <4>2, <4>3, <4>4 DEF RunStep
    <3>3. QED
      BY <3>1, <3>2
  <2>2. (\E t \in Txs : Settle(t)) \/ Earn \/ Toggle => at' = at
    BY DEF Settle, Earn, Toggle
  <2>3. QED
    BY <2>1, <2>2 DEF Next
<1>2. QED
  BY Inductive, <1>1, PTL DEF Spec, NothingForgotten

=============================================================================
