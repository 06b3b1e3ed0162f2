-------------------------- MODULE AdminActionProofs --------------------------
(***************************************************************************)
(* Proofs about AdminAction, for every number of calls, users, requests and *)
(* rows: two persons stand behind every irreversible action, one open row   *)
(* per request, and the rows record what happened.                          *)
(***************************************************************************)
EXTENDS AdminAction, TLAPS

Executing == {"body", "complete", "close", "fail"}

\* Rows come into being in order; one that exists has a requester.
RowsMade ==
    /\ \A i \in Rows : i > made => status[i] = "none" /\ approver[i] = Nobody
    /\ \A i \in 1..made : requester[i] # Nobody

\* A request that needs no cosign has no row; any other has one in hand from
\* where it looks at it.
RowInHand ==
    \A c \in Calls :
        /\ wants[c] \in Plain => row[c] = 0 /\ at[c] \in {"idle", "body", "close", "over"}
        /\ at[c] \in {"read", "renew", "expire", "approve", "note"} => row[c] \in 1..made
        /\ at[c] \in Executing /\ wants[c] \notin Plain => row[c] \in 1..made

\* A call about to approve found another's request for the same thing.
ReadByAnother ==
    \A c \in Calls : at[c] = "approve" =>
        /\ print[row[c]] = wants[c]
        /\ requester[row[c]] # actor[c]
        /\ actor[c] \in Supers

\* From the approval on, the row is approved by the caller, a second person.
Approved(c, i) ==
    /\ print[i] = wants[c]
    /\ approver[i] = actor[c] /\ actor[c] \in Supers
    /\ requester[i] \notin {actor[c], Nobody}

ApprovedInHand ==
    \A c \in Calls :
        /\ at[c] = "note" => Approved(c, row[c])
        /\ at[c] \in Executing /\ wants[c] \notin Plain =>
             Approved(c, row[c]) /\ <<c, row[c]>> \in noted

\* Past the body, the body took effect.
BodyBehind == \A c \in Calls : at[c] \in {"complete", "close"} => <<c, row[c]>> \in performed

\* Every approved row has a requester other than its approver.
Distinct == \A i \in Rows : approver[i] # Nobody => requester[i] # approver[i] /\ i <= made

IInv ==
    /\ TypeOK
    /\ RowsMade /\ RowInHand /\ ReadByAnother /\ Distinct /\ ApprovedInHand /\ BodyBehind
    /\ TwoPersons /\ OneOpenRow /\ RecordsAreTrue

-----------------------------------------------------------------------------
(* Types. *)

LEMMA InitIInv == Init => IInv
<1> SUFFICES ASSUME Init PROVE IInv
    OBVIOUS
<1> USE AdminAssumption
<1>1. TypeOK
    BY DEF Init, TypeOK, Rows, Statuses, Places
<1>2. RowsMade /\ RowInHand /\ ReadByAnother /\ Distinct /\ ApprovedInHand /\ BodyBehind
    BY DEF Init, RowsMade, RowInHand, ReadByAnother, Distinct, ApprovedInHand, BodyBehind,
           Executing, Rows
<1>3. TwoPersons /\ OneOpenRow /\ RecordsAreTrue
    BY DEF Init, TwoPersons, OneOpenRow, RecordsAreTrue, Rows
<1>4. QED
    BY <1>1, <1>2, <1>3 DEF IInv

LEMMA TypeStep == IInv /\ [Next]_vars => TypeOK'
<1> SUFFICES ASSUME IInv, [Next]_vars PROVE TypeOK'
    OBVIOUS
<1>t. TypeOK /\ RowInHand /\ MaxRows \in Nat
    BY AdminAssumption DEF IInv
<1>u. 1..made \subseteq Rows /\ Rows \subseteq 0..MaxRows /\ 0 \in 0..MaxRows
    BY <1>t DEF TypeOK, Rows
<1>1. ASSUME NEW c \in Calls, Start(c) PROVE TypeOK'
    BY <1>1, <1>t, <1>u DEF Start, TypeOK, Rows, Statuses, Places, Goto, Mark, rows, request
<1>2. ASSUME NEW c \in Calls, Find(c) PROVE TypeOK'
    BY <1>2, <1>t, <1>u DEF Find, Open, TypeOK, Rows, Statuses, Places, Goto, Mark, rows, request
<1>3. ASSUME NEW c \in Calls, Renew(c) PROVE TypeOK'
    BY <1>3, <1>t, <1>u DEF Renew, RowInHand, TypeOK, Rows, Statuses, Places, Goto, Mark, rows, request
<1>4. ASSUME NEW c \in Calls, Insert(c) PROVE TypeOK'
    BY <1>4, <1>t DEF Insert, TypeOK, Rows, Statuses, Places, Goto, Mark, rows, request
<1>5. ASSUME NEW c \in Calls, Read(c) PROVE TypeOK'
    BY <1>5, <1>t DEF Read, TypeOK, Rows, Statuses, Places, Goto, Mark, rows, request
<1>6. ASSUME NEW c \in Calls, ReadLapsed(c) PROVE TypeOK'
    BY <1>6, <1>t DEF ReadLapsed, TypeOK, Rows, Statuses, Places, Goto, Mark, rows, request
<1>7. ASSUME NEW c \in Calls, Expire(c) PROVE TypeOK'
    BY <1>7, <1>t DEF Expire, TypeOK, Rows, Statuses, Places, Goto, Mark, rows, request
<1>8. ASSUME NEW c \in Calls, Approve(c) PROVE TypeOK'
    BY <1>8, <1>t DEF Approve, TypeOK, Rows, Statuses, Places, Goto, Mark, rows, request
<1>9. ASSUME NEW c \in Calls, Note(c) PROVE TypeOK'
    BY <1>9, <1>t DEF Note, RowInHand, TypeOK, Rows, Statuses, Places, Goto, Mark, rows, request
<1>10. ASSUME NEW c \in Calls, Perform(c) PROVE TypeOK'
    BY <1>10, <1>t DEF Perform, AfterBody, RowInHand, TypeOK, Rows, Statuses, Places, Goto, Mark, rows, request
<1>11. ASSUME NEW c \in Calls, PerformThrows(c) PROVE TypeOK'
    BY <1>11, <1>t DEF PerformThrows, AfterThrow, RowInHand, TypeOK, Rows, Statuses, Places, Goto, Mark, rows, request
<1>12. ASSUME NEW c \in Calls, Complete(c) PROVE TypeOK'
    BY <1>12, <1>t DEF Complete, TypeOK, Rows, Statuses, Places, Goto, Mark, rows, request
<1>13. ASSUME NEW c \in Calls, CompleteThrows(c) PROVE TypeOK'
    BY <1>13, <1>t DEF CompleteThrows, TypeOK, Rows, Statuses, Places, Goto, Mark, rows, request
<1>14. ASSUME NEW c \in Calls, Close(c) PROVE TypeOK'
    BY <1>14, <1>t DEF Close, TypeOK, Rows, Statuses, Places, Goto, Mark, rows, request
<1>15. ASSUME NEW c \in Calls, CloseThrows(c) PROVE TypeOK'
    BY <1>15, <1>t DEF CloseThrows, AfterThrow, TypeOK, Rows, Statuses, Places, Goto, Mark, rows, request
<1>16. ASSUME NEW c \in Calls, Fail(c) PROVE TypeOK'
    BY <1>16, <1>t DEF Fail, TypeOK, Rows, Statuses, Places, Goto, Mark, rows, request
<1>17. ASSUME NEW c \in Calls, Stop(c) PROVE TypeOK'
    BY <1>17, <1>t DEF Stop, TypeOK, Rows, Statuses, Places, Goto, Mark, rows, request
<1>18. ASSUME NEW i \in Rows, Lapse(i) PROVE TypeOK'
    BY <1>18, <1>t DEF Lapse, TypeOK, Rows, Statuses, Places, Goto, Mark, rows, request
<1>19. CASE UNCHANGED vars
    BY <1>19, <1>t DEF vars, TypeOK, Rows, Statuses, Places, Goto, Mark, rows, request
<1>20. QED
    BY <1>1, <1>2, <1>3, <1>4, <1>5, <1>6, <1>7, <1>8, <1>9, <1>10, <1>11, <1>12, <1>13, <1>14, <1>15, <1>16, <1>17, <1>18, <1>19 DEF Next, CallStep

-----------------------------------------------------------------------------
(* What stays: rows that exist keep their request, an approval stands, and   *)
(* nothing is taken off the record.                                         *)

Stays ==
    /\ made' \in Nat /\ made <= made'
    /\ \A i \in 1..made : print'[i] = print[i] /\ requester'[i] = requester[i]
    /\ \A i \in Rows : approver[i] # Nobody => approver'[i] = approver[i]
    /\ noted \subseteq noted' /\ performed \subseteq performed'
    /\ UNCHANGED request

LEMMA RowsStay == IInv /\ [Next]_vars => Stays
<1> SUFFICES ASSUME IInv, [Next]_vars PROVE Stays
    OBVIOUS
<1>t. TypeOK /\ MaxRows \in Nat
    BY AdminAssumption DEF IInv
<1>1. ASSUME NEW c \in Calls, Start(c) PROVE Stays
    BY <1>1, <1>t DEF Start, Stays, TypeOK, Rows, Goto, Mark, rows, request
<1>2. ASSUME NEW c \in Calls, Find(c) PROVE Stays
    BY <1>2, <1>t DEF Find, Stays, TypeOK, Rows, Goto, Mark, rows, request
<1>3. ASSUME NEW c \in Calls, Renew(c) PROVE Stays
    BY <1>3, <1>t DEF Renew, Stays, TypeOK, Rows, Goto, Mark, rows, request
<1>4. ASSUME NEW c \in Calls, Insert(c) PROVE Stays
    BY <1>4, <1>t DEF Insert, Stays, TypeOK, Rows, Goto, Mark, rows, request
<1>5. ASSUME NEW c \in Calls, Read(c) PROVE Stays
    BY <1>5, <1>t DEF Read, Stays, TypeOK, Rows, Goto, Mark, rows, request
<1>6. ASSUME NEW c \in Calls, ReadLapsed(c) PROVE Stays
    BY <1>6, <1>t DEF ReadLapsed, Stays, TypeOK, Rows, Goto, Mark, rows, request
<1>7. ASSUME NEW c \in Calls, Expire(c) PROVE Stays
    BY <1>7, <1>t DEF Expire, Stays, TypeOK, Rows, Goto, Mark, rows, request
<1>8. ASSUME NEW c \in Calls, Approve(c) PROVE Stays
    BY <1>8, <1>t DEF Approve, Stays, TypeOK, Rows, Goto, Mark, rows, request
<1>9. ASSUME NEW c \in Calls, Note(c) PROVE Stays
    BY <1>9, <1>t DEF Note, Stays, TypeOK, Rows, Goto, Mark, rows, request
<1>10. ASSUME NEW c \in Calls, Perform(c) PROVE Stays
    BY <1>10, <1>t DEF Perform, Stays, TypeOK, Rows, Goto, Mark, rows, request
<1>11. ASSUME NEW c \in Calls, PerformThrows(c) PROVE Stays
    BY <1>11, <1>t DEF PerformThrows, Stays, TypeOK, Rows, Goto, Mark, rows, request
<1>12. ASSUME NEW c \in Calls, Complete(c) PROVE Stays
    BY <1>12, <1>t DEF Complete, Stays, TypeOK, Rows, Goto, Mark, rows, request
<1>13. ASSUME NEW c \in Calls, CompleteThrows(c) PROVE Stays
    BY <1>13, <1>t DEF CompleteThrows, Stays, TypeOK, Rows, Goto, Mark, rows, request
<1>14. ASSUME NEW c \in Calls, Close(c) PROVE Stays
    BY <1>14, <1>t DEF Close, Stays, TypeOK, Rows, Goto, Mark, rows, request
<1>15. ASSUME NEW c \in Calls, CloseThrows(c) PROVE Stays
    BY <1>15, <1>t DEF CloseThrows, Stays, TypeOK, Rows, Goto, Mark, rows, request
<1>16. ASSUME NEW c \in Calls, Fail(c) PROVE Stays
    BY <1>16, <1>t DEF Fail, Stays, TypeOK, Rows, Goto, Mark, rows, request
<1>17. ASSUME NEW c \in Calls, Stop(c) PROVE Stays
    BY <1>17, <1>t DEF Stop, Stays, TypeOK, Rows, Goto, Mark, rows, request
<1>18. ASSUME NEW i \in Rows, Lapse(i) PROVE Stays
    BY <1>18, <1>t DEF Lapse, Stays, TypeOK, Rows, Goto, Mark, rows, request
<1>19. CASE UNCHANGED vars
    BY <1>19, <1>t DEF vars, Stays, TypeOK, Rows, Goto, Mark, rows, request
<1>20. QED
    BY <1>1, <1>2, <1>3, <1>4, <1>5, <1>6, <1>7, <1>8, <1>9, <1>10, <1>11, <1>12, <1>13, <1>14, <1>15, <1>16, <1>17, <1>18, <1>19 DEF Next, CallStep

\* The parts of the invariant about calls need only be looked at for the call
\* that moves; the others keep their place, their row and what is true of it.
Others(c) == \A d \in Calls : d # c => at'[d] = at[d] /\ row'[d] = row[d]

CallInv(d) ==
    /\ wants[d] \in Plain => row[d] = 0 /\ at[d] \in {"idle", "body", "close", "over"}
    /\ at[d] \in {"read", "renew", "expire", "approve", "note"} => row[d] \in 1..made
    /\ at[d] \in Executing /\ wants[d] \notin Plain => row[d] \in 1..made
    /\ at[d] = "approve" =>
         print[row[d]] = wants[d] /\ requester[row[d]] # actor[d] /\ actor[d] \in Supers
    /\ at[d] = "note" => Approved(d, row[d])
    /\ at[d] \in Executing /\ wants[d] \notin Plain =>
         Approved(d, row[d]) /\ <<d, row[d]>> \in noted
    /\ at[d] \in {"complete", "close"} => <<d, row[d]>> \in performed

LEMMA CallInvs ==
    (\A d \in Calls : CallInv(d)) <=> RowInHand /\ ReadByAnother /\ ApprovedInHand /\ BodyBehind
BY DEF CallInv, RowInHand, ReadByAnother, ApprovedInHand, BodyBehind

\* A call that does not move keeps its part.
LEMMA CallKeeps ==
    ASSUME IInv, Stays, NEW d \in Calls, at'[d] = at[d], row'[d] = row[d]
    PROVE  CallInv(d)'
<1>1. CallInv(d)
    BY CallInvs DEF IInv
<1>2. actor'[d] = actor[d] /\ wants'[d] = wants[d]
    BY DEF Stays, request
<1>3. row[d] \in 1..made => row[d] \in 1..made' /\ row[d] \in Rows
    BY AdminAssumption DEF IInv, TypeOK, Stays, Rows
<1>4. ASSUME row[d] \in 1..made, Approved(d, row[d]) PROVE Approved(d, row[d])'
    <2>1. print'[row[d]] = print[row[d]] /\ requester'[row[d]] = requester[row[d]]
        BY <1>4 DEF Stays
    <2>2. approver[row[d]] # Nobody
        BY <1>4, AdminAssumption DEF Approved
    <2>3. approver'[row[d]] = approver[row[d]]
        BY <1>3, <1>4, <2>2 DEF Stays
    <2> QED
        BY <1>2, <1>4, <2>1, <2>3 DEF Approved
<1>5. row[d] \in 1..made => print'[row[d]] = print[row[d]] /\ requester'[row[d]] = requester[row[d]]
    BY DEF Stays
<1>6. QED
    BY <1>1, <1>2, <1>3, <1>4, <1>5 DEF CallInv, Stays, Executing

\* The call that moves has its part where it arrives.
LEMMA CallArrives ==
    ASSUME IInv, Stays, NEW c \in Calls, CallStep(c)
    PROVE  CallInv(c)' /\ Others(c)
<1>t. TypeOK /\ MaxRows \in Nat
    BY AdminAssumption DEF IInv
<1>i. CallInv(c)
    BY CallInvs DEF IInv
<1>s. Stays
    OBVIOUS
<1>1. CASE Start(c)
    BY <1>1, <1>t, <1>i, AdminAssumption
       DEF Start, CallInv, Others, Approved, TypeOK, Rows, Executing, Goto, Mark, rows, request
<1>2. CASE Find(c)
    <2>1. \A i \in Rows : status[i] = "pending" => i \in 1..made
        BY <1>t DEF IInv, RowsMade, TypeOK, Rows
    <2>2. Others(c) /\ wants[c] \notin Plain
        BY <1>2, <1>i, <1>t DEF Find, Goto, CallInv, Others, TypeOK
    <2>3. at'[c] = "insert" \/ at'[c] = "over" \/ (at'[c] = "renew" /\ row'[c] \in 1..made)
        BY <1>2, <1>t, <2>1 DEF Find, Goto, Open, TypeOK
    <2>4. made' = made /\ wants' = wants
        BY <1>2 DEF Find, rows, request
    <2> QED
        BY <2>2, <2>3, <2>4 DEF CallInv, Executing
<1>3. CASE Renew(c)
    BY <1>3, <1>t, <1>i, AdminAssumption
       DEF Renew, CallInv, Others, Approved, TypeOK, Rows, Executing, Goto, Mark, rows, request
<1>4. CASE Insert(c)
    BY <1>4, <1>t, <1>i, AdminAssumption
       DEF Insert, CallInv, Others, Approved, TypeOK, Rows, Executing, Goto, Mark, rows, request
<1>5. CASE Read(c)
    <2>1. row[c] \in 1..made /\ wants[c] \notin Plain /\ Others(c) /\ row'[c] = row[c]
        BY <1>5, <1>i, <1>t DEF Read, Goto, CallInv, Others, TypeOK
    <2>2. UNCHANGED <<rows, request>>
        BY <1>5 DEF Read
    <2>3. CASE MayApprove(c, row[c]) /\ at'[c] = "approve" /\ print[row[c]] = wants[c]
        BY <2>1, <2>2, <2>3 DEF MayApprove, CallInv, Executing, rows, request
    <2>4. CASE MayResume(c, row[c]) /\ at'[c] = "note" /\ print[row[c]] = wants[c]
        <3>1. row[c] \in Rows /\ approver[row[c]] = actor[c] /\ actor[c] \in Supers
            BY <1>t, <2>1, <2>4 DEF MayResume, TypeOK, Rows
        <3>2. requester[row[c]] # Nobody /\ requester[row[c]] # approver[row[c]]
            BY <2>1, <3>1, AdminAssumption DEF IInv, RowsMade, Distinct
        <3>3. Approved(c, row[c])'
            BY <2>1, <2>2, <2>4, <3>1, <3>2 DEF Approved, rows, request
        <3> QED
            BY <2>1, <2>2, <2>4, <3>3 DEF CallInv, Executing, rows, request
    <2> QED
        BY <1>5, <1>t, <2>3, <2>4 DEF Read, Goto, TypeOK
<1>6. CASE ReadLapsed(c)
    BY <1>6, <1>t, <1>i, AdminAssumption
       DEF ReadLapsed, CallInv, Others, Approved, TypeOK, Rows, Executing, Goto, Mark, rows, request
<1>7. CASE Expire(c)
    BY <1>7, <1>t, <1>i, AdminAssumption
       DEF Expire, CallInv, Others, Approved, TypeOK, Rows, Executing, Goto, Mark, rows, request
<1>8. CASE Approve(c)
    BY <1>8, <1>t, <1>i, AdminAssumption
       DEF Approve, CallInv, Others, Approved, TypeOK, Rows, Executing, Goto, Mark, rows, request, RowsMade, IInv
<1>9. CASE Note(c)
    BY <1>9, <1>t, <1>i, AdminAssumption
       DEF Note, CallInv, Others, Approved, TypeOK, Rows, Executing, Goto, Mark, rows, request
<1>10. CASE Perform(c)
    BY <1>10, <1>t, <1>i, AdminAssumption
       DEF Perform, CallInv, Others, Approved, TypeOK, Rows, Executing, Goto, Mark, rows, request, AfterBody
<1>11. CASE PerformThrows(c)
    BY <1>11, <1>t, <1>i, AdminAssumption
       DEF PerformThrows, CallInv, Others, Approved, TypeOK, Rows, Executing, Goto, Mark, rows, request, AfterThrow
<1>12. CASE Complete(c)
    BY <1>12, <1>t, <1>i, AdminAssumption
       DEF Complete, CallInv, Others, Approved, TypeOK, Rows, Executing, Goto, Mark, rows, request
<1>13. CASE CompleteThrows(c)
    BY <1>13, <1>t, <1>i, AdminAssumption
       DEF CompleteThrows, CallInv, Others, Approved, TypeOK, Rows, Executing, Goto, Mark, rows, request
<1>14. CASE Close(c)
    BY <1>14, <1>t, <1>i, AdminAssumption
       DEF Close, CallInv, Others, Approved, TypeOK, Rows, Executing, Goto, Mark, rows, request
<1>15. CASE CloseThrows(c)
    BY <1>15, <1>t, <1>i, AdminAssumption
       DEF CloseThrows, CallInv, Others, Approved, TypeOK, Rows, Executing, Goto, Mark, rows, request, AfterThrow
<1>16. CASE Fail(c)
    BY <1>16, <1>t, <1>i, AdminAssumption
       DEF Fail, CallInv, Others, Approved, TypeOK, Rows, Executing, Goto, Mark, rows, request
<1>17. CASE Stop(c)
    BY <1>17, <1>t, <1>i, AdminAssumption
       DEF Stop, CallInv, Others, Approved, TypeOK, Rows, Executing, Goto, Mark, rows, request
<1>99. QED
    BY <1>1, <1>2, <1>3, <1>4, <1>5, <1>6, <1>7, <1>8, <1>9, <1>10, <1>11, <1>12, <1>13, <1>14, <1>15, <1>16, <1>17 DEF CallStep

LEMMA CallsStep == IInv /\ [Next]_vars => (\A d \in Calls : CallInv(d))'
<1> SUFFICES ASSUME IInv, [Next]_vars PROVE (\A d \in Calls : CallInv(d))'
    OBVIOUS
<1>s. Stays
    BY RowsStay
<1>1. ASSUME NEW c \in Calls, CallStep(c) PROVE (\A d \in Calls : CallInv(d))'
    <2>1. CallInv(c)' /\ Others(c)
        BY <1>1, <1>s, CallArrives
    <2>2. ASSUME NEW d \in Calls PROVE CallInv(d)'
        <3>1. CASE d = c
            BY <2>1, <3>1
        <3>2. CASE d # c
            BY <1>s, <2>1, <3>2, CallKeeps DEF Others
        <3> QED
            BY <3>1, <3>2
    <2> QED
        BY <2>2
<1>2. ASSUME UNCHANGED <<at, row>> PROVE (\A d \in Calls : CallInv(d))'
    BY <1>s, <1>2, CallKeeps
<1>3. QED
    BY <1>1, <1>2 DEF Next, Lapse, vars

-----------------------------------------------------------------------------
(* The rows. *)

LEMMA TwoPersonsStep == IInv /\ [Next]_vars => TwoPersons'
<1> SUFFICES ASSUME IInv, [Next]_vars,
                    NEW c \in Calls, NEW i \in 0..MaxRows,
                    <<c, i>> \in performed', wants'[c] \notin Plain
             PROVE  (/\ i \in Rows /\ print[i] = wants[c]
                     /\ approver[i] = actor[c] /\ actor[c] \in Supers
                     /\ requester[i] \notin {actor[c], Nobody}
                     /\ <<c, i>> \in noted)'
    BY DEF TwoPersons
<1>s. Stays
    BY RowsStay
<1>r. actor' = actor /\ wants' = wants
    BY <1>s DEF Stays, request
<1>1. ASSUME i \in 1..made, Approved(c, i), <<c, i>> \in noted
      PROVE  (/\ i \in Rows /\ print[i] = wants[c]
              /\ approver[i] = actor[c] /\ actor[c] \in Supers
              /\ requester[i] \notin {actor[c], Nobody}
              /\ <<c, i>> \in noted)'
    <2>1. i \in Rows /\ approver[i] # Nobody
        BY <1>1, AdminAssumption DEF Approved, Rows, IInv, TypeOK
    <2>2. approver'[i] = approver[i] /\ print'[i] = print[i] /\ requester'[i] = requester[i]
        BY <1>1, <1>s, <2>1 DEF Stays
    <2> QED
        BY <1>1, <1>r, <1>s, <2>1, <2>2 DEF Approved, Stays, Rows
<1>2. CASE <<c, i>> \in performed
    <2>1. i \in Rows /\ Approved(c, i) /\ <<c, i>> \in noted
        BY <1>2, <1>r DEF IInv, TwoPersons, Approved
    <2>2. i \in 1..made
        BY <2>1, AdminAssumption DEF IInv, Distinct, Approved, Rows, TypeOK
    <2> QED
        BY <1>1, <2>1, <2>2
<1>3. CASE <<c, i>> \notin performed
    <2>1. PICK d \in Calls : Perform(d) \/ PerformThrows(d)
        BY <1>3 DEF Next, CallStep, vars, Start, Find, Renew, Insert, Read, ReadLapsed,
                    Expire, Approve, Note, Complete, CompleteThrows, Close, CloseThrows,
                    Fail, Stop, Lapse
    <2>2. <<c, i>> = <<d, row[d]>> /\ at[d] = "body"
        BY <1>3, <2>1 DEF Perform, PerformThrows
    <2>3. c = d /\ i = row[c] /\ at[c] = "body"
        BY <2>2
    <2>4. i \in 1..made /\ Approved(c, i) /\ <<c, i>> \in noted
        BY <1>r, <2>3 DEF IInv, RowInHand, ApprovedInHand, Executing
    <2> QED
        BY <1>1, <2>4
<1>4. QED
    BY <1>2, <1>3

LEMMA RowsStep == IInv /\ [Next]_vars => (RowsMade /\ Distinct /\ OneOpenRow)'
<1> SUFFICES ASSUME IInv, [Next]_vars PROVE (RowsMade /\ Distinct /\ OneOpenRow)'
    OBVIOUS
<1>t. TypeOK /\ RowsMade /\ Distinct /\ OneOpenRow /\ RowInHand /\ ReadByAnother
    BY DEF IInv
<1>m. MaxRows \in Nat /\ Nobody \notin Admins
    BY AdminAssumption
<1>1. ASSUME UNCHANGED <<made, print, requester, approver>>,
             status' = status \/ \E i \in 1..made, s \in Statuses \ {"pending", "none"} :
                                    status' = [status EXCEPT ![i] = s]
      PROVE  (RowsMade /\ Distinct /\ OneOpenRow)'
    BY <1>1, <1>t, <1>m DEF TypeOK, RowsMade, Distinct, OneOpenRow, Rows, Statuses
<1>2. ASSUME NEW c \in Calls, Insert(c) PROVE (RowsMade /\ Distinct /\ OneOpenRow)'
    <2>1. made + 1 \in Rows /\ actor[c] \in Admins /\ Open(wants[c]) = {}
        BY <1>2, <1>t, <1>m DEF Insert, TypeOK, Rows
    <2>2. OneOpenRow'
        BY <1>2, <1>t, <2>1 DEF Insert, Mark, TypeOK, OneOpenRow, Open
    <2>3. (RowsMade /\ Distinct)'
        BY <1>2, <1>t, <1>m, <2>1 DEF Insert, Mark, TypeOK, RowsMade, Distinct, Rows
    <2> QED
        BY <2>2, <2>3
<1>3. ASSUME NEW c \in Calls, Approve(c) PROVE (RowsMade /\ Distinct /\ OneOpenRow)'
    <2>1. row[c] \in 1..made /\ requester[row[c]] # actor[c]
        BY <1>3, <1>t DEF Approve, RowInHand, ReadByAnother
    <2> QED
        BY <1>3, <1>t, <1>m, <2>1 DEF Approve, TypeOK, RowsMade, Distinct, OneOpenRow, Rows
<1>4. ASSUME NEW c \in Calls,
             Start(c) \/ Find(c) \/ Read(c) \/ ReadLapsed(c) \/ Note(c) \/ Perform(c)
               \/ PerformThrows(c) \/ Close(c) \/ CloseThrows(c) \/ Stop(c)
      PROVE  (RowsMade /\ Distinct /\ OneOpenRow)'
    BY <1>1, <1>4 DEF Start, Find, Read, ReadLapsed, Note, Perform, PerformThrows, Close,
                      CloseThrows, Stop, rows
<1>5. ASSUME NEW c \in Calls,
             Renew(c) \/ Expire(c) \/ Complete(c) \/ CompleteThrows(c) \/ Fail(c)
      PROVE  (RowsMade /\ Distinct /\ OneOpenRow)'
    <2>1. row[c] \in 1..made
        BY <1>5, <1>t DEF Renew, Expire, Complete, CompleteThrows, Fail, RowInHand, Executing
    <2>2. {"expired", "completed", "failed"} \subseteq Statuses \ {"pending", "none"}
        BY DEF Statuses
    <2> QED
        BY <1>1, <1>5, <2>1, <2>2 DEF Renew, Expire, Complete, CompleteThrows, Fail, Mark
<1>6. CASE UNCHANGED vars \/ \E i \in Rows : Lapse(i)
    BY <1>1, <1>6 DEF vars, rows, Lapse
<1>7. QED
    BY <1>2, <1>3, <1>4, <1>5, <1>6 DEF Next, CallStep

LEMMA RecordsStep == IInv /\ [Next]_vars => RecordsAreTrue'
<1> SUFFICES ASSUME IInv, [Next]_vars PROVE RecordsAreTrue'
    OBVIOUS
<1>s. Stays /\ approver' \in [Rows -> Admins \cup {Nobody}]
    BY RowsStay, TypeStep DEF TypeOK
<1>t. TypeOK /\ RecordsAreTrue
    BY DEF IInv
<1>1. ASSUME NEW i \in Rows, NEW s \in Statuses,
             status' = [status EXCEPT ![i] = s],
             s = "completed" => \E c \in Calls : <<c, i>> \in performed,
             s \in {"completed", "failed"} => approver[i] # Nobody
      PROVE  RecordsAreTrue'
    BY <1>1, <1>s, <1>t DEF RecordsAreTrue, TypeOK, Stays
<1>2. ASSUME UNCHANGED status PROVE RecordsAreTrue'
    BY <1>2, <1>s, <1>t DEF RecordsAreTrue, Stays
<1>3. ASSUME NEW c \in Calls, at[c] \in {"complete", "fail"}
      PROVE  row[c] \in Rows /\ approver[row[c]] # Nobody
    BY <1>3, AdminAssumption
       DEF IInv, TypeOK, RowInHand, ApprovedInHand, Approved, Executing, Rows
<1>4. ASSUME NEW c \in Calls, Complete(c) \/ CompleteThrows(c) PROVE RecordsAreTrue'
    <2>1. at[c] = "complete" /\ (status' = [status EXCEPT ![row[c]] = "completed"] \/ UNCHANGED status)
        BY <1>4 DEF Complete, CompleteThrows, Mark
    <2>2. row[c] \in Rows /\ approver[row[c]] # Nobody /\ <<c, row[c]>> \in performed
        BY <1>3, <2>1 DEF IInv, BodyBehind
    <2>3. "completed" \in Statuses
        BY DEF Statuses
    <2> QED
        BY <1>1, <1>2, <2>1, <2>2, <2>3
<1>5. ASSUME NEW c \in Calls, Fail(c) PROVE RecordsAreTrue'
    <2>1. row[c] \in Rows /\ approver[row[c]] # Nobody /\ "failed" \in Statuses
        BY <1>3, <1>5 DEF Fail, Statuses
    <2> QED
        BY <1>1, <1>5, <2>1 DEF Fail, Mark
<1>6. ASSUME NEW c \in Calls, Renew(c) \/ Expire(c) PROVE RecordsAreTrue'
    <2>1. row[c] \in Rows /\ "expired" \in Statuses
        BY <1>6, AdminAssumption DEF Renew, Expire, IInv, TypeOK, RowInHand, Rows, Statuses
    <2> QED
        BY <1>1, <1>6, <2>1 DEF Renew, Expire, Mark
<1>7. ASSUME NEW c \in Calls, Insert(c) PROVE RecordsAreTrue'
    <2>1. made + 1 \in Rows /\ "pending" \in Statuses
        BY <1>7, AdminAssumption DEF Insert, IInv, TypeOK, Rows, Statuses
    <2> QED
        BY <1>1, <1>7, <2>1 DEF Insert, Mark
<1>8. ASSUME NEW c \in Calls,
             Start(c) \/ Find(c) \/ Read(c) \/ ReadLapsed(c) \/ Approve(c) \/ Note(c)
               \/ Perform(c) \/ PerformThrows(c) \/ Close(c) \/ CloseThrows(c) \/ Stop(c)
      PROVE  RecordsAreTrue'
    BY <1>2, <1>8 DEF Start, Find, Read, ReadLapsed, Approve, Note, Perform, PerformThrows,
                      Close, CloseThrows, Stop, rows
<1>9. CASE UNCHANGED vars \/ \E i \in Rows : Lapse(i)
    BY <1>2, <1>9 DEF vars, rows, Lapse
<1>10. QED
    BY <1>4, <1>5, <1>6, <1>7, <1>8, <1>9 DEF Next, CallStep

-----------------------------------------------------------------------------

\* The inductive invariant holds of every behaviour.
THEOREM Inductive == Spec => []IInv
<1>1. Init => IInv
    BY InitIInv
<1>2. IInv /\ [Next]_vars => IInv'
    <2>1. (\A d \in Calls : CallInv(d))'
            => (RowInHand /\ ReadByAnother /\ ApprovedInHand /\ BodyBehind)'
        BY DEF CallInv, RowInHand, ReadByAnother, ApprovedInHand, BodyBehind
    <2> QED
        BY <2>1, TypeStep, CallsStep, TwoPersonsStep, RowsStep, RecordsStep DEF IInv
<1>3. QED
    BY <1>1, <1>2, PTL DEF Spec

\* Every variable keeps its type.
THEOREM TypeCorrect == Spec => []TypeOK
<1>1. IInv => TypeOK
    BY DEF IInv
<1>2. QED
    BY <1>1, Inductive, PTL

\* Whatever an irreversible request did was approved by a second person, a
\* super admin, for this very request and on record.
THEOREM TwoPersonsActed == Spec => []TwoPersons
<1>1. IInv => TwoPersons
    BY DEF IInv
<1>2. QED
    BY <1>1, Inductive, PTL

\* A request has one open row at most.
THEOREM OneRowIsOpen == Spec => []OneOpenRow
<1>1. IInv => OneOpenRow
    BY DEF IInv
<1>2. QED
    BY <1>1, Inductive, PTL

\* Completed rows were performed; completed and failed ones were approved.
THEOREM RecordsHold == Spec => []RecordsAreTrue
<1>1. IInv => RecordsAreTrue
    BY DEF IInv
<1>2. QED
    BY <1>1, Inductive, PTL

\* An approval is never taken away or handed to another.
THEOREM ApprovalIsFinal == Spec => ApprovalStands
<1>1. IInv /\ [Next]_vars => [\A i \in Rows : approver[i] # Nobody => approver'[i] = approver[i]]_vars
    BY RowsStay DEF Stays
<1>2. QED
    BY <1>1, Inductive, PTL DEF Spec, ApprovalStands

=============================================================================
