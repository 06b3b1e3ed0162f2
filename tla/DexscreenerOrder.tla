-------------------------- MODULE DexscreenerOrder --------------------------
(***************************************************************************)
(* Buying a project's DexScreener page: createDexscreenerOrderAction,       *)
(* submitDexscreenerPaymentAction and cancelDexscreenerOrderAction, as      *)
(* components/bags/DexscreenerOrderDialog.tsx strings them together.  A     *)
(* visit is one submission of the dialog: an order is made at Bags and      *)
(* stored, the wallet pays it, Bags is told of the payment.  Visits of one  *)
(* project overlap, in one tab or in many.  withIdempotency is used as      *)
(* module Idempotency shows it to behave.  Checks that end a visit before   *)
(* it takes its key (session, permission, wallet, Bags' availability) are   *)
(* among the ways to quit; stub orders, which nobody pays, are left out.    *)
(***************************************************************************)
EXTENDS Naturals

CONSTANTS
    Visits,     \* runs of handleSubmit for one project
    Images,     \* header images; a create key is its image
    MaxOrders   \* bound: orders Bags makes for the project

ASSUME OrderAssumption == MaxOrders \in Nat

VARIABLES
    place,      \* where each visit is
    image,      \* the header image it was given
    order,      \* the order it is about; 0 before there is one
    made,       \* how many orders Bags has made
    row,        \* the status of each order's row
    creating,   \* each create key
    reply,      \* and its stored answer; 0 is already_ordered
    paying,     \* each order's submit key
    sent,       \* the orders whose payment may be on chain
    accepted,   \* the orders Bags took the payment of
    asked,      \* history: how often Bags was told of each payment,
    reopened,   \* history: submit keys that were deleted or ran out unanswered,
    failedSent, \* history: orders marked failed when they had been paid,
    raced,      \* history: orders cancelled while or after another visit submitted,
    lost        \* and those a visit, a call or its answer got lost on

visit == <<image, order>>
createKeys == <<creating, reply>>
bags == <<accepted, asked>>
history == <<reopened, failedSent, raced, lost>>
orderVars == <<place, visit, made, row, createKeys, paying, sent, bags, history>>

Orders == 1..MaxOrders

Creating == {"guard", "request", "insert", "answer", "undo"}
Submitting == {"bags", "mark", "fail", "store", "release"}
Paying == Submitting \cup {"pay", "read", "claim", "cancel", "close"}

OrderTypeOK ==
    /\ place \in [Visits -> Creating \cup Paying \cup {"ask", "over"}]
    /\ image \in [Visits -> Images]
    /\ order \in [Visits -> 0..MaxOrders]
    /\ \A v \in Visits : place[v] \in Paying => order[v] # 0
    /\ made \in 0..MaxOrders
    /\ row \in [Orders -> {"none", "pending", "paid", "failed"}]
    /\ creating \in [Images -> {"free", "running", "answered"}]
    /\ reply \in [Images -> 0..MaxOrders]
    /\ paying \in [Orders -> {"free", "running", "answered"}]
    /\ sent \subseteq Orders /\ accepted \subseteq Orders
    /\ asked \in [Orders -> Nat]
    /\ reopened \subseteq Orders
    /\ failedSent \subseteq Orders
    /\ raced \subseteq Orders
    /\ lost \subseteq Orders

OrderInit ==
    /\ place = [v \in Visits |-> "ask"]
    /\ image \in [Visits -> Images]
    /\ order = [v \in Visits |-> 0]
    /\ made = 0
    /\ row = [o \in Orders |-> "none"]
    /\ creating = [i \in Images |-> "free"]
    /\ reply = [i \in Images |-> 0]
    /\ paying = [o \in Orders |-> "free"]
    /\ sent = {} /\ accepted = {}
    /\ asked = [o \in Orders |-> 0]
    /\ reopened = {} /\ failedSent = {} /\ raced = {} /\ lost = {}

-----------------------------------------------------------------------------
(* Helpers. *)

Proceed(v, p) == place' = [place EXCEPT ![v] = p]

\* ACTIVE_STATUSES, and the rows of the partial unique index.
Active == {o \in Orders : row[o] \in {"pending", "paid"}}

\* UPDATE dexscreener_orders SET status WHERE id: whatever the status is.
Mark(o, s) == row' = [row EXCEPT ![o] = s]

Lose(o) == lost' = lost \cup ({o} \cap Orders)

-----------------------------------------------------------------------------
(* createDexscreenerOrderAction. *)

\* withIdempotency: a running key throws, an answered one replays its answer
\* and a free one is claimed.
Ask(v) ==
    /\ place[v] = "ask"
    /\ CASE creating[image[v]] = "running" ->
              Proceed(v, "over") /\ UNCHANGED <<order, creating>>
         [] creating[image[v]] = "answered" ->
              /\ order' = [order EXCEPT ![v] = reply[image[v]]]
              /\ Proceed(v, IF reply[image[v]] = 0 THEN "over" ELSE "pay")
              /\ UNCHANGED creating
         [] creating[image[v]] = "free" ->
              /\ creating' = [creating EXCEPT ![image[v]] = "running"]
              /\ Proceed(v, "guard")
              /\ UNCHANGED order
    /\ UNCHANGED <<image, made, row, reply, paying, sent, bags, history>>

\* The duplicate-order guard.
Guard(v) ==
    /\ place[v] = "guard"
    /\ Proceed(v, IF Active = {} THEN "request" ELSE "answer")
    /\ UNCHANGED <<visit, made, row, createKeys, paying, sent, bags, history>>

\* bags.createDexscreenerOrder.
Request(v) ==
    /\ place[v] = "request" /\ made < MaxOrders
    /\ made' = made + 1
    /\ order' = [order EXCEPT ![v] = made + 1]
    /\ Proceed(v, "insert")
    /\ UNCHANGED <<image, row, createKeys, paying, sent, bags, history>>

\* Mutant: the table has no partial unique index.
InsertAnyway(v) ==
    /\ place[v] = "insert"
    /\ Mark(order[v], "pending")
    /\ \/ Proceed(v, "answer") /\ UNCHANGED lost
       \/ Proceed(v, "undo") /\ Lose(order[v])
    /\ UNCHANGED <<visit, made, createKeys, paying, sent, bags, reopened, failedSent, raced>>

\* The row, which the unique index may refuse; its answer may be lost.
Insert(v) ==
    /\ place[v] = "insert"
    /\ IF Active # {}
       THEN Proceed(v, "undo") /\ UNCHANGED <<row, lost>>
       ELSE /\ Mark(order[v], "pending")
            /\ \/ Proceed(v, "answer") /\ UNCHANGED lost
               \/ Proceed(v, "undo") /\ Lose(order[v])
    /\ UNCHANGED <<visit, made, createKeys, paying, sent, bags, reopened, failedSent, raced>>

\* The answer is stored, be it an order or already_ordered, and returned.
Answer(v) ==
    /\ place[v] = "answer"
    /\ creating' = [creating EXCEPT ![image[v]] = "answered"]
    /\ reply' = [reply EXCEPT ![image[v]] = order[v]]
    /\ Proceed(v, IF order[v] = 0 THEN "over" ELSE "pay")
    /\ UNCHANGED <<visit, made, row, paying, sent, bags, history>>

\* A call throws without effect on the rows, or the answer cannot be stored.
CreateThrows(v) ==
    /\ place[v] \in {"guard", "request", "insert", "answer"}
    /\ Proceed(v, "undo")
    /\ Lose(order[v])
    /\ UNCHANGED <<visit, made, row, createKeys, paying, sent, bags, reopened, failedSent, raced>>

\* withIdempotency's catch clause deletes the key.
UndoCreate(v) ==
    /\ place[v] = "undo"
    /\ creating' = [creating EXCEPT ![image[v]] = "free"]
    /\ Proceed(v, "over")
    /\ UNCHANGED <<visit, made, row, reply, paying, sent, bags, history>>

-----------------------------------------------------------------------------
(* The wallet. *)

\* sendTransaction returns the signature.
Pay(v) ==
    /\ place[v] = "pay"
    /\ sent' = sent \cup {order[v]}
    /\ Proceed(v, "read")
    /\ UNCHANGED <<visit, made, row, createKeys, paying, bags, history>>

\* It throws: before the transaction is out or after it.
WalletThrows(v) ==
    /\ place[v] = "pay"
    /\ sent' \in {sent, sent \cup {order[v]}}
    /\ Proceed(v, "cancel")
    /\ UNCHANGED <<visit, made, row, createKeys, paying, bags, history>>

-----------------------------------------------------------------------------
(* submitDexscreenerPaymentAction. *)

\* Mutant: the status of the row is not looked at.
ReadAny(v) ==
    /\ place[v] = "read"
    /\ Proceed(v, "claim")
    /\ UNCHANGED <<visit, made, row, createKeys, paying, sent, bags, history>>

\* Only a pending order is submitted ("broadcast" is never written).
Read(v) ==
    /\ place[v] = "read"
    /\ Proceed(v, IF row[order[v]] = "pending" THEN "claim" ELSE "over")
    /\ UNCHANGED <<visit, made, row, createKeys, paying, sent, bags, history>>

\* Mutant: a submission that is running is no obstacle.
ClaimSubmitRunning(v) ==
    /\ place[v] = "claim"
    /\ IF paying[order[v]] # "answered"
       THEN paying' = [paying EXCEPT ![order[v]] = "running"] /\ Proceed(v, "bags")
       ELSE Proceed(v, "over") /\ UNCHANGED paying
    /\ UNCHANGED <<visit, made, row, createKeys, sent, bags, history>>

\* withIdempotency on the order's id.
ClaimSubmit(v) ==
    /\ place[v] = "claim"
    /\ IF paying[order[v]] = "free"
       THEN paying' = [paying EXCEPT ![order[v]] = "running"] /\ Proceed(v, "bags")
       ELSE Proceed(v, "over") /\ UNCHANGED paying
    /\ UNCHANGED <<visit, made, row, createKeys, sent, bags, history>>

\* bags.submitDexscreenerPayment takes the payment; its answer may be lost.
Accept(v) ==
    /\ place[v] = "bags"
    /\ asked' = [asked EXCEPT ![order[v]] = @ + 1]
    /\ accepted' = accepted \cup {order[v]}
    /\ \/ Proceed(v, "mark") /\ UNCHANGED lost
       \/ Proceed(v, "fail") /\ Lose(order[v])
    /\ UNCHANGED <<visit, made, row, createKeys, paying, sent, reopened, failedSent, raced>>

\* It throws and did not take it.
Refuse(v) ==
    /\ place[v] = "bags"
    /\ asked' = [asked EXCEPT ![order[v]] = @ + 1]
    /\ Proceed(v, "fail")
    /\ UNCHANGED <<visit, made, row, createKeys, paying, sent, accepted, history>>

\* The row becomes paid, unless the unique index refuses to take it back in.
MarkPaid(v) ==
    /\ place[v] = "mark"
    /\ IF Active \subseteq {order[v]}
       THEN Mark(order[v], "paid") /\ Proceed(v, "store")
       ELSE Proceed(v, "release") /\ UNCHANGED row
    /\ UNCHANGED <<visit, made, createKeys, paying, sent, bags, history>>

\* The row becomes failed.
MarkFailed(v) ==
    /\ place[v] = "fail"
    /\ Mark(order[v], "failed")
    /\ failedSent' = failedSent \cup {order[v]}
    /\ Proceed(v, "store")
    /\ UNCHANGED <<visit, made, createKeys, paying, sent, bags, reopened, raced, lost>>

\* The result is stored under the order's key.
Store(v) ==
    /\ place[v] = "store"
    /\ paying' = [paying EXCEPT ![order[v]] = "answered"]
    /\ Proceed(v, "over")
    /\ UNCHANGED <<visit, made, row, createKeys, sent, bags, history>>

\* An update throws without effect; or the audit after it throws, or its result
\* cannot be stored.
SubmitThrows(v) ==
    /\ place[v] \in {"mark", "fail", "store"}
    /\ Proceed(v, "release")
    /\ Lose(order[v])
    /\ UNCHANGED <<visit, made, row, createKeys, paying, sent, bags, reopened, failedSent, raced>>

\* withIdempotency's catch clause deletes the key.
Release(v) ==
    /\ place[v] = "release"
    /\ paying' = [paying EXCEPT ![order[v]] = "free"]
    /\ reopened' = reopened \cup {order[v]}
    /\ Proceed(v, "over")
    /\ UNCHANGED <<visit, made, row, createKeys, sent, bags, failedSent, raced, lost>>

-----------------------------------------------------------------------------
(* cancelDexscreenerOrderAction, which the dialog calls when the wallet throws. *)

CancelRead(v) ==
    /\ place[v] = "cancel"
    /\ Proceed(v, IF row[order[v]] = "pending" THEN "close" ELSE "over")
    /\ UNCHANGED <<visit, made, row, createKeys, paying, sent, bags, history>>

\* The update is by id: what has become of the row since is not looked at.
Close(v) ==
    /\ place[v] = "close"
    /\ Mark(order[v], "failed")
    /\ Proceed(v, "over")
    /\ failedSent' = failedSent \cup (sent \cap {order[v]})
    /\ raced' = IF \/ row[order[v]] = "paid"
                  \/ \E w \in Visits : order[w] = order[v] /\ place[w] \in {"claim", "bags", "mark"}
                THEN raced \cup {order[v]} ELSE raced
    /\ UNCHANGED <<visit, made, createKeys, paying, sent, bags, reopened, lost>>

-----------------------------------------------------------------------------
(* The environment. *)

\* The visit is refused, the tab is closed, or the function dies.
Quit(v) ==
    /\ place[v] # "over"
    /\ Proceed(v, "over")
    /\ Lose(order[v])
    /\ UNCHANGED <<visit, made, row, createKeys, paying, sent, bags, reopened, failedSent, raced>>

\* A create key runs out after a day; no call lasts that long.
CreateLapses(i) ==
    /\ creating[i] # "free"
    /\ \A v \in Visits : image[v] = i => place[v] \notin Creating
    /\ creating' = [creating EXCEPT ![i] = "free"]
    /\ UNCHANGED <<place, visit, made, row, reply, paying, sent, bags, history>>

\* So does a submit key.
SubmitLapses(o) ==
    /\ paying[o] # "free"
    /\ \A v \in Visits : order[v] = o => place[v] \notin Submitting \cup {"claim"}
    /\ paying' = [paying EXCEPT ![o] = "free"]
    /\ reopened' = IF paying[o] = "running" THEN reopened \cup {o} ELSE reopened
    /\ UNCHANGED <<place, visit, made, row, createKeys, sent, bags, failedSent, raced, lost>>

VisitStep(v) ==
    \/ Ask(v) \/ Guard(v) \/ Request(v) \/ Insert(v) \/ Answer(v)
    \/ CreateThrows(v) \/ UndoCreate(v)
    \/ Pay(v) \/ WalletThrows(v)
    \/ Read(v) \/ ClaimSubmit(v) \/ Accept(v) \/ Refuse(v)
    \/ MarkPaid(v) \/ MarkFailed(v) \/ Store(v) \/ SubmitThrows(v) \/ Release(v)
    \/ CancelRead(v) \/ Close(v)
    \/ Quit(v)

OrderNext ==
    \/ \E v \in Visits : VisitStep(v)
    \/ \E i \in Images : CreateLapses(i)
    \/ \E o \in Orders : SubmitLapses(o)

OrderSpec == OrderInit /\ [][OrderNext]_orderVars

-----------------------------------------------------------------------------

\* A project's page is bought once: of the orders Bags took payment for, all but
\* those whose row was marked failed after they were paid are one and the same.
OneListing ==
    \A o, p \in accepted \ failedSent : o = p

\* "a network retry on the same submission must NOT call Bags twice": Bags is told
\* again of a payment only if the first submission threw or died.
AskedOnce == \A o \in Orders : asked[o] > 1 => o \in reopened

\* Once nobody is busy with an order, its row is paid if Bags took the payment
\* and failed if not: it does not keep the project's slot.  Excepted are orders on
\* which a call, an answer or a visit got lost, and those cancelled by id while
\* another visit submitted their payment or after it had been taken.
BooksMatch ==
    \A o \in Orders \ (lost \cup raced) :
        /\ row[o] # "none"
        /\ \A v \in Visits : order[v] = o => place[v] = "over"
        => row[o] = IF o \in accepted THEN "paid" ELSE "failed"

=============================================================================
