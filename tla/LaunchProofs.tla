---------------------------- MODULE LaunchProofs ----------------------------
(***************************************************************************)
(* Proofs about Launch, for every set of calls and every bound.             *)
(***************************************************************************)
EXTENDS Launch, TLAPS

\* The fee of a row, and of a call that is about to use one, is a fee.
FeesKnown ==
    /\ row.id # 0 => row.fee \in Fees
    /\ \A c \in Calls : pc[c] \in {"token", "share", "edit"} => ctx[c].fee \in Fees

\* Past createFeeShareConfig, the token a call works with has a config.
Shared == {"configure", "persist", "mark", "claim", "send", "golive", "record", "activate"}

TokensShared ==
    \A c \in Calls :
        /\ pc[c] \in Shared \cup {"share"} => ctx[c].mint \in Mints
        /\ pc[c] \in Shared => shares[ctx[c].mint] # NoFee

\* A call that submits holds the token's key alone, and what was submitted
\* before and did not throw keeps the key.
SendsCounted ==
    /\ \A c \in Calls : pc[c] = "send" =>
          keyedSend[ctx[c].mint] = "running" /\ sends[ctx[c].mint] <= throws[ctx[c].mint]
    /\ \A c, d \in Calls :
          pc[c] = "send" /\ pc[d] = "send" /\ ctx[c].mint = ctx[d].mint => c = d
    /\ \A m \in Mints : keyedSend[m] = "none" => sends[m] <= throws[m]
    /\ SubmittedOnce

IInv == TypeOK /\ FeesKnown /\ TokensShared /\ SharesComeFirst /\ SendsCounted

-----------------------------------------------------------------------------

(* What the definitions that build records do to their fields.             *)

LEMMA Bounds == MaxRows \in Nat /\ MaxMints \in Nat
BY LaunchAssumption

LEMMA FeeKinds == NoFee \notin Fees /\ NoFee \in Amounts /\ Fees \subseteq Amounts
BY LaunchAssumption DEF Amounts

LEMMA RowFields ==
    ASSUME NEW r \in Row
    PROVE  /\ r.id \in RowIds /\ r.status \in Statuses /\ r.mint \in 0..MaxMints
           /\ r.fee \in Amounts /\ r.wallet \in Wallets /\ r.pending \in BOOLEAN
BY DEF Row

LEMMA ContextFields ==
    ASSUME NEW k \in Context
    PROVE  /\ k.id \in RowIds /\ k.mint \in 0..MaxMints
           /\ k.fee \in Amounts /\ k.wallet \in Wallets
BY DEF Context

LEMMA NoRowFields == NoRow \in Row /\ NoRow.id = 0 /\ NoRow.mint = 0
BY Bounds, FeeKinds DEF NoRow, Row, RowIds, Statuses, Wallets

LEMMA NoMirrorType == NoMirror \in Mirror /\ NoMirror.mint = 0
BY Bounds DEF NoMirror, Mirror

\* What the handlers work with is tokens.
LEMMA Worked == TypeOK => offered \cup signed \cup ({row.mint, mirror.mint} \ {0}) \subseteq Mints
<1>1. ASSUME TypeOK PROVE row.mint \in 0..MaxMints /\ mirror.mint \in 0..MaxMints
    BY <1>1, RowFields DEF TypeOK, Mirror
<1>2. ASSUME TypeOK PROVE offered \subseteq Mints /\ signed \subseteq Mints
    BY <1>2 DEF TypeOK
<1>3. QED
    BY <1>1, <1>2, Bounds DEF Mints

LEMMA NoContextFields == NoContext \in Context
BY Bounds, FeeKinds DEF NoContext, Knowing, Context, RowIds, Wallets

LEMMA KnowingFields ==
    ASSUME NEW mode \in {"none", "user", "direct", "resume"}, NEW id \in RowIds,
           NEW mint \in 0..MaxMints, NEW fee \in Amounts, NEW wallet \in Wallets
    PROVE  /\ Knowing(mode, id, mint, fee, wallet) \in Context
           /\ Knowing(mode, id, mint, fee, wallet).mint = mint
           /\ Knowing(mode, id, mint, fee, wallet).fee = fee
BY DEF Knowing, Context

LEMMA UpdateEffect ==
    ASSUME TypeOK, NEW status \in Statuses, NEW mint \in 0..MaxMints,
           NEW wallet \in Wallets, NEW pending \in BOOLEAN,
           Update(status, mint, wallet, pending)
    PROVE  /\ row' \in Row
           /\ row'.id = row.id /\ row'.fee = row.fee /\ row'.mint = mint
BY DEF TypeOK, Update, Row

LEMMA InsertEffect ==
    ASSUME TypeOK, NEW fee \in Fees, Insert(fee)
    PROVE  /\ row.id = 0 /\ rows + 1 \in RowIds /\ rows' = rows + 1
           /\ row' \in Row
           /\ row'.id = rows + 1 /\ row'.fee = fee /\ row'.mint = 0
<1>1. rows \in 0..MaxRows /\ rows < MaxRows
    BY DEF TypeOK, Insert, RowIds
<1>2. rows + 1 \in RowIds /\ 0 \in 0..MaxMints
    BY <1>1, Bounds DEF RowIds
<1>3. fee \in Amounts
    BY FeeKinds
<1>4. row' = [id |-> rows + 1, status |-> "draft", mint |-> 0, fee |-> fee,
             wallet |-> "none", pending |-> FALSE]
    BY DEF Insert
<1>5. row' \in Row /\ row'.id = rows + 1 /\ row'.fee = fee /\ row'.mint = 0
    BY <1>2, <1>3, <1>4 DEF Row, Statuses, Wallets
<1>6. QED
    BY <1>2, <1>5 DEF Insert

LEMMA SetMint ==
    ASSUME NEW k \in Context, NEW m \in 0..MaxMints
    PROVE  /\ [k EXCEPT !.mint = m] \in Context
           /\ [k EXCEPT !.mint = m].mint = m
           /\ [k EXCEPT !.mint = m].fee = k.fee
BY DEF Context

LEMMA SetFee ==
    ASSUME NEW k \in Context, NEW f \in Amounts
    PROVE  /\ [k EXCEPT !.fee = f] \in Context
           /\ [k EXCEPT !.fee = f].fee = f
           /\ [k EXCEPT !.fee = f].mint = k.mint
BY DEF Context

LEMMA SetRowFee ==
    ASSUME NEW r \in Row, NEW f \in Amounts
    PROVE  /\ [r EXCEPT !.fee = f] \in Row
           /\ [r EXCEPT !.fee = f].fee = f
           /\ [r EXCEPT !.fee = f].id = r.id
           /\ [r EXCEPT !.fee = f].mint = r.mint
BY DEF Row

LEMMA NextMint ==
    ASSUME TypeOK, mints < MaxMints
    PROVE  mints + 1 \in Mints /\ mints + 1 \in 0..MaxMints
<1>1. mints \in 0..MaxMints
    BY DEF TypeOK
<1>2. QED
    BY <1>1, Bounds DEF Mints

\* A call begins, goes on or ends; the others stay where they are.
LEMMA BeginEffect ==
    ASSUME TypeOK, NEW c \in Calls, NEW h, NEW l \in Places, NEW k \in Context,
           Begin(c, h, l, k)
    PROVE  /\ pc' \in [Calls -> Places] /\ ctx' \in [Calls -> Context]
           /\ pc'[c] = l /\ ctx'[c] = k
           /\ \A d \in Calls : d # c => pc'[d] = pc[d] /\ ctx'[d] = ctx[d]
BY DEF TypeOK, Begin, Goto

LEMMA GotoEffect ==
    ASSUME TypeOK, NEW c \in Calls, NEW l \in Places, Goto(c, l)
    PROVE  /\ pc' \in [Calls -> Places]
           /\ pc'[c] = l
           /\ \A d \in Calls : d # c => pc'[d] = pc[d]
BY DEF TypeOK, Goto

LEMMA EndEffect ==
    ASSUME TypeOK, NEW c \in Calls, End(c)
    PROVE  /\ pc' \in [Calls -> Places] /\ ctx' \in [Calls -> Context]
           /\ pc'[c] = "over" /\ ctx'[c] = NoContext
           /\ \A d \in Calls : d # c => pc'[d] = pc[d] /\ ctx'[d] = ctx[d]
BY NoContextFields DEF TypeOK, End, Goto, Places

LEMMA InitIInv == Init => IInv
<1> SUFFICES ASSUME Init PROVE IInv
    OBVIOUS
<1>1. TypeOK
    BY Bounds, FeeKinds, NoRowFields, NoContextFields
       DEF Init, TypeOK, Mirror, NoMirror, Places, Mints, RowIds
<1>2. FeesKnown /\ TokensShared /\ SharesComeFirst
    BY NoRowFields DEF Init, FeesKnown, TokensShared, Shared, SharesComeFirst, NoMirror
<1>3. SendsCounted
    BY DEF Init, SendsCounted, SubmittedOnce
<1>4. QED
    BY <1>1, <1>2, <1>3 DEF IInv

\* A new draft; the call knows its fee.
LEMMA CreateStep == ASSUME IInv, NEW c \in Calls, Create(c) PROVE IInv'
<1> USE DEF IInv
<1>1. PICK fee \in Fees : Create(c)!(fee)
    BY DEF Create
<1>2. /\ row.id = 0 /\ rows + 1 \in RowIds /\ rows' = rows + 1
      /\ row' \in Row /\ row'.id = rows + 1 /\ row'.fee = fee /\ row'.mint = 0
    BY <1>1, InsertEffect
<1>3. /\ rows + 1 \in RowIds /\ 0 \in 0..MaxMints
      /\ fee \in Amounts /\ "user" \in Wallets
    BY <1>1, <1>2, FeeKinds, RowFields, Bounds DEF Wallets, TypeOK
<1>4. /\ Knowing("user", rows + 1, 0, fee, "user") \in Context
      /\ Knowing("user", rows + 1, 0, fee, "user").mint = 0
      /\ Knowing("user", rows + 1, 0, fee, "user").fee = fee
    BY <1>3, KnowingFields
<1>5. Begin(c, "wizard", "read", Knowing("user", rows + 1, 0, fee, "user")) /\ "read" \in Places
    BY <1>1 DEF Create, Places
<1>6. /\ pc' \in [Calls -> Places] /\ ctx' \in [Calls -> Context]
      /\ pc'[c] = "read" /\ ctx'[c].mint = 0 /\ ctx'[c].fee = fee
      /\ \A d \in Calls : d # c => pc'[d] = pc[d] /\ ctx'[d] = ctx[d]
    BY <1>4, <1>5 DEF Begin, Goto, TypeOK
<1>7. UNCHANGED <<mirror, mints, shares, keyedMint, keyedSend, sends, throws, offered, signed>>
    BY <1>1 DEF Create, bags, submission, wallets
<1>8. TypeOK'
    BY <1>2, <1>6, <1>7 DEF TypeOK
<1>9. FeesKnown'
    BY <1>2, <1>6, <1>7, FeeKinds DEF FeesKnown
<1>10. TokensShared'
    BY <1>2, <1>6, <1>7 DEF TokensShared, Shared
<1>11. SharesComeFirst'
    BY <1>2, <1>6, <1>7 DEF SharesComeFirst
<1>12. SendsCounted'
    BY <1>2, <1>6, <1>7 DEF SendsCounted, SubmittedOnce
<1>13. QED
    BY <1>8, <1>9, <1>10, <1>11, <1>12

\* The call knows the row and its form's fee.
LEMMA RecoverStep == ASSUME IInv, NEW c \in Calls, Recover(c) PROVE IInv'
<1> USE DEF IInv
<1>1. PICK fee \in Fees : Recover(c)!(fee)
    BY DEF Recover
<1>2. /\ row.id \in RowIds /\ 0 \in 0..MaxMints
      /\ fee \in Amounts /\ "user" \in Wallets
    BY <1>1, FeeKinds, RowFields, Bounds DEF Wallets, TypeOK
<1>3. /\ Knowing("user", row.id, 0, fee, "user") \in Context
      /\ Knowing("user", row.id, 0, fee, "user").mint = 0
      /\ Knowing("user", row.id, 0, fee, "user").fee = fee
    BY <1>2, KnowingFields
<1>4. Begin(c, "wizard", "read", Knowing("user", row.id, 0, fee, "user")) /\ "read" \in Places
    BY <1>1 DEF Recover, Places
<1>5. /\ pc' \in [Calls -> Places] /\ ctx' \in [Calls -> Context]
      /\ pc'[c] = "read" /\ ctx'[c].mint = 0 /\ ctx'[c].fee = fee
      /\ \A d \in Calls : d # c => pc'[d] = pc[d] /\ ctx'[d] = ctx[d]
    BY <1>3, <1>4 DEF Begin, Goto, TypeOK
<1>6. UNCHANGED <<row, rows, mirror, mints, shares, keyedMint, keyedSend, sends, throws, offered, signed>>
    BY <1>1 DEF Recover, bags, submission, wallets
<1>7. TypeOK'
    BY <1>5, <1>6 DEF TypeOK
<1>8. FeesKnown'
    BY <1>5, <1>6, FeeKinds DEF FeesKnown
<1>9. TokensShared'
    BY <1>5, <1>6 DEF TokensShared, Shared
<1>10. SharesComeFirst'
    BY <1>5, <1>6 DEF SharesComeFirst
<1>11. SendsCounted'
    BY <1>5, <1>6 DEF SendsCounted, SubmittedOnce
<1>12. QED
    BY <1>7, <1>8, <1>9, <1>10, <1>11

\* The call knows the row.
LEMMA PostStep == ASSUME IInv, NEW c \in Calls, Post(c) PROVE IInv'
<1> USE DEF IInv
<1>1. /\ row.id \in RowIds /\ 0 \in 0..MaxMints
      /\ NoFee \in Amounts /\ "user" \in Wallets
    BY FeeKinds, RowFields, Bounds DEF Wallets, TypeOK
<1>2. /\ Knowing("user", row.id, 0, NoFee, "user") \in Context
      /\ Knowing("user", row.id, 0, NoFee, "user").mint = 0
      /\ Knowing("user", row.id, 0, NoFee, "user").fee = NoFee
    BY <1>1, KnowingFields
<1>3. Begin(c, "route", "read", Knowing("user", row.id, 0, NoFee, "user")) /\ "read" \in Places
    BY DEF Post, Places
<1>4. /\ pc' \in [Calls -> Places] /\ ctx' \in [Calls -> Context]
      /\ pc'[c] = "read" /\ ctx'[c].mint = 0 /\ ctx'[c].fee = NoFee
      /\ \A d \in Calls : d # c => pc'[d] = pc[d] /\ ctx'[d] = ctx[d]
    BY <1>2, <1>3, BeginEffect
<1>5. UNCHANGED <<row, rows, mirror, mints, shares, keyedMint, keyedSend, sends, throws, offered, signed>>
    BY DEF Post, bags, submission, wallets
<1>6. TypeOK'
    BY <1>4, <1>5 DEF TypeOK
<1>7. FeesKnown'
    BY <1>4, <1>5, FeeKinds DEF FeesKnown
<1>8. TokensShared'
    BY <1>4, <1>5 DEF TokensShared, Shared
<1>9. SharesComeFirst'
    BY <1>4, <1>5 DEF SharesComeFirst
<1>10. SendsCounted'
    BY <1>4, <1>5 DEF SendsCounted, SubmittedOnce
<1>11. QED
    BY <1>6, <1>7, <1>8, <1>9, <1>10

\* The fee is the form's or the row's, which is a fee.
LEMMA ReadDraftStep == ASSUME IInv, NEW c \in Calls, ReadDraft(c) PROVE IInv'
<1> USE DEF IInv
<1>1. /\ pc[c] = "read" /\ row.fee \in Fees /\ row.fee \in Amounts
    BY FeeKinds DEF ReadDraft, Here, FeesKnown
<1>2. /\ ctx' = [ctx EXCEPT ![c] = [ctx[c] EXCEPT !.fee = IF ctx[c].fee = NoFee THEN row.fee ELSE ctx[c].fee]]
    BY DEF ReadDraft, TypeOK
<1>3. /\ ctx' \in [Calls -> Context]
      /\ ctx'[c].mint = ctx[c].mint /\ ctx'[c].fee \in Fees
      /\ \A d \in Calls : d # c => ctx'[d] = ctx[d]
    BY <1>1, <1>2, SetFee, ContextFields DEF TypeOK, Amounts
<1>4. /\ pc' \in [Calls -> Places] /\ pc'[c] = "token"
      /\ \A d \in Calls : d # c => pc'[d] = pc[d]
    BY GotoEffect DEF ReadDraft, Places
<1>5. UNCHANGED <<row, rows, mirror, mints, shares, keyedMint, keyedSend, sends, throws, offered, signed>>
    BY DEF ReadDraft, bags, submission, wallets
<1>6. TypeOK'
    BY <1>3, <1>4, <1>5 DEF TypeOK
<1>7. FeesKnown'
    BY <1>3, <1>4, <1>5, FeeKinds DEF FeesKnown
<1>8. TokensShared'
    BY <1>3, <1>4, <1>5 DEF TokensShared, Shared
<1>9. SharesComeFirst'
    BY <1>3, <1>4, <1>5 DEF SharesComeFirst
<1>10. SendsCounted'
    BY <1>3, <1>4, <1>5 DEF SendsCounted, SubmittedOnce
<1>11. QED
    BY <1>6, <1>7, <1>8, <1>9, <1>10

\* What is offered is the row's token.
LEMMA ReadConfiguredStep == ASSUME IInv, NEW c \in Calls, ReadConfigured(c) PROVE IInv'
<1> USE DEF IInv
<1>1. /\ pc' \in [Calls -> Places] /\ ctx' \in [Calls -> Context]
      /\ pc'[c] = "over"
      /\ \A d \in Calls : d # c => pc'[d] = pc[d] /\ ctx'[d] = ctx[d]
    BY EndEffect DEF ReadConfigured
<1>2. /\ offered' = offered \cup {row.mint} /\ row.mint \in Mints /\ row.mint # 0
    BY RowFields DEF ReadConfigured, TypeOK, Mints
<1>3. UNCHANGED <<row, rows, mirror, mints, shares, keyedMint, keyedSend, sends, throws, signed>>
    BY DEF ReadConfigured, bags, submission
<1>4. TypeOK'
    BY <1>1, <1>2, <1>3 DEF TypeOK
<1>5. FeesKnown'
    BY <1>1, <1>2, <1>3, FeeKinds DEF FeesKnown
<1>6. TokensShared'
    BY <1>1, <1>2, <1>3 DEF TokensShared, Shared
<1>7. SharesComeFirst'
    BY <1>1, <1>2, <1>3 DEF SharesComeFirst
<1>8. SendsCounted'
    BY <1>1, <1>2, <1>3 DEF SendsCounted, SubmittedOnce
<1>9. QED
    BY <1>4, <1>5, <1>6, <1>7, <1>8

\* The token is a token, new or keyed.
LEMMA CreateTokenStep == ASSUME IInv, NEW c \in Calls, CreateToken(c) PROVE IInv'
<1> USE DEF IInv
<1>1. \E m \in Mints : /\ ctx' = [ctx EXCEPT ![c].mint = m]
                      /\ mints' \in 0..MaxMints /\ keyedMint' \in 0..MaxMints
    BY NextMint DEF CreateToken, TypeOK, Mints
<1>2. /\ ctx' \in [Calls -> Context]
      /\ ctx'[c].mint \in Mints /\ ctx'[c].fee = ctx[c].fee
      /\ \A d \in Calls : d # c => ctx'[d] = ctx[d]
      /\ mints' \in 0..MaxMints /\ keyedMint' \in 0..MaxMints
    <2> PICK m \in Mints : /\ ctx' = [ctx EXCEPT ![c].mint = m]
                           /\ mints' \in 0..MaxMints /\ keyedMint' \in 0..MaxMints
        BY <1>1
    <2>1. m \in 0..MaxMints /\ ctx[c] \in Context
        BY DEF Mints, TypeOK
    <2>2. ctx' = [ctx EXCEPT ![c] = [ctx[c] EXCEPT !.mint = m]]
        OBVIOUS
    <2>3. QED
        BY <2>1, <2>2, SetMint DEF TypeOK
<1>3. /\ pc[c] = "token" /\ pc' \in [Calls -> Places] /\ pc'[c] = "share"
      /\ \A d \in Calls : d # c => pc'[d] = pc[d]
    BY GotoEffect DEF CreateToken, Places
<1>4. UNCHANGED <<row, rows, mirror, shares, keyedSend, sends, throws, offered, signed>>
    BY DEF CreateToken, submission, wallets
<1>5. TypeOK'
    BY <1>2, <1>3, <1>4 DEF TypeOK
<1>6. FeesKnown'
    BY <1>2, <1>3, <1>4, FeeKinds DEF FeesKnown
<1>7. TokensShared'
    BY <1>2, <1>3, <1>4 DEF TokensShared, Shared
<1>8. SharesComeFirst'
    BY <1>2, <1>3, <1>4 DEF SharesComeFirst
<1>9. SendsCounted'
    BY <1>2, <1>3, <1>4 DEF SendsCounted, SubmittedOnce
<1>10. QED
    BY <1>5, <1>6, <1>7, <1>8, <1>9

\* The call's token gets its config; no config is taken away.
LEMMA ShareFeesStep == ASSUME IInv, NEW c \in Calls, ShareFees(c) PROVE IInv'
<1> USE DEF IInv
<1>1. /\ pc' \in [Calls -> Places] /\ ctx' \in [Calls -> Context]
      /\ pc'[c] = "configure" /\ ctx'[c] = ctx[c]
      /\ \A d \in Calls : d # c => pc'[d] = pc[d] /\ ctx'[d] = ctx[d]
    BY GotoEffect DEF ShareFees, TypeOK, Places
<1>2. /\ pc[c] = "share" /\ ctx[c].mint \in Mints /\ ctx[c].fee \in Fees
    BY DEF ShareFees, TokensShared, Shared, FeesKnown
<1>3. /\ shares' \in [Mints -> Amounts] /\ shares'[ctx[c].mint] # NoFee
      /\ \A m \in Mints : shares[m] # NoFee => shares'[m] # NoFee
    BY <1>2, FeeKinds DEF ShareFees, TypeOK
<1>4. UNCHANGED <<row, rows, mirror, mints, keyedMint, keyedSend, sends, throws, offered, signed>>
    BY DEF ShareFees, submission, wallets
<1>5. TypeOK'
    BY <1>1, <1>2, <1>3, <1>4 DEF TypeOK
<1>6. FeesKnown'
    BY <1>1, <1>2, <1>3, <1>4, FeeKinds DEF FeesKnown
<1>7. TokensShared'
    BY <1>1, <1>2, <1>3, <1>4 DEF TokensShared, Shared
<1>8. SharesComeFirst'
    BY <1>1, <1>2, <1>3, <1>4, Worked DEF SharesComeFirst
<1>9. SendsCounted'
    BY <1>1, <1>2, <1>3, <1>4 DEF SendsCounted, SubmittedOnce
<1>10. QED
    BY <1>5, <1>6, <1>7, <1>8, <1>9

\* The row takes the token of a call that has its config.
LEMMA ConfigureStep == ASSUME IInv, NEW c \in Calls, Configure(c) PROVE IInv'
<1> USE DEF IInv
<1>1. /\ row' \in Row /\ rows' = rows
      /\ row'.id = row.id /\ row'.fee = row.fee /\ row'.mint = ctx[c].mint
    BY UpdateEffect, ContextFields DEF Configure, Checkpoint, TypeOK, Statuses
<1>2. \E l \in {"mark", "persist"} : Goto(c, l)
    BY DEF Configure
<1>3. /\ pc' \in [Calls -> Places] /\ ctx' \in [Calls -> Context]
      /\ pc'[c] \in {"mark", "persist"} /\ ctx'[c] = ctx[c]
      /\ \A d \in Calls : d # c => pc'[d] = pc[d] /\ ctx'[d] = ctx[d]
    BY <1>2, GotoEffect DEF Configure, TypeOK, Places
<1>4. /\ pc[c] = "configure" /\ ctx[c].mint \in Mints /\ shares[ctx[c].mint] # NoFee
    BY DEF Configure, TokensShared, Shared, FeesKnown
<1>5. UNCHANGED <<mirror, mints, shares, keyedMint, keyedSend, sends, throws, offered, signed>>
    BY DEF Configure, bags, submission, wallets
<1>6. TypeOK'
    BY <1>1, <1>3, <1>4, <1>5 DEF TypeOK
<1>7. FeesKnown'
    BY <1>1, <1>3, <1>4, <1>5, FeeKinds DEF FeesKnown
<1>8. TokensShared'
    BY <1>1, <1>3, <1>4, <1>5 DEF TokensShared, Shared
<1>9. SharesComeFirst'
    BY <1>1, <1>3, <1>4, <1>5 DEF SharesComeFirst
<1>10. SendsCounted'
    BY <1>1, <1>3, <1>4, <1>5 DEF SendsCounted, SubmittedOnce
<1>11. QED
    BY <1>6, <1>7, <1>8, <1>9, <1>10

\* The same, and the token is offered.
LEMMA PersistStep == ASSUME IInv, NEW c \in Calls, Persist(c) PROVE IInv'
<1> USE DEF IInv
<1>1. /\ row' \in Row /\ rows' = rows
      /\ row'.id = row.id /\ row'.fee = row.fee /\ row'.mint = ctx[c].mint
    BY UpdateEffect, ContextFields DEF Persist, Checkpoint, TypeOK, Statuses
<1>2. /\ pc' \in [Calls -> Places] /\ ctx' \in [Calls -> Context]
      /\ pc'[c] = "over"
      /\ \A d \in Calls : d # c => pc'[d] = pc[d] /\ ctx'[d] = ctx[d]
    BY EndEffect DEF Persist
<1>3. /\ pc[c] = "persist" /\ ctx[c].mint \in Mints /\ shares[ctx[c].mint] # NoFee
    BY DEF Persist, TokensShared, Shared, FeesKnown
<1>4. /\ offered' = offered \cup {ctx[c].mint}
    BY DEF Persist
<1>5. UNCHANGED <<mirror, mints, shares, keyedMint, keyedSend, sends, throws, signed>>
    BY DEF Persist, bags, submission
<1>6. TypeOK'
    BY <1>1, <1>2, <1>3, <1>4, <1>5 DEF TypeOK
<1>7. FeesKnown'
    BY <1>1, <1>2, <1>3, <1>4, <1>5, FeeKinds DEF FeesKnown
<1>8. TokensShared'
    BY <1>1, <1>2, <1>3, <1>4, <1>5 DEF TokensShared, Shared
<1>9. SharesComeFirst'
    BY <1>1, <1>2, <1>3, <1>4, <1>5 DEF SharesComeFirst
<1>10. SendsCounted'
    BY <1>1, <1>2, <1>3, <1>4, <1>5 DEF SendsCounted, SubmittedOnce
<1>11. QED
    BY <1>6, <1>7, <1>8, <1>9, <1>10

\* The call knows the row's token.
LEMMA CompleteStep == ASSUME IInv, NEW c \in Calls, Complete(c) PROVE IInv'
<1> USE DEF IInv
<1>1. row.mint \in Mints /\ row.mint # 0
    BY RowFields DEF Complete, TypeOK, Mints
<1>2. /\ row.id \in RowIds /\ row.mint \in 0..MaxMints
      /\ NoFee \in Amounts /\ "user" \in Wallets
    BY <1>1, FeeKinds, RowFields, Bounds DEF Wallets, TypeOK
<1>3. /\ Knowing("none", row.id, row.mint, NoFee, "user") \in Context
      /\ Knowing("none", row.id, row.mint, NoFee, "user").mint = row.mint
      /\ Knowing("none", row.id, row.mint, NoFee, "user").fee = NoFee
    BY <1>2, KnowingFields
<1>4. Begin(c, "complete", "record", Knowing("none", row.id, row.mint, NoFee, "user")) /\ "record" \in Places
    BY DEF Complete, Places
<1>5. /\ pc' \in [Calls -> Places] /\ ctx' \in [Calls -> Context]
      /\ pc'[c] = "record" /\ ctx'[c].mint = row.mint /\ ctx'[c].fee = NoFee
      /\ \A d \in Calls : d # c => pc'[d] = pc[d] /\ ctx'[d] = ctx[d]
    BY <1>3, <1>4, BeginEffect
<1>6. UNCHANGED <<row, rows, mirror, mints, shares, keyedMint, keyedSend, sends, throws, offered, signed>>
    BY DEF Complete, bags, submission, wallets
<1>7. TypeOK'
    BY <1>1, <1>5, <1>6 DEF TypeOK
<1>8. FeesKnown'
    BY <1>1, <1>5, <1>6, FeeKinds DEF FeesKnown
<1>9. TokensShared'
    BY <1>1, <1>5, <1>6 DEF TokensShared, Shared, SharesComeFirst
<1>10. SharesComeFirst'
    BY <1>1, <1>5, <1>6 DEF SharesComeFirst
<1>11. SendsCounted'
    BY <1>1, <1>5, <1>6 DEF SendsCounted, SubmittedOnce
<1>12. QED
    BY <1>7, <1>8, <1>9, <1>10, <1>11

\* The mirror takes the call's token or stays.
LEMMA RecordLaunchStep == ASSUME IInv, NEW c \in Calls, RecordLaunch(c) PROVE IInv'
<1> USE DEF IInv
<1>1. /\ pc' \in [Calls -> Places] /\ ctx' \in [Calls -> Context]
      /\ pc'[c] = "activate" /\ ctx'[c] = ctx[c]
      /\ \A d \in Calls : d # c => pc'[d] = pc[d] /\ ctx'[d] = ctx[d]
    BY GotoEffect DEF RecordLaunch, TypeOK, Places
<1>2. /\ pc[c] = "record" /\ ctx[c].mint \in Mints /\ shares[ctx[c].mint] # NoFee
    BY DEF RecordLaunch, TokensShared, Shared, FeesKnown
<1>3. /\ mirror' \in Mirror /\ mirror'.mint \in {mirror.mint, ctx[c].mint}
    BY <1>2, ContextFields DEF RecordLaunch, PayoutFee, Mirror, TypeOK
<1>4. UNCHANGED <<row, rows, mints, shares, keyedMint, keyedSend, sends, throws, offered, signed>>
    BY DEF RecordLaunch, bags, submission, wallets
<1>5. TypeOK'
    BY <1>1, <1>2, <1>3, <1>4 DEF TypeOK
<1>6. FeesKnown'
    BY <1>1, <1>2, <1>3, <1>4, FeeKinds DEF FeesKnown
<1>7. TokensShared'
    BY <1>1, <1>2, <1>3, <1>4 DEF TokensShared, Shared
<1>8. SharesComeFirst'
    BY <1>1, <1>2, <1>3, <1>4 DEF SharesComeFirst
<1>9. SendsCounted'
    BY <1>1, <1>2, <1>3, <1>4 DEF SendsCounted, SubmittedOnce
<1>10. QED
    BY <1>5, <1>6, <1>7, <1>8, <1>9

\* The row's token stays.
LEMMA ActivateStep == ASSUME IInv, NEW c \in Calls, Activate(c) PROVE IInv'
<1> USE DEF IInv
<1>1. /\ row' \in Row /\ rows' = rows
      /\ row'.id = row.id /\ row'.fee = row.fee /\ row'.mint = row.mint
    BY UpdateEffect, RowFields, ContextFields DEF Activate, TypeOK, Statuses
<1>2. /\ pc' \in [Calls -> Places] /\ ctx' \in [Calls -> Context]
      /\ pc'[c] = "over"
      /\ \A d \in Calls : d # c => pc'[d] = pc[d] /\ ctx'[d] = ctx[d]
    BY EndEffect DEF Activate
<1>3. /\ pc[c] = "activate" /\ ctx[c].mint \in Mints /\ shares[ctx[c].mint] # NoFee
    BY DEF Activate, TokensShared, Shared, FeesKnown
<1>4. UNCHANGED <<mirror, mints, shares, keyedMint, keyedSend, sends, throws, offered, signed>>
    BY DEF Activate, bags, submission, wallets
<1>5. TypeOK'
    BY <1>1, <1>2, <1>3, <1>4 DEF TypeOK
<1>6. FeesKnown'
    BY <1>1, <1>2, <1>3, <1>4, FeeKinds DEF FeesKnown
<1>7. TokensShared'
    BY <1>1, <1>2, <1>3, <1>4 DEF TokensShared, Shared
<1>8. SharesComeFirst'
    BY <1>1, <1>2, <1>3, <1>4 DEF SharesComeFirst
<1>9. SendsCounted'
    BY <1>1, <1>2, <1>3, <1>4 DEF SendsCounted, SubmittedOnce
<1>10. QED
    BY <1>5, <1>6, <1>7, <1>8, <1>9

\* A draft, new or found; the call knows its form's fee.
LEMMA DirectDraftStep == ASSUME IInv, NEW c \in Calls, DirectDraft(c) PROVE IInv'
<1> USE DEF IInv
<1>1. PICK fee \in Fees :
        \E id \in RowIds :
            /\ (Insert(fee) /\ id = rows + 1) \/ (row' = row /\ rows' = rows /\ id = row.id)
            /\ Begin(c, "direct", "token", Knowing("direct", id, 0, fee, "pool"))
    BY InsertEffect, RowFields DEF DirectDraft, TypeOK
<1>2. PICK id \in RowIds :
        /\ Insert(fee) \/ (row' = row /\ rows' = rows)
        /\ Begin(c, "direct", "token", Knowing("direct", id, 0, fee, "pool"))
    BY <1>1
<1>3. /\ row' \in Row /\ rows' \in RowIds
      /\ row'.id # 0 => row'.fee \in Fees
      /\ row'.mint \in {row.mint, 0}
    BY <1>2, InsertEffect DEF TypeOK, FeesKnown
<1>4. /\ Knowing("direct", id, 0, fee, "pool") \in Context
      /\ Knowing("direct", id, 0, fee, "pool").mint = 0
      /\ Knowing("direct", id, 0, fee, "pool").fee = fee
    BY KnowingFields, FeeKinds, Bounds DEF Wallets
<1>5. /\ pc' \in [Calls -> Places] /\ ctx' \in [Calls -> Context]
      /\ pc'[c] = "token" /\ ctx'[c].mint = 0 /\ ctx'[c].fee = fee
      /\ \A d \in Calls : d # c => pc'[d] = pc[d] /\ ctx'[d] = ctx[d]
    BY <1>2, <1>4, BeginEffect DEF Places
<1>6. UNCHANGED <<mirror, mints, shares, keyedMint, keyedSend, sends, throws, offered, signed>>
    BY DEF DirectDraft, bags, submission, wallets
<1>7. TypeOK'
    BY <1>3, <1>5, <1>6 DEF TypeOK
<1>8. FeesKnown'
    BY <1>3, <1>5, <1>6 DEF FeesKnown
<1>9. TokensShared'
    BY <1>5, <1>6 DEF TokensShared, Shared
<1>10. SharesComeFirst'
    BY <1>3, <1>6 DEF SharesComeFirst
<1>11. SendsCounted'
    BY <1>5, <1>6 DEF SendsCounted, SubmittedOnce
<1>12. QED
    BY <1>7, <1>8, <1>9, <1>10, <1>11

\* The call knows the row's token.
LEMMA DirectResumeStep == ASSUME IInv, NEW c \in Calls, DirectResume(c) PROVE IInv'
<1> USE DEF IInv
<1>1. row.mint \in Mints /\ row.mint # 0
    BY RowFields DEF DirectResume, TypeOK, Mints
<1>2. /\ row.id \in RowIds /\ row.mint \in 0..MaxMints
      /\ NoFee \in Amounts /\ row.wallet \in Wallets
    BY <1>1, FeeKinds, RowFields, Bounds DEF Wallets, TypeOK
<1>3. /\ Knowing("resume", row.id, row.mint, NoFee, row.wallet) \in Context
      /\ Knowing("resume", row.id, row.mint, NoFee, row.wallet).mint = row.mint
      /\ Knowing("resume", row.id, row.mint, NoFee, row.wallet).fee = NoFee
    BY <1>2, KnowingFields
<1>4. Begin(c, "direct", "mark", Knowing("resume", row.id, row.mint, NoFee, row.wallet)) /\ "mark" \in Places
    BY DEF DirectResume, Places
<1>5. /\ pc' \in [Calls -> Places] /\ ctx' \in [Calls -> Context]
      /\ pc'[c] = "mark" /\ ctx'[c].mint = row.mint /\ ctx'[c].fee = NoFee
      /\ \A d \in Calls : d # c => pc'[d] = pc[d] /\ ctx'[d] = ctx[d]
    BY <1>3, <1>4, BeginEffect
<1>6. UNCHANGED <<row, rows, mirror, mints, shares, keyedMint, keyedSend, sends, throws, offered, signed>>
    BY DEF DirectResume, bags, submission, wallets
<1>7. TypeOK'
    BY <1>1, <1>5, <1>6 DEF TypeOK
<1>8. FeesKnown'
    BY <1>1, <1>5, <1>6, FeeKinds DEF FeesKnown
<1>9. TokensShared'
    BY <1>1, <1>5, <1>6 DEF TokensShared, Shared, SharesComeFirst
<1>10. SharesComeFirst'
    BY <1>1, <1>5, <1>6 DEF SharesComeFirst
<1>11. SendsCounted'
    BY <1>1, <1>5, <1>6 DEF SendsCounted, SubmittedOnce
<1>12. QED
    BY <1>7, <1>8, <1>9, <1>10, <1>11

\* The row takes the token of a call that has its config.
LEMMA MarkPendingStep == ASSUME IInv, NEW c \in Calls, MarkPending(c) PROVE IInv'
<1> USE DEF IInv
<1>1. /\ row' \in Row /\ rows' = rows
      /\ row'.id = row.id /\ row'.fee = row.fee /\ row'.mint = ctx[c].mint
    BY UpdateEffect, RowFields, ContextFields DEF MarkPending, TypeOK, Statuses
<1>2. /\ pc' \in [Calls -> Places] /\ ctx' \in [Calls -> Context]
      /\ pc'[c] = "claim" /\ ctx'[c] = ctx[c]
      /\ \A d \in Calls : d # c => pc'[d] = pc[d] /\ ctx'[d] = ctx[d]
    BY GotoEffect DEF MarkPending, TypeOK, Places
<1>3. /\ pc[c] = "mark" /\ ctx[c].mint \in Mints /\ shares[ctx[c].mint] # NoFee
    BY DEF MarkPending, TokensShared, Shared, FeesKnown
<1>4. UNCHANGED <<mirror, mints, shares, keyedMint, keyedSend, sends, throws, offered, signed>>
    BY DEF MarkPending, bags, submission, wallets
<1>5. TypeOK'
    BY <1>1, <1>2, <1>3, <1>4 DEF TypeOK
<1>6. FeesKnown'
    BY <1>1, <1>2, <1>3, <1>4, FeeKinds DEF FeesKnown
<1>7. TokensShared'
    BY <1>1, <1>2, <1>3, <1>4 DEF TokensShared, Shared
<1>8. SharesComeFirst'
    BY <1>1, <1>2, <1>3, <1>4 DEF SharesComeFirst
<1>9. SendsCounted'
    BY <1>1, <1>2, <1>3, <1>4 DEF SendsCounted, SubmittedOnce
<1>10. QED
    BY <1>5, <1>6, <1>7, <1>8, <1>9

\* The key was free: nobody else submits this token.
LEMMA ClaimSubmissionStep == ASSUME IInv, NEW c \in Calls, ClaimSubmission(c) PROVE IInv'
<1> USE DEF IInv
<1>1. /\ pc' \in [Calls -> Places] /\ ctx' \in [Calls -> Context]
      /\ pc'[c] = "send" /\ ctx'[c] = ctx[c]
      /\ \A d \in Calls : d # c => pc'[d] = pc[d] /\ ctx'[d] = ctx[d]
    BY GotoEffect DEF ClaimSubmission, TypeOK, Places
<1>2. /\ pc[c] = "claim" /\ ctx[c].mint \in Mints /\ shares[ctx[c].mint] # NoFee
    BY DEF ClaimSubmission, TokensShared, Shared, FeesKnown
<1>3. /\ keyedSend[ctx[c].mint] = "none" /\ keyedSend' = [keyedSend EXCEPT ![ctx[c].mint] = "running"]
    BY DEF ClaimSubmission
<1>4. UNCHANGED <<row, rows, mirror, mints, shares, keyedMint, sends, throws, offered, signed>>
    BY DEF ClaimSubmission, bags, wallets
<1>5. TypeOK'
    BY <1>1, <1>2, <1>3, <1>4 DEF TypeOK
<1>6. FeesKnown'
    BY <1>1, <1>2, <1>3, <1>4, FeeKinds DEF FeesKnown
<1>7. TokensShared'
    BY <1>1, <1>2, <1>3, <1>4 DEF TokensShared, Shared
<1>8. SharesComeFirst'
    BY <1>1, <1>2, <1>3, <1>4 DEF SharesComeFirst
<1>9. SendsCounted'
    BY <1>1, <1>2, <1>3, <1>4 DEF SendsCounted, SubmittedOnce, TypeOK
<1>10. QED
    BY <1>5, <1>6, <1>7, <1>8, <1>9

LEMMA ReplaySubmissionStep == ASSUME IInv, NEW c \in Calls, ReplaySubmission(c) PROVE IInv'
<1> USE DEF IInv
<1>1. /\ pc' \in [Calls -> Places] /\ ctx' \in [Calls -> Context]
      /\ pc'[c] = "golive" /\ ctx'[c] = ctx[c]
      /\ \A d \in Calls : d # c => pc'[d] = pc[d] /\ ctx'[d] = ctx[d]
    BY GotoEffect DEF ReplaySubmission, TypeOK, Places
<1>2. /\ pc[c] = "claim" /\ ctx[c].mint \in Mints /\ shares[ctx[c].mint] # NoFee
    BY DEF ReplaySubmission, TokensShared, Shared, FeesKnown
<1>3. UNCHANGED <<row, rows, mirror, mints, shares, keyedMint, keyedSend, sends, throws, offered, signed>>
    BY DEF ReplaySubmission, bags, submission, wallets
<1>4. TypeOK'
    BY <1>1, <1>2, <1>3 DEF TypeOK
<1>5. FeesKnown'
    BY <1>1, <1>2, <1>3, FeeKinds DEF FeesKnown
<1>6. TokensShared'
    BY <1>1, <1>2, <1>3 DEF TokensShared, Shared
<1>7. SharesComeFirst'
    BY <1>1, <1>2, <1>3 DEF SharesComeFirst
<1>8. SendsCounted'
    BY <1>1, <1>2, <1>3 DEF SendsCounted, SubmittedOnce
<1>9. QED
    BY <1>4, <1>5, <1>6, <1>7, <1>8

\* The submission is counted and the key kept.
LEMMA SubmitLaunchStep == ASSUME IInv, NEW c \in Calls, SubmitLaunch(c) PROVE IInv'
<1> USE DEF IInv
<1>1. /\ pc' \in [Calls -> Places] /\ ctx' \in [Calls -> Context]
      /\ pc'[c] = "golive" /\ ctx'[c] = ctx[c]
      /\ \A d \in Calls : d # c => pc'[d] = pc[d] /\ ctx'[d] = ctx[d]
    BY GotoEffect DEF SubmitLaunch, TypeOK, Places
<1>2. /\ pc[c] = "send" /\ ctx[c].mint \in Mints /\ shares[ctx[c].mint] # NoFee
    BY DEF SubmitLaunch, TokensShared, Shared, FeesKnown
<1>3. /\ keyedSend' = [keyedSend EXCEPT ![ctx[c].mint] = "done"]
      /\ sends' = [sends EXCEPT ![ctx[c].mint] = @ + 1]
      /\ signed' = signed \cup {ctx[c].mint}
    BY DEF SubmitLaunch, Submit
<1>4. UNCHANGED <<row, rows, mirror, mints, shares, keyedMint, throws, offered>>
    BY DEF SubmitLaunch, bags
<1>5. TypeOK'
    BY <1>1, <1>2, <1>3, <1>4 DEF TypeOK
<1>6. FeesKnown'
    BY <1>1, <1>2, <1>3, <1>4, FeeKinds DEF FeesKnown
<1>7. TokensShared'
    BY <1>1, <1>2, <1>3, <1>4 DEF TokensShared, Shared
<1>8. SharesComeFirst'
    BY <1>1, <1>2, <1>3, <1>4 DEF SharesComeFirst
<1>9. SendsCounted'
    BY <1>1, <1>2, <1>3, <1>4 DEF SendsCounted, SubmittedOnce, TypeOK
<1>10. QED
    BY <1>5, <1>6, <1>7, <1>8, <1>9

\* The throw is counted, the submission perhaps; the key is freed.
LEMMA SubmitThrowsStep == ASSUME IInv, NEW c \in Calls, SubmitThrows(c) PROVE IInv'
<1> USE DEF IInv
<1>1. /\ pc' \in [Calls -> Places] /\ ctx' \in [Calls -> Context]
      /\ pc'[c] = "over"
      /\ \A d \in Calls : d # c => pc'[d] = pc[d] /\ ctx'[d] = ctx[d]
    BY EndEffect DEF SubmitThrows
<1>2. /\ pc[c] = "send" /\ ctx[c].mint \in Mints /\ shares[ctx[c].mint] # NoFee
    BY DEF SubmitThrows, TokensShared, Shared, FeesKnown
<1>3. /\ keyedSend' = [keyedSend EXCEPT ![ctx[c].mint] = "none"]
      /\ throws' = [throws EXCEPT ![ctx[c].mint] = @ + 1]
      /\ sends' = [sends EXCEPT ![ctx[c].mint] = @ + 1] \/ sends' = sends
      /\ signed' \in {signed, signed \cup {ctx[c].mint}}
    BY DEF SubmitThrows, Submit
<1>4. UNCHANGED <<row, rows, mirror, mints, shares, keyedMint, offered>>
    BY DEF SubmitThrows, bags
<1>5. TypeOK'
    BY <1>1, <1>2, <1>3, <1>4 DEF TypeOK
<1>6. FeesKnown'
    BY <1>1, <1>2, <1>3, <1>4, FeeKinds DEF FeesKnown
<1>7. TokensShared'
    BY <1>1, <1>2, <1>3, <1>4 DEF TokensShared, Shared
<1>8. SharesComeFirst'
    BY <1>1, <1>2, <1>3, <1>4 DEF SharesComeFirst
<1>9. /\ keyedSend[ctx[c].mint] = "running" /\ sends[ctx[c].mint] <= throws[ctx[c].mint]
      /\ \A d \in Calls : d # c => ~(pc[d] = "send" /\ ctx[d].mint = ctx[c].mint)
    BY <1>2 DEF SendsCounted
<1>10. /\ sends'[ctx[c].mint] <= throws'[ctx[c].mint]
       /\ keyedSend'[ctx[c].mint] = "none"
       /\ \A m \in Mints \ {ctx[c].mint} :
             sends'[m] = sends[m] /\ throws'[m] = throws[m] /\ keyedSend'[m] = keyedSend[m]
    BY <1>9, <1>2, <1>3 DEF TypeOK
<1>11. \A m \in Mints : sends'[m] \in Nat /\ throws'[m] \in Nat
    BY <1>5 DEF TypeOK
<1>12. \A d \in Calls : pc'[d] = "send" =>
         d # c /\ pc[d] = "send" /\ ctx'[d] = ctx[d]
               /\ ctx[d].mint \in Mints \ {ctx[c].mint}
    BY <1>1, <1>9 DEF TokensShared, Shared
<1>13. SendsCounted'
    BY <1>10, <1>11, <1>12 DEF SendsCounted, SubmittedOnce
<1>14. QED
    BY <1>5, <1>6, <1>7, <1>8, <1>13

\* The submission is counted and the key kept.
LEMMA SubmitDiesStep == ASSUME IInv, NEW c \in Calls, SubmitDies(c) PROVE IInv'
<1> USE DEF IInv
<1>1. /\ pc' \in [Calls -> Places] /\ ctx' \in [Calls -> Context]
      /\ pc'[c] = "over"
      /\ \A d \in Calls : d # c => pc'[d] = pc[d] /\ ctx'[d] = ctx[d]
    BY EndEffect DEF SubmitDies
<1>2. /\ pc[c] = "send" /\ ctx[c].mint \in Mints /\ shares[ctx[c].mint] # NoFee
    BY DEF SubmitDies, TokensShared, Shared, FeesKnown
<1>3. /\ sends' = [sends EXCEPT ![ctx[c].mint] = @ + 1]
      /\ signed' = signed \cup {ctx[c].mint}
    BY DEF SubmitDies, Submit
<1>4. UNCHANGED <<row, rows, mirror, mints, shares, keyedMint, keyedSend, throws, offered>>
    BY DEF SubmitDies, bags
<1>5. TypeOK'
    BY <1>1, <1>2, <1>3, <1>4 DEF TypeOK
<1>6. FeesKnown'
    BY <1>1, <1>2, <1>3, <1>4, FeeKinds DEF FeesKnown
<1>7. TokensShared'
    BY <1>1, <1>2, <1>3, <1>4 DEF TokensShared, Shared
<1>8. SharesComeFirst'
    BY <1>1, <1>2, <1>3, <1>4 DEF SharesComeFirst
<1>9. SendsCounted'
    BY <1>1, <1>2, <1>3, <1>4 DEF SendsCounted, SubmittedOnce, TypeOK
<1>10. QED
    BY <1>5, <1>6, <1>7, <1>8, <1>9

\* The row's token stays or is the call's.
LEMMA GoLiveStep == ASSUME IInv, NEW c \in Calls, GoLive(c) PROVE IInv'
<1> USE DEF IInv
<1>1. /\ row' \in Row /\ rows' = rows
      /\ row'.id = row.id /\ row'.fee = row.fee /\ row'.mint \in {row.mint, ctx[c].mint}
    BY UpdateEffect, RowFields, ContextFields DEF GoLive, TypeOK, Statuses
<1>2. /\ pc' \in [Calls -> Places] /\ ctx' \in [Calls -> Context]
      /\ pc'[c] = "over"
      /\ \A d \in Calls : d # c => pc'[d] = pc[d] /\ ctx'[d] = ctx[d]
    BY EndEffect DEF GoLive
<1>3. /\ pc[c] = "golive" /\ ctx[c].mint \in Mints /\ shares[ctx[c].mint] # NoFee
    BY DEF GoLive, TokensShared, Shared, FeesKnown
<1>4. UNCHANGED <<mirror, mints, shares, keyedMint, keyedSend, sends, throws, offered, signed>>
    BY DEF GoLive, bags, submission, wallets
<1>5. TypeOK'
    BY <1>1, <1>2, <1>3, <1>4 DEF TypeOK
<1>6. FeesKnown'
    BY <1>1, <1>2, <1>3, <1>4, FeeKinds DEF FeesKnown
<1>7. TokensShared'
    BY <1>1, <1>2, <1>3, <1>4 DEF TokensShared, Shared
<1>8. SharesComeFirst'
    BY <1>1, <1>2, <1>3, <1>4 DEF SharesComeFirst
<1>9. SendsCounted'
    BY <1>1, <1>2, <1>3, <1>4 DEF SendsCounted, SubmittedOnce
<1>10. QED
    BY <1>5, <1>6, <1>7, <1>8, <1>9

\* The call knows a fee.
LEMMA EditReadStep == ASSUME IInv, NEW c \in Calls, EditRead(c) PROVE IInv'
<1> USE DEF IInv
<1>1. PICK fee \in Fees : EditRead(c)!(fee)
    BY DEF EditRead
<1>2. /\ row.id \in RowIds /\ 0 \in 0..MaxMints
      /\ fee \in Amounts /\ "none" \in Wallets
    BY <1>1, FeeKinds, RowFields, Bounds DEF Wallets, TypeOK
<1>3. /\ Knowing("none", row.id, 0, fee, "none") \in Context
      /\ Knowing("none", row.id, 0, fee, "none").mint = 0
      /\ Knowing("none", row.id, 0, fee, "none").fee = fee
    BY <1>2, KnowingFields
<1>4. Begin(c, "edit", "edit", Knowing("none", row.id, 0, fee, "none")) /\ "edit" \in Places
    BY <1>1 DEF EditRead, Places
<1>5. /\ pc' \in [Calls -> Places] /\ ctx' \in [Calls -> Context]
      /\ pc'[c] = "edit" /\ ctx'[c].mint = 0 /\ ctx'[c].fee = fee
      /\ \A d \in Calls : d # c => pc'[d] = pc[d] /\ ctx'[d] = ctx[d]
    BY <1>3, <1>4 DEF Begin, Goto, TypeOK
<1>6. UNCHANGED <<row, rows, mirror, mints, shares, keyedMint, keyedSend, sends, throws, offered, signed>>
    BY <1>1 DEF EditRead, bags, submission, wallets
<1>7. TypeOK'
    BY <1>5, <1>6 DEF TypeOK
<1>8. FeesKnown'
    BY <1>5, <1>6, FeeKinds DEF FeesKnown
<1>9. TokensShared'
    BY <1>5, <1>6 DEF TokensShared, Shared
<1>10. SharesComeFirst'
    BY <1>5, <1>6 DEF SharesComeFirst
<1>11. SendsCounted'
    BY <1>5, <1>6 DEF SendsCounted, SubmittedOnce
<1>12. QED
    BY <1>7, <1>8, <1>9, <1>10, <1>11

\* The row takes the fee.
LEMMA EditWriteStep == ASSUME IInv, NEW c \in Calls, EditWrite(c) PROVE IInv'
<1> USE DEF IInv
<1>1. /\ pc[c] = "edit" /\ ctx[c].fee \in Fees /\ ctx[c].fee \in Amounts
    BY FeeKinds DEF EditWrite, FeesKnown
<1>2. /\ row' \in Row /\ rows' = rows
      /\ row'.id = row.id /\ row'.mint = row.mint
      /\ row'.fee \in {row.fee, ctx[c].fee}
    BY <1>1, SetRowFee DEF EditWrite, TypeOK
<1>3. /\ pc' \in [Calls -> Places] /\ ctx' \in [Calls -> Context]
      /\ pc'[c] = "over"
      /\ \A d \in Calls : d # c => pc'[d] = pc[d] /\ ctx'[d] = ctx[d]
    BY EndEffect DEF EditWrite
<1>4. UNCHANGED <<mirror, mints, shares, keyedMint, keyedSend, sends, throws, offered, signed>>
    BY DEF EditWrite, bags, submission, wallets
<1>5. TypeOK'
    BY <1>1, <1>2, <1>3, <1>4 DEF TypeOK
<1>6. FeesKnown'
    BY <1>1, <1>2, <1>3, <1>4, FeeKinds DEF FeesKnown
<1>7. TokensShared'
    BY <1>1, <1>2, <1>3, <1>4 DEF TokensShared, Shared
<1>8. SharesComeFirst'
    BY <1>1, <1>2, <1>3, <1>4 DEF SharesComeFirst
<1>9. SendsCounted'
    BY <1>1, <1>2, <1>3, <1>4 DEF SendsCounted, SubmittedOnce
<1>10. QED
    BY <1>5, <1>6, <1>7, <1>8, <1>9

LEMMA DiscardReadStep == ASSUME IInv, NEW c \in Calls, DiscardRead(c) PROVE IInv'
<1> USE DEF IInv
<1>1. /\ row.id \in RowIds /\ 0 \in 0..MaxMints
      /\ NoFee \in Amounts /\ "none" \in Wallets
    BY FeeKinds, RowFields, Bounds DEF Wallets, TypeOK
<1>2. /\ Knowing("none", row.id, 0, NoFee, "none") \in Context
      /\ Knowing("none", row.id, 0, NoFee, "none").mint = 0
      /\ Knowing("none", row.id, 0, NoFee, "none").fee = NoFee
    BY <1>1, KnowingFields
<1>3. Begin(c, "discard", "discard", Knowing("none", row.id, 0, NoFee, "none")) /\ "discard" \in Places
    BY DEF DiscardRead, Places
<1>4. /\ pc' \in [Calls -> Places] /\ ctx' \in [Calls -> Context]
      /\ pc'[c] = "discard" /\ ctx'[c].mint = 0 /\ ctx'[c].fee = NoFee
      /\ \A d \in Calls : d # c => pc'[d] = pc[d] /\ ctx'[d] = ctx[d]
    BY <1>2, <1>3, BeginEffect
<1>5. UNCHANGED <<row, rows, mirror, mints, shares, keyedMint, keyedSend, sends, throws, offered, signed>>
    BY DEF DiscardRead, bags, submission, wallets
<1>6. TypeOK'
    BY <1>4, <1>5 DEF TypeOK
<1>7. FeesKnown'
    BY <1>4, <1>5, FeeKinds DEF FeesKnown
<1>8. TokensShared'
    BY <1>4, <1>5 DEF TokensShared, Shared
<1>9. SharesComeFirst'
    BY <1>4, <1>5 DEF SharesComeFirst
<1>10. SendsCounted'
    BY <1>4, <1>5 DEF SendsCounted, SubmittedOnce
<1>11. QED
    BY <1>6, <1>7, <1>8, <1>9, <1>10

\* No row, no mirror.
LEMMA DiscardDeleteStep == ASSUME IInv, NEW c \in Calls, DiscardDelete(c) PROVE IInv'
<1> USE DEF IInv
<1>1. /\ row' \in Row /\ rows' = rows /\ row'.id = 0 /\ row'.mint = 0
    BY NoRowFields DEF DiscardDelete
<1>2. /\ pc' \in [Calls -> Places] /\ ctx' \in [Calls -> Context]
      /\ pc'[c] = "over"
      /\ \A d \in Calls : d # c => pc'[d] = pc[d] /\ ctx'[d] = ctx[d]
    BY EndEffect DEF DiscardDelete
<1>3. /\ mirror' = NoMirror
      /\ keyedMint' = 0
    BY DEF DiscardDelete
<1>4. UNCHANGED <<mints, shares, keyedSend, sends, throws, offered, signed>>
    BY DEF DiscardDelete, bags, submission, wallets
<1>5. TypeOK'
    BY <1>1, <1>2, <1>3, <1>4, NoMirrorType, Bounds DEF TypeOK
<1>6. FeesKnown'
    BY <1>1, <1>2, <1>3, <1>4, FeeKinds DEF FeesKnown
<1>7. TokensShared'
    BY <1>1, <1>2, <1>3, <1>4 DEF TokensShared, Shared
<1>8. SharesComeFirst'
    BY <1>1, <1>2, <1>3, <1>4 DEF SharesComeFirst, NoMirror
<1>9. SendsCounted'
    BY <1>1, <1>2, <1>3, <1>4 DEF SendsCounted, SubmittedOnce
<1>10. QED
    BY <1>5, <1>6, <1>7, <1>8, <1>9

LEMMA StopStep == ASSUME IInv, NEW c \in Calls, Stop(c) PROVE IInv'
<1> USE DEF IInv
<1>1. /\ pc' \in [Calls -> Places] /\ ctx' \in [Calls -> Context]
      /\ pc'[c] = "over"
      /\ \A d \in Calls : d # c => pc'[d] = pc[d] /\ ctx'[d] = ctx[d]
    BY EndEffect DEF Stop
<1>2. UNCHANGED <<row, rows, mirror, mints, shares, keyedMint, keyedSend, sends, throws, offered, signed>>
    BY DEF Stop, bags, submission, wallets
<1>3. TypeOK'
    BY <1>1, <1>2 DEF TypeOK
<1>4. FeesKnown'
    BY <1>1, <1>2, FeeKinds DEF FeesKnown
<1>5. TokensShared'
    BY <1>1, <1>2 DEF TokensShared, Shared
<1>6. SharesComeFirst'
    BY <1>1, <1>2 DEF SharesComeFirst
<1>7. SendsCounted'
    BY <1>1, <1>2 DEF SendsCounted, SubmittedOnce
<1>8. QED
    BY <1>3, <1>4, <1>5, <1>6, <1>7

-----------------------------------------------------------------------------

\* A broadcast adds a token that was offered.
LEMMA BroadcastStep == ASSUME IInv, NEW m \in Mints, Broadcast(m) PROVE IInv'
<1> USE DEF IInv
<1>1. /\ m \in offered /\ signed' = signed \cup {m}
      /\ UNCHANGED <<row, rows, mirror, mints, shares, keyedMint, keyedSend, sends, throws,
                     offered, pc, ctx>>
    BY DEF Broadcast, bags, submission
<1>2. TypeOK' /\ FeesKnown'
    BY <1>1 DEF TypeOK, FeesKnown
<1>3. TokensShared' /\ SharesComeFirst'
    BY <1>1 DEF TokensShared, SharesComeFirst
<1>4. SendsCounted'
    BY <1>1 DEF SendsCounted, SubmittedOnce
<1>5. QED
    BY <1>2, <1>3, <1>4

\* A handler that only writes the row leaves its token, or makes a new draft.
LEMMA RowStep == ASSUME IInv, SaveNew \/ Toggle \/ Kill \/ Promote PROVE IInv'
<1> USE DEF IInv
<1>1. /\ row' \in Row /\ rows' \in RowIds
      /\ row'.id # 0 => row'.fee \in Fees
      /\ row'.mint \in {row.mint, 0}
    <2>1. CASE SaveNew
        BY <2>1, InsertEffect DEF SaveNew
    <2>2. CASE Toggle
        BY <2>2, UpdateEffect, RowFields DEF Toggle, TypeOK, FeesKnown, Statuses
    <2>3. CASE Kill
        BY <2>3, UpdateEffect, RowFields DEF Kill, TypeOK, FeesKnown, Statuses
    <2>4. CASE Promote
        <3>1. 0 \in 0..MaxMints /\ "draft" \in Statuses /\ "none" \in Wallets
            BY Bounds DEF Statuses, Wallets
        <3>2. /\ row' \in Row
              /\ row'.id = row.id /\ row'.fee = row.fee /\ row'.mint = 0
            BY <2>4, <3>1, UpdateEffect DEF Promote
        <3>3. QED
            BY <2>4, <3>2 DEF Promote, TypeOK, FeesKnown
    <2>5. QED
        BY <2>1, <2>2, <2>3, <2>4
<1>2. UNCHANGED <<mirror, mints, shares, keyedMint, keyedSend, sends, throws, offered,
                  signed, pc, ctx>>
    BY DEF SaveNew, Toggle, Kill, Promote, bags, submission, wallets
<1>3. TypeOK' /\ FeesKnown'
    BY <1>1, <1>2 DEF TypeOK, FeesKnown
<1>4. TokensShared'
    BY <1>2 DEF TokensShared
<1>5. SharesComeFirst'
    BY <1>1, <1>2 DEF SharesComeFirst
<1>6. SendsCounted'
    BY <1>2 DEF SendsCounted, SubmittedOnce
<1>7. QED
    BY <1>3, <1>4, <1>5, <1>6

LEMMA StutterStep == ASSUME IInv, UNCHANGED vars PROVE IInv'
<1>1. UNCHANGED <<row, rows, mirror, mints, shares, keyedMint, keyedSend, sends, throws,
                  offered, signed, pc, ctx>>
    BY DEF vars, bags, submission, wallets
<1>2. TypeOK' /\ FeesKnown'
    BY <1>1 DEF IInv, TypeOK, FeesKnown
<1>3. TokensShared' /\ SharesComeFirst'
    BY <1>1 DEF IInv, TokensShared, SharesComeFirst
<1>4. SendsCounted'
    BY <1>1 DEF IInv, SendsCounted, SubmittedOnce
<1>5. QED
    BY <1>2, <1>3, <1>4 DEF IInv

THEOREM Inductive == Spec => []IInv
<1>1. ASSUME IInv, NEW c \in Calls, CallStep(c) PROVE IInv'
    BY <1>1, CreateStep, RecoverStep, PostStep, ReadDraftStep, ReadConfiguredStep,
       CreateTokenStep, ShareFeesStep, ConfigureStep, PersistStep,
       CompleteStep, RecordLaunchStep, ActivateStep, DirectDraftStep,
       DirectResumeStep, MarkPendingStep, ClaimSubmissionStep,
       ReplaySubmissionStep, SubmitLaunchStep, SubmitThrowsStep,
       SubmitDiesStep, GoLiveStep, EditReadStep, EditWriteStep,
       DiscardReadStep, DiscardDeleteStep, StopStep DEF CallStep
<1>2. IInv /\ [Next]_vars => IInv'
    BY <1>1, BroadcastStep, RowStep, StutterStep DEF Next
<1>3. QED
    BY InitIInv, <1>2, PTL DEF Spec

\* The variables keep their types, for every set of calls and every bound.
THEOREM TypeCorrect == Spec => []TypeOK
BY Inductive, PTL DEF IInv

\* Whatever calls overlap or stop half-way, a token that is configured, offered,
\* submitted or mirrored has its fee-share config.
THEOREM ConfigComesFirst == Spec => []SharesComeFirst
BY Inductive, PTL DEF IInv

\* Direct launches that overlap submit a token once, but for submissions that threw.
THEOREM OneSubmission == Spec => []SubmittedOnce
<1>1. IInv => SubmittedOnce
    BY DEF IInv, SendsCounted
<1>2. QED
    BY Inductive, <1>1, PTL

\* A mirror is inserted or left alone, and only goes with the project.
THEOREM MirrorStays == Spec => MirrorIsFinal
<1>1. [Next]_vars => [mirror.mint # 0 /\ row'.id = row.id => mirror' = mirror]_vars
    <2> SUFFICES ASSUME Next, mirror.mint # 0, row'.id = row.id PROVE mirror' = mirror
        BY DEF vars
    <2>1. ASSUME NEW c \in Calls, CallStep(c) PROVE mirror' = mirror
        <3>1. CASE RecordLaunch(c)
            BY <3>1 DEF RecordLaunch
        <3>2. CASE DiscardDelete(c)
            BY <3>2 DEF DiscardDelete, Here, NoRow
        <3>3. CASE ~RecordLaunch(c) /\ ~DiscardDelete(c)
            BY <2>1, <3>3
               DEF CallStep, Create, Recover, Post, ReadDraft, ReadConfigured,
                   CreateToken, ShareFees, Configure, Persist, Complete, Activate,
                   DirectDraft, DirectResume, MarkPending, ClaimSubmission,
                   ReplaySubmission, SubmitLaunch, SubmitThrows, SubmitDies, GoLive,
                   EditRead, EditWrite, DiscardRead, Stop
        <3>4. QED
            BY <3>1, <3>2, <3>3
    <2>2. QED
        BY <2>1 DEF Next, Broadcast, SaveNew, Toggle, Kill, Promote
<1>2. QED
    BY <1>1, PTL DEF Spec, MirrorIsFinal

=============================================================================
