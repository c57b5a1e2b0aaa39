---------------------------- MODULE CheckoutProofs ----------------------------
(***************************************************************************)
(* Proofs about Checkout, for any set of requests, any baskets, any prices *)
(* and any size of the pool.                                               *)
(***************************************************************************)
EXTENDS Checkout, Lemmas

-------------------------------------------------------------------------------
(* Types.                                                                  *)

CallType == [datas : Seq(Data), menus : SUBSET Menu, total : Nat,
             id : Nat, line : Nat \ {0}]
HeaderType == [id : Nat, by : Requests, total : Nat]
LineType == [ref : Nat, no : Nat, menuId : MenuIds, qty : Nat, price : Nat, total : Nat]
TxnType == [th : SUBSET HeaderType, td : SUBSET LineType,
            commit : {"none", "sent", "applied"}]
PostType == [state : {"none", "pending", "debited", "refused"}, amount : Nat]

LocalsOK == /\ pc \in [Requests -> Active \cup {"idle", "done", "lost"}]
            /\ call \in [Requests -> CallType]
PoolOK   == IsPool(conns, Requests, MaxConns)
TablesOK == /\ txn \in [Requests -> TxnType]
            /\ nextId \in Nat
            /\ th \subseteq HeaderType /\ td \subseteq LineType
WalletOK == /\ post \in [Requests -> PostType]
            /\ ledger \in [Requests -> Seq(Nat)]
AnswerOK == /\ answer \in [Requests -> Answers \cup {"none"}]
            /\ crashes \in 0..MaxCrashes

\* d is what a row of the i-th line of a basket may look like.
IsRow(d, id, datas, i) ==
  /\ d.ref = id /\ d.no = i /\ d.menuId = datas[i].menuId /\ d.qty = datas[i].qty
  /\ d.price \in Cents(datas[i].price) /\ d.total \in Cents(datas[i].total)

TInv == LocalsOK /\ PoolOK /\ TablesOK /\ WalletOK /\ AnswerOK

USE PoolSizeAssumption, PricingAssumption, CheckoutAssumption DEF IsPool

-------------------------------------------------------------------------------
(* Pricing.                                                                *)

\* Rounding an amount changes it by half a cent at most.
LEMMA CentsRounded ==
  ASSUME NEW amount \in Nat, NEW c \in Cents(amount)
  PROVE  /\ c \in Nat /\ 10 * c <= amount + 5 /\ amount <= 10 * c + 5
         /\ amount % 10 = 0 => amount = 10 * c
<1>1. amount \div 10 \in Nat
  OBVIOUS
<1>2. c \in Nat /\ 10 * c <= amount + 5 /\ amount <= 10 * c + 5
  BY <1>1 DEF Cents
<1>3. ASSUME amount % 10 = 0 PROVE amount = 10 * c
  <2>1. amount = 10 * (amount \div 10)
    BY <1>3
  <2>. QED BY <1>1, <1>2, <2>1
<1>. QED BY <1>2, <1>3

\* What master data answers: some of the menus asked for, each at one price.
Quoted(known, quote) == {[id |-> m, price |-> quote[m]] : m \in known}

LEMMA AnswerShape ==
  ASSUME NEW datas, NEW menus \in MenuAnswers(datas)
  PROVE  \E known \in SUBSET IdsOf(datas) : \E quote \in [known -> Prices] :
           menus = Quoted(known, quote)
<1>. DEFINE AnswersFor(known) == {Quoted(known, quote) : quote \in [known -> Prices]}
<1>1. menus \in UNION {AnswersFor(known) : known \in SUBSET IdsOf(datas)}
  BY DEF MenuAnswers, Quoted
<1>. HIDE DEF AnswersFor
<1>2. PICK known \in SUBSET IdsOf(datas) : menus \in AnswersFor(known)
  BY <1>1
<1>3. PICK quote \in [known -> Prices] : menus = Quoted(known, quote)
  BY <1>2 DEF AnswersFor
<1>. QED BY <1>3

LEMMA MultiplesOfTen ==
  ASSUME NEW a \in Nat, NEW b \in Nat, a % 10 = 0
  PROVE  (a * b) % 10 = 0
<1>1. PICK c \in Nat : a = 10 * c
  <2>1. a = 10 * (a \div 10) /\ a \div 10 \in Nat
    OBVIOUS
  <2>. QED BY <2>1
<1>2. a * b = 10 * (c * b) /\ c * b \in Nat
  BY <1>1
<1>3. \A n \in Nat : (10 * n) % 10 = 0
  OBVIOUS
<1>. QED BY <1>2, <1>3

LEMMA AnswersAreMenus ==
  ASSUME NEW datas \in Seq(Data), NEW menus \in MenuAnswers(datas)
  PROVE  menus \subseteq Menu
<1>1. IdsOf(datas) \subseteq MenuIds
  <2>1. \A i \in DOMAIN datas : datas[i] \in Data
    OBVIOUS
  <2>2. \A i \in DOMAIN datas : datas[i].menuId \in MenuIds
    BY <2>1 DEF Data
  <2>. QED BY <2>2 DEF IdsOf
<1>2. PICK known \in SUBSET IdsOf(datas) :
        \E quote \in [known -> Prices] : menus = Quoted(known, quote)
  BY AnswerShape
<1>3. PICK quote \in [known -> Prices] : menus = Quoted(known, quote)
  BY <1>2
<1>. QED BY <1>1, <1>3 DEF Menu, Quoted

LEMMA AnswersAreFinite ==
  ASSUME NEW datas \in Seq(Data), NEW menus \in MenuAnswers(datas)
  PROVE  IsFiniteSet(menus)
<1>. DEFINE ids == IdsOf(datas)
           f == [j \in 1..Len(datas) |-> datas[j].menuId]
<1>1. IsFiniteSet(ids)
  <2>1. f \in Surjection(1..Len(datas), ids)
    BY DEF Surjection, IdsOf
  <2>2. IsFiniteSet(1..Len(datas))
    BY FS_Interval
  <2>. HIDE DEF f, ids
  <2>. QED BY <2>1, <2>2, FS_Surjection
<1>2. PICK known \in SUBSET ids : \E quote \in [known -> Prices] : menus = Quoted(known, quote)
  BY AnswerShape
<1>3. PICK quote \in [known -> Prices] : menus = Quoted(known, quote)
  BY <1>2
<1>. DEFINE g == [m \in known |-> [id |-> m, price |-> quote[m]]]
<1>4. IsFiniteSet(known)
  BY <1>1, FS_Subset
<1>5. g \in Surjection(known, menus)
  BY <1>3 DEF Surjection, Quoted
<1>. HIDE DEF g
<1>. QED BY <1>4, <1>5, FS_Surjection

\* The terms of the total: finitely many numbers.
LEMMA TermsOfTotal ==
  ASSUME NEW datas \in Seq(Data), NEW menus \in MenuAnswers(datas)
  PROVE  /\ IsFiniteSet(Matches(menus, datas))
         /\ \A p \in Matches(menus, datas) : p[1].price * datas[p[2]].qty \in Nat
<1>1. IsFiniteSet(menus) /\ menus \subseteq Menu
  BY AnswersAreFinite, AnswersAreMenus
<1>2. IsFiniteSet(1..Len(datas)) /\ DOMAIN datas = 1..Len(datas)
  BY FS_Interval
<1>3. IsFiniteSet(menus \X DOMAIN datas)
  BY <1>1, <1>2, FS_Product
<1>4. Matches(menus, datas) \subseteq menus \X DOMAIN datas
  BY DEF Matches
<1>5. IsFiniteSet(Matches(menus, datas))
  BY <1>3, <1>4, FS_Subset
<1>6. ASSUME NEW p \in Matches(menus, datas) PROVE p[1].price * datas[p[2]].qty \in Nat
  <2>1. p[1] \in Menu /\ datas[p[2]] \in Data
    BY <1>1, <1>4
  <2>2. p[1].price \in Nat /\ datas[p[2]].qty \in Nat
    BY <2>1 DEF Menu, Data
  <2>. QED BY <2>2
<1>. QED BY <1>5, <1>6

LEMMA TotalIsNumber ==
  ASSUME NEW datas \in Seq(Data), NEW menus \in MenuAnswers(datas)
  PROVE  TotalPrice(menus, datas) \in Nat
<1>. DEFINE S == Matches(menus, datas)
           g == [p \in S |-> p[1].price * datas[p[2]].qty]
<1>1. IsFiniteSet(S) /\ \A p \in S : g[p] \in Nat
  BY TermsOfTotal
<1>2. TotalPrice(menus, datas) = SumFunctionOnSet(g, S)
  BY DEF TotalPrice, SumFunction
<1>. HIDE DEF S, g
<1>. QED BY <1>1, <1>2, SumIsNat

\* Filling in the prices leaves a basket of the same length with the same menus.
LEMMA PricedLinesType ==
  ASSUME NEW menus \in SUBSET Menu, NEW datas \in Seq(Data)
  PROVE  /\ PricedLines(menus, datas) \in Seq(Data)
         /\ Len(PricedLines(menus, datas)) = Len(datas)
<1>1. ASSUME NEW line \in Data PROVE PricedLine(menus, line) \in Data
  <2>1. CASE {m \in menus : m.id = line.menuId} = {}
    BY <2>1 DEF PricedLine
  <2>2. CASE {m \in menus : m.id = line.menuId} # {}
    <3>. DEFINE menu == CHOOSE m \in {m \in menus : m.id = line.menuId} : TRUE
    <3>1. menu \in Menu
      BY <2>2
    <3>2. menu.price \in Nat /\ line.qty \in Nat
      BY <3>1 DEF Menu, Data
    <3>3. menu.price * line.qty \in Nat
      BY <3>2
    <3>4. PricedLine(menus, line)
            = [line EXCEPT !.price = menu.price, !.total = menu.price * line.qty]
      BY <2>2 DEF PricedLine
    <3>. HIDE DEF menu
    <3>. QED BY <3>2, <3>3, <3>4 DEF Data
  <2>. QED BY <2>1, <2>2
<1>2. \A i \in 1..Len(datas) : PricedLine(menus, datas[i]) \in Data
  BY <1>1
<1>. QED BY <1>2 DEF PricedLines

-------------------------------------------------------------------------------
(* Type correctness.                                                       *)

LEMMA InitTypes == Init => TInv
<1>. SUFFICES ASSUME Init PROVE TInv
  OBVIOUS
<1>1. LocalsOK
  BY DEF Init, LocalsOK, NoCall, CallType
<1>2. PoolOK
  BY EmptyPool DEF Init, PoolOK
<1>3. TablesOK
  BY DEF Init, TablesOK, NoTxn, TxnType
<1>4. WalletOK
  BY DEF Init, WalletOK, NoPost, PostType
<1>5. AnswerOK
  BY DEF Init, AnswerOK
<1>. QED BY <1>1, <1>2, <1>3, <1>4, <1>5 DEF TInv

LEMMA HeadersType ==
  ASSUME NEW r \in Requests, call[r] \in CallType, nextId \in Nat, NEW h \in HeaderRows(r)
  PROVE  h \in HeaderType /\ h.id = nextId /\ h.by = r /\ h.total \in Cents(call[r].total)
<1>1. PICK total \in Cents(call[r].total) : h = [id |-> nextId, by |-> r, total |-> total]
  BY DEF HeaderRows
<1>2. total \in Nat
  BY CentsRounded DEF CallType
<1>. QED BY <1>1, <1>2 DEF HeaderType

LEMMA LinesType ==
  ASSUME NEW r \in Requests, call[r] \in CallType, call[r].datas[call[r].line] \in Data,
         NEW d \in LineRows(r)
  PROVE  d \in LineType /\ IsRow(d, call[r].id, call[r].datas, call[r].line)
<1>. DEFINE data == call[r].datas[call[r].line]
<1>1. PICK price \in Cents(data.price), total \in Cents(data.total) :
        d = [ref |-> call[r].id, no |-> call[r].line, menuId |-> data.menuId,
             qty |-> data.qty, price |-> price, total |-> total]
  BY DEF LineRows
<1>2. /\ data.menuId \in MenuIds /\ data.qty \in Nat /\ data.price \in Nat /\ data.total \in Nat
      /\ call[r].id \in Nat /\ call[r].line \in Nat
  BY DEF Data, CallType
<1>3. price \in Nat /\ total \in Nat
  BY <1>2, CentsRounded
<1>4. d \in LineType
  <2>. HIDE DEF data
  <2>. QED BY <1>1, <1>2, <1>3 DEF LineType
<1>. QED BY <1>1, <1>4 DEF IsRow

\* What an early return does to the variables that it touches.
LEMMA AbortKeepsTypes ==
  ASSUME TInv, NEW r \in Requests, NEW status \in Answers,
         Abort(r, status), UNCHANGED wallet
  PROVE  TInv'
<1>1. LocalsOK'
  BY DEF TInv, LocalsOK, Abort, Finish
<1>2. PoolOK'
  BY PoolShrinks DEF TInv, PoolOK, Abort, Release
<1>3. TablesOK'
  <2>1. NoTxn \in TxnType
    BY DEF NoTxn, TxnType
  <2>. QED BY <2>1 DEF TInv, TablesOK, Abort
<1>4. WalletOK'
  BY DEF TInv, WalletOK, wallet
<1>5. AnswerOK'
  BY DEF TInv, AnswerOK, Abort, Finish
<1>. QED BY <1>1, <1>2, <1>3, <1>4, <1>5 DEF TInv

LEMMA NextTypes == TInv /\ [Next]_vars => TInv'
<1>. SUFFICES ASSUME TInv, [Next]_vars PROVE TInv'
  OBVIOUS
<1>. USE DEF TInv
<1>1. CASE UNCHANGED vars
  BY <1>1 DEF LocalsOK, PoolOK, TablesOK, WalletOK, AnswerOK,
              vars, locals, db, wallet
<1>2. ASSUME NEW r \in Requests, NEW datas \in Baskets, Accept(r, datas) PROVE TInv'
  <2>1. [call[r] EXCEPT !.datas = datas] \in CallType
    BY <1>2 DEF LocalsOK, CallType
  <2>. QED BY <1>2, <2>1 DEF Accept, Goto, LocalsOK, PoolOK, TablesOK, WalletOK, AnswerOK,
                             Active, db, wallet
<1>3. ASSUME NEW r \in Requests, Refuse(r) PROVE TInv'
  BY <1>3 DEF Refuse, Finish, LocalsOK, PoolOK, TablesOK, WalletOK, AnswerOK,
              Answers, ClientErrors, db, wallet
<1>4. ASSUME NEW r \in Requests, Begin(r) PROVE TInv'
  <2>1. PoolOK'
    BY <1>4, PoolGrows DEF Begin, Acquire, PoolOK
  <2>. QED BY <1>4, <2>1 DEF Begin, Goto, LocalsOK, TablesOK, WalletOK, AnswerOK,
                             Active, InTransaction, wallet
<1>5. ASSUME NEW r \in Requests, BeginFails(r) PROVE TInv'
  BY <1>5 DEF BeginFails, Finish, LocalsOK, PoolOK, TablesOK, WalletOK, AnswerOK,
              Answers, db, wallet
<1>6. ASSUME NEW r \in Requests, MenusAnswered(r) PROVE TInv'
  <2>1. PICK menus \in MenuAnswers(call[r].datas) :
          call' = [call EXCEPT ![r].menus = menus,
                               ![r].total = TotalPrice(menus, call[r].datas),
                               ![r].datas = PricedLines(menus, call[r].datas)]
    BY <1>6 DEF MenusAnswered
  <2>2. call[r] \in CallType /\ call[r].datas \in Seq(Data)
    BY DEF LocalsOK, CallType
  <2>3. menus \in SUBSET Menu
    BY <2>2, AnswersAreMenus
  <2>4. TotalPrice(menus, call[r].datas) \in Nat
    BY <2>2, TotalIsNumber
  <2>5. PricedLines(menus, call[r].datas) \in Seq(Data)
    BY <2>2, <2>3, PricedLinesType
  <2>6. [call[r] EXCEPT !.menus = menus, !.total = TotalPrice(menus, call[r].datas),
                        !.datas = PricedLines(menus, call[r].datas)] \in CallType
    BY <2>2, <2>3, <2>4, <2>5 DEF CallType
  <2>7. call' \in [Requests -> CallType]
    BY <2>1, <2>6 DEF LocalsOK
  <2>. QED BY <1>6, <2>7 DEF MenusAnswered, Goto, LocalsOK, PoolOK, TablesOK, WalletOK,
                             AnswerOK, Active, InTransaction, db, wallet
<1>7. ASSUME NEW r \in Requests,
             MenusMissing(r) \/ MenusFail(r) \/ PaymentRefused(r) \/ PaymentFails(r)
               \/ InsertFails(r)
      PROVE  TInv'
  BY <1>7, AbortKeepsTypes DEF MenusMissing, MenusFail, PaymentRefused, PaymentFails,
                               InsertFails, Answers, ClientErrors
<1>8. ASSUME NEW r \in Requests, PostPayment(r) PROVE TInv'
  <2>1. [state |-> "pending", amount |-> call[r].total] \in PostType
    BY DEF LocalsOK, CallType, PostType
  <2>. QED BY <1>8, <2>1 DEF PostPayment, Goto, LocalsOK, PoolOK, TablesOK, WalletOK,
                             AnswerOK, Active, InTransaction, db
<1>9. ASSUME NEW r \in Requests, PaymentConfirmed(r) PROVE TInv'
  BY <1>9 DEF PaymentConfirmed, Goto, LocalsOK, PoolOK, TablesOK, WalletOK, AnswerOK,
              Active, InTransaction, db, wallet
<1>10. ASSUME NEW r \in Requests, InsertTh(r) PROVE TInv'
  <2>0. PICK h \in HeaderRows(r) : txn' = [txn EXCEPT ![r].th = {h}]
    BY <1>10 DEF InsertTh
  <2>1. h \in HeaderType
    BY HeadersType DEF LocalsOK, TablesOK
  <2>2. [txn[r] EXCEPT !.th = {h}] \in TxnType
    BY <2>1 DEF TablesOK, TxnType
  <2>3. [call[r] EXCEPT !.id = nextId] \in CallType
    BY DEF LocalsOK, TablesOK, CallType
  <2>4. call' \in [Requests -> CallType] /\ txn' \in [Requests -> TxnType]
    BY <1>10, <2>0, <2>2, <2>3 DEF InsertTh, LocalsOK, TablesOK
  <2>. QED BY <1>10, <2>4 DEF InsertTh, Goto, LocalsOK, PoolOK, TablesOK, WalletOK, AnswerOK,
                              Active, InTransaction, wallet
<1>11. ASSUME NEW r \in Requests, InsertTd(r) PROVE TInv'
  <2>1. call[r] \in CallType
    BY DEF LocalsOK
  <2>2. call[r].line \in 1..Len(call[r].datas)
    BY <1>11, <2>1 DEF InsertTd, CallType
  <2>3. call[r].datas[call[r].line] \in Data
    BY <2>1, <2>2 DEF CallType
  <2>0. PICK d \in LineRows(r) : txn' = [txn EXCEPT ![r].td = @ \cup {d}]
    BY <1>11 DEF InsertTd
  <2>4. d \in LineType
    BY <2>1, <2>3, LinesType
  <2>5. [txn[r] EXCEPT !.td = @ \cup {d}] \in TxnType
    BY <2>4 DEF TablesOK, TxnType
  <2>6. [call[r] EXCEPT !.line = @ + 1] \in CallType
    BY <2>1 DEF CallType
  <2>7. call' \in [Requests -> CallType] /\ txn' \in [Requests -> TxnType]
    BY <1>11, <2>0, <2>5, <2>6 DEF InsertTd, LocalsOK, TablesOK
  <2>. QED BY <1>11, <2>7 DEF InsertTd, LocalsOK, PoolOK, TablesOK, WalletOK, AnswerOK, wallet
<1>12. ASSUME NEW r \in Requests, SendCommit(r) PROVE TInv'
  <2>1. [txn[r] EXCEPT !.commit = "sent"] \in TxnType
    BY DEF TablesOK, TxnType
  <2>. QED BY <1>12, <2>1 DEF SendCommit, Goto, LocalsOK, PoolOK, TablesOK, WalletOK, AnswerOK,
                              Active, InTransaction, wallet
<1>13. ASSUME NEW r \in Requests, CommitAcked(r) \/ CommitFails(r) PROVE TInv'
  <2>0. Release(r)
    BY <1>13 DEF CommitAcked, CommitFails
  <2>1. PoolOK'
    BY <2>0, PoolShrinks DEF Release, PoolOK
  <2>. QED BY <1>13, <2>1 DEF CommitAcked, CommitFails, Finish, LocalsOK, TablesOK, WalletOK,
                              AnswerOK, Answers, wallet
<1>14. ASSUME NEW r \in Requests, CommitApplies(r) PROVE TInv'
  <2>1. txn[r].th \subseteq HeaderType /\ txn[r].td \subseteq LineType
    BY DEF TablesOK, TxnType
  <2>2. [txn[r] EXCEPT !.commit = "applied"] \in TxnType
    BY DEF TablesOK, TxnType
  <2>. QED BY <1>14, <2>1, <2>2 DEF CommitApplies, LocalsOK, PoolOK, TablesOK, WalletOK,
                                    AnswerOK, locals, wallet
<1>15. ASSUME NEW r \in Requests, WalletDebits(r) PROVE TInv'
  <2>1. [post[r] EXCEPT !.state = "debited"] \in PostType /\ post[r].amount \in Nat
    BY DEF WalletOK, PostType
  <2>2. Append(ledger[r], post[r].amount) \in Seq(Nat)
    BY <2>1 DEF WalletOK
  <2>. QED BY <1>15, <2>1, <2>2 DEF WalletDebits, LocalsOK, PoolOK, TablesOK, WalletOK,
                                    AnswerOK, locals, db
<1>16. ASSUME NEW r \in Requests, WalletRefuses(r) PROVE TInv'
  <2>1. [post[r] EXCEPT !.state = "refused"] \in PostType
    BY DEF WalletOK, PostType
  <2>. QED BY <1>16, <2>1 DEF WalletRefuses, LocalsOK, PoolOK, TablesOK, WalletOK, AnswerOK,
                              locals, db
<1>17. ASSUME Crash PROVE TInv'
  <2>1. PoolOK'
    BY <1>17, EmptyPool DEF Crash, PoolOK
  <2>2. TablesOK'
    <3>1. NoTxn \in TxnType
      BY DEF NoTxn, TxnType
    <3>. QED BY <1>17, <3>1 DEF Crash, TablesOK
  <2>3. LocalsOK' /\ WalletOK'
    BY <1>17 DEF Crash, LocalsOK, WalletOK, wallet
  <2>4. AnswerOK'
    BY <1>17 DEF Crash, AnswerOK
  <2>. QED BY <2>1, <2>2, <2>3, <2>4
<1>. QED
  BY <1>1, <1>2, <1>3, <1>4, <1>5, <1>6, <1>7, <1>8, <1>9, <1>10, <1>11, <1>12, <1>13,
     <1>14, <1>15, <1>16, <1>17 DEF Next, Handler, Terminating

LEMMA TInvHolds == Spec => []TInv
<1>. QED BY InitTypes, NextTypes, PTL DEF Spec

\* The type invariant: every reachable state of the handler, the pool, the tables
\* and the wallet is well-typed, and the pool never exceeds its size.
THEOREM TypeCorrect == Spec => []TypeOK
<1>1. TInv => TypeOK
  <2>. SUFFICES ASSUME TInv PROVE TypeOK
    OBVIOUS
  <2>1. ASSUME NEW r \in Requests
        PROVE  /\ Len(call[r].datas) \in Nat
               /\ call[r].id \in Nat /\ call[r].line \in Nat
               /\ txn[r].commit \in {"none", "sent", "applied"}
               /\ post[r].state \in {"none", "pending", "debited", "refused"}
    BY DEF TInv, LocalsOK, TablesOK, WalletOK, CallType, TxnType, PostType
  <2>. QED BY <2>1 DEF TInv, TypeOK, LocalsOK, PoolOK, TablesOK, AnswerOK
<1>. QED BY <1>1, TInvHolds, PTL

-------------------------------------------------------------------------------
(* The invariant that carries the safety properties.  It follows the debit *)
(* from the payment request to the header: what the wallet took is what    *)
(* was posted, what was posted is the total of the call, no header is      *)
(* written before the wallet confirmed, and the header that a COMMIT makes *)
(* visible is the one that was written.                                    *)

Unposted == {"idle", "begin", "menus", "pay"}
Paid     == {"insertTh", "insertTd", "committing"}

\* The debit, and the rows that rest on it.
PaymentOK(r) ==
  /\ ledger[r] = IF post[r].state = "debited" THEN <<post[r].amount>> ELSE <<>>
  /\ pc[r] \in Unposted => post[r].state = "none"
  /\ pc[r] \in Paid \cup {"paying"} => post[r].amount = call[r].total
  /\ pc[r] \in Paid => post[r].state = "debited"
  /\ pc[r] \in Unposted \cup {"paying", "insertTh"} => txn[r].th = {}
  /\ \A h \in txn[r].th :
       h.by = r /\ post[r].state = "debited" /\ h.total \in Cents(post[r].amount)

\* What became of the COMMIT, and what readers see of it.
CommitOK(r) ==
  /\ txn[r].commit # "none" => pc[r] \in {"committing", "done", "lost"}
  /\ pc[r] = "committing" => txn[r].commit # "none"
  /\ pc[r] \in {"insertTd", "committing"} \/ txn[r].commit # "none" =>
       \E h \in HeaderType : txn[r].th = {h}
  /\ OrdersOf(r) = IF txn[r].commit = "applied" THEN txn[r].th ELSE {}

\* What an answer implies.
AnswerMeans(r) ==
  /\ answer[r] # "none" => pc[r] = "done"
  /\ answer[r] \in ClientErrors => post[r].state \in {"none", "refused"}
  /\ answer[r] = "success" => txn[r].commit = "applied"

IInv ==
  /\ TInv
  /\ \A r \in Requests : PaymentOK(r) /\ CommitOK(r) /\ AnswerMeans(r)
  /\ ConnectionsHeldByTransactions

CallOK(r) == PaymentOK(r) /\ CommitOK(r) /\ AnswerMeans(r)

LEMMA InitInvariant == Init => IInv
<1>. SUFFICES ASSUME Init PROVE IInv
  OBVIOUS
<1>1. TInv
  BY InitTypes
<1>2. ASSUME NEW r \in Requests PROVE CallOK(r)
  BY <1>2 DEF Init, NoCall, NoTxn, NoPost, CallOK, PaymentOK, CommitOK, AnswerMeans, OrdersOf,
              Unposted, Paid, ClientErrors
<1>3. ConnectionsHeldByTransactions
  BY DEF Init, ConnectionsHeldByTransactions, InTransaction
<1>. QED BY <1>1, <1>2, <1>3 DEF IInv, CallOK

\* A step that leaves the variables of a call alone keeps what is known of it.
LEMMA OtherCallsKept ==
  ASSUME NEW s \in Requests, CallOK(s),
         pc'[s] = pc[s], call'[s].total = call[s].total, txn'[s] = txn[s],
         post'[s] = post[s], ledger'[s] = ledger[s], answer'[s] = answer[s],
         OrdersOf(s)' = OrdersOf(s)
  PROVE  CallOK(s)'
BY DEF CallOK, PaymentOK, CommitOK, AnswerMeans

\* An early return before the COMMIT was sent.  A client error is only
\* answered when the wallet was not asked or has refused.
LEMMA AbortKeepsInvariant ==
  ASSUME IInv, NEW r \in Requests, NEW status \in Answers,
         pc[r] \in InTransaction \ {"committing"},
         status # "success",
         status \in ClientErrors => post[r].state \in {"none", "refused"},
         Abort(r, status), UNCHANGED wallet
  PROVE  IInv'
<1>1. TInv'
  BY AbortKeepsTypes DEF IInv
<1>2. ASSUME NEW s \in Requests PROVE CallOK(s)'
  <2>0. CallOK(s) /\ OrdersOf(s)' = OrdersOf(s)
    BY DEF IInv, CallOK, Abort, OrdersOf
  <2>1. CASE s # r
    BY <2>0, <2>1, OtherCallsKept DEF IInv, TInv, LocalsOK, TablesOK, AnswerOK, Abort, Finish,
                                      wallet
  <2>2. CASE s = r
    <3>1. txn[r].commit = "none"
      BY <2>0, <2>2 DEF CallOK, CommitOK, InTransaction
    <3>2. pc'[r] = "done" /\ answer'[r] = status /\ txn'[r] = NoTxn
      BY DEF IInv, TInv, LocalsOK, TablesOK, AnswerOK, Abort, Finish
    <3>3. post' = post /\ ledger' = ledger
      BY DEF wallet
    <3>. QED BY <2>0, <2>2, <3>1, <3>2, <3>3
             DEF CallOK, PaymentOK, CommitOK, AnswerMeans, NoTxn, Unposted, Paid
  <2>. QED BY <2>1, <2>2
<1>3. ConnectionsHeldByTransactions'
  BY DEF IInv, TInv, LocalsOK, ConnectionsHeldByTransactions, Abort, Finish, Release,
         InTransaction
<1>. QED BY <1>1, <1>2, <1>3 DEF IInv, CallOK

LEMMA NextInvariant == IInv /\ [Next]_vars => IInv'
<1>. SUFFICES ASSUME IInv, [Next]_vars PROVE IInv'
  OBVIOUS
<1>0. TInv'
  BY NextTypes DEF IInv
<1>. USE <1>0 DEF IInv
<1>a. \A s \in Requests : CallOK(s)
  BY DEF CallOK
<1>1. CASE UNCHANGED vars
  <2>1. ASSUME NEW s \in Requests PROVE CallOK(s)'
    BY <1>1, <1>a, OtherCallsKept DEF vars, locals, db, wallet, OrdersOf
  <2>2. ConnectionsHeldByTransactions'
    BY <1>1 DEF ConnectionsHeldByTransactions, vars, locals, db
  <2>. QED BY <2>1, <2>2 DEF CallOK
<1>2. ASSUME NEW r \in Requests, NEW datas \in Baskets, Accept(r, datas) PROVE IInv'
  <2>1. ASSUME NEW s \in Requests PROVE CallOK(s)'
    <3>1. /\ pc[r] = "idle" /\ pc'[r] = "begin" /\ call'[s].total = call[s].total
          /\ UNCHANGED <<th, txn, post, ledger, answer>>
      BY <1>2 DEF TInv, LocalsOK, CallType, Accept, Goto, db, wallet
    <3>2. OrdersOf(s)' = OrdersOf(s)
      BY <3>1 DEF OrdersOf
    <3>3. CASE s # r
      <4>1. pc'[s] = pc[s]
        BY <1>2, <3>3 DEF TInv, LocalsOK, Accept, Goto
      <4>. QED BY <1>a, <3>1, <3>2, <4>1, OtherCallsKept
    <3>4. CASE s = r
      BY <1>a, <3>1, <3>2, <3>4 DEF CallOK, PaymentOK, CommitOK, AnswerMeans, Unposted, Paid
    <3>. QED BY <3>3, <3>4
  <2>2. ConnectionsHeldByTransactions'
    BY <1>2 DEF TInv, LocalsOK, ConnectionsHeldByTransactions, Accept, Goto, db, InTransaction
  <2>. QED BY <2>1, <2>2 DEF CallOK
<1>3. ASSUME NEW r \in Requests, Refuse(r) PROVE IInv'
  <2>1. ASSUME NEW s \in Requests PROVE CallOK(s)'
    BY <1>3, <1>a DEF TInv, LocalsOK, AnswerOK, Refuse, Finish, db, wallet, CallOK, PaymentOK,
                CommitOK, AnswerMeans, OrdersOf, Unposted, Paid
  <2>2. ConnectionsHeldByTransactions'
    BY <1>3 DEF TInv, LocalsOK, ConnectionsHeldByTransactions, Refuse, Finish, db, InTransaction
  <2>. QED BY <2>1, <2>2 DEF CallOK
<1>4. ASSUME NEW r \in Requests, Begin(r) PROVE IInv'
  <2>1. ASSUME NEW s \in Requests PROVE CallOK(s)'
    BY <1>4, <1>a DEF TInv, LocalsOK, Begin, Goto, wallet, CallOK, PaymentOK,
                CommitOK, AnswerMeans, OrdersOf, Unposted, Paid
  <2>2. ConnectionsHeldByTransactions'
    BY <1>4 DEF TInv, LocalsOK, ConnectionsHeldByTransactions, Begin, Goto, Acquire,
                InTransaction
  <2>. QED BY <2>1, <2>2 DEF CallOK
<1>5. ASSUME NEW r \in Requests, BeginFails(r) PROVE IInv'
  <2>1. ASSUME NEW s \in Requests PROVE CallOK(s)'
    BY <1>5, <1>a DEF TInv, LocalsOK, AnswerOK, BeginFails, Finish, db, wallet, CallOK,
                PaymentOK, CommitOK, AnswerMeans, OrdersOf, Unposted, Paid, ClientErrors
  <2>2. ConnectionsHeldByTransactions'
    BY <1>5 DEF TInv, LocalsOK, ConnectionsHeldByTransactions, BeginFails, Finish, db,
                InTransaction
  <2>. QED BY <2>1, <2>2 DEF CallOK
<1>6. ASSUME NEW r \in Requests, MenusAnswered(r) PROVE IInv'
  <2>1. ASSUME NEW s \in Requests PROVE CallOK(s)'
    BY <1>6, <1>a DEF TInv, LocalsOK, MenusAnswered, Goto, db, wallet, CallOK, PaymentOK,
                CommitOK, AnswerMeans, OrdersOf, Unposted, Paid
  <2>2. ConnectionsHeldByTransactions'
    BY <1>6 DEF TInv, LocalsOK, ConnectionsHeldByTransactions, MenusAnswered, Goto, db,
                InTransaction
  <2>. QED BY <2>1, <2>2 DEF CallOK
<1>7. ASSUME NEW r \in Requests,
             MenusMissing(r) \/ MenusFail(r) \/ PaymentRefused(r) \/ PaymentFails(r)
               \/ InsertFails(r)
      PROVE  IInv'
  <2>1. pc[r] \in {"menus", "paying", "insertTh", "insertTd"}
    BY <1>7 DEF MenusMissing, MenusFail, PaymentRefused, PaymentFails, InsertFails
  <2>2. pc[r] = "menus" => post[r].state = "none"
    BY <1>a DEF CallOK, PaymentOK, Unposted
  <2>3. PICK status \in {"400", "4xx", "passed", "500"} :
          /\ Abort(r, status) /\ UNCHANGED wallet
          /\ status \in {"400", "4xx"} => post[r].state \in {"none", "refused"}
    BY <1>7, <2>2 DEF MenusMissing, MenusFail, PaymentRefused, PaymentFails, InsertFails
  <2>. QED BY <2>1, <2>3, AbortKeepsInvariant DEF InTransaction, Answers, ClientErrors
<1>8. ASSUME NEW r \in Requests, PostPayment(r) PROVE IInv'
  <2>1. ASSUME NEW s \in Requests PROVE CallOK(s)'
    <3>1. OrdersOf(s)' = OrdersOf(s)
      BY <1>8 DEF OrdersOf, PostPayment, db
    <3>2. CASE s # r
      BY <1>8, <1>a, <3>1, <3>2, OtherCallsKept DEF TInv, LocalsOK, TablesOK, WalletOK,
         PostPayment, Goto, db
    <3>3. CASE s = r
      <4>1. /\ pc[r] = "pay" /\ pc'[r] = "paying"
            /\ post[r].state = "none" /\ ledger'[r] = ledger[r] /\ answer'[r] = answer[r]
            /\ post'[r].state = "pending" /\ post'[r].amount = call[r].total
            /\ txn'[r] = txn[r] /\ call'[r] = call[r]
        BY <1>8, <1>a DEF TInv, LocalsOK, TablesOK, WalletOK, CallType, TxnType, PostType,
           PostPayment, Goto, db, CallOK, PaymentOK, CommitOK, Unposted, Paid
      <4>2. PaymentOK(r)'
        BY <1>a, <4>1 DEF CallOK, PaymentOK, Unposted, Paid
      <4>3. CommitOK(r)'
        BY <1>a, <3>1, <3>3, <4>1 DEF CallOK, CommitOK
      <4>4. AnswerMeans(r)'
        BY <1>a, <4>1 DEF CallOK, AnswerMeans, ClientErrors
      <4>. QED BY <3>3, <4>2, <4>3, <4>4 DEF CallOK
    <3>. QED BY <3>2, <3>3
  <2>2. ConnectionsHeldByTransactions'
    BY <1>8 DEF TInv, LocalsOK, ConnectionsHeldByTransactions, PostPayment, Goto, db, InTransaction
  <2>. QED BY <2>1, <2>2 DEF CallOK
<1>9. ASSUME NEW r \in Requests, PaymentConfirmed(r) PROVE IInv'
  <2>1. ASSUME NEW s \in Requests PROVE CallOK(s)'
    BY <1>9, <1>a DEF TInv, LocalsOK, TablesOK, WalletOK, AnswerOK, TxnType, PostType,
                CallType, PaymentConfirmed, Goto, db, wallet, CallOK, PaymentOK, CommitOK, AnswerMeans,
                OrdersOf, Unposted, Paid
  <2>2. ConnectionsHeldByTransactions'
    BY <1>9 DEF TInv, LocalsOK, ConnectionsHeldByTransactions, PaymentConfirmed, Goto, db, InTransaction
  <2>. QED BY <2>1, <2>2 DEF CallOK
<1>10. ASSUME NEW r \in Requests, InsertTh(r) PROVE IInv'
  <2>1. ASSUME NEW s \in Requests PROVE CallOK(s)'
    <3>1. OrdersOf(s)' = OrdersOf(s)
      BY <1>10 DEF OrdersOf, InsertTh
    <3>2. CASE s # r
      BY <1>10, <1>a, <3>1, <3>2, OtherCallsKept DEF TInv, LocalsOK, TablesOK, WalletOK,
         InsertTh, Goto, wallet
    <3>3. CASE s = r
      <4>h. PICK h \in HeaderRows(r) : txn' = [txn EXCEPT ![r].th = {h}]
        BY <1>10 DEF InsertTh
      <4>0. h \in HeaderType /\ h.by = r /\ h.total \in Cents(call[r].total)
        BY HeadersType DEF TInv, LocalsOK, TablesOK
      <4>1. /\ pc[r] = "insertTh" /\ pc'[r] = "insertTd"
            /\ post'[r] = post[r] /\ ledger'[r] = ledger[r] /\ answer'[r] = answer[r]
            /\ txn'[r].th = {h} /\ txn'[r].commit = txn[r].commit
            /\ call'[r].total = call[r].total
        <5>1. txn'[r].th = {h} /\ txn'[r].commit = txn[r].commit
          BY <4>h DEF TInv, TablesOK, TxnType
        <5>. QED BY <1>10, <5>1 DEF TInv, LocalsOK, CallType, InsertTh, Goto, wallet
      <4>2. PaymentOK(r)'
        <5>1. /\ post[r].state = "debited" /\ post[r].amount = call[r].total
              /\ ledger[r] = <<post[r].amount>>
          BY <1>a, <4>1 DEF CallOK, PaymentOK, Paid
        <5>2. h.total \in Cents(post'[r].amount) /\ post'[r].amount = call'[r].total
              /\ post'[r].state = "debited" /\ ledger'[r] = <<post'[r].amount>>
          BY <4>0, <4>1, <5>1
        <5>. QED BY <4>0, <4>1, <5>2 DEF PaymentOK, Unposted, Paid
      <4>3. CommitOK(r)'
        BY <1>a, <3>1, <3>3, <4>0, <4>1 DEF CallOK, CommitOK
      <4>4. AnswerMeans(r)'
        BY <1>a, <4>0, <4>1 DEF CallOK, AnswerMeans
      <4>. QED BY <3>3, <4>2, <4>3, <4>4 DEF CallOK
    <3>. QED BY <3>2, <3>3
  <2>2. ConnectionsHeldByTransactions'
    BY <1>10 DEF TInv, LocalsOK, ConnectionsHeldByTransactions, InsertTh, Goto, InTransaction
  <2>. QED BY <2>1, <2>2 DEF CallOK
<1>11. ASSUME NEW r \in Requests, InsertTd(r) PROVE IInv'
  <2>1. ASSUME NEW s \in Requests PROVE CallOK(s)'
    <3>1. OrdersOf(s)' = OrdersOf(s)
      BY <1>11 DEF OrdersOf, InsertTd
    <3>2. CASE s # r
      BY <1>11, <1>a, <3>1, <3>2, OtherCallsKept DEF TInv, LocalsOK, TablesOK, WalletOK,
         InsertTd, wallet
    <3>3. CASE s = r
      <4>1. /\ pc'[r] = pc[r] /\ pc[r] = "insertTd"
            /\ post'[r] = post[r] /\ ledger'[r] = ledger[r] /\ answer'[r] = answer[r]
            /\ txn'[r].th = txn[r].th /\ txn'[r].commit = txn[r].commit
            /\ call'[r].total = call[r].total
        BY <1>11, <1>a DEF TInv, LocalsOK, TablesOK, WalletOK, CallType, TxnType, PostType,
           InsertTd, wallet, CallOK, PaymentOK, CommitOK, Unposted, Paid
      <4>2. PaymentOK(r)'
        BY <1>a, <4>1 DEF CallOK, PaymentOK, Unposted, Paid
      <4>3. CommitOK(r)'
        BY <1>a, <3>1, <3>3, <4>1 DEF CallOK, CommitOK
      <4>4. AnswerMeans(r)'
        BY <1>a, <4>1 DEF CallOK, AnswerMeans
      <4>. QED BY <3>3, <4>2, <4>3, <4>4 DEF CallOK
    <3>. QED BY <3>2, <3>3
  <2>2. ConnectionsHeldByTransactions'
    BY <1>11 DEF TInv, LocalsOK, ConnectionsHeldByTransactions, InsertTd, InTransaction
  <2>. QED BY <2>1, <2>2 DEF CallOK
<1>12. ASSUME NEW r \in Requests, SendCommit(r) PROVE IInv'
  <2>1. ASSUME NEW s \in Requests PROVE CallOK(s)'
    <3>1. /\ pc[r] = "insertTd" /\ pc'[r] = "committing"
          /\ txn'[r].th = txn[r].th /\ txn'[r].commit = "sent"
          /\ UNCHANGED <<call, th, post, ledger, answer>>
      BY <1>12 DEF TInv, LocalsOK, TablesOK, TxnType, SendCommit, Goto, wallet
    <3>2. OrdersOf(s)' = OrdersOf(s)
      BY <3>1 DEF OrdersOf
    <3>3. CASE s # r
      <4>1. pc'[s] = pc[s] /\ txn'[s] = txn[s]
        BY <1>12, <3>3 DEF TInv, LocalsOK, TablesOK, SendCommit, Goto
      <4>. QED BY <1>a, <3>1, <3>2, <4>1, OtherCallsKept
    <3>4. CASE s = r
      BY <1>a, <3>1, <3>2, <3>4 DEF CallOK, PaymentOK, CommitOK, AnswerMeans, Unposted, Paid
    <3>. QED BY <3>3, <3>4
  <2>2. ConnectionsHeldByTransactions'
    BY <1>12 DEF TInv, LocalsOK, ConnectionsHeldByTransactions, SendCommit, Goto, InTransaction
  <2>. QED BY <2>1, <2>2 DEF CallOK
<1>13. ASSUME NEW r \in Requests, CommitAcked(r) PROVE IInv'
  <2>1. ASSUME NEW s \in Requests PROVE CallOK(s)'
    BY <1>13, <1>a DEF TInv, LocalsOK, TablesOK, WalletOK, AnswerOK, TxnType, PostType,
                CallType, CommitAcked, Finish, ClientErrors, wallet, CallOK, PaymentOK, CommitOK, AnswerMeans,
                OrdersOf, Unposted, Paid
  <2>2. ConnectionsHeldByTransactions'
    BY <1>13 DEF TInv, LocalsOK, ConnectionsHeldByTransactions, CommitAcked, Finish, Release, InTransaction
  <2>. QED BY <2>1, <2>2 DEF CallOK
<1>14. ASSUME NEW r \in Requests, CommitFails(r) PROVE IInv'
  <2>1. ASSUME NEW s \in Requests PROVE CallOK(s)'
    BY <1>14, <1>a DEF TInv, LocalsOK, TablesOK, WalletOK, AnswerOK, TxnType, PostType,
                CallType, CommitFails, Finish, ClientErrors, wallet, CallOK, PaymentOK, CommitOK, AnswerMeans,
                OrdersOf, Unposted, Paid
  <2>2. ConnectionsHeldByTransactions'
    BY <1>14 DEF TInv, LocalsOK, ConnectionsHeldByTransactions, CommitFails, Finish, Release, InTransaction
  <2>. QED BY <2>1, <2>2 DEF CallOK
<1>15. ASSUME NEW r \in Requests, CommitApplies(r) PROVE IInv'
  <2>1. ASSUME NEW s \in Requests PROVE CallOK(s)'
    <3>0. /\ th' = th \cup txn[r].th
          /\ \A h \in txn[r].th : h.by = r
          /\ r = s => OrdersOf(s) = {}
      BY <1>15, <1>a DEF CommitApplies, CallOK, PaymentOK, CommitOK
    <3>1. OrdersOf(s)' = IF s = r THEN txn[r].th ELSE OrdersOf(s)
      BY <3>0 DEF OrdersOf
    <3>2. CASE s # r
      BY <1>15, <1>a, <3>1, <3>2, OtherCallsKept DEF TInv, LocalsOK, TablesOK, WalletOK,
         CommitApplies, locals, wallet
    <3>3. CASE s = r
      <4>1. /\ pc'[r] = pc[r] /\ call'[r] = call[r] /\ post'[r] = post[r]
            /\ ledger'[r] = ledger[r] /\ answer'[r] = answer[r]
            /\ txn[r].commit = "sent" /\ txn'[r].commit = "applied" /\ txn'[r].th = txn[r].th
        BY <1>15, <1>a DEF TInv, LocalsOK, TablesOK, WalletOK, CallType, TxnType, PostType,
           CommitApplies, locals, wallet, CallOK, PaymentOK, CommitOK, Unposted, Paid
      <4>2. PaymentOK(r)'
        BY <1>a, <4>1 DEF CallOK, PaymentOK, Unposted, Paid
      <4>3. CommitOK(r)'
        BY <1>a, <3>1, <3>3, <4>1 DEF CallOK, CommitOK
      <4>4. AnswerMeans(r)'
        BY <1>a, <4>1 DEF CallOK, AnswerMeans
      <4>. QED BY <3>3, <4>2, <4>3, <4>4 DEF CallOK
    <3>. QED BY <3>2, <3>3
  <2>2. ConnectionsHeldByTransactions'
    BY <1>15 DEF TInv, LocalsOK, ConnectionsHeldByTransactions, CommitApplies, locals, InTransaction
  <2>. QED BY <2>1, <2>2 DEF CallOK
<1>16. ASSUME NEW r \in Requests, WalletDebits(r) PROVE IInv'
  <2>1. ASSUME NEW s \in Requests PROVE CallOK(s)'
    <3>1. OrdersOf(s)' = OrdersOf(s)
      BY <1>16 DEF OrdersOf, WalletDebits, db
    <3>2. CASE s # r
      BY <1>16, <1>a, <3>1, <3>2, OtherCallsKept DEF TInv, LocalsOK, TablesOK, WalletOK,
         WalletDebits, locals, db
    <3>3. CASE s = r
      <4>0. /\ post[r] \in PostType /\ post[r].state = "pending" /\ ledger[r] = <<>>
            /\ Append(<<>>, post[r].amount) = <<post[r].amount>>
        BY <1>16, <1>a DEF TInv, WalletOK, WalletDebits, CallOK, PaymentOK
      <4>1. /\ pc'[r] = pc[r] /\ call'[r] = call[r] /\ txn'[r] = txn[r]
            /\ answer'[r] = answer[r]
            /\ post'[r].state = "debited" /\ post'[r].amount = post[r].amount
            /\ ledger'[r] = <<post[r].amount>>
        BY <1>16, <4>0 DEF TInv, WalletOK, WalletDebits, PostType, locals, db
      <4>2. PaymentOK(r)'
        BY <1>a, <4>0, <4>1 DEF CallOK, PaymentOK, Unposted, Paid
      <4>3. CommitOK(r)'
        BY <1>a, <3>1, <3>3, <4>0, <4>1 DEF CallOK, CommitOK
      <4>4. AnswerMeans(r)'
        BY <1>a, <4>0, <4>1 DEF CallOK, AnswerMeans
      <4>. QED BY <3>3, <4>2, <4>3, <4>4 DEF CallOK
    <3>. QED BY <3>2, <3>3
  <2>2. ConnectionsHeldByTransactions'
    BY <1>16 DEF TInv, LocalsOK, ConnectionsHeldByTransactions, WalletDebits, locals, db, InTransaction
  <2>. QED BY <2>1, <2>2 DEF CallOK
<1>17. ASSUME NEW r \in Requests, WalletRefuses(r) PROVE IInv'
  <2>1. ASSUME NEW s \in Requests PROVE CallOK(s)'
    <3>1. OrdersOf(s)' = OrdersOf(s)
      BY <1>17 DEF OrdersOf, WalletRefuses, db
    <3>2. CASE s # r
      BY <1>17, <1>a, <3>1, <3>2, OtherCallsKept DEF TInv, LocalsOK, TablesOK, WalletOK,
         WalletRefuses, locals, db
    <3>3. CASE s = r
      <4>1. /\ pc'[r] = pc[r] /\ call'[r] = call[r] /\ txn'[r] = txn[r]
            /\ answer'[r] = answer[r] /\ ledger'[r] = ledger[r]
            /\ post[r].state = "pending" /\ post'[r].state = "refused"
            /\ post'[r].amount = post[r].amount
        BY <1>17 DEF TInv, WalletOK, WalletRefuses, PostType, locals, db
      <4>2. PaymentOK(r)'
        BY <1>a, <4>1 DEF CallOK, PaymentOK, Unposted, Paid
      <4>3. CommitOK(r)'
        BY <1>a, <3>1, <3>3, <4>1 DEF CallOK, CommitOK
      <4>4. AnswerMeans(r)'
        BY <1>a, <4>1 DEF CallOK, AnswerMeans
      <4>. QED BY <3>3, <4>2, <4>3, <4>4 DEF CallOK
    <3>. QED BY <3>2, <3>3
  <2>2. ConnectionsHeldByTransactions'
    BY <1>17 DEF TInv, LocalsOK, ConnectionsHeldByTransactions, WalletRefuses, locals, db, InTransaction
  <2>. QED BY <2>1, <2>2 DEF CallOK
<1>18. ASSUME Crash PROVE IInv'
  <2>1. ASSUME NEW s \in Requests PROVE CallOK(s)'
    BY <1>18, <1>a DEF TInv, LocalsOK, TablesOK, Crash, wallet, NoTxn, CallOK, PaymentOK,
                CommitOK, AnswerMeans, OrdersOf, Unposted, Paid, Active, InTransaction
  <2>2. ConnectionsHeldByTransactions'
    BY <1>18 DEF TInv, LocalsOK, ConnectionsHeldByTransactions, Crash, Active, InTransaction
  <2>. QED BY <2>1, <2>2 DEF CallOK
<1>. QED
  BY <1>1, <1>2, <1>3, <1>4, <1>5, <1>6, <1>7, <1>8, <1>9, <1>10, <1>11, <1>12, <1>13,
     <1>14, <1>15, <1>16, <1>17, <1>18 DEF Next, Handler, Terminating

LEMMA IInvHolds == Spec => []IInv
<1>. QED BY InitInvariant, NextInvariant, PTL DEF Spec

-------------------------------------------------------------------------------
(* The safety properties.                                                  *)

\* A header anyone can read is one that a COMMIT made visible.
LEMMA VisibleHeader ==
  ASSUME IInv, NEW h \in th
  PROVE  h.by \in Requests /\ h \in txn[h.by].th
<1>1. h.by \in Requests
  BY DEF IInv, TInv, TablesOK, HeaderType
<1>2. h \in OrdersOf(h.by)
  BY DEF OrdersOf
<1>. QED BY <1>1, <1>2 DEF IInv, CommitOK

\* No failure, crash or late answer leaves a visible order unpaid, or paid with an
\* amount that its total is not rounded from.
THEOREM OrdersArePaid == Spec => []NoOrderWithoutPayment
<1>1. IInv => NoOrderWithoutPayment
  <2>. SUFFICES ASSUME IInv, NEW h \in th
                PROVE  Len(ledger[h.by]) = 1 /\ h.total \in Cents(ledger[h.by][1])
    BY DEF NoOrderWithoutPayment
  <2>1. h.by \in Requests /\ h \in txn[h.by].th
    BY VisibleHeader
  <2>2. ledger[h.by] = <<post[h.by].amount>> /\ h.total \in Cents(post[h.by].amount)
    BY <2>1 DEF IInv, PaymentOK
  <2>3. \A amount : Len(<<amount>>) = 1 /\ <<amount>>[1] = amount
    OBVIOUS
  <2>. QED BY <2>2, <2>3, Zenon
<1>. QED BY <1>1, IInvHolds, PTL

\* The wallet takes at most one debit for a request.
THEOREM ChargedOnce == Spec => []ChargedAtMostOnce
<1>1. IInv => ChargedAtMostOnce
  <2>. SUFFICES ASSUME IInv, NEW r \in Requests PROVE Len(ledger[r]) <= 1
    BY DEF ChargedAtMostOnce
  <2>1. ledger[r] = <<>> \/ ledger[r] = <<post[r].amount>>
    BY DEF IInv, PaymentOK
  <2>2. Len(<<>>) = 0 /\ \A amount : Len(<<amount>>) = 1
    OBVIOUS
  <2>3. Len(ledger[r]) \in {0, 1}
    BY <2>1, <2>2, Zenon
  <2>4. \A n \in {0, 1} : n <= 1
    OBVIOUS
  <2>. QED BY <2>3, <2>4, Zenon
<1>. QED BY <1>1, IInvHolds, PTL

\* A client error is never followed, or preceded, by a debit or an order.
THEOREM ClientErrorsAreClean == Spec => []ClientErrorsLeaveNoTrace
<1>1. IInv => ClientErrorsLeaveNoTrace
  <2>. SUFFICES ASSUME IInv, NEW r \in Requests, answer[r] \in ClientErrors
                PROVE  ledger[r] = <<>> /\ post[r].state # "pending" /\ OrdersOf(r) = {}
    BY DEF ClientErrorsLeaveNoTrace
  <2>1. post[r].state \in {"none", "refused"}
    BY DEF IInv, AnswerMeans
  <2>2. ledger[r] = <<>>
    BY <2>1 DEF IInv, PaymentOK
  <2>3. ASSUME NEW h \in OrdersOf(r) PROVE FALSE
    <3>1. h.by = r /\ h \in txn[r].th
      BY <2>3, VisibleHeader DEF OrdersOf
    <3>. QED BY <2>1, <3>1 DEF IInv, PaymentOK
  <2>. QED BY <2>1, <2>2, <2>3
<1>. QED BY <1>1, IInvHolds, PTL

\* "success: true" stands for exactly one order, visible when the answer is sent.
THEOREM SuccessIsPlaced == Spec => []SuccessMeansPlacedOnce
<1>1. IInv => SuccessMeansPlacedOnce
  <2>. SUFFICES ASSUME IInv, NEW r \in Requests, answer[r] = "success"
                PROVE  Cardinality(OrdersOf(r)) = 1
    BY DEF SuccessMeansPlacedOnce
  <2>1. PICK h \in HeaderType : OrdersOf(r) = {h}
    BY DEF IInv, CommitOK, AnswerMeans
  <2>. QED BY <2>1, FS_Singleton
<1>. QED BY <1>1, IInvHolds, PTL

\* No way through the handler leaks a connection of the pool.
THEOREM NoConnectionLeak == Spec => []ConnectionsHeldByTransactions
<1>. QED BY IInvHolds, PTL DEF IInv

-------------------------------------------------------------------------------
(* The prices.  MenusAnswered goes on only with as many menus as lines;    *)
(* since a menu is answered once, and only if it was asked for, every line *)
(* then has its menu, and no two lines have the same.                      *)

PricedBy(menus, line) ==
  \E m \in menus :
    m.id = line.menuId /\ line.price = m.price /\ line.total = m.price * line.qty

AllPriced(menus, datas) == \A i \in DOMAIN datas : PricedBy(menus, datas[i])

\* The pigeonhole behind "len(menus) != len(request.Datas)".
LEMMA EveryLineHasItsMenu ==
  ASSUME NEW datas \in Seq(Data), NEW menus \in MenuAnswers(datas),
         Cardinality(menus) = Len(datas), NEW i \in DOMAIN datas
  PROVE  \E m \in menus : m.id = datas[i].menuId
<1>. DEFINE ids == IdsOf(datas)
           f == [j \in 1..Len(datas) |-> datas[j].menuId]
<1>1. IsFiniteSet(ids) /\ Cardinality(ids) <= Len(datas)
  <2>1. f \in Surjection(1..Len(datas), ids)
    BY DEF Surjection, IdsOf
  <2>2. IsFiniteSet(1..Len(datas)) /\ Cardinality(1..Len(datas)) = Len(datas)
    BY FS_Interval
  <2>. HIDE DEF f, ids
  <2>. QED BY <2>1, <2>2, FS_Surjection
<1>2. PICK known \in SUBSET ids : \E quote \in [known -> Prices] : menus = Quoted(known, quote)
  BY AnswerShape
<1>3. IsFiniteSet(known) /\ Cardinality(known) <= Cardinality(ids)
  BY <1>1, FS_Subset
<1>4. Cardinality(menus) <= Cardinality(known)
  <2>0. PICK quote \in [known -> Prices] : menus = Quoted(known, quote)
    BY <1>2
  <2>. DEFINE g == [m \in known |-> [id |-> m, price |-> quote[m]]]
  <2>1. g \in Surjection(known, menus)
    BY <2>0 DEF Surjection, Quoted
  <2>. HIDE DEF g
  <2>. QED BY <1>3, <2>1, FS_Surjection
<1>5. Cardinality(known) = Cardinality(ids)
  <2>1. Cardinality(known) \in Nat /\ Cardinality(ids) \in Nat /\ Len(datas) \in Nat
    BY <1>1, <1>3, FS_CardinalityType
  <2>. HIDE DEF ids
  <2>. QED BY <1>1, <1>3, <1>4, <2>1
<1>6. known = ids
  BY <1>1, <1>5, FS_Subset
<1>7. datas[i].menuId \in known
  BY <1>6 DEF IdsOf
<1>8. PICK quote \in [known -> Prices] : menus = Quoted(known, quote)
  BY <1>2
<1>9. [id |-> datas[i].menuId, price |-> quote[datas[i].menuId]] \in menus
  BY <1>7, <1>8 DEF Quoted
<1>. QED BY <1>9

LEMMA FilledInByMasterData ==
  ASSUME NEW datas \in Seq(Data), NEW menus \in MenuAnswers(datas),
         Cardinality(menus) = Len(datas)
  PROVE  AllPriced(menus, PricedLines(menus, datas))
<1>. SUFFICES ASSUME NEW i \in DOMAIN datas
              PROVE  PricedBy(menus, PricedLine(menus, datas[i]))
  BY DEF AllPriced, PricedLines
<1>. DEFINE found == {m \in menus : m.id = datas[i].menuId}
           menu  == CHOOSE m \in found : TRUE
<1>1. datas[i] \in Data
  OBVIOUS
<1>2. found # {}
  BY EveryLineHasItsMenu
<1>3. menu \in menus /\ menu.id = datas[i].menuId
  BY <1>2
<1>4. PricedLine(menus, datas[i])
        = [datas[i] EXCEPT !.price = menu.price, !.total = menu.price * datas[i].qty]
  BY <1>2 DEF PricedLine
<1>. HIDE DEF menu
<1>. QED BY <1>1, <1>3, <1>4 DEF PricedBy, Data

SumOfTotals(datas) == SumFunction([i \in DOMAIN datas |-> datas[i].total])

LEMMA MenusDiffer ==
  ASSUME NEW datas, NEW menus \in MenuAnswers(datas), NEW m \in menus, NEW n \in menus,
         m.id = n.id
  PROVE  m = n
<1>1. PICK known \in SUBSET IdsOf(datas) :
        \E quote \in [known -> Prices] : menus = Quoted(known, quote)
  BY AnswerShape
<1>2. PICK quote \in [known -> Prices] : menus = Quoted(known, quote)
  BY <1>1
<1>. QED BY <1>2 DEF Quoted

\* The two results of calculateTotalPriceMenu agree: each line is matched by one
\* menu, so that the terms of the total are the totals of the lines.
LEMMA TotalsAddUp ==
  ASSUME NEW datas \in Seq(Data), NEW menus \in MenuAnswers(datas),
         Cardinality(menus) = Len(datas)
  PROVE  TotalPrice(menus, datas) = SumOfTotals(PricedLines(menus, datas))
<1>. DEFINE S == Matches(menus, datas)
           T == DOMAIN datas
           g == [p \in S |-> p[1].price * datas[p[2]].qty]
           h == [i \in T |-> PricedLine(menus, datas[i]).total]
           f == [p \in S |-> p[2]]
<1>1. IsFiniteSet(S) /\ \A p \in S : g[p] \in Int
  BY TermsOfTotal
<1>2. \A p \in S : p \in menus \X T /\ p[1].id = datas[p[2]].menuId
  BY DEF Matches
<1>3. f \in Bijection(S, T)
  <2>1. ASSUME NEW p \in S, NEW q \in S, p[2] = q[2] PROVE p = q
    <3>1. p[1] \in menus /\ q[1] \in menus /\ p[1].id = q[1].id
      BY <1>2, <2>1
    <3>2. p[1] = q[1]
      BY <3>1, MenusDiffer
    <3>. QED BY <1>2, <2>1, <3>2
  <2>2. ASSUME NEW i \in T PROVE \E p \in S : p[2] = i
    <3>1. PICK m \in menus : m.id = datas[i].menuId
      BY EveryLineHasItsMenu
    <3>2. <<m, i>> \in S
      BY <3>1 DEF Matches
    <3>. QED BY <3>2
  <2>3. \A p \in S : p[2] \in T
    BY <1>2
  <2>. QED BY <2>1, <2>2, <2>3 DEF Bijection, Injection, Surjection, IsInjective
<1>4. ASSUME NEW p \in S PROVE h[f[p]] = g[p]
  <2>. DEFINE line == datas[p[2]]
             found == {m \in menus : m.id = line.menuId}
             menu == CHOOSE m \in found : TRUE
  <2>1. p[1] \in found /\ p[2] \in T
    BY <1>2
  <2>2. menu \in menus /\ menu.id = p[1].id
    BY <2>1
  <2>3. menu = p[1]
    <3>. HIDE DEF menu
    <3>. QED BY <2>1, <2>2, MenusDiffer
  <2>4. PricedLine(menus, line) = [line EXCEPT !.price = menu.price, !.total = menu.price * line.qty]
    BY <2>1 DEF PricedLine
  <2>5. line \in Data
    BY <2>1
  <2>6. PricedLine(menus, line).total = menu.price * line.qty
    <3>. HIDE DEF menu, line
    <3>. QED BY <2>4, <2>5 DEF Data
  <2>. HIDE DEF menu
  <2>. QED BY <2>1, <2>3, <2>6
<1>5. SumFunctionOnSet(h, T) = SumFunctionOnSet(g, S)
  <2>. HIDE DEF S, T, g, h, f
  <2>. QED BY <1>1, <1>3, <1>4, SumRenamed
<1>6. SumOfTotals(PricedLines(menus, datas)) = SumFunctionOnSet(h, T)
  <2>1. DOMAIN PricedLines(menus, datas) = T
    BY DEF PricedLines
  <2>2. [i \in DOMAIN PricedLines(menus, datas) |-> PricedLines(menus, datas)[i].total] = h
    BY <2>1 DEF PricedLines
  <2>. HIDE DEF h
  <2>3. SumOfTotals(PricedLines(menus, datas)) = SumFunction(h)
    BY <2>2 DEF SumOfTotals
  <2>4. DOMAIN h = T
    BY DEF h
  <2>. QED BY <2>3, <2>4 DEF SumFunction
<1>7. TotalPrice(menus, datas) = SumFunctionOnSet(g, S)
  BY DEF TotalPrice, SumFunction
<1>. QED BY <1>5, <1>6, <1>7

-------------------------------------------------------------------------------
(* The rows.  A transaction that has written its header has the lines that *)
(* the loop went through, with the id of that header, which no other       *)
(* transaction has; a rollback takes all of them away.  Readers see the    *)
(* rows of exactly the transactions whose COMMIT was applied.              *)

\* One row for each of the first n lines of a basket.
AreRows(rows, id, datas, n) ==
  /\ \A i \in 1..n : \E d \in rows : IsRow(d, id, datas, i)
  /\ \A d \in rows : \E i \in 1..n : IsRow(d, id, datas, i)
  /\ \A d, e \in rows : d.no = e.no => d = e

Filled == {"pay", "paying"} \cup Paid
Early  == Unposted \cup {"paying", "insertTh"}

HeaderWritten(r) == txn[r].th # {}

RowsOK(r) ==
  /\ pc[r] \in Filled \/ HeaderWritten(r) =>
       /\ AllPriced(call[r].menus, call[r].datas)
       /\ call[r].total = SumOfTotals(call[r].datas)
  /\ pc[r] \in Early => call[r].line = 1
  /\ ~ HeaderWritten(r) => txn[r].td = {}
  /\ HeaderWritten(r) =>
       /\ call[r].id < nextId
       /\ \A h \in txn[r].th : h.id = call[r].id /\ h.total \in Cents(call[r].total)
       /\ AreRows(txn[r].td, call[r].id, call[r].datas, call[r].line - 1)
       /\ call[r].line <= Len(call[r].datas) + 1
  /\ txn[r].commit # "none" => call[r].line = Len(call[r].datas) + 1

IdsDiffer ==
  \A r, s \in Requests :
    HeaderWritten(r) /\ HeaderWritten(s) /\ call[r].id = call[s].id => r = s

VisibleLines ==
  /\ \A d \in td : \E r \in Requests : txn[r].commit = "applied" /\ d \in txn[r].td
  /\ \A r \in Requests : txn[r].commit = "applied" => txn[r].td \subseteq td

OInv ==
  /\ \A r \in Requests : RowsOK(r)
  /\ IdsDiffer
  /\ VisibleLines

LEMMA RowAdded ==
  ASSUME NEW rows, NEW id, NEW datas, NEW n \in Nat \ {0}, AreRows(rows, id, datas, n - 1),
         NEW d, IsRow(d, id, datas, n)
  PROVE  AreRows(rows \cup {d}, id, datas, n)
<1>1. 1..n = (1..(n - 1)) \cup {n} /\ n \notin 1..(n - 1)
  OBVIOUS
<1>2. \A e \in rows : e.no # d.no
  <2>. SUFFICES ASSUME NEW e \in rows PROVE e.no # d.no
    OBVIOUS
  <2>1. PICK i \in 1..(n - 1) : IsRow(e, id, datas, i)
    BY DEF AreRows
  <2>. QED BY <1>1, <2>1 DEF IsRow
<1>. QED BY <1>1, <1>2 DEF AreRows

LEMMA InitRows == Init => OInv
<1>. SUFFICES ASSUME Init PROVE OInv
  OBVIOUS
<1>1. \A r \in Requests : RowsOK(r)
  BY DEF Init, RowsOK, HeaderWritten, NoCall, NoTxn, Filled, Paid
<1>2. IdsDiffer /\ VisibleLines
  BY DEF Init, IdsDiffer, VisibleLines, HeaderWritten, NoTxn
<1>. QED BY <1>1, <1>2 DEF OInv

\* A call whose rows and local variables stay as they are.
LEMMA OtherRowsKept ==
  ASSUME TInv, TInv', NEW s \in Requests, RowsOK(s),
         call'[s] = call[s], txn'[s] = txn[s], nextId <= nextId',
         pc'[s] \in Filled => pc[s] \in Filled,
         pc'[s] \in Early => pc[s] \in Early
  PROVE  RowsOK(s)'
<1>1. call[s].id \in Nat /\ nextId \in Nat /\ nextId' \in Nat
  BY DEF TInv, LocalsOK, TablesOK, CallType
<1>. QED BY <1>1 DEF RowsOK, HeaderWritten

\* Steps that touch no row and no local variable.
LEMMA RowsLeftAlone ==
  ASSUME TInv, TInv', OInv, UNCHANGED <<call, txn, nextId, td>>,
         \A s \in Requests : /\ pc'[s] \in Filled => pc[s] \in Filled
                             /\ pc'[s] \in Early => pc[s] \in Early
  PROVE  OInv'
<1>1. \A s \in Requests : RowsOK(s)'
  <2>1. nextId <= nextId'
    BY DEF TInv, TablesOK
  <2>. QED BY <2>1, OtherRowsKept DEF OInv
<1>2. IdsDiffer' /\ VisibleLines'
  BY DEF OInv, IdsDiffer, VisibleLines, HeaderWritten
<1>. QED BY <1>1, <1>2 DEF OInv

\* An early return takes the header and the lines away together.
LEMMA AbortKeepsRows ==
  ASSUME IInv, TInv', OInv, NEW r \in Requests, NEW status, Abort(r, status),
         txn[r].commit = "none"
  PROVE  OInv'
<1>. USE DEF IInv, TInv, LocalsOK, TablesOK, OInv
<1>1. pc'[r] = "done" /\ txn'[r] = NoTxn /\ UNCHANGED <<call, nextId, td>>
  BY DEF Abort, Finish
<1>2. ASSUME NEW s \in Requests, s # r PROVE pc'[s] = pc[s] /\ txn'[s] = txn[s]
  BY <1>2 DEF Abort, Finish
<1>3. ASSUME NEW s \in Requests PROVE RowsOK(s)'
  <2>1. CASE s = r
    BY <1>1, <2>1 DEF RowsOK, HeaderWritten, NoTxn, Filled, Paid, Early, Unposted
  <2>2. CASE s # r
    <3>1. nextId <= nextId'
      BY <1>1
    <3>. QED BY <1>1, <1>2, <2>2, <3>1, OtherRowsKept
  <2>. QED BY <2>1, <2>2
<1>4. IdsDiffer'
  BY <1>1, <1>2 DEF IdsDiffer, HeaderWritten, NoTxn
<1>5. VisibleLines'
  BY <1>1, <1>2 DEF VisibleLines, NoTxn
<1>. QED BY <1>3, <1>4, <1>5

LEMMA NextRows == IInv /\ OInv /\ [Next]_vars => OInv'
<1>. SUFFICES ASSUME IInv, OInv, [Next]_vars PROVE OInv'
  OBVIOUS
<1>0. TInv'
  BY NextTypes DEF IInv
<1>. USE <1>0 DEF IInv, TInv, LocalsOK, TablesOK, OInv
<1>1. CASE UNCHANGED vars
  BY <1>1, RowsLeftAlone DEF vars, locals, db
<1>2. ASSUME NEW r \in Requests, NEW datas \in Baskets, Accept(r, datas) PROVE OInv'
  <2>0. /\ pc[r] = "idle" /\ pc'[r] = "begin" /\ call'[r].line = call[r].line
        /\ UNCHANGED <<txn, nextId, td>>
    BY <1>2 DEF Accept, Goto, db, CallType
  <2>1. txn[r].th = {} /\ txn[r].commit = "none"
    BY <2>0 DEF PaymentOK, CommitOK, Unposted
  <2>2. ASSUME NEW s \in Requests, s # r PROVE pc'[s] = pc[s] /\ call'[s] = call[s]
    BY <1>2, <2>2 DEF Accept, Goto
  <2>3. ASSUME NEW s \in Requests PROVE RowsOK(s)'
    <3>1. CASE s = r
      BY <2>0, <2>1, <3>1 DEF RowsOK, HeaderWritten, Filled, Paid, Early, Unposted
    <3>2. CASE s # r
      BY <2>0, <2>2, <3>2, OtherRowsKept
    <3>. QED BY <3>1, <3>2
  <2>4. IdsDiffer'
    BY <2>0, <2>1, <2>2 DEF IdsDiffer, HeaderWritten
  <2>5. VisibleLines'
    BY <2>0 DEF VisibleLines
  <2>. QED BY <2>3, <2>4, <2>5
<1>3. ASSUME NEW r \in Requests,
             Refuse(r) \/ Begin(r) \/ BeginFails(r) \/ PostPayment(r) \/ PaymentConfirmed(r)
             \/ CommitAcked(r) \/ CommitFails(r) \/ WalletDebits(r) \/ WalletRefuses(r)
      PROVE  OInv'
  <2>1. UNCHANGED <<call, txn, nextId, td>>
    BY <1>3 DEF Refuse, Begin, BeginFails, PostPayment, PaymentConfirmed, CommitAcked,
                CommitFails, WalletDebits, WalletRefuses, locals, db
  <2>2. ASSUME NEW s \in Requests
        PROVE  /\ pc'[s] \in Filled => pc[s] \in Filled
               /\ pc'[s] \in Early => pc[s] \in Early
    BY <1>3 DEF Refuse, Begin, BeginFails, PostPayment, PaymentConfirmed, CommitAcked,
                CommitFails, WalletDebits, WalletRefuses, Goto, Finish, locals, Filled, Paid,
                Early, Unposted
  <2>. QED BY <2>1, <2>2, RowsLeftAlone
<1>4. ASSUME NEW r \in Requests, MenusAnswered(r) PROVE OInv'
  <2>0. PICK menus \in MenuAnswers(call[r].datas) :
          /\ Cardinality(menus) = Len(call[r].datas)
          /\ call' = [call EXCEPT ![r].menus = menus,
                                  ![r].total = TotalPrice(menus, call[r].datas),
                                  ![r].datas = PricedLines(menus, call[r].datas)]
    BY <1>4 DEF MenusAnswered
  <2>1. /\ pc[r] = "menus" /\ pc'[r] = "pay" /\ call'[r].line = call[r].line
        /\ call'[r].menus = menus /\ call'[r].datas = PricedLines(menus, call[r].datas)
        /\ call'[r].total = TotalPrice(menus, call[r].datas)
        /\ UNCHANGED <<txn, nextId, td>>
    BY <1>4, <2>0 DEF MenusAnswered, Goto, db, CallType
  <2>2. txn[r].th = {} /\ txn[r].commit = "none"
    BY <2>1 DEF PaymentOK, CommitOK, Unposted
  <2>3. /\ AllPriced(call'[r].menus, call'[r].datas)
        /\ call'[r].total = SumOfTotals(call'[r].datas)
    BY <2>0, <2>1, FilledInByMasterData, TotalsAddUp DEF CallType
  <2>4. ASSUME NEW s \in Requests, s # r PROVE pc'[s] = pc[s] /\ call'[s] = call[s]
    BY <1>4, <2>0, <2>4 DEF MenusAnswered, Goto
  <2>5. ASSUME NEW s \in Requests PROVE RowsOK(s)'
    <3>1. CASE s = r
      BY <2>1, <2>2, <2>3, <3>1 DEF RowsOK, HeaderWritten, Early, Unposted
    <3>2. CASE s # r
      BY <2>1, <2>4, <3>2, OtherRowsKept
    <3>. QED BY <3>1, <3>2
  <2>6. IdsDiffer'
    BY <2>1, <2>2, <2>4 DEF IdsDiffer, HeaderWritten
  <2>7. VisibleLines'
    BY <2>1 DEF VisibleLines
  <2>. QED BY <2>5, <2>6, <2>7
<1>5. ASSUME NEW r \in Requests,
             MenusMissing(r) \/ MenusFail(r) \/ PaymentRefused(r) \/ PaymentFails(r)
               \/ InsertFails(r)
      PROVE  OInv'
  <2>1. \E status : Abort(r, status)
    BY <1>5 DEF MenusMissing, MenusFail, PaymentRefused, PaymentFails, InsertFails
  <2>2. txn[r].commit = "none"
    BY <1>5 DEF MenusMissing, MenusFail, PaymentRefused, PaymentFails, InsertFails, CommitOK
  <2>. QED BY <2>1, <2>2, AbortKeepsRows
<1>6. ASSUME NEW r \in Requests, InsertTh(r) PROVE OInv'
  <2>h. PICK h \in HeaderRows(r) : txn' = [txn EXCEPT ![r].th = {h}]
    BY <1>6 DEF InsertTh
  <2>0. /\ pc[r] = "insertTh" /\ pc'[r] = "insertTd" /\ nextId' = nextId + 1 /\ td' = td
        /\ txn'[r].th = {h} /\ h.id = nextId /\ h.total \in Cents(call[r].total)
        /\ txn'[r].td = txn[r].td /\ txn'[r].commit = txn[r].commit
        /\ call'[r].id = nextId /\ call'[r].line = call[r].line /\ call'[r].total = call[r].total
        /\ call'[r].menus = call[r].menus /\ call'[r].datas = call[r].datas
    <3>1. h.id = nextId /\ h.total \in Cents(call[r].total)
      BY HeadersType
    <3>2. /\ txn'[r].th = {h} /\ txn'[r].td = txn[r].td /\ txn'[r].commit = txn[r].commit
      BY <2>h DEF TxnType
    <3>3. call[r] \in CallType /\ call' = [call EXCEPT ![r].id = nextId]
      BY <1>6 DEF InsertTh
    <3>4. /\ call'[r].id = nextId /\ call'[r].line = call[r].line
          /\ call'[r].total = call[r].total
          /\ call'[r].menus = call[r].menus /\ call'[r].datas = call[r].datas
      BY <3>3 DEF CallType
    <3>. QED BY <1>6, <3>1, <3>2, <3>4 DEF InsertTh, Goto
  <2>1. ASSUME NEW s \in Requests, s # r
        PROVE  pc'[s] = pc[s] /\ call'[s] = call[s] /\ txn'[s] = txn[s]
    BY <1>6, <2>1 DEF InsertTh, Goto
  <2>2. /\ txn[r].th = {} /\ txn[r].td = {} /\ txn[r].commit = "none" /\ call[r].line = 1
        /\ AllPriced(call[r].menus, call[r].datas) /\ call[r].total = SumOfTotals(call[r].datas)
    BY <2>0 DEF PaymentOK, CommitOK, RowsOK, HeaderWritten, Unposted, Early, Filled, Paid
  <2>3. ASSUME NEW s \in Requests PROVE RowsOK(s)'
    <3>1. CASE s = r
      <4>1. AreRows(txn'[r].td, call'[r].id, call'[r].datas, call'[r].line - 1)
        BY <2>0, <2>2 DEF AreRows
      <4>2. nextId < nextId' /\ 1 <= Len(call'[r].datas) + 1
        BY <2>0 DEF CallType
      <4>. QED BY <2>0, <2>2, <3>1, <4>1, <4>2
               DEF RowsOK, HeaderWritten, Early, Unposted
    <3>2. CASE s # r
      BY <2>0, <2>1, <3>2, OtherRowsKept
    <3>. QED BY <3>1, <3>2
  <2>4. IdsDiffer'
    <3>1. ASSUME NEW s \in Requests, s # r, HeaderWritten(s)' PROVE call'[s].id # call'[r].id
      <4>1. call'[s].id < nextId /\ call'[s].id \in Nat
        BY <2>1, <3>1 DEF RowsOK, HeaderWritten, CallType
      <4>. QED BY <2>0, <4>1
    <3>. QED BY <2>1, <3>1 DEF IdsDiffer, HeaderWritten
  <2>5. VisibleLines'
    BY <2>0, <2>1, <2>2 DEF VisibleLines
  <2>. QED BY <2>3, <2>4, <2>5
<1>7. ASSUME NEW r \in Requests, InsertTd(r) PROVE OInv'
  <2>d. PICK d \in LineRows(r) : txn' = [txn EXCEPT ![r].td = @ \cup {d}]
    BY <1>7 DEF InsertTd
  <2>0. /\ pc[r] = "insertTd" /\ pc' = pc /\ call[r].line <= Len(call[r].datas)
        /\ nextId' = nextId /\ td' = td
        /\ txn'[r].th = txn[r].th /\ txn'[r].commit = txn[r].commit
        /\ txn'[r].td = txn[r].td \cup {d}
        /\ call'[r].id = call[r].id /\ call'[r].line = call[r].line + 1
        /\ call'[r].total = call[r].total
        /\ call'[r].menus = call[r].menus /\ call'[r].datas = call[r].datas
    BY <1>7, <2>d DEF InsertTd, CallType, TxnType
  <2>1. ASSUME NEW s \in Requests, s # r PROVE call'[s] = call[s] /\ txn'[s] = txn[s]
    BY <1>7, <2>1 DEF InsertTd
  <2>2. HeaderWritten(r) /\ txn[r].commit = "none"
    BY <2>0 DEF CommitOK, HeaderWritten
  <2>3. ASSUME NEW s \in Requests PROVE RowsOK(s)'
    <3>1. CASE s = r
      <4>1. call[r].line \in Nat \ {0} /\ Len(call[r].datas) \in Nat
        BY DEF CallType
      <4>2. AreRows(txn'[r].td, call[r].id, call[r].datas, call[r].line)
        <5>1. call[r].line \in 1..Len(call[r].datas)
          BY <2>0, <4>1
        <5>2. call[r].datas[call[r].line] \in Data
          BY <5>1 DEF CallType
        <5>3. IsRow(d, call[r].id, call[r].datas, call[r].line)
          BY <5>2, LinesType
        <5>4. AreRows(txn[r].td, call[r].id, call[r].datas, call[r].line - 1)
          BY <2>2 DEF RowsOK
        <5>. QED BY <2>0, <4>1, <5>3, <5>4, RowAdded
      <4>4. call'[r].line - 1 = call[r].line
        BY <2>0, <4>1
      <4>3. call'[r].line <= Len(call'[r].datas) + 1
        BY <2>0, <4>1
      <4>. QED BY <2>0, <2>2, <3>1, <4>2, <4>3, <4>4
               DEF RowsOK, HeaderWritten, Filled, Paid, Early, Unposted
    <3>2. CASE s # r
      BY <2>0, <2>1, <3>2, OtherRowsKept
    <3>. QED BY <3>1, <3>2
  <2>4. IdsDiffer'
    <3>1. \A s \in Requests : call'[s].id = call[s].id /\ txn'[s].th = txn[s].th
      BY <2>0, <2>1
    <3>. QED BY <3>1 DEF IdsDiffer, HeaderWritten
  <2>5. VisibleLines'
    BY <2>0, <2>1, <2>2 DEF VisibleLines
  <2>. QED BY <2>3, <2>4, <2>5
<1>8. ASSUME NEW r \in Requests, SendCommit(r) PROVE OInv'
  <2>0. /\ pc[r] = "insertTd" /\ pc'[r] = "committing" /\ call[r].line > Len(call[r].datas)
        /\ txn'[r].th = txn[r].th /\ txn'[r].td = txn[r].td /\ txn'[r].commit = "sent"
        /\ UNCHANGED <<call, nextId, td>>
    BY <1>8 DEF SendCommit, Goto, TxnType
  <2>1. ASSUME NEW s \in Requests, s # r PROVE pc'[s] = pc[s] /\ txn'[s] = txn[s]
    BY <1>8, <2>1 DEF SendCommit, Goto
  <2>2. HeaderWritten(r) /\ txn[r].commit = "none"
    BY <2>0 DEF CommitOK, HeaderWritten
  <2>3. ASSUME NEW s \in Requests PROVE RowsOK(s)'
    <3>1. CASE s = r
      <4>1. call[r].line \in Nat /\ Len(call[r].datas) \in Nat
        BY DEF CallType
      <4>2. call[r].line = Len(call[r].datas) + 1
        BY <2>0, <2>2, <4>1 DEF RowsOK
      <4>. QED BY <2>0, <2>2, <3>1, <4>2
               DEF RowsOK, HeaderWritten, Filled, Paid, Early, Unposted
    <3>2. CASE s # r
      BY <2>0, <2>1, <3>2, OtherRowsKept
    <3>. QED BY <3>1, <3>2
  <2>4. IdsDiffer'
    <3>1. \A s \in Requests : txn'[s].th = txn[s].th
      BY <2>0, <2>1
    <3>. QED BY <2>0, <3>1 DEF IdsDiffer, HeaderWritten
  <2>5. VisibleLines'
    BY <2>0, <2>1, <2>2 DEF VisibleLines
  <2>. QED BY <2>3, <2>4, <2>5
<1>9. ASSUME NEW r \in Requests, CommitApplies(r) PROVE OInv'
  <2>0. /\ txn[r].commit = "sent" /\ td' = td \cup txn[r].td
        /\ txn'[r].th = txn[r].th /\ txn'[r].td = txn[r].td /\ txn'[r].commit = "applied"
        /\ UNCHANGED <<pc, call, nextId>>
    BY <1>9 DEF CommitApplies, TxnType, locals
  <2>1. ASSUME NEW s \in Requests, s # r PROVE txn'[s] = txn[s]
    BY <1>9, <2>1 DEF CommitApplies
  <2>3. ASSUME NEW s \in Requests PROVE RowsOK(s)'
    <3>1. CASE s = r
      BY <2>0, <3>1 DEF RowsOK, HeaderWritten
    <3>2. CASE s # r
      BY <2>0, <2>1, <3>2, OtherRowsKept
    <3>. QED BY <3>1, <3>2
  <2>4. IdsDiffer'
    <3>1. \A s \in Requests : txn'[s].th = txn[s].th
      BY <2>0, <2>1
    <3>. QED BY <2>0, <3>1 DEF IdsDiffer, HeaderWritten
  <2>5. VisibleLines'
    BY <2>0, <2>1 DEF VisibleLines
  <2>. QED BY <2>3, <2>4, <2>5
<1>10. ASSUME Crash PROVE OInv'
  <2>0. /\ pc' = [r \in Requests |-> IF pc[r] \in Active THEN "lost" ELSE pc[r]]
        /\ txn' = [r \in Requests |-> IF txn[r].commit = "none" THEN NoTxn ELSE txn[r]]
        /\ UNCHANGED <<call, nextId, td>>
    BY <1>10 DEF Crash
  <2>1. ASSUME NEW s \in Requests PROVE RowsOK(s)'
    <3>1. /\ pc'[s] \in Filled => pc[s] \in Filled
          /\ pc'[s] \in Early => pc[s] \in Early
      BY <2>0 DEF Filled, Paid, Early, Unposted, Active, InTransaction
    <3>2. CASE txn[s].commit = "none"
      BY <2>0, <3>1, <3>2 DEF RowsOK, HeaderWritten, NoTxn
    <3>3. CASE txn[s].commit # "none"
      BY <2>0, <3>1, <3>3, OtherRowsKept
    <3>. QED BY <3>2, <3>3
  <2>2. IdsDiffer'
    BY <2>0 DEF IdsDiffer, HeaderWritten, NoTxn
  <2>3. VisibleLines'
    BY <2>0 DEF VisibleLines, NoTxn
  <2>. QED BY <2>1, <2>2, <2>3
<1>. QED
  BY <1>1, <1>2, <1>3, <1>4, <1>5, <1>6, <1>7, <1>8, <1>9, <1>10 DEF Next, Handler, Terminating

LEMMA OInvHolds == Spec => [](IInv /\ OInv)
<1>1. Init => IInv /\ OInv
  BY InitInvariant, InitRows
<1>2. (IInv /\ OInv) /\ [Next]_vars => (IInv /\ OInv)'
  BY NextInvariant, NextRows
<1>. QED BY <1>1, <1>2, PTL DEF Spec

-------------------------------------------------------------------------------
(* What a reader sees.                                                     *)

\* The lines of a visible header are those its own transaction wrote, one for each
\* item of the basket.
LEMMA VisibleLinesOfHeader ==
  ASSUME IInv, OInv, NEW h \in th
  PROVE  /\ h.by \in Requests /\ h.id = call[h.by].id
         /\ AreRows(LinesOf(h), h.id, call[h.by].datas, Len(call[h.by].datas))
         /\ AllPriced(call[h.by].menus, call[h.by].datas)
         /\ h.total \in Cents(SumOfTotals(call[h.by].datas))
         /\ call[h.by].total = SumOfTotals(call[h.by].datas) /\ call[h.by].total \in Nat
         /\ call[h.by].datas \in Seq(Data) /\ call[h.by].menus \subseteq Menu
         /\ LinesOf(h) \subseteq LineType
<1>. DEFINE r == h.by
<1>1. r \in Requests /\ h \in txn[r].th /\ HeaderWritten(r)
  BY VisibleHeader DEF HeaderWritten
<1>2. txn[r].commit = "applied"
  <2>1. h \in OrdersOf(r)
    BY DEF OrdersOf
  <2>. QED BY <1>1, <2>1 DEF IInv, CommitOK
<1>4. /\ call[r].datas \in Seq(Data) /\ Len(call[r].datas) \in Nat /\ call[r].total \in Nat
      /\ call[r].menus \subseteq Menu /\ td \subseteq LineType
  BY <1>1 DEF IInv, TInv, LocalsOK, TablesOK, CallType
<1>3. /\ h.id = call[r].id /\ AreRows(txn[r].td, h.id, call[r].datas, Len(call[r].datas))
      /\ AllPriced(call[r].menus, call[r].datas) /\ txn[r].td \subseteq td
      /\ h.total \in Cents(SumOfTotals(call[r].datas))
      /\ call[r].total = SumOfTotals(call[r].datas)
  <2>1. /\ RowsOK(r) /\ call[r].line - 1 = Len(call[r].datas)
    BY <1>1, <1>2, <1>4 DEF OInv, RowsOK
  <2>. QED BY <1>1, <1>2, <2>1 DEF OInv, RowsOK, VisibleLines
<1>5. LinesOf(h) \subseteq txn[r].td
  <2>. SUFFICES ASSUME NEW d \in td, d.ref = h.id PROVE d \in txn[r].td
    BY DEF LinesOf
  <2>1. PICK s \in Requests : txn[s].commit = "applied" /\ d \in txn[s].td
    BY DEF OInv, VisibleLines
  <2>2. HeaderWritten(s) /\ AreRows(txn[s].td, call[s].id, call[s].datas, call[s].line - 1)
    BY <2>1 DEF OInv, RowsOK, HeaderWritten
  <2>3. d.ref = call[s].id
    BY <2>1, <2>2 DEF AreRows, IsRow
  <2>4. s = r
    BY <1>1, <1>3, <2>2, <2>3 DEF OInv, IdsDiffer
  <2>. QED BY <2>1, <2>4
<1>6. txn[r].td \subseteq LinesOf(h)
  BY <1>3 DEF LinesOf, AreRows, IsRow
<1>7. LinesOf(h) = txn[r].td /\ LinesOf(h) \subseteq LineType
  BY <1>4, <1>5, <1>6 DEF LinesOf
<1>. QED BY <1>1, <1>3, <1>4, <1>7

\* Every line of a basket has its own row, so there are as many rows as lines.
LEMMA AsManyRows ==
  ASSUME NEW rows, NEW id, NEW datas, NEW n \in Nat, AreRows(rows, id, datas, n)
  PROVE  /\ \E f \in Bijection(1..n, rows) : \A i \in 1..n : IsRow(f[i], id, datas, i)
         /\ IsFiniteSet(rows) /\ Cardinality(rows) = n
<1>. DEFINE row(i) == CHOOSE d \in rows : d.no = i
           f == [i \in 1..n |-> row(i)]
<1>1. ASSUME NEW i \in 1..n
      PROVE  row(i) \in rows /\ row(i).no = i /\ IsRow(row(i), id, datas, i)
  <2>1. PICK d \in rows : IsRow(d, id, datas, i)
    BY DEF AreRows
  <2>2. row(i) \in rows /\ row(i).no = i
    BY <2>1 DEF IsRow
  <2>3. row(i) = d
    <3>. HIDE DEF row
    <3>. QED BY <2>1, <2>2 DEF AreRows, IsRow
  <2>. QED BY <2>1, <2>2, <2>3
<1>2. ASSUME NEW d \in rows PROVE \E i \in 1..n : row(i) = d
  <2>1. PICK i \in 1..n : IsRow(d, id, datas, i)
    BY DEF AreRows
  <2>. HIDE DEF row
  <2>2. row(i) = d
    BY <1>1, <2>1 DEF AreRows, IsRow
  <2>. QED BY <2>2
<1>3. f \in Bijection(1..n, rows)
  <2>. HIDE DEF row
  <2>1. \A i, j \in 1..n : row(i) = row(j) => i = j
    BY <1>1
  <2>. QED BY <1>1, <1>2, <2>1 DEF Bijection, Injection, Surjection, IsInjective
<1>4. IsFiniteSet(1..n) /\ Cardinality(1..n) = n
  BY FS_Interval
<1>5. IsFiniteSet(rows) /\ Cardinality(rows) = n
  <2>. HIDE DEF f
  <2>1. f \in Surjection(1..n, rows) /\ f \in Injection(1..n, rows)
    BY <1>3 DEF Bijection
  <2>. QED BY <1>4, <2>1, FS_Surjection
<1>6. \A i \in 1..n : IsRow(f[i], id, datas, i)
  <2>. HIDE DEF row
  <2>. QED BY <1>1
<1>. HIDE DEF f
<1>. QED BY <1>3, <1>5, <1>6

\* Header and lines are visible together or not at all, whatever fails or crashes
\* between the inserts and the COMMIT.
THEOREM OrdersAreWhole == Spec => []AllOrNothing
<1>1. IInv /\ OInv => AllOrNothing
  <2>. SUFFICES ASSUME IInv, OInv PROVE AllOrNothing
    OBVIOUS
  <2>1. ASSUME NEW h \in th
        PROVE  /\ \A i \in DOMAIN call[h.by].datas :
                    \E d \in LinesOf(h) : d.no = i /\ d.menuId = call[h.by].datas[i].menuId
               /\ Cardinality(LinesOf(h)) = Len(call[h.by].datas)
    <3>. DEFINE r == h.by
    <3>1. /\ r \in Requests /\ Len(call[r].datas) \in Nat
          /\ AreRows(LinesOf(h), h.id, call[r].datas, Len(call[r].datas))
      BY VisibleLinesOfHeader
    <3>2. ASSUME NEW i \in DOMAIN call[r].datas
          PROVE  \E d \in LinesOf(h) : d.no = i /\ d.menuId = call[r].datas[i].menuId
      <4>1. i \in 1..Len(call[r].datas)
        BY <3>1 DEF IInv, TInv, LocalsOK, CallType
      <4>. QED BY <3>1, <4>1 DEF AreRows, IsRow
    <3>3. Cardinality(LinesOf(h)) = Len(call[r].datas)
      BY <3>1, AsManyRows
    <3>. QED BY <3>2, <3>3
  <2>2. ASSUME NEW d \in td PROVE \E h \in th : d.ref = h.id
    <3>1. PICK s \in Requests : txn[s].commit = "applied" /\ d \in txn[s].td
      BY DEF OInv, VisibleLines
    <3>2. PICK h \in HeaderType : txn[s].th = {h} /\ h \in OrdersOf(s)
      BY <3>1 DEF IInv, CommitOK
    <3>3. AreRows(txn[s].td, call[s].id, call[s].datas, call[s].line - 1) /\ h.id = call[s].id
      BY <3>1, <3>2 DEF OInv, RowsOK, HeaderWritten
    <3>. QED BY <3>1, <3>2, <3>3 DEF AreRows, IsRow, OrdersOf
  <2>. QED BY <2>1, <2>2 DEF AllOrNothing
<1>. QED BY <1>1, OInvHolds, PTL

\* What a line costs is what master data quoted for its menu, whatever the client
\* filled in: a basket that master data cannot price completely goes no further.
THEOREM QuotedPricesOnly == Spec => []PricedByMasterData
<1>1. IInv /\ OInv => PricedByMasterData
  <2>. SUFFICES ASSUME IInv, OInv, NEW h \in th, NEW d \in LinesOf(h)
                PROVE  \E m \in call[h.by].menus :
                         /\ m.id = d.menuId
                         /\ d.price \in Cents(m.price) /\ d.total \in Cents(m.price * d.qty)
    BY DEF PricedByMasterData
  <2>. DEFINE r == h.by
  <2>1. /\ r \in Requests /\ AllPriced(call[r].menus, call[r].datas)
        /\ AreRows(LinesOf(h), h.id, call[r].datas, Len(call[r].datas))
        /\ call[r].datas \in Seq(Data)
    BY VisibleLinesOfHeader
  <2>2. PICK i \in 1..Len(call[r].datas) : IsRow(d, h.id, call[r].datas, i)
    BY <2>1 DEF AreRows
  <2>3. i \in DOMAIN call[r].datas
    BY <2>1
  <2>. QED BY <2>1, <2>2, <2>3 DEF AllPriced, PricedBy, IsRow
<1>. QED BY <1>1, OInvHolds, PTL

\* What the terms of a basket's total are, before and after they are stored.
LEMMA LinesRounded ==
  ASSUME NEW datas \in Seq(Data), NEW id, NEW rows \in SUBSET LineType,
         AreRows(rows, id, datas, Len(datas))
  PROVE  LET stored == SumFunction([d \in rows |-> d.total]) IN
         /\ stored \in Int /\ SumOfTotals(datas) \in Int
         /\ 10 * stored <= SumOfTotals(datas) + 5 * Len(datas)
         /\ SumOfTotals(datas) <= 10 * stored + 5 * Len(datas)
         /\ (\A i \in DOMAIN datas : datas[i].total % 10 = 0) => SumOfTotals(datas) = 10 * stored
<1>0. PICK f \in Bijection(1..Len(datas), rows) :
        \A i \in 1..Len(datas) : IsRow(f[i], id, datas, i)
  BY AsManyRows
<1>. DEFINE S == 1..Len(datas)
           g == [i \in S |-> datas[i].total]
           h == [i \in S |-> f[i].total]
           e == [d \in rows |-> d.total]
<1>1. IsFiniteSet(S) /\ Cardinality(S) = Len(datas)
  <2>1. Len(datas) \in Nat
    OBVIOUS
  <2>2. \A n \in Nat : IsFiniteSet(1..n) /\ Cardinality(1..n) = n
    BY FS_Interval
  <2>. QED BY <2>1, <2>2
<1>2. f \in Bijection(S, rows) /\ \A i \in S : f[i] \in rows
  BY <1>0 DEF Bijection, Injection
<1>3. ASSUME NEW i \in S
      PROVE  /\ g[i] \in Int /\ h[i] \in Int
             /\ 10 * h[i] <= g[i] + 5 /\ g[i] <= 10 * h[i] + 5
             /\ datas[i].total % 10 = 0 => g[i] = 10 * h[i]
             /\ e[f[i]] = h[i]
  <2>1. datas[i] \in Data /\ f[i] \in LineType
    BY <1>2
  <2>2. datas[i].total \in Nat /\ f[i].total \in Nat
    BY <2>1 DEF Data, LineType
  <2>3. f[i].total \in Cents(datas[i].total)
    BY <1>0 DEF IsRow
  <2>. QED BY <1>2, <2>2, <2>3, CentsRounded
<1>4. SumFunctionOnSet(e, rows) = SumFunctionOnSet(h, S)
  <2>. HIDE DEF S, g, h, e
  <2>. QED BY <1>1, <1>2, <1>3, SumRenamed
<1>5. LET g_sum == SumFunctionOnSet(g, S)
          h_sum == SumFunctionOnSet(h, S) IN
      /\ g_sum \in Int /\ h_sum \in Int /\ Cardinality(S) \in Nat
      /\ 10 * h_sum <= g_sum + 5 * Cardinality(S)
      /\ g_sum <= 10 * h_sum + 5 * Cardinality(S)
      /\ (\A i \in S : g[i] = 10 * h[i]) => g_sum = 10 * h_sum
  <2>. HIDE DEF S, g, h, e
  <2>. QED BY <1>1, <1>3, SumRounded
<1>6. SumOfTotals(datas) = SumFunctionOnSet(g, S)
  <2>1. DOMAIN datas = S
    OBVIOUS
  <2>. QED BY <2>1 DEF SumOfTotals, SumFunction
<1>7. SumFunction(e) = SumFunctionOnSet(e, rows)
  BY DEF SumFunction
<1>8. ASSUME \A i \in DOMAIN datas : datas[i].total % 10 = 0
      PROVE  \A i \in S : g[i] = 10 * h[i]
  <2>1. DOMAIN datas = S
    OBVIOUS
  <2>. HIDE DEF S, g, h
  <2>. QED BY <1>3, <1>8, <2>1
<1>. HIDE DEF S, g, h
<1>. QED BY <1>1, <1>4, <1>5, <1>6, <1>7, <1>8

\* The header and the sum of its lines are apart by what rounding explains, and by
\* nothing if the prices are whole cents, though calculateTotalPriceMenu adds up the
\* one and overwrites the others.
THEOREM TotalsAgree == Spec => []TotalIsSumOfLines
<1>1. IInv /\ OInv => TotalIsSumOfLines
  <2>. SUFFICES ASSUME IInv, OInv, NEW h \in th
                PROVE  LET roundings == Cardinality(LinesOf(h)) + 1 IN
                       /\ TwiceTheGap(h) <= roundings /\ - TwiceTheGap(h) <= roundings
                       /\ (\A m \in call[h.by].menus : m.price % 10 = 0) => TwiceTheGap(h) = 0
    BY DEF TotalIsSumOfLines
  <2>. DEFINE datas == call[h.by].datas
             sum == SumOfTotals(datas)
             stored == SumFunction([d \in LinesOf(h) |-> d.total])
  <2>1. /\ AreRows(LinesOf(h), h.id, datas, Len(datas)) /\ datas \in Seq(Data)
        /\ AllPriced(call[h.by].menus, datas) /\ call[h.by].menus \subseteq Menu
        /\ h.total \in Cents(sum) /\ sum \in Nat /\ LinesOf(h) \subseteq LineType
    BY VisibleLinesOfHeader
  <2>2. Cardinality(LinesOf(h)) = Len(datas) /\ Len(datas) \in Nat
    <3>1. Len(datas) \in Nat
      BY <2>1
    <3>. HIDE DEF datas
    <3>. QED BY <2>1, <3>1, AsManyRows
  <2>3. /\ stored \in Int
        /\ 10 * stored <= sum + 5 * Len(datas) /\ sum <= 10 * stored + 5 * Len(datas)
        /\ (\A i \in DOMAIN datas : datas[i].total % 10 = 0) => sum = 10 * stored
    BY <2>1, LinesRounded
  <2>4. h.total \in Nat /\ 10 * h.total <= sum + 5 /\ sum <= 10 * h.total + 5
    BY <2>1, CentsRounded
  <2>5. ASSUME \A m \in call[h.by].menus : m.price % 10 = 0, NEW i \in DOMAIN datas
        PROVE  datas[i].total % 10 = 0
    <3>1. PICK m \in call[h.by].menus : datas[i].total = m.price * datas[i].qty
      BY <2>1 DEF AllPriced, PricedBy
    <3>2. m.price \in Nat /\ m.price % 10 = 0 /\ datas[i] \in Data
      <4>1. m \in Menu /\ datas[i] \in Data
        BY <2>1
      <4>2. m.price \in Nat
        BY <4>1 DEF Menu
      <4>. QED BY <2>5, <4>1, <4>2
    <3>3. datas[i].qty \in Nat
      BY <3>2 DEF Data
    <3>. QED BY <3>1, <3>2, <3>3, MultiplesOfTen
  <2>6. TwiceTheGap(h) = 2 * h.total - 2 * stored
    BY DEF TwiceTheGap
  <2>7. (\A m \in call[h.by].menus : m.price % 10 = 0) => sum = 10 * stored
    BY <2>3, <2>5
  <2>. HIDE DEF datas, sum, stored
  <2>8. /\ TwiceTheGap(h) <= Len(datas) + 1 /\ - TwiceTheGap(h) <= Len(datas) + 1
        /\ sum = 10 * stored => TwiceTheGap(h) = 0
    <3>1. PICK n \in Nat : n = Len(datas)
      BY <2>2
    <3>2. sum \in Nat
      BY <2>1
    <3>3. PICK t \in Nat : t = h.total
      BY <2>4
    <3>4. TwiceTheGap(h) = 2 * t - 2 * stored
      BY <2>6, <3>3
    <3>5. /\ stored \in Int /\ 10 * stored <= sum + 5 * n /\ sum <= 10 * stored + 5 * n
          /\ 10 * t <= sum + 5 /\ sum <= 10 * t + 5
      BY <2>3, <2>4, <3>1, <3>3
    <3>6. /\ 2 * t - 2 * stored <= n + 1 /\ - (2 * t - 2 * stored) <= n + 1
          /\ sum = 10 * stored => 2 * t - 2 * stored = 0
      BY <3>2, <3>5
    <3>. QED BY <3>1, <3>4, <3>6
  <2>. QED BY <2>2, <2>7, <2>8
<1>. QED BY <1>1, OInvHolds, PTL

-------------------------------------------------------------------------------
(* The refinement of OrderBook.  The debit of the wallet is a Charge, the  *)
(* step in which Postgres applies a COMMIT is a Place, the end of a        *)
(* handler is an Answer, and nothing else is seen from outside.            *)

\* The order that a header stands for when the lines are those in rows.
OrderOf(h, rows) == [by |-> h.by, total |-> h.total, lines |-> {d \in rows : d.ref = h.id}]

LEMMA OrdersAsRows ==
  /\ Orders = {OrderOf(h, td) : h \in th}
  /\ Orders' = {OrderOf(h, td') : h \in th'}
BY DEF Orders, LinesOf, OrderOf

LEMMA OrdersKept == UNCHANGED <<th, td>> => Orders' = Orders
BY OrdersAsRows

LEMMA PlacedIsOrder ==
  ASSUME NEW r \in Requests
  PROVE  Book!Placed(r) <=> OrdersOf(r) # {}
<1>1. Book!Placed(r) <=> \E o \in Orders : o.by = r
  BY DEF Book!Placed
<1>2. \A h : OrderOf(h, td).by = h.by
  BY DEF OrderOf
<1>. QED BY <1>1, <1>2, OrdersAsRows DEF OrdersOf

LEMMA InitRefines == Init => Book!Init
BY DEF Init, Book!Init, Orders

\* The end of a handler, as its client sees it.
LEMMA FinishAnswers ==
  ASSUME IInv, NEW r \in Requests, NEW status \in Answers, Finish(r, status),
         pc[r] # "done", UNCHANGED <<th, td, ledger>>,
         status = "success" => txn[r].commit = "applied",
         status \in ClientErrors =>
           post[r].state \in {"none", "refused"} /\ txn[r].commit # "applied"
  PROVE  Book!Answer(r)
<1>1. answer[r] = "none" /\ answer' = [answer EXCEPT ![r] = status]
  BY DEF IInv, AnswerMeans, Finish
<1>2. status = "success" => Book!Placed(r)
  BY PlacedIsOrder DEF IInv, CommitOK
<1>3. status \in ClientErrors => ~ Book!Placed(r) /\ ledger[r] = <<>>
  BY PlacedIsOrder DEF IInv, CommitOK, PaymentOK
<1>. QED BY <1>1, <1>2, <1>3, OrdersKept
         DEF Book!Answer, Book!Answers, Book!ClientErrors, Answers, ClientErrors

\* A debit on the side of the wallet.
LEMMA DebitCharges ==
  ASSUME IInv, NEW r \in Requests, WalletDebits(r)
  PROVE  Book!Charge(r)
<1>1. ledger[r] = <<>> /\ answer[r] \notin ClientErrors
  BY DEF WalletDebits, IInv, PaymentOK, AnswerMeans
<1>2. /\ ledger' = [ledger EXCEPT ![r] = <<post[r].amount>>] /\ ledger'[r] = <<post[r].amount>>
      /\ UNCHANGED <<th, td, answer>>
  <2>1. Append(<<>>, post[r].amount) = <<post[r].amount>>
    OBVIOUS
  <2>. QED BY <1>1, <2>1 DEF WalletDebits, db, IInv, TInv, WalletOK
<1>3. Head(ledger'[r]) = post[r].amount /\ ledger'[r] # <<>>
  BY <1>2
<1>. QED BY <1>1, <1>2, <1>3, OrdersKept DEF Book!Charge, Book!ClientErrors, ClientErrors

\* The COMMIT that Postgres applies shows one more order, whole, and leaves the
\* others as they are.
LEMMA CommitPlaces ==
  ASSUME IInv, OInv, NEW r \in Requests, CommitApplies(r)
  PROVE  Book!Place(r)
<1>1. PICK h \in HeaderType : txn[r].th = {h}
  BY DEF CommitApplies, IInv, CommitOK
<1>2. /\ h.by = r /\ ledger[r] # <<>> /\ h.total \in Cents(Head(ledger[r])) /\ answer[r] \notin ClientErrors
      /\ OrdersOf(r) = {}
  <2>1. txn[r].commit = "sent" /\ OrdersOf(r) = {}
    BY DEF CommitApplies, IInv, CommitOK
  <2>2. h.by = r /\ post[r].state = "debited" /\ h.total \in Cents(post[r].amount)
    BY <1>1 DEF IInv, PaymentOK
  <2>3. ledger[r] # <<>> /\ h.total \in Cents(Head(ledger[r]))
    <3>1. ledger[r] = <<post[r].amount>>
      BY <2>2 DEF IInv, PaymentOK
    <3>2. \A amount : <<amount>> # <<>> /\ Head(<<amount>>) = amount
      OBVIOUS
    <3>. QED BY <2>2, <3>1, <3>2, Zenon
  <2>4. answer[r] \notin ClientErrors
    BY <2>2 DEF IInv, AnswerMeans
  <2>. QED BY <2>1, <2>2, <2>3, <2>4
<1>3. ASSUME NEW g \in th PROVE OrderOf(g, td') = OrderOf(g, td)
  <2>1. g.by \in Requests /\ g \in txn[g.by].th /\ g.by # r
    BY <1>2, VisibleHeader DEF OrdersOf
  <2>2. g.id = call[g.by].id /\ call[g.by].id # call[r].id
    BY <1>1, <2>1 DEF OInv, RowsOK, IdsDiffer, HeaderWritten
  <2>3. \A d \in txn[r].td : d.ref = call[r].id
    BY <1>1 DEF OInv, RowsOK, HeaderWritten, AreRows, IsRow
  <2>. QED BY <2>2, <2>3 DEF CommitApplies, OrderOf
<1>4. Orders' = Orders \cup {OrderOf(h, td')}
  <2>1. th' = th \cup {h}
    BY <1>1 DEF CommitApplies
  <2>. QED BY <1>3, <2>1, OrdersAsRows
<1>5. ~ Book!Placed(r)
  BY <1>2, PlacedIsOrder
<1>. QED BY <1>2, <1>4, <1>5
         DEF CommitApplies, wallet, OrderOf, Book!Place, Book!ClientErrors, ClientErrors,
             Book!Cents, Cents

LEMMA NextRefines == IInv /\ OInv /\ [Next]_vars => [Book!Next]_Book!vars
<1>. SUFFICES ASSUME IInv, OInv, [Next]_vars
              PROVE  Book!Next \/ UNCHANGED <<ledger, Orders, answer>>
  BY DEF Book!vars
<1>1. ASSUME NEW r \in Requests,
             Refuse(r) \/ BeginFails(r) \/ MenusMissing(r) \/ MenusFail(r)
             \/ PaymentRefused(r) \/ PaymentFails(r) \/ InsertFails(r)
             \/ CommitAcked(r) \/ CommitFails(r)
      PROVE  Book!Next
  <2>1. PICK status \in Answers :
          /\ Finish(r, status) /\ pc[r] # "done" /\ UNCHANGED <<th, td, ledger>>
          /\ status = "success" => txn[r].commit = "applied"
          /\ status \in ClientErrors =>
               post[r].state \in {"none", "refused"} /\ txn[r].commit # "applied"
    <3>0. /\ txn[r].commit # "none" => pc[r] \in {"committing", "done", "lost"}
          /\ pc[r] \in Unposted => post[r].state = "none"
      BY DEF IInv, PaymentOK, CommitOK
    <3>1. CASE Refuse(r) \/ BeginFails(r)
      BY <3>0, <3>1 DEF Refuse, BeginFails, Answers, ClientErrors, db, wallet, Unposted
    <3>2. CASE MenusMissing(r) \/ MenusFail(r)
      BY <3>0, <3>2 DEF MenusMissing, MenusFail, Abort, Answers, ClientErrors, wallet, Unposted
    <3>3. CASE PaymentRefused(r) \/ PaymentFails(r) \/ InsertFails(r)
      BY <3>0, <3>3 DEF PaymentRefused, PaymentFails, InsertFails, Abort, Answers,
                        ClientErrors, wallet
    <3>4. CASE CommitAcked(r) \/ CommitFails(r)
      BY <3>4 DEF CommitAcked, CommitFails, Answers, ClientErrors, wallet
    <3>. QED BY <1>1, <3>1, <3>2, <3>3, <3>4
  <2>. QED BY <2>1, FinishAnswers DEF Book!Next
<1>2. ASSUME NEW r \in Requests, WalletDebits(r) PROVE Book!Next
  BY <1>2, DebitCharges DEF Book!Next
<1>3. ASSUME NEW r \in Requests, CommitApplies(r) PROVE Book!Next
  BY <1>3, CommitPlaces DEF Book!Next
<1>4. ASSUME NEW r \in Requests,
             \/ \E datas \in Baskets : Accept(r, datas)
             \/ Begin(r) \/ MenusAnswered(r) \/ PostPayment(r) \/ PaymentConfirmed(r)
             \/ InsertTh(r) \/ InsertTd(r) \/ SendCommit(r) \/ WalletRefuses(r)
      PROVE  UNCHANGED <<ledger, Orders, answer>>
  BY <1>4, OrdersKept DEF Accept, Begin, MenusAnswered, PostPayment, PaymentConfirmed, InsertTh,
                          InsertTd, SendCommit, WalletRefuses, db, wallet
<1>5. CASE Crash \/ UNCHANGED vars
  BY <1>5, OrdersKept DEF Crash, vars, db, wallet
<1>. QED BY <1>1, <1>2, <1>3, <1>4, <1>5 DEF Next, Handler, Terminating

\* Seen from outside, POST /checkout is the order book: charges, whole orders and
\* answers, in no other order than the book allows.
THEOREM CheckoutRefinesOrderBook == Spec => ImplementsOrderBook
<1>. QED BY InitRefines, NextRefines, OInvHolds, PTL DEF Spec, ImplementsOrderBook, Book!Spec
===============================================================================
