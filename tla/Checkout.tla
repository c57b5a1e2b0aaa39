------------------------------- MODULE Checkout -------------------------------
(***************************************************************************)
(* POST /checkout: route.go CreateTransaction, run by WithTransaction      *)
(* (utils/common/wrapper.go) around service.go CreateTransaction.          *)
(*                                                                         *)
(* A request takes a database connection, asks master data for the menus,  *)
(* has the wallet debit the total, inserts a header (th_user_checkouts)    *)
(* and one line per item (td_user_checkouts), and commits.  The wallet is  *)
(* another service: no step here is atomic with its debit, nothing takes a *)
(* debit back, and a debit may come after the service stopped waiting.     *)
(***************************************************************************)
EXTENDS ConnPool, Pricing, Integers

CONSTANTS
  Requests,    \* calls of POST /checkout; each stands for its own client
  Baskets,     \* the item lists that clients may send
  MaxCrashes   \* bound: how often the process dies

ASSUME CheckoutAssumption == Baskets \subseteq Seq(Data) /\ MaxCrashes \in Nat

VARIABLES
  pc,        \* pc[r] : where the handler of r is
  call,      \* call[r] : the local variables of the handler of r
  txn,       \* txn[r] : rows written by r's transaction, and its COMMIT
  nextId,    \* the SERIAL of th_user_checkouts; a rollback does not undo it
  th, td,    \* committed headers and lines
  post,      \* post[r] : the payment request sent to the wallet
  ledger,    \* ledger[r] : what the wallet debited for r
  answer,    \* answer[r] : what the client was told, as a class of answers
  crashes    \* how often the process died

locals == <<pc, call>>
db     == <<conns, txn, nextId, th, td>>
wallet == <<post, ledger>>
vars   == <<locals, db, wallet, answer, crashes>>

\* "success" is the handler's own 201, with success: true.  "passed" is the status
\* of a peer that is below 400 and not 200: InternalRequest takes it for an error,
\* so that the client gets it with success: false, even if it is a 201 itself.
ClientErrors == {"400", "401", "4xx"}
Answers      == ClientErrors \cup {"success", "passed", "500"}

NoCall == [datas |-> <<>>, menus |-> {}, total |-> 0, id |-> 0, line |-> 1]
NoTxn  == [th |-> {}, td |-> {}, commit |-> "none"]
NoPost == [state |-> "none", amount |-> 0]

InTransaction == {"menus", "pay", "paying", "insertTh", "insertTd", "committing"}
Active == InTransaction \cup {"begin"}

Init ==
  /\ pc = [r \in Requests |-> "idle"]
  /\ call = [r \in Requests |-> NoCall]
  /\ conns = {}
  /\ txn = [r \in Requests |-> NoTxn]
  /\ nextId = 1
  /\ th = {} /\ td = {}
  /\ post = [r \in Requests |-> NoPost]
  /\ ledger = [r \in Requests |-> <<>>]
  /\ answer = [r \in Requests |-> "none"]
  /\ crashes = 0

Goto(r, from, to) == pc[r] = from /\ pc' = [pc EXCEPT ![r] = to]

\* dto.go validation tags; an empty list passes "required".
ValidBasket(datas) ==
  \A i \in DOMAIN datas : datas[i].menuId # 0 /\ datas[i].qty > 0

-------------------------------------------------------------------------------
(* The way out of the handler.                                             *)

Finish(r, status) ==
  /\ pc' = [pc EXCEPT ![r] = "done"]
  /\ answer' = [answer EXCEPT ![r] = status]

\* Mutant: the deferred rollback does not see the error.
AbortWithoutRollback(r, status) ==
  /\ Finish(r, status)
  /\ UNCHANGED conns
  /\ txn' = [txn EXCEPT ![r] = NoTxn]
  /\ UNCHANGED <<call, nextId, th, td, crashes>>

\* fn returned an error: WithTransaction's deferred Rollback, then
\* middleware/error.go turns the error into an answer.
Abort(r, status) ==
  /\ Finish(r, status)
  /\ Release(r)
  /\ txn' = [txn EXCEPT ![r] = NoTxn]
  /\ UNCHANGED <<call, nextId, th, td, crashes>>

-------------------------------------------------------------------------------
(* The handler, in the order of the code.                                  *)

Accept(r, datas) ==
  /\ Goto(r, "idle", "begin")
  /\ ValidBasket(datas)
  /\ call' = [call EXCEPT ![r].datas = datas]
  /\ UNCHANGED <<db, wallet, answer, crashes>>

\* RequireAuth, BodyParser or ValidateRequest turns the request away.
Refuse(r) ==
  /\ pc[r] = "idle"
  /\ \E status \in {"400", "401"} : Finish(r, status)
  /\ UNCHANGED <<call, db, wallet, crashes>>

\* db.Beginx: waits for a free connection, without a deadline.
Begin(r) ==
  /\ Goto(r, "begin", "menus")
  /\ Acquire(r)
  /\ UNCHANGED <<call, txn, nextId, th, td, wallet, answer, crashes>>

BeginFails(r) ==
  /\ pc[r] = "begin"
  /\ Cardinality(conns) < MaxConns
  /\ Finish(r, "500")
  /\ UNCHANGED <<call, db, wallet, crashes>>

\* Mutant: the number of menus is not compared with the number of lines.
MenusAnsweredUnchecked(r) ==
  /\ Goto(r, "menus", "pay")
  /\ \E menus \in MenuAnswers(call[r].datas) :
       call' = [call EXCEPT ![r].menus = menus,
                            ![r].total = TotalPrice(menus, call[r].datas),
                            ![r].datas = PricedLines(menus, call[r].datas)]
  /\ UNCHANGED <<db, wallet, answer, crashes>>

\* Every line has its menu: fill in the prices and go on to the payment.
MenusAnswered(r) ==
  /\ Goto(r, "menus", "pay")
  /\ \E menus \in MenuAnswers(call[r].datas) :
       /\ Cardinality(menus) = Len(call[r].datas)
       /\ call' = [call EXCEPT ![r].menus = menus,
                               ![r].total = TotalPrice(menus, call[r].datas),
                               ![r].datas = PricedLines(menus, call[r].datas)]
  /\ UNCHANGED <<db, wallet, answer, crashes>>

\* "No menus found for the given IDs".
MenusMissing(r) ==
  /\ pc[r] = "menus"
  /\ \E menus \in MenuAnswers(call[r].datas) :
       Cardinality(menus) # Len(call[r].datas)
  /\ Abort(r, "400")
  /\ UNCHANGED wallet

\* InternalRequest: every status of master data but 200 is passed on; a timeout, a
\* transport error or an unreadable body is a 500.
MenusFail(r) ==
  /\ pc[r] = "menus"
  /\ \E status \in {"passed", "4xx", "500"} : Abort(r, status)
  /\ UNCHANGED wallet

\* paymentUseWallet puts the request on the wire and waits.
PostPayment(r) ==
  /\ Goto(r, "pay", "paying")
  /\ post' = [post EXCEPT ![r] = [state |-> "pending", amount |-> call[r].total]]
  /\ UNCHANGED <<call, db, ledger, answer, crashes>>

PaymentConfirmed(r) ==
  /\ Goto(r, "paying", "insertTh")
  /\ post[r].state = "debited"
  /\ UNCHANGED <<call, db, wallet, answer, crashes>>

\* The wallet refuses with a 4xx, which is passed on; such a refusal is final.
PaymentRefused(r) ==
  /\ pc[r] = "paying"
  /\ post[r].state = "refused"
  /\ Abort(r, "4xx")
  /\ UNCHANGED wallet

\* Mutant: the error of the payment is dropped.
PaymentFailsIgnored(r) ==
  /\ Goto(r, "paying", "insertTh")
  /\ UNCHANGED <<call, db, wallet, answer, crashes>>

\* Mutant: a payment that timed out is sent again.
PaymentFailsRetried(r) ==
  /\ pc[r] = "paying"
  /\ post' = [post EXCEPT ![r].state = "pending"]
  /\ UNCHANGED <<locals, db, ledger, answer, crashes>>

\* Mutant: a payment that timed out is reported as the client's fault.
PaymentFailsAsRefusal(r) ==
  /\ pc[r] = "paying"
  /\ Abort(r, "4xx")
  /\ UNCHANGED wallet

\* The 10 s client timeout, a transport error, an unreadable body, a 5xx or a status
\* below 400 that is not 200: the handler gives up without knowing whether the
\* wallet has debited, or still will.
PaymentFails(r) ==
  /\ pc[r] = "paying"
  /\ \E status \in {"passed", "500"} : Abort(r, status)
  /\ UNCHANGED wallet

-------------------------------------------------------------------------------
(* The inserts and the commit.                                             *)

\* The rows as their columns hold them: every amount in whole cents.
HeaderRows(r) ==
  {[id |-> nextId, by |-> r, total |-> total] : total \in Cents(call[r].total)}

LineRows(r) ==
  LET data == call[r].datas[call[r].line] IN
  {[ref |-> call[r].id, no |-> call[r].line, menuId |-> data.menuId,
    qty |-> data.qty, price |-> price, total |-> total] :
     price \in Cents(data.price), total \in Cents(data.total)}

\* InsertThTransaction ... RETURNING id
InsertTh(r) ==
  /\ Goto(r, "insertTh", "insertTd")
  /\ \E h \in HeaderRows(r) : txn' = [txn EXCEPT ![r].th = {h}]
  /\ call' = [call EXCEPT ![r].id = nextId]
  /\ nextId' = nextId + 1
  /\ UNCHANGED <<conns, th, td, wallet, answer, crashes>>

\* Mutant: the lines are written with db.Exec, outside the transaction.
InsertTdOutsideTransaction(r) ==
  /\ pc[r] = "insertTd"
  /\ call[r].line <= Len(call[r].datas)
  /\ \E d \in LineRows(r) : td' = td \cup {d}
  /\ call' = [call EXCEPT ![r].line = @ + 1]
  /\ UNCHANGED <<pc, conns, txn, nextId, th, wallet, answer, crashes>>

\* One turn of the loop over request.Datas.
InsertTd(r) ==
  /\ pc[r] = "insertTd"
  /\ call[r].line <= Len(call[r].datas)
  /\ \E d \in LineRows(r) : txn' = [txn EXCEPT ![r].td = @ \cup {d}]
  /\ call' = [call EXCEPT ![r].line = @ + 1]
  /\ UNCHANGED <<pc, conns, nextId, th, td, wallet, answer, crashes>>

\* An insert returns an error: a lost connection, or a value the column
\* cannot hold (DECIMAL(10,2), INT).
InsertFails(r) ==
  /\ pc[r] \in {"insertTh", "insertTd"}
  /\ Abort(r, "500")
  /\ UNCHANGED wallet

SendCommit(r) ==
  /\ Goto(r, "insertTd", "committing")
  /\ call[r].line > Len(call[r].datas)
  /\ txn' = [txn EXCEPT ![r].commit = "sent"]
  /\ UNCHANGED <<call, conns, nextId, th, td, wallet, answer, crashes>>

CommitAcked(r) ==
  /\ pc[r] = "committing"
  /\ txn[r].commit = "applied"
  /\ Finish(r, "success")
  /\ Release(r)
  /\ UNCHANGED <<call, txn, nextId, th, td, wallet, crashes>>

\* Mutant: the error of Commit is shadowed and the handler answers 201.
CommitFailsUnseen(r) ==
  /\ pc[r] = "committing"
  /\ Finish(r, "success")
  /\ Release(r)
  /\ UNCHANGED <<call, txn, nextId, th, td, wallet, crashes>>

\* Mutant: a COMMIT that failed is reported as the client's fault.
CommitFailsAsRefusal(r) ==
  /\ pc[r] = "committing"
  /\ Finish(r, "400")
  /\ Release(r)
  /\ UNCHANGED <<call, txn, nextId, th, td, wallet, crashes>>

\* Commit returns an error.  The COMMIT may have been applied, may have been
\* lost, or may still be on its way.
CommitFails(r) ==
  /\ pc[r] = "committing"
  /\ Finish(r, "500")
  /\ Release(r)
  /\ UNCHANGED <<call, txn, nextId, th, td, wallet, crashes>>

-------------------------------------------------------------------------------
(* The environment.                                                        *)

\* Postgres makes the rows of a transaction visible, all at once.
CommitApplies(r) ==
  /\ txn[r].commit = "sent"
  /\ th' = th \cup txn[r].th
  /\ td' = td \cup txn[r].td
  /\ txn' = [txn EXCEPT ![r].commit = "applied"]
  /\ UNCHANGED <<locals, conns, nextId, wallet, answer, crashes>>

\* The wallet acts on a payment it received, however late.
WalletDebits(r) ==
  /\ post[r].state = "pending"
  /\ post' = [post EXCEPT ![r].state = "debited"]
  /\ ledger' = [ledger EXCEPT ![r] = Append(@, post[r].amount)]
  /\ UNCHANGED <<locals, db, answer, crashes>>

WalletRefuses(r) ==
  /\ post[r].state = "pending"
  /\ post' = [post EXCEPT ![r].state = "refused"]
  /\ UNCHANGED <<locals, db, ledger, answer, crashes>>

\* The process dies and is started again.  Every call in progress is lost;
\* Postgres rolls back the transactions whose COMMIT it has not received.
\* Payments on the wire are not called back.
Crash ==
  /\ crashes < MaxCrashes
  /\ crashes' = crashes + 1
  /\ pc' = [r \in Requests |-> IF pc[r] \in Active THEN "lost" ELSE pc[r]]
  /\ conns' = {}
  /\ txn' = [r \in Requests |-> IF txn[r].commit = "none" THEN NoTxn ELSE txn[r]]
  /\ UNCHANGED <<call, nextId, th, td, wallet, answer>>

-------------------------------------------------------------------------------

\* What the handler does once a request is accepted.
Handler(r) ==
  \/ Begin(r) \/ BeginFails(r)
  \/ MenusAnswered(r) \/ MenusMissing(r) \/ MenusFail(r)
  \/ PostPayment(r) \/ PaymentConfirmed(r) \/ PaymentRefused(r) \/ PaymentFails(r)
  \/ InsertTh(r) \/ InsertTd(r) \/ InsertFails(r)
  \/ SendCommit(r) \/ CommitAcked(r) \/ CommitFails(r)

\* All calls have ended and nothing is on the wire.
Terminating ==
  /\ \A r \in Requests : pc[r] \in {"done", "lost"}
  /\ UNCHANGED vars

Next ==
  \/ \E r \in Requests :
       \/ \E datas \in Baskets : Accept(r, datas)
       \/ Refuse(r)
       \/ Handler(r)
       \/ CommitApplies(r)
       \/ WalletDebits(r) \/ WalletRefuses(r)
  \/ Crash
  \/ Terminating

Spec == Init /\ [][Next]_vars

\* Every call the handler makes returns: the HTTP calls within 10 s, the
\* statements because Postgres answers or the connection breaks.  Neither the
\* wallet nor the COMMIT of a broken connection is fair, nor are crashes.
FairSpec == Spec /\ \A r \in Requests : WF_vars(Handler(r))

-------------------------------------------------------------------------------
(* Properties.                                                             *)

LinesOf(h) == {d \in td : d.ref = h.id}
OrdersOf(r) == {h \in th : h.by = r}

\* Every variable has its type, and the pool its size (SetMaxOpenConns in
\* db/postgres.go); amounts are left to the pricing properties.
TypeOK ==
  /\ pc \in [Requests -> Active \cup {"idle", "done", "lost"}]
  /\ \A r \in Requests :
       /\ Len(call[r].datas) \in Nat
       /\ call[r].id \in Nat /\ call[r].line \in Nat
       /\ txn[r].commit \in {"none", "sent", "applied"}
       /\ post[r].state \in {"none", "pending", "debited", "refused"}
  /\ conns \subseteq Requests /\ Cardinality(conns) <= MaxConns
  /\ nextId \in Nat
  /\ answer \in [Requests -> Answers \cup {"none"}]
  /\ crashes \in 0..MaxCrashes

\* An order anyone can read was paid for: the wallet debited its creator
\* exactly once, an amount that the total of the header is rounded from, however
\* the payment, the inserts, the commit and the crashes fall.
NoOrderWithoutPayment ==
  \A h \in th : Len(ledger[h.by]) = 1 /\ h.total \in Cents(ledger[h.by][1])

\* The wallet is never asked to debit one request twice: a payment that timed
\* out is not retried, whatever becomes of the order.
ChargedAtMostOnce == \A r \in Requests : Len(ledger[r]) <= 1

\* Header and lines are visible together or not at all: a header has one line
\* for each item of its basket, and no line is left without its header.
AllOrNothing ==
  /\ \A h \in th :
       /\ \A i \in DOMAIN call[h.by].datas :
            \E d \in LinesOf(h) : d.no = i /\ d.menuId = call[h.by].datas[i].menuId
       /\ Cardinality(LinesOf(h)) = Len(call[h.by].datas)
  /\ \A d \in td : \E h \in th : d.ref = h.id

\* What is charged is what master data quoted, rounded to cents: no visible line
\* has kept a price the client filled in.
PricedByMasterData ==
  \A h \in th : \A d \in LinesOf(h) :
    \E m \in call[h.by].menus :
      m.id = d.menuId /\ d.price \in Cents(m.price) /\ d.total \in Cents(m.price * d.qty)

\* Twice what the header says beyond the sum of its lines: calculateTotalPriceMenu
\* adds up the one and fills in the others, and each is rounded by itself.
TwiceTheGap(h) ==
  2 * h.total - 2 * SumFunction([d \in LinesOf(h) |-> d.total])

\* The header and the sum of its lines are apart by no more than half a cent for
\* the header and half a cent for each line, and agree if master data quotes whole
\* cents.
TotalIsSumOfLines ==
  \A h \in th :
    LET roundings == Cardinality(LinesOf(h)) + 1 IN
    /\ TwiceTheGap(h) <= roundings /\ - TwiceTheGap(h) <= roundings
    /\ (\A m \in call[h.by].menus : m.price % 10 = 0) => TwiceTheGap(h) = 0

\* A client told that the request was at fault has not been charged and has no
\* order, then or later: the wallet does not debit it behind that answer.
ClientErrorsLeaveNoTrace ==
  \A r \in Requests :
    answer[r] \in ClientErrors =>
      ledger[r] = <<>> /\ post[r].state # "pending" /\ OrdersOf(r) = {}

\* A client told "success: true" has one order, already visible.  The status alone
\* says less: a peer's own 201 is passed on with "success: false" and no order.
SuccessMeansPlacedOnce ==
  \A r \in Requests : answer[r] = "success" => Cardinality(OrdersOf(r)) = 1

\* A connection is held by exactly the calls that are inside WithTransaction:
\* no way out of the handler keeps one, no step runs without one.
ConnectionsHeldByTransactions ==
  conns = {r \in Requests : pc[r] \in InTransaction}

\* An order book whose orders are the visible headers with their lines.
Orders == {[by |-> h.by, total |-> h.total, lines |-> LinesOf(h)] : h \in th}

Book == INSTANCE OrderBook WITH charged <- ledger, orders <- Orders

\* The handler, the wallet and the database together keep the promises of the
\* order book, step by step.
ImplementsOrderBook == Book!Spec

\* Every accepted call ends: the calls that wait for a connection get one, and
\* the handler answers, unless the process dies first.
EveryCallEnds ==
  \A r \in Requests : pc[r] = "begin" ~> pc[r] \in {"done", "lost"}
===============================================================================
