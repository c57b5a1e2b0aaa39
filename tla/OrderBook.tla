------------------------------ MODULE OrderBook ------------------------------
(***************************************************************************)
(* What POST /checkout promises, seen from outside the service: the debits *)
(* of the wallet, the orders a reader of the database can see, and the     *)
(* answer each request got.  It says nothing of transactions, connections  *)
(* or messages.                                                            *)
(*                                                                         *)
(* It does NOT promise that a charged request has an order: the service    *)
(* never refunds, so a failure after the debit leaves a charge alone.      *)
(***************************************************************************)
EXTENDS Money, Sequences

CONSTANT Requests

VARIABLES
  charged,   \* charged[r] : amounts the wallet took for request r
  orders,    \* orders anyone can read, each with all its lines
  answer     \* answer[r] : what the client was told

vars == <<charged, orders, answer>>

\* The classes of answers the properties tell apart; "passed" is the status of
\* another service, handed on as an error.
ClientErrors == {"400", "401", "4xx"}
Answers      == ClientErrors \cup {"success", "passed", "500"}

Placed(r) == \E o \in orders : o.by = r

Init ==
  /\ charged = [r \in Requests |-> <<>>]
  /\ orders = {}
  /\ answer = [r \in Requests |-> "none"]

\* A request is charged at most once, and never after a client error.
Charge(r) ==
  /\ charged[r] = <<>>
  /\ answer[r] \notin ClientErrors
  /\ charged'[r] # <<>>
  /\ charged' = [charged EXCEPT ![r] = <<Head(charged'[r])>>]
  /\ UNCHANGED <<orders, answer>>

\* An order appears whole, once, after the debit that its total is rounded from.
Place(r) ==
  /\ ~ Placed(r)
  /\ answer[r] \notin ClientErrors
  /\ \E o \in orders' :
       /\ o.by = r
       /\ charged[r] # <<>> /\ o.total \in Cents(Head(charged[r]))
       /\ orders' = orders \cup {o}
  /\ UNCHANGED <<charged, answer>>

\* A success is answered for a placed order, a client error for a request
\* that left no trace; "passed" and "500" promise nothing.
Answer(r) ==
  /\ answer[r] = "none"
  /\ \E status \in Answers :
       /\ status = "success" => Placed(r)
       /\ status \in ClientErrors => ~ Placed(r) /\ charged[r] = <<>>
       /\ answer' = [answer EXCEPT ![r] = status]
  /\ UNCHANGED <<charged, orders>>

Next == \E r \in Requests : Charge(r) \/ Place(r) \/ Answer(r)

Spec == Init /\ [][Next]_vars
==============================================================================
