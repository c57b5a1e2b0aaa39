------------------------------- MODULE Listing -------------------------------
(***************************************************************************)
(* The listings of orders, GET /transactions and GET /history-checkouts,   *)
(* the details of one order, and the summary report.  For a listing the    *)
(* repository reads the rows of a page and then, as a second statement     *)
(* outside any transaction, their number; then the service asks master     *)
(* data and the account service for names.  Other handlers place orders    *)
(* and move them on in between.                                            *)
(*                                                                         *)
(* A client reads a listing page by page until it is told that a page is   *)
(* the last; then it may ask for the details of an order, or, if it is of  *)
(* the staff, for the report over the same days.                           *)
(***************************************************************************)
EXTENDS SequencesExt, Integers, FiniteSets

CONSTANTS
  Clients,     \* each reads one listing
  Queries,     \* the listings that clients ask for, see Query
  NewOrders,   \* orders as checkouts place them, see Order
  MaxOrders    \* bound: number of orders ever placed

\* user of a history, 0 for the listing of the staff; the filter looks at
\* nothing, at a column that never changes, at the range of days, or at the status.
Query == [user : Nat, filter : {"none", "orderFor", "days", "orderStatus"}, days : SUBSET Nat,
          newestFirst : BOOLEAN, page : Int, size : Int, noPaginate : BOOLEAN]

\* created_at is the time at which the transaction of the checkout began, so
\* that an order may still appear on a day that is over.
Order == [user : Nat \ {0}, orderFor : BOOLEAN, lines : Nat, total : Nat, day : Nat,
          status : 0..2]

ASSUME ListingAssumption ==
  Queries \subseteq Query /\ NewOrders \subseteq Order /\ MaxOrders \in Nat

VARIABLES
  orders,   \* the orders by id
  pc,       \* pc[c] : where the call of c is
  query,    \* query[c] : its parameters
  rows,     \* rows[c] : the ids on its page
  total,    \* total[c] : TotalData of its page
  answer,   \* answer[c] : the status of its last call
  seen,     \* seen[c] : ids that c was shown, on pages or in detail
  first,    \* first[c] : what there was to see when it asked for its first page
  wanted,   \* wanted[c] : the id whose details c asks for, 0 while it lists
  report    \* report[c] : the report, a record for each day that had orders

vars == <<orders, pc, query, rows, total, answer, seen, first, wanted, report>>

NoQuery == [user |-> 0, filter |-> "none", days |-> {}, newestFirst |-> TRUE,
            page |-> 0, size |-> 0, noPaginate |-> FALSE]

Active == {"rows", "count", "one", "menus", "users", "report"}

Init ==
  /\ orders = <<>>
  /\ pc = [c \in Clients |-> "idle"]
  /\ query = [c \in Clients |-> NoQuery]
  /\ rows = [c \in Clients |-> <<>>]
  /\ total = [c \in Clients |-> 0]
  /\ answer = [c \in Clients |-> "none"]
  /\ seen = [c \in Clients |-> {}]
  /\ first = [c \in Clients |-> {}]
  /\ wanted = [c \in Clients |-> 0]
  /\ report = [c \in Clients |-> <<>>]

Goto(c, to) == pc' = [pc EXCEPT ![c] = to]

-------------------------------------------------------------------------------
(* What the statements select.                                             *)

Matches(order, q) ==
  /\ q.user # 0 => order.user = q.user
  /\ q.filter = "orderFor" => order.orderFor
  /\ q.filter = "days" => order.day \in q.days
  /\ q.filter = "orderStatus" => order.status = 0

\* baseQuery joins the lines, so that an order without lines is not there.
Listed(q) == {id \in DOMAIN orders : Matches(orders[id], q) /\ orders[id].lines > 0}

\* The count does not join them.
Counted(q) == {id \in DOMAIN orders : Matches(orders[id], q)}

\* The details of an order: baseQuery again, by id, and for a history by user.
HasOne(q, id) ==
  /\ id \in DOMAIN orders
  /\ q.user # 0 => orders[id].user = q.user
  /\ orders[id].lines > 0

PlacedOn(day) == {id \in DOMAIN orders : orders[id].day = day}
Money(ids) == SumFunction([id \in ids |-> orders[id].total])

\* Mutant: the report joins the lines.
SummaryPerLine(days) ==
  [day \in {d \in days : PlacedOn(d) # {}} |->
     [totalOrder |-> SumFunction([id \in PlacedOn(day) |-> orders[id].lines]),
      total |-> SumFunction([id \in PlacedOn(day) |-> orders[id].total * orders[id].lines])]]

\* SUM and COUNT of the headers, grouped by day.
Summary(days) ==
  [day \in {d \in days : PlacedOn(d) # {}} |->
     [totalOrder |-> Cardinality(PlacedOn(day)), total |-> Money(PlacedOn(day))]]

\* By id, newest first, or without ORDER BY in any order.
Arrangements(ids, q) ==
  {s \in SetToSeqs(ids) : q.newestFirst => \A i, j \in DOMAIN s : i < j => s[i] > s[j]}

IsLimited(q) == q.size > 0 /\ q.page > 0 /\ ~ q.noPaginate

\* LIMIT :size OFFSET (page - 1) * size
Page(s, q) ==
  IF IsLimited(q)
  THEN LET offset == (q.page - 1) * q.size
       IN SubSeq(s, offset + 1, IF offset + q.size > Len(s) THEN Len(s) ELSE offset + q.size)
  ELSE s

\* Division of Go integers, towards zero.
Quo(a, b) ==
  LET magnitude == (IF a < 0 THEN -a ELSE a) \div (IF b < 0 THEN -b ELSE b)
  IN IF (a < 0) = (b < 0) THEN magnitude ELSE - magnitude

\* Mutant: the last page is not counted when it is not full.
TotalPagesFull(n, size) == Quo(n, size)

TotalPages(n, size) == Quo(n + size - 1, size)

\* The listing of the staff may be asked for without pages.
IsUnpaged(q) == q.noPaginate /\ q.user = 0

\* Mutant: the last page is the one whose number is the number of pages.
IsLastPageExactly(c) ==
  \/ IsUnpaged(query[c])
  \/ query[c].page = TotalPages(total[c], query[c].size)

IsLastPage(c) ==
  \/ IsUnpaged(query[c])
  \/ query[c].page >= TotalPages(total[c], query[c].size)

-------------------------------------------------------------------------------
(* A call.                                                                 *)

Ask(c) ==
  /\ pc[c] = "idle"
  /\ Goto(c, "rows")
  /\ \E q \in Queries : /\ query' = [query EXCEPT ![c] = q]
                        /\ first' = [first EXCEPT ![c] = Listed(q)]
  /\ UNCHANGED <<orders, rows, total, answer, seen, wanted, report>>

\* RequireAuth or RequireRole, ParseQueryParams or ValidateRequest turns it away.
Refuse(c) ==
  /\ pc[c] = "idle"
  /\ Goto(c, "refused")
  /\ UNCHANGED <<orders, query, rows, total, answer, seen, first, wanted, report>>

\* The client was given a page that is not the last.
Paged(c)    == pc[c] = "done" /\ wanted[c] = 0 /\ answer[c] = "200"
HasMore(c)  == Paged(c) /\ ~ IsLastPage(c)
Finished(c) == Paged(c) /\ IsLastPage(c)

\* It asks for the next.  A listing has at most as many pages as orders.
AskNext(c) ==
  /\ HasMore(c)
  /\ query[c].page < MaxOrders
  /\ Goto(c, "rows")
  /\ query' = [query EXCEPT ![c].page = @ + 1]
  /\ answer' = [answer EXCEPT ![c] = "none"]
  /\ UNCHANGED <<orders, rows, total, seen, first, wanted, report>>

\* The client asks for one of the orders it saw, or for any other id.
AskOne(c) ==
  /\ Finished(c)
  /\ Goto(c, "one")
  /\ \E id \in 1..MaxOrders : wanted' = [wanted EXCEPT ![c] = id]
  /\ answer' = [answer EXCEPT ![c] = "none"]
  /\ UNCHANGED <<orders, query, rows, total, seen, first, report>>

AskReport(c) ==
  /\ Finished(c) /\ query[c].user = 0 /\ query[c].filter = "days"
  /\ Goto(c, "report")
  /\ answer' = [answer EXCEPT ![c] = "none"]
  /\ UNCHANGED <<orders, query, rows, total, seen, first, wanted, report>>

Answer(c) ==
  /\ Goto(c, "done")
  /\ answer' = [answer EXCEPT ![c] = "200"]
  /\ seen' = [seen EXCEPT ![c] = @ \cup Range(rows[c])]
  /\ UNCHANGED <<orders, query, rows, total, first, wanted, report>>

Fail(c, status) ==
  /\ Goto(c, "done")
  /\ answer' = [answer EXCEPT ![c] = status]
  /\ UNCHANGED <<orders, query, rows, total, seen, first, wanted, report>>

\* The first statement.  A history with noPaginate leaves out LIMIT, and is
\* counted and divided into pages all the same.
SelectRows(c) ==
  LET q == query[c] IN
  /\ pc[c] = "rows" /\ ~ IsUnpaged(q)
  /\ Goto(c, "count")
  /\ \E s \in Arrangements(Listed(q), q) : rows' = [rows EXCEPT ![c] = Page(s, q)]
  /\ UNCHANGED <<orders, query, total, answer, seen, first, wanted, report>>

SelectAllRows(c) ==
  LET q == query[c] IN
  /\ pc[c] = "rows" /\ IsUnpaged(q)
  /\ Goto(c, "menus")
  /\ \E s \in Arrangements(Listed(q), q) : rows' = [rows EXCEPT ![c] = s]
  /\ UNCHANGED <<orders, query, total, answer, seen, first, wanted, report>>

\* The query that counts a history has no table t, which every filter names.
CountIsInvalid(q) == q.user # 0 /\ q.filter # "none"

\* The second statement.
CountRows(c) ==
  /\ pc[c] = "count"
  /\ ~ CountIsInvalid(query[c])
  /\ query[c].size # 0
  /\ Goto(c, "menus")
  /\ total' = [total EXCEPT ![c] = Cardinality(Counted(query[c]))]
  /\ UNCHANGED <<orders, query, rows, answer, seen, first, wanted, report>>

Divides(c) == pc[c] = "count" /\ ~ CountIsInvalid(query[c]) /\ query[c].size = 0

\* The details take the first table and the first user of the answers, which are
\* empty when a peer no longer knows them (see Names).
TakesFirst(c) == wanted[c] # 0 /\ pc[c] = IF query[c].user = 0 THEN "users" ELSE "menus"

\* Division by zero, or an index out of range.  Nothing recovers the panic: the
\* process dies, with every call in it.
Panic(c) ==
  /\ Divides(c) \/ TakesFirst(c)
  /\ pc' = [d \in Clients |-> IF pc[d] \in Active THEN "lost" ELSE pc[d]]
  /\ UNCHANGED <<orders, query, rows, total, answer, seen, first, wanted, report>>

\* Mutant: the details of a history are selected by id alone.
SelectOneOfAll(c) ==
  /\ pc[c] = "one" /\ HasOne(NoQuery, wanted[c])
  /\ Goto(c, "menus")
  /\ rows' = [rows EXCEPT ![c] = <<wanted[c]>>]
  /\ UNCHANGED <<orders, query, total, answer, seen, first, wanted, report>>

SelectOne(c) ==
  /\ pc[c] = "one" /\ HasOne(query[c], wanted[c])
  /\ Goto(c, "menus")
  /\ rows' = [rows EXCEPT ![c] = <<wanted[c]>>]
  /\ UNCHANGED <<orders, query, total, answer, seen, first, wanted, report>>

\* "Transaction not found"
OneIsNotFound(c) ==
  /\ pc[c] = "one" /\ ~ HasOne(query[c], wanted[c])
  /\ Fail(c, "404")

SelectReport(c) ==
  /\ pc[c] = "report"
  /\ Goto(c, "reported")
  /\ report' = [report EXCEPT ![c] = Summary(query[c].days)]
  /\ answer' = [answer EXCEPT ![c] = "200"]
  /\ UNCHANGED <<orders, query, rows, total, seen, first, wanted>>

StatementFails(c) == pc[c] \in {"rows", "count", "one", "report"} /\ Fail(c, "500")

\* No rows, nothing to name.
NothingToName(c) == pc[c] = "menus" /\ rows[c] = <<>> /\ Answer(c)

\* Only the staff asks for the names of users.
MenusNamed(c) ==
  /\ pc[c] = "menus" /\ rows[c] # <<>>
  /\ IF query[c].user = 0
     THEN /\ Goto(c, "users")
          /\ UNCHANGED <<orders, query, rows, total, answer, seen, first, wanted, report>>
     ELSE Answer(c)

UsersNamed(c) == pc[c] = "users" /\ Answer(c)

\* Whatever status but 200 a peer answers, the listing answers; "passed" is any.
PeerFails(c) ==
  /\ pc[c] \in {"menus", "users"} /\ rows[c] # <<>>
  /\ \E status \in {"passed", "500"} : Fail(c, status)

Handler(c) ==
  \/ SelectRows(c) \/ SelectAllRows(c) \/ CountRows(c) \/ Panic(c)
  \/ SelectOne(c) \/ OneIsNotFound(c) \/ SelectReport(c) \/ StatementFails(c)
  \/ NothingToName(c) \/ MenusNamed(c) \/ UsersNamed(c) \/ PeerFails(c)

-------------------------------------------------------------------------------
(* The other handlers.                                                     *)

\* A checkout commits.  Ids are given out when the header is inserted, so that
\* orders need not appear in the order of their ids.
PlaceOrder ==
  /\ \E id \in 1..MaxOrders \ DOMAIN orders, order \in NewOrders :
       orders' = [x \in {id} \cup DOMAIN orders |-> IF x = id THEN order ELSE orders[x]]
  /\ UNCHANGED <<pc, query, rows, total, answer, seen, first, wanted, report>>

MoveOrderOn ==
  /\ \E id \in DOMAIN orders :
       /\ orders[id].status < 2
       /\ orders' = [orders EXCEPT ![id].status = @ + 1]
  /\ UNCHANGED <<pc, query, rows, total, answer, seen, first, wanted, report>>

\* Every client has come to an end.
Terminating ==
  /\ \A c \in Clients : pc[c] \in {"refused", "lost", "done", "reported"} /\ ~ HasMore(c)
  /\ UNCHANGED vars

Next ==
  \/ Terminating
  \/ \E c \in Clients : Ask(c) \/ Refuse(c) \/ AskNext(c) \/ AskOne(c) \/ AskReport(c) \/ Handler(c)
  \/ PlaceOrder \/ MoveOrderOn

Spec == Init /\ [][Next]_vars

\* The statements and the peers answer or fail, and a client that was not given
\* the last page asks for the next.
FairSpec == Spec /\ \A c \in Clients : WF_vars(Handler(c)) /\ WF_vars(AskNext(c))

-------------------------------------------------------------------------------
(* Properties.                                                             *)

\* A client that reads page after page, by id and newest first, is given every
\* order that was there when it began, however many are placed meanwhile and
\* although each page is counted after it was read.  It does not hold for a
\* filter on the status, which orders leave behind, or without an order.
NoOrderSkipped ==
  \A c \in Clients :
    Finished(c) /\ query[c].newestFirst /\ query[c].filter # "orderStatus" =>
      first[c] \subseteq seen[c]

\* A history shows its user's orders only, on its pages and in detail.
OnlyOwnOrders ==
  \A c \in Clients : query[c].user # 0 =>
    \A id \in seen[c] : orders[id].user = query[c].user

\* The report covers what the listing of the same days showed before it: on each
\* day it counts at least the orders that were seen and their money, and no more
\* than was placed by now.  (It counts orders without lines, which no listing
\* shows.)
ReportCoversListing ==
  \A c \in Clients : pc[c] = "reported" =>
    \A day \in query[c].days :
      LET seenOn == seen[c] \cap PlacedOn(day) IN
      IF day \in DOMAIN report[c]
      THEN /\ report[c][day].totalOrder \in Cardinality(seenOn)..Cardinality(PlacedOn(day))
           /\ report[c][day].total \in Money(seenOn)..Money(PlacedOn(day))
      ELSE seenOn = {}

\* Once no more orders are placed, a client that goes on until it is told that a
\* page is the last comes to an end, though orders were placed, or leave the
\* filter, while it reads and its pages were counted at different times.  As long
\* as orders come as fast as it reads, it need not.
EveryReaderFinishes ==
  <>[][DOMAIN orders' = DOMAIN orders]_orders =>
    \A c \in Clients :
      pc[c] = "rows" ~> \/ Finished(c) \/ pc[c] = "lost"
                        \/ pc[c] = "done" /\ answer[c] # "200"
===============================================================================
