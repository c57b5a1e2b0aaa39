---------------------------- MODULE ListingProofs ----------------------------
(***************************************************************************)
(* Proofs about Listing: what a client is shown, that a client that reads  *)
(* page after page is shown everything, and that the report covers it.     *)
(***************************************************************************)
EXTENDS Listing, Lemmas, SequenceTheorems

-------------------------------------------------------------------------------
(* Pages.                                                                  *)

NewerIn(ids, id) == {x \in ids : x > id}

\* The rows of a listing are its ids, each once.
LEMMA EveryIdHasItsRow ==
  ASSUME NEW ids, IsFiniteSet(ids), NEW q, NEW s \in Arrangements(ids, q)
  PROVE  /\ Cardinality(ids) \in Nat
         /\ s \in [1..Cardinality(ids) -> ids]
         /\ \A i, j \in 1..Cardinality(ids) : i # j => s[i] # s[j]
         /\ \A id \in ids : \E i \in 1..Cardinality(ids) : s[i] = id
<1>. DEFINE n == Cardinality(ids)
<1>1. n \in Nat
  BY FS_CardinalityType
<1>2. s \in [1..n -> ids] /\ \A i, j \in 1..n : i # j => s[i] # s[j]
  BY DEF Arrangements, SetToSeqs
<1>3. IsFiniteSet(1..n) /\ Cardinality(1..n) = n
  BY <1>1, FS_Interval
<1>4. s \in Injection(1..n, ids)
  BY <1>2 DEF Injection, IsInjective
<1>5. s \in Surjection(1..n, ids)
  <2>. HIDE DEF n
  <2>. QED BY <1>3, <1>4, FS_Injection DEF n
<1>. QED BY <1>1, <1>2, <1>5 DEF Surjection

\* In a listing that begins with the newest, as many are newer as come before.
LEMMA NewerComeBefore ==
  ASSUME NEW ids \in SUBSET Nat, IsFiniteSet(ids), NEW q, q.newestFirst,
         NEW s \in Arrangements(ids, q), NEW i \in 1..Cardinality(ids)
  PROVE  Cardinality(NewerIn(ids, s[i])) = i - 1
<1>. DEFINE n == Cardinality(ids)
           before == [j \in 1..(i - 1) |-> s[j]]
<1>1. /\ n \in Nat /\ s \in [1..n -> ids]
      /\ \A id \in ids : \E j \in 1..n : s[j] = id
      /\ \A j, k \in 1..n : j # k => s[j] # s[k]
  BY EveryIdHasItsRow
<1>2. \A j, k \in 1..n : j < k => s[j] > s[k]
  BY <1>1 DEF Arrangements
<1>3. \A j \in 1..n : s[j] > s[i] <=> j < i
  <2>. SUFFICES ASSUME NEW j \in 1..n PROVE s[j] > s[i] <=> j < i
    OBVIOUS
  <2>1. s[i] \in Nat /\ s[j] \in Nat
    BY <1>1
  <2>. QED BY <1>1, <1>2, <2>1
<1>4. before \in Bijection(1..(i - 1), NewerIn(ids, s[i]))
  <2>1. \A j \in 1..(i - 1) : j \in 1..n /\ before[j] = s[j]
    BY <1>1
  <2>2. before \in [1..(i - 1) -> NewerIn(ids, s[i])]
    BY <1>1, <1>3, <2>1 DEF NewerIn
  <2>3. \A j, k \in 1..(i - 1) : before[j] = before[k] => j = k
    BY <1>1, <2>1
  <2>4. \A id \in NewerIn(ids, s[i]) : \E j \in 1..(i - 1) : before[j] = id
    BY <1>1, <1>3 DEF NewerIn
  <2>. HIDE DEF before
  <2>. QED BY <2>2, <2>3, <2>4 DEF Bijection, Injection, Surjection, IsInjective
<1>5. IsFiniteSet(1..(i - 1)) /\ Cardinality(1..(i - 1)) = i - 1
  <2>1. i - 1 \in Int /\ (IF 1 > i - 1 THEN 0 ELSE (i - 1) - 1 + 1) = i - 1
    BY <1>1
  <2>. DEFINE k == i - 1
  <2>2. IsFiniteSet(1..k) /\ Cardinality(1..k) = IF 1 > k THEN 0 ELSE k - 1 + 1
    <3>. HIDE DEF k
    <3>. QED BY <2>1, FS_Interval DEF k
  <2>. QED BY <2>1, <2>2
<1>. QED BY <1>4, <1>5, FS_Bijection DEF ExistsBijection

LEMMA OffsetIsNat ==
  ASSUME NEW page \in Int, NEW size \in Int, page > 0, size > 0
  PROVE  /\ (page - 1) * size \in Nat
         /\ (page - 1) * size + size = page * size
OBVIOUS

\* A page shows rows of the listing only.
LEMMA PageOfListing ==
  ASSUME NEW ids, IsFiniteSet(ids), NEW q \in Query, NEW s \in Arrangements(ids, q)
  PROVE  /\ s \in Seq(ids) /\ Page(s, q) \in Seq(ids)
         /\ Range(s) = ids /\ Range(Page(s, q)) \subseteq ids
         /\ ~ IsLimited(q) => Range(Page(s, q)) = ids
<1>. DEFINE n == Cardinality(ids)
           offset == (q.page - 1) * q.size
           end == IF offset + q.size > Len(s) THEN Len(s) ELSE offset + q.size
<1>1. /\ n \in Nat /\ s \in [1..n -> ids] /\ Len(s) = n
      /\ \A id \in ids : \E j \in 1..n : s[j] = id
  BY EveryIdHasItsRow
<1>2. s \in Seq(ids) /\ Range(s) = ids
  BY <1>1 DEF Range
<1>3. CASE IsLimited(q)
  <2>1. offset \in Nat /\ end \in Int /\ end <= n
    BY <1>1, <1>3, OffsetIsNat DEF IsLimited, Query
  <2>2. \A i \in (offset + 1)..end : s[i] \in ids
    BY <1>1, <2>1
  <2>3. SubSeq(s, offset + 1, end) \in Seq(ids)
    <3>. HIDE DEF offset, end
    <3>. QED BY <2>1, <2>2, SubSeqProperties
  <2>4. Page(s, q) \in Seq(ids)
    BY <1>3, <2>3 DEF Page
  <2>5. Range(Page(s, q)) \subseteq ids
    BY <2>4 DEF Range
  <2>. QED BY <1>2, <1>3, <2>4, <2>5
<1>4. CASE ~ IsLimited(q)
  BY <1>2, <1>4 DEF Page
<1>. QED BY <1>3, <1>4

\* The page after those that showed what is older shows what comes next: an id
\* that is not on it has at least as many before it as this page and the earlier
\* ones hold.
LEMMA PageComesNext ==
  ASSUME NEW ids \in SUBSET Nat, IsFiniteSet(ids), NEW q \in Query, q.newestFirst,
         NEW s \in Arrangements(ids, q), NEW id \in ids \ Range(Page(s, q)),
         IsLimited(q) => Cardinality(NewerIn(ids, id)) >= (q.page - 1) * q.size
  PROVE  IsLimited(q) /\ Cardinality(NewerIn(ids, id)) >= q.page * q.size
<1>. DEFINE n == Cardinality(ids)
           offset == (q.page - 1) * q.size
           end == IF offset + q.size > Len(s) THEN Len(s) ELSE offset + q.size
<1>1. /\ n \in Nat /\ s \in [1..n -> ids] /\ Len(s) = n
      /\ \A x \in ids : \E j \in 1..n : s[j] = x
  BY EveryIdHasItsRow
<1>2. PICK i \in 1..n : s[i] = id
  BY <1>1
<1>3. Cardinality(NewerIn(ids, id)) = i - 1
  BY <1>2, NewerComeBefore
<1>4. IsLimited(q)
  BY PageOfListing
<1>5. /\ offset \in Nat /\ q.size \in Nat /\ end \in Int /\ end <= n
      /\ offset + q.size = q.page * q.size
  BY <1>1, <1>4, OffsetIsNat DEF IsLimited, Query
<1>6. i > offset
  BY <1>3, <1>4, <1>5
<1>7. SUFFICES ASSUME i <= end PROVE FALSE
  BY <1>1, <1>3, <1>4, <1>5
<1>8. Page(s, q) = SubSeq(s, offset + 1, end)
  BY <1>4 DEF Page
<1>9. /\ SubSeq(s, offset + 1, end)[i - offset] = s[i]
      /\ i - offset \in DOMAIN SubSeq(s, offset + 1, end)
  <2>1. \A j \in (offset + 1)..end : s[j] \in ids
    BY <1>1, <1>5
  <2>. HIDE DEF offset, end
  <2>2. /\ SubSeq(s, offset + 1, end) \in Seq(ids)
        /\ Len(SubSeq(s, offset + 1, end)) = end - (offset + 1) + 1
        /\ \A j \in 1..end - (offset + 1) + 1 :
             SubSeq(s, offset + 1, end)[j] = s[offset + 1 + j - 1]
    BY <1>5, <1>6, <1>7, <2>1, SubSeqProperties
  <2>3. i - offset \in 1..end - (offset + 1) + 1 /\ offset + 1 + (i - offset) - 1 = i
    BY <1>5, <1>6, <1>7
  <2>. QED BY <2>2, <2>3
<1>. QED BY <1>2, <1>8, <1>9 DEF Range

\* The pages up to the last one hold every row that was counted.
LEMMA LastPageIsFarEnough ==
  ASSUME NEW n \in Nat, NEW page \in Int, NEW size \in Int, page > 0, size > 0,
         page >= TotalPages(n, size)
  PROVE  page * size >= n
<1>. DEFINE a == n + size - 1
<1>1. a \in Nat /\ TotalPages(n, size) = a \div size
  BY DEF TotalPages, Quo
<1>2. a < size * (a \div size) + size
  <2>. HIDE DEF a
  <2>. QED BY <1>1
<1>3. a \div size \in Int
  BY <1>1
<1>4. size * (a \div size) <= page * size
  BY <1>1, <1>3
<1>. QED BY <1>1, <1>2, <1>3, <1>4

-------------------------------------------------------------------------------
(* Types.                                                                  *)

Places   == {"idle", "refused", "lost", "done", "reported"} \cup Active
Statuses == {"none", "200", "passed", "404", "500"}

Stored == DOMAIN orders \subseteq 1..MaxOrders /\ \A id \in DOMAIN orders : orders[id] \in Order

CallTypes ==
  /\ pc \in [Clients -> Places] /\ answer \in [Clients -> Statuses]
  /\ query \in [Clients -> Query]
  /\ rows \in [Clients -> Seq(Nat)] /\ total \in [Clients -> Nat]
  /\ seen \in [Clients -> SUBSET Nat] /\ first \in [Clients -> SUBSET Nat]
  /\ wanted \in [Clients -> Nat]

TInv == Stored /\ CallTypes

LEMMA ListedIsFinite ==
  ASSUME Stored, NEW q
  PROVE  /\ Listed(q) \subseteq Counted(q) /\ Counted(q) \subseteq Nat
         /\ IsFiniteSet(Counted(q)) /\ IsFiniteSet(Listed(q))
         /\ Cardinality(Counted(q)) \in Nat
<1>1. IsFiniteSet(1..MaxOrders)
  BY ListingAssumption, FS_Interval
<1>2. Listed(q) \subseteq Counted(q) /\ Counted(q) \subseteq 1..MaxOrders
  BY DEF Stored, Listed, Counted
<1>3. IsFiniteSet(Counted(q)) /\ IsFiniteSet(Listed(q))
  BY <1>1, <1>2, FS_Subset
<1>. QED BY <1>2, <1>3, FS_CardinalityType, ListingAssumption

LEMMA InitTypes == Init => TInv
<1>1. Init => Stored
  BY DEF Init, Stored
<1>2. NoQuery \in Query
  BY DEF NoQuery, Query
<1>3. ASSUME Init PROVE CallTypes
  <2>1. pc \in [Clients -> Places] /\ answer \in [Clients -> Statuses]
    BY <1>3 DEF Init, Places, Statuses
  <2>2. query \in [Clients -> Query]
    BY <1>2, <1>3 DEF Init
  <2>3. rows \in [Clients -> Seq(Nat)] /\ total \in [Clients -> Nat] /\ wanted \in [Clients -> Nat]
    BY <1>3 DEF Init
  <2>4. seen \in [Clients -> SUBSET Nat] /\ first \in [Clients -> SUBSET Nat]
    BY <1>3 DEF Init
  <2>. QED BY <2>1, <2>2, <2>3, <2>4 DEF CallTypes
<1>. QED BY <1>1, <1>3 DEF TInv

\* Orders are placed and moved on; nothing else of them changes.
LEMMA OrdersGrow ==
  ASSUME Stored, PlaceOrder \/ MoveOrderOn
  PROVE  /\ Stored'
         /\ \A id \in DOMAIN orders :
              /\ id \in DOMAIN orders'
              /\ orders'[id].user = orders[id].user /\ orders'[id].lines = orders[id].lines
              /\ orders'[id].orderFor = orders[id].orderFor /\ orders'[id].day = orders[id].day
              /\ orders'[id].total = orders[id].total
<1>1. CASE PlaceOrder
  <2>1. PICK id \in 1..MaxOrders \ DOMAIN orders : \E order \in NewOrders :
          orders' = [x \in {id} \cup DOMAIN orders |-> IF x = id THEN order ELSE orders[x]]
    BY <1>1 DEF PlaceOrder
  <2>2. PICK order \in NewOrders : orders' = [x \in {id} \cup DOMAIN orders |-> IF x = id THEN order ELSE orders[x]]
    BY <2>1
  <2>3. /\ DOMAIN orders' = DOMAIN orders \cup {id} /\ orders'[id] = order
        /\ \A x \in DOMAIN orders : orders'[x] = orders[x]
    BY <2>2
  <2>4. order \in Order
    BY ListingAssumption
  <2>. QED BY <2>3, <2>4 DEF Stored
<1>2. CASE MoveOrderOn
  <2>1. PICK id \in DOMAIN orders :
          /\ orders[id].status < 2
          /\ orders' = [orders EXCEPT ![id].status = @ + 1]
    BY <1>2 DEF MoveOrderOn
  <2>2. /\ DOMAIN orders' = DOMAIN orders
        /\ orders'[id] = [orders[id] EXCEPT !.status = @ + 1]
        /\ \A x \in DOMAIN orders : x # id => orders'[x] = orders[x]
    BY <2>1
  <2>3. orders[id] \in Order
    BY DEF Stored
  <2>4. /\ orders'[id] \in Order
        /\ orders'[id].user = orders[id].user /\ orders'[id].lines = orders[id].lines
        /\ orders'[id].orderFor = orders[id].orderFor /\ orders'[id].day = orders[id].day
        /\ orders'[id].total = orders[id].total
    BY <2>1, <2>2, <2>3 DEF Order
  <2>. QED BY <2>2, <2>4 DEF Stored
<1>. QED BY <1>1, <1>2

LEMMA NextPage ==
  ASSUME NEW q \in Query PROVE [q EXCEPT !.page = @ + 1] \in Query
BY DEF Query

LEMMA NextTypes == TInv /\ [Next]_vars => TInv'
<1>. SUFFICES ASSUME TInv, [Next]_vars PROVE TInv'
  OBVIOUS
<1>. USE DEF TInv, CallTypes
<1>1. CASE UNCHANGED vars
  BY <1>1 DEF vars, Stored
<1>2. CASE PlaceOrder \/ MoveOrderOn
  BY <1>2, OrdersGrow DEF PlaceOrder, MoveOrderOn
<1>3. ASSUME NEW c \in Clients, Ask(c) PROVE TInv'
  <2>1. PICK q \in Queries : query' = [query EXCEPT ![c] = q] /\ first' = [first EXCEPT ![c] = Listed(q)]
    BY <1>3 DEF Ask
  <2>2. q \in Query /\ Listed(q) \in SUBSET Nat
    BY ListedIsFinite, ListingAssumption
  <2>. QED BY <1>3, <2>1, <2>2 DEF Ask, Goto, Places, Active, Stored
<1>4. ASSUME NEW c \in Clients, Refuse(c) \/ AskNext(c) \/ AskOne(c) \/ AskReport(c) PROVE TInv'
  <2>1. CASE Refuse(c)
    BY <2>1 DEF Refuse, Goto, Places, Stored
  <2>2. CASE AskNext(c)
    <3>1. [query[c] EXCEPT !.page = @ + 1] \in Query
      BY NextPage
    <3>. QED BY <2>2, <3>1 DEF AskNext, Goto, Places, Active, Statuses, Stored
  <2>3. CASE AskOne(c)
    BY <2>3, ListingAssumption DEF AskOne, Goto, Places, Active, Statuses, Stored
  <2>4. CASE AskReport(c)
    BY <2>4 DEF AskReport, Goto, Places, Active, Statuses, Stored
  <2>. QED BY <1>4, <2>1, <2>2, <2>3, <2>4
<1>5. ASSUME NEW c \in Clients, Answer(c) PROVE TInv'
  <2>1. Range(rows[c]) \subseteq Nat
    BY DEF Range
  <2>. QED BY <1>5, <2>1 DEF Answer, Goto, Places, Statuses, Stored
<1>6. ASSUME NEW c \in Clients, NEW status \in Statuses, Fail(c, status) PROVE TInv'
  BY <1>6 DEF Fail, Goto, Places, Stored
<1>7. ASSUME NEW c \in Clients, SelectRows(c) \/ SelectAllRows(c) PROVE TInv'
  <2>. DEFINE q == query[c]
  <2>1. PICK s \in Arrangements(Listed(q), q) :
          rows' = [rows EXCEPT ![c] = Page(s, q)] \/ rows' = [rows EXCEPT ![c] = s]
    BY <1>7 DEF SelectRows, SelectAllRows
  <2>2. s \in Seq(Nat) /\ Page(s, q) \in Seq(Nat)
    <3>1. q \in Query /\ IsFiniteSet(Listed(q)) /\ Listed(q) \subseteq Nat
      BY ListedIsFinite
    <3>2. s \in Seq(Listed(q)) /\ Page(s, q) \in Seq(Listed(q))
      BY <3>1, PageOfListing
    <3>. HIDE DEF q
    <3>. QED BY <3>1, <3>2
  <2>3. rows' \in [Clients -> Seq(Nat)]
    BY <2>1, <2>2
  <2>4. pc' \in [Clients -> Places]
    BY <1>7 DEF SelectRows, SelectAllRows, Goto, Places, Active
  <2>. QED BY <1>7, <2>3, <2>4 DEF SelectRows, SelectAllRows, Stored
<1>8. ASSUME NEW c \in Clients, CountRows(c) PROVE TInv'
  <2>1. Cardinality(Counted(query[c])) \in Nat
    BY ListedIsFinite
  <2>. QED BY <1>8, <2>1 DEF CountRows, Goto, Places, Active, Stored
<1>9. ASSUME NEW c \in Clients, Panic(c) PROVE TInv'
  BY <1>9 DEF Panic, Places, Stored
<1>10. ASSUME NEW c \in Clients, SelectOne(c) PROVE TInv'
  BY <1>10 DEF SelectOne, Goto, Places, Active, Stored
<1>11. ASSUME NEW c \in Clients, SelectReport(c) PROVE TInv'
  BY <1>11 DEF SelectReport, Goto, Places, Statuses, Stored
<1>12. ASSUME NEW c \in Clients, MenusNamed(c) PROVE TInv'
  BY <1>5, <1>12 DEF MenusNamed, Goto, Places, Active, Stored
<1>. QED
  BY <1>1, <1>2, <1>3, <1>4, <1>5, <1>6, <1>7, <1>8, <1>9, <1>10, <1>11, <1>12
     DEF Next, Terminating, Handler, OneIsNotFound, StatementFails, NothingToName, UsersNamed,
         PeerFails, Statuses

-------------------------------------------------------------------------------
(* What a client is shown.                                                 *)

\* What a listing or the details of an order showed once, they always show.
ShownOK(c) ==
  /\ \A id \in seen[c] : HasOne(query[c], id)
  /\ pc[c] \in {"count", "menus", "users"} => \A id \in Range(rows[c]) : HasOne(query[c], id)
  /\ pc[c] = "idle" => seen[c] = {}

SInv == \A c \in Clients : ShownOK(c)

Asking == {"count", "menus", "users"}

\* A step that shows nothing to d.
LEMMA ShownKept ==
  ASSUME NEW d \in Clients, ShownOK(d), UNCHANGED orders,
         query'[d].user = query[d].user, rows'[d] = rows[d], seen'[d] = seen[d],
         pc'[d] \in Asking => pc[d] \in Asking, pc'[d] = "idle" => pc[d] = "idle"
  PROVE  ShownOK(d)'
BY DEF ShownOK, HasOne, Asking

LEMMA ListedHasOne ==
  ASSUME Stored, NEW q, NEW id \in Listed(q) PROVE HasOne(q, id)
BY DEF Stored, Order, Listed, Matches, HasOne

LEMMA InitShows == Init => SInv
BY DEF Init, SInv, ShownOK

LEMMA NextShows == TInv /\ SInv /\ [Next]_vars => SInv'
<1>. SUFFICES ASSUME TInv, SInv, [Next]_vars, NEW d \in Clients PROVE ShownOK(d)'
  BY DEF SInv
<1>. USE DEF TInv, CallTypes
<1>0. ShownOK(d)
  BY DEF SInv
<1>1. CASE UNCHANGED vars
  BY <1>0, <1>1 DEF vars, ShownOK, HasOne
<1>2. CASE PlaceOrder \/ MoveOrderOn
  <2>1. ASSUME NEW id, HasOne(query[d], id) PROVE HasOne(query[d], id)'
    BY <1>2, <2>1, OrdersGrow DEF HasOne, PlaceOrder, MoveOrderOn
  <2>. QED BY <1>0, <1>2, <2>1 DEF ShownOK, PlaceOrder, MoveOrderOn
<1>3. ASSUME NEW c \in Clients, Ask(c) PROVE ShownOK(d)'
  <2>1. CASE d = c
    BY <1>0, <1>3, <2>1 DEF Ask, Goto, ShownOK
  <2>2. CASE d # c
    BY <1>0, <1>3, <2>2, ShownKept DEF Ask, Goto
  <2>. QED BY <2>1, <2>2
<1>4. ASSUME NEW c \in Clients, Refuse(c) \/ AskNext(c) \/ AskOne(c) \/ AskReport(c)
      PROVE  ShownOK(d)'
  <2>1. UNCHANGED <<orders, rows, seen>> /\ pc'[d] \in {pc[d], "refused", "rows", "one", "report"}
    BY <1>4 DEF Refuse, AskNext, AskOne, AskReport, Goto
  <2>2. query'[d].user = query[d].user
    BY <1>4 DEF Refuse, AskNext, AskOne, AskReport, Query
  <2>. QED BY <1>0, <2>1, <2>2, ShownKept DEF Asking
<1>5. ASSUME NEW c \in Clients, Answer(c), pc[c] \in Asking PROVE ShownOK(d)'
  <2>1. CASE d = c
    BY <1>0, <1>5, <2>1 DEF Answer, Goto, ShownOK, HasOne, Asking
  <2>2. CASE d # c
    BY <1>0, <1>5, <2>2, ShownKept DEF Answer, Goto
  <2>. QED BY <2>1, <2>2
<1>6. ASSUME NEW c \in Clients, NEW status \in Statuses, Fail(c, status)
      PROVE  ShownOK(d)'
  <2>1. CASE d = c
    BY <1>0, <1>6, <2>1 DEF Fail, Goto, ShownOK, HasOne
  <2>2. CASE d # c
    BY <1>0, <1>6, <2>2, ShownKept DEF Fail, Goto
  <2>. QED BY <2>1, <2>2
<1>7. ASSUME NEW c \in Clients, SelectRows(c) \/ SelectAllRows(c) PROVE ShownOK(d)'
  <2>1. CASE d = c
    <3>. DEFINE q == query[c]
    <3>1. PICK s \in Arrangements(Listed(q), q) :
            rows' = [rows EXCEPT ![c] = Page(s, q)] \/ rows' = [rows EXCEPT ![c] = s]
      BY <1>7 DEF SelectRows, SelectAllRows
    <3>2. Range(s) \subseteq Listed(q) /\ Range(Page(s, q)) \subseteq Listed(q)
      <4>1. q \in Query /\ IsFiniteSet(Listed(q))
        BY ListedIsFinite
      <4>. HIDE DEF q
      <4>. QED BY <4>1, PageOfListing
    <3>3. Range(rows'[c]) \subseteq Listed(q)
      BY <3>1, <3>2
    <3>4. \A id \in Range(rows'[c]) : HasOne(q, id)
      BY <3>3, ListedHasOne
    <3>. QED BY <1>0, <1>7, <2>1, <3>4 DEF SelectRows, SelectAllRows, Goto, ShownOK, HasOne
  <2>2. CASE d # c
    BY <1>0, <1>7, <2>2, ShownKept DEF SelectRows, SelectAllRows, Goto
  <2>. QED BY <2>1, <2>2
<1>8. ASSUME NEW c \in Clients, CountRows(c) \/ Panic(c) \/ SelectReport(c) PROVE ShownOK(d)'
  <2>1. UNCHANGED <<orders, query, rows, seen, wanted>>
    BY <1>8 DEF CountRows, Panic, SelectReport
  <2>2. answer'[d] \in {answer[d], "200"}
    BY <1>8 DEF CountRows, Panic, SelectReport
  <2>3. (pc'[d] \in Asking => pc[d] \in Asking) /\ (pc'[d] = "idle" => pc[d] = "idle")
    BY <1>8 DEF CountRows, Panic, SelectReport, Goto, Asking
  <2>. QED BY <1>0, <2>1, <2>2, <2>3, ShownKept
<1>9. ASSUME NEW c \in Clients, SelectOne(c) PROVE ShownOK(d)'
  <2>1. CASE d = c
    <3>1. rows'[c] = <<wanted[c]>> /\ HasOne(query[c], wanted[c])
      BY <1>9 DEF SelectOne
    <3>2. \A id \in Range(rows'[c]) : HasOne(query[c], id)
      BY <3>1 DEF Range
    <3>. QED BY <1>0, <1>9, <2>1, <3>2 DEF SelectOne, Goto, ShownOK, HasOne
  <2>2. CASE d # c
    BY <1>0, <1>9, <2>2, ShownKept DEF SelectOne, Goto
  <2>. QED BY <2>1, <2>2
<1>10. ASSUME NEW c \in Clients, MenusNamed(c) PROVE ShownOK(d)'
  <2>1. CASE query[c].user = 0
    BY <1>0, <1>10, <2>1, ShownKept DEF MenusNamed, Goto, Asking
  <2>2. CASE query[c].user # 0
    BY <1>5, <1>10, <2>2 DEF MenusNamed, Asking
  <2>. QED BY <2>1, <2>2
<1>. QED
  BY <1>1, <1>2, <1>3, <1>4, <1>5, <1>6, <1>7, <1>8, <1>9, <1>10
     DEF Next, Terminating, Handler, OneIsNotFound, StatementFails, NothingToName, UsersNamed,
         PeerFails, Statuses, Asking

-------------------------------------------------------------------------------
(* What is left to show to a client that reads page after page.            *)

Reads(c) == wanted[c] = 0 /\ query[c].newestFirst /\ query[c].filter # "orderStatus"

\* An order that a client was not shown is not among the newest n.
Comes(c, id, n) ==
  IsLimited(query[c]) /\ Cardinality(NewerIn(Listed(query[c]), id)) >= n

LeftAfter(c) == query[c].page * query[c].size

LeftOK(c) ==
  /\ first[c] \subseteq Listed(query[c]) /\ pc[c] # "one"
  /\ pc[c] = "rows" =>
       \A id \in first[c] \ seen[c] : IsLimited(query[c]) =>
         Comes(c, id, (query[c].page - 1) * query[c].size)
  /\ pc[c] \in {"count", "menus", "users"} =>
       \A id \in first[c] \ (seen[c] \cup Range(rows[c])) :
         Comes(c, id, LeftAfter(c)) /\ (pc[c] # "count" => total[c] > LeftAfter(c))
  /\ pc[c] = "done" /\ answer[c] = "200" =>
       \A id \in first[c] \ seen[c] : Comes(c, id, LeftAfter(c)) /\ total[c] > LeftAfter(c)

NInv == \A c \in Clients : Reads(c) => LeftOK(c)

\* A client begins with the first page.
FromTheFirstPage == \A q \in Queries : q.page <= 1

\* An order that is listed is counted besides those that are newer.
LEMMA CountedBesides ==
  ASSUME Stored, NEW q, NEW id \in Listed(q)
  PROVE  /\ Cardinality(NewerIn(Listed(q), id)) \in Nat
         /\ Cardinality(Counted(q)) > Cardinality(NewerIn(Listed(q), id))
<1>. DEFINE newer == NewerIn(Listed(q), id)
<1>1. /\ IsFiniteSet(Counted(q)) /\ Listed(q) \subseteq Counted(q)
      /\ Counted(q) \subseteq Nat /\ Cardinality(Counted(q)) \in Nat
  BY ListedIsFinite
<1>2. newer \subseteq Counted(q) /\ id \in Counted(q) /\ id \notin newer
  BY <1>1 DEF NewerIn
<1>. HIDE DEF newer
<1>3. IsFiniteSet(newer) /\ Cardinality(newer) <= Cardinality(Counted(q)) /\ Cardinality(newer) \in Nat
  BY <1>1, <1>2, FS_Subset, FS_CardinalityType
<1>4. Cardinality(newer) # Cardinality(Counted(q))
  BY <1>1, <1>2, FS_Subset
<1>. QED BY <1>1, <1>3, <1>4 DEF newer

\* While orders are placed and moved on, a listing that does not filter by status
\* grows, and no order comes nearer to its beginning.
LEMMA ListingsGrow ==
  ASSUME Stored, PlaceOrder \/ MoveOrderOn, NEW q, q.filter # "orderStatus"
  PROVE  /\ Listed(q) \subseteq Listed(q)'
         /\ \A id \in Listed(q) : /\ Cardinality(NewerIn(Listed(q), id)) \in Nat
                                 /\ Cardinality(NewerIn(Listed(q), id)') \in Nat
                                 /\ Cardinality(NewerIn(Listed(q), id)')
                                      >= Cardinality(NewerIn(Listed(q), id))
<1>1. Listed(q) \subseteq Listed(q)'
  BY OrdersGrow DEF Listed, Matches
<1>2. IsFiniteSet(1..MaxOrders) /\ Listed(q)' \subseteq 1..MaxOrders
  BY OrdersGrow, FS_Interval, ListingAssumption DEF Listed, Stored
<1>3. ASSUME NEW id \in Listed(q)
      PROVE  /\ Cardinality(NewerIn(Listed(q), id)) \in Nat
             /\ Cardinality(NewerIn(Listed(q), id)') \in Nat
             /\ Cardinality(NewerIn(Listed(q), id)') >= Cardinality(NewerIn(Listed(q), id))
  <2>. DEFINE newer  == NewerIn(Listed(q), id)
             newer2 == NewerIn(Listed(q), id)'
  <2>1. newer \subseteq newer2 /\ newer2 \subseteq 1..MaxOrders
    BY <1>1, <1>2 DEF NewerIn
  <2>. HIDE DEF newer, newer2
  <2>2. IsFiniteSet(newer2) /\ IsFiniteSet(newer) /\ Cardinality(newer) <= Cardinality(newer2)
    BY <1>2, <2>1, FS_Subset
  <2>3. Cardinality(newer) \in Nat /\ Cardinality(newer2) \in Nat
    BY <2>2, FS_CardinalityType
  <2>. QED BY <2>2, <2>3 DEF newer, newer2
<1>. QED BY <1>1, <1>3

\* A step that neither reads rows for d nor answers it.
LEMMA LeftKept ==
  ASSUME NEW d \in Clients, Reads(d) => LeftOK(d), UNCHANGED orders,
         query'[d] = query[d], first'[d] = first[d], seen'[d] = seen[d], rows'[d] = rows[d],
         total'[d] = total[d], wanted'[d] = wanted[d],
         \A place \in {"rows", "one", "count"} : pc'[d] = place => pc[d] = place,
         pc'[d] \in {"menus", "users"} => pc[d] \in {"menus", "users"},
         pc'[d] = "done" /\ answer'[d] = "200" => pc[d] = "done" /\ answer[d] = "200"
  PROVE  (Reads(d) => LeftOK(d))'
<1>. SUFFICES ASSUME Reads(d)' PROVE LeftOK(d)'
  OBVIOUS
<1>1. Reads(d) /\ LeftOK(d)
  BY DEF Reads
<1>2. Listed(query[d])' = Listed(query[d])
  BY DEF Listed, Matches
<1>3. /\ LeftAfter(d)' = LeftAfter(d)
      /\ \A id, n : Comes(d, id, n)' = Comes(d, id, n)
  BY <1>2 DEF LeftAfter, Comes
<1>. QED BY <1>1, <1>2, <1>3 DEF LeftOK

LEMMA InitLeft == Init => NInv
BY DEF Init, NInv, LeftOK

LEMMA NextLeft == FromTheFirstPage /\ TInv /\ NInv /\ [Next]_vars => NInv'
<1>. SUFFICES ASSUME FromTheFirstPage, TInv, NInv, [Next]_vars, NEW d \in Clients
              PROVE  (Reads(d) => LeftOK(d))'
  BY DEF NInv
<1>. USE DEF TInv, CallTypes
<1>0. Reads(d) => LeftOK(d)
  BY DEF NInv
<1>1. CASE UNCHANGED vars
  BY <1>0, <1>1, LeftKept DEF vars
<1>2. CASE PlaceOrder \/ MoveOrderOn
  <2>0. PICK q \in Query : q = query[d]
    OBVIOUS
  <2>1. UNCHANGED <<pc, query, rows, total, answer, seen, first, wanted>>
    BY <1>2 DEF PlaceOrder, MoveOrderOn
  <2>2. SUFFICES ASSUME Reads(d) PROVE LeftOK(d)'
    BY <2>1 DEF Reads
  <2>3. /\ Listed(q) \subseteq Listed(q)'
        /\ \A id \in Listed(q) : /\ Cardinality(NewerIn(Listed(q), id)) \in Nat
                                /\ Cardinality(NewerIn(Listed(q), id)') \in Nat
                                /\ Cardinality(NewerIn(Listed(q), id)')
                                     >= Cardinality(NewerIn(Listed(q), id))
    BY <1>2, <2>0, <2>2, ListingsGrow DEF Reads
  <2>4. Listed(query[d]) = Listed(q) /\ Listed(query[d])' = Listed(q)'
    BY <2>0, <2>1 DEF Listed, Matches
  <2>5. first[d] \subseteq Listed(q)
    BY <1>0, <2>2, <2>4 DEF LeftOK
  <2>6. ASSUME NEW id \in first[d], NEW n \in Int, Comes(d, id, n) PROVE Comes(d, id, n)'
    BY <2>1, <2>3, <2>4, <2>5, <2>6 DEF Comes
  <2>7. LeftAfter(d) \in Int /\ (query[d].page - 1) * query[d].size \in Int
    BY DEF LeftAfter, Query
  <2>8. first[d] \subseteq Listed(query[d])'
    BY <2>3, <2>4, <2>5
  <2>. QED BY <1>0, <2>1, <2>2, <2>6, <2>7, <2>8 DEF LeftOK, LeftAfter
<1>3. ASSUME NEW c \in Clients, Ask(c) PROVE (Reads(d) => LeftOK(d))'
  <2>1. CASE d = c
    <3>1. PICK q \in Queries : query'[c] = q /\ first'[c] = Listed(q)
      BY <1>3 DEF Ask
    <3>2. pc'[c] = "rows" /\ UNCHANGED <<orders, seen>>
      BY <1>3 DEF Ask, Goto
    <3>3. q \in Query /\ Listed(q)' = Listed(q)
      BY <3>2, ListingAssumption DEF Listed, Matches
    <3>4. ASSUME NEW id \in Listed(q), IsLimited(q)
          PROVE  Cardinality(NewerIn(Listed(q), id)) >= (q.page - 1) * q.size
      <4>1. q.page = 1 /\ q.size \in Int
        BY <3>1, <3>3, <3>4 DEF FromTheFirstPage, IsLimited, Query
      <4>2. (q.page - 1) * q.size = 0
        BY <4>1
      <4>. QED BY <3>3, <3>4, <4>2, CountedBesides
    <3>. QED BY <2>1, <3>1, <3>2, <3>3, <3>4 DEF LeftOK, Comes
  <2>2. CASE d # c
    BY <1>0, <1>3, <2>2, LeftKept DEF Ask, Goto
  <2>. QED BY <2>1, <2>2
<1>4. ASSUME NEW c \in Clients, AskNext(c) PROVE (Reads(d) => LeftOK(d))'
  <2>1. CASE d = c
    <3>. DEFINE q == query[c]
    <3>1. /\ pc[c] = "done" /\ answer[c] = "200" /\ pc'[c] = "rows"
          /\ query'[c] = [q EXCEPT !.page = @ + 1]
          /\ UNCHANGED <<orders, rows, total, seen, first, wanted>>
      BY <1>4 DEF AskNext, HasMore, Paged, Goto
    <3>2. /\ q \in Query /\ query'[c] \in Query /\ query'[c].page = q.page + 1
          /\ query'[c].user = q.user /\ query'[c].filter = q.filter /\ query'[c].days = q.days
          /\ query'[c].newestFirst = q.newestFirst /\ query'[c].size = q.size
          /\ query'[c].noPaginate = q.noPaginate
      BY <3>1, NextPage DEF Query
    <3>3. Listed(query[c])' = Listed(q)
      BY <3>1, <3>2 DEF Listed, Matches
    <3>4. IsLimited(q) => IsLimited(query'[c]) /\ (query'[c].page - 1) * query'[c].size = LeftAfter(c)
      <4>1. q.page \in Int /\ query'[c].page - 1 = q.page
        BY <3>2 DEF Query
      <4>2. (query'[c].page - 1) * query'[c].size = q.page * q.size
        BY <3>2, <4>1, Zenon
      <4>3. IsLimited(q) => IsLimited(query'[c])
        BY <3>2, <4>1 DEF IsLimited
      <4>. QED BY <4>2, <4>3 DEF LeftAfter
    <3>5. SUFFICES ASSUME Reads(c)' PROVE LeftOK(c)'
      BY <2>1
    <3>6. LeftOK(c)
      BY <1>0, <2>1, <3>1, <3>2, <3>5 DEF Reads
    <3>. QED BY <3>1, <3>3, <3>4, <3>6 DEF LeftOK, Comes
  <2>2. CASE d # c
    BY <1>0, <1>4, <2>2, LeftKept DEF AskNext, Goto
  <2>. QED BY <2>1, <2>2
<1>5. ASSUME NEW c \in Clients, AskOne(c) PROVE (Reads(d) => LeftOK(d))'
  <2>1. CASE d = c
    BY <1>5, <2>1, ListingAssumption DEF AskOne, Reads
  <2>2. CASE d # c
    BY <1>0, <1>5, <2>2, LeftKept DEF AskOne, Goto
  <2>. QED BY <2>1, <2>2
<1>6. ASSUME NEW c \in Clients,
             Refuse(c) \/ AskReport(c) \/ SelectReport(c) \/ Panic(c)
               \/ \E status \in {"passed", "404", "500"} : Fail(c, status)
      PROVE  (Reads(d) => LeftOK(d))'
  <2>1. UNCHANGED <<orders, query, rows, total, seen, first, wanted>>
    BY <1>6 DEF Refuse, AskReport, SelectReport, Panic, Fail
  <2>2. /\ pc'[d] \in {pc[d], "refused", "report", "reported", "lost", "done"}
        /\ pc'[d] = "done" /\ answer'[d] = "200" => pc[d] = "done" /\ answer[d] = "200"
    BY <1>6 DEF Refuse, AskReport, SelectReport, Panic, Fail, Goto
  <2>. QED BY <1>0, <2>1, <2>2, LeftKept
<1>7. ASSUME NEW c \in Clients, Answer(c), pc[c] \in {"menus", "users"}
      PROVE  (Reads(d) => LeftOK(d))'
  <2>1. CASE d = c
    <3>1. /\ pc'[c] = "done" /\ seen'[c] = seen[c] \cup Range(rows[c])
          /\ UNCHANGED <<orders, query, rows, total, first, wanted>>
      BY <1>7 DEF Answer, Goto
    <3>2. Listed(query[c])' = Listed(query[c])
      BY <3>1 DEF Listed, Matches
    <3>. QED BY <1>0, <1>7, <2>1, <3>1, <3>2 DEF Reads, LeftOK, Comes, LeftAfter
  <2>2. CASE d # c
    BY <1>0, <1>7, <2>2, LeftKept DEF Answer, Goto
  <2>. QED BY <2>1, <2>2
<1>8. ASSUME NEW c \in Clients, SelectRows(c) PROVE (Reads(d) => LeftOK(d))'
  <2>1. CASE d = c
    <3>. DEFINE q == query[c]
    <3>1. PICK s \in Arrangements(Listed(q), q) : rows' = [rows EXCEPT ![c] = Page(s, q)]
      BY <1>8 DEF SelectRows
    <3>2. /\ pc[c] = "rows" /\ pc'[c] = "count" /\ rows'[c] = Page(s, q)
          /\ UNCHANGED <<orders, query, total, seen, first, wanted>>
      BY <1>8, <3>1 DEF SelectRows, Goto
    <3>3. Listed(query[c])' = Listed(q)
      BY <3>2 DEF Listed, Matches
    <3>4. SUFFICES ASSUME Reads(c) PROVE LeftOK(c)'
      BY <2>1, <3>2 DEF Reads
    <3>5. ASSUME NEW id \in first[c] \ (seen[c] \cup Range(Page(s, q)))
          PROVE  Comes(c, id, LeftAfter(c))
      <4>1. /\ q \in Query /\ q.newestFirst /\ IsFiniteSet(Listed(q))
            /\ Listed(q) \in SUBSET Nat /\ id \in Listed(q) \ Range(Page(s, q))
        BY <1>0, <2>1, <3>4, <3>5, ListedIsFinite DEF Reads, LeftOK
      <4>2. IsLimited(q) => Cardinality(NewerIn(Listed(q), id)) >= (q.page - 1) * q.size
        BY <1>0, <2>1, <3>2, <3>4, <3>5 DEF LeftOK, Comes
      <4>3. IsLimited(q) /\ Cardinality(NewerIn(Listed(q), id)) >= q.page * q.size
        <5>. HIDE DEF q
        <5>. QED BY <4>1, <4>2, PageComesNext
      <4>. QED BY <4>3 DEF Comes, LeftAfter
    <3>. QED BY <1>0, <2>1, <3>2, <3>3, <3>4, <3>5 DEF LeftOK, Comes, LeftAfter
  <2>2. CASE d # c
    BY <1>0, <1>8, <2>2, LeftKept DEF SelectRows, Goto
  <2>. QED BY <2>1, <2>2
<1>9. ASSUME NEW c \in Clients, SelectAllRows(c) PROVE (Reads(d) => LeftOK(d))'
  <2>1. CASE d = c
    <3>. DEFINE q == query[c]
    <3>1. PICK s \in Arrangements(Listed(q), q) : rows' = [rows EXCEPT ![c] = s]
      BY <1>9 DEF SelectAllRows
    <3>2. /\ pc'[c] = "menus" /\ rows'[c] = s
          /\ UNCHANGED <<orders, query, total, seen, first, wanted>>
      BY <1>9, <3>1 DEF SelectAllRows, Goto
    <3>3. Listed(query[c])' = Listed(q)
      BY <3>2 DEF Listed, Matches
    <3>4. Range(s) = Listed(q)
      <4>1. q \in Query /\ IsFiniteSet(Listed(q))
        BY ListedIsFinite
      <4>. HIDE DEF q
      <4>. QED BY <4>1, PageOfListing
    <3>. QED BY <1>0, <2>1, <3>2, <3>3, <3>4 DEF Reads, LeftOK
  <2>2. CASE d # c
    BY <1>0, <1>9, <2>2, LeftKept DEF SelectAllRows, Goto
  <2>. QED BY <2>1, <2>2
<1>10. ASSUME NEW c \in Clients, CountRows(c) PROVE (Reads(d) => LeftOK(d))'
  <2>1. CASE d = c
    <3>. DEFINE q == query[c]
    <3>1. /\ pc[c] = "count" /\ pc'[c] = "menus" /\ total'[c] = Cardinality(Counted(q))
          /\ UNCHANGED <<orders, query, rows, seen, first, wanted>>
      BY <1>10 DEF CountRows, Goto
    <3>2. Listed(query[c])' = Listed(q)
      BY <3>1 DEF Listed, Matches
    <3>3. SUFFICES ASSUME Reads(c) PROVE LeftOK(c)'
      BY <2>1, <3>1 DEF Reads
    <3>4. ASSUME NEW id \in first[c] \ (seen[c] \cup Range(rows[c]))
          PROVE  Comes(c, id, LeftAfter(c)) /\ Cardinality(Counted(q)) > LeftAfter(c)
      <4>1. Comes(c, id, LeftAfter(c)) /\ id \in Listed(q)
        BY <1>0, <2>1, <3>1, <3>3, <3>4 DEF LeftOK
      <4>2. /\ Cardinality(NewerIn(Listed(q), id)) \in Nat /\ Cardinality(Counted(q)) \in Nat
            /\ Cardinality(Counted(q)) > Cardinality(NewerIn(Listed(q), id))
        BY <4>1, CountedBesides, ListedIsFinite
      <4>3. LeftAfter(c) \in Int
        BY DEF LeftAfter, Query
      <4>4. Cardinality(NewerIn(Listed(q), id)) >= LeftAfter(c)
        BY <4>1 DEF Comes
      <4>. HIDE DEF q
      <4>. QED BY <4>1, <4>2, <4>3, <4>4
    <3>. QED BY <1>0, <2>1, <3>1, <3>2, <3>3, <3>4 DEF LeftOK, Comes, LeftAfter
  <2>2. CASE d # c
    BY <1>0, <1>10, <2>2, LeftKept DEF CountRows, Goto
  <2>. QED BY <2>1, <2>2
<1>11. ASSUME NEW c \in Clients, SelectOne(c) PROVE (Reads(d) => LeftOK(d))'
  <2>1. CASE d = c
    BY <1>0, <1>11, <2>1 DEF SelectOne, Reads, LeftOK
  <2>2. CASE d # c
    BY <1>0, <1>11, <2>2, LeftKept DEF SelectOne, Goto
  <2>. QED BY <2>1, <2>2
<1>12. ASSUME NEW c \in Clients, MenusNamed(c) PROVE (Reads(d) => LeftOK(d))'
  <2>1. CASE query[c].user = 0
    BY <1>0, <1>12, <2>1, LeftKept DEF MenusNamed, Goto
  <2>2. CASE query[c].user # 0
    BY <1>7, <1>12, <2>2 DEF MenusNamed
  <2>. QED BY <2>1, <2>2
<1>. QED
  BY <1>1, <1>2, <1>3, <1>4, <1>5, <1>6, <1>7, <1>8, <1>9, <1>10, <1>11, <1>12
     DEF Next, Terminating, Handler, OneIsNotFound, StatementFails, NothingToName, UsersNamed,
         PeerFails

-------------------------------------------------------------------------------
(* The report.                                                             *)

\* The orders as the report reads them, now or after a step.
IsBook(book) == DOMAIN book \subseteq 1..MaxOrders /\ \A id \in DOMAIN book : book[id] \in Order
MoneyIn(book, ids) == SumFunction([id \in ids |-> book[id].total])

LEMMA MoneyCounts ==
  ASSUME NEW book, IsBook(book), NEW S \in SUBSET DOMAIN book, NEW T \in SUBSET S
  PROVE  /\ Cardinality(T) \in Nat /\ Cardinality(S) \in Nat
         /\ Cardinality(T) <= Cardinality(S)
         /\ MoneyIn(book, T) \in Nat /\ MoneyIn(book, S) \in Nat
         /\ MoneyIn(book, T) <= MoneyIn(book, S)
<1>. DEFINE g == [id \in S |-> book[id].total]
            h == [id \in T |-> book[id].total]
<1>1. IsFiniteSet(S) /\ IsFiniteSet(T)
  <2>1. IsFiniteSet(1..MaxOrders) /\ S \subseteq 1..MaxOrders /\ T \subseteq 1..MaxOrders
    BY FS_Interval, ListingAssumption DEF IsBook
  <2>. QED BY <2>1, FS_Subset
<1>2. (\A x \in S : g[x] \in Nat) /\ (\A x \in T : h[x] \in Nat /\ h[x] = g[x] /\ g[x] \in Int)
  BY DEF IsBook, Order
<1>3. MoneyIn(book, S) = SumFunctionOnSet(g, S) /\ MoneyIn(book, T) = SumFunctionOnSet(h, T)
  BY DEF MoneyIn, SumFunction
<1>. HIDE DEF g, h
<1>4. SumFunctionOnSet(g, S) \in Nat /\ SumFunctionOnSet(h, T) \in Nat
  BY <1>1, <1>2, SumIsNat
<1>5. SumFunctionOnSet(h, T) = SumFunctionOnSet(g, T)
  BY <1>1, <1>2, SumEqual
<1>6. SumFunctionOnSet(g, T) <= SumFunctionOnSet(g, S)
  BY <1>1, <1>2, SumMonotone
<1>7. Cardinality(T) \in Nat /\ Cardinality(S) \in Nat /\ Cardinality(T) <= Cardinality(S)
  BY <1>1, FS_Subset, FS_CardinalityType
<1>. QED BY <1>3, <1>4, <1>5, <1>6, <1>7

\* The money of an order is what it was placed with.
LEMMA MoneyStays ==
  ASSUME NEW book, IsBook(book), NEW T \in SUBSET DOMAIN book,
         NEW next, \A id \in T : next[id].total = book[id].total
  PROVE  MoneyIn(next, T) = MoneyIn(book, T)
<1>. DEFINE g == [id \in T |-> book[id].total]
            h == [id \in T |-> next[id].total]
<1>1. IsFiniteSet(T)
  <2>1. IsFiniteSet(1..MaxOrders) /\ T \subseteq 1..MaxOrders
    BY FS_Interval, ListingAssumption DEF IsBook
  <2>. QED BY <2>1, FS_Subset
<1>2. \A x \in T : g[x] \in Int /\ h[x] = g[x]
  BY DEF IsBook, Order
<1>3. MoneyIn(book, T) = SumFunctionOnSet(g, T) /\ MoneyIn(next, T) = SumFunctionOnSet(h, T)
  BY DEF MoneyIn, SumFunction
<1>. HIDE DEF g, h
<1>. QED BY <1>1, <1>2, <1>3, SumEqual

\* What the report of c says of a day, when ids were shown of it and placed is
\* what was placed on it.
DayOK(c, day, ids, placed) ==
  IF day \in DOMAIN report[c]
  THEN /\ report[c][day].totalOrder \in Cardinality(ids)..Cardinality(placed)
       /\ report[c][day].total \in Money(ids)..Money(placed)
  ELSE ids = {}

RInv ==
  /\ DOMAIN report = Clients
  /\ \A c \in Clients : pc[c] = "reported" =>
       \A day \in query[c].days : DayOK(c, day, seen[c] \cap PlacedOn(day), PlacedOn(day))

\* A step that leaves the orders and the report of d alone.
LEMMA DayKept ==
  ASSUME NEW d \in Clients, NEW day, UNCHANGED orders, report'[d] = report[d], seen'[d] = seen[d],
         DayOK(d, day, seen[d] \cap PlacedOn(day), PlacedOn(day))
  PROVE  DayOK(d, day, seen[d] \cap PlacedOn(day), PlacedOn(day))'
<1>1. PICK ids, placed : ids = seen[d] \cap PlacedOn(day) /\ placed = PlacedOn(day)
  OBVIOUS
<1>2. (seen[d] \cap PlacedOn(day))' = ids /\ PlacedOn(day)' = placed
  BY <1>1 DEF PlacedOn
<1>3. Money(ids)' = Money(ids) /\ Money(placed)' = Money(placed)
  BY DEF Money
<1>. QED BY <1>1, <1>2, <1>3 DEF DayOK

LEMMA InitReports == Init => RInv
BY DEF Init, RInv

LEMMA NextReports == TInv /\ SInv /\ RInv /\ [Next]_vars => RInv'
<1>. SUFFICES ASSUME TInv, SInv, RInv, [Next]_vars PROVE RInv'
  OBVIOUS
<1>. USE DEF TInv, CallTypes
<1>1. ASSUME UNCHANGED <<orders, report>>,
             \A d \in Clients : pc'[d] = "reported" =>
               pc[d] = "reported" /\ query'[d] = query[d] /\ seen'[d] = seen[d]
      PROVE  RInv'
  <2>1. ASSUME NEW d \in Clients, pc'[d] = "reported", NEW day \in query[d].days
        PROVE  DayOK(d, day, seen[d] \cap PlacedOn(day), PlacedOn(day))'
    BY <1>1, <2>1, DayKept DEF RInv
  <2>. QED BY <1>1, <2>1 DEF RInv
<1>2. CASE PlaceOrder \/ MoveOrderOn
  <2>1. UNCHANGED <<pc, query, seen, report>>
    BY <1>2 DEF PlaceOrder, MoveOrderOn
  <2>2. SUFFICES ASSUME NEW c \in Clients, pc[c] = "reported", NEW day \in query[c].days
                 PROVE  DayOK(c, day, seen[c] \cap PlacedOn(day), PlacedOn(day))'
    BY <2>1 DEF RInv
  <2>3. PICK ids, placed, now :
          ids = seen[c] \cap PlacedOn(day) /\ placed = PlacedOn(day) /\ now = PlacedOn(day)'
    OBVIOUS
  <2>4. PICK book, next : book = orders /\ next = orders'
    OBVIOUS
  <2>5. IsBook(book) /\ IsBook(next)
    BY <1>2, <2>4, OrdersGrow DEF Stored, IsBook
  <2>6. seen[c] \subseteq DOMAIN orders
    BY DEF SInv, ShownOK, HasOne
  <2>7. /\ placed \subseteq DOMAIN book /\ placed \subseteq now /\ now \subseteq DOMAIN next
        /\ (seen[c] \cap PlacedOn(day))' = ids /\ ids \subseteq placed
        /\ \A id \in placed : next[id].total = book[id].total
    BY <1>2, <2>1, <2>3, <2>4, <2>6, OrdersGrow DEF PlacedOn
  <2>8. /\ Money(ids) = MoneyIn(book, ids) /\ Money(ids)' = MoneyIn(next, ids)
        /\ Money(placed) = MoneyIn(book, placed) /\ Money(now)' = MoneyIn(next, now)
    BY <2>4 DEF Money, MoneyIn
  <2>9. MoneyIn(next, ids) = MoneyIn(book, ids) /\ MoneyIn(next, placed) = MoneyIn(book, placed)
    BY <2>5, <2>7, MoneyStays
  <2>10. /\ Cardinality(ids) \in Nat /\ Cardinality(placed) \in Nat /\ Cardinality(now) \in Nat
         /\ Cardinality(placed) <= Cardinality(now)
         /\ MoneyIn(book, ids) \in Nat /\ MoneyIn(book, placed) \in Nat
         /\ MoneyIn(next, now) \in Nat /\ MoneyIn(next, placed) <= MoneyIn(next, now)
    <3>1. /\ Cardinality(ids) \in Nat
          /\ MoneyIn(book, ids) \in Nat /\ MoneyIn(book, placed) \in Nat
      BY <2>5, <2>7, MoneyCounts
    <3>2. /\ Cardinality(placed) \in Nat /\ Cardinality(now) \in Nat
          /\ Cardinality(placed) <= Cardinality(now)
          /\ MoneyIn(next, now) \in Nat /\ MoneyIn(next, placed) <= MoneyIn(next, now)
      BY <2>5, <2>7, MoneyCounts
    <3>. QED BY <3>1, <3>2
  <2>11. DayOK(c, day, ids, placed)
    BY <2>2, <2>3 DEF RInv
  <2>12. DayOK(c, day, ids, now)'
    BY <2>1, <2>8, <2>9, <2>10, <2>11 DEF DayOK
  <2>. QED BY <2>3, <2>7, <2>12 DEF DayOK
<1>3. ASSUME NEW c \in Clients, SelectReport(c) PROVE RInv'
  <2>1. /\ UNCHANGED <<orders, query, seen>> /\ DOMAIN report' = Clients
        /\ report'[c] = Summary(query[c].days)
        /\ \A d \in Clients : d # c => pc'[d] = pc[d] /\ report'[d] = report[d]
    BY <1>3 DEF SelectReport, Goto, RInv
  <2>2. ASSUME NEW day \in query[c].days
        PROVE  DayOK(c, day, seen[c] \cap PlacedOn(day), PlacedOn(day))'
    <3>1. PICK ids, placed, book :
            ids = seen[c] \cap PlacedOn(day) /\ placed = PlacedOn(day) /\ book = orders
      OBVIOUS
    <3>2. /\ PlacedOn(day)' = placed /\ (seen[c] \cap PlacedOn(day))' = ids
          /\ ids \subseteq placed /\ placed \subseteq DOMAIN book /\ IsBook(book)
      BY <2>1, <3>1 DEF PlacedOn, Stored, IsBook
    <3>3. /\ Money(ids)' = MoneyIn(book, ids) /\ Money(placed)' = MoneyIn(book, placed)
          /\ Money(placed) = MoneyIn(book, placed)
      BY <2>1, <3>1 DEF Money, MoneyIn
    <3>4. /\ day \in DOMAIN report'[c] <=> placed # {}
          /\ placed # {} => report'[c][day] = [totalOrder |-> Cardinality(placed),
                                               total |-> MoneyIn(book, placed)]
      BY <2>1, <2>2, <3>1, <3>3 DEF Summary
    <3>5. /\ Cardinality(ids) \in Nat /\ Cardinality(placed) \in Nat
          /\ Cardinality(ids) <= Cardinality(placed)
          /\ MoneyIn(book, ids) \in Nat /\ MoneyIn(book, placed) \in Nat
          /\ MoneyIn(book, ids) <= MoneyIn(book, placed)
      BY <3>2, MoneyCounts
    <3>6. DayOK(c, day, ids, placed)'
      BY <3>2, <3>3, <3>4, <3>5 DEF DayOK
    <3>. QED BY <3>2, <3>6 DEF DayOK
  <2>3. ASSUME NEW d \in Clients, d # c, pc'[d] = "reported", NEW day \in query[d].days
        PROVE  DayOK(d, day, seen[d] \cap PlacedOn(day), PlacedOn(day))'
    BY <2>1, <2>3, DayKept DEF RInv
  <2>. QED BY <2>1, <2>2, <2>3 DEF RInv
<1>4. ASSUME NEW c \in Clients,
             Ask(c) \/ Refuse(c) \/ AskNext(c) \/ AskOne(c) \/ AskReport(c) \/ SelectRows(c)
               \/ SelectAllRows(c) \/ CountRows(c) \/ Panic(c) \/ SelectOne(c)
      PROVE  RInv'
  BY <1>1, <1>4
     DEF Ask, Refuse, AskNext, HasMore, AskOne, Finished, Paged, AskReport, SelectRows,
         SelectAllRows, CountRows, Panic, SelectOne, Goto
<1>5. ASSUME NEW c \in Clients,
             Answer(c) \/ (\E status \in Statuses : Fail(c, status)) \/ MenusNamed(c)
      PROVE  RInv'
  BY <1>1, <1>5 DEF Answer, Fail, MenusNamed, Goto
<1>. QED
  BY <1>1, <1>2, <1>3, <1>4, <1>5
     DEF Next, Terminating, Handler, OneIsNotFound, StatementFails, NothingToName, UsersNamed,
         PeerFails, Statuses, vars

-------------------------------------------------------------------------------
(* The safety properties.                                                  *)

LEMMA ShownInv == Spec => [](TInv /\ SInv)
<1>1. Init => TInv /\ SInv
  BY InitTypes, InitShows
<1>2. TInv /\ SInv /\ [Next]_vars => (TInv /\ SInv)'
  BY NextTypes, NextShows
<1>. QED BY <1>1, <1>2, PTL DEF Spec

\* A user is shown his own orders only, on pages and in detail.
THEOREM HistoriesArePrivate == Spec => []OnlyOwnOrders
<1>1. SInv => OnlyOwnOrders
  BY DEF SInv, ShownOK, HasOne, OnlyOwnOrders
<1>. QED BY <1>1, ShownInv, PTL

\* The report covers what the listing of the same days showed before it, in number
\* and in money, and no more than was placed by now.
THEOREM ReportsCoverListings == Spec => []ReportCoversListing
<1>1. Init => TInv /\ SInv /\ RInv
  BY InitTypes, InitShows, InitReports
<1>2. TInv /\ SInv /\ RInv /\ [Next]_vars => (TInv /\ SInv /\ RInv)'
  BY NextTypes, NextShows, NextReports
<1>3. RInv => ReportCoversListing
  BY DEF RInv, DayOK, ReportCoversListing
<1>. QED BY <1>1, <1>2, <1>3, PTL DEF Spec

\* A client that begins with the first page and reads on until it is told that a
\* page is the last was shown every order that was there when it began, whatever
\* was placed and moved on meanwhile.
THEOREM ReadersSeeAll ==
  ASSUME FromTheFirstPage PROVE Spec => []NoOrderSkipped
<1>1. Init => TInv /\ NInv
  BY InitTypes, InitLeft
<1>2. TInv /\ NInv /\ [Next]_vars => (TInv /\ NInv)'
  BY NextTypes, NextLeft
<1>3. ASSUME TInv, NInv PROVE NoOrderSkipped
  <2>. SUFFICES ASSUME NEW c \in Clients, Finished(c), query[c].newestFirst,
                       query[c].filter # "orderStatus",
                       NEW id \in first[c] \ seen[c]
                PROVE  FALSE
    BY DEF NoOrderSkipped
  <2>. DEFINE q == query[c]
  <2>1. IsLimited(q) /\ total[c] > q.page * q.size
    BY <1>3 DEF NInv, Reads, LeftOK, Finished, Paged, Comes, LeftAfter
  <2>2. q \in Query /\ total[c] \in Nat
    BY <1>3 DEF TInv, CallTypes
  <2>3. q.page \in Int /\ q.size \in Int /\ q.page > 0 /\ q.size > 0
    BY <2>1, <2>2 DEF IsLimited, Query
  <2>4. q.page >= TotalPages(total[c], q.size)
    BY <2>1 DEF Finished, IsLastPage, IsUnpaged, IsLimited
  <2>5. q.page * q.size >= total[c]
    <3>. HIDE DEF q
    <3>. QED BY <2>2, <2>3, <2>4, LastPageIsFarEnough
  <2>6. q.page * q.size \in Int
    BY <2>3
  <2>. QED BY <2>1, <2>2, <2>5, <2>6
<1>. QED BY <1>1, <1>2, <1>3, PTL DEF Spec
===============================================================================
