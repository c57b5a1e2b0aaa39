# Verification of transaction-app

`transaction-app` is the ordering service of a restaurant: a Go/Fiber HTTP service on PostgreSQL.
Clients place orders that a wallet service pays, baristas move orders on, clients rate what they ate, and
ratings are passed to the master-data service over RabbitMQ. This directory holds TLA+ models of it, TLC
configurations that check them on small instances, and TLAPS proofs of the properties that matter most.

The reference is the code under `src/`; line numbers below are of the same commit. The repository has no
tests. Its documents (`DOCS_MIGRATION.md`, `DOCS_CREATE_MODULE.md`) describe developer tools only.

Every command is run in this directory:

    tlasany Checkout.tla                                  # parse
    tlc -workers 2 -config MCCheckout.cfg MCCheckout      # model-check
    tlapm CheckoutProofs.tla                              # prove, and each other *Proofs.tla

## 1. The system

### Components

| component | state | operations | model |
|---|---|---|---|
| Checkout, `POST /checkout` (`route.go:50`, `service.go:44`, `repository.go:35-56`) | tables `th_user_checkouts`, `td_user_checkouts`; the wallet's debits | validate, begin, ask master data, price, pay, insert header and lines, commit | `Checkout`, `Pricing`, `Money`, `OrderBook` |
| Transactions and pool (`wrapper.go:199`, `db/postgres.go:34`) | open connections, at most `DBMaxPoolSize` | `Beginx`, `Commit`, `Rollback` | `ConnPool`, and inside each handler |
| Internal HTTP client (`internalRequest.go`) | none | signed request, 10 s timeout, passes every status of the peer but 200 on | outcomes of `MenusFail`, `PaymentFails`, `PaymentRefused` |
| Ratings, `PATCH /history-checkouts/set-rating-menu` (`service.go:389`, `repository.go:303`) | `td_user_checkouts.rating` | update where NULL, publish, commit | `Rating` |
| RabbitMQ client (`lib/rabbitmq.go`) | one shared connection, a mutex, channels | `GetConnection`, `GetChannel`, `SendMessage`, `HealthCheck` | `Broker`; `SendMessage` with an exchange in `Consumer` |
| Queue consumer (`rabbitmq.go:202-317`) | its channel, the message in hand | `ListenQueue` and the goroutine it leaves behind | `Consumer` |
| Order status, `PATCH /transactions/update-order-status` (`repository.go:284`) | `th_user_checkouts.order_status` | one guarded UPDATE | `OrderStatus` |
| Health probe, `GET /health` (`main.go:51`) | none | ping over a connection of the pool, then `HealthCheck` | `Health` |
| Listings and details (`service.go:84-378`, `repository.go:58-282`) | none | a page of rows, its count, one order, names of menus, tables and users from two peers | `Listing`, `Names` |
| Query builder (`wrapper.go:15-197`) | none | search fields, range of dates, order, page and size to SQL | `Filters` |
| Summary report (`route.go:83`, `repository.go:321`) | none | one SELECT over a range of days | `Listing`, `Filters` |
| The process (`main.go`) | what its handlers share | handlers side by side, death and restart | `Service` |
| Gates: JWT, roles, validation (`jwt.go`, `validator.go`) | none | let a request in or turn it away | the action `Refuse` of each handler; dates in `Filters` |
| Error mapping (`middleware/error.go`) | none | an error to a status | `Finish` of each handler |
| Logging, telemetry, object storage, configuration, generators | none that matters here | | not modelled |

### How they interact

Fiber runs every request in a goroutine of its own; the goroutines share three things. The first is the
connection pool of `database/sql`. The second is the RabbitMQ connection of `lib/rabbitmq.go`, with its
mutex. The third is the database itself, whose transactions run in READ COMMITTED. A handler that writes
runs inside `WithTransaction`: it takes a connection, calls the service, and commits or rolls back. From
inside that transaction the service calls other services over HTTP (master data, wallet) or publishes to
RabbitMQ, so remote calls happen with a connection, and sometimes with a row lock, in hand.

### What is hard

* **Two stores, no common transaction.** The wallet debits before the order is written (`service.go:64`),
  and nothing refunds. Every failure after the debit leaves a charge with no order. The code's order of
  steps makes the opposite impossible, and that is what can be promised.
* **Answers that tell nothing.** The HTTP client gives up after 10 s (`internalRequest.go:45`), and
  `Commit` may fail (`wrapper.go:220`) after it was applied, before, or while it is on its way.
* **Message before commit.** A rating is published before it commits (`service.go:401`). Publishing writes to
  the socket, without a publisher confirm, and the connection may be dead though nobody has noticed yet.
* **Amounts.** They are computed as `float64` and stored as `DECIMAL(10,2)`, a header and each of its lines
  rounded by itself.
* **Waiting with resources in hand.** `Beginx` has no deadline, the retry loop of `GetConnection` holds
  the mutex for as long as the broker is down, and its callers hold a connection and a row lock.
* **Messages that come back.** A consumer acknowledges after it handled, gives back what it could not
  handle, and ends for good when its channel does (`rabbitmq.go:286-312`).
* **Concurrent updates of one row.** Two baristas move one order, two clients rate one line.
* **Crashes.** No middleware recovers a panic, so a panic in one request ends them all.
* **Reading while others write.** A page and its count are two statements outside any transaction
  (`repository.go:124`), and a client reads page after page while orders come and leave the filter.
* **Statements that should agree.** The total of a call and of its lines (`service.go:416-429`); the list
  query and the count query, with a text and a loop each (`repository.go:63-111`, `wrapper.go:15-143`); the
  dates that are validated and the dates that are sent (`route.go:87-98`); the ids asked for and the ids shown
  (`service.go:93-117`).

`PROJECT.json` lists each hazard at its line, with the properties that cover it.

### What makes each component correct

* *Checkout*: an order that can be read was paid exactly once, an amount that its total is rounded from;
  header and lines appear together and differ by no more than their rounding; prices come from master data;
  the answer never claims more, or less, than what happened; every way out gives the connection back; every
  call ends.
* *Ratings*: a stored rating is final, and Publish returned nil for its message before; concurrent calls
  cannot both succeed; a refusal is for good; an outage delays calls but does not block them for ever.
* *RabbitMQ client*: one connection is shared; another is dialled only when the last is lost.
* *Order status*: no step is lost and none goes past the maximum.
* *Queue consumer*: no message is lost between sender, queue and handler; none is handled twice unless
  something broke; a message that always fails does not keep the others away.
* *Health probe*: a probe ends, and an outage is reported.
* *The process*: handlers that wait for each other all end, and an outage of the broker reaches a checkout
  in no way but through the pool.
* *Listings*: a client that reads to the last page has seen every order that was there, sees only what it may
  see, and reaches a last page once no more orders are placed; what has no name is explained.
* *Summary report*: it covers what the listing of the same days showed.
* *Query builder*: the filter is the one asked for, page and count filter alike, Postgres accepts the
  statements but for a sort that it does not know and the count of a filtered history, and a range of dates
  that reaches it was validated: always in a report, in a listing if the client spells each date in one way.

## 2. The modules

    ConnPool <-- Checkout --> Pricing --> Money <-- OrderBook (abstract)  <== implemented by Checkout
    ConnPool <-- Rating   --> Broker           Service   composes Checkout, Rating and Health
    ConnPool <-- Health   --> Broker           Consumer  (the other end of a queue)
    ConnPool <-- OrderStatus
    Filters         Listing         Names      (a listing: its parameters, its statements, its names)

    CheckoutProofs --> Checkout          RatingProofs      --> Rating
    ConsumerProofs --> Consumer          OrderStatusProofs --> OrderStatus
    ListingProofs  --> Listing           ServiceProofs     --> Service --> ConnPool
    PageProofs     --> Filters, Names    each but ConsumerProofs --> Lemmas

Arrows are EXTENDS; `Checkout` takes `OrderBook` as an INSTANCE, and `Service` the components it composes.
The instances for TLC are in the modules `MCCheckout`, `MCRating`, `MCOrderStatus`, `MCHealth`, `MCService`,
`MCConsumer`, `MCListing`, `MCFilters` and `MCNames`.

### ConnPool

`conns` is the set of handlers with an open connection. `Acquire` waits for room, without a deadline and
in no particular order, as `database/sql` does for `Beginx`; `Release` is the end of Commit or Rollback.

### Money, Pricing

An amount that is computed, or on its way to the wallet, counts tenths of a cent; one that a column holds counts
cents. `Cents` is the rounding to `DECIMAL(10,2)` when a row is written. The error of `float64` stays far below
a tenth of a cent for every amount that the column can hold, so that all it can decide is which way half a cent
goes: `Cents` allows both there, and no other cents than the nearest.

`TotalPrice` and `PricedLines` are `calculateTotalPriceMenu`: the code walks over menus and lines in a
double loop and adds up and overwrites in place. The model takes the set of matching pairs, sums a function
over it (each pair once, as the loop does), and maps the lines. `MenuAnswers` is what master data may answer: any
of the menus asked for, each once, at any price.

### Checkout

`pc[r]` is the point the handler of request `r` has reached; `call[r]` its local variables.

| code | action |
|---|---|
| `RequireAuth`, `BodyParser`, `ValidateRequest` | `Accept`, `Refuse` |
| `db.Beginx` | `Begin`, `BeginFails` |
| `getAvailableMenuByIdsAndTableById`, the comparison of lengths, `calculateTotalPriceMenu` | `MenusAnswered`, `MenusMissing`, `MenusFail` |
| `paymentUseWallet` up to the request on the wire | `PostPayment` |
| its answer 200, the wallet's refusal, or anything else | `PaymentConfirmed`, `PaymentRefused`, `PaymentFails` |
| `InsertThTransaction`, the loop of `InsertTdTransaction`, with the rounding of their columns | `InsertTh`, `InsertTd`, `InsertFails` |
| `tx.Commit` up to the COMMIT on the wire, then its result | `SendCommit`, `CommitAcked`, `CommitFails` |
| the deferred rollback and the error handler | `Abort`, part of each failing action |
| Postgres and the wallet, in their own time | `CommitApplies`, `WalletDebits`, `WalletRefuses` |
| death and restart of the process | `Crash` |

A step of the model is the code between two points where another goroutine, a peer or a crash can be
observed. `post[r]` is the payment on the wire. It stays there when the handler gives up on it, so the
wallet may debit a request that was answered with 500, as it may in reality. `txn[r].commit` does the same
for COMMIT: after `CommitFails` the transaction may still be applied, or never.

`InternalRequest` hands every status of a peer but 200 to the client, as the status of an error
(`internalRequest.go:67-85`): a 4xx, a 503, but also a 201, which is the status the handler itself answers for a
placed order. The answer of the model is therefore a class: `success` is the handler's own 201 with `success: true`
in its body, `passed` a status handed on, whatever it is, `4xx` one that a client reads as its own fault.
Master data may answer any of them, and so may the wallet with the debit still to come; only a 4xx of the
wallet is taken for a refusal that is final, an assumption on the wallet. A client that looks at the status
alone cannot tell a passed 201 from a success.

Each request is a client of its own, and `by` is that request. The table stores the user id, which several
requests of one user share; the model needs to say which call an order came from. `no`, the position of a
line in the basket, stands for the serial id of `td_user_checkouts`. `menus` and `datas` of `call` are
kept after the handler ends, for the properties to look at.

A client may fill in `price` and `total` of an item, for both are fields of the request type
(`dto.go:46-52`). An empty list passes `required`, so the empty basket is an input. A quantity or total
too large for its column fails in the insert (`InsertFails`), after the debit.

### OrderBook

What a client may rely on, without connections, transactions or messages: `Charge`, `Place`, `Answer`.
`Checkout` implements it with `charged <- ledger`, and with the visible headers and their lines as
orders. The specification is written so that an order appears whole, once, after a debit of the amount its
total is rounded from; a client error is never followed by a debit; a success follows the order. It does not say
that a charge is followed by an order, because the service does not ensure that, nor anything of a status that is
passed on.

### Broker

`link` is the `conn` variable: `nil`, `live`, `dead` (lost, but `IsClosed` still answers false, until a
heartbeat is missed or a write fails) or `closed`. `dials` counts connections, and `got[c]` is the one a
handler was given, since another handler may have replaced it by the time it is used. A failing dial sleeps
and keeps the mutex, and changes nothing: it is a stutter. `channels` grows by one with each rating and is
emptied only by a new connection, because the code never closes a channel. `Publish` writes to the socket and
returns; `wire` is what is written and not yet read, and `BrokerReads` puts it into the queue, if there is one.
A connection can be cut while the broker runs on (`ConnectionLost`), or go down with it (`BrokerDown`); either takes
what is on the wire, and `losses` counts both. Publishing on a dead connection succeeds and the message is gone.
The broker may refuse a call on a live connection with an exception, which closes the channel (`CallRefused`).
SendMessage sets no delivery mode, so messages do not survive the broker. The order of frames on one connection is
not kept: the model's broker may read a message after it answered a later call, which is more than it can do.

### Rating, OrderStatus

Both have the shape of Checkout: gates, begin, one UPDATE, commit. `locked[l]` is the row lock the UPDATE
takes and the end of the transaction gives back. An UPDATE waits for the lock and then evaluates its WHERE on
the row it finds, which is what READ COMMITTED does and what the guards `rating IS NULL` and `order_status <
2` rely on. In `Rating` the calls of `lib/rabbitmq.go` follow with the lock in hand. A COMMIT that never
arrived is rolled back by Postgres some time later (`CommitLost`); until then the row stays locked.

Not every caller of the RabbitMQ client rates. Those outside `Ratings` are probes, and all that ratings can
see of a probe is its turn in `GetConnection`: `HealthCheck` takes the mutex once, for a probe has no connection
before, and then finds one or dials. `Health` says what else a probe does.

### Health

The ping takes a connection of the pool and gives it back (`Ping`, `PingAnswers`, `PingFails`); then comes
the same `GetConnection` the ratings use, on the same mutex.

### Service

One process: the next-state relation of `Checkout`, `Rating` and `Health`, each as an INSTANCE with variables
of its own, over one `conns`, one set of variables of `Broker`, and one `Crash` that takes all calls with it.
A step of one component leaves the others' variables alone. Order status adds nothing to what the three
share. The properties of the components are not repeated here; those of `Service` are about what the
components do to each other: who holds the connections of the pool (`ConnectionsAccountedFor`) and the mutex
(`OneInsideGetConnection`), and who waits for whom. `AmongProbes` is `Rating` with `conns \cap Ratings` for its
pool, among as many probes as the process has, and `ImplementsRating` says that the process implements it: what
`Rating` takes of a probe is all that a whole probe, as `Health` has it, does to ratings. No run checks it; it is
proved. That a checkout behaves in the process as it does alone says no more than that the variables of the
components are disjoint, which holds by the way `Service` is put together, and is not claimed.

### Consumer

| code | action |
|---|---|
| `ExchangeDeclare`, `QueueDeclare`, `QueueBind`, `Consume` | `DeclareExchange`, `QueueDeclare`, `QueueBind`, `Consume`, and `ListenFails` for each |
| `for msg := range msgs` | `Receive`, `EndOfMessages` |
| `handler(msg)` | `HandlerSucceeds`, `HandlerFails` |
| `msg.Ack(false)`, `msg.Nack(false, true)` | `Ack`, `Nack` |
| `SendMessage` | `SendMessage(m)` |
| RabbitMQ, external | `Deliver`, `LoseChannel` (what was not acknowledged goes back) |
| death of the process, and the call of `ListenQueue` in the next, by a program outside this repository | `Restart` |

`autoAck` and `exchange` are the parameters of the call, any of them. `ready` and `unacked` are the queue
as the broker keeps it, a set: nothing in the code relies on the order. `buffer[c]` is what was
delivered and not yet received; the code sets no Qos, so that it may be everything. With autoAck, what
is in the buffer is no longer at the broker, and is lost with the channel; without, it is delivered again.
`SendMessage` with a fanout or headers exchange declares no queue (`rabbitmq.go:120`), so that messages
sent before any consumer listened are `dropped`. `Poison` are messages whose handler always fails. A handler
that panics ends the process: `Restart` while in hand. The broker is never restarted here; the messages would not
survive it (see Broker), and nothing about them would hold. `ListenQueue` has no caller in this repository.

### Listing

*Listings.* A client asks for a page, the repository reads its rows (`SelectRows`) and then, as a second statement,
their number (`CountRows`), and the peers are asked for names. As long as the answer says that there are
more pages, the client asks for the next (`AskNext`). Meanwhile `PlaceOrder` commits orders, with ids in
any order, since an id is given out at the insert and not at the commit, and on any day, since `created_at`
is when the transaction began; and `MoveOrderOn` raises a status.

What the statements select is kept apart: `Listed` joins the lines of an order, so that an order without
lines (an empty basket) is not there, and `Counted` does not join them. A filter is one on a column that
never changes, a range of days, one on the status, or none. `Quo` is Go's division, towards zero, because a client may send
a negative size. Size 0 divides by zero, in the action `Panic`, which ends every call in the process. The
count of a filtered history always fails: its text names no table `t` (`repository.go:231`) and each filter
does, so `CountRows` is not enabled for it and `StatementFails` is. `noPaginate` leaves out the count for
the staff only. A peer that fails gives the client its status, whatever it is but 200 (`PeerFails`). The number of
pages grows with the orders, so that a client that reads no faster than orders are placed never comes to a last
page. The model has `MaxOrders` orders at most; what is claimed of readers that finish is therefore claimed once
no more are placed, which is what the bound makes true in every behaviour and not more. The bound of `AskNext`
never bites: there are no more pages than orders.

*Details and report.* A client that has read to the last page may ask for an order (`AskOne`): one it saw,
or any other id. `SelectOne` is the same join by id, for a history with the user in the WHERE; the names
follow as for a page, and `Panic` stands for a first table or user that is not there (`Names` says when). If
it is of the staff and listed a range of days it may ask for the report over them (`AskReport`,
`SelectReport`), whose sums run over headers, so that orders without lines count.

### Filters

The query string goes through `ParseQueryParams`, `BuildMappingField`, `BuildFilterQuery` and
`BuildCountQuery`, one action each, since each overwrites what the next reads: the mapping writes into the
slice of the caller, though the parameters are passed by value.

*Dates.* Before the mapping, the listing of the staff and the report look at their dates (`SkipDates`,
`ValidateDates`, `DatesRefused`): the report requires both, a listing with one of them is a listing without. The code
reads them twice. A listing takes them by their names, `startDate` and `endDate` (`Named`), and sends those to
Postgres; what it validates comes from `c.QueryParser` (`QueryParser`), which matches names in any spelling, and
of `?startDate=x&StartDate=2025-01-01` keeps either. So a query string has both dates in up to two spellings, and
`RangeIsValidated` says of a listing what remains true: if the client spells each date in one way, the dates that
are sent are those that were validated. The report sends what it validated.

*Statements.* A query is the set of its conditions, its named arguments, its order, and two facts of its text that
decide whether Postgres accepts it: how often it says WHERE, and whether it names the table `t`. The page and its
count are built in different places of the code, and in different places of the module: `Base` with the loop
`Where`, and `CountBase` with the loop `CountWhere`, so that a slip in one does not touch the other. A loop pairs
fields and values by position after the unknown fields were dropped, and gives up the filter when their numbers
differ; each turn adds one condition and one argument of its own name, so that `Compared` adds them at once. The
client's sort is spliced into ORDER BY as it is; `Sorts` are the pairs of a field and an order that Postgres takes,
and `Executable` asks for one of them. It is about the text alone: what Postgres makes of the value of an argument,
such as a date that was not validated or a page beyond its numbers, is left out. `Atoi` is the finite part of
`strconv.Atoi` that an instance needs.

### Names

What the service does with the rows: `Collect` builds the list of ids, in which an id counts as present
when its digits occur in the list so far (`strings.Contains`), `MenusAnswered` and `UsersAnswered` are the
two peers, `Fill` writes the names. The details ask for exactly one table and one user, and take the first
element of each answer unseen: `Panic`. `known` is what the peers know, any part of what could be asked.
`Within` is arithmetic on digits; a comma separates ids, so that digits of two ids never run together. A row
has one menu at least, for an order without lines is not in the join (`constant.go:25`). The module calls its
specification `NamesSpec`, and so on, so that `PageProofs` can speak of it and of `Filters`.

## 3. What TLC checks

| run | instance | distinct states | shows |
|---|---|---|---|
| `checkout_safety` | 2 requests, 2 connections, 4 baskets, 2 prices, one of them half a cent, 1 crash | 445 000 | orders are paid, whole and priced by master data; answers tell the truth; `Checkout` implements `OrderBook` |
| `checkout_pool` | 3 requests, 1 connection, fair handlers, 1 crash | 73 000 | no call keeps a connection for ever, the pool stays within its size, every accepted call ends |
| `rating_safety` | 3 calls for 2 lines, 2 connections, 2 channels, 1 loss (of the broker or of the connection), 1 crash | 1 512 000 | one rating wins, its message was published first, both answers tell the truth, and nothing is lost without a loss |
| `rating_live` | 2 ratings of 2 lines, 1 probe, 2 connections, 1 channel, 1 loss, 1 crash | 154 000 | every call ends once the broker is back |
| `order_status` | 3 calls for one order with two steps to go | 2 650 | no step lost, none past the maximum, a 400 is final |
| `health_outage` | 2 probes, 1 connection, 1 outage that may last | 358 | violated: see Findings |
| `service` | 1 checkout, 1 rating, 1 probe, 1 connection, 1 channel, 1 loss, 1 crash | 128 000 | connections are held by who needs them, one caller is inside `GetConnection`; all calls end if the broker comes back; the checkout ends even if not, unless ratings hold the pool |
| `consumer` | 2 consumers, 2 messages, 1 of them poison, 1 failure, 1 interruption each | 64 000 | no message is lost or handled twice without a reason, and a poisoned one does not block the other |
| `listing_safety` | 1 client, 14 kinds of listing, 3 orders of 3 shapes | 777 000 | no order is skipped, none of another user shown, the report covers what was listed |
| `listing_live` | 1 client, 3 kinds of listing, 3 orders of 2 shapes, fair handler | 580 000 | a client that reads on comes to the last page once no more orders are placed |
| `filters` | all query strings of up to 2 fields and 2 values, sorts of three kinds, dates in one spelling or two | 203 000 | the filter is the one asked for, page and count select alike; Postgres refuses an unknown sort and the count of a filtered history, and no more; ranges are validated, but for those in two spellings |
| `names` | pages of up to 2 of 16 rows, any knowledge of the peers | 166 000 | a name is missing only for a reason |

Each property of a passing run has a mutant in `PROJECT.json`: a plausible slip in a mapped definition (a
rollback that is skipped, a payment that is retried, an UPDATE without its guard, a lock not taken) under
which TLC finds the property violated. The mutated definitions stand beside the originals, marked
`Mutant`, and no specification uses them.

### Bounds, and why they are enough

* `MaxConns`. With as many connections as calls nothing waits; with fewer, calls wait. Both cases are run.
* *Requests*. The handlers of Checkout meet only in the pool and in the serial id, so two show every pair
  of interleavings, and three on one connection let calls wait behind calls that wait. In OrderStatus all
  calls name the same order (or none), the case in which they meet; three calls for an order with two
  steps to go make one too many. In Rating calls for one line take turns at its row lock, so two lines are
  needed for two handlers to meet in the RabbitMQ client, and a third call for two of them to meet in a
  line.
* *Service*. One call of each kind on one connection: each can wait for each of the others, in the pool, for
  the mutex, or through both. What several calls of one kind do to each other is in the runs of the
  components, with more of them; two ratings here take TLC beyond five minutes. The safety properties are
  proved for any number of calls and connections.
* *Consumers*. Two, so that a message one gives back is delivered to the other, or one goes on when the other
  lost its channel. Two messages, so that one comes back for ever beside one that does not. One
  interruption each lets a message be delivered again, to either.
* `MCBaskets`. The empty list, one item, two items, the same menu twice, a price filled in by the client.
  The code treats items one by one, and only compares numbers of lines and menus.
* `MCPrices`. Two, so that the price paid, the other price and the client's (90) differ. One is half a cent, so that
  a header of two such lines, and each of the lines, are rounded on their own; the other is whole cents.
* `MaxCrashes = 1`. A crash clears what the process held; what remains (rows, payments and COMMITs on the
  wire) is as before. `lost` calls stay lost, so a second crash only hits calls that began after the first.
* `MaxLosses = 1`, `ChannelMax` 1 or 2. One loss, of the broker or of the connection alone, makes the connection
  dead, closed and replaced, while handlers hold the old one; a limit below the number of calls lets channels run
  out. The losses that `NoSurplusConnection` counts are of both kinds, and so are those that excuse a lost message.
* *rating_live*. Two connections of the pool, so that two ratings meet at the mutex and in a row, and the probe
  meets both. That ratings wait for the pool as well is in `service`, where there is one connection.
* *Listings*. Readers do not influence each other (but for `Panic`, which only ends calls), so one client
  is enough. Three orders fill three pages of one, and let an order be placed before, between and behind
  the pages already read. `MCQueries` has pages of 1, 2 and -1 rows, page 0, each filter, no order and no
  pages, for staff and for a user, on two days; pages of size 0 are
  in `listing_live`, where they end the client's call and the property allows it.
* *Query strings*. Two fields and two values are enough for a field to be dropped and another to be paired
  with the wrong value; a third only repeats it. Fields are known (of either type), unknown or empty,
  values are numerals, texts or empty. A sort has one part, two that Postgres takes, or two that it does not. Two
  dates, a text and none at either end make every kind of range, and each again in a second spelling.
* *Names*. Ids are 1, 2, 12 and 121: digits of one another at the front, at the back and in the middle.
  With two orders of two menus each, they are met in either order.
* A connection pool of size 0 (no limit in `database/sql`) is not modelled; `.env.example` sets 10.

The calls (and the lines) are symmetric in `rating_safety`, the calls in `order_status`; no run that checks
liveness or refinement uses symmetry. `RatedOnce` is an action property and does not tell calls apart.

### Fairness

`FairSpec` of Checkout asks weak fairness of each handler: the HTTP client has a timeout of 10 s, a
statement is answered by Postgres or breaks with its connection, and Go schedules every goroutine. The
wallet is not fair, nor is the COMMIT of a broken connection; the handler must end without them. Crashes are
never required, and a call that is lost in one has ended. `db.Beginx` and `mu.Lock` wait in queues; weak
fairness is enough for them because the number of calls is finite.

`FairSpec` of Rating also asks that a broker that went down is started again and that a dead connection is
noticed (heartbeats), and that Postgres resolves a COMMIT: without the first the claim is false. A probe need not
come; one that has the mutex goes on. Nothing is asked of `BrokerReads` or `ConnectionLost`: no handler waits for a
message to arrive.

`FairSpec` of Health and of Service does not ask for the broker's return; where a property of Service needs
it, it says so (`[]<>up`). Nor does Service ask that a crash comes.

`FairSpec` of Consumer asks weak fairness of each goroutine, for handlers return, and that the broker
delivers each message it has a consumer for: without Qos it holds none back because another is not
acknowledged, so that one that was given back does not stand before the rest. Nothing opens a lost channel
again, so `EveryMessageHandled` is claimed where some consumer keeps its own.

`FairSpec` of Listing asks weak fairness of the handler and of a client that was told that there is more;
nobody needs to place or move orders. `EveryReaderFinishes` is about behaviours in which orders are placed no more
from some point on, and names that as its hypothesis.

### Findings

* **An outage of the broker is not reported by /health** (`health_outage`). `main.go:60` answers
  "RabbitMQ connection error" when `HealthCheck` fails, but `HealthCheck` calls `GetConnection`
  (`rabbitmq.go:320`), whose loop dials every 5 s and returns only with a connection. As soon as the old
  connection is known to be closed, a probe waits as long as the outage lasts, and holds the mutex, so
  later probes and ratings wait behind it.

Not findings, since no document says otherwise, but worth knowing: a failure after the debit leaves a
charge without an order (`service.go:67-79`); a peer's 201 is handed on as the status of an error
(`internalRequest.go:83`), the status of a placed order; header and lines of an order may differ by their roundings
(half a cent each) if master data quotes fractions of a cent; a message that was on its way when the connection was
cut is lost although the rating was answered with 200 (`rabbitmq.go:177`); a rating that is rolled back after it was
published leaves a message without a rating; channels are never closed, so that ratings fail once a connection has no more;
a listing with `size=0`, and a detail whose table or user the peers do not know, end the process
(`repository.go:134`, `service.go:269`); a filtered history answers 500, and so does a sort by a column that does
not exist; dates that a client spells in two ways reach Postgres without having been validated (`route.go:87-98`);
orders without lines are counted
and never listed, so that last pages may be empty; a listing leaves out the name of an id whose digits occur
in another; a client that filters by status may miss orders, since those that leave the filter move the
rest forward. `NoOrderSkipped` says nothing of the last, nor of listings without an order.

## 4. What TLAPS proves

Every invariant that a run checks is a theorem, and so is every action property and refinement, and a refinement
that no run checks; what remains for TLC alone is liveness. Each theorem is about `Spec` of its module (`NamesSpec` for Names), without fairness, for
every value of the constants that the named ASSUMEs allow: any number of requests, calls, consumers, messages
and orders, any baskets and prices, query strings and pages of any length, any size of the pool, any number of
crashes and of lost connections. TLC evaluates each ASSUME in every run that uses it. One theorem has a hypothesis of its
own, `ReadersSeeAll`, below.

| module | theorem | property |
|---|---|---|
| `CheckoutProofs` | `TypeCorrect` | `TypeOK`, with the size of the pool |
| | `OrdersArePaid` | `NoOrderWithoutPayment` |
| | `ChargedOnce` | `ChargedAtMostOnce` |
| | `ClientErrorsAreClean` | `ClientErrorsLeaveNoTrace` |
| | `SuccessIsPlaced` | `SuccessMeansPlacedOnce` |
| | `NoConnectionLeak` | `ConnectionsHeldByTransactions` |
| | `OrdersAreWhole` | `AllOrNothing` |
| | `QuotedPricesOnly` | `PricedByMasterData` |
| | `TotalsAgree` | `TotalIsSumOfLines` |
| | `CheckoutRefinesOrderBook` | `ImplementsOrderBook`, the refinement |
| `RatingProofs` | `TypeCorrect` | `TypeOK`, with pool, channels and mutex |
| | `RatingsArePublished` | `NoSilentRating` |
| | `SuccessIsStored`, `SuccessIsQueued` | `SuccessMeansRated`, `SuccessMeansQueued` |
| | `RefusalIsFinal` | `RefusedMeansRated` |
| | `DialsAreOwed` | `NoSurplusConnection` |
| | `RatingsAreFinal` | `RatedOnce`, an action property |
| `OrderStatusProofs` | `TypeCorrect` | `TypeOK` |
| | `NoUpdateLost` | `EveryAdvanceCounts` |
| | `RefusalIsFinal` | `RefusedMeansAtMaximum` |
| `ConsumerProofs` | `NoMessageLost` | `NothingForgotten` |
| | `DuplicatesAreExplained` | `HandledOnceUnlessInterrupted` |
| | `ListensUntilCutOff` | `StopsOnlyWithItsChannel` |
| | `QueueIsRouted` | `ListeningMeansRouted` |
| `ListingProofs` | `HistoriesArePrivate` | `OnlyOwnOrders` |
| | `ReadersSeeAll` | `NoOrderSkipped` |
| | `ReportsCoverListings` | `ReportCoversListing` |
| `PageProofs` | `FiltersAreRequested` | `FilterIsTheRequest` |
| | `CountsMatch` | `CountMatchesList` |
| | `StatementsAreExecutable` | `StatementsExecutable` |
| | `RangesAreValid` | `RangeIsValidated` |
| | `DetailsAreAlwaysNamed` | `DetailsAreNamed` |
| | `NamelessAreExplained` | `NamelessIsExplained` |
| `ServiceProofs` | `PoolIsAccountedFor` | `ConnectionsAccountedFor` |
| | `MutexIsExclusive` | `OneInsideGetConnection` |
| | `ProcessRefinesRating` | `ImplementsRating`, the refinement, with no run |

Three more rows are not invariants of a run of their module. `TypeOK` of Rating is types only.
`ConnectionsHeldByTransactions` and `NoSurplusConnection` are what `ConnectionsAccountedFor` and
`OneInsideGetConnection`, which the run of `Service` checks, say of one component.

Every proof has the same frame: an inductive invariant in named parts, `Init...` and `Next...` lemmas for
each layer of it, with one step per action, and a short theorem per property.

*Lemmas.* The provers cannot instantiate a predicate, and so cannot use the induction theorems of the library.
`Lemmas` states induction with a set in its place: a set of numbers that has 0 and the successor of each of its
members has all of them (`NatSetInduction`, from the least member of the complement), and the like for the
subsets of a finite set (`SubsetInduction`). A fold of the community modules is a CHOOSE among the functions that
satisfy a recursive equation; that there is one is proved by induction (`RecursionOnSets`,
`RecursionOnPositions`), so that the chosen one does. What follows is proved once, too: a sum over a finite set
is that of one element and of the rest, whichever element it is (`SumWithout`), it is a number, it grows with
its set, renaming the indices does not change it (`SumRenamed`), and a sum of roundings is as far from the sum of
what was rounded as its terms are together (`SumRounded`). `IsPool(pool, Handlers, size)` says that a
pool is a finite set of handlers, of `size` at most; taking a connection when there is room, and giving some
back, keep it.

*Checkout, the money.* `NextTypes` shows the typing invariant `TInv`. `NoOrderWithoutPayment` is not inductive:
that a committed header was paid rests on what the transaction held before, and that on the payment before it.
`IInv` follows the money along the handler. `PaymentOK` ties the
place of the handler, the payment on the wire and the ledger: nothing is posted up to `pay`; the ledger holds
the posted amount exactly when the wallet has debited; from `insertTh` on it has, and the amount is the
handler's total. `CommitOK` ties the transaction to the tables: its header carries that total; a visible
header belongs to a transaction whose COMMIT was applied, and each call has at most one; a COMMIT can be on
its way only after the debit. `AnswerMeans` ties the answer to both. A late debit of a request answered with
500 disturbs none of them, because `post` keeps the amount; a debit behind a client error is impossible
because such an answer is only given before the payment or on the wallet's refusal, which is final.

*Checkout, the rows.* `OInv` adds what the transaction has written. `RowsOK`: once there is a header, its
lines are those of the items the loop has been through, with its id, and a COMMIT is on its way only when the
loop is through. `IdsDiffer`: no two transactions have a header of one id, for ids come from a counter that
only grows. `VisibleLines`: what readers see are the rows of the transactions whose COMMIT was applied. That
every line is priced rests on a pigeonhole (`EveryLineHasItsMenu`): a menu is answered once, so that as many
menus as lines means a menu for every line, and no two lines of one menu. With that `TotalsAddUp`: the code adds
up the total of the call over pairs of a menu and a line, and the totals of the lines one by one; the pairs are
in bijection with the lines, so that the two sums are one (`SumRenamed`), before anything is rounded. `RowsOK` says
which cents the header and each line hold, and `TotalsAgree` adds up the roundings: half a cent at most for the
header and for each line, and none if every price is whole cents.

*The refinement.* The initial states map to initial states (`InitRefines`). `NextRefines` maps each step: the
end of a handler is `Answer` (`FinishAnswers`), the debit `Charge` (`DebitCharges`), the COMMIT that is applied
`Place` (`CommitPlaces`), and every other step changes neither visible orders nor ledger nor answers, and
stutters. The guards of the book are what `IInv` and `OInv` say.

*Rating.* Three layers. `TInv` is types and the pool. `BInv` is the shared connection: the mutex is held by
the one caller inside `GetConnection`, which dials only when it found the connection closed, so that every dial
but the first is owed to a lost connection or a crash. `CInv` is the calls: the lock of a row has one holder, from its
UPDATE until its COMMIT is resolved, and what it wrote was NULL when it took the lock; whoever is past
`SendMessage` has its message in `sent`, and in the queue or on the wire if no connection was lost; what is on the
wire finds its queue declared (`WireOK`); a COMMIT is on its way
only past `SendMessage`. `RatedOnce` follows, because the one step that stores a rating holds the lock of a row
that is still unrated.

*OrderStatus.* The lock again, and a count: `CountOK` says that the status is the number of calls for the order
whose COMMIT was applied. The set of calls may be infinite; that finitely many have started is part of the
invariant.

*Consumer.* `RInv` walks through the declarations. `KInv`: without autoAck, every message that reached the
queue is ready, unacknowledged or handled; a consumer whose channel is not open has nothing unacknowledged and
was interrupted, and one stops only after that; at the acknowledgement the message in hand has been handled; and
a message is dropped only by a fanout exchange without the binding. `SInv`, for as long as nobody was cut off
(or with autoAck): a message is in one place at a time, that is, ready, in one buffer, once, or in one handler's
hands, and it is in none of them when it was handled. The lemmas about buffers say what `Head`, `Tail` and
`Append` do to the set of its elements and to "none twice".

*Listing.* `HistoriesArePrivate` follows from `SInv`: what a client was shown exists and satisfies the WHERE of the
details of its own query, and goes on to do so, since no user or line of an order ever changes.
`ReadersSeeAll` is about a reader among writers. The rank of an order in a listing is the number of those that
are newer. `PageComesNext`: an order whose rank is at least the OFFSET and that is not on the page has a rank of
at least the OFFSET of the next page. `ListingsGrow`: placing and moving on orders only raises ranks, unless
the filter is on the status. So `NInv` holds: of the orders that were there at the beginning, those not yet
shown have at least the rank at which the next page begins. A page is the last only if its end reaches the count
(`LastPageIsFarEnough`, division towards zero), and the count, although taken later than the rows, exceeds every
rank; so none is left. The hypothesis `FromTheFirstPage` says that clients begin with page 1 or less: who begins
with page 2 is not shown page 1. All queries of `MCListing` satisfy it. The properties of the report and the
details do not need it. `RInv` is about reports: on each day a report was asked for, its count and its money lie
between those of the orders that the client was shown and those of all orders of the day (`DayOK`). When the
report is read it has exactly the latter, which are not less, since what was shown exists; afterwards the orders
of a day only become more, and the money of an order never changes, so that the bounds only widen. That what was
shown is included is `ReportsCoverListings`.

*Filters.* `Describes(q, base, fields, values)` says that q is the statement base with the filter that fields and
values stand for: if as many fields are left as there are values, a condition for each position whose value is
usable, compared with that value, and else nothing. `WhereDescribes` shows it of the loop of the page,
`CountWhereDescribes` of the loop of the count, and `LimitedDescribes` that order and limit do not disturb it.
`BaseIs` and `CountBaseIs` say the same of the texts they begin with: the conditions of the user and of the range, an
argument for each, at most one WHERE. The invariant `FInv` says that the page describes the filter of the mapped
fields on its base (`ListBuilt`) and, once it is built, the count on its own (`CountBuilt`); `CountsMatch` needs all
four lemmas, since two texts and two loops have to say the same. `FilteredIs`, about the fold that drops the empty
fields: it returns them as they are if none is empty, and fewer if one is. So the filter is either position by
position what the client asked for, or, for an unknown field, its number differs and there is none.
`QueryIsExecutable` reads off the description when Postgres takes a query: exactly if it knows the order, which is
the sort of the client or none (`SortIs`), and, for the count of a history, exactly if there is no filter.
`OneSpelling`: what `c.QueryParser` reads is what is there under the names of the code, if the client gave each
date in one spelling; so the range that was validated is that of the statement.

*Names.* `CollectIs`, about the fold that collects: what it returns are ids of the page, and each id of the page
is among them or within one that is. `MenusAre`: the menus of a page are all its rows' menus, at least one if
there is a row. `NamesInv` says what has been asked and named at each stage. A detail has one table and one user,
which no other id can hide, and takes the first of each answer; it finds none only if the peer does not know it.

*Service.* A step of any handler takes a connection for itself, gives its own back, or leaves the pool alone, and
that handler needs a connection afterwards exactly if it has one (`CheckoutUsesPool`, `RatingUsesPool`,
`ProbeUsesPool`); `PoolUsedByOne` makes an invariant of it once, for all kinds of handlers. In the same way each
step of a rating or a probe uses the shared connection (`RatingUsesLink`, `ProbeUsesLink`): it takes the mutex,
checks, dials and lets go, or does not touch it. `DialsInv` counts the dial that is about to come: whoever will
dial found the connection closed and holds the mutex, so nobody else can have replaced it. These proofs need
none of the invariants of the components. `ProcessRefinesRating` shows that steps of checkouts leave the view of
`AmongProbes` as it is, that a crash is a crash of it, and that a rating that takes a connection takes one in it: if
there is room among all connections, there is room among those of the ratings (`RoomForAll`). A probe shows there
when it takes the mutex, finds a connection or dials (`ProbeStepsAmongProbes`), which `HealthCheck` allows because
it had no connection before (`GotInv`) and because nobody dials who did not find the connection closed
(`LinkInv`). What `RatingProofs` proves of `Rating!Spec` therefore holds in the process too; the prover cannot cite
its theorems through an INSTANCE, so the conclusion is drawn here and not in a module.

*Only model-checked.* Liveness: `EveryReaderFinishes`, `EveryMessageHandled`, `CheckoutsOutliveOutage`, and
each `EveryCallEnds`. A proof of it needs fairness, and with it ENABLED, which the prover does not reason about.
The finding is a run as well, and no theorem.

## 5. Plan

Done: all modules of section 2 with their runs, a proof of every safety property that a run checks, and a proof
that ratings keep theirs beside whole probes. Two things could follow. `Service` does not include
OrderStatus and the listings. With the others they share the pool, which the same argument (`PoolUsedByOne`,
`RoomForAll`) covers, and the rows that checkouts commit: there a refinement would take the orders of `Listing`
from the `OrderBook` that `Checkout` implements. And liveness is checked of small instances only.

## 6. Not modelled

Logging, tracing and their exporters; the MinIO client, which nothing calls; the generators and the
migration tool under `cmd/`; reading of the environment; cryptography of JWT and HMAC signatures, and the
validation of fields other than dates (a request is let in or not). Of queues: exclusive and autoDelete
ones, `noWait`, and the headers that carry traces. The services behind the HTTP client are modelled by what
the code can see of them, and a 4xx of the wallet is assumed to be final. Of numbers: errors of `float64` beyond
which way half a cent goes, prices finer than a tenth of a cent, and a product of page and size beyond 64 bits. Of
statements: what Postgres makes of the values of their arguments. That the channels of ratings are never closed (`service.go:395`) is modelled, but no
property is about it: nothing in the repository states what it would contradict.
