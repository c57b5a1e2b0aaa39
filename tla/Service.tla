-------------------------------- MODULE Service --------------------------------
(***************************************************************************)
(* The process: checkouts, ratings and health probes run beside each other *)
(* (main.go) and meet in three places, the pool of database connections,   *)
(* the connection to the broker with its mutex, and a process that dies.   *)
(* A rating waits for the broker with a database connection in hand, so an *)
(* outage of the broker can reach calls that never talk to it.             *)
(*                                                                         *)
(* The components are those of Checkout, Rating and Health; each keeps its *)
(* own variables and leaves those of the others alone.                     *)
(***************************************************************************)
EXTENDS ConnPool, Sequences

CONSTANTS
  ChannelMax, MaxLosses, MaxCrashes,
  Requests, Baskets, MenuIds, Prices,   \* of the checkouts
  Ratings, Lines, NoLine, Stars,        \* of the ratings
  Probes                                \* calls of GET /health

ASSUME ServiceAssumption == Ratings \cap Probes = {} /\ Requests \cap (Ratings \cup Probes) = {}

VARIABLES
  crashes,                                                       \* shared by all
  up, link, dials, mu, got, channels, declared, queue, wire, losses,  \* ratings, probes
  cpc, call, txn, nextId, th, td, post, ledger, canswer,         \* checkouts
  rpc, args, rating, locked, commit, sent, ranswer,              \* ratings
  hpc, health                                                    \* probes

brokerVars   == <<up, link, dials, mu, got, channels, declared, queue, wire, losses>>
checkoutVars == <<cpc, call, txn, nextId, th, td, post, ledger, canswer>>
ratingVars   == <<rpc, args, rating, locked, commit, sent, ranswer>>
probeVars    == <<hpc, health>>
vars == <<conns, crashes, brokerVars, checkoutVars, ratingVars, probeVars>>

Callers == Ratings \cup Probes

C == INSTANCE Checkout WITH pc <- cpc, answer <- canswer
R == INSTANCE Rating WITH pc <- rpc, answer <- ranswer
H == INSTANCE Health WITH pc <- hpc

Init == C!Init /\ R!Init /\ H!Init

CheckoutStep(r) ==
  /\ \/ \E datas \in Baskets : C!Accept(r, datas)
     \/ C!Refuse(r) \/ C!Handler(r)
     \/ C!CommitApplies(r) \/ C!WalletDebits(r) \/ C!WalletRefuses(r)
  /\ UNCHANGED <<brokerVars, ratingVars, probeVars>>

RatingStep(c) ==
  /\ R!Accept(c) \/ R!Refuse(c) \/ R!Handler(c) \/ R!Resolve(c)
  /\ UNCHANGED <<checkoutVars, probeVars>>

ProbeStep(c) ==
  /\ H!Ask(c) \/ H!Handler(c)
  /\ UNCHANGED <<crashes, checkoutVars, ratingVars>>

BrokerStep ==
  /\ R!BrokerEnvironment
  /\ UNCHANGED <<conns, crashes, checkoutVars, ratingVars, probeVars>>

\* Everything the process was doing is lost at once.
Crash ==
  /\ C!Crash
  /\ R!Crash
  /\ hpc' = [c \in Callers |-> IF hpc[c] \in {"idle", "done"} THEN hpc[c] ELSE "lost"]
  /\ UNCHANGED health

Ended == {"done", "lost"}

Terminating ==
  /\ \A r \in Requests : cpc[r] \in Ended
  /\ \A c \in Ratings : rpc[c] \in Ended
  /\ \A c \in Probes : hpc[c] \in Ended
  /\ UNCHANGED vars

Next ==
  \/ \E r \in Requests : CheckoutStep(r)
  \/ \E c \in Ratings : RatingStep(c)
  \/ \E c \in Probes : ProbeStep(c)
  \/ BrokerStep
  \/ Crash
  \/ Terminating

Spec == Init /\ [][Next]_vars

\* Goroutines run, and every call to Postgres, a peer or a dead connection
\* returns.  Nobody has to start the broker again.
FairSpec ==
  /\ Spec
  /\ \A r \in Requests :
       WF_vars(C!Handler(r) /\ UNCHANGED <<brokerVars, ratingVars, probeVars>>)
  /\ \A c \in Ratings :
       /\ WF_vars(R!Handler(c) /\ UNCHANGED <<checkoutVars, probeVars>>)
       /\ WF_vars(R!Resolve(c) /\ UNCHANGED <<checkoutVars, probeVars>>)
  /\ \A c \in Probes :
       WF_vars(H!Handler(c) /\ UNCHANGED <<crashes, checkoutVars, ratingVars>>)
  /\ WF_vars(R!NoticeDead /\ BrokerStep)

-------------------------------------------------------------------------------
(* Properties.                                                             *)

\* Every connection of the pool is held by a call that needs it: a checkout or a
\* rating inside WithTransaction, or a probe that pings.  What one kind of call
\* does never frees or keeps a connection of another, and none is shared.
ConnectionsAccountedFor ==
  /\ conns = {r \in Requests : cpc[r] \in C!InTransaction}
             \cup {c \in Ratings : rpc[c] \in R!InTransaction}
             \cup {c \in Probes : hpc[c] = "pinging"}
  /\ Cardinality(conns) <= MaxConns

\* Ratings and probes take turns in GetConnection: whoever holds the mutex is the
\* only one inside, and together they dial once and then no more often than the
\* connection is lost or the process dies.
OneInsideGetConnection ==
  /\ mu = {c \in Ratings : rpc[c] \in {"connect", "dial"}}
          \cup {c \in Probes : hpc[c] \in {"connect", "dial"}}
  /\ \A c, d \in mu : c = d
  /\ dials <= losses + crashes + 1

\* The ratings, the connections that they hold, and the probes that take turns
\* with them in GetConnection.
AmongProbes == INSTANCE Rating WITH pc <- rpc, answer <- ranswer, conns <- conns \cap Ratings

\* A rating notices checkouts only by a fuller pool, and of a probe only that it
\* takes the mutex, and dials when it found no connection.
ImplementsRating == AmongProbes!Spec

CheckoutsEnd == \A r \in Requests : cpc[r] = "begin" ~> cpc[r] \in Ended
RatingsEnd   == \A c \in Ratings : rpc[c] = "begin" ~> rpc[c] \in Ended
ProbesEnd    == \A c \in Probes : hpc[c] = "ping" ~> hpc[c] \in Ended

\* Connections, rows and the mutex are taken in an order that cannot lock up:
\* as long as the broker comes back after every outage, checkouts, ratings and
\* probes that wait for one another all end.
EveryCallEnds == []<>up => CheckoutsEnd /\ RatingsEnd /\ ProbesEnd

\* An outage that lasts reaches a checkout through the pool and in no other
\* way: unless ratings that wait for the broker hold every connection, checkouts
\* end.  Probes wait for the broker too, and hold no connection meanwhile.
CheckoutsOutliveOutage ==
  []<>(up \/ Cardinality(conns \cap Ratings) < MaxConns) => CheckoutsEnd
===============================================================================
