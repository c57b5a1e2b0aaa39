----------------------------- MODULE ServiceProofs -----------------------------
(***************************************************************************)
(* Proofs about the process: what its handlers share, however many they    *)
(* are, and that a rating among them is a rating among probes.             *)
(***************************************************************************)
EXTENDS Service, Lemmas

USE ServiceAssumption, PoolSizeAssumption

Handlers == Requests \cup Callers

-------------------------------------------------------------------------------
(* Types: which handlers there are.                                        *)

CheckoutPlaces == C!Active \cup {"idle", "done", "lost"}
RatingPlaces   == R!Active \cup {"idle", "done", "lost"}
ProbePlaces    == {"idle", "ping", "pinging", "lock", "connect", "dial", "check", "done", "lost"}

CallsOK ==
  /\ cpc \in [Requests -> CheckoutPlaces]
  /\ rpc \in [Callers -> RatingPlaces] /\ hpc \in [Callers -> ProbePlaces]

-------------------------------------------------------------------------------
(* The pool.                                                               *)

\* The handlers that are at a place where they have a connection.
NeedsConnection(h) ==
  \/ h \in Requests /\ cpc[h] \in C!InTransaction
  \/ h \in Ratings /\ rpc[h] \in R!InTransaction
  \/ h \in Probes /\ hpc[h] = "pinging"

PoolInv ==
  /\ IsPool(conns, Handlers, MaxConns)
  /\ \A h \in Handlers : h \in conns <=> NeedsConnection(h)

\* Each component counts in the same way.
LEMMA SameCount ==
  ASSUME NEW S
  PROVE  /\ C!Cardinality(S) = Cardinality(S) /\ R!Cardinality(S) = Cardinality(S)
         /\ H!Cardinality(S) = Cardinality(S) /\ AmongProbes!Cardinality(S) = Cardinality(S)
BY DEF Cardinality, C!Cardinality, R!Cardinality, H!Cardinality, AmongProbes!Cardinality

\* What a step of one handler does to the pool.
UsesPool(h) ==
  \/ UNCHANGED conns /\ (NeedsConnection(h)' <=> NeedsConnection(h))
  \/ Acquire(h) /\ NeedsConnection(h)'
  \/ Release(h) /\ ~ NeedsConnection(h)'

LEMMA PoolUsedByOne ==
  ASSUME PoolInv, NEW h \in Handlers, UsesPool(h),
         \A g \in Handlers \ {h} : NeedsConnection(g)' <=> NeedsConnection(g)
  PROVE  PoolInv'
<1>1. CASE UNCHANGED conns /\ (NeedsConnection(h)' <=> NeedsConnection(h))
  BY <1>1 DEF PoolInv, IsPool
<1>2. CASE Acquire(h) /\ NeedsConnection(h)'
  <2>1. IsPool(conns, Handlers, MaxConns)'
    BY <1>2, PoolSizeAssumption, PoolGrows DEF PoolInv, Acquire
  <2>2. conns' = conns \cup {h}
    BY <1>2 DEF Acquire
  <2>. QED BY <1>2, <2>1, <2>2 DEF PoolInv
<1>3. CASE Release(h) /\ ~ NeedsConnection(h)'
  <2>1. IsPool(conns, Handlers, MaxConns)'
    BY <1>3, PoolSizeAssumption, PoolShrinks DEF PoolInv, Release
  <2>2. conns' = conns \ {h}
    BY <1>3 DEF Release
  <2>. QED BY <1>3, <2>1, <2>2 DEF PoolInv
<1>. QED BY <1>1, <1>2, <1>3 DEF UsesPool

LEMMA CheckoutUsesPool ==
  ASSUME CallsOK, NEW r \in Requests, CheckoutStep(r)
  PROVE  /\ CallsOK' /\ UsesPool(r)
         /\ \A g \in Handlers \ {r} : NeedsConnection(g)' <=> NeedsConnection(g)
<1>1. /\ UNCHANGED <<rpc, hpc>>
      /\ cpc' \in [Requests -> CheckoutPlaces] /\ \A s \in Requests \ {r} : cpc'[s] = cpc[s]
  <2>. USE DEF CallsOK, CheckoutPlaces, C!Active, C!InTransaction
  <2>1. UNCHANGED <<rpc, hpc>>
    BY DEF CheckoutStep, ratingVars, probeVars
  <2>2. CASE \E datas \in Baskets : C!Accept(r, datas)
    BY <2>1, <2>2 DEF C!Accept, C!Goto
  <2>3. CASE C!Refuse(r)
    BY <2>1, <2>3 DEF C!Refuse, C!Finish
  <2>4. CASE C!InsertTd(r) \/ C!CommitApplies(r) \/ C!WalletDebits(r) \/ C!WalletRefuses(r)
    <3>1. cpc' = cpc
      BY <2>4 DEF C!InsertTd, C!CommitApplies, C!WalletDebits, C!WalletRefuses, C!locals
    <3>. QED BY <2>1, <3>1
  <2>5. CASE C!Handler(r) /\ ~ C!InsertTd(r)
    BY <2>1, <2>5 DEF C!Handler, C!Begin, C!BeginFails, C!MenusAnswered, C!MenusMissing, C!MenusFail,
                C!PostPayment, C!PaymentConfirmed, C!PaymentRefused, C!PaymentFails,
                C!InsertTh, C!InsertFails, C!SendCommit, C!CommitAcked, C!CommitFails,
                C!Goto, C!Finish, C!Abort
  <2>. QED BY <2>1, <2>2, <2>3, <2>4, <2>5 DEF CheckoutStep
<1>2. CallsOK'
  BY <1>1 DEF CallsOK
<1>3. \A g \in Handlers \ {r} : NeedsConnection(g)' <=> NeedsConnection(g)
  BY <1>1 DEF NeedsConnection, CallsOK
<1>4. UsesPool(r)
  <2>. USE DEF UsesPool, NeedsConnection, CallsOK, C!InTransaction, Callers
  <2>1. CASE \E datas \in Baskets : C!Accept(r, datas)
    BY <2>1 DEF C!Accept, C!Goto, C!db
  <2>2. CASE C!Refuse(r) \/ C!BeginFails(r)
    BY <2>2 DEF C!Refuse, C!BeginFails, C!Finish, C!db
  <2>3. CASE C!InsertTd(r) \/ C!CommitApplies(r) \/ C!WalletDebits(r) \/ C!WalletRefuses(r)
    <3>1. UNCHANGED <<cpc, conns>>
      BY <2>3 DEF C!InsertTd, C!CommitApplies, C!WalletDebits, C!WalletRefuses, C!locals, C!db
    <3>. QED BY <3>1
  <2>4. CASE C!Begin(r)
    BY <2>4, SameCount DEF C!Begin, C!Goto, C!Acquire, Acquire
  <2>5. CASE C!MenusAnswered(r) \/ C!PostPayment(r) \/ C!PaymentConfirmed(r) \/ C!InsertTh(r)
             \/ C!SendCommit(r)
    BY <2>5 DEF C!MenusAnswered, C!PostPayment, C!PaymentConfirmed, C!InsertTh, C!SendCommit,
                C!Goto, C!db
  <2>6. CASE C!MenusMissing(r) \/ C!MenusFail(r) \/ C!PaymentRefused(r) \/ C!PaymentFails(r)
             \/ C!InsertFails(r) \/ C!CommitAcked(r) \/ C!CommitFails(r)
    <3>1. Release(r) /\ cpc' = [cpc EXCEPT ![r] = "done"]
      BY <2>6 DEF C!MenusMissing, C!MenusFail, C!PaymentRefused, C!PaymentFails, C!InsertFails,
                  C!CommitAcked, C!CommitFails, C!Abort, C!Finish, C!Release, Release
    <3>. QED BY <3>1
  <2>. QED BY <2>1, <2>2, <2>3, <2>4, <2>5, <2>6 DEF CheckoutStep, C!Handler
<1>. QED BY <1>2, <1>3, <1>4

LEMMA RatingUsesPool ==
  ASSUME CallsOK, NEW c \in Ratings, RatingStep(c)
  PROVE  /\ CallsOK' /\ UsesPool(c)
         /\ \A g \in Handlers \ {c} : NeedsConnection(g)' <=> NeedsConnection(g)
<1>. USE DEF CallsOK, Callers, RatingPlaces, R!Active, R!InTransaction
<1>1. /\ UNCHANGED <<cpc, hpc>>
      /\ rpc' \in [Callers -> RatingPlaces] /\ \A d \in Callers \ {c} : rpc'[d] = rpc[d]
  <2>1. UNCHANGED <<cpc, hpc>>
    BY DEF RatingStep, checkoutVars, probeVars
  <2>2. CASE R!Accept(c) \/ R!Refuse(c)
    BY <2>1, <2>2 DEF R!Accept, R!Refuse, R!Goto, R!Finish
  <2>3. CASE R!Resolve(c)
    <3>1. rpc' = rpc
      BY <2>3 DEF R!Resolve, R!CommitApplies, R!CommitLost
    <3>. QED BY <2>1, <3>1
  <2>4. CASE R!Handler(c)
    BY <2>1, <2>4 DEF R!Handler, R!Begin, R!BeginFails, R!UpdateRating, R!UpdateFindsNone,
                R!UpdateFails, R!EnterGetConnection, R!GetConnection, R!GetChannel,
                R!GetChannelFails, R!DeclareQueue, R!PublishRating, R!SendFails, R!SendCommit,
                R!CommitAcked, R!CommitFails, R!Goto, R!Finish, R!Abort,
                R!RollBack, R!CallRefused
  <2>. QED BY <2>1, <2>2, <2>3, <2>4 DEF RatingStep
<1>2. CallsOK'
  BY <1>1
<1>3. \A g \in Handlers \ {c} : NeedsConnection(g)' <=> NeedsConnection(g)
  BY <1>1 DEF NeedsConnection
<1>4. UsesPool(c)
  <2>. USE DEF UsesPool, NeedsConnection
  <2>1. CASE R!Accept(c) \/ R!Refuse(c) \/ R!BeginFails(c)
    BY <2>1 DEF R!Accept, R!Refuse, R!BeginFails, R!Goto, R!Finish, R!dbVars
  <2>2. CASE R!Resolve(c)
    <3>1. UNCHANGED <<rpc, conns>>
      BY <2>2 DEF R!Resolve, R!CommitApplies, R!CommitLost
    <3>. QED BY <3>1
  <2>3. CASE R!Begin(c)
    BY <2>3, SameCount DEF R!Begin, R!Goto, R!Acquire, Acquire
  <2>4. CASE R!UpdateRating(c) \/ R!EnterGetConnection(c) \/ R!GetConnection(c)
             \/ R!GetChannel(c) \/ R!DeclareQueue(c) \/ R!PublishRating(c) \/ R!SendCommit(c)
    <3>1. UNCHANGED conns /\ rpc[c] \in R!InTransaction /\ rpc'[c] \in R!InTransaction
      BY <2>4 DEF R!UpdateRating, R!EnterGetConnection, R!GetConnection, R!GetChannel,
                  R!DeclareQueue, R!PublishRating, R!SendCommit, R!Goto, R!unsentVars, R!dbVars
    <3>. QED BY <3>1
  <2>5. CASE R!UpdateFindsNone(c) \/ R!UpdateFails(c) \/ R!GetChannelFails(c)
             \/ R!SendFails(c) \/ R!CommitAcked(c) \/ R!CommitFails(c)
    <3>1. Release(c) /\ rpc' = [rpc EXCEPT ![c] = "done"]
      BY <2>5 DEF R!UpdateFindsNone, R!UpdateFails, R!GetChannelFails, R!SendFails,
                  R!CommitAcked, R!CommitFails, R!Abort,
                  R!RollBack, R!CallRefused, R!Finish, R!Release, Release
    <3>. QED BY <3>1
  <2>. QED BY <2>1, <2>2, <2>3, <2>4, <2>5 DEF RatingStep, R!Handler
<1>. QED BY <1>2, <1>3, <1>4

LEMMA ProbeUsesPool ==
  ASSUME CallsOK, NEW c \in Probes, ProbeStep(c)
  PROVE  /\ CallsOK' /\ UsesPool(c)
         /\ \A g \in Handlers \ {c} : NeedsConnection(g)' <=> NeedsConnection(g)
<1>. USE DEF CallsOK, Callers, ProbePlaces
<1>1. /\ UNCHANGED <<cpc, rpc>>
      /\ hpc' \in [Callers -> ProbePlaces] /\ \A d \in Callers \ {c} : hpc'[d] = hpc[d]
  <2>1. UNCHANGED <<cpc, rpc>>
    BY DEF ProbeStep, checkoutVars, ratingVars
  <2>. QED
    BY <2>1 DEF ProbeStep, H!Ask, H!Handler, H!Ping, H!PingAnswers, H!PingFails,
                H!EnterGetConnection, H!GetConnection, H!HealthCheck, H!Goto
<1>2. CallsOK'
  BY <1>1
<1>3. \A g \in Handlers \ {c} : NeedsConnection(g)' <=> NeedsConnection(g)
  BY <1>1 DEF NeedsConnection
<1>4. UsesPool(c)
  <2>. USE DEF UsesPool, NeedsConnection
  <2>1. CASE H!Ping(c)
    BY <2>1, SameCount DEF H!Ping, H!Goto, H!Acquire, Acquire
  <2>2. CASE H!PingAnswers(c) \/ H!PingFails(c)
    BY <2>2 DEF H!PingAnswers, H!PingFails, H!Goto, H!Release, Release
  <2>3. CASE H!Ask(c) \/ H!EnterGetConnection(c) \/ H!GetConnection(c) \/ H!HealthCheck(c)
    BY <2>3 DEF H!Ask, H!EnterGetConnection, H!GetConnection, H!HealthCheck, H!Goto,
                H!brokerless
  <2>. QED BY <2>1, <2>2, <2>3 DEF ProbeStep, H!Handler
<1>. QED BY <1>2, <1>3, <1>4

LEMMA InitPool == Init => CallsOK /\ PoolInv
<1>. SUFFICES ASSUME Init PROVE CallsOK /\ PoolInv
  OBVIOUS
<1>1. CallsOK
  BY DEF Init, C!Init, R!Init, H!Init, CallsOK, CheckoutPlaces, RatingPlaces, ProbePlaces, Callers
<1>2. conns = {} /\ \A h \in Handlers : ~ NeedsConnection(h)
  BY DEF Init, C!Init, R!Init, H!Init, NeedsConnection, C!InTransaction, R!InTransaction,
         Callers
<1>3. IsPool(conns, Handlers, MaxConns)
  BY <1>2, PoolSizeAssumption, EmptyPool
<1>. QED BY <1>1, <1>2, <1>3 DEF PoolInv

LEMMA NextPool == CallsOK /\ PoolInv /\ [Next]_vars => (CallsOK /\ PoolInv)'
<1>. SUFFICES ASSUME CallsOK, PoolInv, [Next]_vars PROVE (CallsOK /\ PoolInv)'
  OBVIOUS
<1>1. ASSUME NEW r \in Requests, CheckoutStep(r) PROVE (CallsOK /\ PoolInv)'
  BY <1>1, CheckoutUsesPool, PoolUsedByOne DEF Handlers
<1>2. ASSUME NEW c \in Ratings, RatingStep(c) PROVE (CallsOK /\ PoolInv)'
  BY <1>2, RatingUsesPool, PoolUsedByOne DEF Handlers, Callers
<1>3. ASSUME NEW c \in Probes, ProbeStep(c) PROVE (CallsOK /\ PoolInv)'
  BY <1>3, ProbeUsesPool, PoolUsedByOne DEF Handlers, Callers
<1>4. CASE Crash
  <2>1. /\ cpc' = [r \in Requests |-> IF cpc[r] \in C!Active THEN "lost" ELSE cpc[r]]
        /\ rpc' = [c \in Callers |-> IF rpc[c] \in R!Active THEN "lost" ELSE rpc[c]]
        /\ hpc' = [c \in Callers |-> IF hpc[c] \in {"idle", "done"} THEN hpc[c] ELSE "lost"]
        /\ conns' = {}
    BY <1>4 DEF Crash, C!Crash, R!Crash
  <2>2. CallsOK'
    BY <2>1 DEF CallsOK, CheckoutPlaces, RatingPlaces, ProbePlaces
  <2>3. \A h \in Handlers : ~ NeedsConnection(h)'
    BY <2>1 DEF NeedsConnection, C!Active, R!Active, C!InTransaction, R!InTransaction, Callers
  <2>. QED BY <2>1, <2>2, <2>3, PoolSizeAssumption, EmptyPool DEF PoolInv
<1>5. CASE BrokerStep \/ UNCHANGED vars
  <2>1. UNCHANGED <<conns, cpc, rpc, hpc>>
    BY <1>5 DEF BrokerStep, vars, checkoutVars, ratingVars, probeVars
  <2>. QED BY <2>1 DEF CallsOK, PoolInv, IsPool, NeedsConnection
<1>. QED BY <1>1, <1>2, <1>3, <1>4, <1>5 DEF Next, Terminating

LEMMA PoolHolds == Spec => [](CallsOK /\ PoolInv)
<1>. QED BY InitPool, NextPool, PTL DEF Spec

\* In the whole process a connection is with a call that is at a place where it
\* needs one, whatever the others do, and there are never more than the pool has.
THEOREM PoolIsAccountedFor == Spec => []ConnectionsAccountedFor
<1>1. PoolInv => ConnectionsAccountedFor
  BY DEF PoolInv, IsPool, Handlers, Callers, NeedsConnection, ConnectionsAccountedFor
<1>. QED BY <1>1, PoolHolds, PTL

-------------------------------------------------------------------------------
(* The connection to the broker.  As in RatingProofs, whoever is about to  *)
(* dial found no connection and holds the mutex ever since; here ratings   *)
(* and probes may be the ones.                                             *)

IsInside(c)  == \/ c \in Ratings /\ rpc[c] \in {"connect", "dial"}
                \/ c \in Probes /\ hpc[c] \in {"connect", "dial"}
WillDial(c)  == \/ c \in Ratings /\ rpc[c] = "dial"
                \/ c \in Probes /\ hpc[c] = "dial"
NoConnection == link \in {"nil", "closed"}

MutexInv ==
  /\ mu \subseteq Callers
  /\ \A c, d \in mu : c = d
  /\ \A c \in Callers : /\ IsInside(c) <=> c \in mu
                        /\ WillDial(c) => NoConnection

DialsInv ==
  /\ dials \in Nat /\ losses \in Nat /\ crashes \in Nat
  /\ dials <= losses + crashes + 1
  /\ link # "live" => dials <= losses + crashes

LinkInv == MutexInv /\ DialsInv

\* What a step of one caller does to the mutex and the connection.
UsesLink(c) ==
  \/ /\ UNCHANGED <<mu, link, dials>>
     /\ (IsInside(c)' <=> IsInside(c)) /\ (WillDial(c)' <=> WillDial(c))
  \/ /\ mu = {} /\ mu' = {c} /\ UNCHANGED <<link, dials>>
     /\ IsInside(c)' /\ ~ WillDial(c)'
  \/ /\ c \in mu /\ mu' = mu \ {c} /\ UNCHANGED <<link, dials>>
     /\ ~ IsInside(c)'
  \/ /\ c \in mu /\ NoConnection /\ UNCHANGED <<mu, link, dials>>
     /\ IsInside(c)'
  \/ /\ c \in mu /\ WillDial(c) /\ mu' = mu \ {c} /\ link' = "live" /\ dials' = dials + 1
     /\ ~ IsInside(c)'

OthersStay(c) ==
  \A d \in Callers \ {c} :
    (IsInside(d)' <=> IsInside(d)) /\ (WillDial(d)' <=> WillDial(d))

LEMMA DialsAreInside == \A c : WillDial(c) => IsInside(c)
BY DEF WillDial, IsInside

LEMMA LinkUsedByOne ==
  ASSUME LinkInv, NEW c \in Callers, UsesLink(c),
         UNCHANGED <<losses, crashes>>,
         OthersStay(c)
  PROVE  LinkInv'
<1>. USE DEF LinkInv, MutexInv, DialsInv, OthersStay
<1>0. WillDial(c)' => IsInside(c)'
  BY DEF WillDial, IsInside
<1>1. CASE /\ UNCHANGED <<mu, link, dials>>
           /\ (IsInside(c)' <=> IsInside(c)) /\ (WillDial(c)' <=> WillDial(c))
  BY <1>1 DEF NoConnection
<1>2. CASE /\ mu = {} /\ mu' = {c} /\ UNCHANGED <<link, dials>>
           /\ IsInside(c)' /\ ~ WillDial(c)'
  BY <1>2, DialsAreInside DEF NoConnection
<1>3. CASE /\ c \in mu /\ mu' = mu \ {c} /\ UNCHANGED <<link, dials>>
           /\ ~ IsInside(c)'
  BY <1>0, <1>3 DEF NoConnection
<1>4. CASE /\ c \in mu /\ NoConnection /\ UNCHANGED <<mu, link, dials>>
           /\ IsInside(c)'
  BY <1>4 DEF NoConnection
<1>5. CASE /\ c \in mu /\ WillDial(c) /\ mu' = mu \ {c} /\ link' = "live" /\ dials' = dials + 1
           /\ ~ IsInside(c)'
  <2>1. MutexInv'
    BY <1>0, <1>5, DialsAreInside
  <2>2. DialsInv'
    BY <1>5 DEF NoConnection
  <2>. QED BY <2>1, <2>2
<1>. QED BY <1>1, <1>2, <1>3, <1>4, <1>5 DEF UsesLink

LEMMA RatingUsesLink ==
  ASSUME CallsOK, NEW c \in Ratings, RatingStep(c)
  PROVE  UsesLink(c) /\ UNCHANGED <<losses, crashes>> /\ OthersStay(c)
<1>. USE DEF CallsOK, Callers
<1>1. UNCHANGED <<losses, crashes>>
  BY DEF RatingStep, R!Accept, R!Refuse, R!Resolve, R!CommitApplies, R!CommitLost, R!Handler,
         R!Begin, R!BeginFails, R!UpdateRating, R!UpdateFindsNone, R!UpdateFails,
         R!EnterGetConnection, R!GetConnection, R!GetChannel, R!GetChannelFails, R!DeclareQueue,
         R!PublishRating, R!SendFails, R!SendCommit, R!CommitAcked, R!CommitFails, R!Abort,
         R!RollBack, R!CallRefused,
         R!Lock, R!ReuseConnection, R!FindClosed, R!Dial, R!OpenChannel, R!Declare, R!Publish,
         R!unsentVars, R!brokerVars
<1>2. ASSUME NEW d \in Callers \ {c}
      PROVE  (IsInside(d)' <=> IsInside(d)) /\ (WillDial(d)' <=> WillDial(d))
  <2>1. UNCHANGED hpc /\ rpc'[d] = rpc[d]
    BY DEF RatingStep, probeVars, R!Accept, R!Refuse, R!Resolve, R!CommitApplies, R!CommitLost,
       R!Handler, R!Begin, R!BeginFails, R!UpdateRating, R!UpdateFindsNone, R!UpdateFails,
       R!EnterGetConnection, R!GetConnection, R!GetChannel, R!GetChannelFails, R!DeclareQueue,
       R!PublishRating, R!SendFails, R!SendCommit, R!CommitAcked, R!CommitFails, R!Abort,
       R!RollBack, R!CallRefused,
       R!Goto, R!Finish
  <2>. QED BY <2>1 DEF IsInside, WillDial
<1>3. UsesLink(c)
  <2>. USE DEF IsInside, WillDial, R!brokerVars
  <2>1. CASE R!EnterGetConnection(c)
    BY <2>1 DEF UsesLink, R!EnterGetConnection, R!Goto, R!Lock
  <2>2. CASE R!Goto(c, "connect", "channel") /\ R!ReuseConnection(c)
    BY <2>2 DEF UsesLink, R!Goto, R!ReuseConnection
  <2>3. CASE R!Goto(c, "connect", "dial") /\ R!FindClosed(c)
    BY <2>3 DEF UsesLink, R!Goto, R!FindClosed, R!IsClosed, NoConnection
  <2>4. CASE R!Goto(c, "dial", "channel") /\ R!Dial(c)
    BY <2>4 DEF UsesLink, R!Goto, R!Dial
  <2>5. CASE R!Resolve(c)
    <3>1. UNCHANGED <<rpc, mu, link, dials>>
      BY <2>5 DEF R!Resolve, R!CommitApplies, R!CommitLost
    <3>2. UNCHANGED hpc
      BY DEF RatingStep, probeVars
    <3>. QED BY <3>1, <3>2 DEF UsesLink
  <2>6. CASE R!Accept(c) \/ R!Refuse(c) \/ R!Begin(c) \/ R!BeginFails(c) \/ R!UpdateRating(c)
             \/ R!UpdateFindsNone(c) \/ R!UpdateFails(c) \/ R!GetChannel(c)
             \/ R!GetChannelFails(c) \/ R!DeclareQueue(c) \/ R!PublishRating(c)
             \/ R!SendFails(c) \/ R!SendCommit(c) \/ R!CommitAcked(c) \/ R!CommitFails(c)
    <3>1. UNCHANGED <<mu, link, dials>>
      BY <2>6 DEF R!Accept, R!Refuse, R!Begin, R!BeginFails, R!UpdateRating, R!UpdateFindsNone,
         R!UpdateFails, R!GetChannel, R!GetChannelFails, R!DeclareQueue, R!PublishRating,
         R!SendFails, R!SendCommit, R!CommitAcked, R!CommitFails, R!Abort,
         R!RollBack, R!CallRefused, R!OpenChannel,
         R!Declare, R!Publish
    <3>2. rpc[c] \notin {"connect", "dial"}
      BY <2>6 DEF R!Accept, R!Refuse, R!Begin, R!BeginFails, R!UpdateRating, R!UpdateFindsNone,
         R!UpdateFails, R!GetChannel, R!GetChannelFails, R!DeclareQueue, R!PublishRating,
         R!SendFails, R!SendCommit, R!CommitAcked, R!CommitFails, R!Goto
    <3>3. rpc'[c] \notin {"connect", "dial"}
      BY <2>6 DEF R!Accept, R!Refuse, R!Begin, R!BeginFails, R!UpdateRating, R!UpdateFindsNone,
         R!UpdateFails, R!GetChannel, R!GetChannelFails, R!DeclareQueue, R!PublishRating,
         R!SendFails, R!SendCommit, R!CommitAcked, R!CommitFails, R!Abort,
         R!RollBack, R!CallRefused, R!Goto, R!Finish
    <3>. QED BY <3>1, <3>2, <3>3 DEF UsesLink
  <2>. QED BY <2>1, <2>2, <2>3, <2>4, <2>5, <2>6 DEF RatingStep, R!Handler, R!GetConnection
<1>. QED BY <1>1, <1>2, <1>3 DEF OthersStay

LEMMA ProbeUsesLink ==
  ASSUME CallsOK, NEW c \in Probes, ProbeStep(c)
  PROVE  UsesLink(c) /\ UNCHANGED <<losses, crashes>> /\ OthersStay(c)
<1>. USE DEF CallsOK, Callers
<1>1. UNCHANGED <<losses, crashes>>
  BY DEF ProbeStep, H!Ask, H!Handler, H!Ping, H!PingAnswers, H!PingFails, H!EnterGetConnection,
         H!GetConnection, H!HealthCheck, H!Lock, H!ReuseConnection, H!FindClosed, H!Dial,
         H!brokerVars
<1>2. OthersStay(c)
  <2>1. UNCHANGED rpc /\ \A d \in Callers \ {c} : hpc'[d] = hpc[d]
    BY DEF ProbeStep, ratingVars, H!Ask, H!Handler, H!Ping, H!PingAnswers, H!PingFails,
           H!EnterGetConnection, H!GetConnection, H!HealthCheck, H!Goto
  <2>. QED BY <2>1 DEF OthersStay, IsInside, WillDial
<1>3. UsesLink(c)
  <2>. USE DEF IsInside, WillDial, H!brokerVars
  <2>1. CASE H!EnterGetConnection(c)
    BY <2>1 DEF UsesLink, H!EnterGetConnection, H!Goto, H!Lock
  <2>2. CASE H!Goto(c, "connect", "check") /\ H!ReuseConnection(c)
    BY <2>2 DEF UsesLink, H!Goto, H!ReuseConnection
  <2>3. CASE H!Goto(c, "connect", "dial") /\ H!FindClosed(c)
    BY <2>3 DEF UsesLink, H!Goto, H!FindClosed, H!IsClosed, NoConnection
  <2>4. CASE H!Goto(c, "dial", "check") /\ H!Dial(c)
    BY <2>4 DEF UsesLink, H!Goto, H!Dial
  <2>5. CASE H!Ask(c) \/ H!Ping(c) \/ H!PingAnswers(c) \/ H!PingFails(c) \/ H!HealthCheck(c)
    BY <2>5 DEF UsesLink, H!Ask, H!Ping, H!PingAnswers, H!PingFails, H!HealthCheck, H!Goto
  <2>. QED BY <2>1, <2>2, <2>3, <2>4, <2>5 DEF ProbeStep, H!Handler, H!GetConnection
<1>. QED BY <1>1, <1>2, <1>3

LEMMA InitLink == Init => LinkInv
<1>. SUFFICES ASSUME Init PROVE LinkInv
  OBVIOUS
<1>1. MutexInv
  BY DEF Init, R!Init, R!BrokerInit, H!Init, MutexInv, IsInside, WillDial, Callers
<1>2. DialsInv
  BY DEF Init, R!Init, R!BrokerInit, DialsInv
<1>. QED BY <1>1, <1>2 DEF LinkInv

LEMMA NextLink == CallsOK /\ LinkInv /\ [Next]_vars => LinkInv'
<1>. SUFFICES ASSUME CallsOK, LinkInv, [Next]_vars PROVE LinkInv'
  OBVIOUS
<1>. USE DEF LinkInv, MutexInv, DialsInv
<1>1. ASSUME NEW r \in Requests, CheckoutStep(r) PROVE LinkInv'
  <2>1. UNCHANGED <<mu, link, dials, losses, rpc, hpc>>
    BY <1>1 DEF CheckoutStep, brokerVars, ratingVars, probeVars
  <2>2. UNCHANGED crashes
    BY <1>1 DEF CheckoutStep, C!Accept, C!Refuse, C!Handler, C!Begin, C!BeginFails,
       C!MenusAnswered, C!MenusMissing, C!MenusFail, C!PostPayment, C!PaymentConfirmed,
       C!PaymentRefused, C!PaymentFails, C!InsertTh, C!InsertTd, C!InsertFails, C!SendCommit,
       C!CommitAcked, C!CommitFails, C!Abort, C!CommitApplies, C!WalletDebits, C!WalletRefuses
  <2>. QED BY <2>1, <2>2 DEF IsInside, WillDial, NoConnection
<1>2. ASSUME NEW c \in Ratings, RatingStep(c) PROVE LinkInv'
  BY <1>2, RatingUsesLink, LinkUsedByOne DEF Callers
<1>3. ASSUME NEW c \in Probes, ProbeStep(c) PROVE LinkInv'
  BY <1>3, ProbeUsesLink, LinkUsedByOne DEF Callers
<1>4. CASE BrokerStep
  <2>1. UNCHANGED <<mu, dials, crashes, rpc, hpc>>
    BY <1>4 DEF BrokerStep, R!BrokerEnvironment, R!BrokerReads, R!CutConnection,
                R!ConnectionLost, R!BrokerDown, R!BrokerUp, R!NoticeDead,
                ratingVars, probeVars
  <2>2. \/ /\ link' = (IF link = "live" THEN "dead" ELSE link) /\ losses' = losses + 1
        \/ UNCHANGED <<link, losses>>
        \/ link = "dead" /\ link' = "closed" /\ UNCHANGED losses
    BY <1>4 DEF BrokerStep, R!BrokerEnvironment, R!BrokerReads, R!CutConnection,
                R!ConnectionLost, R!BrokerDown, R!BrokerUp, R!NoticeDead
  <2>3. MutexInv'
    BY <2>1, <2>2 DEF IsInside, WillDial, NoConnection
  <2>4. DialsInv'
    BY <2>1, <2>2
  <2>. QED BY <2>3, <2>4
<1>5. CASE Crash
  <2>1. /\ rpc' = [c \in Callers |-> IF rpc[c] \in R!Active THEN "lost" ELSE rpc[c]]
        /\ hpc' = [c \in Callers |-> IF hpc[c] \in {"idle", "done"} THEN hpc[c] ELSE "lost"]
        /\ mu' = {} /\ link' = "nil" /\ UNCHANGED <<dials, losses>> /\ crashes' = crashes + 1
    BY <1>5 DEF Crash, R!Crash, R!BrokerClientLost
  <2>2. \A c \in Callers : ~ IsInside(c)' /\ ~ WillDial(c)'
    BY <2>1 DEF IsInside, WillDial, R!Active, R!InTransaction
  <2>3. MutexInv'
    BY <2>1, <2>2
  <2>4. DialsInv'
    BY <2>1
  <2>. QED BY <2>3, <2>4
<1>6. CASE UNCHANGED vars
  BY <1>6 DEF vars, brokerVars, ratingVars, probeVars, IsInside, WillDial, NoConnection
<1>. QED BY <1>1, <1>2, <1>3, <1>4, <1>5, <1>6 DEF Next, Terminating

\* The mutex serves ratings and probes alike: one of them at a time is inside
\* GetConnection, and no two that found the connection closed dial one after
\* the other for the same outage.
THEOREM MutexIsExclusive == Spec => []OneInsideGetConnection
<1>1. LinkInv => OneInsideGetConnection
  BY DEF LinkInv, MutexInv, DialsInv, OneInsideGetConnection, IsInside, Callers
<1>2. Spec => []CallsOK
  BY PoolHolds, PTL
<1>3. Spec => []LinkInv
  BY <1>2, InitLink, NextLink, PTL DEF Spec
<1>. QED BY <1>1, <1>3, PTL

-------------------------------------------------------------------------------
(* A rating in the process is a rating among probes.  It differs from the  *)
(* one in Rating in the pool, where the other calls leave it less room,    *)
(* and in what a probe does: there it takes the mutex once, here it pings  *)
(* first and looks at what it got.                                         *)

\* With other calls in the pool there is less room than the calls of S would leave.
LEMMA RoomForAll ==
  ASSUME NEW S, IsFiniteSet(conns), Cardinality(conns) < MaxConns
  PROVE  Cardinality(conns \cap S) < MaxConns
<1>1. Cardinality(conns \cap S) <= Cardinality(conns)
  BY FS_Subset
<1>2. Cardinality(conns \cap S) \in Nat /\ Cardinality(conns) \in Nat
  BY FS_Subset, FS_CardinalityType
<1>. QED BY <1>1, <1>2

\* A probe that has not been in GetConnection has no connection to the broker.
GotInv ==
  /\ got \in [Callers -> Nat]
  /\ \A c \in Probes : hpc[c] \in {"idle", "ping", "pinging", "lock"} => got[c] = 0

\* What a step of one caller does to its connection.
GetsConnection(c) ==
  \/ UNCHANGED got
  \/ \E n \in {dials, dials + 1} : got' = [got EXCEPT ![c] = n]

LEMMA RatingGets ==
  ASSUME NEW c \in Ratings, RatingStep(c)
  PROVE  GetsConnection(c) /\ UNCHANGED hpc
<1>1. UNCHANGED hpc
  BY DEF RatingStep, probeVars
<1>2. GetsConnection(c)
  <2>. USE DEF GetsConnection, R!brokerVars
  <2>1. CASE R!GetConnection(c)
    BY <2>1 DEF R!GetConnection, R!ReuseConnection, R!FindClosed, R!Dial
  <2>2. CASE R!Resolve(c)
    BY <2>2 DEF R!Resolve, R!CommitApplies, R!CommitLost
  <2>3. CASE ~ R!GetConnection(c) /\ ~ R!Resolve(c)
    BY <2>3 DEF RatingStep, R!Accept, R!Refuse, R!Handler, R!Begin, R!BeginFails, R!UpdateRating,
       R!UpdateFindsNone, R!UpdateFails, R!EnterGetConnection, R!Lock, R!GetChannel,
       R!OpenChannel, R!GetChannelFails, R!DeclareQueue, R!Declare, R!PublishRating, R!Publish,
       R!SendFails, R!SendCommit, R!CommitAcked, R!CommitFails, R!Abort,
       R!RollBack, R!CallRefused
  <2>. QED BY <2>1, <2>2, <2>3
<1>. QED BY <1>1, <1>2

LEMMA NextGot == CallsOK /\ LinkInv /\ GotInv /\ [Next]_vars => GotInv'
<1>. SUFFICES ASSUME CallsOK, LinkInv, GotInv, [Next]_vars PROVE GotInv'
  OBVIOUS
<1>. USE DEF GotInv, Callers
<1>0. dials \in Nat /\ dials + 1 \in Nat
  BY DEF LinkInv, DialsInv
<1>1. CASE (\E r \in Requests : CheckoutStep(r)) \/ BrokerStep \/ UNCHANGED vars
  BY <1>1 DEF CheckoutStep, BrokerStep, R!BrokerEnvironment, R!BrokerReads, R!CutConnection,
                R!ConnectionLost, R!BrokerDown, R!BrokerUp,
              R!NoticeDead, vars, brokerVars, probeVars
<1>2. ASSUME NEW c \in Ratings, RatingStep(c) PROVE GotInv'
  <2>1. UNCHANGED hpc /\ GetsConnection(c) /\ c \notin Probes
    BY <1>2, RatingGets
  <2>. QED BY <1>0, <2>1 DEF GetsConnection
<1>3. ASSUME NEW c \in Probes, ProbeStep(c) PROVE GotInv'
  <2>. USE DEF CallsOK, H!Goto, H!brokerVars
  <2>1. CASE H!Ask(c) \/ H!Ping(c) \/ H!PingAnswers(c) \/ H!PingFails(c)
    BY <2>1 DEF H!Ask, H!Ping, H!PingAnswers, H!PingFails
  <2>2. CASE H!EnterGetConnection(c) \/ H!HealthCheck(c)
    BY <2>2 DEF H!EnterGetConnection, H!Lock, H!HealthCheck
  <2>3. CASE H!GetConnection(c)
    BY <1>0, <2>3 DEF H!GetConnection, H!ReuseConnection, H!FindClosed, H!Dial
  <2>. QED BY <1>3, <2>1, <2>2, <2>3 DEF ProbeStep, H!Handler
<1>4. CASE Crash
  BY <1>4 DEF Crash, R!Crash, R!BrokerClientLost
<1>. QED BY <1>1, <1>2, <1>3, <1>4 DEF Next, Terminating

LEMMA LinkHolds == Spec => [](LinkInv /\ GotInv)
<1>1. Init => GotInv
  BY DEF Init, R!Init, R!BrokerInit, GotInv, Callers
<1>2. Spec => []CallsOK
  BY PoolHolds, PTL
<1>. QED BY <1>1, <1>2, InitLink, NextLink, NextGot, PTL DEF Spec

LEMMA InitRatings == Init => AmongProbes!Init
<1>. SUFFICES ASSUME Init PROVE AmongProbes!Init
  OBVIOUS
<1>1. R!NoArgs = AmongProbes!NoArgs /\ (R!BrokerInit => AmongProbes!BrokerInit)
  BY DEF R!NoArgs, AmongProbes!NoArgs, R!BrokerInit, AmongProbes!BrokerInit
<1>2. conns \cap Ratings = {}
  BY DEF Init, R!Init
<1>. QED BY <1>1, <1>2 DEF Init, R!Init, AmongProbes!Init

LEMMA RatingExits ==
  ASSUME NEW c \in Ratings, NEW status
  PROVE  /\ R!Finish(c, status) => AmongProbes!Finish(c, status)
         /\ R!Release(c) => AmongProbes!Release(c)
         /\ R!RollBack(c, status) => AmongProbes!RollBack(c, status)
         /\ R!Abort(c, status) => AmongProbes!Abort(c, status)
<1>1. R!Finish(c, status) => AmongProbes!Finish(c, status)
  BY DEF R!Finish, AmongProbes!Finish
<1>2. R!Release(c) => AmongProbes!Release(c)
  BY DEF R!Release, AmongProbes!Release
<1>3. R!RollBack(c, status) => AmongProbes!RollBack(c, status)
  BY <1>1, <1>2 DEF R!RollBack, AmongProbes!RollBack, R!Unlocked, AmongProbes!Unlocked
<1>4. R!Abort(c, status) => AmongProbes!Abort(c, status)
  BY <1>3 DEF R!Abort, AmongProbes!Abort, R!brokerVars, AmongProbes!brokerVars
<1>. QED BY <1>1, <1>2, <1>3, <1>4

\* The calls of Broker know nothing of the pool.
LEMMA SameBroker ==
  ASSUME NEW c \in Callers
  PROVE  /\ R!Lock(c) <=> AmongProbes!Lock(c)
         /\ R!ReuseConnection(c) <=> AmongProbes!ReuseConnection(c)
         /\ R!FindClosed(c) <=> AmongProbes!FindClosed(c)
         /\ R!Dial(c) <=> AmongProbes!Dial(c)
         /\ R!OpenChannel(c) <=> AmongProbes!OpenChannel(c)
         /\ R!ChannelFails(c) <=> AmongProbes!ChannelFails(c)
         /\ R!Declare(c) <=> AmongProbes!Declare(c)
         /\ R!CallBreaks(c) <=> AmongProbes!CallBreaks(c)
         /\ R!CallRefused(c) <=> AmongProbes!CallRefused(c)
         /\ \A m : R!Publish(c, m) <=> AmongProbes!Publish(c, m)
<1>. USE DEF R!IsClosed, AmongProbes!IsClosed, R!brokerVars, AmongProbes!brokerVars,
             R!IsCurrent, AmongProbes!IsCurrent, R!CanCall, AmongProbes!CanCall,
             R!CallBreaks, AmongProbes!CallBreaks
<1>1. R!Lock(c) <=> AmongProbes!Lock(c)
  BY DEF R!Lock, AmongProbes!Lock
<1>2. R!ReuseConnection(c) <=> AmongProbes!ReuseConnection(c)
  BY DEF R!ReuseConnection, AmongProbes!ReuseConnection
<1>3. R!FindClosed(c) <=> AmongProbes!FindClosed(c)
  BY DEF R!FindClosed, AmongProbes!FindClosed
<1>4. R!Dial(c) <=> AmongProbes!Dial(c)
  BY DEF R!Dial, AmongProbes!Dial
<1>5. R!OpenChannel(c) <=> AmongProbes!OpenChannel(c)
  BY SameCount DEF R!OpenChannel, AmongProbes!OpenChannel
<1>6. R!ChannelFails(c) <=> AmongProbes!ChannelFails(c)
  BY SameCount DEF R!ChannelFails, AmongProbes!ChannelFails
<1>7. R!Declare(c) <=> AmongProbes!Declare(c)
  BY DEF R!Declare, AmongProbes!Declare
<1>8. R!CallBreaks(c) <=> AmongProbes!CallBreaks(c)
  OBVIOUS
<1>9. \A m : R!Publish(c, m) <=> AmongProbes!Publish(c, m)
  BY DEF R!Publish, AmongProbes!Publish
<1>10. R!CallRefused(c) <=> AmongProbes!CallRefused(c)
  BY DEF R!CallRefused, AmongProbes!CallRefused
<1>. QED BY <1>1, <1>2, <1>3, <1>4, <1>5, <1>6, <1>7, <1>8, <1>9, <1>10

LEMMA RatingStepsAmongProbes ==
  ASSUME IsFiniteSet(conns), NEW c \in Ratings, RatingStep(c)
  PROVE  AmongProbes!Next
<1>. USE RatingExits, SameBroker
     DEF Callers, R!Goto, AmongProbes!Goto, R!dbVars, AmongProbes!dbVars,
         R!unsentVars, AmongProbes!unsentVars, R!brokerVars, AmongProbes!brokerVars,
         R!Message, AmongProbes!Message, R!Unlocked, AmongProbes!Unlocked
<1>1. R!Accept(c) => AmongProbes!Accept(c)
  BY DEF R!Accept, AmongProbes!Accept
<1>2. R!Refuse(c) => AmongProbes!Refuse(c)
  BY DEF R!Refuse, AmongProbes!Refuse
<1>3. R!Handler(c) => AmongProbes!Handler(c)
  <2>1. R!Begin(c) => AmongProbes!Begin(c)
    BY RoomForAll, SameCount DEF R!Begin, AmongProbes!Begin, R!Acquire, AmongProbes!Acquire
  <2>2. R!BeginFails(c) => AmongProbes!BeginFails(c)
    BY RoomForAll, SameCount DEF R!BeginFails, AmongProbes!BeginFails
  <2>3. R!UpdateRating(c) => AmongProbes!UpdateRating(c)
    BY DEF R!UpdateRating, AmongProbes!UpdateRating
  <2>4. R!UpdateFindsNone(c) => AmongProbes!UpdateFindsNone(c)
    BY DEF R!UpdateFindsNone, AmongProbes!UpdateFindsNone
  <2>5. R!UpdateFails(c) => AmongProbes!UpdateFails(c)
    BY DEF R!UpdateFails, AmongProbes!UpdateFails
  <2>6. R!EnterGetConnection(c) => AmongProbes!EnterGetConnection(c)
    BY DEF R!EnterGetConnection, AmongProbes!EnterGetConnection
  <2>7. R!GetConnection(c) => AmongProbes!GetConnection(c)
    BY DEF R!GetConnection, AmongProbes!GetConnection
  <2>8. R!GetChannel(c) => AmongProbes!GetChannel(c)
    BY DEF R!GetChannel, AmongProbes!GetChannel
  <2>9. R!GetChannelFails(c) => AmongProbes!GetChannelFails(c)
    BY DEF R!GetChannelFails, AmongProbes!GetChannelFails
  <2>10. R!DeclareQueue(c) => AmongProbes!DeclareQueue(c)
    BY DEF R!DeclareQueue, AmongProbes!DeclareQueue
  <2>11. R!PublishRating(c) => AmongProbes!PublishRating(c)
    BY DEF R!PublishRating, AmongProbes!PublishRating
  <2>12. R!SendFails(c) => AmongProbes!SendFails(c)
    BY DEF R!SendFails, AmongProbes!SendFails
  <2>13. R!SendCommit(c) => AmongProbes!SendCommit(c)
    BY DEF R!SendCommit, AmongProbes!SendCommit
  <2>14. R!CommitAcked(c) => AmongProbes!CommitAcked(c)
    BY DEF R!CommitAcked, AmongProbes!CommitAcked
  <2>15. R!CommitFails(c) => AmongProbes!CommitFails(c)
    BY DEF R!CommitFails, AmongProbes!CommitFails
  <2>. QED
    BY <2>1, <2>2, <2>3, <2>4, <2>5, <2>6, <2>7, <2>8, <2>9, <2>10, <2>11, <2>12, <2>13,
       <2>14, <2>15 DEF R!Handler, AmongProbes!Handler
<1>4. R!Resolve(c) => AmongProbes!Resolve(c)
  BY DEF R!Resolve, AmongProbes!Resolve, R!CommitApplies, AmongProbes!CommitApplies,
         R!CommitLost, AmongProbes!CommitLost
<1>. QED BY <1>1, <1>2, <1>3, <1>4 DEF RatingStep, AmongProbes!Next

\* A probe's turn in GetConnection is HealthCheck; nothing else of a probe shows.
LEMMA ProbeStepsAmongProbes ==
  ASSUME CallsOK, LinkInv, GotInv, NEW c \in Probes, ProbeStep(c)
  PROVE  AmongProbes!Next \/ UNCHANGED AmongProbes!vars
<1>1. UNCHANGED <<ratingVars, crashes>> /\ (conns \cap Ratings)' = conns \cap Ratings
  <2>1. UNCHANGED <<ratingVars, crashes>>
    BY DEF ProbeStep
  <2>2. UsesPool(c) /\ c \notin Ratings
    BY ProbeUsesPool
  <2>. QED BY <2>1, <2>2 DEF UsesPool, Acquire, Release
<1>2. UNCHANGED rpc /\ UNCHANGED AmongProbes!unsentVars
  BY <1>1 DEF ratingVars, AmongProbes!unsentVars, AmongProbes!dbVars
<1>3. c \in Callers \ Ratings
  BY DEF Callers
<1>4. CASE H!EnterGetConnection(c)
  <2>1. got[c] = 0 /\ AmongProbes!Lock(c)
    BY <1>4 DEF H!EnterGetConnection, H!Goto, H!Lock, AmongProbes!Lock, GotInv
  <2>. QED BY <1>2, <1>3, <2>1 DEF AmongProbes!HealthCheck, AmongProbes!Next
<1>5. CASE H!GetConnection(c)
  <2>1. CASE H!ReuseConnection(c)
    <3>1. AmongProbes!ReuseConnection(c)
      BY <2>1 DEF H!ReuseConnection, AmongProbes!ReuseConnection, H!IsClosed, AmongProbes!IsClosed
    <3>. QED BY <1>2, <1>3, <3>1 DEF AmongProbes!HealthCheck, AmongProbes!Next
  <2>2. CASE H!FindClosed(c)
    BY <1>2, <2>2 DEF H!FindClosed, H!brokerVars, AmongProbes!vars, AmongProbes!brokerVars,
                      AmongProbes!unsentVars
  <2>3. CASE H!Goto(c, "dial", "check") /\ H!Dial(c)
    <3>1. WillDial(c)
      BY <2>3 DEF H!Goto, WillDial
    <3>2. AmongProbes!IsClosed
      BY <1>3, <3>1 DEF LinkInv, MutexInv, NoConnection, AmongProbes!IsClosed
    <3>3. AmongProbes!Dial(c)
      BY <2>3 DEF H!Dial, AmongProbes!Dial
    <3>. QED BY <1>2, <1>3, <3>2, <3>3 DEF AmongProbes!HealthCheck, AmongProbes!Next
  <2>. QED BY <1>5, <2>1, <2>2, <2>3 DEF H!GetConnection
<1>6. CASE H!Ask(c) \/ H!Ping(c) \/ H!PingAnswers(c) \/ H!PingFails(c) \/ H!HealthCheck(c)
  <2>1. UNCHANGED AmongProbes!brokerVars
    BY <1>6 DEF H!Ask, H!Ping, H!PingAnswers, H!PingFails, H!HealthCheck, H!brokerVars,
                AmongProbes!brokerVars
  <2>. QED BY <1>2, <2>1 DEF AmongProbes!vars, AmongProbes!unsentVars
<1>. QED BY <1>4, <1>5, <1>6 DEF ProbeStep, H!Handler

LEMMA NextRatings ==
  CallsOK /\ PoolInv /\ LinkInv /\ GotInv /\ [Next]_vars => [AmongProbes!Next]_AmongProbes!vars
<1>. SUFFICES ASSUME CallsOK, PoolInv, LinkInv, GotInv, [Next]_vars
              PROVE  AmongProbes!Next \/ UNCHANGED AmongProbes!vars
  OBVIOUS
<1>. USE DEF AmongProbes!vars, AmongProbes!dbVars, AmongProbes!brokerVars, AmongProbes!unsentVars
<1>1. ASSUME NEW r \in Requests, CheckoutStep(r) PROVE UNCHANGED AmongProbes!vars
  <2>1. UNCHANGED <<brokerVars, ratingVars>>
    BY <1>1 DEF CheckoutStep
  <2>2. UsesPool(r) /\ r \notin Ratings
    BY <1>1, CheckoutUsesPool
  <2>3. (conns \cap Ratings)' = conns \cap Ratings
    BY <2>2 DEF UsesPool, Acquire, Release
  <2>4. UNCHANGED crashes
    BY <1>1 DEF CheckoutStep, C!Accept, C!Refuse, C!Handler, C!Begin, C!BeginFails,
       C!MenusAnswered, C!MenusMissing, C!MenusFail, C!PostPayment, C!PaymentConfirmed,
       C!PaymentRefused, C!PaymentFails, C!InsertTh, C!InsertTd, C!InsertFails, C!SendCommit,
       C!CommitAcked, C!CommitFails, C!Abort, C!CommitApplies, C!WalletDebits, C!WalletRefuses
  <2>. QED BY <2>1, <2>3, <2>4 DEF brokerVars, ratingVars
<1>2. ASSUME NEW c \in Ratings, RatingStep(c) PROVE AmongProbes!Next
  BY <1>2, RatingStepsAmongProbes DEF PoolInv, IsPool
<1>3. ASSUME NEW c \in Probes, ProbeStep(c)
      PROVE  AmongProbes!Next \/ UNCHANGED AmongProbes!vars
  BY <1>3, ProbeStepsAmongProbes
<1>4. CASE BrokerStep
  <2>1. AmongProbes!BrokerEnvironment
    BY <1>4 DEF BrokerStep, R!BrokerEnvironment, AmongProbes!BrokerEnvironment,
                R!BrokerReads, AmongProbes!BrokerReads, R!CutConnection,
                AmongProbes!CutConnection, R!ConnectionLost, AmongProbes!ConnectionLost,
                R!BrokerDown, AmongProbes!BrokerDown, R!BrokerUp, AmongProbes!BrokerUp,
                R!NoticeDead, AmongProbes!NoticeDead
  <2>2. UNCHANGED rpc /\ UNCHANGED AmongProbes!unsentVars
    BY <1>4 DEF BrokerStep, ratingVars
  <2>. QED BY <2>1, <2>2 DEF AmongProbes!Environment, AmongProbes!Next
<1>5. CASE Crash
  <2>1. R!Active = AmongProbes!Active
    BY DEF R!Active, AmongProbes!Active, R!InTransaction, AmongProbes!InTransaction
  <2>2. R!BrokerClientLost => AmongProbes!BrokerClientLost
    BY DEF R!BrokerClientLost, AmongProbes!BrokerClientLost
  <2>3. AmongProbes!Crash
    BY <1>5, <2>1, <2>2 DEF Crash, R!Crash, AmongProbes!Crash
  <2>. QED BY <2>3 DEF AmongProbes!Next
<1>6. CASE UNCHANGED vars
  BY <1>6 DEF vars, brokerVars, ratingVars
<1>. QED BY <1>1, <1>2, <1>3, <1>4, <1>5, <1>6 DEF Next, Terminating

\* The process implements the ratings among probes: what Rating keeps, it keeps
\* beside checkouts, too, and beside probes that ping before they dial.
THEOREM ProcessRefinesRating == Spec => ImplementsRating
<1>. QED
  BY InitRatings, NextRatings, PoolHolds, LinkHolds, PTL
     DEF Spec, ImplementsRating, AmongProbes!Spec
===============================================================================
