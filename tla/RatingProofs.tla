----------------------------- MODULE RatingProofs -----------------------------
(***************************************************************************)
(* Proofs about Rating, for any set of calls, lines and stars, any size of *)
(* the pool, any limit of channels and any number of losses and crashes.   *)
(***************************************************************************)
EXTENDS Rating, Lemmas

USE RatingAssumption, BrokerAssumption

-------------------------------------------------------------------------------
(* Types.                                                                  *)

Places  == Active \cup {"idle", "done", "lost"}
Codes   == {"none", "200", "400", "500", "refused"}
Commits == {"none", "sent", "applied", "lost"}
Links   == {"nil", "live", "dead", "closed"}
Args    == [line : Lines \cup {NoLine}, stars : Stars \cup {0}]

CallTypes ==
  /\ pc \in [Callers -> Places]
  /\ args \in [Callers -> Args]
  /\ commit \in [Callers -> Commits]
  /\ answer \in [Callers -> Codes]
  /\ crashes \in 0..MaxCrashes

RowTypes ==
  /\ rating \in [Lines -> Stars \cup {0}]
  /\ locked \in [Lines -> SUBSET Callers]

TInv == CallTypes /\ RowTypes /\ IsPool(conns, Callers, MaxConns)

LEMMA InitTypes == Init => TInv
<1>. SUFFICES ASSUME Init PROVE TInv
  OBVIOUS
<1>1. CallTypes /\ RowTypes
  BY DEF Init, NoArgs, Args, CallTypes, RowTypes, Places, Codes, Commits
<1>. QED BY <1>1, PoolSizeAssumption, EmptyPool DEF Init, TInv

\* What an early return does to the variables it touches.
LEMMA RollBackKeepsTypes ==
  ASSUME TInv, NEW c \in Callers, NEW code \in {"400", "500"}, RollBack(c, code)
  PROVE  TInv'
<1>1. CallTypes' /\ RowTypes'
  BY DEF TInv, CallTypes, RowTypes, RollBack, Finish, Unlocked, Places, Codes
<1>. QED BY <1>1, PoolSizeAssumption, PoolShrinks DEF TInv, RollBack, Release

LEMMA NextTypes == TInv /\ [Next]_vars => TInv'
<1>. SUFFICES ASSUME TInv, [Next]_vars PROVE TInv'
  OBVIOUS
<1>. USE DEF TInv
<1>1. CASE UNCHANGED vars
  BY <1>1 DEF vars, dbVars, CallTypes, RowTypes, IsPool
<1>2. ASSUME NEW c \in Callers, Accept(c) PROVE TInv'
  <2>1. PICK line \in Lines \cup {NoLine}, stars \in Stars :
          args' = [args EXCEPT ![c] = [line |-> line, stars |-> stars]]
    BY <1>2 DEF Accept
  <2>2. args' \in [Callers -> Args]
    BY <2>1 DEF CallTypes, Args
  <2>. QED BY <1>2, <2>2 DEF Accept, Goto, dbVars, CallTypes, RowTypes, IsPool, Places, Active
<1>3. ASSUME NEW c \in Callers, Refuse(c) \/ BeginFails(c) PROVE TInv'
  BY <1>3 DEF Refuse, BeginFails, Finish, dbVars, CallTypes, RowTypes, IsPool, Places, Codes
<1>4. ASSUME NEW c \in Callers, Begin(c) PROVE TInv'
  BY <1>4, PoolSizeAssumption, PoolGrows
     DEF Begin, Acquire, Goto, CallTypes, RowTypes, Places, Active, InTransaction
<1>5. ASSUME NEW c \in Callers, UpdateRating(c) PROVE TInv'
  BY <1>5 DEF UpdateRating, Goto, CallTypes, RowTypes, IsPool, Places, Active, InTransaction
<1>6. ASSUME NEW c \in Callers,
             UpdateFindsNone(c) \/ UpdateFails(c) \/ GetChannelFails(c) \/ SendFails(c)
      PROVE  TInv'
  BY <1>6, RollBackKeepsTypes DEF UpdateFindsNone, UpdateFails, GetChannelFails, SendFails, Abort
<1>7. ASSUME NEW c \in Callers,
             EnterGetConnection(c) \/ GetConnection(c) \/ GetChannel(c) \/ DeclareQueue(c)
      PROVE  TInv'
  BY <1>7 DEF EnterGetConnection, GetConnection, GetChannel, DeclareQueue, Goto, unsentVars,
              dbVars, CallTypes, RowTypes, IsPool, Places, Active, InTransaction
<1>8. ASSUME NEW c \in Callers, PublishRating(c) PROVE TInv'
  BY <1>8 DEF PublishRating, Goto, dbVars, CallTypes, RowTypes, IsPool, Places, Active,
              InTransaction
<1>9. ASSUME NEW c \in Callers, SendCommit(c) PROVE TInv'
  BY <1>9 DEF SendCommit, Goto, CallTypes, RowTypes, IsPool, Places, Active, InTransaction,
              Commits
<1>10. ASSUME NEW c \in Callers, CommitAcked(c) \/ CommitFails(c) PROVE TInv'
  <2>1. CallTypes' /\ RowTypes'
    BY <1>10 DEF CommitAcked, CommitFails, Finish, CallTypes, RowTypes, Places, Codes
  <2>2. Release(c)
    BY <1>10 DEF CommitAcked, CommitFails
  <2>. QED BY <2>1, <2>2, PoolSizeAssumption, PoolShrinks DEF Release
<1>11. ASSUME NEW c \in Callers, CommitApplies(c) PROVE TInv'
  BY <1>11 DEF CommitApplies, Unlocked, CallTypes, RowTypes, IsPool, Args, Commits
<1>12. ASSUME NEW c \in Callers, CommitLost(c) PROVE TInv'
  BY <1>12 DEF CommitLost, Unlocked, CallTypes, RowTypes, IsPool, Commits
<1>13. CASE Environment
  BY <1>13 DEF Environment, unsentVars, dbVars, CallTypes, RowTypes, IsPool
<1>14. CASE Crash
  BY <1>14, PoolSizeAssumption, EmptyPool DEF Crash, CallTypes, RowTypes, Places
<1>15. ASSUME NEW c \in Callers \ Ratings, HealthCheck(c) PROVE TInv'
  BY <1>15 DEF HealthCheck, unsentVars, dbVars, CallTypes, RowTypes, IsPool
<1>. QED
  BY <1>1, <1>2, <1>3, <1>4, <1>5, <1>6, <1>7, <1>8, <1>9, <1>10, <1>11, <1>12, <1>13, <1>14,
     <1>15 DEF Next, Handler, Resolve, Terminating

-------------------------------------------------------------------------------
(* The broker is up or down, and its queue is declared or not.             *)

FlagsOK == up \in BOOLEAN /\ declared \in BOOLEAN

LEMMA FlagsHold == Spec => []FlagsOK
<1>1. Init => FlagsOK
  BY Zenon DEF Init, BrokerInit, FlagsOK
<1>2. [Next]_vars => up' \in {up, TRUE, FALSE} /\ declared' \in {declared, TRUE}
  <2>1. ASSUME NEW c \in Callers, Handler(c)
        PROVE  up' = up /\ declared' \in {declared, TRUE}
    BY <2>1 DEF Handler, Begin, BeginFails, UpdateRating, UpdateFindsNone, UpdateFails,
                EnterGetConnection, Lock, GetConnection, ReuseConnection, FindClosed, Dial,
                GetChannel, OpenChannel, GetChannelFails, DeclareQueue, Declare, PublishRating,
                Publish, CallRefused, SendFails, SendCommit, CommitAcked, CommitFails, Abort,
                brokerVars
  <2>2. ASSUME NEW c \in Callers, Accept(c) \/ Refuse(c) \/ Resolve(c)
        PROVE  up' = up /\ declared' = declared
    BY <2>2 DEF Accept, Refuse, Resolve, CommitApplies, CommitLost, brokerVars
  <2>3. ASSUME Environment PROVE up' \in {up, TRUE, FALSE} /\ declared' = declared
    BY <2>3 DEF Environment, BrokerEnvironment, BrokerReads, CutConnection, ConnectionLost,
                BrokerDown, BrokerUp, NoticeDead
  <2>4. ASSUME Crash \/ UNCHANGED vars PROVE up' = up /\ declared' = declared
    BY <2>4 DEF Crash, BrokerClientLost, vars, brokerVars
  <2>5. ASSUME NEW c \in Callers, HealthCheck(c) PROVE up' = up /\ declared' = declared
    BY <2>5 DEF HealthCheck, Lock, ReuseConnection, Dial
  <2>. QED BY <2>1, <2>2, <2>3, <2>4, <2>5 DEF Next, Terminating
<1>3. FlagsOK /\ [Next]_vars => FlagsOK'
  BY <1>2, Zenon DEF FlagsOK
<1>. QED BY <1>1, <1>3, PTL DEF Spec

-------------------------------------------------------------------------------
(* The shared connection.  The mutex is held by the one caller that is     *)
(* inside GetConnection; one that is about to dial found no connection,    *)
(* and nobody else has made one since.  So every dial but the first is     *)
(* owed to a loss of the connection or to a crash.                         *)

InsideGetConnection == {"connect", "dial"}

MutexOK ==
  /\ mu \subseteq Callers
  /\ \A c, d \in mu : c = d
  /\ \A c \in Ratings : /\ pc[c] \in InsideGetConnection <=> c \in mu
                        /\ pc[c] = "dial" => IsClosed

LinkOK ==
  /\ link \in Links
  /\ dials \in Nat /\ losses \in 0..MaxLosses
  /\ got \in [Callers -> 0..dials]
  /\ dials <= losses + crashes + 1
  /\ link # "live" => dials <= losses + crashes
  /\ losses = 0 => link \in {"nil", "live"}

ChannelsOK ==
  /\ channels \subseteq Callers
  /\ IsFiniteSet(channels) /\ Cardinality(channels) <= ChannelMax

BInv == MutexOK /\ LinkOK /\ ChannelsOK

LEMMA InitBroker == Init => BInv
<1>. SUFFICES ASSUME Init PROVE BInv
  OBVIOUS
<1>1. MutexOK /\ LinkOK
  BY DEF Init, BrokerInit, MutexOK, LinkOK, Links, InsideGetConnection
<1>2. ChannelsOK
  BY FS_EmptySet DEF Init, BrokerInit, ChannelsOK
<1>. QED BY <1>1, <1>2 DEF BInv

\* Handlers that do not touch the broker, outside GetConnection before and after.
LEMMA BrokerLeftAlone ==
  ASSUME TInv, BInv, NEW c \in Ratings, NEW to \in Places \ InsideGetConnection,
         pc[c] \notin InsideGetConnection, pc' = [pc EXCEPT ![c] = to],
         UNCHANGED brokerVars, crashes' = crashes
  PROVE  BInv'
<1>1. MutexOK'
  BY DEF TInv, CallTypes, BInv, MutexOK, InsideGetConnection, brokerVars, IsClosed
<1>2. LinkOK' /\ ChannelsOK'
  BY DEF BInv, LinkOK, ChannelsOK, brokerVars
<1>. QED BY <1>1, <1>2 DEF BInv

\* A dial by whoever found no connection.
LEMMA DialKeepsLink ==
  ASSUME LinkOK, ChannelsOK, crashes \in Nat, NEW c \in Callers, IsClosed, Dial(c),
         crashes' = crashes
  PROVE  LinkOK' /\ ChannelsOK'
<1>1. link \in {"nil", "closed"}
  BY DEF IsClosed
<1>2. 0..dials \subseteq 0..(dials + 1) /\ dials + 1 \in 0..(dials + 1)
  BY DEF LinkOK
<1>3. got' \in [Callers -> 0..(dials + 1)]
  BY <1>2 DEF Dial, LinkOK
<1>4. dials' <= losses' + crashes' + 1
  BY <1>1 DEF Dial, LinkOK
<1>5. LinkOK'
  BY <1>3, <1>4 DEF Dial, LinkOK, Links
<1>6. ChannelsOK'
  BY FS_EmptySet DEF Dial, ChannelsOK
<1>. QED BY <1>5, <1>6

LEMMA NextBroker == TInv /\ BInv /\ [Next]_vars => BInv'
<1>. SUFFICES ASSUME TInv, BInv, [Next]_vars PROVE BInv'
  OBVIOUS
<1>. USE DEF TInv, CallTypes, BInv
<1>1. CASE UNCHANGED vars
  BY <1>1 DEF vars, brokerVars, MutexOK, LinkOK, ChannelsOK, IsClosed
<1>2. ASSUME NEW c \in Ratings,
             Accept(c) \/ Refuse(c) \/ Begin(c) \/ BeginFails(c) \/ UpdateRating(c)
             \/ UpdateFindsNone(c) \/ UpdateFails(c) \/ GetChannelFails(c)
             \/ SendCommit(c) \/ CommitAcked(c) \/ CommitFails(c)
      PROVE  BInv'
  <2>1. PICK to \in Places \ InsideGetConnection :
          /\ pc[c] \notin InsideGetConnection /\ pc' = [pc EXCEPT ![c] = to]
          /\ UNCHANGED brokerVars /\ crashes' = crashes
    BY <1>2 DEF Accept, Refuse, Begin, BeginFails, UpdateRating, UpdateFindsNone, UpdateFails,
                GetChannelFails, SendCommit, CommitAcked, CommitFails, Goto, Finish, Abort,
                RollBack, Places, Active, InTransaction, InsideGetConnection
  <2>. QED BY <2>1, BrokerLeftAlone
<1>3. ASSUME NEW c \in Ratings, EnterGetConnection(c) PROVE BInv'
  BY <1>3 DEF EnterGetConnection, Goto, Lock, unsentVars, MutexOK, LinkOK, ChannelsOK,
              InsideGetConnection, IsClosed
<1>4. ASSUME NEW c \in Ratings, Goto(c, "connect", "channel"), ReuseConnection(c),
             UNCHANGED unsentVars
      PROVE  BInv'
  <2>1. MutexOK'
    BY <1>4 DEF Goto, ReuseConnection, MutexOK, InsideGetConnection, IsClosed
  <2>2. LinkOK' /\ ChannelsOK'
    BY <1>4 DEF ReuseConnection, unsentVars, LinkOK, ChannelsOK
  <2>. QED BY <2>1, <2>2
<1>5. ASSUME NEW c \in Ratings, Goto(c, "connect", "dial"), FindClosed(c),
             UNCHANGED unsentVars
      PROVE  BInv'
  BY <1>5 DEF Goto, FindClosed, brokerVars, unsentVars, MutexOK, LinkOK, ChannelsOK,
              InsideGetConnection, IsClosed
<1>6. ASSUME NEW c \in Ratings, Goto(c, "dial", "channel"), Dial(c), UNCHANGED unsentVars
      PROVE  BInv'
  <2>1. MutexOK'
    BY <1>6 DEF Goto, Dial, MutexOK, InsideGetConnection, IsClosed
  <2>2. IsClosed /\ crashes' = crashes
    BY <1>6 DEF Goto, MutexOK, unsentVars
  <2>. QED BY <1>6, <2>1, <2>2, DialKeepsLink
<1>7. ASSUME NEW c \in Ratings, GetChannel(c) PROVE BInv'
  <2>1. MutexOK' /\ LinkOK'
    BY <1>7 DEF GetChannel, OpenChannel, Goto, unsentVars, MutexOK, LinkOK,
                InsideGetConnection, IsClosed
  <2>2. ChannelsOK'
    <3>1. /\ IsFiniteSet(channels \cup {c})
          /\ Cardinality(channels \cup {c}) =
               IF c \in channels THEN Cardinality(channels) ELSE Cardinality(channels) + 1
      BY FS_AddElement DEF ChannelsOK
    <3>2. Cardinality(channels) \in Nat
      BY FS_CardinalityType DEF ChannelsOK
    <3>. QED BY <1>7, <3>1, <3>2 DEF GetChannel, OpenChannel, ChannelsOK
  <2>. QED BY <2>1, <2>2
<1>8. ASSUME NEW c \in Ratings, DeclareQueue(c) \/ PublishRating(c) PROVE BInv'
  BY <1>8 DEF DeclareQueue, Declare, PublishRating, Publish, Goto, unsentVars,
              MutexOK, LinkOK, ChannelsOK, InsideGetConnection, IsClosed
<1>9. ASSUME NEW c \in Ratings, Resolve(c) PROVE BInv'
  BY <1>9 DEF Resolve, CommitApplies, CommitLost, brokerVars, MutexOK, LinkOK, ChannelsOK,
              IsClosed
<1>10. CASE Environment
  <2>1. CASE BrokerDown \/ ConnectionLost
    <3>0. CutConnection
      BY <2>1 DEF BrokerDown, ConnectionLost
    <3>1. MutexOK' /\ ChannelsOK'
      BY <1>10, <3>0 DEF Environment, CutConnection, MutexOK, ChannelsOK, IsClosed
    <3>2. link' \in Links /\ link' # "live" /\ losses' \in 1..MaxLosses
      BY <3>0 DEF CutConnection, LinkOK, Links
    <3>3. dials' <= losses' + crashes'
      BY <1>10, <3>0 DEF Environment, CutConnection, unsentVars, LinkOK
    <3>4. dials' = dials /\ got' = got /\ crashes' = crashes
      BY <1>10, <3>0 DEF Environment, CutConnection, unsentVars
    <3>5. LinkOK'
      <4>1. link' \in Links
        BY <3>2
      <4>2. dials' \in Nat /\ losses' \in 0..MaxLosses
        BY <3>2, <3>4 DEF LinkOK
      <4>3. got' \in [Callers -> 0..dials']
        BY <3>4 DEF LinkOK
      <4>4. dials' <= losses' + crashes' + 1
        <5>1. \A m, n, k \in Nat : m <= n + k => m <= n + k + 1
          OBVIOUS
        <5>2. dials' \in Nat /\ losses' \in Nat /\ crashes' \in Nat
          BY <3>2, <3>4, <4>2
        <5>. QED BY <3>3, <5>1, <5>2, Zenon
      <4>5. losses' = 0 => link' \in {"nil", "live"}
        BY <3>2
      <4>6. link' # "live" => dials' <= losses' + crashes'
        BY <3>3
      <4>. QED BY <4>1, <4>2, <4>3, <4>4, <4>5, <4>6 DEF LinkOK
    <3>. QED BY <3>1, <3>5
  <2>2. CASE BrokerReads \/ BrokerUp \/ NoticeDead
    BY <1>10, <2>2 DEF Environment, BrokerReads, BrokerUp, NoticeDead, unsentVars, MutexOK, LinkOK,
                       ChannelsOK, IsClosed, Links
  <2>. QED BY <1>10, <2>1, <2>2 DEF Environment, BrokerEnvironment
<1>11. CASE Crash
  <2>1. MutexOK'
    BY <1>11 DEF Crash, BrokerClientLost, MutexOK, InsideGetConnection, Active, InTransaction
  <2>2. LinkOK'
    BY <1>11 DEF Crash, BrokerClientLost, LinkOK, Links
  <2>3. ChannelsOK'
    BY <1>11, FS_EmptySet DEF Crash, BrokerClientLost, ChannelsOK
  <2>. QED BY <2>1, <2>2, <2>3
<1>12. ASSUME NEW c \in Callers \ Ratings, HealthCheck(c) PROVE BInv'
  <2>0. UNCHANGED <<pc, crashes>>
    BY <1>12 DEF HealthCheck, unsentVars
  <2>1. CASE Lock(c)
    BY <2>0, <2>1 DEF Lock, MutexOK, LinkOK, ChannelsOK, IsClosed
  <2>2. CASE ReuseConnection(c)
    BY <2>0, <2>2 DEF ReuseConnection, MutexOK, LinkOK, ChannelsOK, IsClosed
  <2>3. CASE IsClosed /\ Dial(c)
    <3>1. MutexOK'
      BY <2>0, <2>3 DEF Dial, MutexOK, InsideGetConnection, IsClosed
    <3>. QED BY <2>0, <2>3, <3>1, DialKeepsLink
  <2>. QED BY <1>12, <2>1, <2>2, <2>3 DEF HealthCheck
<1>13. ASSUME NEW c \in Ratings, SendFails(c) PROVE BInv'
  <2>0. /\ pc[c] \notin InsideGetConnection /\ pc' = [pc EXCEPT ![c] = "done"]
        /\ UNCHANGED <<mu, link, dials, got, losses, crashes>>
        /\ channels' \in {channels, channels \ {c}}
    BY <1>13 DEF SendFails, RollBack, Finish, CallRefused, brokerVars, InsideGetConnection
  <2>1. MutexOK' /\ LinkOK'
    BY <2>0 DEF MutexOK, LinkOK, InsideGetConnection, IsClosed
  <2>2. /\ IsFiniteSet(channels \ {c})
        /\ Cardinality(channels \ {c}) <= Cardinality(channels)
    BY FS_Subset DEF ChannelsOK
  <2>3. Cardinality(channels) \in Nat /\ Cardinality(channels \ {c}) \in Nat
    BY <2>2, FS_CardinalityType DEF ChannelsOK
  <2>4. ChannelsOK'
    BY <2>0, <2>2, <2>3 DEF ChannelsOK
  <2>. QED BY <2>1, <2>4
<1>. QED
  BY <1>1, <1>2, <1>3, <1>4, <1>5, <1>6, <1>7, <1>8, <1>9, <1>10, <1>11, <1>12, <1>13
     DEF Next, Handler, GetConnection, Terminating

-------------------------------------------------------------------------------
(* The inductive invariant.  A call that found its row unrated holds the   *)
(* lock of the row, and the row stays unrated, until its COMMIT is         *)
(* resolved; when it comes to the COMMIT, Publish has returned.  A message *)
(* on the wire finds its queue declared.                                   *)

Holding == {"lock", "connect", "dial", "channel", "declare", "publish", "commit"}

HandedOver(c) == pc[c] \in {"commit", "committing"} \/ commit[c] # "none"

\* No connection to the broker was lost.
Undisturbed == losses = 0 /\ crashes = 0

Underway == queue \cup wire

WireOK == wire # {} => declared = TRUE

\* What is known of the COMMIT of a call, and of the lock it needs.
CommitOK(c) ==
  /\ commit[c] # "none" => pc[c] \in {"committing", "done", "lost"}
  /\ pc[c] = "committing" => commit[c] \in {"sent", "applied"}
  /\ pc[c] \in Holding \/ commit[c] = "sent" =>
       args[c].line \in Lines /\ c \in locked[args[c].line]
  /\ pc[c] \in Active \/ commit[c] # "none" => args[c].stars \in Stars
  /\ commit[c] = "applied" =>
       args[c].line \in Lines /\ rating[args[c].line] = args[c].stars

\* Where the message of a call is.
MessageOK(c) ==
  /\ pc[c] = "publish" => declared = TRUE
  /\ HandedOver(c) => Message(c) \in sent
  /\ HandedOver(c) /\ Undisturbed => Message(c) \in Underway

\* What the answer of a call implies.
AnswerOK(c) ==
  /\ answer[c] # "none" <=> pc[c] = "done"
  /\ answer[c] = "200" => commit[c] = "applied"
  /\ answer[c] = "400" => args[c].line \notin Lines \/ rating[args[c].line] # 0

\* Who holds the lock of a row.
LockOK(l) ==
  /\ \A c, d \in locked[l] : c = d
  /\ \A c \in locked[l] :
       /\ args[c].line = l /\ rating[l] = 0
       /\ pc[c] \in Holding \/ commit[c] = "sent"

CallOK(c) == CommitOK(c) /\ MessageOK(c) /\ AnswerOK(c)

CInv ==
  /\ \A c \in Callers : CallOK(c)
  /\ \A l \in Lines : LockOK(l)
  /\ WireOK
  /\ NoSilentRating

IInv == TInv /\ BInv /\ CInv

LEMMA InitCalls == Init => CInv
<1>. SUFFICES ASSUME Init PROVE CInv
  OBVIOUS
<1>1. \A c \in Callers : CommitOK(c) /\ AnswerOK(c)
  BY DEF Init, CommitOK, AnswerOK, Holding, Active, InTransaction
<1>2. \A c \in Callers : MessageOK(c)
  BY DEF Init, MessageOK, HandedOver
<1>3. NoSilentRating /\ WireOK /\ \A l \in Lines : LockOK(l)
  BY DEF Init, BrokerInit, NoSilentRating, WireOK, LockOK
<1>. QED BY <1>1, <1>2, <1>3 DEF CInv, CallOK

\* Steps that neither resolve a COMMIT nor lose a message: the stored ratings
\* keep their messages.
LEMMA RatingsKept ==
  ASSUME NoSilentRating, rating' = rating, sent \subseteq sent'
  PROVE  NoSilentRating'
BY DEF NoSilentRating

\* A call whose own variables stay as they are, when no rating and no message of
\* it is lost.
LEMMA OtherCallsKept ==
  ASSUME NEW d \in Callers, CallOK(d),
         pc'[d] = pc[d], args'[d] = args[d], commit'[d] = commit[d], answer'[d] = answer[d],
         \A l \in Lines : d \in locked[l] => d \in locked'[l],
         \A l \in Lines : rating[l] # 0 => rating'[l] = rating[l],
         declared' \in {declared, TRUE}, sent \subseteq sent',
         Undisturbed' => Undisturbed /\ Underway \subseteq Underway'
  PROVE  CallOK(d)'
<1>1. CommitOK(d)'
  BY DEF CallOK, CommitOK, Holding, Active, InTransaction
<1>2. AnswerOK(d)'
  BY DEF CallOK, AnswerOK
<1>3. MessageOK(d)'
  BY DEF CallOK, MessageOK, HandedOver, Message
<1>. QED BY <1>1, <1>2, <1>3 DEF CallOK

\* An early return of a call: its lock, if it has one, goes with it.
LEMMA RollBackKeepsCalls ==
  ASSUME TInv, CInv, NEW c \in Callers, NEW code \in {"400", "500"}, RollBack(c, code),
         UNCHANGED <<declared, queue, wire, losses>>,
         pc[c] \in {"update", "channel", "declare", "publish"},
         code = "400" => args[c].line \notin Lines \/ rating[args[c].line] # 0
  PROVE  CInv'
<1>. USE DEF TInv, CallTypes, RowTypes, CInv
<1>0. commit[c] = "none"
  BY DEF CallOK, CommitOK
<1>1. ASSUME NEW d \in Callers PROVE CallOK(d)'
  <2>1. CASE d = c
    <3>1. CommitOK(d)' /\ AnswerOK(d)'
      BY <1>0, <2>1 DEF RollBack, Finish, CommitOK, AnswerOK, Holding, Active, InTransaction
    <3>2. MessageOK(d)'
      BY <1>0, <2>1 DEF RollBack, Finish, MessageOK, HandedOver
    <3>. QED BY <3>1, <3>2 DEF CallOK
  <2>2. CASE d # c
    <3>1. Undisturbed' = Undisturbed /\ Underway' = Underway
      BY DEF RollBack, Undisturbed, Underway
    <3>2. \A l \in Lines : d \in locked[l] => d \in locked'[l]
      BY <2>2 DEF RollBack, Unlocked
    <3>. QED BY <2>2, <3>1, <3>2, OtherCallsKept DEF RollBack, Finish
  <2>. QED BY <2>1, <2>2
<1>2. ASSUME NEW l \in Lines PROVE LockOK(l)'
  BY DEF RollBack, Finish, Unlocked, LockOK
<1>3. NoSilentRating' /\ WireOK'
  BY RatingsKept DEF RollBack, WireOK
<1>. QED BY <1>1, <1>2, <1>3

LEMMA NextCalls == IInv /\ [Next]_vars => CInv'
<1>. SUFFICES ASSUME IInv, [Next]_vars PROVE CInv'
  OBVIOUS
<1>. USE DEF IInv, TInv, CallTypes, RowTypes, CInv, WireOK, Undisturbed, Underway
<1>1. CASE UNCHANGED vars
  <2>1. \A d \in Callers : CallOK(d)'
    BY <1>1 DEF vars, dbVars, brokerVars, CallOK, CommitOK, AnswerOK, MessageOK, HandedOver,
                Message
  <2>2. \A l \in Lines : LockOK(l)'
    BY <1>1 DEF vars, dbVars, LockOK
  <2>. QED BY <1>1, <2>1, <2>2, RatingsKept DEF vars, dbVars, brokerVars
<1>2. ASSUME NEW c \in Callers, Accept(c) \/ Refuse(c) \/ Begin(c) \/ BeginFails(c)
      PROVE  CInv'
  <2>0. /\ pc[c] \in {"idle", "begin"} /\ commit[c] = "none"
        /\ pc'[c] \in {"begin", "update", "done"} /\ answer'[c] # "200" /\ answer'[c] # "400"
        /\ answer'[c] # "none" <=> pc'[c] = "done"
        /\ pc'[c] # "done" => args'[c].stars \in Stars
        /\ \A d \in Callers : d # c =>
             pc'[d] = pc[d] /\ args'[d] = args[d] /\ answer'[d] = answer[d]
        /\ UNCHANGED <<rating, locked, commit, sent, declared, queue, wire, losses, crashes>>
    <3>1. CASE Accept(c)
      BY <3>1 DEF Accept, Goto, dbVars, brokerVars, CallOK, CommitOK, AnswerOK
    <3>2. CASE Refuse(c) \/ BeginFails(c)
      BY <3>2 DEF Refuse, BeginFails, Finish, dbVars, brokerVars, CallOK, CommitOK, AnswerOK
    <3>3. CASE Begin(c)
      BY <3>3 DEF Begin, Goto, dbVars, brokerVars, CallOK, CommitOK, AnswerOK, Active
    <3>. QED BY <1>2, <3>1, <3>2, <3>3
  <2>1. ASSUME NEW d \in Callers PROVE CallOK(d)'
    <3>1. CASE d = c
      BY <2>0, <3>1 DEF CallOK, CommitOK, AnswerOK, MessageOK, HandedOver, Holding, Active,
                        InTransaction
    <3>2. CASE d # c
      BY <2>0, <3>2, OtherCallsKept
    <3>. QED BY <3>1, <3>2
  <2>2. ASSUME NEW l \in Lines PROVE LockOK(l)'
    BY <2>0 DEF LockOK, Holding
  <2>. QED BY <2>0, <2>1, <2>2, RatingsKept
<1>3. ASSUME NEW c \in Callers, UpdateRating(c) PROVE CInv'
  <2>. DEFINE l == args[c].line
  <2>0. /\ pc[c] = "update" /\ pc'[c] = "lock" /\ commit[c] = "none" /\ answer[c] = "none"
        /\ l \in Lines /\ locked[l] = {} /\ rating[l] = 0 /\ args[c].stars \in Stars
        /\ UNCHANGED <<args, rating, commit, sent, answer, declared, queue, wire, losses, crashes>>
    BY <1>3 DEF UpdateRating, Goto, brokerVars, CallOK, CommitOK, AnswerOK, Active,
                InTransaction
  <2>1. ASSUME NEW d \in Callers PROVE CallOK(d)'
    <3>1. CASE d = c
      BY <1>3, <2>0, <3>1 DEF UpdateRating, CallOK, CommitOK, AnswerOK, MessageOK, HandedOver
    <3>2. CASE d # c
      <4>1. \A k \in Lines : d \in locked[k] => d \in locked'[k]
        BY <1>3, <2>0 DEF UpdateRating
      <4>. QED BY <1>3, <2>0, <3>2, <4>1, OtherCallsKept DEF UpdateRating, Goto
    <3>. QED BY <3>1, <3>2
  <2>2. ASSUME NEW k \in Lines PROVE LockOK(k)'
    BY <1>3, <2>0 DEF UpdateRating, Goto, LockOK, Holding
  <2>. QED BY <2>0, <2>1, <2>2, RatingsKept
<1>4. ASSUME NEW c \in Callers,
             UpdateFindsNone(c) \/ UpdateFails(c) \/ GetChannelFails(c) \/ SendFails(c)
      PROVE  CInv'
  BY <1>4, RollBackKeepsCalls DEF UpdateFindsNone, UpdateFails, GetChannelFails, SendFails, Abort,
                                  CallRefused, brokerVars
<1>5. ASSUME NEW c \in Callers,
             EnterGetConnection(c) \/ GetConnection(c) \/ GetChannel(c) \/ DeclareQueue(c)
      PROVE  CInv'
  <2>0. /\ pc[c] \in Holding \ {"publish", "commit"} /\ pc'[c] \in Holding \ {"commit"}
        /\ \A d \in Callers : d # c => pc'[d] = pc[d]
        /\ UNCHANGED <<args, rating, locked, commit, sent, answer, queue, wire, losses, crashes>>
    BY <1>5 DEF EnterGetConnection, Lock, GetConnection, ReuseConnection, FindClosed, Dial,
                GetChannel, OpenChannel, DeclareQueue, Declare, Goto, Holding, unsentVars,
                dbVars, brokerVars
  <2>1. declared' \in {declared, TRUE} /\ (pc'[c] = "publish" => declared' = TRUE)
    BY <1>5 DEF EnterGetConnection, Lock, GetConnection, ReuseConnection, FindClosed, Dial,
                GetChannel, OpenChannel, DeclareQueue, Declare, Goto, brokerVars
  <2>2. ASSUME NEW d \in Callers PROVE CallOK(d)'
    <3>1. CASE d = c
      <4>1. CommitOK(d)' /\ AnswerOK(d)'
        BY <2>0, <3>1 DEF CallOK, CommitOK, AnswerOK, Holding, Active, InTransaction
      <4>2. MessageOK(d)'
        BY <2>0, <2>1, <3>1 DEF CallOK, CommitOK, MessageOK, HandedOver, Holding
      <4>. QED BY <4>1, <4>2 DEF CallOK
    <3>2. CASE d # c
      BY <2>0, <2>1, <3>2, OtherCallsKept
    <3>. QED BY <3>1, <3>2
  <2>3. ASSUME NEW l \in Lines PROVE LockOK(l)'
    BY <2>0 DEF LockOK
  <2>. QED BY <2>0, <2>1, <2>2, <2>3, RatingsKept
<1>6. ASSUME NEW c \in Callers, PublishRating(c) PROVE CInv'
  <2>0. /\ pc[c] = "publish" /\ pc'[c] = "commit" /\ pc' = [pc EXCEPT ![c] = "commit"]
        /\ sent' = sent \cup {Message(c)}
        /\ UNCHANGED <<args, rating, locked, commit, answer, declared, queue, losses, crashes>>
    BY <1>6 DEF PublishRating, Goto, Publish, dbVars
  <2>1. Underway \subseteq Underway' /\ (losses = 0 => Message(c) \in Underway') /\ WireOK'
    <3>1. link # "nil" /\ link # "closed" /\ declared = TRUE
      BY <1>6, <2>0 DEF PublishRating, Publish, IsClosed, CallOK, MessageOK
    <3>2. wire' = IF link = "live" THEN wire \cup {Message(c)} ELSE wire
      BY <1>6 DEF PublishRating, Publish
    <3>3. losses = 0 => link = "live"
      BY <3>1 DEF BInv, LinkOK
    <3>. QED BY <2>0, <3>1, <3>2, <3>3
  <2>2. ASSUME NEW d \in Callers PROVE CallOK(d)'
    <3>1. CASE d = c
      <4>1. CommitOK(d)' /\ AnswerOK(d)'
        BY <2>0, <3>1 DEF CallOK, CommitOK, AnswerOK, Holding, Active, InTransaction
      <4>2. MessageOK(d)'
        BY <2>0, <2>1, <3>1 DEF MessageOK, Message
      <4>. QED BY <4>1, <4>2 DEF CallOK
    <3>2. CASE d # c
      BY <2>0, <2>1, <3>2, OtherCallsKept
    <3>. QED BY <3>1, <3>2
  <2>3. ASSUME NEW l \in Lines PROVE LockOK(l)'
    BY <2>0 DEF LockOK, Holding
  <2>. QED BY <2>0, <2>1, <2>2, <2>3, RatingsKept
<1>7. ASSUME NEW c \in Callers, SendCommit(c) PROVE CInv'
  <2>0. /\ pc[c] = "commit" /\ pc' = [pc EXCEPT ![c] = "committing"]
        /\ commit' = [commit EXCEPT ![c] = "sent"]
        /\ UNCHANGED <<args, rating, locked, sent, answer, declared, queue, wire, losses, crashes>>
    BY <1>7 DEF SendCommit, Goto, brokerVars
  <2>1. ASSUME NEW d \in Callers PROVE CallOK(d)'
    <3>1. CASE d = c
      <4>1. CommitOK(d)' /\ AnswerOK(d)'
        BY <2>0, <3>1 DEF CallOK, CommitOK, AnswerOK, Holding, Active, InTransaction
      <4>2. MessageOK(d)'
        BY <2>0, <3>1 DEF CallOK, MessageOK, HandedOver, Message
      <4>. QED BY <4>1, <4>2 DEF CallOK
    <3>2. CASE d # c
      BY <2>0, <3>2, OtherCallsKept
    <3>. QED BY <3>1, <3>2
  <2>2. ASSUME NEW l \in Lines PROVE LockOK(l)'
    BY <2>0 DEF LockOK
  <2>. QED BY <2>0, <2>1, <2>2, RatingsKept
<1>8. ASSUME NEW c \in Callers, CommitAcked(c) \/ CommitFails(c) PROVE CInv'
  <2>0. PICK code \in {"200", "500"} :
          /\ pc[c] = "committing" /\ Finish(c, code)
          /\ code = "200" => commit[c] = "applied"
          /\ UNCHANGED <<args, rating, locked, commit, sent, declared, queue, wire, losses,
                       crashes>>
    BY <1>8 DEF CommitAcked, CommitFails, brokerVars
  <2>1. ASSUME NEW d \in Callers PROVE CallOK(d)'
    <3>1. CASE d = c
      <4>1. CommitOK(d)' /\ AnswerOK(d)'
        BY <2>0, <3>1 DEF Finish, CallOK, CommitOK, AnswerOK, Holding, Active, InTransaction
      <4>2. MessageOK(d)'
        BY <2>0, <3>1 DEF Finish, CallOK, MessageOK, HandedOver, Message
      <4>. QED BY <4>1, <4>2 DEF CallOK
    <3>2. CASE d # c
      BY <2>0, <3>2, OtherCallsKept DEF Finish
    <3>. QED BY <3>1, <3>2
  <2>2. ASSUME NEW l \in Lines PROVE LockOK(l)'
    BY <2>0 DEF Finish, LockOK, Holding
  <2>. QED BY <2>0, <2>1, <2>2, RatingsKept
<1>9. ASSUME NEW c \in Callers, CommitApplies(c) PROVE CInv'
  <2>. DEFINE l == args[c].line
  <2>0. /\ commit[c] = "sent" /\ l \in Lines /\ c \in locked[l] /\ rating[l] = 0
        /\ args[c].stars \in Stars /\ pc[c] \in {"committing", "done", "lost"}
        /\ Message(c) \in sent
    BY <1>9 DEF CommitApplies, CallOK, CommitOK, MessageOK, HandedOver, LockOK
  <2>1. /\ rating' = [rating EXCEPT ![l] = args[c].stars] /\ rating'[l] = args[c].stars
        /\ commit' = [commit EXCEPT ![c] = "applied"] /\ locked' = Unlocked(c)
        /\ UNCHANGED <<pc, args, sent, answer, declared, queue, wire, losses, crashes>>
    BY <1>9, <2>0 DEF CommitApplies, brokerVars
  <2>2. \A k \in Lines : rating[k] # 0 => rating'[k] = rating[k]
    BY <2>0, <2>1
  <2>3. ASSUME NEW d \in Callers PROVE CallOK(d)'
    <3>1. CASE d = c
      <4>1. CommitOK(d)' /\ AnswerOK(d)'
        BY <2>0, <2>1, <3>1 DEF CallOK, CommitOK, AnswerOK, Holding
      <4>2. MessageOK(d)'
        BY <2>0, <2>1, <3>1 DEF CallOK, MessageOK, HandedOver, Message
      <4>. QED BY <4>1, <4>2 DEF CallOK
    <3>2. CASE d # c
      BY <2>1, <2>2, <3>2, OtherCallsKept DEF Unlocked
    <3>. QED BY <3>1, <3>2
  <2>4. ASSUME NEW k \in Lines PROVE LockOK(k)'
    <3>1. CASE k = l
      BY <2>0, <2>1, <3>1 DEF LockOK, Unlocked
    <3>2. CASE k # l
      BY <2>0, <2>1, <3>2 DEF LockOK, Unlocked
    <3>. QED BY <3>1, <3>2
  <2>5. NoSilentRating'
    BY <2>0, <2>1 DEF NoSilentRating, Message
  <2>. QED BY <2>1, <2>3, <2>4, <2>5
<1>10. ASSUME NEW c \in Callers, CommitLost(c) PROVE CInv'
  <2>0. /\ commit[c] = "sent" /\ pc[c] \in {"done", "lost"}
        /\ commit' = [commit EXCEPT ![c] = "lost"] /\ locked' = Unlocked(c)
        /\ UNCHANGED <<pc, args, rating, sent, answer, declared, queue, wire, losses, crashes>>
    BY <1>10 DEF CommitLost, brokerVars
  <2>1. ASSUME NEW d \in Callers PROVE CallOK(d)'
    <3>1. CASE d = c
      <4>1. CommitOK(d)' /\ AnswerOK(d)'
        BY <2>0, <3>1 DEF CallOK, CommitOK, AnswerOK, Holding
      <4>2. MessageOK(d)'
        BY <2>0, <3>1 DEF CallOK, MessageOK, HandedOver, Message
      <4>. QED BY <4>1, <4>2 DEF CallOK
    <3>2. CASE d # c
      BY <2>0, <3>2, OtherCallsKept DEF Unlocked
    <3>. QED BY <3>1, <3>2
  <2>2. ASSUME NEW l \in Lines PROVE LockOK(l)'
    BY <2>0 DEF LockOK, Unlocked
  <2>. QED BY <2>0, <2>1, <2>2, RatingsKept
<1>11. CASE Environment
  <2>0. UNCHANGED <<pc, args, rating, locked, commit, sent, answer, declared>>
    BY <1>11 DEF Environment, BrokerEnvironment, BrokerReads, CutConnection, ConnectionLost,
                 BrokerDown, BrokerUp, NoticeDead, unsentVars, dbVars
  <2>1. (Undisturbed' => Undisturbed /\ Underway \subseteq Underway') /\ WireOK'
    <3>1. CASE BrokerDown \/ ConnectionLost
      <4>1. wire' = {} /\ losses' = losses + 1
        BY <3>1 DEF BrokerDown, ConnectionLost, CutConnection
      <4>. QED BY <4>1 DEF BInv, LinkOK
    <3>2. CASE BrokerReads
      <4>1. PICK message \in wire :
              /\ wire' = wire \ {message} /\ UNCHANGED losses
              /\ queue' = IF declared THEN queue \cup {message} ELSE queue
        BY <3>2 DEF BrokerReads
      <4>2. declared = TRUE
        BY <4>1
      <4>3. queue' = queue \cup {message}
        BY <4>1, <4>2
      <4>. QED BY <1>11, <2>0, <4>1, <4>2, <4>3 DEF Environment, unsentVars
    <3>3. CASE BrokerUp \/ NoticeDead
      BY <1>11, <2>0, <3>3 DEF Environment, BrokerUp, NoticeDead, unsentVars
    <3>. QED BY <1>11, <3>1, <3>2, <3>3 DEF Environment, BrokerEnvironment
  <2>2. \A d \in Callers : CallOK(d)'
    BY <2>0, <2>1, OtherCallsKept
  <2>3. \A l \in Lines : LockOK(l)'
    BY <2>0 DEF LockOK
  <2>. QED BY <2>0, <2>1, <2>2, <2>3, RatingsKept
<1>12. CASE Crash
  <2>0. /\ pc' = [c \in Callers |-> IF pc[c] \in Active THEN "lost" ELSE pc[c]]
        /\ locked' = [l \in Lines |-> {c \in locked[l] : commit[c] = "sent"}]
        /\ UNCHANGED <<args, rating, commit, sent, answer, declared>>
        /\ crashes' # 0 /\ wire' = {}
    BY <1>12 DEF Crash, BrokerClientLost
  <2>1. ASSUME NEW d \in Callers PROVE CallOK(d)'
    <3>1. CommitOK(d)'
      BY <2>0 DEF CallOK, CommitOK, Holding, Active, InTransaction
    <3>2. AnswerOK(d)'
      BY <2>0 DEF CallOK, AnswerOK, Active, InTransaction
    <3>3. MessageOK(d)'
      BY <2>0 DEF CallOK, MessageOK, HandedOver, Message, Active, InTransaction
    <3>. QED BY <3>1, <3>2, <3>3 DEF CallOK
  <2>2. ASSUME NEW l \in Lines PROVE LockOK(l)'
    BY <2>0 DEF LockOK
  <2>. QED BY <2>0, <2>1, <2>2, RatingsKept
<1>13. ASSUME NEW c \in Callers, HealthCheck(c) PROVE CInv'
  <2>0. UNCHANGED <<pc, args, rating, locked, commit, sent, answer, declared, queue, wire, losses,
                    crashes>>
    BY <1>13 DEF HealthCheck, Lock, ReuseConnection, Dial, unsentVars, dbVars
  <2>1. \A d \in Callers : CallOK(d)'
    BY <2>0, OtherCallsKept
  <2>2. \A l \in Lines : LockOK(l)'
    BY <2>0 DEF LockOK
  <2>. QED BY <2>0, <2>1, <2>2, RatingsKept
<1>. QED
  BY <1>1, <1>2, <1>3, <1>4, <1>5, <1>6, <1>7, <1>8, <1>9, <1>10, <1>11, <1>12, <1>13
     DEF Next, Handler, Resolve, Terminating

LEMMA IInvHolds == Spec => []IInv
<1>1. Init => IInv
  BY InitTypes, InitBroker, InitCalls DEF IInv
<1>2. IInv /\ [Next]_vars => IInv'
  BY NextTypes, NextBroker, NextCalls DEF IInv
<1>. QED BY <1>1, <1>2, PTL DEF Spec

-------------------------------------------------------------------------------
(* The safety properties.                                                  *)

\* Every reachable state is well-typed: the pool and the channels keep to their
\* limits, and at most one goroutine is inside GetConnection.
THEOREM TypeCorrect == Spec => []TypeOK
<1>1. IInv /\ FlagsOK => TypeOK
  <2>. SUFFICES ASSUME IInv, FlagsOK PROVE TypeOK
    OBVIOUS
  <2>1. Cardinality(mu) <= 1
    <3>1. CASE mu = {}
      BY <3>1, FS_EmptySet
    <3>2. CASE mu # {}
      <4>1. PICK c \in mu : TRUE
        BY <3>2
      <4>2. mu = {c}
        BY <4>1 DEF IInv, BInv, MutexOK
      <4>3. Cardinality({c}) = 1
        BY FS_Singleton
      <4>. QED BY <4>2, <4>3
    <3>. QED BY <3>1, <3>2
  <2>2. BrokerTypeOK
    <3>1. up \in BOOLEAN /\ declared \in BOOLEAN
      BY DEF FlagsOK
    <3>2. /\ link \in {"nil", "live", "dead", "closed"}
          /\ dials \in Nat /\ losses \in 0..MaxLosses
          /\ mu \subseteq Callers /\ got \in [Callers -> 0..dials]
          /\ channels \subseteq Callers /\ Cardinality(channels) <= ChannelMax
      BY DEF IInv, BInv, MutexOK, LinkOK, ChannelsOK, Links
    <3>. QED BY <2>1, <3>1, <3>2, Zenon DEF BrokerTypeOK
  <2>. QED
    BY <2>2 DEF IInv, TInv, CallTypes, RowTypes, IsPool, TypeOK, Places, Codes, Commits, Args
<1>. QED BY <1>1, IInvHolds, FlagsHold, PTL

\* No rating is stored without a message that Publish returned no error for, with
\* the same stars: SetRatingMenu commits only after SendMessage.
THEOREM RatingsArePublished == Spec => []NoSilentRating
<1>1. IInv => NoSilentRating
  BY DEF IInv, CInv
<1>. QED BY <1>1, IInvHolds, PTL

\* A client told 200 has its stars stored, and keeps them: nobody else can have
\* rated the line.
THEOREM SuccessIsStored == Spec => []SuccessMeansRated
<1>1. IInv => SuccessMeansRated
  BY DEF IInv, CInv, CallOK, CommitOK, AnswerOK, SuccessMeansRated
<1>. QED BY <1>1, IInvHolds, PTL

\* As long as no connection was lost, the message of a call told 200 is in its queue
\* or on the wire, and what is on the wire finds the queue declared.
THEOREM SuccessIsQueued == Spec => []SuccessMeansQueued
<1>1. IInv => SuccessMeansQueued
  BY DEF IInv, CInv, CallOK, AnswerOK, MessageOK, HandedOver, Undisturbed, Underway,
         SuccessMeansQueued
<1>. QED BY <1>1, IInvHolds, PTL

\* A 400 is the truth and stays so: the line does not exist or is rated for good.
THEOREM RefusalIsFinal == Spec => []RefusedMeansRated
<1>1. IInv => RefusedMeansRated
  BY DEF IInv, CInv, CallOK, AnswerOK, RefusedMeansRated
<1>. QED BY <1>1, IInvHolds, PTL

\* However many handlers find the connection closed at the same time, each loss
\* and each crash costs at most one dial.
THEOREM DialsAreOwed == Spec => []NoSurplusConnection
<1>1. IInv => NoSurplusConnection
  BY DEF IInv, BInv, LinkOK, NoSurplusConnection
<1>. QED BY <1>1, IInvHolds, PTL

\* No step replaces a rating that is stored: the one step that writes a rating
\* holds the lock of a row that was found unrated.
THEOREM RatingsAreFinal == Spec => RatedOnce
<1>1. IInv /\ [Next]_vars => [\A l \in Lines : rating[l] # 0 => rating'[l] = rating[l]]_vars
  <2>. SUFFICES ASSUME IInv, [Next]_vars, NEW l \in Lines, rating[l] # 0
                PROVE  rating'[l] = rating[l]
    OBVIOUS
  <2>1. ASSUME NEW c \in Callers, CommitApplies(c) PROVE rating'[l] = rating[l]
    <3>1. args[c].line \in Lines /\ rating[args[c].line] = 0
      BY <2>1 DEF CommitApplies, IInv, CInv, CallOK, CommitOK, LockOK
    <3>. QED BY <2>1, <3>1 DEF CommitApplies, IInv, TInv, RowTypes
  <2>2. CASE \E c \in Callers : Accept(c) \/ Refuse(c) \/ Handler(c) \/ CommitLost(c)
    BY <2>2 DEF Accept, Refuse, Handler, Begin, BeginFails, UpdateRating, UpdateFindsNone,
                UpdateFails, EnterGetConnection, GetConnection, GetChannel, GetChannelFails,
                DeclareQueue, PublishRating, SendFails, SendCommit, CommitAcked, CommitFails,
                CommitLost, Abort, RollBack, unsentVars, dbVars
  <2>3. CASE Environment \/ Crash \/ UNCHANGED vars \/ \E c \in Callers : HealthCheck(c)
    BY <2>3 DEF Environment, Crash, HealthCheck, vars, unsentVars, dbVars
  <2>. QED BY <2>1, <2>2, <2>3 DEF Next, Resolve, Terminating
<1>. QED BY <1>1, IInvHolds, PTL DEF Spec, RatedOnce
===============================================================================
