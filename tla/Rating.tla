-------------------------------- MODULE Rating --------------------------------
(***************************************************************************)
(* PATCH /history-checkouts/set-rating-menu: route.go SetRatingMenu, run   *)
(* by WithTransaction around service.go SetRatingMenu.                     *)
(*                                                                         *)
(* The rating is written, the message for master data is published, and    *)
(* only then the transaction commits.  All of it happens with a database   *)
(* connection and the lock of the row in hand, the wait for the broker     *)
(* included.                                                               *)
(***************************************************************************)
EXTENDS ConnPool, Broker

CONSTANTS
  Ratings,     \* the callers that rate; the others are probes (GET /health)
  Lines,       \* rows of td_user_checkouts
  NoLine,      \* an id that is no row
  Stars,       \* ratings a client gives
  MaxCrashes   \* bound: how often the process dies

ASSUME RatingAssumption ==
  Ratings \subseteq Callers /\ NoLine \notin Lines /\ 0 \notin Stars /\ MaxCrashes \in Nat

VARIABLES
  pc,        \* pc[c] : where the handler of call c is
  args,      \* args[c] : the request, a line and its stars
  rating,    \* committed ratings; 0 is NULL
  locked,    \* locked[l] : the transactions that hold the lock of row l
  commit,    \* commit[c] : what became of the COMMIT of c
  sent,      \* messages for which Publish returned without an error
  answer,    \* answer[c] : the HTTP status sent to the client
  crashes

dbVars == <<conns, rating, locked, commit>>
vars   == <<pc, args, dbVars, sent, answer, crashes, brokerVars>>

NoArgs == [line |-> NoLine, stars |-> 0]

InTransaction ==
  {"update", "lock", "connect", "dial", "channel", "declare", "publish",
   "commit", "committing"}
Active == InTransaction \cup {"begin"}

Init ==
  /\ pc = [c \in Callers |-> "idle"]
  /\ args = [c \in Callers |-> NoArgs]
  /\ conns = {}
  /\ rating = [l \in Lines |-> 0]
  /\ locked = [l \in Lines |-> {}]
  /\ commit = [c \in Callers |-> "none"]
  /\ sent = {}
  /\ answer = [c \in Callers |-> "none"]
  /\ crashes = 0
  /\ BrokerInit

Goto(c, from, to) == pc[c] = from /\ pc' = [pc EXCEPT ![c] = to]

Unlocked(c) == [l \in Lines |-> locked[l] \ {c}]

Finish(c, status) ==
  /\ pc' = [pc EXCEPT ![c] = "done"]
  /\ answer' = [answer EXCEPT ![c] = status]

\* Rollback, and the error as an answer.
RollBack(c, status) ==
  /\ Finish(c, status)
  /\ Release(c)
  /\ locked' = Unlocked(c)
  /\ UNCHANGED <<args, rating, commit, sent, crashes>>

Abort(c, status) == RollBack(c, status) /\ UNCHANGED brokerVars

Accept(c) ==
  /\ Goto(c, "idle", "begin")
  /\ \E line \in Lines \cup {NoLine}, stars \in Stars :
       args' = [args EXCEPT ![c] = [line |-> line, stars |-> stars]]
  /\ UNCHANGED <<dbVars, sent, answer, crashes, brokerVars>>

\* RequireAuth, BodyParser or ValidateRequest turns the request away.
Refuse(c) ==
  /\ pc[c] = "idle"
  /\ Finish(c, "refused")
  /\ UNCHANGED <<args, dbVars, sent, crashes, brokerVars>>

BeginFails(c) ==
  /\ pc[c] = "begin"
  /\ Cardinality(conns) < MaxConns
  /\ Finish(c, "500")
  /\ UNCHANGED <<args, dbVars, sent, crashes, brokerVars>>

Begin(c) ==
  /\ Goto(c, "begin", "update")
  /\ Acquire(c)
  /\ UNCHANGED <<args, rating, locked, commit, sent, answer, crashes, brokerVars>>

-------------------------------------------------------------------------------
(* UPDATE ... WHERE id = $3 AND rating IS NULL RETURNING menu_id, in READ  *)
(* COMMITTED: it waits for the lock of the row and then looks at the       *)
(* rating the other transaction left.                                      *)

\* Mutant: UPDATE ... WHERE id = $3.
UpdateRatingAnyway(c) ==
  LET l == args[c].line IN
  /\ Goto(c, "update", "lock")
  /\ l \in Lines /\ locked[l] = {}
  /\ locked' = [locked EXCEPT ![l] = {c}]
  /\ UNCHANGED <<args, conns, rating, commit, sent, answer, crashes, brokerVars>>

UpdateRating(c) ==
  LET l == args[c].line IN
  /\ Goto(c, "update", "lock")
  /\ l \in Lines /\ locked[l] = {} /\ rating[l] = 0
  /\ locked' = [locked EXCEPT ![l] = {c}]
  /\ UNCHANGED <<args, conns, rating, commit, sent, answer, crashes, brokerVars>>

\* Mutant: SKIP LOCKED, a row another call is rating counts as rated.
UpdateSkipsLocked(c) ==
  LET l == args[c].line IN
  /\ pc[c] = "update"
  /\ l \in Lines => locked[l] # {} \/ rating[l] # 0
  /\ Abort(c, "400")

\* "No rows were updated, possibly due to invalid ID or rating already set"
UpdateFindsNone(c) ==
  LET l == args[c].line IN
  /\ pc[c] = "update"
  /\ l \in Lines => locked[l] = {} /\ rating[l] # 0
  /\ Abort(c, "400")

UpdateFails(c) == pc[c] = "update" /\ Abort(c, "500")

-------------------------------------------------------------------------------
(* lib.GetChannel and lib.SendMessage, with the transaction open.          *)

unsentVars == <<args, dbVars, sent, answer, crashes>>

EnterGetConnection(c) == Goto(c, "lock", "connect") /\ Lock(c) /\ UNCHANGED unsentVars

GetConnection(c) ==
  /\ \/ Goto(c, "connect", "channel") /\ ReuseConnection(c)
     \/ Goto(c, "connect", "dial") /\ FindClosed(c)
     \/ Goto(c, "dial", "channel") /\ Dial(c)
  /\ UNCHANGED unsentVars

GetChannel(c) == Goto(c, "channel", "declare") /\ OpenChannel(c) /\ UNCHANGED unsentVars

GetChannelFails(c) == pc[c] = "channel" /\ ChannelFails(c) /\ Abort(c, "500")

DeclareQueue(c) == Goto(c, "declare", "publish") /\ Declare(c) /\ UNCHANGED unsentVars

Message(c) == [by |-> c, line |-> args[c].line, stars |-> args[c].stars]

PublishRating(c) ==
  /\ Goto(c, "publish", "commit")
  /\ Publish(c, Message(c))
  /\ sent' = sent \cup {Message(c)}
  /\ UNCHANGED <<args, dbVars, answer, crashes>>

\* Mutant: the error of SendMessage is logged and dropped.
SendFailsIgnored(c) ==
  /\ pc[c] \in {"declare", "publish"}
  /\ pc' = [pc EXCEPT ![c] = "commit"]
  /\ CallRefused(c) \/ (CallBreaks(c) /\ UNCHANGED brokerVars)
  /\ UNCHANGED unsentVars

SendFails(c) ==
  /\ pc[c] \in {"declare", "publish"}
  /\ RollBack(c, "500")
  /\ CallRefused(c) \/ (CallBreaks(c) /\ UNCHANGED brokerVars)

-------------------------------------------------------------------------------
(* COMMIT, as in Checkout; the lock of the row goes with the transaction.  *)

SendCommit(c) ==
  /\ Goto(c, "commit", "committing")
  /\ commit' = [commit EXCEPT ![c] = "sent"]
  /\ UNCHANGED <<args, conns, rating, locked, sent, answer, crashes, brokerVars>>

CommitAcked(c) ==
  /\ pc[c] = "committing" /\ commit[c] = "applied"
  /\ Finish(c, "200")
  /\ Release(c)
  /\ UNCHANGED <<args, rating, locked, commit, sent, crashes, brokerVars>>

\* Mutant: the error of Commit is shadowed and the handler answers 200.
CommitFailsUnseen(c) ==
  /\ pc[c] = "committing"
  /\ Finish(c, "200")
  /\ Release(c)
  /\ UNCHANGED <<args, rating, locked, commit, sent, crashes, brokerVars>>

CommitFails(c) ==
  /\ pc[c] = "committing"
  /\ Finish(c, "500")
  /\ Release(c)
  /\ UNCHANGED <<args, rating, locked, commit, sent, crashes, brokerVars>>

CommitApplies(c) ==
  /\ commit[c] = "sent"
  /\ commit' = [commit EXCEPT ![c] = "applied"]
  /\ rating' = [rating EXCEPT ![args[c].line] = args[c].stars]
  /\ locked' = Unlocked(c)
  /\ UNCHANGED <<pc, args, conns, sent, answer, crashes, brokerVars>>

\* The COMMIT never arrived; Postgres rolls back when it sees the connection gone.
CommitLost(c) ==
  /\ commit[c] = "sent" /\ pc[c] \in {"done", "lost"}
  /\ commit' = [commit EXCEPT ![c] = "lost"]
  /\ locked' = Unlocked(c)
  /\ UNCHANGED <<pc, args, conns, rating, sent, answer, crashes, brokerVars>>

Crash ==
  /\ crashes < MaxCrashes
  /\ crashes' = crashes + 1
  /\ pc' = [c \in Callers |-> IF pc[c] \in Active THEN "lost" ELSE pc[c]]
  /\ conns' = {}
  /\ locked' = [l \in Lines |-> {c \in locked[l] : commit[c] = "sent"}]
  /\ BrokerClientLost
  /\ UNCHANGED <<args, rating, commit, sent, answer>>

-------------------------------------------------------------------------------

Handler(c) ==
  \/ Begin(c) \/ BeginFails(c)
  \/ UpdateRating(c) \/ UpdateFindsNone(c) \/ UpdateFails(c)
  \/ EnterGetConnection(c) \/ GetConnection(c) \/ GetChannel(c) \/ GetChannelFails(c)
  \/ DeclareQueue(c) \/ PublishRating(c) \/ SendFails(c)
  \/ SendCommit(c) \/ CommitAcked(c) \/ CommitFails(c)

Resolve(c) == CommitApplies(c) \/ CommitLost(c)

Environment == BrokerEnvironment /\ UNCHANGED <<pc, unsentVars>>

\* lib.HealthCheck: a probe takes a turn in GetConnection.  What else a probe does
\* is in Health.
HealthCheck(c) ==
  /\ \/ got[c] = 0 /\ Lock(c)
     \/ ReuseConnection(c)
     \/ IsClosed /\ Dial(c)
  /\ UNCHANGED <<pc, unsentVars>>

Terminating ==
  /\ \A c \in Ratings : pc[c] \in {"done", "lost"}
  /\ UNCHANGED vars

Next ==
  \/ \E c \in Ratings : Accept(c) \/ Refuse(c) \/ Handler(c) \/ Resolve(c)
  \/ \E c \in Callers \ Ratings : HealthCheck(c)
  \/ Environment
  \/ Crash
  \/ Terminating

Spec == Init /\ [][Next]_vars

\* Every call returns: those to Postgres answer or break, the mutex is released,
\* a broker that went down is started again and a dead connection is noticed.
\* Probes need not come, but one that has the mutex goes on.
FairSpec ==
  /\ Spec
  /\ \A c \in Ratings : WF_vars(Handler(c)) /\ WF_vars(Resolve(c))
  /\ \A c \in Callers \ Ratings : WF_vars(c \in mu /\ HealthCheck(c))
  /\ WF_vars(BrokerUp /\ UNCHANGED <<pc, unsentVars>>)
  /\ WF_vars(NoticeDead /\ UNCHANGED <<pc, unsentVars>>)

-------------------------------------------------------------------------------
(* Properties.                                                             *)

\* Every variable has its type; at most one goroutine is inside GetConnection,
\* and connections and channels keep to their limits.
TypeOK ==
  /\ pc \in [Callers -> Active \cup {"idle", "done", "lost"}]
  /\ args \in [Callers -> [line : Lines \cup {NoLine}, stars : Stars \cup {0}]]
  /\ conns \subseteq Callers /\ Cardinality(conns) <= MaxConns
  /\ rating \in [Lines -> Stars \cup {0}]
  /\ locked \in [Lines -> SUBSET Callers]
  /\ commit \in [Callers -> {"none", "sent", "applied", "lost"}]
  /\ answer \in [Callers -> {"none", "200", "400", "500", "refused"}]
  /\ crashes \in 0..MaxCrashes
  /\ BrokerTypeOK

\* A rating that was stored is never replaced, though two calls may rate the same
\* line at the same time: the second UPDATE waits and finds the rating set.
RatedOnce ==
  [][\A l \in Lines : rating[l] # 0 => rating'[l] = rating[l]]_vars

\* Publish returned without an error before a rating was stored, with the same
\* stars: no failure that SendMessage is told of lets the transaction commit.
\* Whether the broker has the message is another question (SuccessMeansQueued).
NoSilentRating ==
  \A l \in Lines : rating[l] # 0 =>
    \E m \in sent : m.line = l /\ m.stars = rating[l]

\* A client told 200 has its own stars stored.
SuccessMeansRated ==
  \A c \in Callers : answer[c] = "200" => rating[args[c].line] = args[c].stars

\* As long as no connection was lost, with the broker, on the network or with the
\* process, a 200 also means that the broker has the message or that it is on its
\* way there: the queue is declared before anything is published to it.
SuccessMeansQueued ==
  losses = 0 /\ crashes = 0 =>
    \A c \in Callers : answer[c] = "200" => Message(c) \in queue \cup wire

\* "possibly due to invalid ID or rating already set" (repository.go): a client
\* told 400 named no line, or one whose rating is stored for good, not one
\* whose rating another call was about to roll back.
RefusedMeansRated ==
  \A c \in Callers : answer[c] = "400" =>
    args[c].line \notin Lines \/ rating[args[c].line] # 0

\* The mutex makes the handlers share one connection: another is dialled only
\* after the last was lost or the process died, never by two handlers that both
\* found the connection closed.
NoSurplusConnection == dials <= losses + crashes + 1

\* Every call ends once the broker is back: a handler that waits for it, with a
\* database connection, the lock of a row and perhaps the mutex in hand, does
\* not keep the others for ever.
EveryCallEnds ==
  \A c \in Callers : pc[c] = "begin" ~> pc[c] \in {"done", "lost"}
===============================================================================
