-------------------------------- MODULE Health --------------------------------
(***************************************************************************)
(* GET /health (main.go): a ping of the database over a connection of the  *)
(* pool, then lib.HealthCheck, which asks GetConnection for the connection *)
(* to the broker and looks whether it is closed.  GetConnection does not   *)
(* return while the broker is down.                                        *)
(***************************************************************************)
EXTENDS ConnPool, Broker

VARIABLES
  pc,       \* pc[c] : where the handler of probe c is
  health    \* health[c] : the HTTP status of probe c

vars == <<pc, health, conns, brokerVars>>

Init ==
  /\ pc = [c \in Callers |-> "idle"]
  /\ health = [c \in Callers |-> "none"]
  /\ conns = {}
  /\ BrokerInit

Goto(c, from, to) == pc[c] = from /\ pc' = [pc EXCEPT ![c] = to]

Ask(c) == Goto(c, "idle", "ping") /\ UNCHANGED <<health, conns, brokerVars>>

\* db.DB.Ping takes a connection of the pool, or waits for one: there is no
\* deadline here either.
Ping(c) ==
  /\ Goto(c, "ping", "pinging")
  /\ Acquire(c)
  /\ UNCHANGED <<health, brokerVars>>

\* Mutant: the connection of the ping is kept for the rest of the probe.
PingAnswersKept(c) ==
  /\ Goto(c, "pinging", "lock")
  /\ UNCHANGED <<health, conns, brokerVars>>

PingAnswers(c) ==
  /\ Goto(c, "pinging", "lock")
  /\ Release(c)
  /\ UNCHANGED <<health, brokerVars>>

\* "Database connection error"
PingFails(c) ==
  /\ Goto(c, "pinging", "done")
  /\ Release(c)
  /\ health' = [health EXCEPT ![c] = "500"]
  /\ UNCHANGED brokerVars

brokerless == <<health, conns>>

EnterGetConnection(c) == Goto(c, "lock", "connect") /\ Lock(c) /\ UNCHANGED brokerless

GetConnection(c) ==
  /\ \/ Goto(c, "connect", "check") /\ ReuseConnection(c)
     \/ Goto(c, "connect", "dial") /\ FindClosed(c)
     \/ Goto(c, "dial", "check") /\ Dial(c)
  /\ UNCHANGED brokerless

\* "RabbitMQ connection failed" if the connection was closed after all.
HealthCheck(c) ==
  /\ Goto(c, "check", "done")
  /\ health' = [health EXCEPT ![c] = IF CallBreaks(c) THEN "500" ELSE "200"]
  /\ UNCHANGED <<conns, brokerVars>>

Handler(c) ==
  \/ Ping(c) \/ PingAnswers(c) \/ PingFails(c)
  \/ EnterGetConnection(c) \/ GetConnection(c) \/ HealthCheck(c)

Terminating ==
  /\ \A c \in Callers : pc[c] = "done"
  /\ UNCHANGED vars

Next ==
  \/ \E c \in Callers : Ask(c) \/ Handler(c)
  \/ BrokerEnvironment /\ UNCHANGED <<pc, brokerless>>
  \/ Terminating

Spec == Init /\ [][Next]_vars

\* The handlers run; nobody has to restart the broker.
FairSpec == Spec /\ \A c \in Callers : WF_vars(Handler(c))

-------------------------------------------------------------------------------

\* main.go answers "RabbitMQ connection error" when HealthCheck fails: a probe
\* sent while the broker is down is answered.
OutageIsReported == \A c \in Callers : pc[c] = "ping" /\ ~ up ~> health[c] # "none"
===============================================================================
