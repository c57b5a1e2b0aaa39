-------------------------------- MODULE Broker --------------------------------
(***************************************************************************)
(* lib/rabbitmq.go: the one connection to RabbitMQ that all handlers share *)
(* under a mutex, the channels opened on it, and what SendMessage does     *)
(* with a message.                                                         *)
(*                                                                         *)
(* A message that is published is only written to the socket.  The         *)
(* connection may be cut while the broker runs, and be dead before the     *)
(* library knows it (IsClosed is still false until a heartbeat is missed); *)
(* and a handler may hold the pointer of a connection that has since been  *)
(* replaced.                                                               *)
(***************************************************************************)
EXTENDS Naturals, FiniteSets

CONSTANTS
  Callers,      \* goroutines that use the broker
  ChannelMax,   \* channels one connection may have
  MaxLosses     \* bound: how often the broker goes down or a connection is cut

ASSUME BrokerAssumption == ChannelMax \in Nat \ {0} /\ MaxLosses \in Nat

VARIABLES
  up,         \* the broker is running
  link,       \* conn: "nil", "live", "dead" (not noticed yet) or "closed"
  dials,      \* number of connections made; the last one is conn
  mu,         \* the caller that holds the mutex
  got,        \* got[c] : the connection GetConnection returned to c, 0 for none
  channels,   \* callers with an open channel on conn; none is ever closed
  declared,   \* the queue exists; it is durable
  wire,       \* messages written to the socket of conn, not yet read by the broker
  queue,      \* messages the broker keeps; it keeps none when it goes down
  losses      \* times the broker went down or the connection was cut

brokerVars == <<up, link, dials, mu, got, channels, declared, queue, wire, losses>>

BrokerInit ==
  /\ up = TRUE /\ link = "nil" /\ dials = 0 /\ mu = {}
  /\ got = [c \in Callers |-> 0]
  /\ channels = {} /\ declared = FALSE /\ queue = {} /\ wire = {} /\ losses = 0

IsClosed == link \in {"nil", "closed"}

\* conn is still the connection that c was given.
IsCurrent(c) == got[c] = dials

-------------------------------------------------------------------------------
(* GetConnection                                                           *)

\* Mutant: GetConnection without mu.Lock().
LockWithoutMutex(c) ==
  /\ mu' = mu \cup {c}
  /\ UNCHANGED <<up, link, dials, got, channels, declared, queue, wire, losses>>

Lock(c) ==
  /\ mu = {}
  /\ mu' = {c}
  /\ UNCHANGED <<up, link, dials, got, channels, declared, queue, wire, losses>>

\* Mutant: no deferred Unlock on the early return.
ReuseConnectionLocked(c) ==
  /\ c \in mu
  /\ ~ IsClosed
  /\ got' = [got EXCEPT ![c] = dials]
  /\ UNCHANGED <<up, link, dials, mu, channels, declared, queue, wire, losses>>

ReuseConnection(c) ==
  /\ c \in mu
  /\ ~ IsClosed
  /\ got' = [got EXCEPT ![c] = dials]
  /\ mu' = mu \ {c}
  /\ UNCHANGED <<up, link, dials, channels, declared, queue, wire, losses>>

FindClosed(c) == c \in mu /\ IsClosed /\ UNCHANGED brokerVars

\* Mutant: no deferred Unlock after the dial.
DialLocked(c) ==
  /\ c \in mu
  /\ up
  /\ link' = "live"
  /\ dials' = dials + 1
  /\ channels' = {}
  /\ got' = [got EXCEPT ![c] = dials + 1]
  /\ UNCHANGED <<up, mu, declared, queue, wire, losses>>

\* The dial that succeeds; one that fails sleeps 5 s, keeps the mutex and
\* changes nothing.
Dial(c) ==
  /\ c \in mu
  /\ up
  /\ link' = "live"
  /\ dials' = dials + 1
  /\ channels' = {}
  /\ got' = [got EXCEPT ![c] = dials + 1]
  /\ mu' = mu \ {c}
  /\ UNCHANGED <<up, declared, queue, wire, losses>>

-------------------------------------------------------------------------------
(* conn.Channel() and the steps of SendMessage; a call on a dead connection *)
(* waits until the connection is closed.                                   *)

CanCall(c)    == IsCurrent(c) /\ link = "live"
CallBreaks(c) == ~ IsCurrent(c) \/ IsClosed

OpenChannel(c) ==
  /\ CanCall(c)
  /\ Cardinality(channels) < ChannelMax
  /\ channels' = channels \cup {c}
  /\ UNCHANGED <<up, link, dials, mu, got, declared, queue, wire, losses>>

ChannelFails(c) == CallBreaks(c) \/ Cardinality(channels) >= ChannelMax

\* A call that the broker answers with an exception, such as 406 for a queue that
\* exists with other arguments: it closes the channel.
CallRefused(c) ==
  /\ CanCall(c)
  /\ channels' = channels \ {c}
  /\ UNCHANGED <<up, link, dials, mu, got, declared, queue, wire, losses>>

\* Mutant: the queue is expected to exist.
DeclareSkipped(c) == CanCall(c) /\ UNCHANGED brokerVars

\* QueueDeclare waits for the answer of the broker; repeating it is harmless.
Declare(c) ==
  /\ CanCall(c)
  /\ declared' = TRUE
  /\ UNCHANGED <<up, link, dials, mu, got, channels, queue, wire, losses>>

\* ch.Publish only writes to the socket, and there are no publisher confirms: on
\* a dead connection it succeeds and the message is gone.
Publish(c, message) ==
  /\ IsCurrent(c) /\ ~ IsClosed
  /\ wire' = IF link = "live" THEN wire \cup {message} ELSE wire
  /\ UNCHANGED <<up, link, dials, mu, got, channels, declared, queue, losses>>

-------------------------------------------------------------------------------
(* The broker itself, and the network between.                             *)

\* A message that reaches the broker without a queue for it is dropped.
BrokerReads ==
  \E message \in wire :
    /\ wire' = wire \ {message}
    /\ queue' = IF declared THEN queue \cup {message} ELSE queue
    /\ UNCHANGED <<up, link, dials, mu, got, channels, declared, losses>>

\* What is on the wire is lost with the connection.
CutConnection ==
  /\ losses < MaxLosses
  /\ link' = IF link = "live" THEN "dead" ELSE link
  /\ wire' = {}
  /\ losses' = losses + 1
  /\ UNCHANGED <<dials, mu, got, channels, declared>>

\* The network or a proxy drops the connection, and the broker goes on.
ConnectionLost == link = "live" /\ CutConnection /\ UNCHANGED <<up, queue>>

\* Messages are sent without a delivery mode, so the broker does not store
\* them, though the queue is durable.
BrokerDown == up /\ CutConnection /\ up' = FALSE /\ queue' = {}

BrokerUp ==
  /\ ~ up
  /\ up' = TRUE
  /\ UNCHANGED <<link, dials, mu, got, channels, declared, queue, wire, losses>>

\* A missed heartbeat, or a write that fails, closes the connection.
NoticeDead ==
  /\ link = "dead"
  /\ link' = "closed"
  /\ UNCHANGED <<up, dials, mu, got, channels, declared, queue, wire, losses>>

\* The process dies: a new one starts with conn nil.
BrokerClientLost ==
  /\ link' = "nil" /\ mu' = {} /\ channels' = {} /\ wire' = {}
  /\ UNCHANGED <<up, dials, got, declared, queue, losses>>

BrokerEnvironment == BrokerReads \/ ConnectionLost \/ BrokerDown \/ BrokerUp \/ NoticeDead

BrokerTypeOK ==
  /\ up \in BOOLEAN /\ declared \in BOOLEAN
  /\ link \in {"nil", "live", "dead", "closed"}
  /\ dials \in Nat /\ losses \in 0..MaxLosses
  /\ mu \subseteq Callers /\ Cardinality(mu) <= 1
  /\ got \in [Callers -> 0..dials]
  /\ channels \subseteq Callers /\ Cardinality(channels) <= ChannelMax
===============================================================================
