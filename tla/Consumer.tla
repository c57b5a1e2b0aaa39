------------------------------- MODULE Consumer -------------------------------
(***************************************************************************)
(* ListenQueue (lib/rabbitmq.go): it declares an exchange (if it is given  *)
(* one) and a durable queue, binds and consumes, and leaves a goroutine    *)
(* behind that hands each message to a handler and then acknowledges it    *)
(* or, if the handler failed, gives it back.  With autoAck it does neither *)
(* and the broker forgets a message as it delivers it.                     *)
(*                                                                         *)
(* The messages come from SendMessage.  With an exchange of type direct or *)
(* topic, or without one, it declares what ListenQueue declares; with      *)
(* fanout or headers it declares the exchange only.                        *)
(*                                                                         *)
(* The code sets no Qos, so the broker delivers whatever it has.  When the *)
(* channel is lost the goroutine ends; nothing starts it again but a new   *)
(* process.  Exclusive queues, autoDelete and noWait are left out, and the *)
(* broker is never restarted, which would take the messages with it, for   *)
(* SendMessage does not ask it to write them down (see Broker).            *)
(***************************************************************************)
EXTENDS Sequences, Naturals

CONSTANTS
  Consumers,         \* calls of ListenQueue for one queue, each on its channel
  Messages,
  Poison,            \* messages whose handler always fails
  NoMessage,
  MaxFailures,       \* bound: how often the handler of another message fails
  MaxInterruptions   \* bound: how often a consumer loses its channel or dies

ASSUME ConsumerAssumption ==
  /\ Poison \subseteq Messages /\ NoMessage \notin Messages
  /\ MaxFailures \in Nat /\ MaxInterruptions \in Nat

VARIABLES
  autoAck,         \* parameter
  exchange,        \* parameter: "none", "direct" (or topic), "fanout" (or headers)
  pc,              \* pc[c] : where ListenQueue, or its goroutine, is
  current,         \* current[c] : msg
  buffer,          \* buffer[c] : delivered, not yet received from msgs
  open,            \* consumers whose channel is open
  consuming,       \* consumers the broker delivers to
  topology,        \* what was declared: "exchange", "queue", "binding"
  ready, unacked,  \* messages in the queue; unacked[c] : those delivered to c
  published,       \* messages that were ever published
  dropped,         \* those that were not routed to the queue
  handled,         \* handled[m] : how often the handler succeeded with m
  failures,        \* how often a handler failed that need not
  interruptions    \* interruptions[c] : how often c lost its channel or died

parameters == <<autoAck, exchange>>
broker == <<open, consuming, topology, ready, unacked>>
history == <<published, dropped, handled, failures, interruptions>>
vars == <<parameters, pc, current, buffer, broker, history>>

Declaring == {"exchange", "queue", "bind", "consume"}
Loop      == {"range", "handle", "ack", "nack"}

Start == IF exchange = "none" THEN "queue" ELSE "exchange"

AllOfIt == IF exchange = "none" THEN {"queue"} ELSE {"exchange", "queue", "binding"}

Init ==
  /\ autoAck \in BOOLEAN /\ exchange \in {"none", "direct", "fanout"}
  /\ pc = [c \in Consumers |-> Start]
  /\ current = [c \in Consumers |-> NoMessage]
  /\ buffer = [c \in Consumers |-> <<>>]
  /\ open = Consumers /\ consuming = {} /\ topology = {}
  /\ ready = {} /\ unacked = [c \in Consumers |-> {}]
  /\ published = {} /\ dropped = {}
  /\ handled = [m \in Messages |-> 0]
  /\ failures = 0 /\ interruptions = [c \in Consumers |-> 0]

Goto(c, from, to) == pc[c] = from /\ pc' = [pc EXCEPT ![c] = to]

-------------------------------------------------------------------------------
(* ListenQueue                                                             *)

DeclareExchange(c) ==
  /\ Goto(c, "exchange", "queue")
  /\ c \in open
  /\ topology' = topology \cup {"exchange"}
  /\ UNCHANGED <<parameters, current, buffer, open, consuming, ready, unacked, history>>

QueueDeclare(c) ==
  /\ Goto(c, "queue", IF exchange = "none" THEN "consume" ELSE "bind")
  /\ c \in open
  /\ topology' = topology \cup {"queue"}
  /\ UNCHANGED <<parameters, current, buffer, open, consuming, ready, unacked, history>>

\* Mutant: nothing is bound.
QueueBindSkipped(c) ==
  /\ Goto(c, "bind", "consume")
  /\ c \in open
  /\ UNCHANGED <<parameters, current, buffer, broker, history>>

QueueBind(c) ==
  /\ Goto(c, "bind", "consume")
  /\ c \in open
  /\ topology' = topology \cup {"binding"}
  /\ UNCHANGED <<parameters, current, buffer, open, consuming, ready, unacked, history>>

\* ListenQueue returns nil and leaves the goroutine.
Consume(c) ==
  /\ Goto(c, "consume", "range")
  /\ c \in open
  /\ consuming' = consuming \cup {c}
  /\ UNCHANGED <<parameters, current, buffer, open, topology, ready, unacked, history>>

\* It returns the error.
ListenFails(c) ==
  /\ pc[c] \in Declaring /\ c \notin open
  /\ pc' = [pc EXCEPT ![c] = "failed"]
  /\ UNCHANGED <<parameters, current, buffer, broker, history>>

-------------------------------------------------------------------------------
(* The goroutine: for msg := range msgs                                    *)

\* What was delivered before the channel was lost may still be received.
Receive(c) ==
  /\ Goto(c, "range", "handle")
  /\ buffer[c] # <<>>
  /\ current' = [current EXCEPT ![c] = Head(buffer[c])]
  /\ buffer' = [buffer EXCEPT ![c] = Tail(@)]
  /\ UNCHANGED <<parameters, broker, history>>

\* msgs is closed with the channel; what is still in it is dropped.
EndOfMessages(c) ==
  /\ Goto(c, "range", "stopped")
  /\ c \notin open
  /\ buffer' = [buffer EXCEPT ![c] = <<>>]
  /\ UNCHANGED <<parameters, current, broker, history>>

HandlerSucceeds(c) ==
  LET m == current[c] IN
  /\ Goto(c, "handle", IF autoAck THEN "range" ELSE "ack")
  /\ m \notin Poison
  /\ handled' = [handled EXCEPT ![m] = @ + 1]
  /\ current' = [current EXCEPT ![c] = IF autoAck THEN NoMessage ELSE m]
  /\ UNCHANGED <<parameters, buffer, broker, published, dropped, failures, interruptions>>

\* Mutant: a message whose handler failed is given back with autoAck, too: the
\* broker does not know it and closes the channel.
HandlerFailsAlwaysNacks(c) ==
  LET m == current[c] IN
  /\ Goto(c, "handle", IF autoAck THEN "range" ELSE "nack")
  /\ m \in Poison \/ failures < MaxFailures
  /\ failures' = IF m \in Poison THEN failures ELSE failures + 1
  /\ open' = IF autoAck THEN open \ {c} ELSE open
  /\ current' = [current EXCEPT ![c] = IF autoAck THEN NoMessage ELSE m]
  /\ UNCHANGED <<parameters, buffer, consuming, topology, ready, unacked,
                 published, dropped, handled, interruptions>>

HandlerFails(c) ==
  LET m == current[c] IN
  /\ Goto(c, "handle", IF autoAck THEN "range" ELSE "nack")
  /\ m \in Poison \/ failures < MaxFailures
  /\ failures' = IF m \in Poison THEN failures ELSE failures + 1
  /\ current' = [current EXCEPT ![c] = IF autoAck THEN NoMessage ELSE m]
  /\ UNCHANGED <<parameters, buffer, broker, published, dropped, handled, interruptions>>

\* Mutant: Ack and Nack are swapped.
AckRequeues(c) ==
  /\ Goto(c, "ack", "range")
  /\ unacked' = [unacked EXCEPT ![c] = @ \ {current[c]}]
  /\ ready' = IF c \in open THEN ready \cup {current[c]} ELSE ready
  /\ current' = [current EXCEPT ![c] = NoMessage]
  /\ UNCHANGED <<parameters, buffer, open, consuming, topology, history>>

\* msg.Ack(false); its error is dropped.  The broker gave the messages of a lost
\* channel back before.
Ack(c) ==
  /\ Goto(c, "ack", "range")
  /\ unacked' = [unacked EXCEPT ![c] = @ \ {current[c]}]
  /\ current' = [current EXCEPT ![c] = NoMessage]
  /\ UNCHANGED <<parameters, buffer, open, consuming, topology, ready, history>>

\* Mutant: msg.Nack(false, false).
NackDiscards(c) ==
  /\ Goto(c, "nack", "range")
  /\ unacked' = [unacked EXCEPT ![c] = @ \ {current[c]}]
  /\ current' = [current EXCEPT ![c] = NoMessage]
  /\ UNCHANGED <<parameters, buffer, open, consuming, topology, ready, history>>

\* Mutant: the goroutine returns when the handler fails.
NackReturns(c) ==
  /\ Goto(c, "nack", "stopped")
  /\ unacked' = [unacked EXCEPT ![c] = @ \ {current[c]}]
  /\ ready' = IF c \in open THEN ready \cup {current[c]} ELSE ready
  /\ current' = [current EXCEPT ![c] = NoMessage]
  /\ UNCHANGED <<parameters, buffer, open, consuming, topology, history>>

\* msg.Nack(false, true): the message is requeued.
Nack(c) ==
  /\ Goto(c, "nack", "range")
  /\ unacked' = [unacked EXCEPT ![c] = @ \ {current[c]}]
  /\ ready' = IF c \in open THEN ready \cup {current[c]} ELSE ready
  /\ current' = [current EXCEPT ![c] = NoMessage]
  /\ UNCHANGED <<parameters, buffer, open, consuming, topology, history>>

-------------------------------------------------------------------------------
(* The broker, and the fate of the process.                                *)

Routed == AllOfIt \subseteq topology

\* Mutant: the queue is left to the consumers to declare.
SentTopologyExchangeOnly == IF exchange = "none" THEN {} ELSE {"exchange"}

\* What SendMessage declares.
SentTopology == IF exchange = "fanout" THEN {"exchange"} ELSE AllOfIt

\* SendMessage declares and publishes.  What is declared is never deleted, so that
\* nothing is left out by taking both in one step.  (When its channel breaks it
\* returns an error; see Rating.)
SendMessage(m) ==
  /\ m \notin published
  /\ published' = published \cup {m}
  /\ topology' = topology \cup SentTopology
  /\ IF AllOfIt \subseteq topology'
     THEN ready' = ready \cup {m} /\ UNCHANGED dropped
     ELSE dropped' = dropped \cup {m} /\ UNCHANGED ready
  /\ UNCHANGED <<parameters, pc, current, buffer, open, consuming, unacked,
                 handled, failures, interruptions>>

Deliver(m) ==
  /\ m \in ready
  /\ \E c \in consuming \cap open :
       /\ buffer' = [buffer EXCEPT ![c] = Append(@, m)]
       /\ unacked' = IF autoAck THEN unacked ELSE [unacked EXCEPT ![c] = @ \cup {m}]
  /\ ready' = ready \ {m}
  /\ UNCHANGED <<parameters, pc, current, open, consuming, topology, history>>

\* The broker gives back what c had not acknowledged.
Requeue(c) ==
  /\ interruptions[c] < MaxInterruptions
  /\ interruptions' = [interruptions EXCEPT ![c] = @ + 1]
  /\ consuming' = consuming \ {c}
  /\ ready' = ready \cup unacked[c]
  /\ unacked' = [unacked EXCEPT ![c] = {}]
  /\ UNCHANGED <<parameters, topology, published, dropped, handled, failures>>

LoseChannel(c) ==
  /\ c \in open
  /\ open' = open \ {c}
  /\ Requeue(c)
  /\ UNCHANGED <<pc, current, buffer>>

\* The process dies, and the program that calls ListenQueue calls it again in
\* the next one (external: nothing in this repository calls it).
Restart(c) ==
  /\ open' = open \cup {c}
  /\ Requeue(c)
  /\ pc' = [pc EXCEPT ![c] = Start]
  /\ current' = [current EXCEPT ![c] = NoMessage]
  /\ buffer' = [buffer EXCEPT ![c] = <<>>]

-------------------------------------------------------------------------------

ListenQueue(c) ==
  \/ DeclareExchange(c) \/ QueueDeclare(c) \/ QueueBind(c) \/ Consume(c) \/ ListenFails(c)
  \/ Receive(c) \/ EndOfMessages(c)
  \/ HandlerSucceeds(c) \/ HandlerFails(c) \/ Ack(c) \/ Nack(c)

\* Every consumer waits for messages, or has ended, and there are none to come.
Waiting ==
  /\ \A c \in Consumers : pc[c] \in {"range", "stopped", "failed"} /\ buffer[c] = <<>>
  /\ consuming # {} => ready = {}
  /\ published = Messages
  /\ UNCHANGED vars

Next ==
  \/ \E c \in Consumers : ListenQueue(c) \/ LoseChannel(c) \/ Restart(c)
  \/ \E m \in Messages : SendMessage(m) \/ Deliver(m)
  \/ Waiting

Spec == Init /\ [][Next]_vars

\* Handlers return, and the broker delivers each message it has a consumer for.
FairSpec ==
  /\ Spec
  /\ \A c \in Consumers : WF_vars(ListenQueue(c))
  /\ \A m \in Messages : WF_vars(Deliver(m))

-------------------------------------------------------------------------------
(* Properties.                                                             *)

\* Without autoAck a message that was sent leaves the broker only after a handler
\* succeeded with it: neither a failure, nor a lost channel, nor a crash between
\* handling and acknowledging loses one, nor a sender that came before every
\* consumer, unless it sent to a fanout that nobody had bound.
NothingForgotten ==
  /\ ~ autoAck => \A m \in published \ dropped :
       m \in ready \/ handled[m] > 0 \/ \E c \in Consumers : m \in unacked[c]
  /\ dropped # {} => exchange = "fanout"

\* A handler succeeds with a message twice only if some consumer was cut off, by a
\* lost channel or a crash: as long as nobody was, the acknowledgement of
\* rabbitmq.go:306 follows every success before anybody is given the message
\* again.  With autoAck it never does.  Once somebody was, nothing is promised.
HandledOnceUnlessInterrupted ==
  \A m \in Messages : handled[m] > 1 =>
    ~ autoAck /\ \E c \in Consumers : interruptions[c] > 0

\* A goroutine ends only with its channel: whatever handlers do, it goes on
\* receiving, and what it does is never an error the broker closes a channel for.
StopsOnlyWithItsChannel ==
  \A c \in Consumers : pc[c] = "stopped" => interruptions[c] > 0

\* Once ListenQueue has returned nil, no message is lost for want of a queue or a
\* binding, not even from a sender that declares the exchange only.
ListeningMeansRouted ==
  (\E c \in Consumers : pc[c] \in Loop) => Routed

\* A message that handlers can handle is handled although another comes back for
\* ever, as long as some consumer keeps its channel.
EveryMessageHandled ==
  <>[](\E c \in consuming : c \in open) =>
    \A m \in Messages \ Poison : ~ autoAck /\ m \in ready ~> handled[m] > 0
===============================================================================
