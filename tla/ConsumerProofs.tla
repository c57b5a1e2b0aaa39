---------------------------- MODULE ConsumerProofs ----------------------------
(***************************************************************************)
(* Proofs about Consumer, for any set of consumers and messages, with and  *)
(* without autoAck, with each kind of exchange, and for any number of      *)
(* failures and interruptions.                                             *)
(***************************************************************************)
EXTENDS Consumer, TLAPS

USE ConsumerAssumption

-------------------------------------------------------------------------------
(* The messages that were delivered and not yet received.                  *)

Elems(s) == {s[i] : i \in 1..Len(s)}

NoneTwice(s) == \A i, j \in 1..Len(s) : s[i] = s[j] => i = j

LEMMA EmptyBuffer == Elems(<<>>) = {} /\ NoneTwice(<<>>)
BY DEF Elems, NoneTwice

LEMMA ReceivedIsGone ==
  ASSUME NEW s \in Seq(Messages), s # <<>>
  PROVE  /\ Head(s) \in Messages /\ Tail(s) \in Seq(Messages)
         /\ Elems(s) = {Head(s)} \cup Elems(Tail(s))
         /\ NoneTwice(s) => NoneTwice(Tail(s)) /\ Head(s) \notin Elems(Tail(s))
<1>1. /\ Len(s) \in Nat \ {0} /\ Len(Tail(s)) = Len(s) - 1
      /\ Head(s) = s[1] /\ \A i \in 1..Len(Tail(s)) : Tail(s)[i] = s[i + 1]
  OBVIOUS
<1>2. Elems(s) = {Head(s)} \cup Elems(Tail(s))
  <2>1. ASSUME NEW i \in 1..Len(s), i # 1 PROVE s[i] \in Elems(Tail(s))
    <3>1. i - 1 \in 1..Len(Tail(s)) /\ (i - 1) + 1 = i
      BY <1>1, <2>1
    <3>2. Tail(s)[i - 1] = s[i]
      BY <1>1, <3>1
    <3>. QED BY <3>1, <3>2 DEF Elems
  <2>2. ASSUME NEW i \in 1..Len(Tail(s)) PROVE Tail(s)[i] \in Elems(s)
    <3>1. i + 1 \in 1..Len(s)
      BY <1>1
    <3>. QED BY <1>1, <3>1 DEF Elems
  <2>3. s[1] \in Elems(s)
    BY <1>1 DEF Elems
  <2>. QED BY <1>1, <2>1, <2>2, <2>3 DEF Elems
<1>3. ASSUME NoneTwice(s) PROVE NoneTwice(Tail(s)) /\ Head(s) \notin Elems(Tail(s))
  <2>1. ASSUME NEW i \in 1..Len(Tail(s)) PROVE i + 1 \in 1..Len(s) /\ i + 1 # 1
    BY <1>1
  <2>2. NoneTwice(Tail(s))
    BY <1>1, <1>3, <2>1 DEF NoneTwice
  <2>3. Head(s) \notin Elems(Tail(s))
    BY <1>1, <1>3, <2>1 DEF NoneTwice, Elems
  <2>. QED BY <2>2, <2>3
<1>. QED BY <1>2, <1>3

LEMMA DeliveredIsLast ==
  ASSUME NEW s \in Seq(Messages), NEW m \in Messages
  PROVE  /\ Append(s, m) \in Seq(Messages)
         /\ Elems(Append(s, m)) = Elems(s) \cup {m}
         /\ NoneTwice(s) /\ m \notin Elems(s) => NoneTwice(Append(s, m))
<1>1. /\ Len(s) \in Nat /\ Len(Append(s, m)) = Len(s) + 1
      /\ \A i \in 1..Len(s) : Append(s, m)[i] = s[i]
      /\ Append(s, m)[Len(s) + 1] = m
  OBVIOUS
<1>2. 1..(Len(s) + 1) = (1..Len(s)) \cup {Len(s) + 1}
  BY <1>1
<1>3. Elems(Append(s, m)) = Elems(s) \cup {m}
  BY <1>1, <1>2 DEF Elems
<1>4. NoneTwice(s) /\ m \notin Elems(s) => NoneTwice(Append(s, m))
  BY <1>1, <1>2 DEF Elems, NoneTwice
<1>. QED BY <1>3, <1>4

-------------------------------------------------------------------------------
(* Types.                                                                  *)

Places == Declaring \cup Loop \cup {"stopped", "failed"}

\* Where msg is a message.
Busy == {"handle", "ack", "nack"}

ConsumerTypes ==
  /\ pc \in [Consumers -> Places]
  /\ current \in [Consumers -> Messages \cup {NoMessage}]
  /\ \A c \in Consumers : pc[c] \in Busy => current[c] \in Messages
  /\ buffer \in [Consumers -> Seq(Messages)]
  /\ interruptions \in [Consumers -> Nat]
  /\ exchange \in {"none", "direct", "fanout"}

BrokerTypes ==
  /\ open \subseteq Consumers /\ consuming \subseteq Consumers
  /\ ready \subseteq Messages
  /\ unacked \in [Consumers -> SUBSET Messages]
  /\ published \subseteq Messages
  /\ handled \in [Messages -> Nat]

TInv == ConsumerTypes /\ BrokerTypes

LEMMA InitTypes == Init => TInv
BY DEF Init, Start, TInv, ConsumerTypes, BrokerTypes, Places, Declaring, Loop, Busy

\* The steps that only move a consumer on, before and between the messages.
Declares(c) == DeclareExchange(c) \/ QueueDeclare(c) \/ QueueBind(c) \/ Consume(c)

LEMMA NextTypes == TInv /\ [Next]_vars => TInv'
<1>. SUFFICES ASSUME TInv, [Next]_vars PROVE TInv'
  OBVIOUS
<1>. USE DEF TInv
<1>1. CASE UNCHANGED vars
  BY <1>1 DEF vars, parameters, broker, history, ConsumerTypes, BrokerTypes
<1>2. ASSUME NEW c \in Consumers, Declares(c) \/ ListenFails(c) PROVE TInv'
  BY <1>2 DEF Declares, DeclareExchange, QueueDeclare, QueueBind, Consume, ListenFails, Goto,
              parameters, broker, history, ConsumerTypes, BrokerTypes, Places, Declaring, Loop,
              Busy
<1>3. ASSUME NEW c \in Consumers, Receive(c) PROVE TInv'
  <2>1. Head(buffer[c]) \in Messages /\ Tail(buffer[c]) \in Seq(Messages)
    BY <1>3, ReceivedIsGone DEF Receive, ConsumerTypes
  <2>. QED BY <1>3, <2>1 DEF Receive, Goto, parameters, broker, history, ConsumerTypes,
                             BrokerTypes, Places, Loop, Busy
<1>4. ASSUME NEW c \in Consumers, EndOfMessages(c) PROVE TInv'
  BY <1>4 DEF EndOfMessages, Goto, parameters, broker, history, ConsumerTypes, BrokerTypes,
              Places, Busy
<1>5. ASSUME NEW c \in Consumers, HandlerSucceeds(c) \/ HandlerFails(c) PROVE TInv'
  <2>1. pc[c] = "handle" /\ current[c] \in Messages
    BY <1>5 DEF HandlerSucceeds, HandlerFails, Goto, ConsumerTypes, Busy
  <2>2. \/ pc' = [pc EXCEPT ![c] = "range"] /\ current' = [current EXCEPT ![c] = NoMessage]
        \/ /\ \E to \in {"ack", "nack"} : pc' = [pc EXCEPT ![c] = to]
           /\ current' = [current EXCEPT ![c] = current[c]]
    BY <1>5 DEF HandlerSucceeds, HandlerFails, Goto
  <2>3. ConsumerTypes'
    BY <1>5, <2>1, <2>2 DEF HandlerSucceeds, HandlerFails, parameters, ConsumerTypes, Places,
                            Loop, Busy
  <2>4. BrokerTypes'
    BY <1>5 DEF HandlerSucceeds, HandlerFails, broker, BrokerTypes
  <2>. QED BY <2>3, <2>4
<1>6. ASSUME NEW c \in Consumers, Ack(c) \/ Nack(c) PROVE TInv'
  <2>1. ConsumerTypes'
    BY <1>6 DEF Ack, Nack, Goto, parameters, history, ConsumerTypes, Places, Loop, Busy
  <2>2. current[c] \in Messages
    BY <1>6 DEF Ack, Nack, Goto, ConsumerTypes, Busy
  <2>3. BrokerTypes'
    BY <1>6, <2>2 DEF Ack, Nack, history, BrokerTypes
  <2>. QED BY <2>1, <2>3
<1>7. ASSUME NEW c \in Consumers, LoseChannel(c) PROVE TInv'
  BY <1>7 DEF LoseChannel, Requeue, parameters, ConsumerTypes, BrokerTypes
<1>8. ASSUME NEW c \in Consumers, Restart(c) PROVE TInv'
  BY <1>8 DEF Restart, Requeue, Start, parameters, ConsumerTypes, BrokerTypes, Places,
              Declaring, Busy
<1>9. ASSUME NEW m \in Messages, SendMessage(m) PROVE TInv'
  BY <1>9 DEF SendMessage, parameters, ConsumerTypes, BrokerTypes
<1>10. ASSUME NEW m \in Messages, Deliver(m) PROVE TInv'
  <2>1. PICK c \in consuming \cap open :
          /\ buffer' = [buffer EXCEPT ![c] = Append(@, m)]
          /\ unacked' = IF autoAck THEN unacked ELSE [unacked EXCEPT ![c] = @ \cup {m}]
    BY <1>10 DEF Deliver
  <2>2. buffer' \in [Consumers -> Seq(Messages)]
    BY <2>1, DeliveredIsLast DEF ConsumerTypes, BrokerTypes
  <2>3. unacked' \in [Consumers -> SUBSET Messages]
    BY <2>1 DEF BrokerTypes
  <2>. QED BY <1>10, <2>2, <2>3 DEF Deliver, parameters, history, ConsumerTypes, BrokerTypes
<1>. QED
  BY <1>1, <1>2, <1>3, <1>4, <1>5, <1>6, <1>7, <1>8, <1>9, <1>10
     DEF Next, ListenQueue, Declares, Waiting

-------------------------------------------------------------------------------
(* The routing.  What is declared stays, and a consumer has declared what  *)
(* its place in ListenQueue says.                                          *)

RouteOK(c) ==
  /\ pc[c] \in {"exchange", "bind"} => exchange # "none"
  /\ pc[c] = "queue" /\ exchange # "none" => "exchange" \in topology
  /\ pc[c] = "bind" => "exchange" \in topology /\ "queue" \in topology
  /\ pc[c] \in {"consume"} \cup Loop => Routed

RInv == \A c \in Consumers : RouteOK(c)

LEMMA InitRoutes == Init => RInv
BY DEF Init, Start, RInv, RouteOK, Loop

LEMMA NextRoutes == TInv /\ RInv /\ [Next]_vars => RInv'
<1>. SUFFICES ASSUME TInv, RInv, [Next]_vars, NEW d \in Consumers PROVE RouteOK(d)'
  BY DEF RInv
<1>. USE DEF TInv, ConsumerTypes, RInv
<1>0. topology \subseteq topology' /\ exchange' = exchange
  BY DEF Next, vars, ListenQueue, DeclareExchange, QueueDeclare, QueueBind, Consume, ListenFails,
         Receive, EndOfMessages, HandlerSucceeds, HandlerFails, Ack, Nack, LoseChannel, Restart,
         Requeue, SendMessage, Deliver, Waiting, parameters, broker
<1>1. ASSUME pc'[d] = pc[d] \/ pc'[d] \in {"stopped", "failed"} PROVE RouteOK(d)'
  BY <1>0, <1>1 DEF RouteOK, Routed, AllOfIt, Loop
<1>2. ASSUME NEW c \in Consumers, Declares(c) PROVE RouteOK(d)'
  <2>1. CASE d = c
    BY <1>0, <1>2, <2>1 DEF Declares, DeclareExchange, QueueDeclare, QueueBind, Consume, Goto,
                            RouteOK, Routed, AllOfIt, Loop
  <2>2. CASE d # c
    BY <1>1, <1>2, <2>2 DEF Declares, DeclareExchange, QueueDeclare, QueueBind, Consume, Goto
  <2>. QED BY <2>1, <2>2
<1>3. ASSUME NEW c \in Consumers,
             Receive(c) \/ HandlerSucceeds(c) \/ HandlerFails(c) \/ Ack(c) \/ Nack(c)
      PROVE  RouteOK(d)'
  <2>1. pc[c] \in Loop /\ pc'[c] \in Loop /\ (d # c => pc'[d] = pc[d])
    BY <1>3 DEF Receive, HandlerSucceeds, HandlerFails, Ack, Nack, Goto, Loop
  <2>2. Routed => Routed'
    BY <1>0 DEF Routed, AllOfIt
  <2>3. CASE d = c
    BY <2>1, <2>2, <2>3 DEF RouteOK, Loop
  <2>. QED BY <1>1, <2>1, <2>3
<1>4. ASSUME NEW c \in Consumers, ListenFails(c) \/ EndOfMessages(c) PROVE RouteOK(d)'
  BY <1>1, <1>4 DEF ListenFails, EndOfMessages, Goto
<1>5. ASSUME NEW c \in Consumers, Restart(c) PROVE RouteOK(d)'
  <2>1. CASE d = c
    BY <1>0, <1>5, <2>1 DEF Restart, Start, RouteOK, Loop
  <2>2. CASE d # c
    BY <1>1, <1>5, <2>2 DEF Restart
  <2>. QED BY <2>1, <2>2
<1>6. ASSUME UNCHANGED pc PROVE RouteOK(d)'
  BY <1>1, <1>6
<1>. QED
  BY <1>2, <1>3, <1>4, <1>5, <1>6
     DEF Next, ListenQueue, Declares, LoseChannel, SendMessage, Deliver, Waiting, vars

-------------------------------------------------------------------------------
(* Nothing is forgotten.  A message is acknowledged only after a handler   *)
(* succeeded with it, and the broker takes back what a lost channel had.   *)

Known == \A m \in published \ dropped :
           m \in ready \/ handled[m] > 0 \/ \E c \in Consumers : m \in unacked[c]

KeptOK(c) ==
  /\ c \notin open => unacked[c] = {} /\ interruptions[c] > 0
  /\ pc[c] = "stopped" => interruptions[c] > 0
  /\ pc[c] = "ack" => handled[current[c]] > 0

KInv ==
  /\ \A c \in Consumers : KeptOK(c)
  /\ ~ autoAck => Known
  /\ dropped # {} => exchange = "fanout"

LEMMA InitKeeps == Init => KInv
<1>. SUFFICES ASSUME Init PROVE KInv
  OBVIOUS
<1>1. \A c \in Consumers : KeptOK(c)
  BY DEF Init, KeptOK, Start
<1>2. Known /\ dropped = {}
  BY DEF Init, Known
<1>. QED BY <1>1, <1>2 DEF KInv

LEMMA NextKeeps == TInv /\ KInv /\ [Next]_vars => KInv'
<1>. SUFFICES ASSUME TInv, KInv, [Next]_vars PROVE KInv'
  OBVIOUS
<1>. USE DEF TInv, ConsumerTypes, BrokerTypes
<1>0. autoAck' = autoAck /\ exchange' = exchange
  BY DEF Next, vars, ListenQueue, DeclareExchange, QueueDeclare, QueueBind, Consume, ListenFails,
         Receive, EndOfMessages, HandlerSucceeds, HandlerFails, Ack, Nack, LoseChannel, Restart,
         Requeue, SendMessage, Deliver, Waiting, parameters
\* Steps of a consumer that do not give anything back.
<1>1. ASSUME \A d \in Consumers :
               /\ pc'[d] = "stopped" => pc[d] = "stopped" \/ d \notin open
               /\ pc'[d] = "ack" => pc[d] = "ack" /\ current'[d] = current[d],
             UNCHANGED <<open, ready, unacked, published, dropped, handled, interruptions>>
      PROVE  KInv'
  <2>1. \A d \in Consumers : KeptOK(d)'
    BY <1>1 DEF KInv, KeptOK
  <2>2. Known => Known'
    BY <1>1 DEF Known
  <2>. QED BY <1>0, <1>1, <2>1, <2>2 DEF KInv
<1>2. CASE UNCHANGED vars
  BY <1>1, <1>2 DEF vars, broker, history
<1>3. ASSUME NEW c \in Consumers,
             Declares(c) \/ ListenFails(c) \/ Receive(c) \/ EndOfMessages(c) \/ HandlerFails(c)
      PROVE  KInv'
  <2>1. ASSUME NEW d \in Consumers
        PROVE  /\ pc'[d] = "stopped" => pc[d] = "stopped" \/ d \notin open
               /\ pc'[d] = "ack" => pc[d] = "ack" /\ current'[d] = current[d]
    BY <1>3 DEF Declares, DeclareExchange, QueueDeclare, QueueBind, Consume, ListenFails,
                Receive, EndOfMessages, HandlerFails, Goto
  <2>2. UNCHANGED <<open, ready, unacked, published, dropped, handled, interruptions>>
    BY <1>3 DEF Declares, DeclareExchange, QueueDeclare, QueueBind, Consume, ListenFails,
                Receive, EndOfMessages, HandlerFails, broker, history
  <2>. QED BY <1>1, <2>1, <2>2
<1>4. ASSUME NEW c \in Consumers, HandlerSucceeds(c) PROVE KInv'
  <2>1. /\ current[c] \in Messages
        /\ handled' = [handled EXCEPT ![current[c]] = @ + 1]
        /\ pc'[c] # "stopped" /\ (pc'[c] = "ack" => current'[c] = current[c])
        /\ \A d \in Consumers : d # c => pc'[d] = pc[d] /\ current'[d] = current[d]
        /\ UNCHANGED <<open, ready, unacked, published, dropped, interruptions>>
    BY <1>4 DEF HandlerSucceeds, Goto, Busy, broker
  <2>2. handled'[current[c]] > 0 /\ \A m \in Messages : handled[m] > 0 => handled'[m] > 0
    BY <2>1
  <2>3. ASSUME NEW d \in Consumers PROVE KeptOK(d)'
    BY <2>1, <2>2 DEF KInv, KeptOK, Busy
  <2>4. Known => Known'
    BY <2>1, <2>2 DEF Known
  <2>. QED BY <1>0, <2>1, <2>3, <2>4 DEF KInv
<1>5. ASSUME NEW c \in Consumers, Ack(c) \/ Nack(c) PROVE KInv'
  <2>1. /\ pc'[c] = "range" /\ ready \subseteq ready'
        /\ \A d \in Consumers : d # c => pc'[d] = pc[d] /\ current'[d] = current[d]
        /\ unacked' = [unacked EXCEPT ![c] = @ \ {current[c]}]
        /\ UNCHANGED <<open, published, dropped, handled, interruptions>>
    BY <1>5 DEF Ack, Nack, Goto, history
  <2>2. ASSUME NEW d \in Consumers PROVE KeptOK(d)'
    BY <2>1 DEF KInv, KeptOK
  <2>3. handled[current[c]] > 0 \/ current[c] \in ready' \/ unacked[c] = {}
    BY <1>5 DEF Ack, Nack, Goto, KInv, KeptOK
  <2>4. Known => Known'
    <3>. SUFFICES ASSUME Known, NEW m \in published \ dropped,
                         m \notin ready', ~ (handled[m] > 0)
                  PROVE  \E d \in Consumers : m \in unacked'[d]
      BY <2>1 DEF Known
    <3>1. PICK d \in Consumers : m \in unacked[d]
      BY <2>1 DEF Known
    <3>. QED BY <2>1, <2>3, <3>1
  <2>. QED BY <1>0, <2>1, <2>2, <2>4 DEF KInv
<1>6. ASSUME NEW c \in Consumers, LoseChannel(c) \/ Restart(c) PROVE KInv'
  <2>1. /\ interruptions'[c] > 0 /\ unacked'[c] = {} /\ ready' = ready \cup unacked[c]
        /\ pc'[c] \in {pc[c], "exchange", "queue"} /\ (pc'[c] = "ack" => current'[c] = current[c])
        /\ \A d \in Consumers : d # c =>
             /\ pc'[d] = pc[d] /\ current'[d] = current[d] /\ unacked'[d] = unacked[d]
             /\ interruptions'[d] = interruptions[d] /\ (d \in open => d \in open')
        /\ UNCHANGED <<published, dropped, handled>>
    BY <1>6 DEF LoseChannel, Restart, Requeue, Start
  <2>2. ASSUME NEW d \in Consumers PROVE KeptOK(d)'
    BY <2>1 DEF KInv, KeptOK
  <2>3. Known => Known'
    <3>. SUFFICES ASSUME Known, NEW m \in published \ dropped,
                         m \notin ready', ~ (handled[m] > 0)
                  PROVE  \E d \in Consumers : m \in unacked'[d]
      BY <2>1 DEF Known
    <3>1. PICK d \in Consumers : m \in unacked[d]
      BY <2>1 DEF Known
    <3>. QED BY <2>1, <3>1
  <2>. QED BY <1>0, <2>1, <2>2, <2>3 DEF KInv
<1>7. ASSUME NEW m \in Messages, SendMessage(m) PROVE KInv'
  <2>1. /\ \/ ready' = ready \cup {m} /\ dropped' = dropped
           \/ ready' = ready /\ dropped' = dropped \cup {m} /\ exchange = "fanout"
        /\ published' = published \cup {m}
        /\ UNCHANGED <<pc, current, open, unacked, handled, interruptions>>
    BY <1>7 DEF SendMessage, SentTopology, AllOfIt, parameters
  <2>2. ASSUME NEW d \in Consumers PROVE KeptOK(d)'
    BY <2>1 DEF KInv, KeptOK
  <2>3. Known => Known'
    BY <2>1 DEF Known
  <2>. QED BY <1>0, <2>1, <2>2, <2>3 DEF KInv
<1>8. ASSUME NEW m \in Messages, Deliver(m) PROVE KInv'
  <2>1. PICK c \in consuming \cap open :
          unacked' = IF autoAck THEN unacked ELSE [unacked EXCEPT ![c] = @ \cup {m}]
    BY <1>8 DEF Deliver
  <2>2. ready' = ready \ {m} /\ UNCHANGED <<pc, current, open, published, dropped, handled,
                                            interruptions>>
    BY <1>8 DEF Deliver, history
  <2>3. ASSUME NEW d \in Consumers PROVE KeptOK(d)'
    BY <2>1, <2>2 DEF KInv, KeptOK
  <2>4. ~ autoAck /\ Known => Known'
    BY <2>1, <2>2 DEF Known
  <2>. QED BY <1>0, <2>2, <2>3, <2>4 DEF KInv
<1>. QED
  BY <1>2, <1>3, <1>4, <1>5, <1>6, <1>7, <1>8 DEF Next, ListenQueue, Declares, Waiting

-------------------------------------------------------------------------------
(* Once only.  As long as nobody was cut off, or with autoAck, a message   *)
(* is in one place at a time, and in none once a handler succeeded with    *)
(* it.                                                                     *)

\* c has m, and may still hand it to its handler or give it back.
Has(c, m) ==
  \/ m \in Elems(buffer[c])
  \/ pc[c] \in {"handle", "nack"} /\ current[c] = m

Undisturbed == autoAck \/ \A c \in Consumers : interruptions[c] = 0

OnceOK(m) ==
  /\ handled[m] <= 1
  /\ (m \notin published \/ handled[m] = 1) =>
       m \notin ready /\ \A c \in Consumers : ~ Has(c, m)
  /\ m \notin published => handled[m] = 0
  /\ m \in ready => \A c \in Consumers : ~ Has(c, m)
  /\ \A c, d \in Consumers : Has(c, m) /\ Has(d, m) => c = d

BufferOK(c) ==
  /\ NoneTwice(buffer[c])
  /\ pc[c] \in {"handle", "nack"} => current[c] \notin Elems(buffer[c])

AutoAckOK ==
  autoAck => \A c \in Consumers : unacked[c] = {} /\ pc[c] \notin {"ack", "nack"}

SInv ==
  /\ AutoAckOK
  /\ Undisturbed => /\ \A m \in Messages : OnceOK(m)
                    /\ \A c \in Consumers : BufferOK(c)

LEMMA InitOnce == Init => SInv
<1>. SUFFICES ASSUME Init PROVE SInv
  OBVIOUS
<1>1. AutoAckOK
  BY DEF Init, AutoAckOK, Start
<1>2. \A c \in Consumers, m \in Messages : ~ Has(c, m)
  BY EmptyBuffer DEF Init, Has, Start
<1>3. \A m \in Messages : OnceOK(m)
  BY <1>2 DEF Init, OnceOK
<1>4. \A c \in Consumers : BufferOK(c)
  BY EmptyBuffer DEF Init, BufferOK
<1>. QED BY <1>1, <1>3, <1>4 DEF SInv

\* A message that no step hands on.
LEMMA OnceKept ==
  ASSUME NEW m \in Messages, OnceOK(m),
         \A d \in Consumers : Has(d, m)' => Has(d, m),
         handled'[m] = handled[m], m \in ready' => m \in ready,
         m \in published => m \in published'
  PROVE  OnceOK(m)'
BY DEF OnceOK

LEMMA BufferKept ==
  ASSUME NEW d \in Consumers, BufferOK(d), buffer'[d] = buffer[d],
         pc'[d] \in {"handle", "nack"} =>
           pc[d] \in {"handle", "nack"} /\ current'[d] = current[d]
  PROVE  BufferOK(d)'
BY DEF BufferOK

LEMMA NextOnce == TInv /\ SInv /\ [Next]_vars => SInv'
<1>. SUFFICES ASSUME TInv, SInv, [Next]_vars PROVE SInv'
  OBVIOUS
<1>. USE DEF TInv, ConsumerTypes, BrokerTypes
<1>0. autoAck' = autoAck
  BY DEF Next, vars, ListenQueue, DeclareExchange, QueueDeclare, QueueBind, Consume, ListenFails,
         Receive, EndOfMessages, HandlerSucceeds, HandlerFails, Ack, Nack, LoseChannel, Restart,
         Requeue, SendMessage, Deliver, Waiting, parameters
\* Steps that neither deliver, nor receive, nor give back.
<1>1. ASSUME \A d \in Consumers :
               /\ pc'[d] \in {"handle", "nack"} =>
                    pc[d] \in {"handle", "nack"} /\ current'[d] = current[d]
               /\ buffer'[d] = buffer[d] \/ buffer'[d] = <<>>,
             ready' = ready, handled' = handled, published' = published, AutoAckOK',
             Undisturbed' => Undisturbed
      PROVE  SInv'
  <2>1. ASSUME NEW d \in Consumers, NEW m \in Messages PROVE Has(d, m)' => Has(d, m)
    BY <1>1, EmptyBuffer DEF Has
  <2>2. ASSUME NEW d \in Consumers, BufferOK(d) PROVE BufferOK(d)'
    BY <1>1, <2>2, EmptyBuffer DEF BufferOK
  <2>. QED BY <1>1, <2>1, <2>2, OnceKept DEF SInv
<1>2. CASE UNCHANGED vars
  BY <1>1, <1>2 DEF vars, parameters, broker, history, SInv, AutoAckOK, Undisturbed
<1>3. ASSUME NEW c \in Consumers,
             Declares(c) \/ ListenFails(c) \/ EndOfMessages(c) \/ HandlerFails(c) \/ Ack(c)
      PROVE  SInv'
  <2>1. ASSUME NEW d \in Consumers
        PROVE  /\ pc'[d] \in {"handle", "nack"} =>
                    pc[d] \in {"handle", "nack"} /\ current'[d] = current[d]
               /\ buffer'[d] = buffer[d] \/ buffer'[d] = <<>>
    BY <1>3 DEF Declares, DeclareExchange, QueueDeclare, QueueBind, Consume, ListenFails,
                EndOfMessages, HandlerFails, Ack, Goto
  <2>2. /\ UNCHANGED <<ready, handled, published, interruptions>>
        /\ \A d \in Consumers : unacked[d] = {} => unacked'[d] = {}
    BY <1>3 DEF Declares, DeclareExchange, QueueDeclare, QueueBind, Consume, ListenFails,
                EndOfMessages, HandlerFails, Ack, broker, history
  <2>3. ASSUME NEW d \in Consumers, autoAck, pc'[d] \in {"ack", "nack"}
        PROVE  pc[d] \in {"ack", "nack"}
    BY <1>3, <2>3 DEF Declares, DeclareExchange, QueueDeclare, QueueBind, Consume, ListenFails,
                      EndOfMessages, HandlerFails, Ack, Goto
  <2>4. AutoAckOK'
    BY <1>0, <2>2, <2>3 DEF SInv, AutoAckOK
  <2>. QED BY <1>0, <1>1, <2>1, <2>2, <2>4 DEF Undisturbed
<1>4. ASSUME NEW c \in Consumers, Receive(c) PROVE SInv'
  <2>. DEFINE s == buffer[c]
  <2>0. /\ s \in Seq(Messages) /\ s # <<>> /\ pc[c] = "range" /\ pc'[c] = "handle"
        /\ current'[c] = Head(s) /\ buffer'[c] = Tail(s)
        /\ \A d \in Consumers : d # c =>
             pc'[d] = pc[d] /\ current'[d] = current[d] /\ buffer'[d] = buffer[d]
        /\ UNCHANGED <<unacked, ready, handled, published, interruptions>>
    BY <1>4 DEF Receive, Goto, broker, history
  <2>1. /\ Elems(s) = {Head(s)} \cup Elems(Tail(s))
        /\ NoneTwice(s) => NoneTwice(Tail(s)) /\ Head(s) \notin Elems(Tail(s))
    BY <2>0, ReceivedIsGone
  <2>2. ASSUME NEW d \in Consumers, NEW m \in Messages PROVE Has(d, m)' => Has(d, m)
    BY <2>0, <2>1 DEF Has
  <2>3. ASSUME NEW d \in Consumers, BufferOK(d) PROVE BufferOK(d)'
    <3>1. CASE d = c
      BY <2>0, <2>1, <2>3, <3>1 DEF BufferOK
    <3>2. CASE d # c
      BY <2>0, <2>3, <3>2, BufferKept
    <3>. QED BY <3>1, <3>2
  <2>4. AutoAckOK'
    BY <1>0, <2>0 DEF SInv, AutoAckOK
  <2>. QED BY <1>0, <2>0, <2>2, <2>3, <2>4, OnceKept DEF SInv, Undisturbed
<1>5. ASSUME NEW c \in Consumers, HandlerSucceeds(c) PROVE SInv'
  <2>. DEFINE k == current[c]
  <2>0. /\ pc[c] = "handle" /\ pc'[c] \in {"range", "ack"} /\ k \in Messages
        /\ handled' = [handled EXCEPT ![k] = @ + 1]
        /\ \A d \in Consumers : d # c => pc'[d] = pc[d] /\ current'[d] = current[d]
        /\ UNCHANGED <<buffer, unacked, ready, published, interruptions>>
    BY <1>5 DEF HandlerSucceeds, Goto, Busy, broker
  <2>1. ASSUME autoAck PROVE pc'[c] = "range"
    BY <1>5, <2>1 DEF HandlerSucceeds, Goto
  <2>2. AutoAckOK'
    BY <1>0, <2>0, <2>1 DEF SInv, AutoAckOK
  <2>3. ASSUME NEW d \in Consumers, NEW m \in Messages PROVE Has(d, m)' => Has(d, m)
    BY <2>0 DEF Has
  <2>4. ASSUME NEW m \in Messages, OnceOK(m), BufferOK(c) PROVE OnceOK(m)'
    <3>1. CASE m = k
      <4>1. Has(c, m) /\ handled[m] \in Nat
        BY <2>0, <3>1 DEF Has
      <4>2. handled[m] # 1 /\ handled[m] <= 1 /\ m \notin ready /\ m \in published
        BY <2>4, <4>1, Zenon DEF OnceOK
      <4>6. handled[m] = 0
        BY <4>1, <4>2
      <4>3. ~ Has(c, m)'
        BY <2>0, <2>4, <3>1 DEF Has, BufferOK
      <4>4. \A d \in Consumers : ~ Has(d, m)'
        BY <2>3, <2>4, <4>1, <4>3 DEF OnceOK
      <4>5. handled'[m] = 1
        BY <2>0, <3>1, <4>6
      <4>. QED BY <2>0, <4>2, <4>4, <4>5 DEF OnceOK
    <3>2. CASE m # k
      BY <2>0, <2>3, <2>4, <3>2, OnceKept
    <3>. QED BY <3>1, <3>2
  <2>5. ASSUME NEW d \in Consumers, BufferOK(d) PROVE BufferOK(d)'
    BY <2>0, <2>5 DEF BufferOK
  <2>. QED BY <1>0, <2>0, <2>2, <2>4, <2>5 DEF SInv, Undisturbed
<1>6. ASSUME NEW c \in Consumers, Nack(c) PROVE SInv'
  <2>. DEFINE k == current[c]
  <2>0. /\ pc[c] = "nack" /\ pc'[c] = "range" /\ k \in Messages
        /\ ready' \in {ready, ready \cup {k}}
        /\ \A d \in Consumers : d # c => pc'[d] = pc[d] /\ current'[d] = current[d]
        /\ \A d \in Consumers : unacked[d] = {} => unacked'[d] = {}
        /\ UNCHANGED <<buffer, handled, published, interruptions>>
    BY <1>6 DEF Nack, Goto, Busy, history
  <2>1. AutoAckOK'
    BY <1>0, <2>0 DEF SInv, AutoAckOK
  <2>2. ASSUME NEW d \in Consumers, NEW m \in Messages PROVE Has(d, m)' => Has(d, m)
    BY <2>0 DEF Has
  <2>3. ASSUME NEW m \in Messages, OnceOK(m), BufferOK(c) PROVE OnceOK(m)'
    <3>1. CASE m = k
      <4>1. Has(c, m)
        BY <2>0, <3>1 DEF Has
      <4>2. ~ Has(c, m)'
        BY <2>0, <2>3, <3>1 DEF Has, BufferOK
      <4>3. \A d \in Consumers : ~ Has(d, m)'
        BY <2>2, <2>3, <4>1, <4>2 DEF OnceOK
      <4>. QED BY <2>0, <2>3, <4>1, <4>3 DEF OnceOK
    <3>2. CASE m # k
      BY <2>0, <2>2, <2>3, <3>2, OnceKept
    <3>. QED BY <3>1, <3>2
  <2>4. ASSUME NEW d \in Consumers, BufferOK(d) PROVE BufferOK(d)'
    BY <2>0, <2>4 DEF BufferOK
  <2>. QED BY <1>0, <2>0, <2>1, <2>3, <2>4 DEF SInv, Undisturbed
<1>7. ASSUME NEW c \in Consumers, LoseChannel(c) \/ Restart(c) PROVE SInv'
  <2>0. /\ interruptions'[c] # 0 /\ ready' = ready \cup unacked[c]
        /\ \A d \in Consumers : unacked[d] = {} => unacked'[d] = {}
        /\ UNCHANGED <<handled, published>>
    <3>1. Requeue(c)
      BY <1>7 DEF LoseChannel, Restart
    <3>2. interruptions'[c] = interruptions[c] + 1 /\ interruptions[c] \in Nat
      BY <3>1 DEF Requeue
    <3>3. interruptions'[c] # 0
      BY <3>2
    <3>. QED BY <3>1, <3>3 DEF Requeue
  <2>1. ASSUME NEW d \in Consumers
        PROVE  /\ pc'[d] \in {"handle", "ack", "nack"} =>
                    pc'[d] = pc[d] /\ current'[d] = current[d]
               /\ buffer'[d] = buffer[d] \/ buffer'[d] = <<>>
    <3>1. CASE LoseChannel(c)
      BY <3>1 DEF LoseChannel
    <3>2. CASE Restart(c)
      <4>1. CASE d = c
        BY <3>2, <4>1 DEF Restart, Start
      <4>2. CASE d # c
        BY <3>2, <4>2 DEF Restart
      <4>. QED BY <4>1, <4>2
    <3>. QED BY <1>7, <3>1, <3>2
  <2>2. AutoAckOK'
    BY <1>0, <2>0, <2>1 DEF SInv, AutoAckOK
  <2>3. CASE autoAck
    <3>1. ready' = ready
      BY <2>0, <2>3 DEF SInv, AutoAckOK
    <3>2. Undisturbed
      BY <2>3 DEF Undisturbed
    <3>. QED BY <1>1, <2>0, <2>1, <2>2, <3>1, <3>2
  <2>4. CASE ~ autoAck
    <3>1. ~ Undisturbed'
      BY <1>0, <2>0, <2>4 DEF Undisturbed
    <3>. QED BY <2>2, <3>1 DEF SInv
  <2>. QED BY <2>3, <2>4
<1>8. ASSUME NEW k \in Messages, SendMessage(k) PROVE SInv'
  <2>0. /\ ready' \in {ready, ready \cup {k}} /\ k \notin published
        /\ published' = published \cup {k}
        /\ UNCHANGED <<pc, current, buffer, unacked, handled, interruptions>>
    BY <1>8 DEF SendMessage
  <2>1. AutoAckOK'
    BY <1>0, <2>0 DEF SInv, AutoAckOK
  <2>2. ASSUME NEW d \in Consumers, NEW m \in Messages PROVE Has(d, m)' <=> Has(d, m)
    BY <2>0 DEF Has
  <2>3. ASSUME NEW m \in Messages, OnceOK(m) PROVE OnceOK(m)'
    <3>1. CASE m = k
      BY <2>0, <2>2, <2>3, <3>1 DEF OnceOK
    <3>2. CASE m # k
      BY <2>0, <2>2, <2>3, <3>2, OnceKept
    <3>. QED BY <3>1, <3>2
  <2>4. ASSUME NEW d \in Consumers, BufferOK(d) PROVE BufferOK(d)'
    BY <2>0, <2>4 DEF BufferOK
  <2>. QED BY <1>0, <2>0, <2>1, <2>3, <2>4 DEF SInv, Undisturbed
<1>9. ASSUME NEW k \in Messages, Deliver(k) PROVE SInv'
  <2>0. PICK c \in consuming \cap open :
          /\ buffer' = [buffer EXCEPT ![c] = Append(@, k)]
          /\ unacked' = IF autoAck THEN unacked ELSE [unacked EXCEPT ![c] = @ \cup {k}]
    BY <1>9 DEF Deliver
  <2>1. /\ k \in ready /\ ready' = ready \ {k}
        /\ UNCHANGED <<pc, current, handled, published, interruptions>>
    BY <1>9 DEF Deliver, history
  <2>2. AutoAckOK'
    BY <1>0, <2>0, <2>1 DEF SInv, AutoAckOK
  <2>3. /\ Elems(buffer'[c]) = Elems(buffer[c]) \cup {k}
        /\ NoneTwice(buffer[c]) /\ k \notin Elems(buffer[c]) => NoneTwice(buffer'[c])
    BY <2>0, DeliveredIsLast
  <2>4. ASSUME NEW d \in Consumers, NEW m \in Messages, d # c \/ m # k
        PROVE  Has(d, m)' <=> Has(d, m)
    BY <2>0, <2>1, <2>3, <2>4 DEF Has
  <2>5. ASSUME NEW m \in Messages, OnceOK(m) PROVE OnceOK(m)'
    <3>1. CASE m = k
      <4>1. m \in published /\ handled[m] # 1 /\ \A d \in Consumers : ~ Has(d, m)
        BY <2>1, <2>5, <3>1 DEF OnceOK
      <4>2. \A d \in Consumers : d # c => ~ Has(d, m)'
        BY <2>4, <4>1
      <4>. QED BY <2>1, <2>5, <3>1, <4>1, <4>2 DEF OnceOK
    <3>2. CASE m # k
      BY <2>1, <2>4, <2>5, <3>2, OnceKept
    <3>. QED BY <3>1, <3>2
  <2>6. ASSUME NEW d \in Consumers, OnceOK(k), BufferOK(d) PROVE BufferOK(d)'
    <3>1. CASE d = c
      <4>1. ~ Has(c, k)
        BY <2>1, <2>6 DEF OnceOK
      <4>. QED BY <2>1, <2>3, <2>6, <3>1, <4>1 DEF BufferOK, Has
    <3>2. CASE d # c
      BY <2>0, <2>1, <2>6, <3>2, BufferKept
    <3>. QED BY <3>1, <3>2
  <2>. QED BY <1>0, <2>1, <2>2, <2>5, <2>6 DEF SInv, Undisturbed
<1>. QED
  BY <1>2, <1>3, <1>4, <1>5, <1>6, <1>7, <1>8, <1>9 DEF Next, ListenQueue, Declares, Waiting

-------------------------------------------------------------------------------
(* The safety properties.                                                  *)

IInv == TInv /\ RInv /\ KInv /\ SInv

LEMMA IInvHolds == Spec => []IInv
<1>1. Init => IInv
  BY InitTypes, InitRoutes, InitKeeps, InitOnce DEF IInv
<1>2. IInv /\ [Next]_vars => IInv'
  BY NextTypes, NextRoutes, NextKeeps, NextOnce DEF IInv
<1>. QED BY <1>1, <1>2, PTL DEF Spec

\* Without autoAck no failure of a handler, no lost channel and no crash loses a
\* message that reached the queue; and only a fanout nobody bound drops one.
THEOREM NoMessageLost == Spec => []NothingForgotten
<1>1. IInv => NothingForgotten
  BY DEF IInv, KInv, Known, NothingForgotten
<1>. QED BY <1>1, IInvHolds, PTL

\* A message is handled twice only without autoAck, and only after a consumer was
\* cut off.
THEOREM DuplicatesAreExplained == Spec => []HandledOnceUnlessInterrupted
<1>1. IInv => HandledOnceUnlessInterrupted
  <2>. SUFFICES ASSUME IInv, NEW m \in Messages, handled[m] > 1
                PROVE  ~ Undisturbed /\ \A c \in Consumers : interruptions[c] \in Nat
    BY DEF HandledOnceUnlessInterrupted, Undisturbed
  <2>1. handled[m] \in Nat /\ \A c \in Consumers : interruptions[c] \in Nat
    BY DEF IInv, TInv, ConsumerTypes, BrokerTypes
  <2>. QED BY <2>1 DEF IInv, SInv, OnceOK
<1>. QED BY <1>1, IInvHolds, PTL

\* The goroutine of ListenQueue outlives every handler that fails: it ends only when
\* its channel was lost or its process died.
THEOREM ListensUntilCutOff == Spec => []StopsOnlyWithItsChannel
<1>1. IInv => StopsOnlyWithItsChannel
  BY DEF IInv, KInv, KeptOK, StopsOnlyWithItsChannel
<1>. QED BY <1>1, IInvHolds, PTL

\* When ListenQueue has returned nil, everything a message needs to reach the queue
\* is declared, and stays so.
THEOREM QueueIsRouted == Spec => []ListeningMeansRouted
<1>1. IInv => ListeningMeansRouted
  BY DEF IInv, RInv, RouteOK, ListeningMeansRouted
<1>. QED BY <1>1, IInvHolds, PTL
===============================================================================
