--------------------------- MODULE PubSub_proofs ---------------------------
(***************************************************************************)
(* Theorems about PubSub, for any topics, threads and number of messages.  *)
(***************************************************************************)
EXTENDS PubSub, SequenceTheorems, TLAPS

-----------------------------------------------------------------------------
(***************************************************************************)
(* Types.  That at most one frame waits for its payload follows from       *)
(* pub_mutex_: when it is free, no message is unfinished.                  *)
(***************************************************************************)
MutexCoversMessage == ~pub_mutex => unfinished = <<>>

\* The message being handled has a topic and something after it.
MessageIsWhole == receiver \in {"find", "call"} => Len(message) >= 2

TypeInv == TypeOK /\ MutexCoversMessage /\ MessageIsWhole

LEMMA PublishType ==
  ASSUME TypeInv, Publish
  PROVE  TypeInv'
<1> USE DEF TypeInv, TypeOK, MutexCoversMessage, MessageIsWhole, mainVars, receiverVars
<1>1. ASSUME NEW p \in Threads, NEW t \in Topics, PublishTopic(p, t)
      PROVE  TypeInv'
  <2>1. /\ published + 1 \in 1..MaxMessages
        /\ [kind |-> "topic", topic |-> t] \in Frame
    BY <1>1, PubSubBounds DEF PublishTopic, Frame, TopicFrame
  <2>2. Payload(t, published + 1) \in PayloadFrame
    BY <2>1 DEF Payload, PayloadFrame
  <2>3. publisher' \in [Threads -> SUBSET PayloadFrame]
    BY <1>1, <2>2 DEF PublishTopic
  <2>4. unfinished' \in Seq(Frame) /\ Len(unfinished') <= 1
    BY <1>1, <2>1 DEF PublishTopic
  <2> QED
    BY <1>1, <2>1, <2>3, <2>4 DEF PublishTopic
<1>2. ASSUME NEW p \in Threads, PublishPayload(p)
      PROVE  TypeInv'
  <2>1. PICK frame \in publisher[p] :
          /\ publisher' = [publisher EXCEPT ![p] = {}]
          /\ pub_mutex' = FALSE
          /\ unfinished' = <<>>
          /\ bus' = Append(bus, Append(unfinished, frame))
          /\ UNCHANGED <<published, mainVars, topic_handlers,
                         topic_handlers_mutex, inbound, receiverVars>>
    BY <1>2 DEF PublishPayload
  <2>2. frame \in Frame
    BY <2>1 DEF Frame
  <2>3. bus' \in Seq(Seq(Frame))
    BY <2>1, <2>2
  <2>4. publisher' \in [Threads -> SUBSET PayloadFrame]
    BY <2>1
  <2>5. unfinished' \in Seq(Frame) /\ Len(unfinished') <= 1
    BY <2>1
  <2> QED
    BY <2>1, <2>3, <2>4, <2>5
<1> QED
  BY <1>1, <1>2 DEF Publish

LEMMA ProxyType ==
  ASSUME TypeInv, Forward \/ Lose \/ \E t \in Topics : PublishBare(t)
  PROVE  TypeInv'
<1> USE DEF TypeInv, TypeOK, MutexCoversMessage, MessageIsWhole,
            publisherVars, mainVars, receiverVars
<1>1. ASSUME bus # <<>>
      PROVE  Head(bus) \in Seq(Frame) /\ Tail(bus) \in Seq(Seq(Frame))
  BY <1>1
<1>2. CASE Forward
  BY <1>1, <1>2 DEF Forward
<1>3. CASE Lose
  BY <1>1, <1>3 DEF Lose
<1>4. ASSUME NEW t \in Topics, PublishBare(t)
      PROVE  TypeInv'
  <2>1. <<[kind |-> "topic", topic |-> t]>> \in Seq(Frame)
    BY DEF Frame, TopicFrame
  <2> QED
    BY <1>4, <2>1, PubSubBounds DEF PublishBare
<1> QED
  BY <1>2, <1>3, <1>4

LEMMA MainType ==
  ASSUME TypeInv, Main
  PROVE  TypeInv'
BY DEF Main, Connect, Subscribe, StoreHandler, AddTopic, Destroy, Joined,
       TypeInv, TypeOK, MutexCoversMessage, MessageIsWhole, publisherVars,
       receiverVars

LEMMA ReceiverType ==
  ASSUME TypeInv, Receiver
  PROVE  TypeInv'
<1> USE DEF TypeInv, TypeOK, MutexCoversMessage, MessageIsWhole,
            publisherVars, mainVars
<1>1. CASE ReceiveLoop
  BY <1>1 DEF ReceiveLoop
<1>2. CASE Receive
  <2>1. Head(inbound) \in Seq(Frame) /\ Tail(inbound) \in Seq(Seq(Frame))
    BY <1>2 DEF Receive
  <2> QED
    BY <1>2, <2>1 DEF Receive
<1>3. CASE FindHandler
  BY <1>3 DEF FindHandler
<1>4. CASE CallHandler
  <2>1. message[1] \in Frame /\ message[2] \in Frame
    BY <1>4 DEF CallHandler
  <2>2. message[1].topic \in Topics
    BY <2>1 DEF Frame, TopicFrame, PayloadFrame
  <2>3. called' \in Seq([topic : Topics, frame : Frame])
    BY <1>4, <2>1, <2>2 DEF CallHandler
  <2>4. message' \in Seq(Frame)
    BY <1>4 DEF CallHandler
  <2> QED
    BY <1>4, <2>3, <2>4 DEF CallHandler
<1> QED
  BY <1>1, <1>2, <1>3, <1>4 DEF Receiver

LEMMA TypeInvariant == Spec => []TypeInv
<1>1. ASSUME Init
      PROVE  TypeInv
  <2>1. publisher \in [Threads -> SUBSET PayloadFrame]
    BY <1>1 DEF Init
  <2>2. /\ unfinished \in Seq(Frame) /\ Len(unfinished) <= 1
        /\ bus \in Seq(Seq(Frame))
        /\ inbound \in Seq(Seq(Frame))
        /\ message \in Seq(Frame)
        /\ called \in Seq([topic : Topics, frame : Frame])
    BY <1>1 DEF Init
  <2>3. published \in 0..MaxMessages
    BY <1>1, PubSubBounds DEF Init
  <2> QED
    BY <1>1, <2>1, <2>2, <2>3
    DEF Init, TypeInv, TypeOK, MutexCoversMessage, MessageIsWhole
<1>2. TypeInv /\ [Next]_vars => TypeInv'
  <2>1. CASE UNCHANGED vars
    BY <2>1 DEF vars, publisherVars, mainVars, receiverVars, TypeInv, TypeOK,
                MutexCoversMessage, MessageIsWhole
  <2> QED
    BY <2>1, PublishType, ProxyType, MainType, ReceiverType DEF Next
<1> QED
  BY <1>1, <1>2, PTL DEF Spec

(***************************************************************************)
(* Every reachable state of the publisher, the proxy and the subscriber is *)
(* of its type; never more than one frame waits for its payload.           *)
(***************************************************************************)
THEOREM TypeCorrect == Spec => []TypeOK
<1>1. TypeInv => TypeOK
  BY DEF TypeInv
<1> QED
  BY <1>1, TypeInvariant, PTL

-----------------------------------------------------------------------------
(***************************************************************************)
(* When no topic is a prefix of another, a callback is there for every     *)
(* message.  Subscribe stores the callback before it sets the filter, so   *)
(* what the filters let in has one, in the socket and in the hands of the  *)
(* receive thread alike.                                                   *)
(***************************************************************************)
NoProperPrefix == \A t \in Topics : Covers[t] = {t}

CallbackStored ==
    /\ filters \subseteq topic_handlers
    /\ main = "filtering" => topic \subseteq topic_handlers
    /\ \A i \in 1..Len(inbound) : inbound[i][1].topic \in topic_handlers
    /\ receiver \in {"find", "call"} => message[1].topic \in topic_handlers
    /\ receiver # "aborted"

LEMMA CallbackStep ==
  ASSUME NoProperPrefix, TypeInv, CallbackStored, Next
  PROVE  CallbackStored'
<1> USE DEF CallbackStored, TypeInv, TypeOK
<1>1. CASE Publish
  BY <1>1 DEF Publish, PublishTopic, PublishPayload, mainVars, receiverVars
<1>2. ASSUME NEW t \in Topics, PublishBare(t)
      PROVE  CallbackStored'
  BY <1>2 DEF PublishBare, mainVars, receiverVars
<1>3. CASE Forward
  <2>1. PICK f \in filters : Head(bus)[1].topic \in Covers[f]
    BY <1>3 DEF Forward, LetIn
  <2>2. Head(bus)[1].topic \in topic_handlers
    BY <2>1 DEF NoProperPrefix
  <2>3. \A i \in 1..Len(inbound') : inbound'[i][1].topic \in topic_handlers
    BY <1>3, <2>2 DEF Forward
  <2> QED
    BY <1>3, <2>3 DEF Forward, mainVars, receiverVars
<1>4. CASE Lose
  BY <1>4 DEF Lose, mainVars, receiverVars
<1>5. CASE Main
  BY <1>5 DEF Main, Connect, Subscribe, StoreHandler, AddTopic, Destroy,
              Joined, receiverVars
<1>6. CASE ReceiveLoop \/ FindHandler \/ CallHandler
  BY <1>6 DEF ReceiveLoop, FindHandler, CallHandler, mainVars
<1>7. CASE Receive
  <2>1. \A i \in 1..Len(inbound') : inbound'[i] = inbound[i + 1]
    BY <1>7 DEF Receive
  <2>2. \A i \in 1..Len(inbound') : inbound'[i][1].topic \in topic_handlers
    BY <1>7, <2>1 DEF Receive
  <2>3. receiver' = "find" => message'[1].topic \in topic_handlers
    BY <1>7 DEF Receive
  <2> QED
    BY <1>7, <2>2, <2>3 DEF Receive, mainVars
<1> QED
  BY <1>1, <1>2, <1>3, <1>4, <1>5, <1>6, <1>7 DEF Next, Receiver

(***************************************************************************)
(* The assert of client.cpp:147 never fails when no topic is a prefix of   *)
(* another one.                                                            *)
(***************************************************************************)
THEOREM CallbackFirst ==
  ASSUME NoProperPrefix
  PROVE  Spec => []EveryTopicHasHandler
<1>1. Init => CallbackStored
  BY DEF Init, CallbackStored
<1>2. TypeInv /\ CallbackStored /\ [Next]_vars => CallbackStored'
  <2>1. CASE UNCHANGED vars
    BY <2>1 DEF vars, mainVars, receiverVars, CallbackStored
  <2> QED
    BY <2>1, CallbackStep, NoProperPrefix
<1>3. CallbackStored => EveryTopicHasHandler
  BY DEF CallbackStored, EveryTopicHasHandler
<1> QED
  BY <1>1, <1>2, <1>3, TypeInvariant, PTL DEF Spec

-----------------------------------------------------------------------------
(***************************************************************************)
(* Callbacks get whole messages in the order of their publication.         *)
(*                                                                         *)
(* A message passes from the publisher through the bus and the socket to   *)
(* the receive thread and then to its callback, and each of these places   *)
(* holds later messages than the next one.  The invariant compares every   *)
(* two places, because a place may be empty.                               *)
(***************************************************************************)
Whole(m) ==
    /\ Len(m) \in {1, 2}
    /\ Len(m) = 2 => m[2].kind = "payload" /\ m[1].topic = m[2].topic

Earlier(m, n) == Len(m) = 2 /\ Len(n) = 2 => m[2].id < n[2].id

Handling == receiver \in {"find", "call"}

\* All that was called, all that is being handled, is earlier than n.
CalledBefore(n) ==
    \A i \in 1..Len(called) : Len(n) = 2 => called[i].frame.id < n[2].id

HandlingBefore(n) == Handling => Earlier(message, n)

\* No message that has left the publisher has number n or a later one.
AllBefore(n) ==
    /\ \A i \in 1..Len(called) : called[i].frame.id < n
    /\ Handling => message[2].id < n
    /\ \A i \in 1..Len(inbound) : Len(inbound[i]) = 2 => inbound[i][2].id < n
    /\ \A i \in 1..Len(bus) : Len(bus[i]) = 2 => bus[i][2].id < n

WholeMessages ==
    /\ Handling => Whole(message)
    /\ \A i \in 1..Len(inbound) : Whole(inbound[i])
    /\ \A i \in 1..Len(bus) : Whole(bus[i])

PublisherInv ==
    /\ ~pub_mutex => \A p \in Threads : publisher[p] = {}
    /\ \A p \in Threads : \A f \in publisher[p] :
         /\ publisher[p] = {f}
         /\ unfinished = <<[kind |-> "topic", topic |-> f.topic]>>
         /\ f.id <= published
         /\ AllBefore(f.id)
    /\ \A p, q \in Threads :
         publisher[p] # {} /\ publisher[q] # {} => p = q
    /\ AllBefore(published + 1)

SubscriberInv ==
    /\ Handling => CalledBefore(message)
    /\ \A i \in 1..Len(inbound) :
         CalledBefore(inbound[i]) /\ HandlingBefore(inbound[i])
    /\ \A i, j \in 1..Len(inbound) : i < j => Earlier(inbound[i], inbound[j])

BusInv ==
    /\ \A k \in 1..Len(bus) :
         /\ CalledBefore(bus[k])
         /\ HandlingBefore(bus[k])
         /\ \A i \in 1..Len(inbound) : Earlier(inbound[i], bus[k])
    /\ \A k, l \in 1..Len(bus) : k < l => Earlier(bus[k], bus[l])

OrderInv ==
    /\ HandledAsPublished
    /\ WholeMessages
    /\ PublisherInv
    /\ SubscriberInv
    /\ BusInv

LEMMA ElementType ==
  ASSUME NEW S, NEW q \in Seq(S), NEW i \in 1..Len(q)
  PROVE  q[i] \in S
OBVIOUS

LEMMA AppendSecond ==
  ASSUME NEW S, NEW q \in Seq(S), NEW e \in S, Len(q) = 1
  PROVE  /\ Append(q, e) \in Seq(S)
         /\ Len(Append(q, e)) = 2
         /\ Append(q, e)[1] = q[1]
         /\ Append(q, e)[2] = e
<1>1. Append(q, e) \in Seq(S) /\ Append(q, e)[Len(q) + 1] = e
  BY AppendProperties
<1>2. Len(Append(q, e)) = Len(q) + 1
  BY AppendProperties
<1>3. Append(q, e)[1] = q[1]
  BY AppendProperties
<1>4. Len(q) + 1 = 2
  OBVIOUS
<1> QED
  BY <1>1, <1>2, <1>3, <1>4, Zenon

\* A payload frame has a number.
LEMMA PayloadNumber ==
  ASSUME NEW f \in Frame, f.kind = "payload"
  PROVE  f \in PayloadFrame /\ f.id \in 1..MaxMessages
BY DEF Frame, TopicFrame, PayloadFrame

LEMMA WholeNumber ==
  ASSUME NEW m \in Seq(Frame), Whole(m), Len(m) = 2
  PROVE  m[2].id \in 1..MaxMessages
<1>1. m[2] \in Frame
  OBVIOUS
<1>2. m[2].kind = "payload"
  BY DEF Whole
<1> QED
  BY <1>1, <1>2, PayloadNumber

LEMMA AllBeforeNext ==
  ASSUME TypeInv, OrderInv, NEW n \in Nat, AllBefore(n)
  PROVE  AllBefore(n + 1)
<1> USE PubSubBounds DEF TypeInv, TypeOK
<1>1. ASSUME NEW i \in 1..Len(called)
      PROVE  called[i].frame.id < n + 1
  <2>1. called[i].frame \in Frame /\ called[i].frame.kind = "payload"
    <3>1. called[i] \in [topic : Topics, frame : Frame]
      <4>1. called \in Seq([topic : Topics, frame : Frame])
        OBVIOUS
      <4> QED
        BY <1>1, <4>1, ElementType
    <3>2. called[i].frame.kind = "payload"
      BY <1>1 DEF OrderInv, HandledAsPublished
    <3> QED
      BY <3>1, <3>2
  <2>2. called[i].frame.id \in 1..MaxMessages
    BY <2>1, PayloadNumber
  <2>3. called[i].frame.id < n
    BY <1>1 DEF AllBefore
  <2> QED
    BY <2>2, <2>3
<1>2. ASSUME Handling
      PROVE  message[2].id < n + 1
  <2>1. message[2].id \in 1..MaxMessages
    BY <1>2, WholeNumber DEF OrderInv, WholeMessages, Whole, MessageIsWhole,
                             Handling
  <2>2. message[2].id < n
    BY <1>2 DEF AllBefore
  <2> QED
    BY <2>1, <2>2
<1>3. ASSUME NEW i \in 1..Len(inbound), Len(inbound[i]) = 2
      PROVE  inbound[i][2].id < n + 1
  <2>1. inbound[i][2].id \in 1..MaxMessages
    <3>1. Whole(inbound[i]) /\ inbound[i] \in Seq(Frame)
      BY <1>3 DEF OrderInv, WholeMessages
    <3> QED
      BY <1>3, <3>1, WholeNumber
  <2>2. inbound[i][2].id < n
    BY <1>3 DEF AllBefore
  <2> HIDE DEF TypeInv
  <2> QED
    BY <2>1, <2>2
<1>4. ASSUME NEW i \in 1..Len(bus), Len(bus[i]) = 2
      PROVE  bus[i][2].id < n + 1
  <2>1. bus[i][2].id \in 1..MaxMessages
    <3>1. Whole(bus[i]) /\ bus[i] \in Seq(Frame)
      BY <1>4 DEF OrderInv, WholeMessages
    <3> QED
      BY <1>4, <3>1, WholeNumber
  <2>2. bus[i][2].id < n
    BY <1>4 DEF AllBefore
  <2> HIDE DEF TypeInv
  <2> QED
    BY <2>1, <2>2
<1> QED
  BY <1>1, <1>2, <1>3, <1>4 DEF AllBefore

\* Publish sends the topic: its number is later than all that went before.
LEMMA OrderOfTopic ==
  ASSUME TypeInv, OrderInv, NEW p \in Threads, NEW t \in Topics,
         PublishTopic(p, t)
  PROVE  OrderInv'
<1> DEFINE frame == Payload(t, published + 1)
<1>1. /\ ~pub_mutex
      /\ pub_mutex'
      /\ published' = published + 1
      /\ publisher' = [publisher EXCEPT ![p] = {frame}]
      /\ unfinished' = Append(unfinished, [kind |-> "topic", topic |-> t])
      /\ UNCHANGED <<bus, inbound, receiver, message, called>>
  BY DEF PublishTopic, receiverVars, TypeInv, TypeOK
<1>2. /\ frame.id = published + 1
      /\ frame.topic = t
      /\ published \in Nat
  BY PubSubBounds DEF Payload, TypeInv, TypeOK
<1>3. \A q \in Threads : publisher'[q] = IF q = p THEN {frame} ELSE {}
  BY <1>1 DEF OrderInv, PublisherInv, TypeInv, TypeOK
<1>4. unfinished' = <<[kind |-> "topic", topic |-> frame.topic]>>
  BY <1>1, <1>2 DEF TypeInv, MutexCoversMessage
<1>5. AllBefore(published + 1) /\ AllBefore(published + 1 + 1)
  BY <1>2, AllBeforeNext DEF OrderInv, PublisherInv
<1>6. \A n : AllBefore(n) => AllBefore(n)'
  BY <1>1 DEF AllBefore, Handling
<1>7. AllBefore(published + 1)'
  BY <1>1, <1>5, <1>6
<1>8. PublisherInv'
  <2>1. ASSUME NEW q \in Threads, NEW f \in publisher'[q]
        PROVE  /\ publisher'[q] = {f}
               /\ unfinished' = <<[kind |-> "topic", topic |-> f.topic]>>
               /\ f.id <= published'
               /\ AllBefore(f.id)'
    <3>1. f = frame /\ q = p
      BY <1>3, <2>1
    <3>2. AllBefore(f.id)'
      BY <1>2, <1>5, <1>6, <3>1
    <3>3. f.id <= published'
      BY <1>1, <1>2, <3>1
    <3> QED
      BY <1>3, <1>4, <3>1, <3>2, <3>3
  <2>2. \A q, r \in Threads :
          publisher'[q] # {} /\ publisher'[r] # {} => q = r
    BY <1>3
  <2> QED
    BY <1>1, <1>7, <2>1, <2>2 DEF PublisherInv
<1>9. HandledAsPublished' /\ WholeMessages' /\ SubscriberInv' /\ BusInv'
  BY <1>1 DEF OrderInv, HandledAsPublished, WholeMessages, SubscriberInv,
              BusInv, CalledBefore, HandlingBefore, Handling, Whole, Earlier
<1> QED
  BY <1>8, <1>9 DEF OrderInv

\* m is later than all that has left the publisher, and earlier than n.
Latest(m) == Len(m) = 2 => AllBefore(m[2].id)
NumberedBefore(m, n) == Len(m) = 2 => m[2].id < n

\* A message enters the bus behind everything that left the publisher.
LEMMA EntersBus ==
  ASSUME TypeInv, OrderInv, NEW m \in Seq(Frame), Whole(m),
         bus' = Append(bus, m),
         UNCHANGED <<inbound, receiver, message, called>>,
         Latest(m)
  PROVE  /\ HandledAsPublished' /\ WholeMessages' /\ SubscriberInv' /\ BusInv'
         /\ \A n : AllBefore(n) /\ NumberedBefore(m, n) => AllBefore(n)'
<1> USE DEF Latest, NumberedBefore
<1>1. /\ bus \in Seq(Seq(Frame))
      /\ Len(bus') = Len(bus) + 1
      /\ \A i \in 1..Len(bus) : bus'[i] = bus[i]
      /\ bus'[Len(bus) + 1] = m
  BY DEF TypeInv, TypeOK
<1>2. \A i \in 1..Len(bus') : i \in 1..Len(bus) \/ i = Len(bus) + 1
  BY <1>1
<1>3. HandledAsPublished' /\ SubscriberInv'
  BY DEF OrderInv, HandledAsPublished, SubscriberInv, CalledBefore,
         HandlingBefore, Handling, Earlier
<1>4. WholeMessages'
  <2>1. /\ Handling => Whole(message)
        /\ \A i \in 1..Len(inbound) : Whole(inbound[i])
        /\ \A i \in 1..Len(bus) : Whole(bus[i])
    BY DEF OrderInv, WholeMessages
  <2>2. \A i \in 1..Len(bus') : Whole(bus'[i])
    BY <1>1, <1>2, <2>1
  <2>3. (Handling => Whole(message))'
    BY <2>1 DEF Handling, Whole
  <2>4. \A i \in 1..Len(inbound') : Whole(inbound'[i])
    BY <2>1
  <2> QED
    BY <2>2, <2>3, <2>4 DEF WholeMessages, Whole
<1>5. /\ CalledBefore(m)
      /\ HandlingBefore(m)
      /\ \A i \in 1..Len(inbound) : Earlier(inbound[i], m)
      /\ \A i \in 1..Len(bus) : Earlier(bus[i], m)
  BY DEF AllBefore, CalledBefore, HandlingBefore, Earlier
<1>6. ASSUME NEW k \in 1..Len(bus')
      PROVE  /\ CalledBefore(bus'[k])
             /\ HandlingBefore(bus'[k])
             /\ \A i \in 1..Len(inbound) : Earlier(inbound[i], bus'[k])
             /\ \A l \in 1..Len(bus') : l < k => Earlier(bus'[l], bus'[k])
  <2>1. CASE k \in 1..Len(bus)
    <3>1. bus'[k] = bus[k] /\ \A l \in 1..Len(bus') : l < k => bus'[l] = bus[l] /\ l \in 1..Len(bus)
      BY <1>1, <1>2, <2>1
    <3> QED
      BY <2>1, <3>1 DEF OrderInv, BusInv
  <2>2. CASE k = Len(bus) + 1
    <3>1. bus'[k] = m /\ \A l \in 1..Len(bus') : l < k => bus'[l] = bus[l] /\ l \in 1..Len(bus)
      BY <1>1, <1>2, <2>2
    <3> QED
      BY <1>5, <3>1
  <2> QED
    BY <1>2, <2>1, <2>2
<1>7. BusInv'
  BY <1>6 DEF BusInv, CalledBefore, HandlingBefore, Handling, Earlier
<1>8. ASSUME NEW n, AllBefore(n), NumberedBefore(m, n)
      PROVE  AllBefore(n)'
  BY <1>1, <1>2, <1>8 DEF AllBefore, Handling
<1> QED
  BY <1>3, <1>4, <1>7, <1>8

LEMMA OrderOfPayload ==
  ASSUME TypeInv, OrderInv, NEW p \in Threads, PublishPayload(p)
  PROVE  OrderInv'
<1>1. PICK f \in publisher[p] :
        /\ publisher' = [publisher EXCEPT ![p] = {}]
        /\ pub_mutex' = FALSE
        /\ unfinished' = <<>>
        /\ bus' = Append(bus, Append(unfinished, f))
        /\ UNCHANGED <<published, inbound, receiver, message, called>>
  BY DEF PublishPayload, receiverVars
<1> DEFINE m == Append(unfinished, f)
<1>2. f \in PayloadFrame
  BY DEF TypeInv, TypeOK
<1>3. /\ f.id \in Nat /\ f.kind = "payload"
      /\ published \in Nat
  BY <1>2, PubSubBounds DEF PayloadFrame, TypeInv, TypeOK
<1>4. /\ unfinished = <<[kind |-> "topic", topic |-> f.topic]>>
      /\ f.id <= published
      /\ AllBefore(f.id)
  BY DEF OrderInv, PublisherInv
<1>5. /\ m \in Seq(Frame)
      /\ Whole(m)
      /\ Len(m) = 2
      /\ m[2] = f
  <2>1. unfinished \in Seq(Frame) /\ f \in Frame
    BY <1>2 DEF Frame, TypeInv, TypeOK
  <2>2. Len(unfinished) = 1 /\ unfinished[1].topic = f.topic
    BY <1>4
  <2>3. /\ m \in Seq(Frame)
        /\ Len(m) = 2
        /\ m[1] = unfinished[1]
        /\ m[2] = f
    BY <2>1, <2>2, AppendSecond
  <2> QED
    BY <1>3, <2>2, <2>3 DEF Whole
<1>6. bus' = Append(bus, m)
  BY <1>1
<1> HIDE DEF m
<1>7. /\ HandledAsPublished' /\ WholeMessages' /\ SubscriberInv' /\ BusInv'
      /\ \A n : AllBefore(n) /\ f.id < n => AllBefore(n)'
  <2>1. Latest(m) /\ \A n : f.id < n => NumberedBefore(m, n)
    BY <1>4, <1>5 DEF Latest, NumberedBefore
  <2> QED
    BY <1>1, <1>5, <1>6, <2>1, EntersBus
<1>8. f.id < published + 1 /\ AllBefore(published + 1)
  BY <1>3, <1>4 DEF OrderInv, PublisherInv
<1>9. AllBefore(published + 1)'
  BY <1>1, <1>7, <1>8
<1>10. \A q \in Threads : publisher'[q] = {}
  BY <1>1 DEF OrderInv, PublisherInv, TypeInv, TypeOK
<1> QED
  BY <1>7, <1>9, <1>10 DEF OrderInv, PublisherInv

LEMMA OrderOfBare ==
  ASSUME TypeInv, OrderInv, NEW t \in Topics, PublishBare(t)
  PROVE  OrderInv'
<1> DEFINE m == <<[kind |-> "topic", topic |-> t]>>
<1>1. /\ bus' = Append(bus, m)
      /\ published' = published + 1
      /\ UNCHANGED <<publisher, pub_mutex, unfinished, inbound, receiver,
                     message, called>>
  BY DEF PublishBare, receiverVars
<1>2. m \in Seq(Frame) /\ Whole(m) /\ Len(m) = 1
  BY DEF Whole, Frame, TopicFrame
<1> HIDE DEF m
<1>3. /\ HandledAsPublished' /\ WholeMessages' /\ SubscriberInv' /\ BusInv'
      /\ \A n : AllBefore(n) => AllBefore(n)'
  <2>1. Latest(m) /\ \A n : NumberedBefore(m, n)
    BY <1>2 DEF Latest, NumberedBefore
  <2> QED
    BY <1>1, <1>2, <2>1, EntersBus
<1>4. published \in Nat
  BY PubSubBounds DEF TypeInv, TypeOK
<1>5. AllBefore(published + 1 + 1)
  BY <1>4, AllBeforeNext DEF OrderInv, PublisherInv
<1>6. AllBefore(published + 1)'
  BY <1>1, <1>3, <1>5
<1>7. ASSUME NEW q \in Threads, NEW f \in publisher[q]
      PROVE  f.id <= published + 1
  <2>1. f.id \in Nat /\ f.id <= published
    BY PubSubBounds DEF OrderInv, PublisherInv, TypeInv, TypeOK, PayloadFrame
  <2> QED
    BY <1>4, <2>1
<1>8. PublisherInv'
  BY <1>1, <1>3, <1>6, <1>7 DEF OrderInv, PublisherInv
<1> QED
  BY <1>3, <1>8 DEF OrderInv

\* No message moves; the one being handled may be dropped.
LEMMA OrderStays ==
  ASSUME OrderInv,
         UNCHANGED <<publisherVars, bus, inbound, message, called>>,
         Handling' => Handling
  PROVE  OrderInv'
<1>1. \A n : AllBefore(n) => AllBefore(n)'
  BY DEF AllBefore
<1>2. PublisherInv'
  BY <1>1 DEF OrderInv, PublisherInv, publisherVars
<1>3. HandledAsPublished' /\ WholeMessages' /\ SubscriberInv' /\ BusInv'
  BY DEF OrderInv, HandledAsPublished, WholeMessages, SubscriberInv, BusInv,
         CalledBefore, HandlingBefore, Whole, Earlier
<1> QED
  BY <1>2, <1>3 DEF OrderInv

\* The proxy takes the first message of the bus, for the socket or for good.
LEMMA OrderOfProxy ==
  ASSUME TypeInv, OrderInv, Forward \/ Lose
  PROVE  OrderInv'
<1>1. /\ bus # <<>>
      /\ bus' = Tail(bus)
      /\ UNCHANGED <<publisher, pub_mutex, unfinished, published, receiver,
                     message, called>>
  BY DEF Forward, Lose, publisherVars, receiverVars
<1>2. bus \in Seq(Seq(Frame)) /\ inbound \in Seq(Seq(Frame))
  BY DEF TypeInv, TypeOK
<1>3. /\ 1 \in 1..Len(bus)
      /\ Head(bus) = bus[1]
      /\ \A k \in 1..Len(bus') :
           bus'[k] = bus[k + 1] /\ k + 1 \in 1..Len(bus) /\ 1 < k + 1
      /\ \A k, l \in 1..Len(bus') : k < l => k + 1 < l + 1
  BY <1>1, <1>2
<1>4. \A i \in 1..Len(inbound') :
        \/ i \in 1..Len(inbound) /\ inbound'[i] = inbound[i]
        \/ inbound'[i] = bus[1] /\ \A j \in 1..Len(inbound') : i < j => FALSE
  <2>1. CASE Forward
    <3>1. inbound' = Append(inbound, bus[1]) /\ bus[1] \in Seq(Frame)
      BY <1>2, <1>3, <2>1 DEF Forward
    <3> QED
      BY <1>2, <3>1
  <2>2. CASE Lose
    BY <2>2 DEF Lose
  <2> QED
    BY <2>1, <2>2
<1>5. \A n : AllBefore(n) => AllBefore(n)'
  BY <1>1, <1>3, <1>4 DEF AllBefore, Handling
<1>6. PublisherInv'
  BY <1>1, <1>5 DEF OrderInv, PublisherInv
<1>7. HandledAsPublished'
  BY <1>1 DEF OrderInv, HandledAsPublished
<1>8. WholeMessages'
  BY <1>1, <1>3, <1>4 DEF OrderInv, WholeMessages, Handling, Whole
<1>9. SubscriberInv'
  <2>1. Handling' => CalledBefore(message)'
    BY <1>1 DEF OrderInv, SubscriberInv, CalledBefore, Handling
  <2>2. \A i \in 1..Len(inbound') :
          CalledBefore(inbound'[i]) /\ HandlingBefore(inbound'[i])
    BY <1>3, <1>4 DEF OrderInv, SubscriberInv, BusInv
  <2>3. \A i \in 1..Len(inbound') :
          CalledBefore(inbound[i])' /\ HandlingBefore(inbound[i])'
    BY <1>1, <2>2 DEF CalledBefore, HandlingBefore, Handling, Earlier
  <2>4. \A i, j \in 1..Len(inbound') :
          i < j => Earlier(inbound'[i], inbound'[j])
    BY <1>3, <1>4 DEF OrderInv, SubscriberInv, BusInv
  <2> QED
    BY <2>1, <2>3, <2>4 DEF SubscriberInv, Earlier
<1>10. BusInv'
  <2>1. ASSUME NEW k \in 1..Len(bus')
        PROVE  /\ CalledBefore(bus'[k])
               /\ HandlingBefore(bus'[k])
               /\ \A i \in 1..Len(inbound') : Earlier(inbound'[i], bus'[k])
    BY <1>3, <1>4 DEF OrderInv, BusInv
  <2>2. \A k \in 1..Len(bus') :
          CalledBefore(bus[k])' /\ HandlingBefore(bus[k])'
    BY <1>1, <2>1 DEF CalledBefore, HandlingBefore, Handling, Earlier
  <2>3. \A k, l \in 1..Len(bus') : k < l => Earlier(bus'[k], bus'[l])
    BY <1>3 DEF OrderInv, BusInv
  <2> QED
    BY <2>1, <2>2, <2>3 DEF BusInv, Earlier
<1> QED
  BY <1>6, <1>7, <1>8, <1>9, <1>10 DEF OrderInv

\* The receive thread takes the first message of the socket.
LEMMA OrderOfReceive ==
  ASSUME TypeInv, OrderInv, Receive
  PROVE  OrderInv'
<1>1. /\ receiver = "recv"
      /\ inbound # <<>>
      /\ inbound' = Tail(inbound)
      /\ UNCHANGED <<publisher, pub_mutex, unfinished, published, bus, called>>
  BY DEF Receive, publisherVars
<1>2. /\ 1 \in 1..Len(inbound)
      /\ \A k \in 1..Len(inbound') :
           /\ inbound'[k] = inbound[k + 1]
           /\ k + 1 \in 1..Len(inbound)
           /\ 1 < k + 1
      /\ \A k, l \in 1..Len(inbound') : k < l => k + 1 < l + 1
  BY <1>1 DEF TypeInv, TypeOK
<1>3. Handling' => message' = inbound[1] /\ Len(inbound[1]) = 2
  <2>1. Handling' => message' = Head(inbound) /\ Len(Head(inbound)) > 1
    BY DEF Receive, Handling
  <2>2. Head(inbound) = inbound[1] /\ Whole(inbound[1])
    BY <1>1, <1>2 DEF OrderInv, WholeMessages, TypeInv, TypeOK
  <2> QED
    BY <2>1, <2>2 DEF Whole
<1>4. \A n : AllBefore(n) => AllBefore(n)'
  BY <1>1, <1>2, <1>3 DEF AllBefore
<1>5. PublisherInv'
  BY <1>1, <1>4 DEF OrderInv, PublisherInv
<1>6. HandledAsPublished'
  BY <1>1 DEF OrderInv, HandledAsPublished
<1>7. WholeMessages'
  BY <1>1, <1>2, <1>3 DEF OrderInv, WholeMessages, Whole
<1>8. SubscriberInv'
  BY <1>1, <1>2, <1>3 DEF OrderInv, SubscriberInv, CalledBefore,
                          HandlingBefore, Earlier
<1>9. BusInv'
  BY <1>1, <1>2, <1>3 DEF OrderInv, BusInv, CalledBefore, HandlingBefore,
                          Earlier
<1> QED
  BY <1>5, <1>6, <1>7, <1>8, <1>9 DEF OrderInv

\* The callback runs: what it gets is later than all that was called.
LEMMA OrderOfCall ==
  ASSUME TypeInv, OrderInv, CallHandler
  PROVE  OrderInv'
<1> DEFINE call == [topic |-> message[1].topic, frame |-> message[2]]
<1>1. /\ Handling
      /\ ~Handling'
      /\ called' = Append(called, call)
      /\ UNCHANGED <<publisher, pub_mutex, unfinished, published, bus, inbound>>
  BY DEF CallHandler, Handling, publisherVars
<1>2. /\ Len(message) = 2
      /\ call.frame = message[2]
      /\ call.frame.kind = "payload"
      /\ call.frame.topic = call.topic
  BY <1>1 DEF OrderInv, WholeMessages, Whole, TypeInv, MessageIsWhole, Handling
<1>3. called \in Seq([topic : Topics, frame : Frame])
  BY DEF TypeInv, TypeOK
<1> HIDE DEF call
<1>4. \A i \in 1..Len(called') :
        \/ i \in 1..Len(called) /\ called'[i] = called[i]
        \/ called'[i] = call /\ i = Len(called) + 1
  BY <1>1, <1>3
<1>5. \A i, j \in 1..Len(called') : i < j => i \in 1..Len(called)
  BY <1>1, <1>3
<1>6. \A i \in 1..Len(called) : called[i].frame.id < call.frame.id
  BY <1>1, <1>2 DEF OrderInv, SubscriberInv, CalledBefore
<1>7. HandledAsPublished'
  <2>1. \A i \in 1..Len(called') :
          /\ called'[i].frame.kind = "payload"
          /\ called'[i].frame.topic = called'[i].topic
    BY <1>2, <1>4 DEF OrderInv, HandledAsPublished
  <2>2. ASSUME NEW i \in 1..Len(called'), NEW j \in 1..Len(called'), i < j
        PROVE  called'[i].frame.id < called'[j].frame.id
    <3>1. i \in 1..Len(called) /\ called'[i] = called[i]
      BY <1>1, <1>3, <2>2
    <3>2. CASE j \in 1..Len(called)
      BY <1>1, <1>3, <2>2, <3>1, <3>2 DEF OrderInv, HandledAsPublished
    <3>3. CASE j \notin 1..Len(called)
      BY <1>4, <1>6, <3>1, <3>3
    <3> QED
      BY <3>2, <3>3
  <2> QED
    BY <2>1, <2>2 DEF HandledAsPublished
<1>8. \A n : AllBefore(n) => AllBefore(n)'
  BY <1>1, <1>2, <1>4 DEF AllBefore
<1>9. PublisherInv'
  BY <1>1, <1>8 DEF OrderInv, PublisherInv
<1>10. WholeMessages'
  BY <1>1 DEF OrderInv, WholeMessages, Whole
<1>11. \A m : CalledBefore(m) /\ HandlingBefore(m) =>
               \A i \in 1..Len(called') :
                 Len(m) = 2 => called'[i].frame.id < m[2].id
  BY <1>1, <1>2, <1>4 DEF CalledBefore, HandlingBefore, Earlier
<1>12. SubscriberInv'
  BY <1>1, <1>11 DEF OrderInv, SubscriberInv, CalledBefore, HandlingBefore,
                     Earlier
<1>13. BusInv'
  BY <1>1, <1>11 DEF OrderInv, BusInv, CalledBefore, HandlingBefore, Earlier
<1> QED
  BY <1>7, <1>9, <1>10, <1>12, <1>13 DEF OrderInv

LEMMA OrderStep ==
  ASSUME TypeInv, OrderInv, [Next]_vars
  PROVE  OrderInv'
<1>1. CASE UNCHANGED vars
  BY <1>1, OrderStays DEF vars, receiverVars, Handling
<1>2. CASE Publish
  BY <1>2, OrderOfTopic, OrderOfPayload DEF Publish
<1>3. ASSUME NEW t \in Topics, PublishBare(t)
      PROVE  OrderInv'
  BY <1>3, OrderOfBare
<1>4. CASE Forward \/ Lose
  BY <1>4, OrderOfProxy
<1>5. CASE Main
  <2>1. /\ UNCHANGED <<publisherVars, bus, inbound, message, called>>
        /\ receiver' = receiver \/ receiver' = "loop"
    BY <1>5 DEF Main, Connect, Subscribe, StoreHandler, AddTopic, Destroy,
                Joined, receiverVars
  <2> QED
    BY <2>1, OrderStays DEF Handling
<1>6. CASE ReceiveLoop \/ FindHandler
  BY <1>6, OrderStays DEF ReceiveLoop, FindHandler, Handling
<1>7. CASE Receive
  BY <1>7, OrderOfReceive
<1>8. CASE CallHandler
  BY <1>8, OrderOfCall
<1> QED
  BY <1>1, <1>2, <1>3, <1>4, <1>5, <1>6, <1>7, <1>8 DEF Next, Receiver

(***************************************************************************)
(* Whatever threads publish, callbacks get payloads of their own topic, in *)
(* the order of publication and none twice.                                *)
(***************************************************************************)
THEOREM InPublishedOrder == Spec => []HandledAsPublished
<1>1. Init => OrderInv
  <2> SUFFICES ASSUME Init PROVE OrderInv
    OBVIOUS
  <2>1. /\ called = <<>> /\ inbound = <<>> /\ bus = <<>>
        /\ ~Handling
        /\ \A p \in Threads : publisher[p] = {}
    BY DEF Init, Handling
  <2>2. \A n : AllBefore(n)
    BY <2>1 DEF AllBefore
  <2>3. PublisherInv
    BY <2>1, <2>2 DEF PublisherInv
  <2>4. HandledAsPublished /\ WholeMessages /\ SubscriberInv /\ BusInv
    BY <2>1 DEF HandledAsPublished, WholeMessages, SubscriberInv, BusInv
  <2> QED
    BY <2>3, <2>4 DEF OrderInv
<1>2. TypeInv /\ OrderInv /\ [Next]_vars => OrderInv'
  BY OrderStep
<1>3. OrderInv => HandledAsPublished
  BY DEF OrderInv
<1> QED
  BY <1>1, <1>2, <1>3, TypeInvariant, PTL DEF Spec
=============================================================================
