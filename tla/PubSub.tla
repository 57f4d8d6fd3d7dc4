------------------------------- MODULE PubSub -------------------------------
(***************************************************************************)
(* Publish and subscribe (src/message_bus/client.h,                        *)
(* src/message_bus/impl/client.cpp, src/message_bus/impl/bus.cpp): a       *)
(* publishing mbus::Client shared by several threads, the proxy of the     *)
(* bus, and a subscribing mbus::Client with the caller's thread and the    *)
(* receive thread.                                                         *)
(*                                                                         *)
(* A message is a sequence of frames, as ZeroMQ has it: Publish sends the  *)
(* topic with sndmore and then the payload.  A subscription is a prefix:   *)
(* Covers[t] is the set of topics whose messages the filter t lets in.     *)
(***************************************************************************)
EXTENDS Naturals, Sequences

CONSTANTS
    Topics,       \* topics published and subscribed to
    Covers,       \* Covers[t]: the topics that have t as a prefix
    Threads,      \* the threads that publish
    MayDestroy,   \* whether the subscribing client is destroyed
    MaxMessages   \* bound: messages published

ASSUME CoversAssumption ==
    /\ Covers \in [Topics -> SUBSET Topics]
    /\ \A t \in Topics : t \in Covers[t]
ASSUME PubSubBounds == MayDestroy \in BOOLEAN /\ MaxMessages \in Nat

TopicFrame == [kind : {"topic"}, topic : Topics]
PayloadFrame == [kind : {"payload"}, topic : Topics, id : 1..MaxMessages]
Frame == TopicFrame \cup PayloadFrame

VARIABLES
    publisher,  \* publisher[p]: the payload thread p has still to send, if any
    pub_mutex,  \* whether a thread owns pub_mutex_
    unfinished, \* the frames sent with sndmore on the PUB socket
    published,  \* the number of messages begun
    bus,        \* messages on their way through the proxy
    main,       \* where the caller's thread is
    topic,      \* the topics Subscribe is at work on, at most one
    topic_handlers,        \* the topics that have a callback
    topic_handlers_mutex,  \* whether a thread owns topic_handlers_mutex_
    filters,    \* the filters of the SUB socket
    inbound,    \* what the SUB socket has let in and nobody has read
    stop,       \* stop_
    receiver,   \* where the receive thread is
    message,    \* the message it has read and not handled
    called      \* the callbacks made: topic and second frame

publisherVars == <<publisher, pub_mutex, unfinished, published>>
mainVars == <<main, topic, filters, stop>>
receiverVars == <<receiver, message, called>>
vars == <<publisherVars, bus, mainVars, topic_handlers, topic_handlers_mutex,
          inbound, receiverVars>>

TypeOK ==
    /\ publisher \in [Threads -> SUBSET PayloadFrame]
    /\ pub_mutex \in BOOLEAN
    /\ unfinished \in Seq(Frame) /\ Len(unfinished) <= 1
    /\ published \in 0..MaxMessages
    /\ bus \in Seq(Seq(Frame))
    /\ main \in {"new", "connected", "storing", "filtering", "destroying",
                 "destroyed"}
    /\ topic \in SUBSET Topics
    /\ topic_handlers \in SUBSET Topics
    /\ topic_handlers_mutex \in BOOLEAN
    /\ filters \in SUBSET Topics
    /\ inbound \in Seq(Seq(Frame))
    /\ stop \in BOOLEAN
    /\ receiver \in {"off", "loop", "recv", "find", "call", "done", "aborted"}
    /\ message \in Seq(Frame)
    /\ called \in Seq([topic : Topics, frame : Frame])

Init ==
    /\ publisher = [p \in Threads |-> {}]
    /\ pub_mutex = FALSE
    /\ unfinished = <<>>
    /\ published = 0
    /\ bus = <<>>
    /\ main = "new"
    /\ topic = {}
    /\ topic_handlers = {}
    /\ topic_handlers_mutex = FALSE
    /\ filters = {}
    /\ inbound = <<>>
    /\ stop = FALSE
    /\ receiver = "off"
    /\ message = <<>>
    /\ called = <<>>

-----------------------------------------------------------------------------
(***************************************************************************)
(* The publishing client.                                                  *)
(***************************************************************************)

Payload(t, n) == [kind |-> "payload", topic |-> t, id |-> n]

\* Mutant: pub_mutex_ is not taken.
PublishTopicUnlocked(p, t) ==
    /\ publisher[p] = {}
    /\ published < MaxMessages
    /\ published' = published + 1
    /\ publisher' = [publisher EXCEPT ![p] = {Payload(t, published + 1)}]
    /\ unfinished' = Append(unfinished, [kind |-> "topic", topic |-> t])
    /\ UNCHANGED <<pub_mutex, bus, mainVars, topic_handlers,
                   topic_handlers_mutex, inbound, receiverVars>>

\* Publish takes pub_mutex_ and sends the topic with sndmore.
PublishTopic(p, t) ==
    /\ publisher[p] = {}
    /\ published < MaxMessages
    /\ ~pub_mutex
    /\ pub_mutex' = TRUE
    /\ published' = published + 1
    /\ publisher' = [publisher EXCEPT ![p] = {Payload(t, published + 1)}]
    /\ unfinished' = Append(unfinished, [kind |-> "topic", topic |-> t])
    /\ UNCHANGED <<bus, mainVars, topic_handlers, topic_handlers_mutex, inbound,
                   receiverVars>>

\* The payload completes the message, pub_mutex_ is free, Publish returns.
PublishPayload(p) ==
    \E frame \in publisher[p] :
      /\ publisher' = [publisher EXCEPT ![p] = {}]
      /\ pub_mutex' = FALSE
      /\ unfinished' = <<>>
      /\ bus' = Append(bus, Append(unfinished, frame))
      /\ UNCHANGED <<published, mainVars, topic_handlers, topic_handlers_mutex,
                     inbound, receiverVars>>

\* Another program publishes a topic and nothing else.
PublishBare(t) ==
    /\ published < MaxMessages
    /\ published' = published + 1
    /\ bus' = Append(bus, <<[kind |-> "topic", topic |-> t]>>)
    /\ UNCHANGED <<publisher, pub_mutex, unfinished, mainVars, topic_handlers,
                   topic_handlers_mutex, inbound, receiverVars>>

Publish == \E p \in Threads :
             PublishPayload(p) \/ \E t \in Topics : PublishTopic(p, t)

-----------------------------------------------------------------------------
(***************************************************************************)
(* The proxy, which keeps the order and may lose messages: a queue is      *)
(* full, or the subscription has not reached the publisher.                *)
(***************************************************************************)
LetIn(m) == /\ m[1].kind = "topic"
            /\ \E f \in filters : m[1].topic \in Covers[f]

Forward ==
    /\ bus # <<>>
    /\ LetIn(Head(bus))
    /\ bus' = Tail(bus)
    /\ inbound' = Append(inbound, Head(bus))
    /\ UNCHANGED <<publisherVars, mainVars, topic_handlers,
                   topic_handlers_mutex, receiverVars>>

Lose ==
    /\ bus # <<>>
    /\ bus' = Tail(bus)
    /\ UNCHANGED <<publisherVars, mainVars, topic_handlers,
                   topic_handlers_mutex, inbound, receiverVars>>

-----------------------------------------------------------------------------
(***************************************************************************)
(* The caller's thread of the subscribing client.                          *)
(***************************************************************************)

\* Both socket mutexes are held until the receive thread is created.
Connect ==
    /\ main = "new"
    /\ main' = "connected"
    /\ receiver' = "loop"
    /\ UNCHANGED <<publisherVars, bus, topic, filters, stop, topic_handlers,
                   topic_handlers_mutex, inbound, message, called>>

Subscribe(t) ==
    /\ main = "connected"
    /\ main' = "storing"
    /\ topic' = {t}
    /\ UNCHANGED <<publisherVars, bus, filters, stop, topic_handlers,
                   topic_handlers_mutex, inbound, receiverVars>>

\* Mutant: the filter comes first, the callback is stored later.
StoreHandlerLate ==
    /\ main = "storing"
    /\ main' = "filtering"
    /\ filters' = filters \cup topic
    /\ UNCHANGED <<publisherVars, bus, topic, stop, topic_handlers,
                   topic_handlers_mutex, inbound, receiverVars>>

\* Mutant: the mutex is never unlocked.
StoreHandlerKeepsLock ==
    /\ main = "storing"
    /\ ~topic_handlers_mutex
    /\ topic_handlers_mutex' = TRUE
    /\ main' = "filtering"
    /\ topic_handlers' = topic_handlers \cup topic
    /\ UNCHANGED <<publisherVars, bus, topic, filters, stop, inbound,
                   receiverVars>>

\* The callback is stored, over an older one, under topic_handlers_mutex_.
StoreHandler ==
    /\ main = "storing"
    /\ ~topic_handlers_mutex
    /\ main' = "filtering"
    /\ topic_handlers' = topic_handlers \cup topic
    /\ UNCHANGED <<publisherVars, bus, topic, filters, stop,
                   topic_handlers_mutex, inbound, receiverVars>>

\* Mutant: AddTopic takes sub_mutex_, which the receive thread holds.
AddTopicLocked ==
    /\ main = "filtering"
    /\ receiver # "recv"
    /\ main' = "connected"
    /\ filters' = filters \cup topic
    /\ topic' = {}
    /\ UNCHANGED <<publisherVars, bus, stop, topic_handlers,
                   topic_handlers_mutex, inbound, receiverVars>>

\* AddTopic sets the filter without sub_mutex_.
AddTopic ==
    /\ main = "filtering"
    /\ main' = "connected"
    /\ filters' = filters \cup topic
    /\ topic' = {}
    /\ UNCHANGED <<publisherVars, bus, stop, topic_handlers,
                   topic_handlers_mutex, inbound, receiverVars>>

\* Mutant: the thread is joined before it is told to stop.
DestroyWithoutStop ==
    /\ MayDestroy
    /\ main = "connected"
    /\ main' = "destroying"
    /\ UNCHANGED <<publisherVars, bus, topic, filters, stop, topic_handlers,
                   topic_handlers_mutex, inbound, receiverVars>>

\* The destructor sets stop_ and joins the receive thread.
Destroy ==
    /\ MayDestroy
    /\ main = "connected"
    /\ main' = "destroying"
    /\ stop' = TRUE
    /\ UNCHANGED <<publisherVars, bus, topic, filters, topic_handlers,
                   topic_handlers_mutex, inbound, receiverVars>>

Joined ==
    /\ main = "destroying"
    /\ receiver = "done"
    /\ main' = "destroyed"
    /\ UNCHANGED <<publisherVars, bus, topic, filters, stop, topic_handlers,
                   topic_handlers_mutex, inbound, receiverVars>>

-----------------------------------------------------------------------------
(***************************************************************************)
(* The receive thread: ReceiveLoop.                                        *)
(***************************************************************************)

\* while (!stop_), then sub_mutex_, which only Connect takes beside it.
ReceiveLoop ==
    /\ receiver = "loop"
    /\ receiver' = IF stop THEN "done" ELSE "recv"
    /\ UNCHANGED <<publisherVars, bus, mainVars, topic_handlers,
                   topic_handlers_mutex, inbound, message, called>>

\* recv blocks until there is a message; one frame alone is ignored.
Receive ==
    /\ receiver = "recv"
    /\ inbound # <<>>
    /\ inbound' = Tail(inbound)
    /\ \/ /\ Len(Head(inbound)) <= 1
          /\ receiver' = "loop"
          /\ UNCHANGED message
       \/ /\ Len(Head(inbound)) > 1
          /\ receiver' = "find"
          /\ message' = Head(inbound)
    /\ UNCHANGED <<publisherVars, bus, mainVars, topic_handlers,
                   topic_handlers_mutex, called>>

\* topic_handlers_mutex_ is locked; a topic without callback fails the assert.
FindHandler ==
    /\ receiver = "find"
    /\ ~topic_handlers_mutex
    /\ topic_handlers_mutex' = TRUE
    /\ receiver' = IF message[1].topic \in topic_handlers
                   THEN "call" ELSE "aborted"
    /\ UNCHANGED <<publisherVars, bus, mainVars, topic_handlers, inbound,
                   message, called>>

\* The callback returns, then topic_handlers_mutex_ is unlocked.
CallHandler ==
    /\ receiver = "call"
    /\ called' = Append(called, [topic |-> message[1].topic,
                                 frame |-> message[2]])
    /\ topic_handlers_mutex' = FALSE
    /\ message' = <<>>
    /\ receiver' = "loop"
    /\ UNCHANGED <<publisherVars, bus, mainVars, topic_handlers, inbound>>

Receiver == ReceiveLoop \/ Receive \/ FindHandler \/ CallHandler

Main == Connect \/ (\E t \in Topics : Subscribe(t)) \/ StoreHandler
          \/ AddTopic \/ Destroy \/ Joined

Next ==
    /\ receiver # "aborted"
    /\ \/ Publish
       \/ \E t \in Topics : PublishBare(t)
       \/ Forward \/ Lose \/ Main \/ Receiver

(***************************************************************************)
(* The threads of the subscriber run; nobody is obliged to publish, the    *)
(* proxy to deliver, or the caller to connect, subscribe or destroy.       *)
(***************************************************************************)
Fairness ==
    /\ WF_vars(receiver # "aborted" /\ Receiver)
    /\ WF_vars(receiver # "aborted" /\ (StoreHandler \/ AddTopic \/ Joined))

Spec == Init /\ [][Next]_vars
FairSpec == Spec /\ Fairness

-----------------------------------------------------------------------------
(***************************************************************************)
(* Correctness properties.                                                 *)
(***************************************************************************)

(***************************************************************************)
(* Every message the receive thread reads has a callback for its topic:    *)
(* the assert of client.cpp:147 and the promise of the comment at          *)
(* client.cpp:81, that the filter is set after the callback is stored.     *)
(***************************************************************************)
EveryTopicHasHandler == receiver # "aborted"

(***************************************************************************)
(* Callbacks get whole messages, in the order they were published: a       *)
(* callback of a topic gets a payload published to this topic, and no      *)
(* payload twice or after a later one, whichever threads publish.          *)
(***************************************************************************)
HandledAsPublished ==
    /\ \A i \in 1..Len(called) :
         called[i].frame.kind = "payload" /\ called[i].frame.topic = called[i].topic
    /\ \A i, j \in 1..Len(called) :
         i < j => called[i].frame.id < called[j].frame.id

(***************************************************************************)
(* Subscribe returns although the receive thread holds sub_mutex_ while it *)
(* waits for a message that may never come (client.cpp:107, 156).          *)
(***************************************************************************)
SubscribeReturns == main = "storing" ~> main = "connected" \/ receiver = "aborted"

(***************************************************************************)
(* A message that the SUB socket has let in is handled in the end, unless  *)
(* the client is being destroyed.                                          *)
(***************************************************************************)
Waiting(id) == \E i \in 1..Len(inbound) :
                 Len(inbound[i]) = 2 /\ inbound[i][2].id = id

EveryMessageHandled ==
    \A id \in 1..MaxMessages :
      Waiting(id) ~> \/ \E i \in 1..Len(called) : called[i].frame.id = id
                     \/ main \in {"destroying", "destroyed"}
                     \/ receiver = "aborted"

(***************************************************************************)
(* The destructor (client.cpp:32) returns when the receive thread is not   *)
(* blocked in recv, or a message is there to wake it.  Without a message   *)
(* it waits for ever.                                                      *)
(***************************************************************************)
DestructorReturns ==
    (main = "destroying" /\ (receiver = "recv" => inbound # <<>>))
      ~> main = "destroyed" \/ receiver = "aborted"
=============================================================================
