----------------------- MODULE RpcBrokerRouting_proofs -----------------------
(***************************************************************************)
(* The broker implements RequestRouting, keeps the order of each client's  *)
(* requests, and refuses only what nobody serves if no two workers offer   *)
(* the same service: proofs for any workers, clients, services and offers, *)
(* any heartbeat constants and any bounds.                                 *)
(*                                                                         *)
(* The first two follow from one fact about Run: a turn reads one message  *)
(* and then empties every queue, so the broker has at most one request in  *)
(* hand, the latest one it has read from its client.                       *)
(***************************************************************************)
EXTENDS RpcBroker_proofs, SequenceTheorems

-----------------------------------------------------------------------------
(***************************************************************************)
(* Where a request can be, as sets.                                        *)
(***************************************************************************)
Asking(r) == [head |-> "RPC_REQ", req |-> r]
Answered(r) == [head |-> "RPC_RES", req |-> r]
Refused(r) == [head |-> "RPC_NOTPROCESSED", req |-> r]

\* Sent, not read by the broker.
Unread == {r \in Request : InSeq(Asking(r), inbox[r.client])}

\* In a queue of the broker.
InHand ==
    {r \in Request : \/ InSeq(r, services[r.service].requests)
                     \/ InSeq(r, not_processed)}

\* Decided, in one way or the other.
Forwards ==
    {r \in Request : \E w \in Workers : InSeq(Forwarded(r), toWorker[w])}
Refusals ==
    {r \in Request : \E c \in Clients : InSeq(Refused(r), toClient[c])}

\* Answered, as far as the client can tell.
Replies ==
    {r \in Request : \E c \in Clients : InSeq(Answered(r), toClient[c])}

\* The number of requests of c the broker has read.
ReadOf(c) == sent[c] - Len(inbox[c])

(***************************************************************************)
(* The inductive invariant.                                                *)
(***************************************************************************)

\* A client's unread requests are the ones after those read, in order.
SentInOrder ==
    \A c \in Clients : \A i \in 1..Len(inbox[c]) :
      /\ inbox[c][i].req.client = c
      /\ inbox[c][i].req.serial = ReadOf(c) + i

NothingInHand ==
    /\ not_processed = <<>>
    /\ \A s \in Services : services[s].requests = <<>>

\* The only request in hand is r, in the queue of its service.
Queued(r) ==
    /\ pc # "poll"
    /\ not_processed = <<>>
    /\ \A s \in Services :
         services[s].requests = IF s = r.service THEN <<r>> ELSE <<>>

\* The only request in hand is r, which nobody serves.
Unserved(r) ==
    /\ pc = "dispatch"
    /\ not_processed = <<r>>
    /\ \A s \in Services : services[s].requests = <<>>

DecidedUpTo(c, n) ==
    \A r \in Forwards \cup Refusals : r.client = c => r.serial <= n

OneInHand ==
    \/ NothingInHand
    \/ \E r \in Request : /\ Queued(r) \/ Unserved(r)
                          /\ r.serial = ReadOf(r.client)
                          /\ DecidedUpTo(r.client, r.serial - 1)

DecidedWereRead == \A c \in Clients : DecidedUpTo(c, ReadOf(c))

DecidedOnce == Forwards \cap Refusals = {}

\* An answer is under way or has arrived, once.
AnsweredOnce ==
    /\ Answering \cup Replies \subseteq answered
    /\ \A v, w \in Workers :
         \A i \in 1..Len(inbox[v]), j \in 1..Len(inbox[w]) :
           (/\ inbox[v][i].head = "RPC_RES"
            /\ inbox[w][j].head = "RPC_RES"
            /\ inbox[v][i].req = inbox[w][j].req)
             => v = w /\ i = j

RoutingInv ==
    /\ TypeOK /\ QueuesDrained /\ VisitedDrained
    /\ SentInOrder /\ OneInHand /\ DecidedWereRead /\ DecidedOnce
    /\ AnsweredOnce

-----------------------------------------------------------------------------
(***************************************************************************)
(* Membership in a sequence.                                               *)
(***************************************************************************)
LEMMA InAppended ==
  ASSUME NEW S, NEW q \in Seq(S), NEW m \in S, NEW r
  PROVE  InSeq(r, Append(q, m)) <=> InSeq(r, q) \/ r = m
<1>1. /\ Len(Append(q, m)) = Len(q) + 1
      /\ \A i \in 1..Len(q) : Append(q, m)[i] = q[i]
      /\ Append(q, m)[Len(q) + 1] = m
      /\ Len(q) \in Nat
  BY AppendProperties
<1> DEFINE p == Append(q, m)
<1>2. /\ Len(p) = Len(q) + 1
      /\ \A i \in 1..Len(q) : p[i] = q[i]
      /\ p[Len(q) + 1] = m
  BY <1>1
<1> HIDE DEF p
<1>3. InSeq(r, p) <=> InSeq(r, q) \/ r = m
  <2>1. ASSUME InSeq(r, p)  PROVE InSeq(r, q) \/ r = m
    BY <1>1, <1>2, <2>1 DEF InSeq
  <2>2. ASSUME InSeq(r, q)  PROVE InSeq(r, p)
    BY <1>1, <1>2, <2>2 DEF InSeq
  <2>3. ASSUME r = m  PROVE InSeq(r, p)
    BY <1>1, <1>2, <2>3 DEF InSeq
  <2> QED
    BY <2>1, <2>2, <2>3
<1> QED
  BY <1>3 DEF p

LEMMA InHeadOrTail ==
  ASSUME NEW S, NEW q \in Seq(S), q # <<>>, NEW r
  PROVE  InSeq(r, q) <=> r = Head(q) \/ InSeq(r, Tail(q))
<1> DEFINE t == Tail(q)
<1>1. /\ Len(q) \in Nat /\ Len(q) > 0
      /\ Len(t) = Len(q) - 1
      /\ \A i \in 1..Len(t) : t[i] = q[i + 1]
      /\ Head(q) = q[1]
  BY HeadTailProperties, EmptySeq
<1> HIDE DEF t
<1>2. ASSUME InSeq(r, q)  PROVE r = Head(q) \/ InSeq(r, t)
  <2>1. PICK i \in 1..Len(q) : q[i] = r
    BY <1>2 DEF InSeq
  <2>2. CASE i = 1
    BY <1>1, <2>1, <2>2
  <2>3. CASE i # 1
    <3>1. i - 1 \in 1..Len(t) /\ t[i - 1] = q[i]
      BY <1>1, <2>3
    <3> QED
      BY <2>1, <3>1 DEF InSeq
  <2> QED
    BY <2>2, <2>3
<1>3. ASSUME r = Head(q) \/ InSeq(r, t)  PROVE InSeq(r, q)
  BY <1>1, <1>3 DEF InSeq
<1> QED
  BY <1>2, <1>3 DEF t

LEMMA InEmpty == \A r : ~InSeq(r, <<>>)
BY DEF InSeq

LEMMA InSingle == \A r, q : InSeq(r, <<q>>) <=> r = q
<1> SUFFICES ASSUME NEW r, NEW q  PROVE InSeq(r, <<q>>) <=> r = q
  OBVIOUS
<1>1. Len(<<q>>) = 1 /\ <<q>>[1] = q
  OBVIOUS
<1> QED
  BY <1>1 DEF InSeq

LEMMA ForwardsAfterSend ==
  ASSUME TypeOK, NEW w \in Workers, NEW m \in ToWorker,
         toWorker' = Send(toWorker, w, m)
  PROVE  Forwards' = {r \in Request : r \in Forwards \/ m = Forwarded(r)}
<1>1. \A r \in Request :
        (\E v \in Workers : InSeq(Forwarded(r), toWorker'[v]))
          <=> (\E v \in Workers : InSeq(Forwarded(r), toWorker[v]))
                \/ Forwarded(r) = m
  <2>1. \A v \in Workers : toWorker'[v] = IF v = w THEN Append(toWorker[v], m)
                                             ELSE toWorker[v]
    BY DEF TypeOK, Send
  <2>2. toWorker[w] \in Seq(ToWorker)
    BY DEF TypeOK
  <2>3. \A x : InSeq(x, Append(toWorker[w], m)) <=> InSeq(x, toWorker[w]) \/ x = m
    BY <2>2, InAppended
  <2> QED
    BY <2>1, <2>3, Zenon
<1>2. Forwards' = {r \in Request :
                     \E v \in Workers : InSeq(Forwarded(r), toWorker'[v])}
  BY DEF Forwards, Request, Forwarded, InSeq
<1> QED
  BY <1>1, <1>2, Zenon DEF Forwards

LEMMA RepliesAfterSend ==
  ASSUME TypeOK, NEW c \in Clients, NEW m \in ToClient,
         toClient' = Send(toClient, c, m)
  PROVE  /\ Refusals' = {r \in Request : r \in Refusals \/ m = Refused(r)}
         /\ Replies' = {r \in Request : r \in Replies \/ m = Answered(r)}
<1>1. \A x : (\E v \in Clients : InSeq(x, toClient'[v]))
               <=> (\E v \in Clients : InSeq(x, toClient[v])) \/ x = m
  <2>1. \A v \in Clients : toClient'[v] = IF v = c THEN Append(toClient[v], m)
                                             ELSE toClient[v]
    BY DEF TypeOK, Send
  <2>2. toClient[c] \in Seq(ToClient)
    BY DEF TypeOK
  <2>3. \A x : InSeq(x, Append(toClient[c], m)) <=> InSeq(x, toClient[c]) \/ x = m
    BY <2>2, InAppended
  <2> QED
    BY <2>1, <2>3, Zenon
<1>2. /\ Refusals' = {r \in Request :
                        \E v \in Clients : InSeq(Refused(r), toClient'[v])}
      /\ Replies' = {r \in Request :
                        \E v \in Clients : InSeq(Answered(r), toClient'[v])}
  BY DEF Refusals, Replies, Request, Refused, Answered, InSeq
<1>3. Refusals' = {r \in Request : r \in Refusals \/ m = Refused(r)}
  BY <1>1, <1>2, Zenon DEF Refusals
<1>4. Replies' = {r \in Request : r \in Replies \/ m = Answered(r)}
  BY <1>1, <1>2, Zenon DEF Replies
<1> QED
  BY <1>3, <1>4

\* The messages differ by their heads, and by the request they carry.
LEMMA Messages ==
  ASSUME NEW r, NEW q
  PROVE  /\ Success # Forwarded(r)
         /\ Answered(q) # Refused(r)
         /\ Answered(q) # Asking(r)
         /\ Forwarded(r) = Asking(r)
         /\ Forwarded(q) = Forwarded(r) => q = r
         /\ Refused(q) = Refused(r) => q = r
         /\ Answered(q) = Answered(r) => q = r
<1>1. /\ Success.head = "RPC_SUCCESS"
      /\ Forwarded(r).head = "RPC_REQ"
      /\ Refused(r).head = "RPC_NOTPROCESSED"
      /\ Answered(q).head = "RPC_RES"
      /\ Asking(r).head = "RPC_REQ"
  BY DEF Success, Forwarded, Refused, Answered, Asking
<1>2. /\ Forwarded(q).req = q /\ Forwarded(r).req = r
      /\ Refused(q).req = q /\ Refused(r).req = r
      /\ Answered(q).req = q /\ Answered(r).req = r
  BY DEF Forwarded, Refused, Answered
<1> QED
  BY <1>1, <1>2 DEF Forwarded, Asking

LEMMA AfterSuccess ==
  ASSUME TypeOK, NEW w \in Workers, toWorker' = Send(toWorker, w, Success)
  PROVE  Forwards' = Forwards
<1>1. Success \in ToWorker
  BY DEF Success, ToWorker
<1> QED
  BY <1>1, ForwardsAfterSend, Messages DEF Forwards

LEMMA AfterForward ==
  ASSUME TypeOK, NEW w \in Workers, NEW r \in Request,
         toWorker' = Send(toWorker, w, Forwarded(r))
  PROVE  Forwards' = Forwards \cup {r}
<1>1. Forwarded(r) \in ToWorker
  BY DEF Forwarded, ToWorker
<1>2. Forwards' = {q \in Request : q \in Forwards \/ Forwarded(r) = Forwarded(q)}
  BY <1>1, ForwardsAfterSend
<1>3. \A q : Forwarded(r) = Forwarded(q) <=> q = r
  BY Messages
<1> QED
  BY <1>2, <1>3 DEF Forwards

LEMMA AfterRefusal ==
  ASSUME TypeOK, NEW c \in Clients, NEW r \in Request,
         toClient' = Send(toClient, c, Refused(r))
  PROVE  Refusals' = Refusals \cup {r} /\ Replies' = Replies
<1>1. Refused(r) \in ToClient
  BY DEF Refused, ToClient
<1>2. /\ Refusals' = {q \in Request : q \in Refusals \/ Refused(r) = Refused(q)}
      /\ Replies' = {q \in Request : q \in Replies \/ Refused(r) = Answered(q)}
  BY <1>1, RepliesAfterSend
<1>3. \A q : (Refused(r) = Refused(q) <=> q = r) /\ Refused(r) # Answered(q)
  BY Messages
<1> QED
  BY <1>2, <1>3 DEF Refusals, Replies

LEMMA AfterReply ==
  ASSUME TypeOK, NEW c \in Clients, NEW r \in Request,
         toClient' = Send(toClient, c, Answered(r))
  PROVE  Refusals' = Refusals /\ Replies' = Replies \cup {r}
<1>1. Answered(r) \in ToClient
  BY DEF Answered, ToClient
<1>2. /\ Refusals' = {q \in Request : q \in Refusals \/ Answered(r) = Refused(q)}
      /\ Replies' = {q \in Request : q \in Replies \/ Answered(r) = Answered(q)}
  BY <1>1, RepliesAfterSend
<1>3. \A q : (Answered(r) = Answered(q) <=> q = r) /\ Answered(r) # Refused(q)
  BY Messages
<1> QED
  BY <1>2, <1>3 DEF Refusals, Replies

-----------------------------------------------------------------------------
(***************************************************************************)
(* What the clients have sent, and what is in hand.                        *)
(***************************************************************************)
LEMMA PendingIsUnreadOrInHand == Pending = Unread \cup InHand
BY DEF Pending, Unread, InHand, Asking

LEMMA ContentOfHand ==
  /\ NothingInHand => InHand = {}
  /\ \A q \in Request : Queued(q) \/ Unserved(q) => InHand = {q}
<1>0. \A q \in Request : q.service \in Services
  BY DEF Request
<1>1. ASSUME NothingInHand  PROVE InHand = {}
  BY <1>0, <1>1, InEmpty DEF NothingInHand, InHand
<1>2. ASSUME NEW r \in Request, Queued(r)  PROVE InHand = {r}
  <2>1. \A q \in Request : InSeq(q, services[q.service].requests) <=> q = r
    <3>1. \A q \in Request : services[q.service].requests =
                               IF q.service = r.service THEN <<r>> ELSE <<>>
      BY <1>0, <1>2, Zenon DEF Queued
    <3> QED
      BY <3>1, InEmpty, InSingle
  <2>2. \A q : ~InSeq(q, not_processed)
    BY <1>2, InEmpty DEF Queued
  <2> QED
    BY <2>1, <2>2 DEF InHand
<1>3. ASSUME NEW r \in Request, Unserved(r)  PROVE InHand = {r}
  <2>1. \A q \in Request : ~InSeq(q, services[q.service].requests)
    BY <1>0, <1>3, InEmpty DEF Unserved
  <2>2. \A q : InSeq(q, not_processed) <=> q = r
    BY <1>3, InSingle DEF Unserved
  <2> QED
    BY <2>1, <2>2 DEF InHand
<1> QED
  BY <1>1, <1>2, <1>3

\* A worker's messages leave what the clients have sent alone.
LEMMA WorkerInboxOnly ==
  ASSUME TypeOK, NEW w \in Workers, NEW q, inbox' = [inbox EXCEPT ![w] = q]
  PROVE  /\ \A c \in Clients : inbox'[c] = inbox[c]
         /\ inbox'[w] = q
         /\ \A v \in Workers \ {w} : inbox'[v] = inbox[v]
BY PeersAssumption DEF TypeOK, Peers

\* A request that is unread comes after those that are read.
LEMMA UnreadIsLater ==
  ASSUME TypeOK, SentInOrder, NEW r \in Unread
  PROVE  r.serial > ReadOf(r.client)
<1>1. /\ r \in Request
      /\ InSeq(Asking(r), inbox[r.client])
  BY DEF Unread
<1>2. PICK i \in 1..Len(inbox[r.client]) : inbox[r.client][i] = Asking(r)
  BY <1>1, Zenon DEF InSeq
<1>3. Asking(r).req = r /\ r.client \in Clients
  BY <1>1 DEF Asking, Request
<1>4. r.serial = ReadOf(r.client) + i
  BY <1>2, <1>3 DEF SentInOrder
<1>5. /\ sent[r.client] \in Int
      /\ inbox[r.client] \in Seq(FromClient)
  BY <1>3 DEF TypeOK
<1>6. ReadOf(r.client) \in Int
  BY <1>5 DEF ReadOf
<1> QED
  BY <1>4, <1>6

LEMMA ReadIsInteger ==
  ASSUME TypeOK, NEW c \in Clients
  PROVE  ReadOf(c) \in Int
<1>1. sent[c] \in Int /\ inbox[c] \in Seq(FromClient)
  BY DEF TypeOK
<1> QED
  BY <1>1 DEF ReadOf

\* While no client sends and none is read, the clients' side stays as it is.
LEMMA ClientsKept ==
  ASSUME UNCHANGED sent, \A c \in Clients : inbox'[c] = inbox[c]
  PROVE  /\ \A c \in Clients : ReadOf(c)' = ReadOf(c)
         /\ Unread' = Unread
         /\ SentInOrder => SentInOrder'
<1>1. \A c \in Clients : ReadOf(c)' = ReadOf(c)
  BY DEF ReadOf
<1>2. \A r \in Request : inbox'[r.client] = inbox[r.client]
  BY DEF Request
<1>3. Unread' = Unread
  BY <1>2 DEF Unread, Request, Asking, InSeq
<1> QED
  BY <1>1, <1>3 DEF SentInOrder

(***************************************************************************)
(* A step that neither reads nor decides a request, and one that sends     *)
(* none either.                                                            *)
(***************************************************************************)
HandKept ==
    /\ NothingInHand => NothingInHand'
    /\ \A r \in Request : Queued(r) \/ Unserved(r) => Queued(r)' \/ Unserved(r)'

LEMMA HandStep ==
  ASSUME RoutingInv, HandKept, UNCHANGED <<Forwards, Refusals>>,
         \A c \in Clients : ReadOf(c)' = ReadOf(c)
  PROVE  OneInHand' /\ DecidedWereRead' /\ DecidedOnce' /\ InHand' = InHand
<1>1. DecidedWereRead' /\ DecidedOnce'
  BY DEF RoutingInv, DecidedWereRead, DecidedOnce, DecidedUpTo
<1>2. /\ NothingInHand' => InHand' = {}
      /\ \A r \in Request : Queued(r)' \/ Unserved(r)' => InHand' = {r}
  <2>1. (/\ NothingInHand => InHand = {}
         /\ \A q \in Request : Queued(q) \/ Unserved(q) => InHand = {q})'
    BY ContentOfHand, PTL
  <2> QED
    BY <2>1 DEF Request
<1>3. CASE NothingInHand
  BY <1>1, <1>2, <1>3, ContentOfHand DEF HandKept, OneInHand
<1>4. ASSUME NEW r \in Request, Queued(r) \/ Unserved(r),
             r.serial = ReadOf(r.client), DecidedUpTo(r.client, r.serial - 1)
      PROVE  OneInHand' /\ InHand' = InHand
  <2>1. r.client \in Clients
    BY DEF Request
  <2>2. r.serial = ReadOf(r.client)' /\ DecidedUpTo(r.client, r.serial - 1)'
    BY <1>4, <2>1 DEF DecidedUpTo
  <2>3. Queued(r)' \/ Unserved(r)'
    BY <1>4 DEF HandKept
  <2>4. InHand = {r} /\ InHand' = {r}
    BY <1>2, <1>4, <2>3, ContentOfHand
  <2> QED
    BY <2>2, <2>3, <2>4 DEF OneInHand, Request
<1> QED
  BY <1>1, <1>3, <1>4 DEF RoutingInv, OneInHand

LEMMA QuietStep ==
  ASSUME RoutingInv, HandKept, UNCHANGED <<sent, Forwards, Refusals>>,
         \A c \in Clients : inbox'[c] = inbox[c]
  PROVE  /\ SentInOrder' /\ OneInHand' /\ DecidedWereRead' /\ DecidedOnce'
         /\ Pending' = Pending
<1>1. /\ \A c \in Clients : ReadOf(c)' = ReadOf(c)
      /\ Unread' = Unread
      /\ SentInOrder'
  BY ClientsKept DEF RoutingInv
<1>2. OneInHand' /\ DecidedWereRead' /\ DecidedOnce' /\ InHand' = InHand
  BY <1>1, HandStep
<1>3. (Pending = Unread \cup InHand)'
  BY PendingIsUnreadOrInHand, PTL
<1> QED
  BY <1>1, <1>2, <1>3, PendingIsUnreadOrInHand

(***************************************************************************)
(* A step that decides the request in hand.                                *)
(***************************************************************************)
LEMMA DecidingStep ==
  ASSUME RoutingInv, UNCHANGED sent, \A c \in Clients : inbox'[c] = inbox[c],
         NEW r \in Request, Queued(r) \/ Unserved(r), NothingInHand',
         r.serial = ReadOf(r.client), DecidedUpTo(r.client, r.serial - 1),
         \/ Forwards' = Forwards \cup {r} /\ Refusals' = Refusals
         \/ Refusals' = Refusals \cup {r} /\ Forwards' = Forwards
  PROVE  /\ SentInOrder' /\ OneInHand' /\ DecidedWereRead' /\ DecidedOnce'
         /\ r \in Pending /\ Pending' = Pending \ {r}
<1>0. (/\ NothingInHand => InHand = {}
       /\ \A q \in Request : Queued(q) \/ Unserved(q) => InHand = {q})'
  BY ContentOfHand, PTL
<1>1. /\ \A c \in Clients : ReadOf(c)' = ReadOf(c)
      /\ Unread' = Unread
      /\ SentInOrder'
  BY ClientsKept DEF RoutingInv
<1>2. r.client \in Clients /\ r.serial \in Int
  BY DEF Request
<1>3. r \notin Forwards \cup Refusals
  BY <1>2 DEF DecidedUpTo
<1>4. DecidedOnce'
  BY <1>3 DEF RoutingInv, DecidedOnce
<1>5. DecidedWereRead'
  <2> SUFFICES ASSUME NEW c \in Clients, NEW q \in Forwards' \cup Refusals',
                      q.client = c
               PROVE  q.serial <= ReadOf(c)'
    BY DEF DecidedWereRead, DecidedUpTo
  <2>1. CASE q = r
    BY <1>1, <1>2, <2>1
  <2>2. CASE q # r
    BY <1>1, <2>2 DEF RoutingInv, DecidedWereRead, DecidedUpTo
  <2> QED
    BY <2>1, <2>2
<1>6. r \notin Unread
  BY <1>2, UnreadIsLater DEF RoutingInv
<1>7. Pending = Unread \cup {r}
  BY ContentOfHand, PendingIsUnreadOrInHand
<1>8. Pending' = Unread'
  <2>1. (Pending = Unread \cup InHand)'
    BY PendingIsUnreadOrInHand, PTL
  <2> QED
    BY <1>0, <2>1
<1> QED
  BY <1>1, <1>4, <1>5, <1>6, <1>7, <1>8 DEF OneInHand

-----------------------------------------------------------------------------
(***************************************************************************)
(* What the workers have sent, and the answers among it.                   *)
(***************************************************************************)

\* No worker's inbox is touched, and no answer comes in.
LEMMA AnswersKept ==
  ASSUME AnsweredOnce, UNCHANGED <<answered, Replies>>,
         \A w \in Workers : inbox'[w] = inbox[w]
  PROVE  AnsweredOnce' /\ Answering' = Answering
<1>1. Answering' = Answering
  BY DEF Answering, Request, Answered, InSeq
<1> QED
  BY <1>1 DEF AnsweredOnce

LEMMA AnswersAfterPost ==
  ASSUME TypeOK, AnsweredOnce, NEW w \in Workers, NEW m \in FromWorker,
         Post(w, m), UNCHANGED Replies,
         \/ m.head # "RPC_RES" /\ answered' = answered
         \/ \E r \in Request : /\ m = Answered(r)
                             /\ r \notin answered
                             /\ answered' = answered \cup {r}
  PROVE  /\ AnsweredOnce'
         /\ Answering' = Answering \cup {r \in Request : m = Answered(r)}
<1> DEFINE q == inbox[w]
           p == Append(q, m)
<1>1. q \in Seq(FromWorker)
  BY DEF TypeOK
<1>2. /\ Len(q) \in Nat
      /\ Len(p) = Len(q) + 1
      /\ \A i \in 1..Len(q) : p[i] = q[i]
      /\ p[Len(q) + 1] = m
  BY <1>1, AppendProperties
<1>3. inbox'[w] = p /\ \A v \in Workers \ {w} : inbox'[v] = inbox[v]
  BY WorkerInboxOnly DEF Post
<1>4. \A x : InSeq(x, p) <=> InSeq(x, q) \/ x = m
  BY <1>1, InAppended
<1> HIDE DEF p
<1>5. Answering' = Answering \cup {r \in Request : m = Answered(r)}
  <2>1. \A x : (\E v \in Workers : InSeq(x, inbox'[v]))
                 <=> (\E v \in Workers : InSeq(x, inbox[v])) \/ x = m
    BY <1>3, <1>4, Zenon
  <2>2. /\ Answering = {r \in Request :
                          \E v \in Workers : InSeq(Answered(r), inbox[v])}
        /\ Answering' = {r \in Request :
                           \E v \in Workers : InSeq(Answered(r), inbox'[v])}
    BY DEF Answering, Answered, Request, InSeq
  <2> HIDE DEF q
  <2> QED
    BY <2>1, <2>2
<1>6. \A v \in Workers : \A i \in 1..Len(inbox[v]) :
        inbox[v][i].head = "RPC_RES" => inbox[v][i].req \in answered
  <2> SUFFICES ASSUME NEW v \in Workers, NEW i \in 1..Len(inbox[v]),
                      inbox[v][i].head = "RPC_RES"
               PROVE  inbox[v][i].req \in answered
    OBVIOUS
  <2>1. inbox[v][i] \in FromWorker
    BY DEF TypeOK
  <2>2. /\ inbox[v][i].req \in Request
        /\ inbox[v][i] = Answered(inbox[v][i].req)
    BY <2>1 DEF FromWorker, Answered
  <2>3. inbox[v][i].req \in Answering
    BY <2>2 DEF Answering, InSeq, Answered
  <2> QED
    BY <2>3 DEF AnsweredOnce
<1>7. Answering' \cup Replies' \subseteq answered'
  <2>1. answered \subseteq answered' /\ Replies' \subseteq answered
    BY DEF AnsweredOnce
  <2>2. ASSUME NEW r \in Request, m = Answered(r)  PROVE r \in answered'
    BY <2>2, Messages DEF Answered
  <2>3. Answering \subseteq answered
    BY DEF AnsweredOnce
  <2> QED
    BY <1>5, <2>1, <2>2, <2>3
<1>8. ASSUME NEW v \in Workers, NEW u \in Workers,
             NEW i \in 1..Len(inbox'[v]), NEW j \in 1..Len(inbox'[u]),
             inbox'[v][i].head = "RPC_RES", inbox'[u][j].head = "RPC_RES",
             inbox'[v][i].req = inbox'[u][j].req
      PROVE  v = u /\ i = j
  <2>1. \A x \in Workers : \A k \in 1..Len(inbox'[x]) :
          \/ k \in 1..Len(inbox[x]) /\ inbox'[x][k] = inbox[x][k]
          \/ x = w /\ k = Len(q) + 1 /\ inbox'[x][k] = m
    BY <1>2, <1>3
  <2>2. m.head = "RPC_RES" => m.req \notin answered
    BY DEF Answered
  <2>3. CASE /\ i \in 1..Len(inbox[v]) /\ inbox'[v][i] = inbox[v][i]
             /\ j \in 1..Len(inbox[u]) /\ inbox'[u][j] = inbox[u][j]
    BY <1>8, <2>3 DEF AnsweredOnce
  <2>4. ASSUME m.head = "RPC_RES",
               NEW x \in Workers, NEW k \in 1..Len(inbox'[x]),
               inbox'[x][k].head = "RPC_RES", inbox'[x][k].req = m.req
        PROVE  x = w /\ k = Len(q) + 1
    <3>1. ~(k \in 1..Len(inbox[x]) /\ inbox'[x][k] = inbox[x][k])
      BY <1>6, <2>2, <2>4
    <3> QED
      BY <2>1, <3>1
  <2>5. CASE inbox'[v][i] = m
    <3>1. v = w /\ i = Len(q) + 1
      BY <1>8, <2>4, <2>5
    <3>2. u = w /\ j = Len(q) + 1
      BY <1>8, <2>4, <2>5
    <3> QED
      BY <3>1, <3>2
  <2>6. CASE inbox'[u][j] = m
    <3>1. v = w /\ i = Len(q) + 1
      BY <1>8, <2>4, <2>6
    <3>2. u = w /\ j = Len(q) + 1
      BY <1>8, <2>4, <2>6
    <3> QED
      BY <3>1, <3>2
  <2>7. \/ /\ i \in 1..Len(inbox[v]) /\ inbox'[v][i] = inbox[v][i]
           /\ j \in 1..Len(inbox[u]) /\ inbox'[u][j] = inbox[u][j]
        \/ inbox'[v][i] = m
        \/ inbox'[u][j] = m
    BY <2>1
  <2> QED
    BY <2>3, <2>5, <2>6, <2>7
<1> QED
  BY <1>5, <1>7, <1>8 DEF AnsweredOnce

LEMMA AnswersAfterRead ==
  ASSUME TypeOK, AnsweredOnce, NEW w \in Workers, inbox[w] # <<>>,
         inbox' = [inbox EXCEPT ![w] = Tail(@)], UNCHANGED answered,
         \/ Head(inbox[w]).head # "RPC_RES" /\ Replies' = Replies
         \/ \E r \in Request : /\ Head(inbox[w]) = Answered(r)
                             /\ Replies' = Replies \cup {r}
  PROVE  /\ AnsweredOnce'
         /\ Answering' = Answering
                           \ {r \in Request : Head(inbox[w]) = Answered(r)}
<1> DEFINE q == inbox[w]
           t == Tail(q)
           m == Head(q)
<1>1. q \in Seq(FromWorker)
  BY DEF TypeOK
<1>2. /\ Len(q) \in Nat /\ Len(q) > 0
      /\ Len(t) = Len(q) - 1
      /\ \A i \in 1..Len(t) : t[i] = q[i + 1]
      /\ m = q[1]
  BY <1>1, HeadTailProperties, EmptySeq
<1>3. inbox'[w] = t /\ \A v \in Workers \ {w} : inbox'[v] = inbox[v]
  BY WorkerInboxOnly
<1>4. \A x : InSeq(x, q) <=> x = m \/ InSeq(x, t)
  BY <1>1, InHeadOrTail
<1> HIDE DEF t, m
<1>5. \A r \in Request : m = Answered(r) =>
        \A v \in Workers : ~InSeq(Answered(r), inbox'[v])
  <2> SUFFICES ASSUME NEW r \in Request, m = Answered(r),
                      NEW v \in Workers, NEW i \in 1..Len(inbox'[v]),
                      inbox'[v][i] = Answered(r)
               PROVE  FALSE
    BY DEF InSeq
  <2> DEFINE k == IF v = w THEN i + 1 ELSE i
  <2>1. k \in 1..Len(inbox[v]) /\ inbox[v][k] = Answered(r)
    BY <1>2, <1>3
  <2>2. 1 \in 1..Len(inbox[w]) /\ inbox[w][1] = Answered(r)
    BY <1>2
  <2>3. v = w => k # 1
    BY <1>2, <1>3
  <2> HIDE DEF k
  <2> QED
    BY <2>1, <2>2, <2>3 DEF AnsweredOnce, Answered
<1>6. Answering' = Answering \ {r \in Request : m = Answered(r)}
  <2>1. ASSUME NEW r \in Request
        PROVE  (\E v \in Workers : InSeq(Answered(r), inbox'[v]))
                 <=> /\ \E v \in Workers : InSeq(Answered(r), inbox[v])
                     /\ m # Answered(r)
    BY <1>3, <1>4, <1>5, Zenon
  <2>2. /\ Answering = {r \in Request :
                          \E v \in Workers : InSeq(Answered(r), inbox[v])}
        /\ Answering' = {r \in Request :
                           \E v \in Workers : InSeq(Answered(r), inbox'[v])}
    BY DEF Answering, Answered, Request, InSeq
  <2> HIDE DEF q
  <2> QED
    BY <2>1, <2>2
<1>7. \A r \in Request : m = Answered(r) => r \in Answering
  <2>1. InSeq(m, q)
    BY <1>4
  <2> QED
    BY <2>1 DEF Answering, Answered
<1>8. Answering' \cup Replies' \subseteq answered'
  BY <1>6, <1>7 DEF AnsweredOnce, m
<1>9. ASSUME NEW v \in Workers, NEW u \in Workers,
             NEW i \in 1..Len(inbox'[v]), NEW j \in 1..Len(inbox'[u]),
             inbox'[v][i].head = "RPC_RES", inbox'[u][j].head = "RPC_RES",
             inbox'[v][i].req = inbox'[u][j].req
      PROVE  v = u /\ i = j
  <2> DEFINE before(x, k) == IF x = w THEN k + 1 ELSE k
  <2>1. \A x \in Workers : \A k \in 1..Len(inbox'[x]) :
          /\ before(x, k) \in 1..Len(inbox[x])
          /\ inbox[x][before(x, k)] = inbox'[x][k]
    BY <1>2, <1>3
  <2>2. v = u => (before(v, i) = before(u, j) => i = j)
    OBVIOUS
  <2> HIDE DEF before
  <2>3. /\ before(v, i) \in 1..Len(inbox[v])
        /\ before(u, j) \in 1..Len(inbox[u])
        /\ inbox[v][before(v, i)].head = "RPC_RES"
        /\ inbox[u][before(u, j)].head = "RPC_RES"
        /\ inbox[v][before(v, i)].req = inbox[u][before(u, j)].req
    BY <1>9, <2>1
  <2>4. v = u /\ before(v, i) = before(u, j)
    BY <2>3 DEF AnsweredOnce
  <2> QED
    BY <2>2, <2>4
<1> QED
  BY <1>6, <1>8, <1>9 DEF AnsweredOnce, m

-----------------------------------------------------------------------------
(***************************************************************************)
(* The steps, one lemma per action: what each preserves, and which step of *)
(* RequestRouting it is.                                                   *)
(***************************************************************************)
Preserved ==
    SentInOrder' /\ OneInHand' /\ DecidedWereRead' /\ DecidedOnce' /\ AnsweredOnce'
Implements == [Routing!Next]_(Routing!vars)

\* The broker reads its socket with nothing in hand.
LEMMA PollsEmptyHanded ==
  ASSUME RoutingInv, pc = "poll"
  PROVE  NothingInHand /\ (NothingInHand' => HandKept)
<1>1. NothingInHand
  BY DEF RoutingInv, QueuesDrained, NothingInHand
<1>2. \A r : ~Queued(r) /\ ~Unserved(r)
  BY DEF Queued, Unserved
<1> QED
  BY <1>1, <1>2 DEF HandKept

LEMMA WorkerMessageRoutes ==
  ASSUME RoutingInv, NEW w \in Workers, Receive(w),
         HandleWorkerMessage(w, Head(inbox[w]))
  PROVE  Preserved /\ Implements
<1> DEFINE m == Head(inbox[w])
<1>1. TypeOK
  BY DEF RoutingInv
<1>2. /\ pc = "poll"
      /\ inbox[w] # <<>>
      /\ inbox' = [inbox EXCEPT ![w] = Tail(@)]
      /\ UNCHANGED <<sent, answered>>
  BY DEF Receive, peerVars
<1>3. m \in FromWorker
  BY <1>1, <1>2, InboxTail DEF Peers
<1>4. \A c \in Clients : inbox'[c] = inbox[c]
  BY <1>1, <1>2, WorkerInboxOnly
<1>5. NothingInHand'
  <2>1. \A s \in Services : services[s].requests = <<>> /\ services[s] \in ServiceRecord
    BY <1>1, <1>2, PollsEmptyHanded DEF NothingInHand, TypeOK
  <2>2. \A s \in Services : services'[s].requests = <<>>
    BY <2>1 DEF HandleWorkerMessage, HandleReg, HandleRes, HandleHeartbeat,
                HandleUnconnect, NoService, ServiceRecord
  <2>3. not_processed' = <<>>
    BY <1>2, PollsEmptyHanded DEF NothingInHand, HandleWorkerMessage
  <2> QED
    BY <2>2, <2>3 DEF NothingInHand
<1>6. HandKept
  BY <1>2, <1>5, PollsEmptyHanded
<1> HIDE DEF m
<1>7. CASE HandleReg(w, m) \/ HandleUnconnect(w, m)
  <2>1. /\ toWorker' = Send(toWorker, w, Success)
        /\ UNCHANGED toClient
        /\ m.head # "RPC_RES"
    BY <1>7 DEF HandleReg, HandleUnconnect
  <2>2. UNCHANGED <<Forwards, Refusals, Replies>>
    BY <1>1, <2>1, AfterSuccess DEF Refusals, Replies
  <2>3. \A r : m # Answered(r)
    BY <2>1 DEF Answered
  <2>4. AnsweredOnce' /\ Answering' = Answering
    <3>1. AnsweredOnce
      BY DEF RoutingInv
    <3>2. /\ AnsweredOnce'
          /\ Answering' = Answering \ {r \in Request : m = Answered(r)}
      BY <1>1, <1>2, <2>1, <2>2, <3>1, AnswersAfterRead DEF m
    <3> QED
      BY <2>3, <3>2
  <2>5. /\ SentInOrder' /\ OneInHand' /\ DecidedWereRead' /\ DecidedOnce'
        /\ Pending' = Pending
    BY <1>2, <1>4, <1>6, <2>2, QuietStep
  <2>6. Routing!Acknowledge(w)
    BY <1>2, <2>1, <2>4, <2>5 DEF Routing!Acknowledge, Send, Success
  <2> QED
    BY <2>4, <2>5, <2>6 DEF Preserved, Implements, Routing!Next
<1>8. CASE HandleHeartbeat(w, m)
  <2>1. UNCHANGED <<toWorker, toClient>> /\ m.head # "RPC_RES"
    BY <1>8 DEF HandleHeartbeat
  <2>2. UNCHANGED <<Forwards, Refusals, Replies>>
    BY <2>1 DEF Forwards, Refusals, Replies
  <2>3. \A r : m # Answered(r)
    BY <2>1 DEF Answered
  <2>4. AnsweredOnce' /\ Answering' = Answering
    <3>1. AnsweredOnce
      BY DEF RoutingInv
    <3>2. /\ AnsweredOnce'
          /\ Answering' = Answering \ {r \in Request : m = Answered(r)}
      BY <1>1, <1>2, <2>1, <2>2, <3>1, AnswersAfterRead DEF m
    <3> QED
      BY <2>3, <3>2
  <2>5. /\ SentInOrder' /\ OneInHand' /\ DecidedWereRead' /\ DecidedOnce'
        /\ Pending' = Pending
    BY <1>2, <1>4, <1>6, <2>2, QuietStep
  <2>6. UNCHANGED Routing!vars
    BY <1>2, <2>1, <2>4, <2>5 DEF Routing!vars
  <2> QED
    BY <2>4, <2>5, <2>6 DEF Preserved, Implements
<1>9. CASE HandleRes(w, m)
  <2> DEFINE r == m.req
  <2>1. r \in Request /\ r.client \in Clients /\ m = Answered(r)
    BY <1>3, <1>9 DEF HandleRes, FromWorker, Answered, Request
  <2>2. /\ toClient' = Send(toClient, r.client, Answered(r))
        /\ UNCHANGED toWorker
    BY <1>9 DEF HandleRes, Answered
  <2> HIDE DEF r
  <2>3. /\ UNCHANGED <<Forwards, Refusals>>
        /\ Replies' = Replies \cup {r}
    BY <1>1, <2>1, <2>2, AfterReply DEF Forwards
  <2>4. AnsweredOnce' /\ Answering' = Answering \ {r} /\ r \in Answering
    <3>1. AnsweredOnce
      BY DEF RoutingInv
    <3>2. /\ AnsweredOnce'
          /\ Answering' = Answering \ {q \in Request : m = Answered(q)}
      BY <1>1, <1>2, <2>1, <2>3, <3>1, AnswersAfterRead DEF m
    <3>3. {q \in Request : m = Answered(q)} = {r}
      BY <2>1, Messages
    <3>4. InSeq(m, inbox[w])
      <4>1. inbox[w] \in Seq(FromWorker)
        BY <1>1 DEF TypeOK
      <4> QED
        BY <1>2, <4>1, InHeadOrTail DEF m
    <3>5. r \in Answering
      BY <2>1, <3>4 DEF Answering, Answered
    <3> QED
      BY <3>2, <3>3, <3>5
  <2>5. /\ SentInOrder' /\ OneInHand' /\ DecidedWereRead' /\ DecidedOnce'
        /\ Pending' = Pending
    BY <1>2, <1>4, <1>6, <2>3, QuietStep
  <2>6. Routing!Deliver(r)
    BY <1>2, <2>2, <2>4, <2>5 DEF Routing!Deliver, Send, Answered
  <2> QED
    BY <2>1, <2>4, <2>5, <2>6
       DEF Preserved, Implements, Routing!Next, Routing!Request, Request
<1> QED
  BY <1>7, <1>8, <1>9 DEF HandleWorkerMessage, m

\* A client's request moves from its socket into the broker's hand.
LEMMA ClientMessageRoutes ==
  ASSUME RoutingInv, NEW c \in Clients, Receive(c),
         HandleClientMessage(Head(inbox[c]))
  PROVE  Preserved /\ Implements
<1> DEFINE m == Head(inbox[c])
           t == Tail(inbox[c])
<1>0. (/\ NothingInHand => InHand = {}
       /\ \A q \in Request : Queued(q) \/ Unserved(q) => InHand = {q})'
  BY ContentOfHand, PTL
<1>1. TypeOK /\ SentInOrder /\ DecidedWereRead /\ DecidedOnce /\ AnsweredOnce
  BY DEF RoutingInv
<1>2. /\ pc = "poll" /\ pc' = "purge"
      /\ inbox[c] # <<>>
      /\ inbox' = [inbox EXCEPT ![c] = Tail(@)]
      /\ UNCHANGED <<sent, answered>>
      /\ services' = [services EXCEPT ![m.req.service].requests =
                       Append(@, m.req)]
      /\ UNCHANGED <<not_processed, toWorker, toClient>>
  BY DEF Receive, peerVars, HandleClientMessage
<1>3. NothingInHand
  BY <1>2, PollsEmptyHanded
<1>4. inbox[c] \in Seq(FromClient)
  BY <1>1 DEF TypeOK
<1>5. /\ Len(inbox[c]) \in Nat /\ Len(inbox[c]) > 0
      /\ Len(t) = Len(inbox[c]) - 1
      /\ \A i \in 1..Len(t) : t[i] = inbox[c][i + 1]
      /\ m = inbox[c][1]
  <2>1. inbox[c] # <<>>
    BY <1>2
  <2>2. Len(inbox[c]) \in Nat /\ Len(inbox[c]) # 0
    BY <1>4, <2>1, EmptySeq
  <2>3. /\ Len(t) = Len(inbox[c]) - 1
        /\ \A i \in 1..Len(t) : t[i] = inbox[c][i + 1]
        /\ m = inbox[c][1]
    BY <1>4, <2>1, HeadTailProperties
  <2> QED
    BY <2>2, <2>3
<1>6. /\ inbox'[c] = t
      /\ \A d \in Clients \ {c} : inbox'[d] = inbox[d]
      /\ \A w \in Workers : inbox'[w] = inbox[w]
  BY <1>1, <1>2, PeersAssumption DEF TypeOK, Peers
<1>7. m \in FromClient
  BY <1>4, <1>5
<1>8. PICK r \in Request : m = Asking(r) /\ m.req = r
  BY <1>7 DEF FromClient, Asking
<1>9. r.client = c /\ r.serial = ReadOf(c) + 1
  <2>1. 1 \in 1..Len(inbox[c])
    BY <1>5
  <2> QED
    BY <1>1, <1>5, <1>8, <2>1 DEF SentInOrder
<1>10. \A x : InSeq(x, inbox[c]) <=> x = m \/ InSeq(x, t)
  BY <1>2, <1>4, InHeadOrTail
<1> HIDE DEF m, t
<1>11. \A d \in Clients : ReadOf(d) \in Int
  BY <1>1, ReadIsInteger
<1>12. \A d \in Clients : ReadOf(d)' = IF d = c THEN ReadOf(d) + 1 ELSE ReadOf(d)
  <2>1. sent[c] \in Int
    BY <1>1 DEF TypeOK
  <2> QED
    <3> SUFFICES ASSUME NEW d \in Clients
                 PROVE  ReadOf(d)' = IF d = c THEN ReadOf(d) + 1 ELSE ReadOf(d)
      OBVIOUS
    <3>1. sent' = sent
      BY <1>2
    <3>2. CASE d = c
      <4>1. Len(inbox'[c]) = Len(inbox[c]) - 1 /\ Len(inbox[c]) \in Nat
        BY <1>5, <1>6
      <4> QED
        BY <2>1, <3>1, <3>2, <4>1 DEF ReadOf
    <3>3. CASE d # c
      BY <1>6, <3>1, <3>3 DEF ReadOf
    <3> QED
      BY <3>2, <3>3
<1>13. SentInOrder'
  <2> SUFFICES ASSUME NEW d \in Clients, NEW i \in 1..Len(inbox'[d])
               PROVE  /\ inbox'[d][i].req.client = d
                      /\ inbox'[d][i].req.serial = ReadOf(d)' + i
    BY DEF SentInOrder
  <2>1. CASE d = c
    <3>1. i + 1 \in 1..Len(inbox[c]) /\ inbox'[d][i] = inbox[c][i + 1]
      BY <1>5, <1>6, <2>1
    <3>2. /\ inbox[c][i + 1].req.client = c
          /\ inbox[c][i + 1].req.serial = ReadOf(c) + (i + 1)
      BY <1>1, <3>1 DEF SentInOrder
    <3> QED
      BY <1>11, <1>12, <2>1, <3>1, <3>2
  <2>2. CASE d # c
    BY <1>1, <1>6, <1>12, <2>2 DEF SentInOrder
  <2> QED
    BY <2>1, <2>2
<1>14. UNCHANGED <<Forwards, Refusals, Replies>>
  BY <1>2 DEF Forwards, Refusals, Replies
<1>15. DecidedOnce'
  BY <1>1, <1>14 DEF DecidedOnce
<1>16. \A q \in Request : q.serial \in Int /\ q.client \in Clients
  BY DEF Request
<1>17. Forwards \cup Refusals \subseteq Request
  BY DEF Forwards, Refusals
<1>18. DecidedWereRead'
  <2> SUFFICES ASSUME NEW d \in Clients, NEW q \in Forwards' \cup Refusals',
                      q.client = d
               PROVE  q.serial <= ReadOf(d)'
    BY DEF DecidedWereRead, DecidedUpTo
  <2>1. q.serial <= ReadOf(d) /\ q.serial \in Int
    BY <1>1, <1>14, <1>16, <1>17 DEF DecidedWereRead, DecidedUpTo
  <2> QED
    BY <1>11, <1>12, <2>1
<1>19. Queued(r)'
  <2>1. r.service \in Services
    BY <1>8 DEF Request
  <2>2. \A s \in Services : services[s].requests = <<>> /\ services[s] \in ServiceRecord
    BY <1>1, <1>3 DEF NothingInHand, TypeOK
  <2>3. services \in [Services -> ServiceRecord]
    BY <1>1 DEF TypeOK
  <2>4. Append(<<>>, r) = <<r>>
    OBVIOUS
  <2>5. \A s \in Services :
          services'[s].requests = IF s = r.service THEN <<r>> ELSE <<>>
    BY <1>2, <1>8, <2>1, <2>2, <2>3, <2>4 DEF ServiceRecord
  <2>6. pc' # "poll" /\ not_processed' = <<>>
    BY <1>2, <1>3 DEF NothingInHand
  <2> QED
    BY <2>5, <2>6 DEF Queued
<1>20. OneInHand'
  <2>1. r.serial = ReadOf(r.client)'
    BY <1>8, <1>9, <1>12, <1>16
  <2>2. DecidedUpTo(c, ReadOf(c))
    BY <1>1 DEF DecidedWereRead
  <2>3. DecidedUpTo(r.client, r.serial - 1)'
    BY <1>9, <1>11, <1>14, <2>2 DEF DecidedUpTo
  <2> QED
    BY <1>8, <1>19, <2>1, <2>3 DEF OneInHand, Request
<1>21. AnsweredOnce' /\ Answering' = Answering
  BY <1>1, <1>2, <1>6, <1>14, AnswersKept
<1>22. Pending' = Pending
  <2>1. Pending = Unread
    BY <1>3, ContentOfHand, PendingIsUnreadOrInHand
  <2>2. Pending' = Unread' \cup {r}
    <3>1. (Pending = Unread \cup InHand)'
      BY PendingIsUnreadOrInHand, PTL
    <3>2. InHand' = {r}
      BY <1>0, <1>8, <1>19 DEF Request
    <3> QED
      BY <3>1, <3>2
  <2>3. ASSUME NEW q \in Request
        PROVE  q \in Unread <=> q \in Unread' \/ q = r
    <3>1. /\ q \in Unread <=> InSeq(Asking(q), inbox[q.client])
          /\ q \in Unread' <=> InSeq(Asking(q), inbox'[q.client])
      BY DEF Unread, Request, Asking, InSeq
    <3>2. Asking(q) = m <=> q = r
      BY <1>8 DEF Asking
    <3>3. CASE q.client = c
      BY <1>6, <1>10, <3>1, <3>2, <3>3, Zenon
    <3>4. CASE q.client # c
      BY <1>6, <1>9, <1>16, <3>1, <3>4, Zenon
    <3> QED
      BY <3>3, <3>4
  <2>4. Unread \subseteq Request /\ Unread' \subseteq Request
    BY DEF Unread, Request
  <2> QED
    BY <1>8, <2>1, <2>2, <2>3, <2>4
<1>23. UNCHANGED Routing!vars
  BY <1>2, <1>21, <1>22 DEF Routing!vars
<1> QED
  BY <1>13, <1>15, <1>18, <1>20, <1>21, <1>23 DEF Preserved, Implements

\* DeleteTimeoutWorker moves no request.
LEMMA PurgeRoutes ==
  ASSUME RoutingInv, PollTimeout \/ Purge
  PROVE  Preserved /\ Implements
<1>1. TypeOK /\ AnsweredOnce
  BY DEF RoutingInv
<1>2. /\ pc \in {"poll", "purge"} /\ pc' = IF pc = "poll" THEN "purge" ELSE "dispatch"
      /\ DeleteTimeoutWorker
      /\ UNCHANGED <<not_processed, inbox, toWorker, toClient, sent, answered>>
  BY DEF PollTimeout, Purge, peerVars
<1>3. \A s \in Services : services'[s].requests = services[s].requests
  BY <1>1, <1>2 DEF DeleteTimeoutWorker, TypeOK, ServiceRecord
<1>4. HandKept
  BY <1>2, <1>3 DEF HandKept, NothingInHand, Queued, Unserved, Request
<1>5. UNCHANGED <<Forwards, Refusals, Replies>>
  BY <1>2 DEF Forwards, Refusals, Replies
<1>6. AnsweredOnce' /\ Answering' = Answering
  BY <1>1, <1>2, <1>5, AnswersKept
<1>7. /\ SentInOrder' /\ OneInHand' /\ DecidedWereRead' /\ DecidedOnce'
      /\ Pending' = Pending
  BY <1>2, <1>4, <1>5, QuietStep
<1> QED
  BY <1>2, <1>6, <1>7 DEF Preserved, Implements, Routing!vars

\* What one visit of Dispacth does: the queue holds one request or none.
LEMMA DispatchMoves ==
  ASSUME RoutingInv, NEW s \in Services, Dispatch(s)
  PROVE  \/ UNCHANGED toWorker /\ HandKept
         \/ \E r \in Request, w \in Workers :
              /\ Queued(r)
              /\ r.serial = ReadOf(r.client)
              /\ DecidedUpTo(r.client, r.serial - 1)
              /\ toWorker' = Send(toWorker, w, Forwarded(r))
              /\ NothingInHand'
<1> DEFINE ws == RemoveWorker(services[s].worker, {})
           q == services[s].requests
<1>1. TypeOK /\ OneInHand
  BY DEF RoutingInv
<1>2. /\ pc = "dispatch" /\ pc' = pc
      /\ services' = [services EXCEPT ![s] = [requests |-> <<>>, worker |-> ws]]
      /\ \/ ws # {} /\ ForwardAll(s, ws)
         \/ ws = {} /\ HandBackAll(s)
  BY DEF Dispatch
<1>3. \A t \in Services : services'[t].requests =
                            IF t = s THEN <<>> ELSE services[t].requests
  BY <1>1, <1>2 DEF TypeOK
<1>4. ws \subseteq Entry
  <2>1. services[s] \in ServiceRecord
    BY <1>1 DEF TypeOK
  <2> QED
    BY <2>1, RemovalType DEF ServiceRecord
<1> HIDE DEF ws
<1>5. CASE q = <<>>
  <2>1. UNCHANGED <<toWorker, not_processed>>
    <3>1. CASE ForwardAll(s, ws)
      <4>1. PICK e \in ws : /\ toWorker' = [toWorker EXCEPT ![e.id] = @ \o
                                [i \in 1..Len(q) |-> Forwarded(q[i])]]
                            /\ UNCHANGED not_processed
        BY <3>1 DEF ForwardAll
      <4>2. toWorker[e.id] \in Seq(ToWorker)
        BY <1>1, <1>4, <4>1 DEF TypeOK, Entry
      <4>3. [i \in 1..Len(q) |-> Forwarded(q[i])] = <<>>
        BY <1>5
      <4>4. toWorker[e.id] \o <<>> = toWorker[e.id]
        BY <4>2
      <4> QED
        BY <1>1, <4>1, <4>3, <4>4 DEF TypeOK
    <3>2. CASE HandBackAll(s)
      <4>1. not_processed \in Seq(Request)
        BY <1>1 DEF TypeOK
      <4> QED
        BY <1>5, <3>2, <4>1 DEF HandBackAll
    <3> QED
      BY <1>2, <3>1, <3>2
  <2>2. HandKept
    BY <1>2, <1>3, <1>5, <2>1 DEF HandKept, NothingInHand, Queued, Unserved, Request
  <2> QED
    BY <2>1, <2>2
<1>6. CASE q # <<>>
  <2>1. PICK r \in Request : /\ Queued(r) \/ Unserved(r)
                             /\ r.serial = ReadOf(r.client)
                             /\ DecidedUpTo(r.client, r.serial - 1)
    BY <1>1, <1>6 DEF OneInHand, NothingInHand
  <2>2. Queued(r) /\ s = r.service /\ q = <<r>> /\ not_processed = <<>>
    BY <1>6, <2>1 DEF Queued, Unserved
  <2>3. \A t \in Services : services'[t].requests = <<>>
    BY <1>3, <2>2 DEF Queued
  <2>4. CASE ForwardAll(s, ws)
    <3>1. PICK e \in ws : /\ toWorker' = [toWorker EXCEPT ![e.id] = @ \o
                              [i \in 1..Len(q) |-> Forwarded(q[i])]]
                          /\ UNCHANGED not_processed
      BY <2>4 DEF ForwardAll
    <3>2. e.id \in Workers /\ toWorker[e.id] \in Seq(ToWorker)
      BY <1>1, <1>4, <3>1 DEF TypeOK, Entry
    <3>3. [i \in 1..Len(q) |-> Forwarded(q[i])] = <<Forwarded(r)>>
      BY <2>2
    <3>4. toWorker[e.id] \o <<Forwarded(r)>> = Append(toWorker[e.id], Forwarded(r))
      <4>1. Forwarded(r) \in ToWorker
        BY DEF Forwarded, ToWorker
      <4> QED
        BY <3>2, <4>1, AppendIsConcat
    <3>5. toWorker' = Send(toWorker, e.id, Forwarded(r))
      BY <3>1, <3>3, <3>4 DEF Send
    <3>6. NothingInHand'
      BY <2>2, <2>3, <3>1 DEF NothingInHand
    <3> QED
      BY <2>1, <2>2, <3>2, <3>5, <3>6
  <2>5. CASE HandBackAll(s)
    <3>1. not_processed' = <<r>> /\ UNCHANGED toWorker
      BY <2>2, <2>5 DEF HandBackAll
    <3>2. Unserved(r)'
      BY <1>2, <2>3, <3>1 DEF Unserved
    <3>3. HandKept
      <4>1. ~NothingInHand
        BY <1>6 DEF NothingInHand
      <4>2. \A p \in Request : Queued(p) \/ Unserved(p) => p = r
        BY <2>2 DEF Queued, Unserved, Request
      <4> QED
        BY <3>2, <4>1, <4>2 DEF HandKept, Request
    <3> QED
      BY <3>1, <3>3
  <2> QED
    BY <1>2, <2>4, <2>5
<1> QED
  BY <1>5, <1>6

LEMMA DispatchRoutes ==
  ASSUME RoutingInv, NEW s \in Services, Dispatch(s)
  PROVE  Preserved /\ Implements
<1>1. TypeOK /\ AnsweredOnce
  BY DEF RoutingInv
<1>2. UNCHANGED <<inbox, toClient, sent, answered>>
  BY DEF Dispatch, peerVars
<1>3. UNCHANGED <<Refusals, Replies>>
  BY <1>2 DEF Refusals, Replies
<1>4. AnsweredOnce' /\ Answering' = Answering
  BY <1>1, <1>2, <1>3, AnswersKept
<1>5. CASE UNCHANGED toWorker /\ HandKept
  <2>1. UNCHANGED Forwards
    BY <1>5 DEF Forwards
  <2>2. /\ SentInOrder' /\ OneInHand' /\ DecidedWereRead' /\ DecidedOnce'
        /\ Pending' = Pending
    BY <1>2, <1>3, <1>5, <2>1, QuietStep
  <2> QED
    BY <1>2, <1>4, <1>5, <2>2 DEF Preserved, Implements, Routing!vars
<1>6. ASSUME NEW r \in Request, NEW w \in Workers,
             Queued(r), r.serial = ReadOf(r.client),
             DecidedUpTo(r.client, r.serial - 1),
             toWorker' = Send(toWorker, w, Forwarded(r)), NothingInHand'
      PROVE  Preserved /\ Implements
  <2>1. Forwards' = Forwards \cup {r}
    BY <1>1, <1>6, AfterForward
  <2>2. /\ SentInOrder' /\ OneInHand' /\ DecidedWereRead' /\ DecidedOnce'
        /\ r \in Pending /\ Pending' = Pending \ {r}
    BY <1>2, <1>3, <1>6, <2>1, DecidingStep
  <2>3. Routing!Forward(r, w)
    BY <1>2, <1>4, <1>6, <2>2 DEF Routing!Forward, Send, Forwarded
  <2> QED
    BY <1>4, <2>2, <2>3
       DEF Preserved, Implements, Routing!Next, Routing!Request, Request
<1> QED
  BY <1>5, <1>6, DispatchMoves

LEMMA ReplyRoutes ==
  ASSUME RoutingInv, ReplyNotProcessed
  PROVE  Preserved /\ Implements
<1>1. TypeOK /\ AnsweredOnce /\ OneInHand
  BY DEF RoutingInv
<1>2. /\ pc = "dispatch" /\ not_processed # <<>>
      /\ not_processed' = Tail(not_processed)
      /\ toClient' = Send(toClient, Head(not_processed).client,
                          Refused(Head(not_processed)))
      /\ UNCHANGED <<services, inbox, toWorker, sent, answered>>
  BY DEF ReplyNotProcessed, peerVars, Refused
<1>3. PICK r \in Request : /\ Unserved(r)
                           /\ r.serial = ReadOf(r.client)
                           /\ DecidedUpTo(r.client, r.serial - 1)
  BY <1>1, <1>2 DEF OneInHand, NothingInHand, Queued
<1>4. not_processed = <<r>> /\ Head(not_processed) = r /\ Tail(not_processed) = <<>>
  BY <1>3 DEF Unserved
<1>5. r.client \in Clients
  BY DEF Request
<1>6. Refusals' = Refusals \cup {r} /\ Replies' = Replies
  BY <1>1, <1>2, <1>4, <1>5, AfterRefusal
<1>7. UNCHANGED Forwards
  BY <1>2 DEF Forwards
<1>8. NothingInHand'
  BY <1>2, <1>3, <1>4 DEF NothingInHand, Unserved
<1>9. /\ SentInOrder' /\ OneInHand' /\ DecidedWereRead' /\ DecidedOnce'
      /\ r \in Pending /\ Pending' = Pending \ {r}
  BY <1>2, <1>3, <1>6, <1>7, <1>8, DecidingStep
<1>10. AnsweredOnce' /\ Answering' = Answering
  BY <1>1, <1>2, <1>6, AnswersKept
<1>11. Routing!Refuse(r)
  BY <1>2, <1>4, <1>9, <1>10 DEF Routing!Refuse, Send, Refused
<1> QED
  BY <1>9, <1>10, <1>11
     DEF Preserved, Implements, Routing!Next, Routing!Request, Request

\* A turn ends with nothing in hand.
LEMMA FinishRoutes ==
  ASSUME RoutingInv, FinishDispatch
  PROVE  Preserved /\ Implements
<1>1. /\ pc = "dispatch" /\ round = {} /\ not_processed = <<>>
      /\ UNCHANGED <<services, not_processed, inbox, toWorker, toClient, sent,
                     answered>>
  BY DEF FinishDispatch, brokerVars, peerVars
<1>2. NothingInHand /\ NothingInHand'
  BY <1>1 DEF RoutingInv, VisitedDrained, NothingInHand
<1>3. HandKept
  <2>1. \A r \in Request : ~Queued(r) /\ ~Unserved(r)
    BY <1>2 DEF NothingInHand, Queued, Unserved, Request
  <2> QED
    BY <1>2, <2>1 DEF HandKept
<1>4. UNCHANGED <<Forwards, Refusals, Replies>>
  BY <1>1 DEF Forwards, Refusals, Replies
<1>5. AnsweredOnce' /\ Answering' = Answering
  BY <1>1, <1>4, AnswersKept DEF RoutingInv
<1>6. /\ SentInOrder' /\ OneInHand' /\ DecidedWereRead' /\ DecidedOnce'
      /\ Pending' = Pending
  BY <1>1, <1>3, <1>4, QuietStep
<1> QED
  BY <1>1, <1>5, <1>6 DEF Preserved, Implements, Routing!vars

\* What is not done by the broker leaves its hand and its decisions alone.
LEMMA PeersKeepHand ==
  ASSUME UNCHANGED <<pc, services, not_processed, toWorker, toClient>>
  PROVE  HandKept /\ UNCHANGED <<Forwards, Refusals, Replies>>
<1>1. HandKept
  BY DEF HandKept, NothingInHand, Queued, Unserved
<1> QED
  BY <1>1 DEF Forwards, Refusals, Replies

LEMMA WorkerPostRoutes ==
  ASSUME RoutingInv, NEW w \in Workers,
         WorkerConnect(w) \/ Heartbeat(w) \/ Deconnect(w)
  PROVE  Preserved /\ Implements
<1>1. TypeOK /\ AnsweredOnce
  BY DEF RoutingInv
<1>2. UNCHANGED <<pc, services, not_processed, toWorker, toClient, sent, answered>>
  BY DEF WorkerConnect, Heartbeat, Deconnect, brokerVars
<1>3. HandKept /\ UNCHANGED <<Forwards, Refusals, Replies>>
  BY <1>2, PeersKeepHand
<1>4. PICK m \in FromWorker : Post(w, m) /\ m.head # "RPC_RES"
  <2>1. /\ [head |-> "RPC_REG", names |-> Offers[w]] \in FromWorker
        /\ [head |-> "RPC_UNCONNECT", names |-> Offers[w]] \in FromWorker
        /\ [head |-> "RPC_HB"] \in FromWorker
    BY OffersAssumption DEF FromWorker
  <2> QED
    BY <2>1 DEF WorkerConnect, Heartbeat, Deconnect
<1>5. AnsweredOnce' /\ Answering' = Answering
  <2>1. /\ AnsweredOnce'
        /\ Answering' = Answering \cup {r \in Request : m = Answered(r)}
    BY <1>1, <1>2, <1>3, <1>4, AnswersAfterPost
  <2>2. \A r : m # Answered(r)
    BY <1>4 DEF Answered
  <2> QED
    BY <2>1, <2>2
<1>6. \A c \in Clients : inbox'[c] = inbox[c]
  BY <1>1, <1>4, WorkerInboxOnly DEF Post
<1>7. /\ SentInOrder' /\ OneInHand' /\ DecidedWereRead' /\ DecidedOnce'
      /\ Pending' = Pending
  BY <1>2, <1>3, <1>6, QuietStep
<1> QED
  BY <1>2, <1>5, <1>7 DEF Preserved, Implements, Routing!vars

LEMMA RespondRoutes ==
  ASSUME RoutingInv, NEW w \in Workers, NEW r \in Request, Respond(w, r)
  PROVE  Preserved /\ Implements
<1>1. TypeOK /\ AnsweredOnce /\ DecidedOnce
  BY DEF RoutingInv
<1>2. /\ \E i \in 1..Len(toWorker[w]) : toWorker[w][i] = Forwarded(r)
      /\ r \notin answered
      /\ answered' = answered \cup {r}
      /\ Post(w, Answered(r))
      /\ UNCHANGED <<pc, services, not_processed, toWorker, toClient, sent>>
  BY DEF Respond, brokerVars, Answered
<1>3. HandKept /\ UNCHANGED <<Forwards, Refusals, Replies>>
  BY <1>2, PeersKeepHand
<1>4. Answered(r) \in FromWorker
  BY DEF Answered, FromWorker
<1>5. AnsweredOnce' /\ Answering' = Answering \cup {r}
  <2>1. /\ AnsweredOnce'
        /\ Answering' = Answering \cup {q \in Request : Answered(r) = Answered(q)}
    BY <1>1, <1>2, <1>3, <1>4, AnswersAfterPost
  <2>2. {q \in Request : Answered(r) = Answered(q)} = {r}
    BY Messages
  <2> QED
    BY <2>1, <2>2
<1>6. \A c \in Clients : inbox'[c] = inbox[c]
  BY <1>1, <1>2, WorkerInboxOnly DEF Post
<1>7. /\ SentInOrder' /\ OneInHand' /\ DecidedWereRead' /\ DecidedOnce'
      /\ Pending' = Pending
  BY <1>2, <1>3, <1>6, QuietStep
<1>8. r \notin Answering /\ r \notin Replies
  BY <1>1, <1>2 DEF AnsweredOnce
<1>9. r \notin Refusals
  <2>1. r \in Forwards
    BY <1>2 DEF Forwards, InSeq
  <2> QED
    BY <1>1, <2>1 DEF DecidedOnce
<1>10. ~Routing!HasReply(r)
  <2> SUFFICES ASSUME NEW i \in 1..Len(toClient[r.client]),
                      toClient[r.client][i].req = r
               PROVE  FALSE
    BY DEF Routing!HasReply
  <2>1. r.client \in Clients
    BY DEF Request
  <2>2. toClient[r.client][i] \in ToClient
    BY <1>1, <2>1 DEF TypeOK
  <2>3. \/ toClient[r.client][i] = Answered(r)
        \/ toClient[r.client][i] = Refused(r)
    BY <2>2 DEF ToClient, Answered, Refused
  <2> QED
    BY <1>8, <1>9, <2>1, <2>3 DEF Replies, Refusals, InSeq
<1>11. Routing!Answer(r, w)
  BY <1>2, <1>5, <1>7, <1>8, <1>10 DEF Routing!Answer, Forwarded
<1> QED
  BY <1>5, <1>7, <1>11
     DEF Preserved, Implements, Routing!Next, Routing!Request, Request

LEMMA ClientRequestRoutes ==
  ASSUME RoutingInv, NEW c \in Clients, NEW s \in Services, ClientRequest(c, s)
  PROVE  Preserved /\ Implements
<1>0. (Pending = Unread \cup InHand)'
  BY PendingIsUnreadOrInHand, PTL
<1>1. TypeOK /\ AnsweredOnce /\ SentInOrder
  BY DEF RoutingInv
<1>2. sent[c] \in 0..MaxRequests /\ sent \in [Clients -> 0..MaxRequests]
  BY <1>1 DEF TypeOK
<1>3. PICK r \in Request : r = [client |-> c, serial |-> sent[c] + 1, service |-> s]
  BY <1>2, BoundsAssumption DEF ClientRequest, Request
<1>4. r.client = c /\ r.serial = sent[c] + 1
  BY <1>3
<1>5. /\ sent' = [sent EXCEPT ![c] = @ + 1]
      /\ inbox' = [inbox EXCEPT ![c] = Append(@, Asking(r))]
      /\ UNCHANGED <<pc, services, not_processed, toWorker, toClient, answered>>
  BY <1>3 DEF ClientRequest, Post, brokerVars, Asking
<1>6. HandKept /\ UNCHANGED <<Forwards, Refusals, Replies>>
  BY <1>5, PeersKeepHand
<1>7. inbox[c] \in Seq(FromClient) /\ Asking(r) \in FromClient
  BY <1>1 DEF TypeOK, Asking, FromClient
<1> DEFINE p == Append(inbox[c], Asking(r))
<1>8. /\ Len(inbox[c]) \in Nat
      /\ Len(p) = Len(inbox[c]) + 1
      /\ \A i \in 1..Len(inbox[c]) : p[i] = inbox[c][i]
      /\ p[Len(inbox[c]) + 1] = Asking(r)
  BY <1>7, AppendProperties
<1>9. \A x : InSeq(x, p) <=> InSeq(x, inbox[c]) \/ x = Asking(r)
  BY <1>7, InAppended
<1>10. /\ inbox'[c] = p
       /\ \A d \in Clients \ {c} : inbox'[d] = inbox[d]
       /\ \A w \in Workers : inbox'[w] = inbox[w]
  BY <1>1, <1>5, PeersAssumption DEF TypeOK, Peers
<1> HIDE DEF p
<1>11. \A d \in Clients : ReadOf(d)' = ReadOf(d)
  <2>1. ReadOf(c)' = ReadOf(c)
    <3>1. sent'[c] = sent[c] + 1
      BY <1>2, <1>5
    <3> QED
      BY <1>2, <1>8, <1>10, <3>1 DEF ReadOf
  <2>2. ASSUME NEW d \in Clients, d # c  PROVE ReadOf(d)' = ReadOf(d)
    BY <1>2, <1>5, <1>10, <2>2 DEF ReadOf
  <2> QED
    BY <2>1, <2>2
<1>12. SentInOrder'
  <2> SUFFICES ASSUME NEW d \in Clients, NEW i \in 1..Len(inbox'[d])
               PROVE  /\ inbox'[d][i].req.client = d
                      /\ inbox'[d][i].req.serial = ReadOf(d) + i
    BY <1>11 DEF SentInOrder
  <2>1. CASE d # c \/ i # Len(inbox[c]) + 1
    BY <1>1, <1>8, <1>10, <2>1 DEF SentInOrder
  <2>2. CASE d = c /\ i = Len(inbox[c]) + 1
    <3>1. inbox'[d][i].req = r
      BY <1>8, <1>10, <2>2 DEF Asking
    <3> QED
      BY <1>2, <1>4, <1>8, <2>2, <3>1 DEF ReadOf
  <2> QED
    BY <2>1, <2>2
<1>13. OneInHand' /\ DecidedWereRead' /\ DecidedOnce' /\ InHand' = InHand
  BY <1>6, <1>11, HandStep
<1>14. AnsweredOnce' /\ Answering' = Answering
  BY <1>1, <1>5, <1>6, <1>10, AnswersKept
<1>15. Pending' = Pending \cup {r}
  <2>1. ASSUME NEW q \in Request
        PROVE  q \in Unread' <=> q \in Unread \/ q = r
    <3>1. /\ q \in Unread <=> InSeq(Asking(q), inbox[q.client])
          /\ q \in Unread' <=> InSeq(Asking(q), inbox'[q.client])
      BY DEF Unread, Request, Asking, InSeq
    <3>2. Asking(q) = Asking(r) <=> q = r
      BY DEF Asking
    <3>3. q.client \in Clients
      BY DEF Request
    <3>4. CASE q.client = c
      BY <1>9, <1>10, <3>1, <3>2, <3>4, Zenon
    <3>5. CASE q.client # c
      BY <1>4, <1>10, <3>1, <3>3, <3>5, Zenon
    <3> QED
      BY <3>4, <3>5
  <2>2. Unread \subseteq Request /\ Unread' \subseteq Request
    BY DEF Unread, Request
  <2> QED
    BY <1>0, <1>13, <2>1, <2>2, PendingIsUnreadOrInHand
<1>16. Routing!Submit(r)
  BY <1>4, <1>5, <1>14, <1>15 DEF Routing!Submit
<1> QED
  BY <1>12, <1>13, <1>14, <1>16
     DEF Preserved, Implements, Routing!Next, Routing!Request, Request

LEMMA IdleRoutes ==
  ASSUME RoutingInv, Tick \/ UNCHANGED vars
  PROVE  Preserved /\ Implements
<1>1. UNCHANGED <<pc, services, not_processed, inbox, toWorker, toClient, sent,
                  answered>>
  BY DEF Tick, vars, peerVars
<1>2. HandKept /\ UNCHANGED <<Forwards, Refusals, Replies>>
  BY <1>1, PeersKeepHand
<1>3. AnsweredOnce' /\ Answering' = Answering
  BY <1>1, <1>2, AnswersKept DEF RoutingInv
<1>4. /\ SentInOrder' /\ OneInHand' /\ DecidedWereRead' /\ DecidedOnce'
      /\ Pending' = Pending
  BY <1>1, <1>2, QuietStep
<1> QED
  BY <1>1, <1>3, <1>4 DEF Preserved, Implements, Routing!vars

LEMMA StepRoutes ==
  ASSUME RoutingInv, [Next]_vars
  PROVE  RoutingInv' /\ Implements
<1>1. Preserved /\ Implements
  <2>1. ASSUME NEW p \in Peers, Receive(p)  PROVE Preserved /\ Implements
    BY <2>1, WorkerMessageRoutes, ClientMessageRoutes DEF Receive
  <2>2. CASE PollTimeout \/ Purge
    BY <2>2, PurgeRoutes
  <2>3. ASSUME NEW s \in Services, Dispatch(s)  PROVE Preserved /\ Implements
    BY <2>3, DispatchRoutes
  <2>4. CASE ReplyNotProcessed \/ FinishDispatch
    BY <2>4, ReplyRoutes, FinishRoutes
  <2>5. CASE Environment
    BY <2>5, WorkerPostRoutes, RespondRoutes, ClientRequestRoutes, IdleRoutes
       DEF Environment
  <2> QED
    BY <2>1, <2>2, <2>3, <2>4, <2>5, IdleRoutes DEF Next, Broker
<1>2. TypeOK' /\ QueuesDrained' /\ VisitedDrained'
  <2>1. TypeOK'
    <3>1. CASE UNCHANGED vars
      BY <3>1 DEF RoutingInv, TypeOK, vars
    <3> QED
      BY <3>1, BrokerType, EnvironmentType DEF RoutingInv, Next
  <2> QED
    BY <2>1, DrainStep DEF RoutingInv
<1> QED
  BY <1>1, <1>2 DEF RoutingInv, Preserved

LEMMA InitRoutes == Init => RoutingInv /\ Routing!Init
<1> SUFFICES ASSUME Init  PROVE RoutingInv /\ Routing!Init
  OBVIOUS
<1>1. TypeOK
  BY InitType
<1>2. NothingInHand
  BY DEF Init, NothingInHand, NoService
<1>3. /\ \A p \in Peers : inbox[p] = <<>>
      /\ \A w \in Workers : toWorker[w] = <<>> /\ inbox[w] = <<>>
      /\ \A c \in Clients : toClient[c] = <<>> /\ inbox[c] = <<>>
  BY DEF Init, Peers
<1>4. /\ Unread = {} /\ Forwards = {} /\ Refusals = {} /\ Replies = {}
      /\ Answering = {}
  <2>1. \A r \in Request : r.client \in Clients
    BY DEF Request
  <2> QED
    BY <1>3, <2>1, InEmpty
       DEF Unread, Forwards, Refusals, Replies, Answering
<1>5. Pending = {}
  BY <1>2, <1>4, ContentOfHand, PendingIsUnreadOrInHand
<1>6. SentInOrder /\ AnsweredOnce
  BY <1>3, <1>4 DEF SentInOrder, AnsweredOnce
<1>7. OneInHand /\ DecidedWereRead /\ DecidedOnce
  BY <1>2, <1>4 DEF OneInHand, DecidedWereRead, DecidedUpTo, DecidedOnce
<1>8. QueuesDrained /\ VisitedDrained
  BY DEF Init, QueuesDrained, VisitedDrained, NoService
<1> QED
  BY <1>1, <1>4, <1>5, <1>6, <1>7, <1>8 DEF Init, RoutingInv, Routing!Init

LEMMA RoutingHolds == Spec => []RoutingInv
<1>1. Init => RoutingInv
  BY InitRoutes
<1>2. RoutingInv /\ [Next]_vars => RoutingInv'
  BY StepRoutes
<1> QED
  BY <1>1, <1>2, PTL DEF Spec

(***************************************************************************)
(* The broker implements RequestRouting: whatever its peers do, no request *)
(* is lost, duplicated, decided twice, or answered to another client.      *)
(***************************************************************************)
THEOREM RoutesRequests == Spec => RoutingSpec
<1>1. Init => Routing!Init
  BY InitRoutes
<1>2. RoutingInv /\ [Next]_vars => [Routing!Next]_(Routing!vars)
  BY StepRoutes DEF Implements
<1> QED
  BY <1>1, <1>2, RoutingHolds, PTL DEF Spec, RoutingSpec, Routing!Spec

-----------------------------------------------------------------------------
(***************************************************************************)
(* The order of a client's requests.  A request that is forwarded is the   *)
(* latest one read from its client, so it comes after all that any worker  *)
(* has got from that client.                                               *)
(***************************************************************************)
LEMMA RequestsAreForwards ==
  ASSUME TypeOK, NEW w \in Workers, NEW i \in 1..Len(toWorker[w]),
         toWorker[w][i].head = "RPC_REQ"
  PROVE  toWorker[w][i].req \in Forwards
<1>1. toWorker[w][i] \in ToWorker
  BY DEF TypeOK
<1>2. /\ toWorker[w][i].req \in Request
      /\ toWorker[w][i] = Forwarded(toWorker[w][i].req)
  BY <1>1 DEF ToWorker, Forwarded
<1> QED
  BY <1>2 DEF Forwards, InSeq

LEMMA OrderAfterSend ==
  ASSUME TypeOK, InOrder, NEW w \in Workers, NEW m \in ToWorker,
         toWorker' = Send(toWorker, w, m),
         m.head = "RPC_REQ" => DecidedUpTo(m.req.client, m.req.serial - 1)
  PROVE  InOrder'
<1> DEFINE q == toWorker[w]
<1>1. q \in Seq(ToWorker)
  BY DEF TypeOK
<1>2. toWorker'[w] = Append(q, m) /\ \A v \in Workers \ {w} : toWorker'[v] = toWorker[v]
  BY DEF TypeOK, Send
<1>3. /\ Len(q) \in Nat
      /\ Len(toWorker'[w]) = Len(q) + 1
      /\ \A i \in 1..Len(q) : toWorker'[w][i] = q[i]
      /\ toWorker'[w][Len(q) + 1] = m
  BY <1>1, <1>2, AppendProperties
<1> SUFFICES ASSUME NEW v \in Workers,
                    NEW i \in 1..Len(toWorker'[v]), NEW j \in 1..Len(toWorker'[v]),
                    i < j,
                    toWorker'[v][i].head = "RPC_REQ",
                    toWorker'[v][j].head = "RPC_REQ",
                    toWorker'[v][i].req.client = toWorker'[v][j].req.client
             PROVE  toWorker'[v][i].req.serial < toWorker'[v][j].req.serial
  BY DEF InOrder
<1>4. CASE v # w \/ j # Len(q) + 1
  <2>1. /\ i \in 1..Len(toWorker[v]) /\ toWorker'[v][i] = toWorker[v][i]
        /\ j \in 1..Len(toWorker[v]) /\ toWorker'[v][j] = toWorker[v][j]
    <3>1. CASE v # w
      BY <1>2, <3>1
    <3>2. CASE v = w
      <4>1. j \in 1..Len(q) /\ i \in 1..Len(q)
        BY <1>3, <1>4, <3>2
      <4> QED
        BY <1>3, <3>2, <4>1
    <3> QED
      BY <3>1, <3>2
  <2> QED
    BY <2>1 DEF InOrder
<1>5. CASE v = w /\ j = Len(q) + 1
  <2>1. i \in 1..Len(q) /\ toWorker'[v][i] = q[i] /\ toWorker'[v][j] = m
    BY <1>3, <1>5
  <2>2. q[i].req \in Forwards
    BY <1>5, <2>1, RequestsAreForwards
  <2>3. q[i].req.serial <= m.req.serial - 1
    BY <2>1, <2>2 DEF DecidedUpTo
  <2>4. q[i].req.serial \in Int /\ m.req.serial \in Int
    <3>1. q[i].req \in Request
      BY <2>2 DEF Forwards
    <3>2. m.req \in Request
      BY <2>1 DEF ToWorker
    <3> QED
      BY <3>1, <3>2 DEF Request
  <2> QED
    BY <2>1, <2>3, <2>4
<1> QED
  BY <1>4, <1>5

LEMMA OrderStep ==
  ASSUME RoutingInv, InOrder, [Next]_vars
  PROVE  InOrder'
<1>0. TypeOK
  BY DEF RoutingInv
<1>1. ASSUME UNCHANGED toWorker  PROVE InOrder'
  BY <1>1 DEF InOrder
<1>2. ASSUME NEW w \in Workers, toWorker' = Send(toWorker, w, Success)
      PROVE  InOrder'
  <2>1. Success \in ToWorker /\ Success.head # "RPC_REQ"
    BY DEF Success, ToWorker
  <2> QED
    BY <1>0, <1>2, <2>1, OrderAfterSend
<1>3. ASSUME NEW p \in Peers, Receive(p)  PROVE InOrder'
  <2>1. CASE p \in Workers /\ HandleWorkerMessage(p, Head(inbox[p]))
    BY <1>1, <1>2, <2>1
       DEF HandleWorkerMessage, HandleReg, HandleRes, HandleHeartbeat,
           HandleUnconnect
  <2>2. CASE HandleClientMessage(Head(inbox[p]))
    BY <1>1, <2>2 DEF HandleClientMessage
  <2> QED
    BY <1>3, <2>1, <2>2 DEF Receive
<1>4. ASSUME NEW s \in Services, Dispatch(s)  PROVE InOrder'
  <2>1. ASSUME NEW r \in Request, NEW w \in Workers,
               DecidedUpTo(r.client, r.serial - 1),
               toWorker' = Send(toWorker, w, Forwarded(r))
        PROVE  InOrder'
    <3>1. Forwarded(r) \in ToWorker /\ Forwarded(r).req = r
      BY DEF Forwarded, ToWorker
    <3> QED
      BY <1>0, <2>1, <3>1, OrderAfterSend
  <2> QED
    BY <1>1, <1>4, <2>1, DispatchMoves
<1>5. CASE PollTimeout \/ Purge \/ ReplyNotProcessed \/ FinishDispatch
  BY <1>1, <1>5 DEF PollTimeout, Purge, ReplyNotProcessed, FinishDispatch
<1>6. CASE Environment \/ UNCHANGED vars
  BY <1>1, <1>6 DEF Environment, WorkerConnect, Heartbeat, Deconnect, Respond,
                    ClientRequest, Tick, vars
<1> QED
  BY <1>3, <1>4, <1>5, <1>6 DEF Next, Broker

(***************************************************************************)
(* A worker gets the requests of one client in the order they were sent,   *)
(* over all services, so that its duplicate filter (worker.cpp:265) drops  *)
(* none of them for having come late.                                      *)
(***************************************************************************)
THEOREM RequestsInOrder == Spec => []InOrder
<1>1. Init => InOrder
  BY DEF Init, InOrder
<1>2. RoutingInv /\ InOrder /\ [Next]_vars => InOrder'
  BY OrderStep
<1> QED
  BY <1>1, <1>2, RoutingHolds, PTL DEF Spec

-----------------------------------------------------------------------------
(***************************************************************************)
(* What a refusal means.  While no service has two providers, every name   *)
(* in a worker's record has its entry in the service: the leave of a       *)
(* worker empties the services it names, and they are its own.             *)
(***************************************************************************)
OffersOnly ==
    \A w \in Workers :
      /\ workers[w].names \subseteq Offers[w]
      /\ \A i \in 1..Len(inbox[w]) :
           inbox[w][i].head \in {"RPC_REG", "RPC_UNCONNECT"}
             => inbox[w][i].names = Offers[w]

NamesAreServed ==
    \A w \in Workers : \A s \in workers[w].names :
      \E e \in services[s].worker : e.id = w

LEMMA OffersKept ==
  ASSUME TypeOK, OffersOnly,
         \A w \in Workers : workers'[w].names \subseteq Offers[w],
         \A w \in Workers : \A i \in 1..Len(inbox'[w]) :
           inbox'[w][i].head \in {"RPC_REG", "RPC_UNCONNECT"}
             => \/ inbox'[w][i].names = Offers[w]
                \/ InSeq(inbox'[w][i], inbox[w])
  PROVE  OffersOnly'
BY DEF OffersOnly, InSeq

LEMMA InboxAfterRead ==
  ASSUME TypeOK, OffersOnly, NEW p \in Peers, Receive(p)
  PROVE  \A w \in Workers : \A i \in 1..Len(inbox'[w]) :
           InSeq(inbox'[w][i], inbox[w])
<1> SUFFICES ASSUME NEW w \in Workers, NEW i \in 1..Len(inbox'[w])
             PROVE  InSeq(inbox'[w][i], inbox[w])
  OBVIOUS
<1>1. /\ inbox[p] # <<>>
      /\ inbox' = [inbox EXCEPT ![p] = Tail(@)]
      /\ w \in Peers
  BY DEF Receive, Peers
<1>2. inbox[w] \in Seq(FromWorker)
  BY DEF TypeOK
<1>3. CASE w = p
  <2>1. inbox'[w] = Tail(inbox[w])
    BY <1>1, <1>3 DEF TypeOK
  <2>2. InSeq(inbox'[w][i], Tail(inbox[w]))
    BY <2>1 DEF InSeq
  <2> QED
    BY <1>1, <1>2, <1>3, <2>2, InHeadOrTail
<1>4. CASE w # p
  BY <1>1, <1>4 DEF TypeOK, InSeq
<1> QED
  BY <1>3, <1>4

LEMMA InboxAfterPost ==
  ASSUME TypeOK, NEW p \in Peers, NEW m, Post(p, m),
         p \in Workers => /\ m \in FromWorker
                          /\ m.head \in {"RPC_REG", "RPC_UNCONNECT"}
                               => m.names = Offers[p],
         OffersOnly
  PROVE  \A w \in Workers : \A i \in 1..Len(inbox'[w]) :
           inbox'[w][i].head \in {"RPC_REG", "RPC_UNCONNECT"}
             => \/ inbox'[w][i].names = Offers[w]
                \/ InSeq(inbox'[w][i], inbox[w])
<1> SUFFICES ASSUME NEW w \in Workers, NEW i \in 1..Len(inbox'[w]),
                    inbox'[w][i].head \in {"RPC_REG", "RPC_UNCONNECT"}
             PROVE  \/ inbox'[w][i].names = Offers[w]
                    \/ InSeq(inbox'[w][i], inbox[w])
  OBVIOUS
<1>1. inbox' = [inbox EXCEPT ![p] = Append(@, m)] /\ w \in Peers
  BY DEF Post, Peers
<1>2. CASE w # p
  BY <1>1, <1>2 DEF TypeOK, InSeq
<1>3. CASE w = p
  <2>1. inbox[w] \in Seq(FromWorker) /\ m \in FromWorker
    BY <1>3 DEF TypeOK
  <2>2. inbox'[w] = Append(inbox[w], m)
    BY <1>1, <1>3 DEF TypeOK
  <2>3. InSeq(inbox'[w][i], Append(inbox[w], m))
    BY <2>2 DEF InSeq
  <2>4. InSeq(inbox'[w][i], inbox[w]) \/ inbox'[w][i] = m
    BY <2>1, <2>3, InAppended
  <2> QED
    BY <1>3, <2>4
<1> QED
  BY <1>2, <1>3

\* What a worker's message does to the two registries.
LEMMA WorkerMessageServes ==
  ASSUME TypeOK, OffersOnly, NamesAreServed,
         \A v, w \in Workers : v # w => Offers[v] \cap Offers[w] = {},
         NEW w \in Workers, NEW m \in FromWorker,
         m.head \in {"RPC_REG", "RPC_UNCONNECT"} => m.names = Offers[w],
         HandleWorkerMessage(w, m)
  PROVE  /\ \A v \in Workers : workers'[v].names \subseteq Offers[v]
         /\ NamesAreServed'
<1> DEFINE record == RequireWorker(w)
<1>1. record \in WorkerRecord /\ record.names \subseteq workers[w].names
  BY RequireWorkerType DEF RequireWorker
<1>2. /\ workers \in [Workers -> WorkerRecord]
      /\ services \in [Services -> ServiceRecord]
  BY DEF TypeOK
<1>3. /\ \A v \in Workers : workers[v].names \subseteq Offers[v]
      /\ \A v \in Workers : Offers[v] \subseteq Services
  BY OffersAssumption DEF OffersOnly
<1> HIDE DEF record
<1>4. CASE HandleReg(w, m)
  <2>1. /\ workers' = [workers EXCEPT ![w] =
                         [record EXCEPT !.names = @ \cup m.names]]
        /\ services' = [s \in Services |->
                          IF s \in m.names
                          THEN [services[s] EXCEPT !.worker = AddWorker(@, w)]
                          ELSE services[s]]
        /\ m.names = Offers[w]
    BY <1>4 DEF HandleReg, record
  <2>2. /\ workers'[w].names = record.names \cup Offers[w]
        /\ \A v \in Workers \ {w} : workers'[v] = workers[v]
    BY <1>1, <1>2, <2>1 DEF WorkerRecord
  <2>3. \A s \in Services : services[s].worker \subseteq services'[s].worker
    BY <1>2, <2>1 DEF AddWorker, ServiceRecord
  <2>4. \A s \in Offers[w] : \E e \in services'[s].worker : e.id = w
    <3>1. \A s \in Offers[w] :
            [id |-> w, slot |-> registrations, expired |-> FALSE]
               \in services'[s].worker
      BY <1>2, <1>3, <2>1 DEF AddWorker, ServiceRecord
    <3>2. [id |-> w, slot |-> registrations, expired |-> FALSE].id = w
      OBVIOUS
    <3> QED
      BY <3>1, <3>2
  <2>5. \A v \in Workers : workers'[v].names \subseteq Offers[v]
    BY <1>1, <1>3, <2>2
  <2>6. NamesAreServed'
    BY <1>1, <1>3, <2>2, <2>3, <2>4 DEF NamesAreServed
  <2> QED
    BY <2>5, <2>6
<1>5. CASE HandleRes(w, m) \/ HandleHeartbeat(w, m)
  <2>1. /\ UNCHANGED services
        /\ workers'[w].names = record.names
        /\ \A v \in Workers \ {w} : workers'[v] = workers[v]
    BY <1>1, <1>2, <1>5 DEF HandleRes, HandleHeartbeat, WorkerRecord, record
  <2> QED
    BY <1>1, <1>3, <2>1 DEF NamesAreServed
<1>6. CASE HandleUnconnect(w, m)
  <2> DEFINE left == record.names \ m.names
             deadline == IF left = {} THEN 0 ELSE record.expiry
  <2>1. /\ workers' = [workers EXCEPT ![w] =
                         [record EXCEPT !.names = left, !.expiry = deadline]]
        /\ services' = [s \in Services |->
                          IF s \in m.names THEN NoService ELSE services[s]]
        /\ m.names = Offers[w]
    BY <1>6 DEF HandleUnconnect, record
  <2>2. /\ workers'[w].names = {}
        /\ \A v \in Workers \ {w} : workers'[v] = workers[v]
    BY <1>1, <1>2, <1>3, <2>1 DEF WorkerRecord
  <2>3. \A v \in Workers \ {w} : \A s \in workers[v].names :
          services'[s] = services[s]
    BY <1>3, <2>1
  <2> QED
    BY <1>3, <2>2, <2>3 DEF NamesAreServed
<1> QED
  BY <1>4, <1>5, <1>6 DEF HandleWorkerMessage

LEMMA ServedStep ==
  ASSUME TypeOK, RegistryAgrees, OffersOnly, NamesAreServed,
         \A v, w \in Workers : v # w => Offers[v] \cap Offers[w] = {},
         [Next]_vars
  PROVE  OffersOnly' /\ NamesAreServed'
<1>1. \A w \in Workers : workers[w].names \subseteq Offers[w]
  BY DEF OffersOnly
<1>2. ASSUME \A w \in Workers : workers'[w].names \subseteq workers[w].names,
             UNCHANGED inbox
      PROVE  OffersOnly'
  BY <1>2 DEF OffersOnly
<1>3. ASSUME UNCHANGED <<workers, services>>  PROVE NamesAreServed'
  BY <1>3 DEF NamesAreServed
<1>4. ASSUME NEW p \in Peers, Receive(p)  PROVE OffersOnly' /\ NamesAreServed'
  <2>1. \A w \in Workers : \A i \in 1..Len(inbox'[w]) :
          InSeq(inbox'[w][i], inbox[w])
    BY <1>4, InboxAfterRead
  <2>2. CASE p \in Workers /\ HandleWorkerMessage(p, Head(inbox[p]))
    <3>1. Head(inbox[p]) \in FromWorker
      BY <1>4, <2>2, InboxTail DEF Receive
    <3>2. Head(inbox[p]).head \in {"RPC_REG", "RPC_UNCONNECT"}
            => Head(inbox[p]).names = Offers[p]
      <4>1. inbox[p] \in Seq(FromWorker) /\ inbox[p] # <<>>
        BY <1>4, <2>2 DEF TypeOK, Receive
      <4>2. 1 \in 1..Len(inbox[p]) /\ Head(inbox[p]) = inbox[p][1]
        BY <4>1
      <4> QED
        BY <2>2, <4>2 DEF OffersOnly
    <3>3. /\ \A v \in Workers : workers'[v].names \subseteq Offers[v]
          /\ NamesAreServed'
      BY <2>2, <3>1, <3>2, WorkerMessageServes
    <3> QED
      BY <2>1, <3>3, OffersKept
  <2>3. CASE p \in Clients /\ HandleClientMessage(Head(inbox[p]))
    <3>1. UNCHANGED workers
      BY <2>3 DEF HandleClientMessage
    <3>2. OffersOnly'
      BY <1>1, <2>1, <3>1, OffersKept
    <3>3. \A s \in Services : services'[s].worker = services[s].worker
      <4>1. Head(inbox[p]).req.service \in Services
        BY <1>4, <2>3, InboxTail, FromClientFields DEF Receive, Request
      <4> QED
        BY <2>3, <4>1 DEF HandleClientMessage, TypeOK, ServiceRecord
    <3>4. \A w \in Workers : workers[w].names \subseteq Services
      BY DEF TypeOK, WorkerRecord
    <3> QED
      BY <3>1, <3>2, <3>3, <3>4 DEF NamesAreServed
  <2> QED
    BY <1>4, <2>2, <2>3 DEF Receive
<1>5. CASE PollTimeout \/ Purge
  <2>1. DeleteTimeoutWorker /\ UNCHANGED inbox
    BY <1>5 DEF PollTimeout, Purge
  <2>2. \A w \in Workers : /\ workers'[w].names \subseteq workers[w].names
                           /\ w \in Overdue => workers'[w].names = {}
    BY <2>1 DEF DeleteTimeoutWorker, NoWorker
  <2>3. OffersOnly'
    BY <1>2, <2>1, <2>2
  <2>4. NamesAreServed'
    <3> SUFFICES ASSUME NEW w \in Workers, NEW s \in workers'[w].names
                 PROVE  \E f \in services'[s].worker : f.id = w
      BY DEF NamesAreServed
    <3>1. s \in workers[w].names /\ w \notin Overdue /\ s \in Services
      BY <2>2 DEF TypeOK, WorkerRecord
    <3>2. PICK e \in services[s].worker : e.id = w
      BY <3>1 DEF NamesAreServed
    <3>3. e \in RemoveWorker(services[s].worker, Overdue)
      BY <3>1, <3>2 DEF RegistryAgrees, RemoveWorker
    <3> DEFINE f == [e EXCEPT !.expired = e.expired \/ e.id \in Overdue]
    <3>4. services'[s].worker =
            Expire(RemoveWorker(services[s].worker, Overdue), Overdue)
      BY <2>1, <3>1 DEF DeleteTimeoutWorker, TypeOK, ServiceRecord
    <3>5. f \in services'[s].worker
      BY <3>3, <3>4 DEF Expire
    <3>6. e \in Entry
      BY <3>1, <3>2 DEF TypeOK, ServiceRecord
    <3>7. f.id = w
      BY <3>2, <3>6, Zenon DEF Entry
    <3> QED
      BY <3>5, <3>7
  <2> QED
    BY <2>3, <2>4
<1>6. ASSUME NEW s \in Services, Dispatch(s)  PROVE OffersOnly' /\ NamesAreServed'
  <2>1. UNCHANGED <<workers, inbox>>
    BY <1>6 DEF Dispatch
  <2>2. \A t \in Services : services'[t].worker = services[t].worker
    <3>1. RemoveWorker(services[s].worker, {}) = services[s].worker
      BY DEF RemoveWorker, RegistryAgrees
    <3> QED
      BY <1>6, <3>1 DEF Dispatch, TypeOK
  <2>3. \A w \in Workers : workers[w].names \subseteq Services
    BY DEF TypeOK, WorkerRecord
  <2> QED
    BY <1>2, <2>1, <2>2, <2>3 DEF NamesAreServed
<1>7. ASSUME NEW p \in Peers, NEW m, Post(p, m), UNCHANGED <<workers, services>>,
             p \in Workers => /\ m \in FromWorker
                              /\ m.head \in {"RPC_REG", "RPC_UNCONNECT"}
                                   => m.names = Offers[p]
      PROVE  OffersOnly' /\ NamesAreServed'
  BY <1>1, <1>3, <1>7, InboxAfterPost, OffersKept
<1>8. ASSUME NEW w \in Workers, WorkerConnect(w) \/ Heartbeat(w) \/ Deconnect(w)
      PROVE  OffersOnly' /\ NamesAreServed'
  <2>1. /\ [head |-> "RPC_REG", names |-> Offers[w]] \in FromWorker
        /\ [head |-> "RPC_UNCONNECT", names |-> Offers[w]] \in FromWorker
        /\ [head |-> "RPC_HB"] \in FromWorker
    BY OffersAssumption DEF FromWorker
  <2>2. PICK m \in FromWorker : /\ Post(w, m)
                                /\ m.head \in {"RPC_REG", "RPC_UNCONNECT"}
                                     => m.names = Offers[w]
    BY <1>8, <2>1 DEF WorkerConnect, Heartbeat, Deconnect
  <2>3. UNCHANGED <<workers, services>> /\ w \in Peers
    BY <1>8 DEF WorkerConnect, Heartbeat, Deconnect, brokerVars, Peers
  <2> QED
    BY <1>7, <2>2, <2>3
<1>9. ASSUME NEW w \in Workers, NEW r \in Request, Respond(w, r)
      PROVE  OffersOnly' /\ NamesAreServed'
  <2>1. /\ Answered(r) \in FromWorker
        /\ Answered(r).head \notin {"RPC_REG", "RPC_UNCONNECT"}
    BY DEF FromWorker, Answered
  <2>2. Post(w, Answered(r)) /\ UNCHANGED <<workers, services>> /\ w \in Peers
    BY <1>9 DEF Respond, brokerVars, Peers, Answered
  <2> QED
    BY <1>7, <2>1, <2>2
<1>10. ASSUME NEW c \in Clients, NEW s \in Services, ClientRequest(c, s)
       PROVE  OffersOnly' /\ NamesAreServed'
  <2>1. c \in Peers /\ c \notin Workers /\ UNCHANGED <<workers, services>>
    BY <1>10, PeersAssumption DEF ClientRequest, brokerVars, Peers
  <2> QED
    BY <1>7, <1>10, <2>1 DEF ClientRequest
<1>11. CASE Tick
  <2>1. \A w \in Workers : workers'[w].names = workers[w].names
    BY <1>11 DEF Tick, TypeOK, WorkerRecord
  <2>2. UNCHANGED <<services, inbox>>
    BY <1>11 DEF Tick
  <2> QED
    BY <1>2, <2>1, <2>2 DEF NamesAreServed
<1>12. CASE ReplyNotProcessed \/ FinishDispatch \/ UNCHANGED vars
  BY <1>2, <1>3, <1>12 DEF ReplyNotProcessed, FinishDispatch, vars, brokerVars
<1> QED
  BY <1>4, <1>5, <1>6, <1>8, <1>9, <1>10, <1>11, <1>12
     DEF Next, Broker, Environment

\* A request that joins not_processed_ found no worker in its service.
LEMMA RefusedWithoutWorker ==
  ASSUME RoutingInv, RegistryAgrees, NamesAreServed,
         UnprocessedMeansUnregistered, NEW s \in Services, Dispatch(s)
  PROVE  UnprocessedMeansUnregistered'
<1> DEFINE ws == RemoveWorker(services[s].worker, {})
           q == services[s].requests
<1>1. UNCHANGED workers
  BY DEF Dispatch
<1>2. CASE UNCHANGED not_processed
  BY <1>1, <1>2 DEF UnprocessedMeansUnregistered
<1>3. CASE not_processed' # not_processed
  <2>1. ws = {} /\ not_processed' = not_processed \o q
    BY <1>3 DEF Dispatch, ForwardAll, HandBackAll
  <2>2. q # <<>>
    <3>1. not_processed \in Seq(Request)
      BY DEF RoutingInv, TypeOK
    <3> QED
      BY <1>3, <2>1, <3>1
  <2>3. PICK r \in Request : Queued(r)
    BY <2>2 DEF RoutingInv, OneInHand, NothingInHand, Unserved
  <2>4. s = r.service /\ q = <<r>> /\ not_processed = <<>>
    BY <2>2, <2>3 DEF Queued
  <2>5. not_processed' = <<r>>
    BY <2>1, <2>4
  <2>6. \A w \in Workers : s \notin workers[w].names
    BY <2>1 DEF NamesAreServed, RegistryAgrees, RemoveWorker
  <2> QED
    BY <1>1, <2>4, <2>5, <2>6 DEF UnprocessedMeansUnregistered
<1> QED
  BY <1>2, <1>3

LEMMA UnprocessedStep ==
  ASSUME RoutingInv, RegistryAgrees, NamesAreServed,
         UnprocessedMeansUnregistered, [Next]_vars
  PROVE  UnprocessedMeansUnregistered'
<1>1. ASSUME not_processed' = <<>>  PROVE UnprocessedMeansUnregistered'
  BY <1>1 DEF UnprocessedMeansUnregistered
<1>2. pc # "dispatch" => not_processed = <<>>
  BY DEF RoutingInv, OneInHand, NothingInHand, Queued, Unserved
<1>3. CASE (\E p \in Peers : Receive(p)) \/ PollTimeout \/ Purge
  BY <1>1, <1>2, <1>3
     DEF Receive, HandleWorkerMessage, HandleClientMessage, PollTimeout, Purge
<1>4. ASSUME NEW s \in Services, Dispatch(s)
      PROVE  UnprocessedMeansUnregistered'
  BY <1>4, RefusedWithoutWorker
<1>5. CASE ReplyNotProcessed
  <2>1. PICK r \in Request : not_processed = <<r>>
    BY <1>5 DEF ReplyNotProcessed, RoutingInv, OneInHand, NothingInHand, Queued,
                Unserved
  <2>2. not_processed' = <<>>
    BY <1>5, <2>1 DEF ReplyNotProcessed
  <2> QED
    BY <1>1, <2>2
<1>6. CASE FinishDispatch
  BY <1>1, <1>6 DEF FinishDispatch, brokerVars
<1>7. CASE Tick
  <2>1. \A w \in Workers : /\ workers'[w].names = workers[w].names
                           /\ workers'[w].known = workers[w].known
    BY <1>7 DEF Tick, RoutingInv, TypeOK, WorkerRecord
  <2> QED
    BY <1>7, <2>1 DEF Tick, UnprocessedMeansUnregistered
<1>8. CASE \/ \E w \in Workers : WorkerConnect(w) \/ Heartbeat(w) \/ Deconnect(w)
           \/ \E w \in Workers, r \in Request : Respond(w, r)
           \/ \E c \in Clients, s \in Services : ClientRequest(c, s)
           \/ UNCHANGED vars
  <2>1. UNCHANGED <<workers, not_processed>>
    BY <1>8 DEF WorkerConnect, Heartbeat, Deconnect, Respond, ClientRequest,
                brokerVars, vars
  <2> QED
    BY <2>1 DEF UnprocessedMeansUnregistered
<1> QED
  BY <1>3, <1>4, <1>5, <1>6, <1>7, <1>8 DEF Next, Broker, Environment

(***************************************************************************)
(* When no service has two providers, a client is told that its request    *)
(* was not processed only if no known worker provides the service, as      *)
(* client.cpp:209 reads it.  With two providers the leave of one is enough *)
(* to break it (broker.cpp:456).                                           *)
(***************************************************************************)
THEOREM RefusedOnlyIfUnregistered ==
  ASSUME \A v, w \in Workers : v # w => Offers[v] \cap Offers[w] = {}
  PROVE  Spec => []UnprocessedMeansUnregistered
<1>1. Init => OffersOnly /\ NamesAreServed /\ UnprocessedMeansUnregistered
  BY DEF Init, OffersOnly, NamesAreServed, UnprocessedMeansUnregistered,
         NoWorker, Peers
<1>2. TypeOK /\ RegistryAgrees /\ OffersOnly /\ NamesAreServed /\ [Next]_vars
        => OffersOnly' /\ NamesAreServed'
  BY ServedStep
<1>3. RoutingInv /\ RegistryAgrees /\ NamesAreServed
        /\ UnprocessedMeansUnregistered /\ [Next]_vars
          => UnprocessedMeansUnregistered'
  BY UnprocessedStep
<1> QED
  BY <1>1, <1>2, <1>3, TypeCorrect, RegistryConsistent, RoutingHolds, PTL DEF Spec
=============================================================================
