------------------------- MODULE RemoteCaller_proofs -------------------------
(***************************************************************************)
(* Proofs about RemoteCaller, for any threads, services, arguments and     *)
(* bounds.  What is proved of its two halves, each with the environment    *)
(* its own module gives it, is taken over: a step of RemoteCaller is a     *)
(* step of either of them, or leaves it alone.                             *)
(***************************************************************************)
EXTENDS RemoteCaller, TLAPS, SequenceTheorems, WellFoundedInduction

CP == INSTANCE RpcClient_proofs
WP == INSTANCE RpcWorker_proofs WITH
        Clients <- {Me}, MaxSerial <- MaxTime + 1,
        MayLeave <- FALSE, MayDestroy <- FALSE, MayReconnect <- FALSE

-----------------------------------------------------------------------------
(***************************************************************************)
(* The two modules with the proofs are the two modules.                    *)
(***************************************************************************)
LEMMA SameClient ==
  /\ C!Init <=> CP!Init
  /\ C!Next <=> CP!Next
  /\ C!vars = CP!vars
<1>1. C!vars = CP!vars /\ (C!Init <=> CP!Init)
  BY DEF C!vars, CP!vars, C!settings, CP!settings, C!Init, CP!Init
<1>2. ASSUME NEW s, NEW t, NEW r
      PROVE  C!Call(s, t, r) <=> CP!Call(s, t, r)
  BY DEF C!Call, CP!Call, C!RequestTimes, CP!RequestTimes, C!RequestTimeout,
     CP!RequestTimeout, C!Wait, CP!Wait, C!Narrow, CP!Narrow, C!Forever,
     CP!Forever, C!settings, CP!settings
<1>3. C!SyncCall <=> CP!SyncCall
  BY DEF C!SyncCall, CP!SyncCall, C!SendRequest, CP!SendRequest, C!NewRequest,
     CP!NewRequest, C!ReturnEmpty, CP!ReturnEmpty, C!TimedOut,
     CP!TimedOut, C!Reconnect, CP!Reconnect, C!Readable, CP!Readable,
     C!Ignore, CP!Ignore, C!Accept, CP!Accept, C!Stale, CP!Stale, C!Wait,
     CP!Wait, C!Narrow, CP!Narrow, C!Forever, CP!Forever, C!callVars,
     CP!callVars, C!settings, CP!settings
<1>4. /\ \A t : C!SetTimeout(t) <=> CP!SetTimeout(t)
      /\ \A n : C!SetRerties(n) <=> CP!SetRerties(n)
      /\ C!ConnectAgain <=> CP!ConnectAgain
      /\ C!Tick <=> CP!Tick
  BY DEF C!SetTimeout, CP!SetTimeout, C!SetRerties, CP!SetRerties, C!Set, CP!Set,
     C!ConnectAgain, CP!ConnectAgain, C!Tick, CP!Tick, C!callVars,
     CP!callVars, C!settings, CP!settings
<1>5. /\ \A q, h : C!Answer(q, h) <=> CP!Answer(q, h)
      /\ \A q : C!Lose(q) <=> CP!Lose(q)
  BY DEF C!Answer, CP!Answer, C!Lose, CP!Lose, C!callVars, CP!callVars, C!settings,
     CP!settings
<1>6. C!Next <=> CP!Next
  BY <1>2, <1>3, <1>4, <1>5 DEF C!Next, CP!Next
<1> QED
  BY <1>1, <1>6

LEMMA SameWorker ==
  /\ W!Init <=> WP!Init
  /\ W!Next <=> WP!Next
  /\ W!vars = WP!vars
<1> USE DEF W!mainVars, WP!mainVars, W!ioVars, WP!ioVars, W!handlerVars,
     WP!handlerVars, W!brokerVars, WP!brokerVars
<1>1. W!vars = WP!vars /\ (W!Init <=> WP!Init)
  BY DEF W!vars, WP!vars, W!Init, WP!Init, W!Queues, WP!Queues
<1>2. W!Main <=> WP!Main
  BY DEF W!Main, WP!Main, W!Connect, WP!Connect, W!Connected, WP!Connected,
     W!Deconnect, WP!Deconnect, W!SendUnconnect, WP!SendUnconnect,
     W!DeconnectReceives, WP!DeconnectReceives, W!Destroy, WP!Destroy,
     W!Joined, WP!Joined, W!Reconnect, WP!Reconnect, W!Terminate,
     WP!Terminate, W!Success, WP!Success
<1>3. W!Io <=> WP!Io
  BY DEF W!Io, WP!Io, W!IoStart, WP!IoStart, W!IoSpawn, WP!IoSpawn, W!IoEnter,
     WP!IoEnter, W!IoLoop, WP!IoLoop, W!IoPoll, WP!IoPoll,
     W!IoPollsClosed, WP!IoPollsClosed,
     W!IoReceive, WP!IoReceive, W!IoTryOne, WP!IoTryOne, W!IoTryTwo,
     WP!IoTryTwo, W!IoTry, WP!IoTry, W!IoPushOne, WP!IoPushOne,
     W!IoPushTwo, WP!IoPushTwo, W!IoPush, WP!IoPush, W!IoBeat, WP!IoBeat,
     W!Success, WP!Success
<1>4. W!Handler <=> WP!Handler
  BY DEF W!Handler, WP!Handler, W!HandlerLoop, WP!HandlerLoop,
     W!HandlerCheckOne, WP!HandlerCheckOne, W!HandlerCheckTwo,
     WP!HandlerCheckTwo, W!HandlerTryOne, WP!HandlerTryOne,
     W!HandlerTryTwo, WP!HandlerTryTwo, W!HandlerTry, WP!HandlerTry,
     W!HandlerPopOne, WP!HandlerPopOne, W!HandlerPopTwo, WP!HandlerPopTwo,
     W!HandlerPop, WP!HandlerPop, W!HandlerWorkOne, WP!HandlerWorkOne,
     W!HandlerWorkTwo, WP!HandlerWorkTwo, W!HandlerWorkOn,
     WP!HandlerWorkOn, W!Skip, WP!Skip, W!IsHistory, WP!IsHistory,
     W!StartCall, WP!StartCall, W!HandlerReplyOne, WP!HandlerReplyOne,
     W!HandlerReplyTwo, WP!HandlerReplyTwo, W!HandlerReply,
     WP!HandlerReply
<1>5. /\ W!BrokerAnswers <=> WP!BrokerAnswers
      /\ W!Aborted <=> WP!Aborted
  BY DEF W!BrokerAnswers, WP!BrokerAnswers, W!Aborted, WP!Aborted, W!Success,
     WP!Success
<1>6. \A c, n : W!BrokerForwards(c, n) <=> WP!BrokerForwards(c, n)
  BY DEF W!BrokerForwards, WP!BrokerForwards, W!Receive, WP!Receive, W!Registered,
     WP!Registered, W!Left, WP!Left
<1>7. W!Next <=> WP!Next
  BY <1>2, <1>3, <1>4, <1>5, <1>6 DEF W!Next, WP!Next
<1> QED
  BY <1>1, <1>7

-----------------------------------------------------------------------------
(***************************************************************************)
(* The client's half: every step of RemoteCaller is one of RpcClient.      *)
(***************************************************************************)
LEMMA ClientStep == [Next]_vars => [C!Next]_(C!vars)
<1> SUFFICES ASSUME [Next]_vars PROVE [C!Next]_(C!vars)
  OBVIOUS
<1> USE DEF clientVars
<1>1. CASE UNCHANGED clientVars
  BY <1>1 DEF C!vars, C!settings
<1>2. CASE UNCHANGED vars
  BY <1>1, <1>2 DEF vars
<1>3. ASSUME ~Stopped, NEW t \in Threads, NEW s \in Services,
             NEW ms \in TimeoutArgs, NEW r \in RetryArgs, SyncCall(t, s, ms, r)
      PROVE  C!Next
  BY <1>3 DEF Stopped, SyncCall, C!Next
<1>4. ASSUME ~Stopped, Call
      PROVE  C!Next
  BY <1>4 DEF Stopped, Call, SendRequest, AwaitAnswer, C!Next, C!SyncCall
<1>5. ASSUME ~Stopped, NEW q \in network, Refuse(q) \/ Answer(q) \/ Lose(q)
      PROVE  C!Next
  BY <1>5 DEF Stopped, Refuse, Answer, Lose, C!Next
<1>6. ASSUME ~Stopped, Tick
      PROVE  C!Next
  BY <1>6 DEF Stopped, Tick, C!Next
<1>7. ASSUME \/ \E s \in Services : RegisterService(s)
             \/ WorkerConnect \/ WorkerConnected \/ Worker
             \/ \E t \in Threads : Return(t)
             \/ \E q \in network : Forward(q)
      PROVE  UNCHANGED clientVars
  BY <1>7 DEF RegisterService, WorkerConnect, WorkerConnected, Worker, Return,
              Forward
<1> QED
  BY <1>1, <1>2, <1>3, <1>4, <1>5, <1>6, <1>7 DEF Next

LEMMA ClientAlone == Spec => CP!Spec
<1>1. Init => CP!Init
  BY SameClient DEF Init
<1>2. [Next]_vars => [CP!Next]_(CP!vars)
  BY ClientStep, SameClient DEF C!vars, CP!vars, C!settings, CP!settings
<1> QED
  BY <1>1, <1>2, PTL DEF Spec, CP!Spec

\* What is taken over of RpcClient.
ClientFacts ==
  /\ C!TypeOK
  /\ C!OwnAnswerOnly
  /\ serial <= now
  /\ pc # "idle" => returned = "nothing"
  /\ pc = "read" => socket # <<>>
  /\ \A q \in network : \/ q.call = calls /\ q.serial = serial
                        \/ q.call < calls

LEMMA ClientInvariance == Spec => []ClientFacts
<1>1. CP!ClientInv => ClientFacts
  <2> SUFFICES ASSUME CP!ClientInv PROVE ClientFacts
    OBVIOUS
  <2>1. C!TypeOK /\ C!OwnAnswerOnly
    BY DEF CP!ClientInv, CP!AcceptedOwn, C!TypeOK, CP!TypeOK, C!OwnAnswerOnly,
       CP!OwnAnswerOnly, C!Request, CP!Request, C!Response, CP!Response
  <2>2. /\ serial <= now /\ (pc # "idle" => returned = "nothing")
        /\ pc = "read" => socket # <<>>
    BY DEF CP!ClientInv, CP!TimePasses, CP!AttemptsCounted, CP!HasAnswer
  <2>3. \A q \in network : \/ q.call = calls /\ q.serial = serial
                           \/ q.call < calls
    BY DEF CP!ClientInv, CP!PendingKnown, CP!Pending, CP!OfThisCall,
       CP!OfEarlierCall
  <2> QED
    BY <2>1, <2>2, <2>3 DEF ClientFacts
<1>2. CP!Spec => []CP!ClientInv
  BY CP!Invariance, HalvesAssumption
<1> QED
  BY <1>1, <1>2, ClientAlone, PTL

-----------------------------------------------------------------------------
(***************************************************************************)
(* The worker's half.  The requests on their way to the worker are in the  *)
(* order of their serial numbers, and no earlier than the latest one the   *)
(* worker got.                                                             *)
(***************************************************************************)
Ordered(q, low, high) ==
  /\ \A i \in 1..Len(q) : low <= q[i].serial + 1 /\ q[i].serial <= high
  /\ \A i, j \in 1..Len(q) : i < j => q[i].serial <= q[j].serial

LineInv ==
  /\ line \in Seq(C!Request)
  /\ last \in [{Me} -> Nat]
  /\ last[Me] <= serial + 1
  /\ Ordered(line, last[Me], serial)
  /\ main \in {"new", "registering", "idle"} /\ taken = <<>>

\* What the steps of the worker leave to the broker.
WorkerStep == WorkerConnect \/ WorkerConnected \/ Worker

LEMMA WorkerKeeps ==
  ASSUME WorkerStep
  PROVE  /\ UNCHANGED <<last, delivered, clientVars, services, callerVars,
                        brokerVars, taken>>
         /\ main' = main \/ main' = "registering" \/ main' = "idle"
         /\ processed \subseteq processed'
<1> USE DEF namesVars, W!mainVars, W!ioVars, W!handlerVars, W!brokerVars
<1>1. CASE WorkerConnect
  BY <1>1 DEF WorkerConnect, W!Connect
<1>2. CASE WorkerConnected
  BY <1>2 DEF WorkerConnected, W!Connected
<1>3. CASE Worker
  BY <1>3 DEF Worker, W!Io, W!IoStart, W!IoSpawn, W!IoEnter, W!IoLoop,
     W!IoPoll, W!IoPollsClosed, W!IoReceive, W!IoTryOne, W!IoTryTwo, W!IoTry, W!IoPushOne,
     W!IoPushTwo, W!IoPush, W!IoBeat, W!Handler, W!HandlerLoop,
     W!HandlerCheckOne, W!HandlerCheckTwo, W!HandlerTryOne,
     W!HandlerTryTwo, W!HandlerTry,
     W!HandlerPopOne, W!HandlerPopTwo, W!HandlerPop, W!HandlerWorkOne,
     W!HandlerWorkTwo, W!HandlerWorkOn, W!Skip, W!StartCall,
     W!HandlerReplyOne, W!HandlerReplyTwo, W!HandlerReply, W!BrokerAnswers
<1> QED
  BY <1>1, <1>2, <1>3 DEF WorkerStep

\* A set of numbers that is not empty has a least one.
LEMMA LeastNumber ==
  ASSUME NEW T \in SUBSET Nat, T # {}
  PROVE  \E n \in T : \A m \in T : n <= m
<1>1. IsWellFoundedOn(OpToRel(<, Nat), Nat)
  BY NatLessThanWellFounded
<1>2. PICK n \in T : \A m \in T : ~(<<m, n>> \in OpToRel(<, Nat))
  BY <1>1, WFMin
<1>3. \A m \in T : ~(m < n)
  BY <1>2 DEF OpToRel
<1> QED
  BY <1>3

\* What is left of a sequence is in the same order.
LEMMA RemoveAtProperties ==
  ASSUME NEW S, NEW q \in Seq(S), NEW k \in 1..Len(q)
  PROVE  /\ RemoveAt(q, k) \in Seq(S)
         /\ Len(RemoveAt(q, k)) = Len(q) - 1
         /\ \A i \in 1..(Len(q) - 1) :
              RemoveAt(q, k)[i] = IF i < k THEN q[i] ELSE q[i + 1]
<1>1. PICK n \in Nat : n = Len(q) /\ k \in 1..n
  OBVIOUS
<1>2. PICK a : a = SubSeq(q, 1, k - 1)
  OBVIOUS
<1>3. PICK b : b = SubSeq(q, k + 1, n)
  OBVIOUS
<1>4. a \in Seq(S) /\ Len(a) = k - 1 /\ \A i \in 1..(k - 1) : a[i] = q[i]
  <2>1. /\ k - 1 \in Nat /\ 1 \in Int /\ k - 1 \in Int
        /\ \A i \in 1..(k - 1) : i \in 1..Len(q) /\ q[i] \in S
    BY <1>1
  <2> QED
    BY <1>2, <2>1, SubSeqProperties
<1>5. b \in Seq(S) /\ Len(b) = n - k /\ \A i \in 1..(n - k) : b[i] = q[k + i]
  <2>1. /\ k + 1 \in Int /\ n \in Int
        /\ \A i \in (k + 1)..n : i \in 1..Len(q) /\ q[i] \in S
    BY <1>1
  <2>2. /\ b \in Seq(S)
        /\ Len(b) = IF k + 1 <= n THEN n - (k + 1) + 1 ELSE 0
        /\ \A i \in 1..(n - (k + 1) + 1) : b[i] = q[(k + 1) + i - 1]
    BY <1>3, <2>1, SubSeqProperties
  <2>3. Len(b) = n - k
    BY <1>1, <2>2
  <2>4. \A i \in 1..(n - k) : i \in 1..(n - (k + 1) + 1) /\ (k + 1) + i - 1 = k + i
    BY <1>1
  <2> QED
    BY <2>2, <2>3, <2>4
<1>6. RemoveAt(q, k) = a \o b
  BY <1>1, <1>2, <1>3 DEF RemoveAt
<1>7. /\ a \o b \in Seq(S) /\ Len(a \o b) = n - 1
      /\ \A i \in 1..(n - 1) : (a \o b)[i] = IF i <= k - 1 THEN a[i]
                                             ELSE b[i - (k - 1)]
  <2>1. Len(a) + Len(b) = n - 1
    BY <1>1, <1>4, <1>5
  <2>2. a \o b \in Seq(S) /\ Len(a \o b) = n - 1
    BY <1>4, <1>5, <2>1, ConcatProperties
  <2>3. \A i \in 1..(Len(a) + Len(b)) :
          (a \o b)[i] = IF i <= Len(a) THEN a[i] ELSE b[i - Len(a)]
    BY <1>4, <1>5, ConcatProperties, Zenon
  <2> QED
    BY <1>4, <2>1, <2>2, <2>3
<1>8. ASSUME NEW i \in 1..(n - 1)
      PROVE  (a \o b)[i] = IF i < k THEN q[i] ELSE q[i + 1]
  <2>1. CASE i < k
    BY <1>4, <1>7, <2>1
  <2>2. CASE ~(i < k)
    <3>1. i - (k - 1) \in 1..(n - k) /\ k + (i - (k - 1)) = i + 1
      BY <1>1, <2>2
    <3> QED
      BY <1>5, <1>7, <2>2, <3>1
  <2> QED
    BY <2>1, <2>2
<1> QED
  BY <1>1, <1>6, <1>7, <1>8

LEMMA RemoveFirstIsRemoveAt ==
  ASSUME NEW S, NEW q \in Seq(S), NEW e
  PROVE  \/ RemoveFirst(q, e) = q
         \/ \E k \in 1..Len(q) : RemoveFirst(q, e) = RemoveAt(q, k)
<1>1. CASE ~\E i \in 1..Len(q) : q[i] = e
  BY <1>1 DEF RemoveFirst
<1>2. CASE \E i \in 1..Len(q) : q[i] = e
  <2> DEFINE I == {i \in 1..Len(q) : q[i] = e}
  <2>1. I # {} /\ I \subseteq Nat
    BY <1>2
  <2>2. \E n \in I : \A m \in I : n <= m
    BY <2>1, LeastNumber
  <2>3. Min(I) \in I
    BY <2>2 DEF Min
  <2>4. RemoveFirst(q, e) = RemoveAt(q, Min(I))
    BY <1>2, <2>1 DEF RemoveFirst, SelectInSeq
  <2> QED
    BY <2>3, <2>4
<1> QED
  BY <1>1, <1>2

LEMMA RemoveFirstOrdered ==
  ASSUME NEW q \in Seq(C!Request), NEW e, NEW low \in Nat, NEW high \in Nat,
         Ordered(q, low, high)
  PROVE  /\ RemoveFirst(q, e) \in Seq(C!Request)
         /\ Ordered(RemoveFirst(q, e), low, high)
<1>1. CASE RemoveFirst(q, e) = q
  BY <1>1
<1>2. ASSUME NEW k \in 1..Len(q), RemoveFirst(q, e) = RemoveAt(q, k)
      PROVE  /\ RemoveFirst(q, e) \in Seq(C!Request)
             /\ Ordered(RemoveFirst(q, e), low, high)
  <2>1. PICK r \in Seq(C!Request) : r = RemoveFirst(q, e)
    BY <1>2, RemoveAtProperties
  <2>2. PICK n \in Nat : n = Len(q) /\ k \in 1..n
    OBVIOUS
  <2>3. /\ Len(r) = n - 1
        /\ \A i \in 1..(n - 1) : r[i] = IF i < k THEN q[i] ELSE q[i + 1]
    BY <1>2, <2>1, <2>2, RemoveAtProperties
  <2>4. ASSUME NEW i \in 1..(n - 1)
        PROVE  low <= r[i].serial + 1 /\ r[i].serial <= high
    <3>1. i \in 1..n /\ i + 1 \in 1..n
      BY <2>2
    <3> QED
      BY <2>2, <2>3, <3>1 DEF Ordered
  <2>5. ASSUME NEW i \in 1..(n - 1), NEW j \in 1..(n - 1), i < j
        PROVE  r[i].serial <= r[j].serial
    <3>1. PICK f \in 1..n, g \in 1..n : f < g /\ r[i] = q[f] /\ r[j] = q[g]
      <4>1. CASE j < k
        BY <2>2, <2>3, <2>5, <4>1
      <4>2. CASE i < k /\ ~(j < k)
        <5>1. i \in 1..n /\ j + 1 \in 1..n /\ i < j + 1
          BY <2>2, <2>5
        <5> QED
          BY <2>3, <4>2, <5>1
      <4>3. CASE ~(i < k)
        <5>1. i + 1 \in 1..n /\ j + 1 \in 1..n /\ i + 1 < j + 1 /\ ~(j < k)
          BY <2>2, <2>5, <4>3
        <5> QED
          BY <2>3, <4>3, <5>1
      <4> QED
        BY <2>5, <4>1, <4>2, <4>3
    <3> QED
      BY <2>2, <3>1 DEF Ordered
  <2>6. Ordered(r, low, high)
    BY <2>3, <2>4, <2>5 DEF Ordered
  <2> QED
    BY <2>1, <2>6
<1> QED
  BY <1>1, <1>2, RemoveFirstIsRemoveAt

LEMMA LineStep ==
  ASSUME LineInv, ClientFacts, ClientFacts', [Next]_vars
  PROVE  LineInv'
<1> USE DEF clientVars, workerVars
<1>1. /\ serial \in Nat /\ serial' \in Nat /\ now \in Nat
      /\ serial <= now
    BY HalvesAssumption DEF ClientFacts, C!TypeOK
<1>2. /\ last \in [{Me} -> Nat] /\ last[Me] \in Nat /\ line \in Seq(C!Request)
    BY DEF LineInv
<1>3. \A i \in 1..Len(line) : line[i].serial \in Nat
  <2> TAKE i \in 1..Len(line)
  <2>1. line[i] \in C!Request
    BY <1>2
  <2> QED
    BY <2>1 DEF C!Request
<1>4. ASSUME UNCHANGED <<last, serial, main, taken>>,
             \/ UNCHANGED line
             \/ \E q : line' = RemoveFirst(line, q)
      PROVE  LineInv'
  <2>1. line' \in Seq(C!Request) /\ Ordered(line', last[Me], serial)
    BY <1>1, <1>2, <1>4, RemoveFirstOrdered DEF LineInv
  <2> QED
    BY <1>4, <2>1 DEF LineInv
<1>5. CASE WorkerStep
  <2>1. /\ UNCHANGED <<last, line, serial, taken>>
        /\ main' = main \/ main' = "registering" \/ main' = "idle"
    BY <1>5, WorkerKeeps DEF brokerVars
  <2> QED
    BY <2>1 DEF LineInv
<1>6. ASSUME NEW t \in Threads, NEW s \in Services, NEW ms \in TimeoutArgs,
             NEW r \in RetryArgs, SyncCall(t, s, ms, r)
      PROVE  LineInv'
  <2>1. serial' = now /\ UNCHANGED <<last, line, main, taken>>
    BY <1>6 DEF SyncCall, C!Call, brokerVars
  <2>2. \A i \in 1..Len(line) : line[i].serial <= now
    BY <1>1, <1>3 DEF LineInv, Ordered
  <2>3. Ordered(line, last[Me], now) /\ last[Me] <= now + 1
    BY <1>1, <1>2, <2>2 DEF LineInv, Ordered
  <2> QED
    BY <2>1, <2>3 DEF LineInv
<1>7. CASE SendRequest
  <2>1. PICK q : q = C!NewRequest
    OBVIOUS
  <2>2. line' = Append(line, q) /\ UNCHANGED <<last, serial, main, taken>>
    BY <1>7, <2>1 DEF SendRequest, C!SendRequest, C!callVars
  <2>3. q \in C!Request /\ q.serial = serial
    BY <2>1, HalvesAssumption DEF C!NewRequest, C!Request, ClientFacts, C!TypeOK
  <2>4. PICK n \in Nat : n = Len(line)
    BY <1>2
  <2>5. /\ line' \in Seq(C!Request) /\ Len(line') = n + 1
        /\ \A i \in 1..(n + 1) : line'[i] = IF i = n + 1 THEN q ELSE line[i]
    BY <1>2, <2>2, <2>3, <2>4, AppendProperties
  <2>6. ASSUME NEW i \in 1..(n + 1)
        PROVE  last[Me] <= line'[i].serial + 1 /\ line'[i].serial <= serial
    BY <1>1, <2>3, <2>4, <2>5 DEF LineInv, Ordered
  <2>7. ASSUME NEW i \in 1..(n + 1), NEW j \in 1..(n + 1), i < j
        PROVE  line'[i].serial <= line'[j].serial
    <3>1. i \in 1..n /\ line'[i] = line[i]
      BY <2>4, <2>5, <2>7
    <3>2. CASE j = n + 1
      BY <2>3, <2>4, <2>5, <3>1, <3>2 DEF LineInv, Ordered
    <3>3. CASE j # n + 1
      BY <2>4, <2>5, <2>7, <3>1, <3>3 DEF LineInv, Ordered
    <3> QED
      BY <3>2, <3>3
  <2>8. Ordered(line', last[Me], serial)
    BY <2>5, <2>6, <2>7 DEF Ordered
  <2> QED
    BY <2>2, <2>5, <2>8 DEF LineInv
<1>8. ASSUME NEW q \in network, Forward(q)
      PROVE  LineInv'
  <2>1. /\ line # <<>> /\ q = Head(line) /\ line' = RemoveFirst(line, q)
        /\ last' = [last EXCEPT ![Me] = q.serial + 1]
        /\ UNCHANGED <<serial, main, taken>>
    BY <1>8 DEF Forward, NextInLine, W!Receive, W!mainVars
  <2>2. q = line[1] /\ Len(line) \in Nat /\ Len(line) >= 1 /\ q \in C!Request
    BY <1>2, <2>1, EmptySeq
  <2>3. q.serial \in Nat /\ q.serial <= serial
    BY <2>2 DEF LineInv, Ordered, C!Request
  <2>4. Ordered(line, q.serial + 1, serial)
    <3>1. ASSUME NEW i \in 1..Len(line)
          PROVE  q.serial + 1 <= line[i].serial + 1 /\ line[i].serial <= serial
      <4>1. line[i].serial \in Nat /\ line[i].serial <= serial
        BY <1>3 DEF LineInv, Ordered
      <4>2. q.serial <= line[i].serial
        BY <2>2, <2>3 DEF LineInv, Ordered
      <4> QED
        BY <2>3, <4>1, <4>2
    <3> QED
      BY <3>1 DEF LineInv, Ordered
  <2>5. line' \in Seq(C!Request) /\ Ordered(line', q.serial + 1, serial)
    BY <1>1, <1>2, <2>1, <2>3, <2>4, RemoveFirstOrdered
  <2>6. last' \in [{Me} -> Nat] /\ last'[Me] = q.serial + 1
    BY <1>2, <2>1, <2>3
  <2> QED
    BY <1>1, <2>1, <2>3, <2>5, <2>6 DEF LineInv
<1>9. ASSUME NEW q \in network, Refuse(q) \/ Answer(q) \/ Lose(q)
      PROVE  LineInv'
  BY <1>4, <1>9 DEF Refuse, Answer, Lose, brokerVars, C!Answer, C!Lose,
                    C!callVars
<1>10. ASSUME \/ \E s \in Services : RegisterService(s)
              \/ \E t \in Threads : Return(t)
              \/ AwaitAnswer \/ Tick \/ UNCHANGED vars
       PROVE  LineInv'
  BY <1>4, <1>10 DEF RegisterService, Return, AwaitAnswer, C!ReturnEmpty,
     C!TimedOut, C!Reconnect, C!Readable, C!Ignore, C!Accept, Tick, C!Tick,
     C!callVars, brokerVars, vars
<1> HIDE DEF clientVars, workerVars
<1> QED
  BY <1>5, <1>6, <1>7, <1>8, <1>9, <1>10 DEF Next, WorkerStep, Call

LEMMA LineInvariance == Spec => []LineInv
<1>1. Init => LineInv
  <2> SUFFICES ASSUME Init PROVE LineInv
    OBVIOUS
  <2>1. line = <<>> /\ serial = 0 /\ main = "new" /\ taken = <<>>
    BY DEF Init, C!Init, W!Init
  <2>2. last \in [{Me} -> Nat] /\ last[Me] = 0
    BY DEF Init, W!Init
  <2>3. Ordered(<<>>, 0, 0)
    BY DEF Ordered
  <2> QED
    BY <2>1, <2>2, <2>3 DEF LineInv
<1> QED
  BY <1>1, LineStep, ClientInvariance, PTL DEF Spec

(***************************************************************************)
(* RemoteCaller implements RpcWorker: whatever the threads call and the    *)
(* broker loses, the worker gets what its own module assumes, serial       *)
(* numbers that never decrease.  The client takes the time under the mutex *)
(* of remote_caller.h:137, and the broker keeps the order.                 *)
(***************************************************************************)
THEOREM WorkerGetsWhatItAssumes == Spec => WorkerAlone
<1>1. Init => W!Init
  BY DEF Init
<1>2. ASSUME LineInv, ClientFacts, [Next]_vars
      PROVE  [W!Next]_(W!vars)
  <2> USE DEF workerVars
  <2>1. CASE UNCHANGED workerVars
    BY <2>1 DEF W!vars
  <2>2. ASSUME ~Stopped, WorkerStep
        PROVE  W!Next
    BY <2>2 DEF Stopped, WorkerStep, WorkerConnect, WorkerConnected, Worker,
                W!Next, W!Main
  <2>3. ASSUME ~Stopped, NEW q \in network, Forward(q)
        PROVE  W!Next
    <3>1. /\ line # <<>> /\ q = Head(line) /\ line \in Seq(C!Request)
          /\ W!Registered /\ delivered < MaxRequests
          /\ W!Receive(Me, q.serial + 1)
      BY <1>2, <2>3 DEF Forward, NextInLine, Serves, LineInv
    <3>2. q = line[1] /\ Len(line) \in Nat /\ Len(line) >= 1 /\ q \in C!Request
      BY <3>1, EmptySeq
    <3>3. /\ q.serial \in Nat /\ last[Me] <= q.serial + 1 /\ q.serial <= serial
          /\ serial \in 0..MaxTime /\ MaxTime \in Nat
      <4>1. q.serial \in Nat /\ serial \in 0..MaxTime /\ MaxTime \in Nat
        BY <1>2, <3>2, HalvesAssumption DEF C!Request, ClientFacts, C!TypeOK
      <4> QED
        BY <1>2, <3>2, <4>1 DEF LineInv, Ordered
    <3>4. q.serial + 1 \in 1..(MaxTime + 1)
      BY <3>3
    <3>5. ~W!Left
      BY <1>2 DEF LineInv, W!Left
    <3>6. last[Me] \in Nat
      BY <1>2 DEF LineInv
    <3>7. W!BrokerForwards(Me, q.serial + 1)
      BY <3>1, <3>3, <3>5, <3>6 DEF W!BrokerForwards
    <3> QED
      BY <2>3, <3>4, <3>7 DEF Stopped, W!Next
  <2>4. ASSUME \/ \E s \in Services : RegisterService(s)
               \/ \E t \in Threads :
                    \/ Return(t)
                    \/ \E s \in Services, ms \in TimeoutArgs, r \in RetryArgs :
                         SyncCall(t, s, ms, r)
               \/ Call \/ Tick \/ UNCHANGED vars
               \/ \E q \in network : Refuse(q) \/ Answer(q) \/ Lose(q)
        PROVE  UNCHANGED workerVars
    BY <2>4 DEF RegisterService, Return, SyncCall, Call, SendRequest,
                AwaitAnswer, Tick, Refuse, Answer, Lose, vars
  <2> QED
    BY <1>2, <2>1, <2>2, <2>3, <2>4 DEF Next, WorkerStep
<1> QED
  BY <1>1, <1>2, LineInvariance, ClientInvariance, PTL DEF Spec, WorkerAlone, W!Spec

-----------------------------------------------------------------------------
(***************************************************************************)
(* What is taken over of RpcWorker.                                        *)
(***************************************************************************)
WorkerFacts ==
  /\ W!TypeOK
  /\ \A m \in skipped : \E p \in processed : p.serial > m.serial
  /\ io \in {"push_one", "push_two"} => reading # <<>>
  /\ handler = "pop_one" => tasks["one"] # <<>>
  /\ handler = "pop_two" => tasks["two"] # <<>>
  /\ handler \in {"work_one", "call_one", "work_two", "call_two"} =>
       working # <<>>

LEMMA WorkerInvariance == Spec => []WorkerFacts
<1>1. WP!WorkerInv /\ WP!SkippedWasSuperseded => WorkerFacts
  <2> SUFFICES ASSUME WP!WorkerInv, WP!SkippedWasSuperseded PROVE WorkerFacts
    OBVIOUS
  <2>1. W!TypeOK
    BY DEF WP!WorkerInv, W!TypeOK, WP!TypeOK, W!Message, WP!Message, W!Inbound,
       WP!Inbound, W!Success, WP!Success, W!Queues, WP!Queues, W!Owner, WP!Owner
  <2>2. \A m \in skipped : \E p \in processed : p.serial > m.serial
    BY DEF WP!SkippedWasSuperseded
  <2>3. /\ io \in {"push_one", "push_two"} => reading # <<>>
        /\ handler = "pop_one" => tasks["one"] # <<>>
        /\ handler = "pop_two" => tasks["two"] # <<>>
        /\ handler \in {"work_one", "call_one", "work_two", "call_two"} =>
             working # <<>>
    BY DEF WP!WorkerInv, WP!InHand
  <2> QED
    BY <2>1, <2>2, <2>3 DEF WorkerFacts
<1>2. WP!Spec => []WP!WorkerInv
  BY WP!Invariance, HalvesAssumption
<1>3. WP!Spec => []WP!SkippedWasSuperseded
  BY WP!SkippedOnlyIfSuperseded, HalvesAssumption
<1>4. W!Init => WP!Init
  BY SameWorker
<1>5. [W!Next]_(W!vars) => [WP!Next]_(WP!vars)
  BY SameWorker DEF W!vars, WP!vars
<1>6. W!Spec => WP!Spec
  BY <1>4, <1>5, PTL DEF W!Spec, WP!Spec
<1> QED
  BY <1>1, <1>2, <1>3, <1>6, WorkerGetsWhatItAssumes, PTL DEF WorkerAlone

-----------------------------------------------------------------------------
(***************************************************************************)
(* The requests the worker has got, wherever they are, and the requests of *)
(* the client they were.                                                   *)
(***************************************************************************)
Received ==
  (Range(inbound) \ {W!Success}) \cup Range(reading) \cup Range(tasks["one"])
    \cup Range(tasks["two"]) \cup Range(working) \cup processed \cup skipped

LEMMA RangeOfParts ==
  ASSUME NEW S, NEW q \in Seq(S)
  PROVE  /\ q # <<>> => Head(q) \in Range(q) /\ Range(Tail(q)) \subseteq Range(q)
         /\ \A m \in S : Range(Append(q, m)) = Range(q) \cup {m}
         /\ \A m \in S : Range(<<m>>) = {m}
         /\ Range(<<>>) = {}
<1>1. ASSUME q # <<>>
      PROVE  Head(q) \in Range(q) /\ Range(Tail(q)) \subseteq Range(q)
  <2>1. /\ Tail(q) \in Seq(S) /\ Len(Tail(q)) = Len(q) - 1
        /\ Len(q) \in Nat /\ Len(q) >= 1 /\ Head(q) = q[1]
        /\ \A i \in 1..(Len(q) - 1) : Tail(q)[i] = q[i + 1]
    BY <1>1
  <2>2. Head(q) \in Range(q)
    BY <2>1, RangeEquality
  <2>3. ASSUME NEW x \in Range(Tail(q))
        PROVE  x \in Range(q)
    <3>1. PICK i \in 1..(Len(q) - 1) : x = Tail(q)[i]
      <4>1. Range(Tail(q)) = {Tail(q)[i] : i \in 1..Len(Tail(q))}
        BY <2>1, RangeEquality, Zenon
      <4> QED
        BY <2>1, <2>3, <4>1
    <3>2. i + 1 \in 1..Len(q) /\ x = q[i + 1]
      BY <2>1, <3>1
    <3> QED
      BY <3>2, RangeEquality
  <2> QED
    BY <2>2, <2>3
<1>2. \A m \in S : <<m>> \in Seq(S) /\ Range(<<m>>) = {m}
  <2> TAKE m \in S
  <2>1. <<m>> \in Seq(S) /\ Len(<<m>>) = 1 /\ <<m>>[1] = m
    OBVIOUS
  <2>2. Range(<<m>>) = {<<m>>[i] : i \in 1..1}
    BY <2>1, RangeEquality
  <2> QED
    BY <2>1, <2>2
<1>3. ASSUME NEW m \in S
      PROVE  Range(Append(q, m)) = Range(q) \cup {m}
  <2>1. Append(q, m) = q \o <<m>>
    BY AppendIsConcat
  <2>2. PICK r \in Seq(S) : r = <<m>>
    BY <1>2
  <2>3. Range(q \o r) = Range(q) \cup Range(r)
    BY RangeConcatenation
  <2> QED
    BY <1>2, <2>1, <2>2, <2>3
<1>4. Range(<<>>) = {}
  BY DEF Range
<1> QED
  BY <1>1, <1>2, <1>3, <1>4

\* The worker makes up no request.
LEMMA ReceivedStep ==
  ASSUME WorkerFacts, WorkerStep
  PROVE  Received' \subseteq Received
<1> USE DEF W!mainVars, W!ioVars, W!handlerVars, W!brokerVars
<1>1. /\ inbound \in Seq(W!Inbound) /\ reading \in Seq(W!Message)
      /\ working \in Seq(W!Message)
      /\ tasks \in [{"one", "two"} -> Seq(W!Message)]
      /\ tasks["one"] \in Seq(W!Message) /\ tasks["two"] \in Seq(W!Message)
  BY DEF WorkerFacts, W!TypeOK, W!Queues
<1>2. W!Success \in W!Inbound
  BY DEF W!Inbound
<1>3. CASE UNCHANGED <<inbound, reading, tasks, working, processed, skipped>>
  BY <1>3 DEF Received
<1>4. CASE WorkerConnect
  BY <1>3, <1>4 DEF WorkerConnect, W!Connect
<1>5. CASE WorkerConnected
  <2>1. /\ inbound # <<>> /\ inbound' = Tail(inbound)
        /\ UNCHANGED <<reading, tasks, working, processed, skipped>>
    BY <1>5 DEF WorkerConnected, W!Connected
  <2>2. Range(inbound') \subseteq Range(inbound)
    BY <1>1, <2>1, RangeOfParts
  <2> QED
    BY <2>1, <2>2 DEF Received
<1>6. CASE W!BrokerAnswers
  <2>1. /\ inbound' = Append(inbound, W!Success)
        /\ UNCHANGED <<reading, tasks, working, processed, skipped>>
    BY <1>6 DEF W!BrokerAnswers
  <2>2. Range(inbound') = Range(inbound) \cup {W!Success}
    BY <1>1, <1>2, <2>1, RangeOfParts
  <2> QED
    BY <2>1, <2>2 DEF Received
<1>7. CASE W!IoReceive
  <2>1. PICK m : m = Head(inbound)
    OBVIOUS
  <2>2. /\ inbound # <<>> /\ inbound' = Tail(inbound)
        /\ \/ reading' = reading
           \/ m # W!Success /\ reading' = <<m>>
        /\ UNCHANGED <<tasks, working, processed, skipped>>
    BY <1>7, <2>1 DEF W!IoReceive
  <2>3. Range(inbound') \subseteq Range(inbound) /\ m \in Range(inbound)
    BY <1>1, <2>1, <2>2, RangeOfParts
  <2>4. m \in W!Inbound
    BY <1>1, <2>1, <2>2, HeadTailProperties, Zenon
  <2>5. Range(<<m>>) = {m}
    BY <1>1, <2>4, RangeOfParts
  <2>6. Range(reading') \subseteq Range(reading) \cup (Range(inbound) \ {W!Success})
    BY <2>2, <2>3, <2>5
  <2> QED
    BY <2>2, <2>3, <2>6 DEF Received
<1>8. CASE W!IoPushOne \/ W!IoPushTwo
  <2>1. PICK q \in {"one", "two"} : W!IoPush(q)
    BY <1>8 DEF W!IoPushOne, W!IoPushTwo
  <2>2. /\ tasks' = [tasks EXCEPT ![q] = tasks[q] \o reading]
        /\ reading' = <<>>
        /\ UNCHANGED <<inbound, working, processed, skipped>>
    BY <2>1 DEF W!IoPush
  <2>3. Range(tasks[q] \o reading) = Range(tasks[q]) \cup Range(reading)
    BY <1>1, RangeConcatenation
  <2>4. Range(reading') = {}
    BY <1>1, <2>2, RangeOfParts
  <2>5. /\ tasks'[q] = tasks[q] \o reading
        /\ \A p \in {"one", "two"} : p # q => tasks'[p] = tasks[p]
    BY <1>1, <2>2
  <2> QED
    BY <2>2, <2>3, <2>4, <2>5 DEF Received
<1>9. CASE W!HandlerPopOne \/ W!HandlerPopTwo
  <2>1. PICK q \in {"one", "two"} :
          tasks[q] # <<>> /\ \E next : W!HandlerPop(q, next)
    BY <1>9 DEF W!HandlerPopOne, W!HandlerPopTwo, WorkerFacts
  <2>2. PICK m : m = Head(tasks[q])
    OBVIOUS
  <2>3. /\ working' = <<m>>
        /\ tasks' = [tasks EXCEPT ![q] = Tail(tasks[q])]
        /\ UNCHANGED <<inbound, reading, processed, skipped>>
    BY <2>1, <2>2 DEF W!HandlerPop
  <2>4. /\ m \in W!Message /\ m \in Range(tasks[q])
        /\ Range(Tail(tasks[q])) \subseteq Range(tasks[q])
    <3>1. m \in W!Message
      BY <1>1, <2>1, <2>2, HeadTailProperties, Zenon
    <3> QED
      BY <1>1, <2>1, <2>2, <3>1, RangeOfParts
  <2>5. Range(working') = {m}
    BY <1>1, <2>3, <2>4, RangeOfParts
  <2>6. /\ tasks'[q] = Tail(tasks[q])
        /\ \A p \in {"one", "two"} : p # q => tasks'[p] = tasks[p]
    BY <1>1, <2>3
  <2> QED
    BY <2>3, <2>4, <2>5, <2>6 DEF Received
<1>10. CASE W!HandlerWorkOne \/ W!HandlerWorkTwo \/ W!HandlerReplyOne
              \/ W!HandlerReplyTwo
  <2>1. Head(working) \in Range(working) /\ Range(<<>>) = {}
    BY <1>1, <1>10, RangeOfParts DEF WorkerFacts, W!HandlerWorkOne,
       W!HandlerWorkTwo, W!HandlerReplyOne, W!HandlerReplyTwo
  <2>2. /\ working' = working \/ working' = <<>>
        /\ processed' \subseteq processed \cup {Head(working)}
        /\ skipped' \subseteq skipped \cup {Head(working)}
        /\ UNCHANGED <<inbound, reading, tasks>>
    BY <1>10 DEF W!HandlerWorkOne, W!HandlerWorkTwo, W!HandlerWorkOn, W!Skip,
       W!StartCall, W!HandlerReplyOne, W!HandlerReplyTwo, W!HandlerReply
  <2>3. Range(working') \subseteq Range(working)
    BY <2>1, <2>2
  <2> QED
    BY <2>1, <2>2, <2>3 DEF Received
<1>11. CASE \/ W!IoStart \/ W!IoSpawn \/ W!IoEnter \/ W!IoLoop \/ W!IoPoll
            \/ W!IoPollsClosed \/ W!IoTryOne \/ W!IoTryTwo \/ W!IoBeat
            \/ W!HandlerLoop \/ W!HandlerCheckOne
            \/ W!HandlerCheckTwo \/ W!HandlerTryOne
            \/ W!HandlerTryTwo
  BY <1>3, <1>11 DEF W!IoStart, W!IoSpawn, W!IoEnter, W!IoLoop,
     W!IoPoll, W!IoPollsClosed, W!IoTryOne, W!IoTryTwo, W!IoTry, W!IoBeat, W!HandlerLoop,
     W!HandlerCheckOne, W!HandlerCheckTwo, W!HandlerTryOne,
     W!HandlerTryTwo, W!HandlerTry
<1> QED
  BY <1>4, <1>5, <1>6, <1>7, <1>8, <1>9, <1>10, <1>11
     DEF WorkerStep, Worker, W!Io, W!Handler

(***************************************************************************)
(* A request the worker got has the serial number of the client's request, *)
(* which is that of the current call or one of an earlier call.            *)
(***************************************************************************)
RoutedInv ==
  /\ services \in SUBSET Services /\ announced \in SUBSET services
  /\ routed \in SUBSET [id : 1..MaxRequests, request : C!Request]
  /\ \A r \in routed :
       /\ r.id <= delivered
       /\ \/ r.request.call < calls
          \/ r.request.call = calls /\ r.request.serial = serial
  /\ \A m \in Received :
       /\ m.id <= delivered /\ m.serial <= last[Me]
       /\ \A r \in routed : r.id = m.id => m.serial = r.request.serial + 1

LEMMA ReceivedType ==
  ASSUME WorkerFacts
  PROVE  \A m \in Received : /\ m.id \in Nat /\ m.serial \in Nat
<1>1. Received \subseteq W!Message
  <2>1. Range(inbound) \subseteq W!Inbound
    BY RangeOfSeq DEF WorkerFacts, W!TypeOK
  <2>2. Range(reading) \subseteq W!Message /\ Range(working) \subseteq W!Message
    BY RangeOfSeq DEF WorkerFacts, W!TypeOK
  <2>3. /\ Range(tasks["one"]) \subseteq W!Message
        /\ Range(tasks["two"]) \subseteq W!Message
    BY RangeOfSeq DEF WorkerFacts, W!TypeOK, W!Queues
  <2>4. processed \subseteq W!Message /\ skipped \subseteq W!Message
    BY DEF WorkerFacts, W!TypeOK
  <2> QED
    BY <2>1, <2>2, <2>3, <2>4 DEF Received, W!Inbound
<1>2. \A m \in W!Message : m.id \in Nat /\ m.serial \in Nat
  BY DEF W!Message
<1> QED
  BY <1>1, <1>2

LEMMA RoutedStep ==
  ASSUME RoutedInv, LineInv, LineInv', ClientFacts, WorkerFacts, [Next]_vars
  PROVE  RoutedInv'
<1> USE DEF clientVars, workerVars, namesVars, brokerVars
<1>1. /\ delivered \in Nat /\ calls \in Nat /\ calls \in 0..MaxCalls
      /\ serial \in Nat /\ last[Me] \in Nat
  BY HalvesAssumption DEF ClientFacts, C!TypeOK, WorkerFacts, W!TypeOK, LineInv
<1>2. \A r \in routed : /\ r.id \in Nat /\ r.request.call \in Nat
                        /\ r.request.serial \in Nat
  BY DEF RoutedInv, C!Request
<1>3. ASSUME Received' \subseteq Received,
             UNCHANGED <<delivered, last, routed, calls, serial>>,
             services' \in SUBSET Services, services \subseteq services',
             announced' = announced \/ announced' = services
      PROVE  RoutedInv'
  BY <1>3 DEF RoutedInv
<1>4. CASE WorkerStep
  <2>1. /\ UNCHANGED <<delivered, last, routed, calls, serial, services>>
        /\ Received' \subseteq Received
    BY <1>4, WorkerKeeps, ReceivedStep
  <2>2. announced' = announced \/ announced' = services
    BY <1>4 DEF WorkerStep, WorkerConnect, WorkerConnected, Worker
  <2>3. services' \in SUBSET Services
    BY <2>1 DEF RoutedInv
  <2> QED
    BY <1>3, <2>1, <2>2, <2>3
<1>5. ASSUME UNCHANGED workerVars
      PROVE  Received' = Received /\ UNCHANGED <<delivered, last>>
  BY <1>5 DEF Received, W!Success
<1>6. ASSUME NEW t \in Threads, NEW s \in Services, NEW ms \in TimeoutArgs,
             NEW r \in RetryArgs, SyncCall(t, s, ms, r)
      PROVE  RoutedInv'
  <2>1. /\ Received' = Received
        /\ UNCHANGED <<delivered, last, routed, services, announced>>
    BY <1>5, <1>6 DEF SyncCall
  <2>2. calls' = calls + 1
    BY <1>6 DEF SyncCall, C!Call
  <2>3. \A q \in routed : q.request.call < calls'
    BY <1>1, <1>2, <2>2 DEF RoutedInv
  <2> QED
    BY <2>1, <2>3 DEF RoutedInv
<1>7. ASSUME NEW q \in network, Forward(q)
      PROVE  RoutedInv'
  <2>1. /\ delivered' = delivered + 1 /\ delivered < MaxRequests
        /\ routed' = routed \cup {[id |-> delivered + 1, request |-> q]}
        /\ UNCHANGED <<calls, serial, services, announced>>
        /\ UNCHANGED <<reading, tasks, working, processed, skipped>>
    BY <1>7 DEF Forward, W!Receive, W!ioVars, W!handlerVars
  <2>2. PICK m : m = [head |-> "RPC_REQ", id |-> delivered + 1, client |-> Me,
                      serial |-> q.serial + 1]
    OBVIOUS
  <2>3. /\ inbound' = Append(inbound, m)
        /\ last' = [last EXCEPT ![Me] = q.serial + 1]
    BY <1>7, <2>2 DEF Forward, W!Receive
  <2>4. q \in C!Request /\ q.serial \in Nat /\ q.call \in Nat
    BY DEF ClientFacts, C!TypeOK, C!Request
  <2>5. last'[Me] = q.serial + 1 /\ last[Me] <= q.serial + 1
    <3>1. /\ line # <<>> /\ q = Head(line) /\ line \in Seq(C!Request)
          /\ last \in [{Me} -> Nat]
      BY <1>7 DEF Forward, NextInLine, LineInv
    <3>2. q = line[1] /\ 1 \in 1..Len(line)
      BY <3>1, EmptySeq
    <3> QED
      BY <2>3, <3>1, <3>2 DEF LineInv, Ordered
  <2>6. m \in W!Inbound
    <3>1. q.serial \in 0..MaxTime /\ MaxTime \in Nat
      <4>1. last'[Me] <= serial' + 1 /\ serial \in 0..MaxTime /\ MaxTime \in Nat
        BY HalvesAssumption DEF LineInv, ClientFacts, C!TypeOK
      <4> QED
        BY <2>1, <2>4, <2>5, <4>1
    <3>2. delivered + 1 \in 1..MaxRequests /\ q.serial + 1 \in 1..(MaxTime + 1)
      BY <1>1, <2>1, <3>1, HalvesAssumption
    <3> QED
      BY <2>2, <3>2 DEF W!Inbound, W!Message
  <2>7. Received' \subseteq Received \cup {m}
    <3>1. Range(inbound') = Range(inbound) \cup {m}
      BY <2>3, <2>6, RangeOfParts DEF WorkerFacts, W!TypeOK
    <3> QED
      BY <2>1, <3>1 DEF Received, W!Success
  <2>8. PICK n : n = [id |-> delivered + 1, request |-> q]
    OBVIOUS
  <2>9. /\ n \in [id : 1..MaxRequests, request : C!Request]
        /\ n.id = delivered + 1 /\ n.request = q /\ routed' = routed \cup {n}
        /\ m.id = delivered + 1 /\ m.serial = q.serial + 1
    BY <1>1, <2>1, <2>2, <2>4, <2>8, HalvesAssumption
  <2>10. \/ q.call < calls
         \/ q.call = calls /\ q.serial = serial
    BY DEF ClientFacts
  <2>11. ASSUME NEW r \in routed'
         PROVE  /\ r.id <= delivered'
                /\ \/ r.request.call < calls'
                   \/ r.request.call = calls' /\ r.request.serial = serial'
    <3>1. CASE r = n
      BY <1>1, <2>1, <2>9, <2>10, <3>1 DEF RoutedInv
    <3>2. CASE r \in routed
      BY <1>1, <1>2, <2>1, <3>2 DEF RoutedInv
    <3> QED
      BY <2>9, <2>11, <3>1, <3>2
  <2>12. ASSUME NEW k \in Received'
         PROVE  /\ k.id <= delivered' /\ k.serial <= last'[Me]
                /\ \A r \in routed' : r.id = k.id =>
                                        k.serial = r.request.serial + 1
    <3>1. CASE k = m
      <4>1. k.id <= delivered' /\ k.serial <= last'[Me]
        BY <1>1, <2>1, <2>4, <2>5, <2>9, <3>1
      <4>2. \A r \in routed : r.id # k.id
        BY <1>1, <1>2, <2>9, <3>1 DEF RoutedInv
      <4> QED
        BY <2>9, <3>1, <4>1, <4>2
    <3>2. CASE k \in Received
      <4>1. /\ k.id \in Nat /\ k.serial \in Nat
            /\ k.id <= delivered /\ k.serial <= last[Me]
        BY <3>2, ReceivedType DEF RoutedInv
      <4>2. k.id # n.id
        BY <1>1, <2>9, <4>1
      <4>3. \A r \in routed : r.id = k.id => k.serial = r.request.serial + 1
        BY <3>2 DEF RoutedInv
      <4> QED
        BY <1>1, <2>1, <2>4, <2>5, <2>9, <4>1, <4>2, <4>3
    <3> QED
      BY <2>7, <2>12, <3>1, <3>2
  <2>13. /\ services' \in SUBSET Services /\ announced' \in SUBSET services'
         /\ routed' \in SUBSET [id : 1..MaxRequests, request : C!Request]
    BY <2>1, <2>9 DEF RoutedInv
  <2> QED
    BY <2>11, <2>12, <2>13 DEF RoutedInv
<1>8. ASSUME NEW s \in Services, RegisterService(s)
      PROVE  RoutedInv'
  <2>1. /\ UNCHANGED <<workerVars, routed, calls, serial, announced>>
        /\ services' = services \cup {s}
    BY <1>8 DEF RegisterService
  <2>2. services' \in SUBSET Services /\ services \subseteq services'
    BY <2>1 DEF RoutedInv
  <2> QED
    BY <1>3, <1>5, <2>1, <2>2
<1>9. ASSUME \/ \E q \in network : Refuse(q) \/ Answer(q) \/ Lose(q)
             \/ \E t \in Threads : Return(t)
             \/ Call \/ Tick \/ UNCHANGED vars
      PROVE  RoutedInv'
  <2>1. UNCHANGED <<workerVars, routed, calls, serial, services, announced>>
    BY <1>9 DEF Refuse, Answer, Lose, Return, Call, SendRequest, AwaitAnswer,
       Tick, C!Answer, C!Lose, C!SendRequest, C!ReturnEmpty, C!TimedOut,
       C!Reconnect, C!Readable, C!Ignore, C!Accept, C!Tick, C!callVars, vars
  <2>2. services' \in SUBSET Services
    BY <2>1 DEF RoutedInv
  <2> QED
    BY <1>3, <1>5, <2>1, <2>2
<1> QED
  BY <1>4, <1>6, <1>7, <1>8, <1>9 DEF Next, WorkerStep

LEMMA RoutedInvariance == Spec => []RoutedInv
<1>1. Init => RoutedInv
  <2> SUFFICES ASSUME Init PROVE RoutedInv
    OBVIOUS
  <2>1. /\ services = {} /\ announced = {} /\ routed = {} /\ inbound = <<>>
        /\ reading = <<>> /\ working = <<>> /\ processed = {} /\ skipped = {}
        /\ tasks = [q \in {"one", "two"} |-> <<>>]
    BY DEF Init, W!Init, W!Queues
  <2>2. Range(<<>>) = {}
    BY DEF Range
  <2>3. tasks["one"] = <<>> /\ tasks["two"] = <<>>
    BY <2>1
  <2>4. Received = {}
    BY <2>1, <2>2, <2>3 DEF Received
  <2> QED
    BY <2>1, <2>4 DEF RoutedInv
<1> QED
  BY <1>1, RoutedStep, LineInvariance, ClientInvariance, WorkerInvariance, PTL
     DEF Spec

-----------------------------------------------------------------------------
(***************************************************************************)
(* The results.  An answer that is not a refusal was computed, and stays   *)
(* so; the thread that has the mutex makes the current call.               *)
(***************************************************************************)
Computed(q) == \E r \in routed : r.request = q /\ Done(r.id)

ResultInv ==
  /\ rpc_client_mutex \in Threads \cup {"nobody"}
  /\ mine \in [Threads -> 0..MaxCalls]
  /\ result \in [Threads -> Seq(C!Response)]
  /\ \A m \in Range(socket) : m.head = "RPC_RES" => Computed(m.to)
  /\ returned = "payload" => \A m \in Range(accepted) : Computed(m.to)
  /\ \A t \in Threads : rpc_client_mutex = t => mine[t] = calls
  /\ \A t \in Threads : \A m \in Range(result[t]) :
       Computed(m.to) /\ (cut \/ m.to.call = mine[t])

LEMMA ComputedStays ==
  ASSUME routed \subseteq routed', processed \subseteq processed'
  PROVE  \A q : Computed(q) => Computed(q)'
BY DEF Computed, Done

\* What is in the socket after a step of the client.
LEMMA SocketStep ==
  ASSUME ResultInv, ClientFacts, routed \subseteq routed',
         processed \subseteq processed',
         \/ socket' = socket \/ socket' = <<>>
         \/ socket # <<>> /\ socket' = Tail(socket)
         \/ \E m \in C!Response : /\ socket' = Append(socket, m)
                                  /\ m.head = "RPC_RES" => Computed(m.to)
  PROVE  \A m \in Range(socket') : m.head = "RPC_RES" => Computed(m.to)'
<1>1. socket \in Seq(C!Response)
  BY DEF ClientFacts, C!TypeOK
<1>2. CASE socket' = socket
  BY <1>2, ComputedStays DEF ResultInv
<1>3. CASE socket' = <<>>
  <2>1. Range(socket') = {}
    BY <1>3 DEF Range
  <2> QED
    BY <2>1
<1>4. CASE socket # <<>> /\ socket' = Tail(socket)
  <2>1. Range(socket') \subseteq Range(socket)
    BY <1>1, <1>4, RangeOfParts
  <2> QED
    BY <2>1, ComputedStays DEF ResultInv
<1>5. ASSUME NEW m \in C!Response, socket' = Append(socket, m),
             m.head = "RPC_RES" => Computed(m.to)
      PROVE  \A k \in Range(socket') : k.head = "RPC_RES" => Computed(k.to)'
  <2>1. Range(socket') = Range(socket) \cup {m}
    BY <1>1, <1>5, RangeOfParts
  <2> QED
    BY <1>5, <2>1, ComputedStays DEF ResultInv
<1> QED
  BY <1>2, <1>3, <1>4, <1>5

LEMMA ResultStep ==
  ASSUME ResultInv, ClientFacts, ClientFacts', [Next]_vars
  PROVE  ResultInv'
<1> USE DEF clientVars, workerVars, callerVars, brokerVars
<1>1. /\ socket \in Seq(C!Response) /\ accepted \in Seq(C!Response)
      /\ calls \in Nat /\ calls \in 0..MaxCalls
  BY HalvesAssumption DEF ClientFacts, C!TypeOK
<1>2. ASSUME routed \subseteq routed', processed \subseteq processed',
             UNCHANGED <<callerVars, calls>>, cut' = cut,
             \A m \in Range(socket') : m.head = "RPC_RES" => Computed(m.to)',
             returned' = "payload" => \A m \in Range(accepted') : Computed(m.to)'
      PROVE  ResultInv'
  BY <1>2, ComputedStays DEF ResultInv
<1>3. ASSUME routed \subseteq routed', processed \subseteq processed',
             UNCHANGED <<callerVars, calls, cut, accepted>>,
             returned' = returned \/ returned' = "empty",
             \/ socket' = socket \/ socket' = <<>>
             \/ socket # <<>> /\ socket' = Tail(socket)
             \/ \E m \in C!Response : /\ socket' = Append(socket, m)
                                      /\ m.head = "RPC_RES" => Computed(m.to)
      PROVE  ResultInv'
  <2>1. \A m \in Range(socket') : m.head = "RPC_RES" => Computed(m.to)'
    BY <1>3, SocketStep
  <2>2. returned' = "payload" => \A m \in Range(accepted') : Computed(m.to)'
    BY <1>3, ComputedStays DEF ResultInv
  <2> QED
    BY <1>2, <1>3, <2>1, <2>2
<1>4. CASE WorkerStep
  <2>1. /\ UNCHANGED <<clientVars, callerVars, brokerVars>>
        /\ processed \subseteq processed'
    BY <1>4, WorkerKeeps
  <2> QED
    BY <1>3, <2>1
<1>5. ASSUME NEW t \in Threads, NEW s \in Services, NEW ms \in TimeoutArgs,
             NEW r \in RetryArgs, SyncCall(t, s, ms, r)
      PROVE  ResultInv'
  <2>1. /\ UNCHANGED <<workerVars, brokerVars, socket>>
        /\ rpc_client_mutex' = t /\ calls' = calls + 1 /\ calls < MaxCalls
        /\ mine' = [mine EXCEPT ![t] = calls']
        /\ result' = [result EXCEPT ![t] = <<>>]
        /\ returned' = "nothing" /\ (cut => cut')
    BY <1>5 DEF SyncCall, C!Call
  <2>2. \A m \in Range(socket') : m.head = "RPC_RES" => Computed(m.to)'
    BY <2>1, SocketStep
  <2>3. calls' \in 0..MaxCalls
    BY <1>1, <2>1, HalvesAssumption
  <2>4. /\ mine' \in [Threads -> 0..MaxCalls]
        /\ result' \in [Threads -> Seq(C!Response)]
    BY <2>1, <2>3 DEF ResultInv
  <2>5. /\ mine'[t] = calls' /\ result'[t] = <<>>
        /\ \A u \in Threads : u # t => mine'[u] = mine[u] /\ result'[u] = result[u]
    BY <2>1 DEF ResultInv
  <2>6. Range(<<>>) = {}
    BY DEF Range
  <2>7. \A q : Computed(q) => Computed(q)'
    BY <2>1, ComputedStays
  <2>8. ASSUME NEW u \in Threads, NEW m \in Range(result'[u])
        PROVE  Computed(m.to)' /\ (cut' \/ m.to.call = mine'[u])
    <3>1. u # t /\ mine'[u] = mine[u] /\ m \in Range(result[u])
      BY <2>5, <2>6, <2>8
    <3> QED
      BY <2>1, <2>7, <3>1 DEF ResultInv
  <2> QED
    BY <2>1, <2>2, <2>4, <2>5, <2>8 DEF ResultInv
<1>6. ASSUME NEW t \in Threads, Return(t)
      PROVE  ResultInv'
  <2>1. /\ UNCHANGED <<clientVars, workerVars, brokerVars, mine>>
        /\ rpc_client_mutex = t /\ rpc_client_mutex' = "nobody"
        /\ result' = [result EXCEPT ![t] =
                        IF returned = "payload" THEN accepted ELSE <<>>]
    BY <1>6 DEF Return
  <2>2. \A m \in Range(socket') : m.head = "RPC_RES" => Computed(m.to)'
    BY <2>1, SocketStep
  <2>3. \A q : Computed(q) => Computed(q)'
    BY <2>1, ComputedStays
  <2>4. result' \in [Threads -> Seq(C!Response)]
    BY <1>1, <2>1 DEF ResultInv
  <2>5. /\ result'[t] = IF returned = "payload" THEN accepted ELSE <<>>
        /\ \A u \in Threads : u # t => result'[u] = result[u]
    BY <2>1 DEF ResultInv
  <2>6. \A m \in Range(accepted) : cut \/ m.to.call = calls
    <3>1. Range(accepted) = {accepted[i] : i \in 1..Len(accepted)}
      BY <1>1, RangeEquality
    <3> QED
      BY <3>1 DEF ClientFacts, C!OwnAnswerOnly
  <2>7. Range(<<>>) = {} /\ mine[t] = calls
    BY <2>1 DEF Range, ResultInv
  <2>8. ASSUME NEW u \in Threads, NEW m \in Range(result'[u])
        PROVE  Computed(m.to)' /\ (cut' \/ m.to.call = mine'[u])
    <3>1. CASE u = t
      BY <2>1, <2>3, <2>5, <2>6, <2>7, <2>8, <3>1 DEF ResultInv
    <3>2. CASE u # t
      BY <2>1, <2>3, <2>5, <2>8, <3>2 DEF ResultInv
    <3> QED
      BY <3>1, <3>2
  <2>9. /\ rpc_client_mutex' \in Threads \cup {"nobody"}
        /\ \A u \in Threads : rpc_client_mutex' = u => mine'[u] = calls'
        /\ mine' \in [Threads -> 0..MaxCalls]
    BY <2>1, CallerAssumption DEF ResultInv
  <2>10. returned' = "payload" => \A m \in Range(accepted') : Computed(m.to)'
    BY <2>1, <2>3 DEF ResultInv
  <2> QED
    BY <2>2, <2>4, <2>8, <2>9, <2>10 DEF ResultInv
<1>7. CASE SendRequest
  BY <1>3, <1>7 DEF SendRequest, C!SendRequest, C!callVars
<1>8. CASE C!Accept /\ UNCHANGED <<workerVars, callerVars, brokerVars>>
  <2>1. PICK a : a = Head(socket)
    OBVIOUS
  <2>2. /\ socket # <<>> /\ pc = "read" /\ returned = "nothing"
        /\ socket' = Tail(socket) /\ accepted' = <<a>>
        /\ a.head = "RPC_RES" \/ returned' = returned
        /\ UNCHANGED <<calls, cut>>
    BY <1>8, <2>1 DEF C!Accept, C!callVars, ClientFacts
  <2>3. a \in Range(socket) /\ a \in C!Response
    <3>1. a \in C!Response
      BY <1>1, <2>1, <2>2, HeadTailProperties, Zenon
    <3> QED
      BY <1>1, <2>1, <2>2, <3>1, RangeOfParts
  <2>4. Range(accepted') = {a}
    BY <1>1, <2>2, <2>3, RangeOfParts
  <2>5. \A m \in Range(socket') : m.head = "RPC_RES" => Computed(m.to)'
    BY <1>8, <2>2, SocketStep
  <2>6. returned' = "payload" => Computed(a.to)'
    BY <1>8, <2>2, <2>3, ComputedStays DEF ResultInv
  <2> QED
    BY <1>2, <1>8, <2>2, <2>4, <2>5, <2>6
<1>9. CASE /\ \/ C!ReturnEmpty \/ C!TimedOut \/ C!Reconnect \/ C!Readable
              \/ C!Ignore
           /\ UNCHANGED <<workerVars, callerVars, brokerVars>>
  BY <1>3, <1>9 DEF C!ReturnEmpty, C!TimedOut, C!Reconnect, C!Readable,
     C!Ignore, C!callVars, ClientFacts
<1>10. ASSUME NEW q \in network, Forward(q) \/ Lose(q)
       PROVE  ResultInv'
  BY <1>3, <1>10 DEF Forward, Lose, C!Lose, C!callVars, W!Receive, W!handlerVars
<1>11. ASSUME NEW q \in network, NEW h \in {"RPC_RES", "RPC_NOTPROCESSED"},
              C!Answer(q, h), UNCHANGED <<workerVars, callerVars, routed>>,
              h = "RPC_RES" => Computed(q)
       PROVE  ResultInv'
  <2>1. PICK m : m = [head |-> h, to |-> q]
    OBVIOUS
  <2>2. m \in C!Response /\ m.head = h /\ m.to = q
    BY <2>1 DEF C!Response, ClientFacts, C!TypeOK
  <2>3. /\ socket' = Append(socket, m)
        /\ UNCHANGED <<calls, cut, accepted, returned>>
    BY <1>11, <2>1 DEF C!Answer, C!callVars
  <2> QED
    BY <1>3, <1>11, <2>2, <2>3
<1>12. ASSUME NEW q \in network, Refuse(q) \/ Answer(q)
       PROVE  ResultInv'
  BY <1>11, <1>12 DEF Refuse, Answer, Computed
<1>13. ASSUME \/ \E s \in Services : RegisterService(s)
              \/ Tick \/ UNCHANGED vars
       PROVE  ResultInv'
  BY <1>3, <1>13 DEF RegisterService, Tick, C!Tick, C!callVars, vars
<1> QED
  BY <1>4, <1>5, <1>6, <1>7, <1>8, <1>9, <1>10, <1>12, <1>13
     DEF Next, WorkerStep, Call, AwaitAnswer

LEMMA ResultInvariance == Spec => []ResultInv
<1>1. Init => ResultInv
  <2> SUFFICES ASSUME Init PROVE ResultInv
    OBVIOUS
  <2>1. /\ socket = <<>> /\ returned = "nothing" /\ rpc_client_mutex = "nobody"
        /\ mine = [t \in Threads |-> 0] /\ result = [t \in Threads |-> <<>>]
    BY DEF Init, C!Init
  <2>2. Range(<<>>) = {}
    BY DEF Range
  <2> QED
    BY <2>1, <2>2, HalvesAssumption, CallerAssumption DEF ResultInv
<1> QED
  BY <1>1, ResultStep, ClientInvariance, PTL DEF Spec

-----------------------------------------------------------------------------
(***************************************************************************)
(* Type correctness: the variables of both halves, of the callers and of   *)
(* the broker between them.                                                *)
(***************************************************************************)
THEOREM TypeCorrect == Spec => []TypeOK
<1>1. ClientFacts /\ WorkerFacts /\ RoutedInv /\ ResultInv /\ LineInv
        /\ connected \in BOOLEAN => TypeOK
  BY DEF ClientFacts, WorkerFacts, RoutedInv, ResultInv, LineInv, TypeOK
<1>2. Init => connected \in BOOLEAN
  BY Zenon DEF Init
<1>3. connected \in BOOLEAN /\ [Next]_vars => (connected \in BOOLEAN)'
  <2> SUFFICES ASSUME connected \in BOOLEAN, [Next]_vars
               PROVE  connected' \in BOOLEAN
    OBVIOUS
  <2>1. connected' = connected \/ connected' = TRUE
    BY DEF Next, RegisterService, WorkerConnect, WorkerConnected, Worker,
       Return, SyncCall, Call, SendRequest, AwaitAnswer, Forward, Refuse,
       Answer, Lose, Tick, namesVars, vars
  <2> QED
    BY <2>1, Zenon
<1> QED
  BY <1>1, <1>2, <1>3, ClientInvariance, WorkerInvariance, RoutedInvariance,
     ResultInvariance, LineInvariance, PTL DEF Spec

(***************************************************************************)
(* A thread gets the result of its own latest call, computed by the        *)
(* worker, whichever other threads call through the same object            *)
(* (SyncCall of remote_caller.h).                                          *)
(***************************************************************************)
THEOREM ResultsAreOwn == Spec => []OwnResult
<1>1. ResultInv => OwnResult
  <2> SUFFICES ASSUME ResultInv, NEW t \in Threads, NEW i \in 1..Len(result[t])
               PROVE  /\ cut \/ result[t][i].to.call = mine[t]
                      /\ Computed(result[t][i].to)
    BY DEF OwnResult, Computed
  <2>1. result[t] \in Seq(C!Response)
    BY DEF ResultInv
  <2>2. result[t][i] \in Range(result[t])
    BY <2>1, RangeEquality
  <2> QED
    BY <2>2 DEF ResultInv
<1> QED
  BY <1>1, ResultInvariance, PTL

(***************************************************************************)
(* The worker drops no request of a call that still waits, although it     *)
(* drops requests as history (worker.cpp:265).                             *)
(***************************************************************************)
THEOREM LiveCallsAreServed == Spec => []NoLiveCallSkipped
<1>1. RoutedInv /\ LineInv /\ ClientFacts /\ WorkerFacts => NoLiveCallSkipped
  <2> SUFFICES ASSUME RoutedInv, LineInv, ClientFacts, WorkerFacts,
                      NEW r \in routed, r.request.call = calls,
                      NEW m \in skipped, m.id = r.id
               PROVE  FALSE
    BY DEF NoLiveCallSkipped
  <2>1. PICK p \in processed : p.serial > m.serial
    BY DEF WorkerFacts
  <2>2. m \in Received /\ p \in Received
    BY DEF Received
  <2>3. /\ m.serial = r.request.serial + 1 /\ p.serial <= last[Me]
        /\ p.serial \in Nat /\ m.serial \in Nat
    BY <2>2, ReceivedType DEF RoutedInv
  <2>4. calls \in Nat /\ serial \in Nat
    BY HalvesAssumption DEF ClientFacts, C!TypeOK
  <2>5. r.request.serial = serial
    BY <2>4 DEF RoutedInv
  <2>6. last[Me] <= serial + 1 /\ last[Me] \in Nat
    BY DEF LineInv
  <2> QED
    BY <2>1, <2>3, <2>4, <2>5, <2>6
<1> QED
  BY <1>1, RoutedInvariance, LineInvariance, ClientInvariance,
     WorkerInvariance, PTL
=============================================================================
