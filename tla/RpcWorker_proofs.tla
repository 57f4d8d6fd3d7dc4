--------------------------- MODULE RpcWorker_proofs ---------------------------
(***************************************************************************)
(* Proofs about RpcWorker, for any clients, any bounds, and whether or not *)
(* the caller's thread leaves, destroys the worker or connects again.      *)
(***************************************************************************)
EXTENDS RpcWorker, TLAPS, FiniteSetTheorems, SequenceTheorems

\* An element of a non-empty sequence, and its tail.
LEMMA HeadTailType ==
  ASSUME NEW S, NEW q \in Seq(S), q # <<>>
  PROVE  Head(q) \in S /\ Tail(q) \in Seq(S)
OBVIOUS

\* What a thread has in its hands.
LEMMA SingletonType ==
  ASSUME NEW S, NEW m \in S
  PROVE  <<m>> \in Seq(S) /\ Len(<<m>>) = 1 /\ <<m>> # <<>>
OBVIOUS

-----------------------------------------------------------------------------
(***************************************************************************)
(* The inductive invariant.  The owner of a queue's mutex is known from    *)
(* where the two threads are, the handler exists only after the io thread  *)
(* has made it, and a thread that is about to take something has it.       *)
(***************************************************************************)
IoHolds(q) == io = IF q = "one" THEN "push_one" ELSE "push_two"
HandlerHolds(q) == handler = IF q = "one" THEN "pop_one" ELSE "pop_two"

LockOwners ==
  \A q \in Queues : /\ lock[q] = "io" <=> IoHolds(q)
                    /\ lock[q] = "handler" <=> HandlerHolds(q)

ThreadsBegun ==
  /\ main \in {"new", "registering"} => io = "off"
  /\ io \in {"off", "start", "spawn"} => handler = "off"

InHand ==
  /\ io \in {"try_one", "push_one", "try_two", "push_two"} => reading # <<>>
  /\ handler \in {"try_one", "pop_one"} => tasks["one"] # <<>>
  /\ handler \in {"try_two", "pop_two"} => tasks["two"] # <<>>
  /\ handler \in {"work_one", "call_one", "work_two", "call_two"} =>
       working # <<>>

WorkerInv == TypeOK /\ LockOwners /\ ThreadsBegun /\ InHand

-----------------------------------------------------------------------------
LEMMA InitInv == Init => WorkerInv
<1> SUFFICES ASSUME Init PROVE WorkerInv
  OBVIOUS
<1>1. /\ tasks \in [Queues -> Seq(Message)]
      /\ lock \in [Queues -> Owner]
      /\ last \in [Clients -> 0..MaxSerial]
  BY WorkerBounds DEF Init, Owner
<1>2. asked \in BOOLEAN /\ stop \in BOOLEAN
  BY Zenon DEF Init
<1>3. TypeOK
  BY <1>1, <1>2, WorkerBounds DEF Init, TypeOK
<1>4. LockOwners /\ ThreadsBegun /\ InHand
  BY DEF Init, LockOwners, ThreadsBegun, InHand, IoHolds, HandlerHolds, Queues
<1> QED
  BY <1>3, <1>4 DEF WorkerInv

(***************************************************************************)
(* Type correctness, one lemma per thread.                                 *)
(***************************************************************************)
LEMMA MainType ==
  ASSUME WorkerInv, Main
  PROVE  TypeOK'
<1> USE DEF WorkerInv, TypeOK, mainVars, ioVars, handlerVars, brokerVars
<1>1. inbound # <<>> => Head(inbound) \in Inbound /\ Tail(inbound) \in Seq(Inbound)
  BY HeadTailType
<1>2. CASE Connect
  BY <1>2 DEF Connect
<1>3. CASE Connected
  BY <1>1, <1>3 DEF Connected
<1>4. CASE Deconnect
  BY <1>4 DEF Deconnect
<1>5. CASE SendUnconnect
  BY <1>5 DEF SendUnconnect
<1>6. CASE DeconnectReceives
  BY <1>1, <1>6 DEF DeconnectReceives
<1>7. CASE Destroy
  BY <1>7 DEF Destroy
<1>8. CASE Joined
  BY <1>8 DEF Joined
<1>9. CASE Reconnect
  <2>1. {inbound[k] : k \in {n \in 1..Len(inbound) : inbound[n] # Success}}
          \subseteq Message
    BY DEF Inbound
  <2> QED
    BY <1>9, <2>1 DEF Reconnect
<1>10. CASE Terminate
  BY <1>1, <1>10 DEF Terminate, Inbound
<1> QED
  BY <1>2, <1>3, <1>4, <1>5, <1>6, <1>7, <1>8, <1>9, <1>10 DEF Main

LEMMA IoType ==
  ASSUME WorkerInv, Io
  PROVE  TypeOK'
<1> USE DEF WorkerInv, TypeOK, mainVars, handlerVars, brokerVars
<1>1. inbound # <<>> => Head(inbound) \in Inbound /\ Tail(inbound) \in Seq(Inbound)
  BY HeadTailType
<1>2. CASE IoStart
  BY <1>2 DEF IoStart
<1>3. CASE IoSpawn
  BY <1>3 DEF IoSpawn
<1>4. CASE IoEnter
  BY <1>4 DEF IoEnter
<1>5. CASE IoLoop \/ IoPoll
  BY <1>5 DEF IoLoop, IoPoll
<1>6. CASE IoPollsClosed
  BY <1>6 DEF IoPollsClosed
<1>7. CASE IoReceive
  <2>1. /\ inbound' \in Seq(Inbound)
        /\ io' \in {"abort_frames", "try_one"}
        /\ UNCHANGED <<mainVars, handlerVars, brokerVars, stop, tasks, lock>>
    BY <1>1, <1>7 DEF IoReceive
  <2>2. \/ reading' = reading
        \/ \E m \in Message : reading' = <<m>>
    BY <1>1, <1>7 DEF IoReceive, Inbound
  <2>3. reading' \in Seq(Message) /\ Len(reading') <= 1
    <3>1. CASE reading' = reading
      BY <3>1
    <3>2. CASE \E m \in Message : reading' = <<m>>
      BY <3>2, SingletonType
    <3> QED
      BY <2>2, <3>1, <3>2
  <2> QED
    BY <2>1, <2>3
<1>8. CASE IoTryOne \/ IoTryTwo
  BY <1>8 DEF IoTryOne, IoTryTwo, IoTry, Queues, Owner
<1>9. CASE IoPushOne \/ IoPushTwo
  <2>1. PICK q \in Queues : IoPush(q)
    BY <1>9 DEF IoPushOne, IoPushTwo, Queues
  <2>2. tasks' \in [Queues -> Seq(Message)]
    BY <2>1 DEF IoPush
  <2>3. lock' \in [Queues -> Owner]
    BY <2>1 DEF IoPush, Owner
  <2> QED
    BY <2>1, <2>2, <2>3 DEF IoPush
<1>10. CASE IoBeat
  BY <1>10 DEF IoBeat
<1> QED
  BY <1>2, <1>3, <1>4, <1>5, <1>6, <1>7, <1>8, <1>9, <1>10 DEF Io

LEMMA HandlerType ==
  ASSUME WorkerInv, Handler
  PROVE  TypeOK'
<1> USE DEF WorkerInv, TypeOK, mainVars, ioVars, brokerVars
<1>1. CASE HandlerLoop \/ HandlerCheckOne
  BY <1>1 DEF HandlerLoop, HandlerCheckOne
<1>2. CASE HandlerCheckTwo
  BY <1>2 DEF HandlerCheckTwo
<1>3. CASE HandlerTryOne \/ HandlerTryTwo
  BY <1>3 DEF HandlerTryOne, HandlerTryTwo, HandlerTry, Queues, Owner
<1>4. CASE HandlerPopOne \/ HandlerPopTwo
  <2>1. PICK q \in Queues, next \in {"work_one", "work_two"} :
          HandlerPop(q, next) /\ tasks[q] # <<>>
    BY <1>4 DEF HandlerPopOne, HandlerPopTwo, InHand, Queues
  <2>2. Head(tasks[q]) \in Message /\ Tail(tasks[q]) \in Seq(Message)
    BY <2>1, HeadTailType
  <2>3. tasks' \in [Queues -> Seq(Message)] /\ lock' \in [Queues -> Owner]
    BY <2>1, <2>2 DEF HandlerPop, Owner
  <2>4. working' \in Seq(Message) /\ Len(working') <= 1
    BY <2>1, <2>2 DEF HandlerPop
  <2> QED
    BY <2>1, <2>3, <2>4 DEF HandlerPop
<1>5. CASE HandlerWorkOne \/ HandlerWorkTwo
  <2>1. Head(working) \in Message
    BY <1>5, HeadTailType DEF HandlerWorkOne, HandlerWorkTwo, InHand
  <2>2. skipped' \subseteq skipped \cup {Head(working)}
    BY <1>5 DEF HandlerWorkOne, HandlerWorkTwo, HandlerWorkOn, Skip, StartCall
  <2>3. /\ working' = working \/ working' = <<>>
        /\ handler' \in {"loop", "call_one", "call_two"}
        /\ services_mutex' = services_mutex \/ services_mutex' = "handler"
        /\ UNCHANGED <<current_max, processed, mainVars, ioVars, brokerVars,
                       stop, inbound, tasks, lock>>
    BY <1>5 DEF HandlerWorkOne, HandlerWorkTwo, HandlerWorkOn, Skip, StartCall
  <2>4. skipped' \subseteq Message
    BY <2>1, <2>2
  <2>5. working' \in Seq(Message) /\ Len(working') <= 1
    <3>1. CASE working' = working
      BY <3>1
    <3>2. CASE working' = <<>>
      BY <3>2
    <3> QED
      BY <2>3, <3>1, <3>2
  <2> QED
    BY <2>3, <2>4, <2>5
<1>6. CASE HandlerReplyOne \/ HandlerReplyTwo
  <2>1. Head(working) \in Message
    BY <1>6, HeadTailType DEF HandlerReplyOne, HandlerReplyTwo, InHand
  <2>2. \A m \in Message : m.serial \in 0..MaxSerial
    BY WorkerBounds DEF Message
  <2>3. PICK m \in Message : /\ processed' = processed \cup {m}
                           /\ current_max' = m.serial
    BY <1>6, <2>1 DEF HandlerReplyOne, HandlerReplyTwo, HandlerReply
  <2>4. /\ working' = <<>>
        /\ services_mutex' = "nobody"
        /\ handler' \in {"check_two", "loop"}
        /\ UNCHANGED <<skipped, mainVars, ioVars, brokerVars, stop, inbound,
                       tasks, lock>>
    BY <1>6 DEF HandlerReplyOne, HandlerReplyTwo, HandlerReply
  <2>5. processed' \subseteq Message
    BY <2>3
  <2>6. current_max' \in 0..MaxSerial
    BY <2>2, <2>3
  <2> QED
    BY <2>4, <2>5, <2>6
<1> QED
  BY <1>1, <1>2, <1>3, <1>4, <1>5, <1>6 DEF Handler

LEMMA BrokerType ==
  ASSUME WorkerInv,
         BrokerAnswers \/ \E c \in Clients, n \in 1..MaxSerial : BrokerForwards(c, n)
  PROVE  TypeOK'
<1> USE DEF WorkerInv, TypeOK, mainVars, ioVars, handlerVars, brokerVars
<1>1. CASE BrokerAnswers
  <2>1. inbound' \in Seq(Inbound)
    BY <1>1 DEF BrokerAnswers, Inbound
  <2>2. asked' \in BOOLEAN
    BY <1>1, Zenon DEF BrokerAnswers
  <2> QED
    BY <1>1, <2>1, <2>2 DEF BrokerAnswers
<1>2. ASSUME NEW c \in Clients, NEW n \in 1..MaxSerial, BrokerForwards(c, n)
      PROVE  TypeOK'
  <2>1. delivered + 1 \in 1..MaxRequests
    BY <1>2, WorkerBounds DEF BrokerForwards
  <2>2. [head |-> "RPC_REQ", id |-> delivered + 1, client |-> c, serial |-> n]
          \in Inbound
    BY <2>1 DEF Inbound, Message
  <2> QED
    BY <1>2, <2>1, <2>2, WorkerBounds DEF BrokerForwards, Receive
<1> QED
  BY <1>1, <1>2

(***************************************************************************)
(* The owners of the mutexes, what has begun and what is in hand.          *)
(***************************************************************************)
LEMMA MainOrder ==
  ASSUME WorkerInv, Main
  PROVE  LockOwners' /\ ThreadsBegun' /\ InHand'
BY DEF WorkerInv, LockOwners, ThreadsBegun, InHand, IoHolds, HandlerHolds,
       Main, Connect, Connected, Deconnect, SendUnconnect, DeconnectReceives,
       Destroy, Joined, Reconnect, Terminate, ioVars, handlerVars

LEMMA IoOrder ==
  ASSUME WorkerInv, Io
  PROVE  LockOwners' /\ ThreadsBegun' /\ InHand'
<1> USE DEF WorkerInv, TypeOK, mainVars, handlerVars
<1> USE DEF LockOwners, ThreadsBegun, InHand, IoHolds, HandlerHolds, Queues
<1>1. CASE IoStart \/ IoSpawn \/ IoEnter \/ IoLoop \/ IoPoll
          \/ IoPollsClosed \/ IoBeat
  <2>1. CASE IoStart \/ IoSpawn
    BY <2>1 DEF IoStart, IoSpawn
  <2>2. CASE IoEnter \/ IoLoop
    BY <2>2 DEF IoEnter, IoLoop
  <2>3. CASE IoPoll \/ IoPollsClosed
    BY <2>3 DEF IoPoll, IoPollsClosed
  <2>4. CASE IoBeat
    BY <2>4 DEF IoBeat
  <2> QED
    BY <1>1, <2>1, <2>2, <2>3, <2>4
<1>2. CASE IoReceive
  <2>1. \A m : <<m>> # <<>>
    OBVIOUS
  <2>2. /\ io = "receive"
        /\ io' = "abort_frames" \/ (io' = "try_one" /\ reading' # <<>>)
        /\ UNCHANGED <<main, handlerVars, tasks, lock>>
    BY <1>2, <2>1, Zenon DEF IoReceive
  <2> QED
    BY <2>2
<1>3. CASE IoTryOne \/ IoTryTwo
  BY <1>3 DEF IoTryOne, IoTryTwo, IoTry
<1>4. CASE IoPushOne \/ IoPushTwo
  <2>1. \A q \in Queues : tasks[q] # <<>> => tasks[q] \o reading # <<>>
    OBVIOUS
  <2> QED
    BY SMTT(40), <1>4, <2>1 DEF IoPushOne, IoPushTwo, IoPush
<1> QED
  BY <1>1, <1>2, <1>3, <1>4 DEF Io

LEMMA HandlerOrder ==
  ASSUME WorkerInv, Handler
  PROVE  LockOwners' /\ ThreadsBegun' /\ InHand'
<1> USE DEF WorkerInv, TypeOK, mainVars, ioVars
<1> USE DEF LockOwners, ThreadsBegun, InHand, IoHolds, HandlerHolds, Queues
<1>1. CASE HandlerLoop \/ HandlerCheckOne \/ HandlerCheckTwo
  BY <1>1 DEF HandlerLoop, HandlerCheckOne, HandlerCheckTwo
<1>2. CASE HandlerTryOne \/ HandlerTryTwo
  BY SMTT(40), <1>2 DEF HandlerTryOne, HandlerTryTwo, HandlerTry
<1>3. CASE HandlerPopOne \/ HandlerPopTwo
  <2>1. \A m : <<m>> # <<>>
    OBVIOUS
  <2>2. /\ working' # <<>>
        /\ UNCHANGED <<main, io, reading>>
    BY <1>3, <2>1, Zenon DEF HandlerPopOne, HandlerPopTwo, HandlerPop
  <2>3. PICK q \in Queues :
          /\ handler = IF q = "one" THEN "pop_one" ELSE "pop_two"
          /\ handler' = IF q = "one" THEN "work_one" ELSE "work_two"
          /\ lock' = [lock EXCEPT ![q] = "nobody"]
    BY <1>3 DEF HandlerPopOne, HandlerPopTwo, HandlerPop
  <2> QED
    BY <2>2, <2>3
<1>4. CASE HandlerWorkOne \/ HandlerWorkTwo
  BY <1>4 DEF HandlerWorkOne, HandlerWorkTwo, HandlerWorkOn, Skip, StartCall
<1>5. CASE HandlerReplyOne \/ HandlerReplyTwo
  BY <1>5 DEF HandlerReplyOne, HandlerReplyTwo, HandlerReply
<1> QED
  BY <1>1, <1>2, <1>3, <1>4, <1>5 DEF Handler

LEMMA StepInv ==
  ASSUME WorkerInv, [Next]_vars
  PROVE  WorkerInv'
<1>1. CASE UNCHANGED vars
  BY <1>1 DEF WorkerInv, TypeOK, LockOwners, ThreadsBegun, InHand, IoHolds,
              HandlerHolds, vars
<1>2. CASE Main
  BY <1>2, MainType, MainOrder DEF WorkerInv
<1>3. CASE Io
  BY <1>3, IoType, IoOrder DEF WorkerInv
<1>4. CASE Handler
  BY <1>4, HandlerType, HandlerOrder DEF WorkerInv
<1>5. CASE BrokerAnswers \/ \E c \in Clients, n \in 1..MaxSerial :
                              BrokerForwards(c, n)
  <2>1. UNCHANGED <<main, ioVars, handlerVars, tasks, lock>>
    BY <1>5 DEF BrokerAnswers, BrokerForwards, Receive, mainVars
  <2>2. LockOwners' /\ ThreadsBegun' /\ InHand'
    BY <2>1 DEF WorkerInv, LockOwners, ThreadsBegun, InHand, IoHolds,
                HandlerHolds, ioVars, handlerVars
  <2> QED
    BY <1>5, <2>2, BrokerType DEF WorkerInv
<1> QED
  BY <1>1, <1>2, <1>3, <1>4, <1>5 DEF Next

LEMMA Invariance == Spec => []WorkerInv
BY InitInv, StepInv, PTL DEF Spec

(***************************************************************************)
(* Every variable of the worker and of its threads keeps its type.         *)
(***************************************************************************)
THEOREM TypeCorrect == Spec => []TypeOK
BY Invariance, PTL DEF WorkerInv

(***************************************************************************)
(* Whoever pushes to a queue or pops from it owns its mutex, although both *)
(* threads only ever try to lock it.                                       *)
(***************************************************************************)
THEOREM QueuesAreExclusive == Spec => []QueueExclusion
<1>1. WorkerInv => QueueExclusion
  BY DEF WorkerInv, LockOwners, IoHolds, HandlerHolds, Queues, QueueExclusion
<1> QED
  BY <1>1, Invariance, PTL

-----------------------------------------------------------------------------
(***************************************************************************)
(* What is skipped as history is older than something that was answered.   *)
(***************************************************************************)
HistoryInv ==
  /\ current_max = 0 \/ \E p \in processed : p.serial = current_max
  /\ \A m \in skipped : \E p \in processed : p.serial > m.serial

LEMMA HistoryStep ==
  ASSUME WorkerInv, HistoryInv, [Next]_vars
  PROVE  HistoryInv'
<1>1. CASE UNCHANGED <<current_max, processed, skipped>>
  BY <1>1 DEF HistoryInv
<1>2. CASE HandlerWorkOne \/ HandlerWorkTwo
  <2>1. Head(working) \in Message
    BY <1>2, HeadTailType
       DEF HandlerWorkOne, HandlerWorkTwo, WorkerInv, TypeOK, InHand
  <2>2. /\ UNCHANGED <<current_max, processed>>
        /\ \/ UNCHANGED skipped
           \/ /\ skipped' = skipped \cup {Head(working)}
              /\ Head(working).serial < current_max
    BY <1>2 DEF HandlerWorkOne, HandlerWorkTwo, HandlerWorkOn, Skip, StartCall,
                IsHistory
  <2>3. Head(working).serial < current_max =>
          \E p \in processed : p.serial > Head(working).serial
    BY <2>1 DEF HistoryInv, WorkerInv, TypeOK, Message
  <2> QED
    BY <2>2, <2>3 DEF HistoryInv
<1>3. CASE HandlerReplyOne \/ HandlerReplyTwo
  BY <1>3 DEF HandlerReplyOne, HandlerReplyTwo, HandlerReply, HistoryInv
<1>4. CASE Main \/ Io \/ BrokerAnswers
  BY <1>1, <1>4 DEF Main, Connect, Connected, Deconnect, SendUnconnect,
       DeconnectReceives, Destroy, Joined, Reconnect, Terminate,
       Io, IoStart, IoSpawn, IoEnter, IoLoop, IoPoll, IoPollsClosed, IoReceive,
       IoTryOne, IoTryTwo, IoTry, IoPushOne, IoPushTwo, IoPush, IoBeat,
       BrokerAnswers, handlerVars
<1>5. CASE \E c \in Clients, n \in 1..MaxSerial : BrokerForwards(c, n)
  BY <1>1, <1>5 DEF BrokerForwards, Receive, handlerVars
<1>6. CASE HandlerLoop \/ HandlerCheckOne \/ HandlerCheckTwo
          \/ HandlerTryOne \/ HandlerTryTwo \/ HandlerPopOne \/ HandlerPopTwo
  BY <1>1, <1>6 DEF HandlerLoop, HandlerCheckOne, HandlerCheckTwo,
       HandlerTryOne, HandlerTryTwo,
       HandlerTry, HandlerPopOne, HandlerPopTwo, HandlerPop
<1>7. CASE UNCHANGED vars
  BY <1>1, <1>7 DEF vars
<1> QED
  BY <1>2, <1>3, <1>4, <1>5, <1>6, <1>7 DEF Next, Handler

LEMMA HistoryInvariance == Spec => []HistoryInv
<1>1. Init => HistoryInv
  BY DEF Init, HistoryInv
<1> QED
  BY <1>1, HistoryStep, Invariance, PTL DEF Spec

(***************************************************************************)
(* With one client, whatever is skipped was superseded by a later request  *)
(* of that client which has been answered.                                 *)
(***************************************************************************)
THEOREM SkippedOnlyIfSuperseded ==
  ASSUME \A c, d \in Clients : c = d
  PROVE  Spec => []SkippedWasSuperseded
<1>1. WorkerInv /\ HistoryInv => SkippedWasSuperseded
  <2> SUFFICES ASSUME WorkerInv, HistoryInv, NEW m \in skipped
               PROVE  \E p \in processed :
                        p.client = m.client /\ p.serial > m.serial
    BY DEF SkippedWasSuperseded
  <2>1. PICK p \in processed : p.serial > m.serial
    BY DEF HistoryInv
  <2>2. p.client \in Clients /\ m.client \in Clients
    BY DEF WorkerInv, TypeOK, Message
  <2> QED
    BY <2>1, <2>2
<1> QED
  BY <1>1, Invariance, HistoryInvariance, PTL

-----------------------------------------------------------------------------
(***************************************************************************)
(* Nothing is lost.  The requests are known by their ids, of which each    *)
(* place holds a set; a step takes some ids from one place to another.     *)
(***************************************************************************)
Place == {"socket", "reading", "one", "two", "working", "taken", "dropped",
          "processed", "skipped"}

Requests(q) == {k \in 1..Len(q) : q[k] # Success}
IdsIn(q) == {q[k].id : k \in Requests(q)}
IdsOf(S) == {m.id : m \in S}

Held == [x \in Place |->
           CASE x = "socket" -> IdsIn(inbound)
             [] x = "reading" -> IdsIn(reading)
             [] x = "one" -> IdsIn(tasks["one"])
             [] x = "two" -> IdsIn(tasks["two"])
             [] x = "working" -> IdsIn(working)
             [] x = "taken" -> IdsIn(taken)
             [] x = "dropped" -> IdsOf(dropped)
             [] x = "processed" -> IdsOf(processed)
             [] x = "skipped" -> IdsOf(skipped)]

Partition(H, n) ==
  /\ \A x \in Place : H[x] \subseteq 1..n
  /\ \A id \in 1..n : \E x \in Place : \A y \in Place : id \in H[y] <=> y = x

DistinctIn(q) ==
  \A j, k \in Requests(q) : q[j].id = q[k].id => j = k
DistinctOf(S) == \A m, n \in S : m.id = n.id => m = n

Distinct ==
  /\ DistinctIn(inbound) /\ DistinctIn(reading) /\ DistinctIn(working)
  /\ DistinctIn(tasks["one"]) /\ DistinctIn(tasks["two"])
  /\ DistinctIn(taken)
  /\ DistinctOf(dropped) /\ DistinctOf(processed) /\ DistinctOf(skipped)

(***************************************************************************)
(* What a step would overwrite or throw away is no request: the answer to  *)
(* RPC_REG is the first message, and a thread that takes a message has     *)
(* none in its hands.                                                      *)
(***************************************************************************)
NothingOverwritten ==
  /\ main = "new" => ~asked /\ inbound = <<>>
  /\ main = "registering" /\ inbound # <<>> => Head(inbound) = Success
  /\ main \in {"leaving", "awaiting"} => taken = <<>>
  /\ io \notin {"try_one", "push_one", "try_two", "push_two"} => reading = <<>>
  /\ handler \notin {"work_one", "call_one", "work_two", "call_two"} =>
       working = <<>>

PlacesInv == Partition(Held, delivered) /\ Distinct /\ NothingOverwritten

\* What removing the first element, and appending one, does to the ids.
LEMMA TailIds ==
  ASSUME NEW S, NEW q \in Seq(S), q # <<>>, DistinctIn(q)
  PROVE  /\ DistinctIn(Tail(q))
         /\ Head(q) = Success => IdsIn(Tail(q)) = IdsIn(q)
         /\ Head(q) # Success => /\ Head(q).id \in IdsIn(q)
                                /\ IdsIn(Tail(q)) = IdsIn(q) \ {Head(q).id}
<1> DEFINE t == Tail(q)
<1>1. /\ Len(q) \in Nat /\ Len(q) > 0
      /\ Head(q) = q[1]
      /\ Len(t) = Len(q) - 1
      /\ \A k \in 1..Len(t) : t[k] = q[k + 1]
  OBVIOUS
<1> HIDE DEF t
<1>2. /\ \A k \in Requests(t) : k + 1 \in Requests(q) /\ t[k] = q[k + 1]
      /\ \A k \in Requests(q) : k # 1 => k - 1 \in Requests(t) /\ t[k - 1] = q[k]
      /\ 1 \in Requests(q) <=> Head(q) # Success
  BY <1>1 DEF Requests
<1>3. DistinctIn(t)
  <2> SUFFICES ASSUME NEW j \in Requests(t), NEW k \in Requests(t),
                      t[j].id = t[k].id
               PROVE  j = k
    BY DEF DistinctIn
  <2>1. j + 1 = k + 1
    BY <1>2 DEF DistinctIn
  <2>2. j \in Nat /\ k \in Nat
    BY DEF Requests
  <2> QED
    BY <2>1, <2>2
<1>4. IdsIn(t) \subseteq IdsIn(q)
  BY <1>2 DEF IdsIn
<1>5. \A i \in IdsIn(q) : i \in IdsIn(t) \/ (Head(q) # Success /\ i = Head(q).id)
  BY <1>1, <1>2 DEF IdsIn
<1>6. ASSUME Head(q) # Success
      PROVE  Head(q).id \in IdsIn(q) /\ Head(q).id \notin IdsIn(t)
  <2>1. Head(q).id \in IdsIn(q)
    BY <1>1, <1>2, <1>6 DEF IdsIn
  <2>2. \A k \in Requests(t) : t[k].id # q[1].id
    <3> TAKE k \in Requests(t)
    <3>1. k + 1 \in Requests(q) /\ 1 \in Requests(q) /\ k + 1 # 1
      BY <1>2, <1>6 DEF Requests
    <3> QED
      BY <1>2, <3>1 DEF DistinctIn
  <2> QED
    BY <1>1, <2>1, <2>2 DEF IdsIn
<1> QED
  BY <1>3, <1>4, <1>5, <1>6 DEF t

LEMMA AppendIds ==
  ASSUME NEW S, NEW q \in Seq(S), NEW m, DistinctIn(q)
  PROVE  /\ m = Success => /\ IdsIn(Append(q, m)) = IdsIn(q)
                          /\ DistinctIn(Append(q, m))
         /\ m # Success => IdsIn(Append(q, m)) = IdsIn(q) \cup {m.id}
         /\ m # Success /\ m.id \notin IdsIn(q) => DistinctIn(Append(q, m))
<1> DEFINE t == Append(q, m)
           last1 == Len(q) + 1
<1>1. /\ Len(q) \in Nat
      /\ Len(t) = Len(q) + 1
      /\ t[last1] = m
      /\ \A k \in 1..Len(q) : t[k] = q[k]
  OBVIOUS
<1> HIDE DEF t
<1>2. /\ \A k \in Requests(q) : k \in Requests(t) /\ t[k] = q[k]
      /\ \A k \in Requests(t) : k # last1 => k \in Requests(q)
      /\ last1 \in Requests(t) <=> m # Success
      /\ last1 \notin Requests(q)
  BY <1>1 DEF Requests
<1> HIDE DEF last1
<1>3. IdsIn(q) \subseteq IdsIn(t)
  BY <1>2 DEF IdsIn
<1>4. m # Success => m.id \in IdsIn(t)
  BY <1>1, <1>2 DEF IdsIn
<1>5. \A i \in IdsIn(t) : i \in IdsIn(q) \/ (m # Success /\ i = m.id)
  BY <1>1, <1>2 DEF IdsIn
<1>6. ASSUME m # Success => m.id \notin IdsIn(q)
      PROVE  DistinctIn(t)
  <2>1. \A k \in Requests(q) : last1 \in Requests(t) => q[k].id # m.id
    BY <1>2, <1>6 DEF IdsIn
  <2> QED
    BY <1>1, <1>2, <2>1 DEF DistinctIn
<1> QED
  BY <1>3, <1>4, <1>5, <1>6 DEF t

LEMMA EmptyIds == IdsIn(<<>>) = {} /\ DistinctIn(<<>>)
BY DEF IdsIn, Requests, DistinctIn

LEMMA SingletonIds ==
  ASSUME NEW m
  PROVE  /\ DistinctIn(<<m>>)
         /\ IdsIn(<<m>>) = IF m = Success THEN {} ELSE {m.id}
<1>1. Requests(<<m>>) = IF m = Success THEN {} ELSE {1}
  BY DEF Requests
<1> QED
  BY <1>1 DEF IdsIn, DistinctIn

\* What a thread has in its hands is nothing or one message.
LEMMA InHandIds ==
  ASSUME NEW q \in Seq(Message), Len(q) <= 1, q # <<>>
  PROVE  q = <<Head(q)>> /\ Head(q) \in Message
<1>1. Len(q) = 1 /\ Head(q) = q[1] /\ Head(q) \in Message
  <2>1. Len(q) \in Nat /\ Len(q) # 0
    BY EmptySeq
  <2>2. Len(q) = 1
    BY <2>1
  <2>3. Head(q) \in Message
    BY HeadTailType, Zenon
  <2>4. Head(q) = q[1]
    OBVIOUS
  <2> QED
    BY <2>2, <2>3, <2>4
<1>2. <<Head(q)>> \in Seq(Message) /\ Len(<<Head(q)>>) = 1
  BY <1>1
<1>3. \A i \in 1..Len(q) : q[i] = <<Head(q)>>[i]
  BY <1>1
<1> QED
  BY <1>1, <1>2, <1>3, SeqEqual

LEMMA MessageIsNoSuccess ==
  ASSUME NEW m \in Message
  PROVE  m # Success
BY DEF Message, Success

\* Ids that move from one place to another leave a partition.
LEMMA MovePartition ==
  ASSUME NEW n \in Nat, NEW H, NEW G, Partition(H, n),
         NEW a \in Place, NEW b \in Place, a # b,
         NEW X \in SUBSET H[a],
         G[a] = H[a] \ X, G[b] = H[b] \cup X,
         \A x \in Place \ {a, b} : G[x] = H[x]
  PROVE  Partition(G, n)
<1> HIDE DEF Place
<1>1. \A x \in Place : G[x] \subseteq 1..n
  BY Zenon DEF Partition
<1>2. ASSUME NEW id \in 1..n
      PROVE  \E x \in Place : \A y \in Place : id \in G[y] <=> y = x
  <2>1. PICK x \in Place : \A y \in Place : id \in H[y] <=> y = x
    BY DEF Partition
  <2>2. CASE id \in X
    BY <2>1, <2>2
  <2>3. CASE id \notin X
    BY <2>1, <2>3
  <2> QED
    BY <2>2, <2>3
<1> QED
  BY <1>1, <1>2 DEF Partition

\* A new id is added to one place.
LEMMA AddPartition ==
  ASSUME NEW n \in Nat, NEW H, NEW G, Partition(H, n),
         NEW a \in Place, G[a] = H[a] \cup {n + 1},
         \A x \in Place \ {a} : G[x] = H[x]
  PROVE  Partition(G, n + 1)
<1> HIDE DEF Place
<1>1. \A x \in Place : G[x] \subseteq 1..(n + 1)
  BY DEF Partition
<1>2. \A x \in Place : n + 1 \notin H[x]
  BY DEF Partition
<1>3. ASSUME NEW id \in 1..(n + 1)
      PROVE  \E x \in Place : \A y \in Place : id \in G[y] <=> y = x
  <2>1. CASE id = n + 1
    BY <1>2, <2>1
  <2>2. CASE id \in 1..n
    <3>1. PICK x \in Place : \A y \in Place : id \in H[y] <=> y = x
      BY <2>2 DEF Partition
    <3>2. id # n + 1
      BY <2>2
    <3> QED
      BY <3>1, <3>2
  <2> QED
    BY <2>1, <2>2
<1> QED
  BY <1>1, <1>3 DEF Partition

\* The first message stays the first when another is appended.
LEMMA HeadOfAppend ==
  ASSUME NEW S, NEW q \in Seq(S), NEW m
  PROVE  /\ Append(q, m) # <<>>
         /\ q = <<>> => Head(Append(q, m)) = m
         /\ q # <<>> => Head(Append(q, m)) = Head(q)
<1>1. Len(q) \in Nat /\ Len(Append(q, m)) = Len(q) + 1
  OBVIOUS
<1>2. Append(q, m) # <<>>
  BY <1>1
<1>3. q = <<>> => Head(Append(q, m)) = m
  OBVIOUS
<1>4. ASSUME q # <<>> PROVE Head(Append(q, m)) = Head(q)
  <2>1. Len(q) >= 1
    BY <1>4, <1>1, EmptySeq
  <2>2. Append(q, m)[1] = q[1]
    BY <2>1, <1>1
  <2> QED
    BY <1>1, <1>2, <1>4, <2>2
<1> QED
  BY <1>2, <1>3, <1>4

LEMMA OverwrittenStep ==
  ASSUME WorkerInv, NothingOverwritten, [Next]_vars
  PROVE  NothingOverwritten'
<1> USE DEF WorkerInv, ThreadsBegun, InHand, NothingOverwritten
<1>1. CASE UNCHANGED vars
  BY <1>1 DEF vars
<1>2. CASE Main
  <2>1. CASE Connected
    BY <2>1 DEF Connected, ioVars, handlerVars
  <2>2. CASE DeconnectReceives
    BY <2>2 DEF DeconnectReceives, ioVars, handlerVars
  <2>3. CASE Reconnect \/ Terminate
    BY <2>3 DEF Reconnect, Terminate, ioVars, handlerVars
  <2>4. CASE Connect \/ Deconnect \/ SendUnconnect \/ Destroy \/ Joined
    BY <2>4 DEF Connect, Deconnect, SendUnconnect, Destroy, Joined, ioVars,
                handlerVars
  <2> QED
    BY <1>2, <2>1, <2>2, <2>3, <2>4 DEF Main
<1>3. CASE Io
  <2>1. CASE IoReceive
    BY <2>1, Zenon DEF IoReceive, mainVars, handlerVars
  <2>2. CASE IoPushOne \/ IoPushTwo
    BY <2>2 DEF IoPushOne, IoPushTwo, IoPush, mainVars, handlerVars
  <2>3. CASE IoTryOne \/ IoTryTwo
    BY <2>3 DEF IoTryOne, IoTryTwo, IoTry, mainVars, handlerVars
  <2>4. CASE IoStart \/ IoSpawn \/ IoEnter \/ IoLoop \/ IoPoll
            \/ IoPollsClosed \/ IoBeat
    BY <2>4 DEF IoStart, IoSpawn, IoEnter, IoLoop, IoPoll, IoPollsClosed,
                IoBeat, mainVars, handlerVars
  <2> QED
    BY <1>3, <2>1, <2>2, <2>3, <2>4 DEF Io
<1>4. CASE Handler
  <2>1. CASE HandlerLoop \/ HandlerCheckOne \/ HandlerCheckTwo
            \/ HandlerTryOne \/ HandlerTryTwo
    BY <2>1 DEF HandlerLoop, HandlerCheckOne, HandlerCheckTwo, HandlerTryOne,
                HandlerTryTwo, HandlerTry, mainVars, ioVars
  <2>2. CASE HandlerPopOne \/ HandlerPopTwo
    BY <2>2 DEF HandlerPopOne, HandlerPopTwo, HandlerPop, mainVars, ioVars
  <2>3. CASE HandlerWorkOne \/ HandlerWorkTwo
    BY <2>3 DEF HandlerWorkOne, HandlerWorkTwo, HandlerWorkOn, Skip, StartCall,
                mainVars, ioVars
  <2>4. CASE HandlerReplyOne \/ HandlerReplyTwo
    BY <2>4 DEF HandlerReplyOne, HandlerReplyTwo, HandlerReply, mainVars, ioVars
  <2> QED
    BY <1>4, <2>1, <2>2, <2>3, <2>4 DEF Handler
<1>5. CASE BrokerAnswers
  <2>1. /\ main # "new" /\ main' = main /\ taken' = taken
        /\ UNCHANGED <<ioVars, handlerVars>>
        /\ inbound' = Append(inbound, Success)
    BY <1>5 DEF BrokerAnswers
  <2>2. main = "registering" => Head(inbound') = Success
    BY <2>1, HeadOfAppend DEF TypeOK
  <2> QED
    BY <2>1, <2>2 DEF ioVars, handlerVars
<1>6. ASSUME NEW c \in Clients, NEW n \in 1..MaxSerial, BrokerForwards(c, n)
      PROVE  NothingOverwritten'
  <2>1. /\ main # "new"
        /\ UNCHANGED <<main, taken, ioVars, handlerVars>>
    BY <1>6 DEF BrokerForwards, Registered, Receive, mainVars
  <2>2. main = "registering" => Head(inbound') = Success
    <3>1. main = "registering" => inbound # <<>>
      BY <1>6 DEF BrokerForwards, Registered
    <3>2. PICK m : inbound' = Append(inbound, m)
      BY <1>6 DEF BrokerForwards, Receive
    <3> QED
      BY <3>1, <3>2, HeadOfAppend DEF TypeOK
  <2> QED
    BY <2>1, <2>2 DEF ioVars, handlerVars
<1> QED
  BY <1>1, <1>2, <1>3, <1>4, <1>5, <1>6 DEF Next

\* The ids at each place, before and after a step.
LEMMA HeldAt ==
  /\ Held["socket"] = IdsIn(inbound) /\ Held'["socket"] = IdsIn(inbound')
  /\ Held["reading"] = IdsIn(reading) /\ Held'["reading"] = IdsIn(reading')
  /\ Held["one"] = IdsIn(tasks["one"]) /\ Held'["one"] = IdsIn(tasks'["one"])
  /\ Held["two"] = IdsIn(tasks["two"]) /\ Held'["two"] = IdsIn(tasks'["two"])
  /\ Held["working"] = IdsIn(working) /\ Held'["working"] = IdsIn(working')
  /\ Held["taken"] = IdsIn(taken) /\ Held'["taken"] = IdsIn(taken')
  /\ Held["dropped"] = IdsOf(dropped) /\ Held'["dropped"] = IdsOf(dropped')
  /\ Held["processed"] = IdsOf(processed)
  /\ Held'["processed"] = IdsOf(processed')
  /\ Held["skipped"] = IdsOf(skipped) /\ Held'["skipped"] = IdsOf(skipped')
BY DEF Held, Place

\* An id is at one place only.
LEMMA Apart ==
  ASSUME PlacesInv, NEW a \in Place, NEW b \in Place, a # b,
         NEW id \in Held[a]
  PROVE  id \notin Held[b]
<1> HIDE DEF Place, Held
<1>1. id \in 1..delivered
  BY DEF PlacesInv, Partition
<1>2. PICK x \in Place : \A y \in Place : id \in Held[y] <=> y = x
  BY <1>1 DEF PlacesInv, Partition
<1> QED
  BY <1>2

\* A request is added to a set of requests that does not hold its id.
LEMMA AddIds ==
  ASSUME NEW S, NEW m, DistinctOf(S), m.id \notin IdsOf(S)
  PROVE  DistinctOf(S \cup {m}) /\ IdsOf(S \cup {m}) = IdsOf(S) \cup {m.id}
BY DEF DistinctOf, IdsOf

LEMMA MoveStep ==
  ASSUME PlacesInv, TypeOK, delivered' = delivered,
         NEW a \in Place, NEW b \in Place, a # b, NEW X \in SUBSET Held[a],
         Held'[a] = Held[a] \ X, Held'[b] = Held[b] \cup X,
         \A x \in Place \ {a, b} : Held'[x] = Held[x]
  PROVE  Partition(Held, delivered)'
<1> delivered \in Nat
  BY WorkerBounds DEF TypeOK
<1> QED
  BY MovePartition, Zenon DEF PlacesInv

(***************************************************************************)
(* Steps that move no request.                                             *)
(***************************************************************************)
requestVars == <<inbound, reading, working, tasks, taken, dropped, processed,
                 skipped, delivered>>

LEMMA PlacesKept ==
  ASSUME PlacesInv, UNCHANGED requestVars
  PROVE  Partition(Held, delivered)' /\ Distinct'
<1>1. Held' = Held
  BY DEF Held, requestVars
<1> QED
  BY <1>1 DEF PlacesInv, Partition, Distinct, requestVars

\* Only an answer of the broker comes to the socket or leaves it.
LEMMA SameIds ==
  ASSUME IdsIn(inbound') = IdsIn(inbound),
         UNCHANGED <<reading, working, tasks, taken, dropped, processed, skipped>>
  PROVE  Held' = Held
BY DEF Held

(***************************************************************************)
(* Steps that move requests, thread by thread.                             *)
(***************************************************************************)
LEMMA MainPlaces ==
  ASSUME WorkerInv, PlacesInv, Main
  PROVE  Partition(Held, delivered)' /\ Distinct'
<1> USE DEF ioVars, handlerVars, brokerVars
<1>1. TypeOK /\ inbound \in Seq(Inbound)
  BY DEF WorkerInv, TypeOK
<1>2. Distinct /\ NothingOverwritten
  BY DEF PlacesInv
<1>3. /\ "socket" \in Place /\ "taken" \in Place /\ "dropped" \in Place
      /\ "socket" # "taken" /\ "socket" # "dropped"
  BY DEF Place
<1>4. CASE Connect \/ Deconnect \/ SendUnconnect \/ Destroy \/ Joined
  BY <1>4, PlacesKept DEF Connect, Deconnect, SendUnconnect, Destroy, Joined,
                          requestVars
<1>5. CASE Connected
  <2>1. /\ inbound' = Tail(inbound)
        /\ inbound # <<>> /\ Head(inbound) = Success
        /\ UNCHANGED <<reading, working, tasks, taken, dropped, processed,
                       skipped, delivered>>
    BY <1>2, <1>5 DEF Connected, NothingOverwritten
  <2>2. IdsIn(inbound') = IdsIn(inbound) /\ DistinctIn(inbound')
    BY <1>1, <1>2, <2>1, TailIds DEF Distinct
  <2>3. Held' = Held
    BY <2>1, <2>2, SameIds
  <2> QED
    BY <1>2, <2>1, <2>2, <2>3 DEF PlacesInv, Partition, Distinct
<1>6. CASE DeconnectReceives
  <2>1. /\ inbound' = Tail(inbound)
        /\ inbound # <<>> /\ taken' = <<Head(inbound)>>
        /\ taken = <<>>
        /\ UNCHANGED <<reading, working, tasks, dropped, processed, skipped,
                       delivered>>
    BY <1>2, <1>6 DEF DeconnectReceives, NothingOverwritten
  <2>2. /\ DistinctIn(inbound') /\ DistinctIn(taken')
        /\ IdsIn(taken) = {}
        /\ Head(inbound) = Success =>
             IdsIn(taken') = {} /\ IdsIn(inbound') = IdsIn(inbound)
        /\ Head(inbound) # Success =>
             /\ Head(inbound).id \in IdsIn(inbound)
             /\ IdsIn(taken') = {Head(inbound).id}
             /\ IdsIn(inbound') = IdsIn(inbound) \ {Head(inbound).id}
    BY <1>1, <1>2, <2>1, TailIds, SingletonIds, EmptyIds DEF Distinct
  <2>3. Distinct'
    BY <1>2, <2>1, <2>2 DEF Distinct
  <2>4. PICK X \in SUBSET IdsIn(inbound) :
          IdsIn(taken') = X /\ IdsIn(inbound') = IdsIn(inbound) \ X
    BY <2>2
  <2>5. /\ Held'["socket"] = Held["socket"] \ X /\ X \subseteq Held["socket"]
        /\ Held'["taken"] = Held["taken"] \cup X
        /\ \A x \in Place \ {"socket", "taken"} : Held'[x] = Held[x]
    BY <2>1, <2>2, <2>4, HeldAt DEF Place
  <2> QED
    BY <1>1, <1>3, <2>1, <2>3, <2>5, MoveStep, Zenon
<1>7. CASE Reconnect
  <2> DEFINE M == {inbound[k] : k \in Requests(inbound)}
  <2>1. /\ inbound' = <<>> /\ dropped' = dropped \cup M
        /\ UNCHANGED <<reading, working, tasks, taken, processed, skipped,
                       delivered>>
    BY <1>7 DEF Reconnect, Requests
  <2>2. /\ IdsOf(dropped') = IdsOf(dropped) \cup IdsIn(inbound)
        /\ IdsIn(inbound') = {} /\ DistinctIn(inbound')
    BY <2>1, EmptyIds DEF IdsOf, IdsIn
  <2>3. DistinctOf(dropped')
    <3>1. DistinctOf(dropped) /\ DistinctOf(M)
      BY <1>2 DEF Distinct, DistinctOf, DistinctIn
    <3>2. \A m \in dropped, n \in M : m.id # n.id
      BY Apart, HeldAt DEF IdsOf, IdsIn, Place
    <3> QED
      BY <2>1, <3>1, <3>2 DEF DistinctOf
  <2>4. Distinct'
    BY <1>2, <2>1, <2>2, <2>3 DEF Distinct
  <2>5. /\ Held'["socket"] = Held["socket"] \ IdsIn(inbound)
        /\ IdsIn(inbound) \subseteq Held["socket"]
        /\ Held'["dropped"] = Held["dropped"] \cup IdsIn(inbound)
        /\ \A x \in Place \ {"socket", "dropped"} : Held'[x] = Held[x]
    BY <2>1, <2>2, HeldAt DEF Place
  <2> QED
    BY <1>1, <1>3, <2>1, <2>4, <2>5, MoveStep, Zenon
<1>8. CASE Terminate
  <2>1. /\ inbound' = Tail(inbound) /\ inbound # <<>>
        /\ dropped' = dropped \cup ({Head(inbound)} \ {Success})
        /\ UNCHANGED <<reading, working, tasks, taken, processed, skipped,
                       delivered>>
    BY <1>8 DEF Terminate
  <2>2. /\ DistinctIn(inbound')
        /\ Head(inbound) = Success => IdsIn(inbound') = IdsIn(inbound)
        /\ Head(inbound) # Success =>
             /\ Head(inbound).id \in IdsIn(inbound)
             /\ IdsIn(inbound') = IdsIn(inbound) \ {Head(inbound).id}
    BY <1>1, <1>2, <2>1, TailIds DEF Distinct
  <2>3. CASE Head(inbound) = Success
    <3>1. dropped' = dropped
      BY <2>1, <2>3
    <3>2. Held' = Held
      BY <2>1, <2>2, <2>3, <3>1, SameIds
    <3> QED
      BY <1>2, <2>1, <2>2, <3>1, <3>2 DEF PlacesInv, Partition, Distinct
  <2>4. CASE Head(inbound) # Success
    <3> DEFINE m == Head(inbound)
    <3>1. dropped' = dropped \cup {m}
      BY <2>1, <2>4
    <3>2. m.id \in Held["socket"] /\ m.id \notin IdsOf(dropped)
      BY <2>2, <2>4, Apart, HeldAt DEF Place
    <3> HIDE DEF m
    <3>3. /\ DistinctOf(dropped')
          /\ IdsOf(dropped') = IdsOf(dropped) \cup {m.id}
      BY <1>2, <3>1, <3>2, AddIds DEF Distinct
    <3>4. Distinct'
      BY <1>2, <2>1, <2>2, <3>3 DEF Distinct
    <3>5. /\ Held'["socket"] = Held["socket"] \ {m.id}
          /\ Held'["dropped"] = Held["dropped"] \cup {m.id}
          /\ \A x \in Place \ {"socket", "dropped"} : Held'[x] = Held[x]
      BY <2>1, <2>2, <2>4, <3>3, HeldAt DEF Place, m
    <3>6. {m.id} \in SUBSET Held["socket"]
      BY <3>2
    <3> QED
      BY <1>1, <1>3, <2>1, <3>4, <3>5, <3>6, MoveStep, Zenon
  <2> QED
    BY <2>3, <2>4
<1> QED
  BY <1>4, <1>5, <1>6, <1>7, <1>8 DEF Main

LEMMA IoPlaces ==
  ASSUME WorkerInv, PlacesInv, Io
  PROVE  Partition(Held, delivered)' /\ Distinct'
<1> USE DEF mainVars, handlerVars, brokerVars
<1>1. /\ TypeOK /\ inbound \in Seq(Inbound) /\ reading \in Seq(Message)
      /\ Len(reading) <= 1 /\ tasks \in [Queues -> Seq(Message)]
  BY DEF WorkerInv, TypeOK
<1>2. Distinct /\ NothingOverwritten /\ InHand
  BY DEF PlacesInv, WorkerInv
<1>3. CASE IoReceive
  <2>1. /\ inbound' = Tail(inbound) /\ inbound # <<>> /\ reading = <<>>
        /\ UNCHANGED <<working, tasks, taken, dropped, processed, skipped,
                       delivered>>
    BY <1>2, <1>3 DEF IoReceive, NothingOverwritten
  <2>2. /\ DistinctIn(inbound')
        /\ Head(inbound) = Success => IdsIn(inbound') = IdsIn(inbound)
        /\ Head(inbound) # Success =>
             /\ Head(inbound).id \in IdsIn(inbound)
             /\ IdsIn(inbound') = IdsIn(inbound) \ {Head(inbound).id}
    BY <1>1, <1>2, <2>1, TailIds DEF Distinct
  <2>3. CASE Head(inbound) = Success
    <3>1. reading' = reading
      BY <1>3, <2>3 DEF IoReceive
    <3>2. Held' = Held
      BY <2>1, <2>2, <2>3, <3>1, SameIds
    <3> QED
      BY <1>2, <2>1, <2>2, <3>1, <3>2 DEF PlacesInv, Partition, Distinct
  <2>4. CASE Head(inbound) # Success
    <3> DEFINE m == Head(inbound)
    <3>1. reading' = <<m>>
      BY <1>3, <2>4, Zenon DEF IoReceive
    <3>2. m.id \in Held["socket"]
      BY <2>2, <2>4, HeldAt
    <3>3. /\ IdsIn(reading') = {m.id} /\ DistinctIn(reading')
          /\ IdsIn(reading) = {}
      BY <2>1, <2>4, <3>1, SingletonIds, EmptyIds
    <3>4. Distinct'
      BY <1>2, <2>1, <2>2, <3>3 DEF Distinct
    <3>5. /\ Held'["socket"] = Held["socket"] \ {m.id}
          /\ Held'["reading"] = Held["reading"] \cup {m.id}
          /\ \A x \in Place \ {"socket", "reading"} : Held'[x] = Held[x]
      BY <2>1, <2>2, <2>4, <3>3, HeldAt DEF Place
    <3>6. {m.id} \in SUBSET Held["socket"]
      BY <3>2
    <3>7. "socket" \in Place /\ "reading" \in Place /\ "socket" # "reading"
      BY DEF Place
    <3> QED
      BY <1>1, <2>1, <3>4, <3>5, <3>6, <3>7, MoveStep, Zenon
  <2> QED
    BY <2>3, <2>4
<1>4. CASE IoPushOne \/ IoPushTwo
  <2>1. PICK q \in Queues : IoPush(q) /\ reading # <<>>
    BY <1>2, <1>4 DEF IoPushOne, IoPushTwo, InHand, Queues
  <2> DEFINE m == Head(reading)
  <2>2. reading = <<m>> /\ m \in Message /\ m # Success
    BY <1>1, <2>1, InHandIds, MessageIsNoSuccess
  <2>3. tasks' = [tasks EXCEPT ![q] = Append(tasks[q], m)]
    <3> HIDE DEF m
    <3>1. tasks' = [tasks EXCEPT ![q] = tasks[q] \o <<m>>]
      BY <2>1, <2>2 DEF IoPush
    <3>2. tasks[q] \in Seq(Message)
      BY <1>1
    <3> QED
      BY <2>2, <3>1, <3>2, AppendIsConcat
  <2>4. /\ reading' = <<>>
        /\ UNCHANGED <<inbound, working, taken, dropped, processed, skipped,
                       delivered>>
    BY <2>1 DEF IoPush
  <2> HIDE DEF m
  <2>5. q \in Place /\ "reading" \in Place /\ q # "reading"
    BY DEF Queues, Place
  <2>6. Held[q] = IdsIn(tasks[q]) /\ Held'[q] = IdsIn(tasks'[q])
    BY HeldAt DEF Queues
  <2>7. Held["reading"] = {m.id} /\ Held'["reading"] = {}
    BY <2>2, <2>4, HeldAt, SingletonIds, EmptyIds
  <2>8. DistinctIn(tasks[q]) /\ tasks[q] \in Seq(Message)
    BY <1>1, <1>2 DEF Distinct, Queues
  <2>9. m.id \notin IdsIn(tasks[q])
    BY <2>5, <2>6, <2>7, Apart
  <2>10. tasks'[q] = Append(tasks[q], m) /\ \A p \in Queues \ {q} : tasks'[p] = tasks[p]
    BY <1>1, <2>3
  <2>11. /\ DistinctIn(tasks'[q])
         /\ IdsIn(tasks'[q]) = IdsIn(tasks[q]) \cup {m.id}
    BY <2>2, <2>8, <2>9, <2>10, AppendIds
  <2>12. Distinct'
    <3>1. DistinctIn(reading')
      BY <2>4, EmptyIds
    <3>2. DistinctIn(tasks'["one"]) /\ DistinctIn(tasks'["two"])
      <4>1. \A p \in Queues : DistinctIn(tasks[p])
        BY <1>2 DEF Distinct, Queues
      <4>2. \A p \in Queues : DistinctIn(tasks'[p])
        BY <2>10, <2>11, <4>1, Zenon
      <4> QED
        BY <4>2 DEF Queues
    <3> QED
      BY <1>2, <2>4, <3>1, <3>2 DEF Distinct
  <2>13. \A x \in Place \ {"reading", q} : Held'[x] = Held[x]
    BY <2>4, <2>10, HeldAt DEF Place, Queues
  <2>14. /\ Held'["reading"] = Held["reading"] \ {m.id}
         /\ Held'[q] = Held[q] \cup {m.id}
         /\ {m.id} \in SUBSET Held["reading"]
    BY <2>6, <2>7, <2>11
  <2> QED
    BY <1>1, <2>4, <2>5, <2>12, <2>13, <2>14, MoveStep, Zenon
<1>5. CASE IoTryOne \/ IoTryTwo
  BY <1>5, PlacesKept DEF IoTryOne, IoTryTwo, IoTry, requestVars
<1>6. CASE IoStart \/ IoSpawn \/ IoEnter \/ IoLoop \/ IoPoll
          \/ IoPollsClosed \/ IoBeat
  BY <1>6, PlacesKept DEF IoStart, IoSpawn, IoEnter, IoLoop, IoPoll,
                          IoPollsClosed, IoBeat, requestVars
<1> QED
  BY <1>3, <1>4, <1>5, <1>6 DEF Io

LEMMA HandlerPlaces ==
  ASSUME WorkerInv, PlacesInv, Handler
  PROVE  Partition(Held, delivered)' /\ Distinct'
<1> USE DEF mainVars, ioVars, brokerVars
<1>1. /\ TypeOK /\ working \in Seq(Message) /\ Len(working) <= 1
      /\ tasks \in [Queues -> Seq(Message)]
  BY DEF WorkerInv, TypeOK
<1>2. Distinct /\ NothingOverwritten /\ InHand
  BY DEF PlacesInv, WorkerInv
<1>3. CASE HandlerPopOne \/ HandlerPopTwo
  <2>1. PICK q \in Queues, next \in {"work_one", "work_two"} :
          HandlerPop(q, next) /\ tasks[q] # <<>> /\ working = <<>>
    BY <1>2, <1>3
       DEF HandlerPopOne, HandlerPopTwo, InHand, Queues, NothingOverwritten
  <2> DEFINE m == Head(tasks[q])
  <2>2. /\ tasks[q] \in Seq(Message) /\ DistinctIn(tasks[q])
        /\ m \in Message /\ m # Success
    BY <1>1, <1>2, <2>1, HeadTailType, MessageIsNoSuccess DEF Distinct, Queues
  <2>3. /\ tasks' = [tasks EXCEPT ![q] = Tail(tasks[q])]
        /\ working' = <<m>>
        /\ UNCHANGED <<inbound, reading, taken, dropped, processed, skipped,
                       delivered>>
    BY <2>1 DEF HandlerPop
  <2>4. /\ tasks'[q] = Tail(tasks[q])
        /\ \A p \in Queues \ {q} : tasks'[p] = tasks[p]
    BY <1>1, <2>3
  <2>5. /\ DistinctIn(tasks'[q])
        /\ m.id \in IdsIn(tasks[q])
        /\ IdsIn(tasks'[q]) = IdsIn(tasks[q]) \ {m.id}
    BY <2>1, <2>2, <2>4, TailIds
  <2> HIDE DEF m
  <2>6. q \in Place /\ "working" \in Place /\ q # "working"
    BY DEF Queues, Place
  <2>7. Held[q] = IdsIn(tasks[q]) /\ Held'[q] = IdsIn(tasks'[q])
    BY HeldAt DEF Queues
  <2>8. /\ Held["working"] = {} /\ Held'["working"] = {m.id}
        /\ DistinctIn(working')
    BY <2>1, <2>2, <2>3, HeldAt, SingletonIds, EmptyIds
  <2>9. Distinct'
    <3>1. \A p \in Queues : DistinctIn(tasks[p])
      BY <1>2 DEF Distinct, Queues
    <3>2. \A p \in Queues : DistinctIn(tasks'[p])
      BY <2>4, <2>5, <3>1, Zenon
    <3>3. DistinctIn(tasks'["one"]) /\ DistinctIn(tasks'["two"])
      BY <3>2 DEF Queues
    <3>4. UNCHANGED <<inbound, reading, taken, dropped, processed, skipped>>
      BY <2>3
    <3> QED
      BY <1>2, <2>8, <3>3, <3>4 DEF Distinct
  <2>10. UNCHANGED <<inbound, reading, taken, dropped, processed, skipped>>
    BY <2>3
  <2>11. \A x \in Place \ {q, "working"} : Held'[x] = Held[x]
    BY <2>4, <2>10, HeldAt DEF Place, Queues
  <2>12. /\ Held'[q] = Held[q] \ {m.id}
         /\ Held'["working"] = Held["working"] \cup {m.id}
         /\ {m.id} \in SUBSET Held[q]
    BY <2>5, <2>7, <2>8
  <2> QED
    BY <1>1, <2>3, <2>6, <2>9, <2>11, <2>12, MoveStep, Zenon
<1>4. CASE HandlerWorkOne \/ HandlerWorkTwo
  <2>1. \/ UNCHANGED requestVars
        \/ /\ working # <<>> /\ working' = <<>>
           /\ skipped' = skipped \cup {Head(working)}
           /\ UNCHANGED <<inbound, reading, tasks, taken, dropped, processed,
                          delivered>>
    BY <1>2, <1>4 DEF HandlerWorkOne, HandlerWorkTwo, HandlerWorkOn, Skip,
                      StartCall, InHand, requestVars
  <2>2. CASE UNCHANGED requestVars
    BY <2>2, PlacesKept
  <2>3. CASE ~UNCHANGED requestVars
    <3> DEFINE m == Head(working)
    <3>1. /\ working = <<m>> /\ m # Success /\ working' = <<>>
          /\ skipped' = skipped \cup {m}
          /\ UNCHANGED <<inbound, reading, tasks, taken, dropped, processed,
                         delivered>>
      BY <1>1, <2>1, <2>3, InHandIds, MessageIsNoSuccess
    <3> HIDE DEF m
    <3>2. Held["working"] = {m.id} /\ Held'["working"] = {}
      BY <3>1, HeldAt, SingletonIds, EmptyIds
    <3>3. m.id \notin IdsOf(skipped)
      BY <3>2, Apart, HeldAt DEF Place
    <3>4. DistinctOf(skipped') /\ IdsOf(skipped') = IdsOf(skipped) \cup {m.id}
      BY <1>2, <3>1, <3>3, AddIds DEF Distinct
    <3>5. Distinct'
      BY <1>2, <3>1, <3>4, EmptyIds DEF Distinct
    <3>6. /\ Held'["working"] = Held["working"] \ {m.id}
          /\ Held'["skipped"] = Held["skipped"] \cup {m.id}
          /\ \A x \in Place \ {"working", "skipped"} : Held'[x] = Held[x]
          /\ {m.id} \in SUBSET Held["working"]
      BY <3>1, <3>2, <3>4, HeldAt DEF Place
    <3>7. "working" \in Place /\ "skipped" \in Place /\ "working" # "skipped"
      BY DEF Place
    <3> QED
      BY <1>1, <3>1, <3>5, <3>6, <3>7, MoveStep, Zenon
  <2> QED
    BY <2>2, <2>3
<1>5. CASE HandlerReplyOne \/ HandlerReplyTwo
  <2> DEFINE m == Head(working)
  <2>1. /\ working # <<>> /\ working' = <<>>
        /\ processed' = processed \cup {m}
        /\ UNCHANGED <<inbound, reading, tasks, taken, dropped, skipped,
                       delivered>>
    BY <1>2, <1>5 DEF HandlerReplyOne, HandlerReplyTwo, HandlerReply, InHand
  <2>2. working = <<m>> /\ m # Success
    BY <1>1, <2>1, InHandIds, MessageIsNoSuccess
  <2> HIDE DEF m
  <2>3. Held["working"] = {m.id} /\ Held'["working"] = {}
    BY <2>1, <2>2, HeldAt, SingletonIds, EmptyIds
  <2>4. m.id \notin IdsOf(processed)
    BY <2>3, Apart, HeldAt DEF Place
  <2>5. /\ DistinctOf(processed')
        /\ IdsOf(processed') = IdsOf(processed) \cup {m.id}
    BY <1>2, <2>1, <2>4, AddIds DEF Distinct
  <2>6. Distinct'
    BY <1>2, <2>1, <2>5, EmptyIds DEF Distinct
  <2>7. /\ Held'["working"] = Held["working"] \ {m.id}
        /\ Held'["processed"] = Held["processed"] \cup {m.id}
        /\ \A x \in Place \ {"working", "processed"} : Held'[x] = Held[x]
        /\ {m.id} \in SUBSET Held["working"]
    BY <2>1, <2>3, <2>5, HeldAt DEF Place
  <2>8. "working" \in Place /\ "processed" \in Place /\ "working" # "processed"
    BY DEF Place
  <2> QED
    BY <1>1, <2>1, <2>6, <2>7, <2>8, MoveStep, Zenon
<1>6. CASE HandlerLoop \/ HandlerCheckOne \/ HandlerCheckTwo
          \/ HandlerTryOne \/ HandlerTryTwo
  BY <1>6, PlacesKept DEF HandlerLoop, HandlerCheckOne, HandlerCheckTwo,
                          HandlerTryOne, HandlerTryTwo, HandlerTry, requestVars
<1> QED
  BY <1>3, <1>4, <1>5, <1>6 DEF Handler

LEMMA BrokerPlaces ==
  ASSUME WorkerInv, PlacesInv,
         BrokerAnswers \/ \E c \in Clients, n \in 1..MaxSerial : BrokerForwards(c, n)
  PROVE  Partition(Held, delivered)' /\ Distinct'
<1> USE DEF mainVars, ioVars, handlerVars, brokerVars
<1>1. inbound \in Seq(Inbound) /\ delivered \in Nat
  BY WorkerBounds DEF WorkerInv, TypeOK
<1>2. Partition(Held, delivered) /\ Distinct
  BY DEF PlacesInv
<1>3. CASE BrokerAnswers
  <2>1. /\ inbound' = Append(inbound, Success)
        /\ UNCHANGED <<reading, working, tasks, taken, dropped, processed,
                       skipped, delivered>>
    BY <1>3 DEF BrokerAnswers
  <2>2. IdsIn(inbound') = IdsIn(inbound) /\ DistinctIn(inbound')
    BY <1>1, <1>2, <2>1, AppendIds DEF Distinct
  <2>3. Held' = Held
    BY <2>1, <2>2, SameIds
  <2> QED
    BY <1>2, <2>1, <2>2, <2>3 DEF Partition, Distinct
<1>4. ASSUME NEW c \in Clients, NEW n \in 1..MaxSerial, BrokerForwards(c, n)
      PROVE  Partition(Held, delivered)' /\ Distinct'
  <2> DEFINE m == [head |-> "RPC_REQ", id |-> delivered + 1, client |-> c,
                   serial |-> n]
  <2>1. /\ inbound' = Append(inbound, m) /\ delivered' = delivered + 1
        /\ UNCHANGED <<reading, working, tasks, taken, dropped, processed,
                       skipped>>
    BY <1>4 DEF BrokerForwards, Receive
  <2>2. m # Success /\ m.id = delivered + 1
    BY DEF Success
  <2>3. m.id \notin Held["socket"]
    BY <1>1, <1>2, <2>2 DEF Partition, Place
  <2> HIDE DEF m
  <2>4. /\ IdsIn(inbound') = IdsIn(inbound) \cup {m.id}
        /\ DistinctIn(inbound')
    BY <1>1, <1>2, <2>1, <2>2, <2>3, HeldAt, AppendIds DEF Distinct
  <2>5. Distinct'
    BY <1>2, <2>1, <2>4 DEF Distinct
  <2>6. /\ Held'["socket"] = Held["socket"] \cup {delivered + 1}
        /\ \A x \in Place \ {"socket"} : Held'[x] = Held[x]
        /\ "socket" \in Place
    BY <2>1, <2>2, <2>4, HeldAt DEF Place
  <2>7. Partition(Held', delivered + 1)
    BY <1>1, <1>2, <2>6, AddPartition, Zenon
  <2> QED
    BY <2>1, <2>5, <2>7
<1> QED
  BY <1>3, <1>4

LEMMA PlacesInvariance == Spec => []PlacesInv
<1>1. Init => PlacesInv
  <2> SUFFICES ASSUME Init PROVE PlacesInv
    OBVIOUS
  <2>1. /\ inbound = <<>> /\ reading = <<>> /\ working = <<>> /\ taken = <<>>
        /\ tasks["one"] = <<>> /\ tasks["two"] = <<>>
        /\ dropped = {} /\ processed = {} /\ skipped = {}
    BY DEF Init, Queues
  <2>2. Distinct
    BY <2>1, EmptyIds DEF Distinct, DistinctOf
  <2>3. \A x \in Place : Held[x] = {}
    BY <2>1, HeldAt, EmptyIds DEF Place, IdsOf
  <2>4. Partition(Held, delivered)
    BY <2>3 DEF Partition, Init
  <2>5. NothingOverwritten
    BY DEF Init, NothingOverwritten
  <2> QED
    BY <2>2, <2>4, <2>5 DEF PlacesInv
<1>2. WorkerInv /\ PlacesInv /\ [Next]_vars => PlacesInv'
  <2> SUFFICES ASSUME WorkerInv, PlacesInv, [Next]_vars PROVE PlacesInv'
    OBVIOUS
  <2>1. NothingOverwritten'
    BY OverwrittenStep DEF PlacesInv
  <2>2. CASE UNCHANGED vars
    BY <2>1, <2>2, PlacesKept DEF vars, requestVars, PlacesInv
  <2>3. CASE Next
    BY <2>1, <2>3, MainPlaces, IoPlaces, HandlerPlaces, BrokerPlaces
       DEF Next, PlacesInv
  <2> QED
    BY <2>2, <2>3
<1> QED
  BY <1>1, <1>2, Invariance, PTL DEF Spec

(***************************************************************************)
(* Every delivered request is in exactly one place, whatever the threads   *)
(* do, and however often they fail to lock a queue.                        *)
(***************************************************************************)
THEOREM EveryRequestHasItsPlace == Spec => []NothingLost
<1>1. PlacesInv => NothingLost
  <2> SUFFICES ASSUME PlacesInv, NEW id \in 1..delivered
               PROVE  Cardinality(Places(id)) = 1
    BY DEF NothingLost
  <2> DEFINE At(q) == Positions(q, id)
             Of(S) == {m \in S : m.id = id}
             P == [x \in Place |->
                     CASE x = "socket" -> At(inbound)
                       [] x = "reading" -> At(reading)
                       [] x = "one" -> At(tasks["one"])
                       [] x = "two" -> At(tasks["two"])
                       [] x = "working" -> At(working)
                       [] x = "taken" -> At(taken)
                       [] x = "dropped" -> Of(dropped)
                       [] x = "processed" -> Of(processed)
                       [] x = "skipped" -> Of(skipped)]
  <2>1. \A q : /\ id \in IdsIn(q) <=> At(q) # {}
               /\ DistinctIn(q) => \A j, k \in At(q) : j = k
    BY DEF Positions, IdsIn, Requests, DistinctIn
  <2>2. \A S : /\ id \in IdsOf(S) <=> Of(S) # {}
               /\ DistinctOf(S) => \A m, n \in Of(S) : m = n
    BY DEF IdsOf, DistinctOf
  <2> HIDE DEF At, Of
  <2>3. /\ P["socket"] = At(inbound) /\ P["reading"] = At(reading)
        /\ P["one"] = At(tasks["one"]) /\ P["two"] = At(tasks["two"])
        /\ P["working"] = At(working) /\ P["taken"] = At(taken)
        /\ P["dropped"] = Of(dropped) /\ P["processed"] = Of(processed)
        /\ P["skipped"] = Of(skipped)
    BY DEF Place
  <2> HIDE DEF P
  <2>4. \A x \in Place : id \in Held[x] <=> P[x] # {}
    BY <2>1, <2>2, <2>3, HeldAt DEF Place
  <2>5. \A x \in Place : \A j, k \in P[x] : j = k
    BY <2>1, <2>2, <2>3 DEF Place, PlacesInv, Distinct
  <2>6. Places(id) = UNION {{x} \X P[x] : x \in Place}
    BY <2>3 DEF Places, Place, At, Of
  <2>7. PICK x \in Place : \A y \in Place : id \in Held[y] <=> y = x
    BY DEF PlacesInv, Partition
  <2>8. PICK p : p \in P[x]
    BY <2>4, <2>7
  <2>9. Places(id) = {<<x, p>>}
    BY <2>4, <2>5, <2>6, <2>7, <2>8
  <2> QED
    BY <2>9, FS_Singleton
<1> QED
  BY <1>1, PlacesInvariance, PTL
=============================================================================
