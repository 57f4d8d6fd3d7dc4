----------------------------- MODULE RpcWorker -----------------------------
(***************************************************************************)
(* One RpcWorker (src/rpc/worker.h, src/rpc/worker.cpp) and its threads:   *)
(* the caller's thread (Connect, Deconnect, the destructor), the io thread *)
(* (ReceiveLoop) and the handler thread (HandleMessage).  The io thread    *)
(* passes requests to the handler through two queues, each with a mutex    *)
(* that both sides only try_lock.                                          *)
(*                                                                         *)
(* The environment is the broker: it delivers requests to the worker's     *)
(* DEALER socket and answers RPC_REG and RPC_UNCONNECT with RPC_SUCCESS.   *)
(* Each delivery carries an id of its own, which the code does not have:   *)
(* a retry repeats the serial number of the request.                       *)
(*                                                                         *)
(* An assert that fails ends the process: NDEBUG is never defined, the     *)
(* build type is always Debug.                                             *)
(***************************************************************************)
EXTENDS Naturals, Sequences, FiniteSets

CONSTANTS
    Clients,      \* clients whose requests reach this worker
    MaxSerial,    \* bound: serial numbers (timestamps) of requests
    MaxRequests,  \* bound: requests delivered
    MayLeave,     \* whether the caller's thread calls Deconnect
    MayDestroy,   \* whether the caller's thread destroys the worker
    MayReconnect  \* whether the caller's thread connects a second time

ASSUME WorkerBounds == MaxSerial \in Nat /\ MaxRequests \in Nat
ASSUME WorkerChoices == {MayLeave, MayDestroy, MayReconnect} \subseteq BOOLEAN

Message == [head : {"RPC_REQ"}, id : 1..MaxRequests, client : Clients,
            serial : 1..MaxSerial]
Success == [head |-> "RPC_SUCCESS"]
Inbound == Message \cup {Success}

\* The queues between the two threads, and the owner of a mutex.
Queues == {"one", "two"}
Owner == {"nobody", "io", "handler"}

VARIABLES
    main,       \* where the caller's thread is
    io,         \* where the io thread is
    handler,    \* where the handler thread is
    stop,       \* stop_
    inbound,    \* what the socket has received and nobody has read
    tasks,      \* tasks[q]: messages_task_one_ and messages_task_two_
    lock,       \* lock[q]: the owner of mx_task_one_ and mx_task_two_
    services_mutex,  \* the owner of services_mutex_
    reading,    \* the message the io thread has read and not passed on
    working,    \* the message the handler has popped and not finished
    current_max,     \* current_max_serial_num_of_request
    last,       \* last[c]: the latest serial client c has used
    delivered,  \* the number of requests delivered
    processed,  \* the requests answered
    skipped,    \* the requests skipped as history
    taken,      \* what Deconnect took for the broker's answer
    dropped,    \* the requests lost with the socket of the first Connect
    asked       \* whether the broker owes an RPC_SUCCESS

mainVars == <<main, taken, dropped, asked>>
ioVars == <<io, reading>>
handlerVars == <<handler, working, services_mutex, current_max, processed,
                 skipped>>
brokerVars == <<last, delivered>>
vars == <<main, io, handler, stop, inbound, tasks, lock, services_mutex,
          reading, working, current_max, last, delivered, processed, skipped,
          taken, dropped, asked>>

TypeOK ==
    /\ main \in {"new", "registering", "idle", "leaving", "awaiting",
                 "destroying", "destroyed", "reconnecting", "terminated"}
    /\ io \in {"off", "start", "spawn", "enter", "loop", "poll", "receive",
               "try_one", "push_one", "try_two", "push_two", "beat", "done",
               "abort_entry", "abort_frames", "abort_poll"}
    /\ handler \in {"off", "loop", "check_one", "try_one", "pop_one", "work_one",
                    "call_one", "check_two", "try_two", "pop_two",
                    "work_two", "call_two", "done"}
    /\ stop \in BOOLEAN
    /\ inbound \in Seq(Inbound)
    /\ tasks \in [Queues -> Seq(Message)]
    /\ lock \in [Queues -> Owner]
    /\ services_mutex \in {"nobody", "handler"}
    /\ reading \in Seq(Message) /\ Len(reading) <= 1
    /\ working \in Seq(Message) /\ Len(working) <= 1
    /\ current_max \in 0..MaxSerial
    /\ last \in [Clients -> 0..MaxSerial]
    /\ delivered \in 0..MaxRequests
    /\ processed \in SUBSET Message
    /\ skipped \in SUBSET Message
    /\ taken \in Seq(Inbound) /\ Len(taken) <= 1
    /\ dropped \in SUBSET Message
    /\ asked \in BOOLEAN

Init ==
    /\ main = "new"
    /\ io = "off"
    /\ handler = "off"
    /\ stop = TRUE
    /\ inbound = <<>>
    /\ tasks = [q \in Queues |-> <<>>]
    /\ lock = [q \in Queues |-> "nobody"]
    /\ services_mutex = "nobody"
    /\ reading = <<>>
    /\ working = <<>>
    /\ current_max = 0
    /\ last = [c \in Clients |-> 0]
    /\ delivered = 0
    /\ processed = {}
    /\ skipped = {}
    /\ taken = <<>>
    /\ dropped = {}
    /\ asked = FALSE

-----------------------------------------------------------------------------
(***************************************************************************)
(* The caller's thread.                                                    *)
(***************************************************************************)

\* Connect: RPC_REG is sent, ReceiveAll waits for the broker's answer.
Connect ==
    /\ main = "new"
    /\ main' = "registering"
    /\ asked' = TRUE
    /\ UNCHANGED <<taken, dropped, ioVars, handlerVars, brokerVars, stop, inbound,
                   tasks, lock>>

\* The answer is there: the io thread is created.  It has not run yet.
Connected ==
    /\ main = "registering"
    /\ inbound # <<>>
    /\ inbound' = Tail(inbound)
    /\ main' = "idle"
    /\ io' = "start"
    /\ UNCHANGED <<taken, dropped, asked, reading, handlerVars, brokerVars,
                   stop, tasks, lock>>

\* Deconnect copies the names under services_mutex_ and stops the loops.
Deconnect ==
    /\ MayLeave
    /\ main = "idle"
    /\ taken = <<>>
    /\ services_mutex = "nobody"
    /\ main' = "leaving"
    /\ stop' = TRUE
    /\ UNCHANGED <<taken, dropped, asked, ioVars, handlerVars, brokerVars,
                   inbound, tasks, lock>>

\* Then it sends RPC_UNCONNECT and waits for the answer.
SendUnconnect ==
    /\ main = "leaving"
    /\ main' = "awaiting"
    /\ asked' = TRUE
    /\ UNCHANGED <<taken, dropped, ioVars, handlerVars, brokerVars, stop, inbound,
                   tasks, lock>>

\* ReceiveAll on the socket the io thread may be reading too.
DeconnectReceives ==
    /\ main = "awaiting"
    /\ inbound # <<>>
    /\ taken' = <<Head(inbound)>>
    /\ inbound' = Tail(inbound)
    /\ main' = "idle"
    /\ UNCHANGED <<dropped, asked, ioVars, handlerVars, brokerVars, stop, tasks,
                   lock>>

\* ~RpcWorker sets stop_ and joins the io thread, then the handler.
Destroy ==
    /\ MayDestroy
    /\ main = "idle"
    /\ main' = "destroying"
    /\ stop' = TRUE
    /\ UNCHANGED <<taken, dropped, asked, ioVars, handlerVars, brokerVars,
                   inbound, tasks, lock>>

Joined ==
    /\ main = "destroying"
    /\ io = "done"
    /\ handler = "done"
    /\ main' = "destroyed"
    /\ UNCHANGED <<taken, dropped, asked, ioVars, handlerVars, brokerVars, stop,
                   inbound, tasks, lock>>

\* Connect once more, or Reconnect: a new socket, and RPC_REG again.
Reconnect ==
    /\ MayReconnect
    /\ main = "idle"
    /\ services_mutex = "nobody"
    /\ main' = "reconnecting"
    /\ dropped' = dropped \cup {inbound[k] : k \in
                     {n \in 1..Len(inbound) : inbound[n] # Success}}
    /\ inbound' = <<>>
    /\ asked' = TRUE
    /\ UNCHANGED <<taken, ioVars, handlerVars, brokerVars, stop, tasks, lock>>

\* worker_ is joinable, running or not: the assignment ends the process.
Terminate ==
    /\ main = "reconnecting"
    /\ inbound # <<>>
    /\ inbound' = Tail(inbound)
    /\ main' = "terminated"
    /\ dropped' = dropped \cup ({Head(inbound)} \ {Success})
    /\ UNCHANGED <<taken, asked, ioVars, handlerVars, brokerVars,
                   stop, tasks, lock>>

Main == Connect \/ Connected \/ Deconnect \/ SendUnconnect
          \/ DeconnectReceives \/ Destroy \/ Joined \/ Reconnect \/ Terminate

-----------------------------------------------------------------------------
(***************************************************************************)
(* The io thread: the lambda of Connect, then ReceiveLoop.                 *)
(***************************************************************************)
IoStart ==
    /\ io = "start"
    /\ io' = "spawn"
    /\ stop' = FALSE
    /\ UNCHANGED <<reading, mainVars, handlerVars, brokerVars, inbound, tasks,
                   lock>>

IoSpawn ==
    /\ io = "spawn"
    /\ io' = "enter"
    /\ handler' = "loop"
    /\ UNCHANGED <<reading, mainVars, working, services_mutex, current_max,
                   processed, skipped, brokerVars, stop, inbound, tasks, lock>>

\* assert(stop_ == false) at the head of ReceiveLoop.
IoEnter ==
    /\ io = "enter"
    /\ io' = IF stop THEN "abort_entry" ELSE "loop"
    /\ UNCHANGED <<reading, mainVars, handlerVars, brokerVars, stop, inbound,
                   tasks, lock>>

\* while (!stop_)
IoLoop ==
    /\ io = "loop"
    /\ io' = IF stop THEN "done" ELSE "poll"
    /\ UNCHANGED <<reading, mainVars, handlerVars, brokerVars, stop, inbound,
                   tasks, lock>>

\* WaitReadable, up to heartbeat_: stop_ may be set, and the broker may
\* answer, before it returns.
IoPoll ==
    /\ io = "poll"
    /\ io' = IF inbound # <<>> THEN "receive" ELSE "beat"
    /\ UNCHANGED <<reading, mainVars, handlerVars, brokerVars, stop, inbound,
                   tasks, lock>>

\* The socket it polls is destroyed by Reconnect: poll throws, nobody catches.
IoPollsClosed ==
    /\ io = "poll"
    /\ main = "reconnecting"
    /\ io' = "abort_poll"
    /\ UNCHANGED <<reading, mainVars, handlerVars, brokerVars, stop, inbound,
                   tasks, lock>>

\* ReceiveAll blocks when another thread has read the message meanwhile.
\* assert(messages.size() >= 4) fails on RPC_SUCCESS, which is one frame.
IoReceive ==
    /\ io = "receive"
    /\ inbound # <<>>
    /\ inbound' = Tail(inbound)
    /\ \/ /\ Head(inbound) = Success
          /\ io' = "abort_frames"
          /\ UNCHANGED reading
       \/ /\ Head(inbound) # Success
          /\ io' = "try_one"
          /\ reading' = <<Head(inbound)>>
    /\ UNCHANGED <<mainVars, handlerVars, brokerVars, stop, tasks, lock>>

\* Mutant: the lock is taken for granted.
IoTryRegardless(q, owned, busy) ==
    /\ lock' = [lock EXCEPT ![q] = "io"]
    /\ io' = owned
    /\ UNCHANGED <<reading, mainVars, handlerVars, brokerVars, stop, inbound,
                   tasks>>

\* A try_lock: the next step depends on whether the lock was owned.
IoTry(q, owned, busy) ==
    /\ \/ /\ lock[q] = "nobody"
          /\ lock' = [lock EXCEPT ![q] = "io"]
          /\ io' = owned
       \/ /\ lock[q] # "nobody"
          /\ io' = busy
          /\ UNCHANGED lock
    /\ UNCHANGED <<reading, mainVars, handlerVars, brokerVars, stop, inbound,
                   tasks>>

IoTryOne == io = "try_one" /\ IoTry("one", "push_one", "try_two")
IoTryTwo == io = "try_two" /\ IoTry("two", "push_two", "try_one")

\* push_back, unlock and break.
IoPush(q) ==
    /\ tasks' = [tasks EXCEPT ![q] = @ \o reading]
    /\ reading' = <<>>
    /\ lock' = [lock EXCEPT ![q] = "nobody"]
    /\ io' = "beat"
    /\ UNCHANGED <<mainVars, handlerVars, brokerVars, stop, inbound>>

IoPushOne == io = "push_one" /\ IoPush("one")
IoPushTwo == io = "push_two" /\ IoPush("two")

\* The heartbeat, sent or not yet due; what it is for is in RpcBroker.
IoBeat ==
    /\ io = "beat"
    /\ io' = "loop"
    /\ UNCHANGED <<reading, mainVars, handlerVars, brokerVars, stop, inbound,
                   tasks, lock>>

Io == IoStart \/ IoSpawn \/ IoEnter \/ IoLoop \/ IoPoll \/ IoPollsClosed
        \/ IoReceive \/ IoTryOne \/ IoTryTwo \/ IoPushOne \/ IoPushTwo
        \/ IoBeat

-----------------------------------------------------------------------------
(***************************************************************************)
(* The handler thread: HandleMessage, the same code for queue one and for  *)
(* queue two.                                                              *)
(***************************************************************************)

\* while (!stop_)
HandlerLoop ==
    /\ handler = "loop"
    /\ handler' = IF stop THEN "done" ELSE "check_one"
    /\ UNCHANGED <<working, services_mutex, current_max, processed, skipped,
                   mainVars, ioVars, brokerVars, stop, inbound, tasks, lock>>

\* messages_task_one_.empty() without the lock, and likewise for queue two.
HandlerCheckOne ==
    /\ handler = "check_one"
    /\ handler' = IF tasks["one"] = <<>> THEN "check_two" ELSE "try_one"
    /\ UNCHANGED <<working, services_mutex, current_max, processed, skipped,
                   mainVars, ioVars, brokerVars, stop, inbound, tasks, lock>>

\* Mutant: stop_ is read only when there is something to do.
HandlerCheckTwoStays ==
    /\ handler = "check_two"
    /\ handler' = IF tasks["two"] = <<>> THEN "check_two" ELSE "try_two"
    /\ UNCHANGED <<working, services_mutex, current_max, processed, skipped,
                   mainVars, ioVars, brokerVars, stop, inbound, tasks, lock>>

HandlerCheckTwo ==
    /\ handler = "check_two"
    /\ handler' = IF tasks["two"] = <<>> THEN "loop" ELSE "try_two"
    /\ UNCHANGED <<working, services_mutex, current_max, processed, skipped,
                   mainVars, ioVars, brokerVars, stop, inbound, tasks, lock>>

HandlerTry(q, owned, busy) ==
    /\ \/ /\ lock[q] = "nobody"
          /\ lock' = [lock EXCEPT ![q] = "handler"]
          /\ handler' = owned
       \/ /\ lock[q] # "nobody"
          /\ handler' = busy
          /\ UNCHANGED lock
    /\ UNCHANGED <<working, services_mutex, current_max, processed, skipped,
                   mainVars, ioVars, brokerVars, stop, inbound, tasks>>

HandlerTryOne == handler = "try_one" /\ HandlerTry("one", "pop_one", "check_two")
HandlerTryTwo == handler = "try_two" /\ HandlerTry("two", "pop_two", "loop")

\* Mutant: the lock is kept.
HandlerPopKeepsLock(q, next) ==
    /\ working' = <<Head(tasks[q])>>
    /\ tasks' = [tasks EXCEPT ![q] = Tail(@)]
    /\ handler' = next
    /\ UNCHANGED <<services_mutex, current_max, processed, skipped, mainVars,
                   ioVars, brokerVars, stop, inbound, lock>>

\* Mutant: the front is copied, not removed.
HandlerPeek(q, next) ==
    /\ working' = <<Head(tasks[q])>>
    /\ lock' = [lock EXCEPT ![q] = "nobody"]
    /\ handler' = next
    /\ UNCHANGED <<services_mutex, current_max, processed, skipped, mainVars,
                   ioVars, brokerVars, stop, inbound, tasks>>

\* front, pop_front and unlock.
HandlerPop(q, next) ==
    /\ working' = <<Head(tasks[q])>>
    /\ tasks' = [tasks EXCEPT ![q] = Tail(@)]
    /\ lock' = [lock EXCEPT ![q] = "nobody"]
    /\ handler' = next
    /\ UNCHANGED <<services_mutex, current_max, processed, skipped, mainVars,
                   ioVars, brokerVars, stop, inbound>>

HandlerPopOne == handler = "pop_one" /\ HandlerPop("one", "work_one")
HandlerPopTwo == handler = "pop_two" /\ HandlerPop("two", "work_two")

\* Mutant: a retry counts as history.
IsHistoryOrEqual(m) == m.serial <= current_max

\* "Is history request"
IsHistory(m) == m.serial < current_max

\* continue: back to the head of the loop, whichever the queue.
Skip ==
    /\ IsHistory(Head(working))
    /\ skipped' = skipped \cup {Head(working)}
    /\ working' = <<>>
    /\ handler' = "loop"
    /\ UNCHANGED services_mutex

\* services_mutex_ is held while the callback runs and answers.
StartCall(calling) ==
    /\ ~IsHistory(Head(working))
    /\ services_mutex = "nobody"
    /\ services_mutex' = "handler"
    /\ handler' = calling
    /\ UNCHANGED <<working, skipped>>

HandlerWorkOn(calling) ==
    /\ Skip \/ StartCall(calling)
    /\ UNCHANGED <<current_max, processed, mainVars, ioVars, brokerVars, stop,
                   inbound, tasks, lock>>

HandlerWorkOne == handler = "work_one" /\ HandlerWorkOn("call_one")
HandlerWorkTwo == handler = "work_two" /\ HandlerWorkOn("call_two")

\* Mutant: the requests are counted, their serial numbers are not recorded.
HandlerReplyCounts(next) ==
    /\ processed' = processed \cup {Head(working)}
    /\ current_max' = current_max + 1
    /\ working' = <<>>
    /\ services_mutex' = "nobody"
    /\ handler' = next
    /\ UNCHANGED <<skipped, mainVars, ioVars, brokerVars, stop, inbound, tasks,
                   lock>>

\* The callback returned and Response was sent.
HandlerReply(next) ==
    /\ processed' = processed \cup {Head(working)}
    /\ current_max' = Head(working).serial
    /\ working' = <<>>
    /\ services_mutex' = "nobody"
    /\ handler' = next
    /\ UNCHANGED <<skipped, mainVars, ioVars, brokerVars, stop, inbound, tasks,
                   lock>>

HandlerReplyOne == handler = "call_one" /\ HandlerReply("check_two")
HandlerReplyTwo == handler = "call_two" /\ HandlerReply("loop")

Handler == HandlerLoop \/ HandlerCheckOne \/ HandlerCheckTwo
             \/ HandlerTryOne \/ HandlerTryTwo \/ HandlerPopOne
             \/ HandlerPopTwo \/ HandlerWorkOne \/ HandlerWorkTwo
             \/ HandlerReplyOne \/ HandlerReplyTwo

-----------------------------------------------------------------------------
(***************************************************************************)
(* The broker, as this worker sees it.  It forwards the requests of one    *)
(* client in the order they were sent; a call keeps its serial number over *)
(* all its retries and a later call has a later one.  It forwards nothing  *)
(* before it has answered RPC_REG, nor after it has answered               *)
(* RPC_UNCONNECT.                                                          *)
(***************************************************************************)
BrokerAnswers ==
    /\ asked
    /\ asked' = FALSE
    /\ inbound' = Append(inbound, Success)
    /\ UNCHANGED <<main, taken, dropped, ioVars, handlerVars, brokerVars, stop,
                   tasks, lock>>

Registered == main # "new" /\ ~(main = "registering" /\ inbound = <<>>)

Left == ~asked /\ (main = "awaiting" \/ taken # <<>>)

Receive(c, n) ==
    /\ last' = [last EXCEPT ![c] = n]
    /\ delivered' = delivered + 1
    /\ inbound' = Append(inbound, [head |-> "RPC_REQ", id |-> delivered + 1,
                                   client |-> c, serial |-> n])
    /\ UNCHANGED <<mainVars, ioVars, handlerVars, stop, tasks, lock>>

BrokerForwards(c, n) ==
    /\ Registered
    /\ ~Left
    /\ delivered < MaxRequests
    /\ n >= last[c]
    /\ Receive(c, n)

\* A failed assert, an exception nobody catches, or std::terminate.
Aborted ==
    io \in {"abort_entry", "abort_frames", "abort_poll"} \/ main = "terminated"

Next ==
    /\ ~Aborted
    /\ \/ Main \/ Io \/ Handler \/ BrokerAnswers
       \/ \E c \in Clients, n \in 1..MaxSerial : BrokerForwards(c, n)

(***************************************************************************)
(* Every thread runs whenever it can; the broker answers.  The caller is   *)
(* not obliged to connect, to leave or to destroy the worker.              *)
(***************************************************************************)
Fairness ==
    /\ WF_vars(~Aborted /\ Io)
    /\ WF_vars(~Aborted /\ Handler)
    /\ WF_vars(~Aborted /\ (Connected \/ SendUnconnect \/ DeconnectReceives
                              \/ Joined \/ Terminate))
    /\ WF_vars(~Aborted /\ BrokerAnswers)

Spec == Init /\ [][Next]_vars
FairSpec == Spec /\ Fairness

-----------------------------------------------------------------------------
(***************************************************************************)
(* Correctness properties.                                                 *)
(***************************************************************************)

(***************************************************************************)
(* A queue is never pushed and popped at the same time, although neither   *)
(* thread ever waits for its mutex (worker.cpp:249, 314, 411, 420).        *)
(***************************************************************************)
QueueExclusion ==
    /\ ~(io = "push_one" /\ handler = "pop_one")
    /\ ~(io = "push_two" /\ handler = "pop_two")

(***************************************************************************)
(* Every delivered request is in exactly one place: in the socket, in the  *)
(* hands of a thread, in one of the queues, answered, skipped, taken by    *)
(* Deconnect, or gone with a replaced socket.  None is lost or queued      *)
(* twice between the two threads.                                          *)
(***************************************************************************)
Positions(q, id) == {k \in 1..Len(q) : q[k] # Success /\ q[k].id = id}

Places(id) ==
    ({"socket"} \X Positions(inbound, id))
      \cup ({"reading"} \X Positions(reading, id))
      \cup ({"one"} \X Positions(tasks["one"], id))
      \cup ({"two"} \X Positions(tasks["two"], id))
      \cup ({"working"} \X Positions(working, id))
      \cup ({"taken"} \X Positions(taken, id))
      \cup ({"dropped"} \X {m \in dropped : m.id = id})
      \cup ({"processed"} \X {m \in processed : m.id = id})
      \cup ({"skipped"} \X {m \in skipped : m.id = id})

NothingLost == \A id \in 1..delivered : Cardinality(Places(id)) = 1

(***************************************************************************)
(* Every delivered request is answered or skipped in the end, whatever     *)
(* locks the threads fail to get, unless the worker is told to stop.       *)
(***************************************************************************)
Stopping ==
    \/ main \in {"leaving", "awaiting", "destroying", "destroyed",
                 "reconnecting", "terminated"}
    \/ taken # <<>>

EveryRequestHandled ==
    \A id \in 1..MaxRequests :
      delivered >= id ~> \/ \E m \in processed \cup skipped : m.id = id
                        \/ Stopping

(***************************************************************************)
(* A skipped request is one its own client no longer waits for: the client *)
(* has had a later request answered.  So it is when one client uses the    *)
(* worker (the filter of worker.cpp:265 and 331).                          *)
(***************************************************************************)
SkippedWasSuperseded ==
    \A m \in skipped : \E p \in processed :
      p.client = m.client /\ p.serial > m.serial

(***************************************************************************)
(* What the comment of worker.cpp:267 says of a skipped request: it is a   *)
(* request already processed before, received again.                       *)
(***************************************************************************)
SkippedWereProcessed ==
    \A m \in skipped : \E p \in processed :
      p.client = m.client /\ p.serial = m.serial

(***************************************************************************)
(* A destructor that has begun (worker.cpp:30) returns, or the program is  *)
(* in one of three states it has no way out of.  stop_ = false of the io   *)
(* thread (worker.cpp:111) came after stop_ = true: the loops go on.  Or   *)
(* Deconnect took the message the io thread's poll had seen (worker.cpp:   *)
(* 159, 390), so that the io thread waits in ReceiveAll (399) for another, *)
(* which a broker that has answered RPC_UNCONNECT never sends.  Or an      *)
(* assert of ReceiveLoop ended the process (386, 400).                     *)
(***************************************************************************)
StopUndone == main = "destroying" /\ ~stop

AnswerTaken == io = "receive" /\ inbound = <<>> /\ taken # <<>> /\ ~asked

ThreadsJoin ==
    main = "destroying" ~> \/ main = "destroyed"
                           \/ StopUndone
                           \/ AnswerTaken
                           \/ io \in {"abort_entry", "abort_frames"}

(***************************************************************************)
(* assert(messages.size() >= 4) in ReceiveLoop (worker.cpp:400): the io    *)
(* thread only ever reads requests, never the broker's RPC_SUCCESS.        *)
(***************************************************************************)
OnlyRequestsInReceiveLoop == io # "abort_frames"

=============================================================================
