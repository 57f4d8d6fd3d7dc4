# A TLA+ development of message-bus

message-bus is a C++ library for communication between processes on top of
ZeroMQ.  It has two halves that share nothing but a context and some helpers:
publish/subscribe through a proxy, and remote calls through a broker.  This
directory holds TLA+ modules that model the program, TLC configurations that
check them, and proofs for TLAPS.  Source references are to the files under
`src/`, as `file:line`.

Contents: [inventory](#inventory), [hard behaviours](#what-is-hard-to-test),
[modules](#modules), [runs](#runs), [fairness](#fairness), [proofs](#proofs),
[limits](#what-is-not-modelled-and-what-is-abstracted),
[disagreements](#where-the-code-and-its-documentation-disagree), [plan](#plan).

## Inventory

| Component | Code | State | Operations |
|---|---|---|---|
| RpcBroker | `rpc/broker.{h,cpp}` | `services_` (name -> queue of requests, deque of `weak_ptr<Worker>`), `workers_` (identity -> record: names, expiry), `not_processed_`, the ROUTER socket | `Run`: receive one message (`RPC_REG`, `RPC_RES`, `RPC_HB`, `RPC_UNCONNECT` from workers, `RPC_REQ` from clients), purge timed out workers, dispatch every queue |
| RpcWorker | `rpc/worker.{h,cpp}` | the DEALER socket, `services_`, `stop_`, two task queues with a mutex each, `services_mutex_`, `current_max_serial_num_of_request` | `RegisterService`, `Connect`, `Deconnect`, `Reconnect`, the destructor; io thread `ReceiveLoop`; handler thread `HandleMessage`; `Response` |
| RpcClient | `rpc/client.{h,cpp}` | the DEALER socket, `timeout_`, `retries_`, `debug_`; the locals of a call: serial number, attempts left, current timeout | `Connect`, `Reconnect`, `SyncCall`, setters |
| RemoteCaller | `rpc/remote_caller.h` | a worker, a client, `connected`, `rpc_client_mutex_` | `RegisterService`, `WorkerConnect`, `ClientConnect`, `Deconnect`, `SyncCall` |
| mbus::Client, MessageDealer | `message_bus/client.h`, `message_bus/impl/client.cpp`, `message_bus/message_dealer.h` | PUB and SUB socket with a mutex each, `topic_handlers_`, `subscribed_`, `stop_` | `Connect`, `ConnectOnLocalMode`, `Subscribe`, `Publish`, `ReceiveLoop`, the destructor |
| Bus | `message_bus/bus.h`, `message_bus/impl/bus.cpp` | XPUB and XSUB socket, the proxy thread | `Run`, `TryRunOnLocalMode` (three tries to bind each port) |
| AsyncLog | `message_bus/async_log.h`, `message_bus/impl/async_log.cpp` | `topic_map_` with a mutex, a buffer and a mutex per topic, `to_add_topic`, `to_run_` | `log`, `LogLoop`, `SerializeMessage`, `ParseMessage` |
| Helpers | `common/*` | none | framing, `Now`, `MakeID`, `S1BiggersS2`, packing of payloads |
| server, tests | `server.cpp`, `tests/*` | none | `server.cpp` starts the broker and the bus; the tests are programs run by hand |

How they interact.  A worker registers its services at the broker, sends a
heartbeat every `HEARTBEAT_INTERVAL` and answers the requests it gets.  A client
sends a request with a serial number (the wall clock, in milliseconds), waits,
and on a timeout closes its socket, connects again *with the same identity* and
repeats the request *with the same serial number*.  The broker puts the request
in the queue of its service and, in the same turn, forwards the queue to the
first worker of the service or hands it back as `RPC_NOTPROCESSED`.  Inside a
worker the io thread passes requests to the handler thread through two queues,
whichever mutex it gets; the handler drops requests whose serial number is below
the latest it has answered.  All of it is message passing through ZeroMQ, except
the state the threads of one worker share: the socket, `stop_`, the two queues.

What makes each component correct:

* RpcBroker: every request is decided exactly once (forwarded to one worker, or
  refused) and answered to its own client; the two registries agree, because
  `Dispacth` dereferences what they say; a silent worker goes away; a newcomer
  takes no requests away from the worker that serves.
* RpcWorker: no request is lost or duplicated between the threads, the queues
  are never touched by both threads at once, only superseded requests are
  skipped, the destructor returns once it can.
* RpcClient: a call acts on its own answer only, comes back, and gives up only
  after all its attempts.
* mbus::Client: a handler exists before a message of its topic can arrive;
  messages of a topic are handled in the order they were sent; the destructor
  returns.
* RemoteCaller: a thread gets the result of its own call; no request that is still
  waited for is dropped; the broker knows every service that is registered.
* AsyncLog: every logged message is written once and in order, and can be read
  back; no thread keeps a mutex.

## What is hard to test

`PROJECT.json` lists the hazards with their lines.  The ones that shaped the
models:

* Two registries point at each other by name and by `weak_ptr`; three code paths
  (timeout, leave, lazy removal in `Dispacth`) clean them up differently.
* The main loop of the broker must purge and dispatch under a flood of messages,
  when its `else` branch is never reached.
* The two-queue handoff of the worker: both sides `try_lock`, the handler looks
  at `empty()` without a lock, and the order of requests is not kept.
* The duplicate filter compares serial numbers of all clients with one maximum.
* `Deconnect` reads the socket the io thread reads.
* `stop_ = false` is executed by the io thread after `Connect` has returned.
* Late answers meet a later call on the same identity, of another thread perhaps.
* Serial numbers are made by the client's clock and filtered by the worker.
* The log has a map and its entries under different locks, one of which is not
  taken by the first search, and a flag that asks `LogLoop` to let go.

## Modules

| Module | What it is |
|---|---|
| `RequestRouting` | the promise of the broker: a request is submitted, decided once, answered once, and the answer goes to its client |
| `RpcBroker` | the broker, with workers, clients and the clock as environment |
| `MCRpcBroker` | its instances for TLC |
| `RpcBroker_proofs`, `RpcBrokerRouting_proofs` | theorems about `RpcBroker`: its registries and queues; the refinement of `RequestRouting`, the order of requests and their refusal |
| `RpcWorker`, `MCRpcWorker` | one worker and its three threads; its instances |
| `RpcClient`, `MCRpcClient` | one client and its calls; its instances |
| `RemoteCaller`, `MCRemoteCaller` | `RpcClient` and `RpcWorker` composed over the broker, with the threads that use them; its instances |
| `AsyncLog`, `MCAsyncLog` | the log: the threads that log and the thread that writes; its instances |
| `PubSub`, `MCPubSub` | a publishing client with several threads, the proxy, a subscribing client; its instances |
| `RpcWorker_proofs`, `RpcClient_proofs`, `RemoteCaller_proofs`, `AsyncLog_proofs`, `PubSub_proofs` | theorems about the module each is named after |

Each definition that models code is mapped to its lines in `PROJECT.json`.

### RpcBroker

`services`, `workers`, `not_processed` are the members of the same names.  An
absent key is a record of its own (`NoWorker`, `NoService`): a service record
that is empty behaves like an absent one, because `RequireService` creates it on
demand.  A `weak_ptr` is an `Entry` with a flag `expired`, set when the record is
destroyed, and a `slot`, which orders the deque as registration order does.

`Run` is one thread, and `pc` is where it is in a turn: `Receive` or
`PollTimeout`, then `Purge`, then `Dispatch(s)` for every service (in any order:
`services_` is unordered) with `ReplyNotProcessed` for each refused request, then
`FinishDispatch`.  `Receive` handles one message completely, since nothing else
runs on the broker's state; `RequireWorker` comes first for every worker message,
whatever its header, and creates a record for an unknown worker.  That is how a
purged worker whose messages come late stays connected without any service: the
model has the behaviour, and no property forbids it because nothing in the
repository promises otherwise.  `HandleRequest` and `messages_task_` of the
source are dead code (nothing fills the queue) and are not modelled.

Deadlines are relative: `expiry` is what `expiry_ - Now()` is, `Tick` lowers it,
and it stops at `Floor`, below which the worker is due whatever the value.  A
worker is purged when `expiry < -Expiry`: the code adds `HEARTBEAT_INTERVAL` when
a heartbeat comes and `HEARTBEAT_EXPIRY` when it compares.  A purge drops expired
entries too, in the code only if a worker is due; `RegistryAgrees`, which is proved,
says that there are none, so the model does not make the difference.

Peers are queues: `inbox[p]` is what peer `p` has sent and the broker has not
read.  ZeroMQ keeps the order of one peer and promises none between peers.
`toWorker` and `toClient` are the whole histories of what was sent, which is what
the properties talk about.

### RpcWorker

Three threads with a program counter each.  `main` is the caller's thread
(`Connect`, `Deconnect`, the destructor), `io` runs the lambda of `Connect` and
`ReceiveLoop`, `handler` runs `HandleMessage`.  Every read of `stop_` (`IoLoop`,
`HandlerLoop`, the assert in `IoEnter`), the poll after it (`IoPoll`) and the read of
the socket after that (`IoReceive`), every `try_lock` and every unguarded `empty()`
is a step of its own, so every interleaving of them is a behaviour: a `Deconnect`
sets `stop_` while the io thread is in its poll of up to `heartbeat_` milliseconds,
and takes or loses the broker's answer to it.  The push and the pop happen under a
lock and are one step each, separated from the `try_lock` so that `QueueExclusion`
says something.  A failed assert ends the process (`abort entry`, `abort frames`): the build type
is always Debug and `NDEBUG` is never defined.

The socket is one queue, `inbound`, that `Deconnect` and `ReceiveLoop` both
read.  ZeroMQ sockets are not meant to be used by two threads at once; the model
takes the mildest outcome, that messages are read whole, by either thread.

`Reconnect` is a second `Connect`, by either name.  It replaces the socket, and
what the old one had received is `dropped`.  Every way on ends the process: the
io thread polls a socket that is gone (`IoPollsClosed`), or takes `RPC_SUCCESS`
(`abort frames`), or the caller's thread gets its answer and assigns to `worker_`,
which is joinable whether it runs or not (`Terminate`).  That the handler may
answer on the old socket while it is replaced is a data race the model leaves
out, since the process is about to end.

The destructor does not always return, and `ThreadsJoin` says when: it does, or its
`stop_ = true` is undone by the io thread's late `stop_ = false` (`StopUndone`), or
`Deconnect` took the message that the io thread's poll had seen, which leaves that
thread in `ReceiveAll` for ever (`AnswerTaken`), or an assert of `ReceiveLoop` has
ended the process.  Each of the three is reachable; the property is that there is
no fourth.

`RegisterService` and the service of a request are in `RemoteCaller`, because the
threads of a worker do not depend on them.

### RpcClient

`SyncCall` as one thread: `Call` computes attempts and timeout, `SendRequest`,
then either `Readable` and one of `Ignore` (an answer to an older call,
`RECEIVE_AGAIN`) and `Accept`, or `TimedOut` and `Reconnect`, which loses what the
old socket had received.  `network` is the set of requests under way: each is
answered once, at any time and in any order, with success or `RPC_NOTPROCESSED`,
or is lost.  The clock is absolute here, because the serial number is the clock.
It stands still at `MaxTime`, after which no call begins, so that waiting still
ends.  `call` and `attempt` in a request are history, and so is the variable
`cut`: the code has the serial number only, and `OwnAnswerOnly` is about whether
that is enough.

A timeout is an `int64_t` and `WaitReadable` takes an `int32_t`: `Narrow` is the cut,
with `Word` for 2^32, and `Wait` is what `poll` makes of it.  A timeout of 2^31
milliseconds waits for ever, one of 2^32 not at all.  The second case has a
consequence far away: all the attempts of such a call fall into one millisecond,
so does the next call, which has the same serial number, and the late answer is
taken for its own.  The call after that finds the answer to the second one still
to come, and so on: the answers stay shifted by one call as long as no tick of the
clock separates two calls.  So `cut` is set once a call has begun with a wait cut
to nothing, and `OwnAnswerOnly` is about the time before.  (An exception for the
answers to the cut call alone holds with two calls and fails with three, which
the proof of the property brought to light.)

`SetTimeout`, `SetRerties` and a `Connect` between two calls are actions of the
thread that calls; nothing in the code makes them safe beside a call.

### RemoteCaller

The variables are those of `RpcClient` and of `RpcWorker`, which are instantiated
with the same names, and those of `RemoteCaller` itself.  Its actions are
conjunctions: `SendRequest` is the client's `SendRequest` and the request at the end
of `line`; `Forward` takes the head of `line`, remembers the worker's id of it in
`routed` and is the worker's `Receive`; `Lose` takes a request out of `line` if it
is still there; `Answer` needs the worker to be done with the request and is the client's
`Answer`.  The broker in between is as
`RequestRouting` has it: each request is forwarded once or refused, a client's
requests stay in order (`InOrder` of `RpcBroker`), answers come in any order.  Any
request and any answer may be lost.

`Receive` is `BrokerForwards` of `RpcWorker` without its guards.  `WorkerAlone` is the
specification of `RpcWorker`, with those guards: it holds if the client, its
threads, its retries and the broker's order together do what `RpcWorker` assumes
of its environment, so that what is checked of `RpcWorker` alone holds here.

`SyncCall(t, ...)` takes `rpc_client_mutex_` and begins a call, `Return(t)` frees it
with the result.  `services` is `services_` of the worker, `announced` what its
`RPC_REG` named: `RegisterService` may come between `WorkerConnect` and
`WorkerConnected`, which sets `connected` only then.  That action also creates the
io thread, one step of the code earlier; nothing reads `connected` in between but a
`RegisterService`, which may come before the action as well.

### AsyncLog

Each logging thread has a program counter through `log`: the search without
`map_mx_` (`find`), the flag, the mutex with the second search, the insertion,
`unflag`, then the mutex of the entry and the push.  `LogLoop` has one through a
round: `at` is the iterator, over topics numbered as the map orders them.  The
`try_lock`, the test for emptiness and the read of `to_add_topic` are one step,
`SkipTopic`, `StartWrite` or `EndRound`; the write is another, so that threads act
while `LogLoop` has a buffer.  `Race` is two threads at `find` and at `insert`: the
search may miss the topic, or the process ends (`Crash`).

A file is a sequence of cells: the size, cut to one byte as `put` does it, and as
many cells of body as the message has.  `opened` is the set of topics whose file
could be opened when the topic was added, which depends on whether `LogLoop` has
made the directory by then, or found it (`Init` leaves that open).
`ParseMessage` reads the sizes and bodies back; where the code goes on to read a
byte of a body as a size, and garbage after it, the model stops, and no property is
about what follows.  `logged` is history.

### PubSub

Two `mbus::Client` objects, each reduced to the half that it uses.  On one of
them, connected beforehand, `Threads` call `Publish`, which is two steps: `PublishTopic` takes
`pub_mutex_` and sends the topic with `sndmore`, `PublishPayload` sends the rest
and lets go.  `unfinished` is what the socket has of a message that is not
complete.  A thread has at most one message in its hands, so `publisher[p]` is a
set with at most one payload; its `id` is the number of the call, which a
property can compare and the program cannot.

On the other client the caller's thread (`main`) runs `Connect`, `Subscribe` and
the destructor, and the receive thread (`receiver`) runs `ReceiveLoop`.
`Subscribe` is `StoreHandler`, which needs `topic_handlers_mutex_`, and then
`AddTopic`, which takes no lock.  `topic` is the argument of the `Subscribe` at
work.  Between the read of `stop_` and the arrival of a message the receive
thread is at `recv`: it holds `sub_mutex_` there, for as long as nothing comes.
`FindHandler` and `CallHandler` are two steps with `topic_handlers_mutex_` held
in between.  `sub_mutex_` is not a variable, since beside `ReceiveLoop` only
`Connect` takes it, before the thread exists.

The proxy (`Bus::Run`) passes messages on in order and may lose any of them: a
subscription has not reached the publisher yet, or a queue is full.  A filter of a
SUB socket is a prefix, so `Covers[t]` is the set of topics that `t` lets in.
`PublishBare` is another program that sends a topic alone, for which
`ReceiveLoop` has an early `continue`.

## Runs

Each run names its properties in its `.cfg`.  Every property of a passing run
has a mutant: an operator beside the definition it replaces, commented `Mutant`,
which changes it as a plausible bug would and makes TLC report the property
violated.

| Run | Question | Bounds |
|---|---|---|
| `broker_safety` | Do the registries agree, are the queues drained in each turn, does each client's order survive, does the serving worker stay? | two workers sharing one service, one of them with a second service; one client with two requests; one unread message per worker; interval and grace of one tick |
| `broker_routing` | Does the broker implement `RequestRouting`? | two workers of one service, two clients with a request each |
| `broker_liveness` | Is every request decided and every silent worker purged, under endless heartbeats? Is a request refused only when nobody provides the service? | two workers, a service each, one client |
| `broker_unprocessed` | The last question when two workers provide one service | violation, see below |
| `worker_threads` | Are the queues exclusive, is nothing lost, is every request handled, when does the destructor return? | one client, three requests, two serial numbers; leave, connect again and destroy at any time |
| `worker_history` | Is a skipped request one that was processed? | two clients; violation |
| `worker_leave` | Does the io thread read requests only? | one request, leave; violation |
| `client_calls` | Does a call act on its own answers only, end, and give up only after every attempt? | two calls, one service, `retries_` 0 or 1, default and no retries; `timeout_` 1 or 4 ticks, a given timeout of 2 and none; with `Word` 8, a wait of 4 is negative and one of 16 is nothing; the clock up to 3 |
| `remote_caller` | Does a thread get its own result, is no request still waited for dropped as history, and does the worker get what `RpcWorker` assumes? | two threads, two calls, one service, one retry or none, three forwarded requests, the clock up to 2 |
| `async_log` | Is `LogLoop` alone with what it uses, is everything written once, in order and readable, does it leave the buffers, is every mutex let go? | two threads, two topics, three messages: an empty one, one too large for a byte of two values, one that just fits; with and without the directory |
| `pubsub_delivery` | Is a callback there before its messages, are messages whole and in order, do `Subscribe` and the destructor return? | two publishing threads, two topics, three messages, destroyed at any time |
| `pubsub_prefix` | The first question when one topic is a prefix of the other | one message; violation |

Why the bounds are enough.  In the broker, what can go wrong is between two
workers of one service (removal of one, arrival of the other), between two
services of one worker (one `RPC_UNCONNECT` names both), and between two requests
of one client; each of these is present, and all behaviour is symmetric in
further workers, services and requests.  One unread message per worker still lets
every message meet every state of the broker, because the environment refills the
inbox in every turn; what it limits is the backlog.  Registration and requests
are not limited by it.  A tick before and a tick after the deadline is all a
comparison can tell apart.  In the worker, three requests are one in each
queue and one in a thread's hands, and two serial numbers give a retry and a
later call.  In the client, a call with a retry followed by another call is the
shortest history in which a late answer, and a late answer of a retry, meet a
call they do not belong to; two calls are one that gives up and one that comes
after it.  In `remote_caller` this is put together: two calls, of one thread or
two, and a retry make three requests, one for each queue of the worker and one
in its hands.  In the log, two threads can add the same topic or different ones,
and two topics let `LogLoop` be at one while a thread is at the other; three
messages let one be written, one buffered and one on its way.  In
publish/subscribe, two threads are enough to mix two messages and three messages
let one be in the receive thread, one in the socket and one on its way; two
topics are one that is subscribed to and one that is being subscribed to.

`CHECK_DEADLOCK FALSE` is set for all but the broker: a destroyed object, an
aborted process, a client that has made its calls and one whose messages are all
handled or logged have nothing left to do.  The broker never stops, and deadlock
is checked.

## Fairness

* Broker (`RpcBroker!Fairness`): weak fairness of the broker thread, an endless
  loop whose steps never block for longer than a poll; strong fairness of reading
  from each peer, which is ZeroMQ's fair queueing on a ROUTER socket; weak
  fairness of the clock.  No peer is obliged to send anything.
* Worker: weak fairness of each thread, of the steps the caller's thread has
  begun, and of the broker's answer to `RPC_REG` and `RPC_UNCONNECT`.  The caller
  need not leave or destroy, and a callback returns.  The fairness is on a whole
  thread and never on the success of a `try_lock`: `EveryRequestHandled` holds
  because the io thread turns to the other queue when one is locked, and the
  handler lets go of a queue before it works on what it took.
* Client: weak fairness of the calling thread and of the clock.  The network
  owes nothing.
* RemoteCaller: none; its properties are safety properties.
* AsyncLog: weak fairness of `LogLoop` and of each thread in `log`, and nothing about
  `map_mx_`.  `LogLoop` unlocks it and locks it again at once (`async_log.cpp:105-134`),
  a `std::mutex` promises no order, so a thread that adds a topic may wait for ever:
  that `log` returns is not claimed.  Meanwhile its flag can stay up, and `LogLoop`
  then writes nothing for anybody, which is why `EveryMessageWritten` has
  `NobodyStarves` as its condition, and fails without it.  `MutexesAreReleased` needs no condition: it is
  what the code contributes, and the rest is up to the mutex.  Nobody has to log.
* PubSub: weak fairness of the receive thread and of the steps the caller's
  thread has begun.  Nobody is obliged to publish, and the proxy may lose every
  message.  Both threads lock `topic_handlers_mutex_` with `lock`, and weak
  fairness is enough for the caller's thread because messages are bounded: the
  receive thread cannot take the mutex infinitely often.  With endless messages
  and an unfair mutex `Subscribe` could wait for ever, and the model does not
  claim otherwise.

## Proofs

Every safety property of a passing run is a theorem of its module, for every
value of the constants.  The assumptions are the named `ASSUME`s of the modules,
which TLC evaluates in each run: sets of identities that do not meet, numbers
that are natural.  Three theorems have a hypothesis of their own
(`RefusedOnlyIfUnregistered`, `SkippedOnlyIfSuperseded`, `CallbackFirst`), and for
each a run shows what happens without it.

`RpcBroker_proofs`, for any sets of workers, clients and services, any `Offers`,
any `Interval` and `Expiry`, any bounds:

* `TypeCorrect == Spec => []TypeOK`.  One lemma per operation gives the type of
  what it writes (`WorkerMessageType`, `PurgeType`, `RemovalType`, ...), then
  `BrokerType` and `EnvironmentType` put them together.
* `RegistryConsistent == Spec => []RegistryAgrees`.  `RegistryAgrees` is inductive
  together with `TypeOK`.  The interesting steps are the purge, which removes a
  worker from all services and then destroys its record, and `RPC_UNCONNECT`,
  which keeps the names it does not mention and empties every service it does.
* `NothingLeftBehind == Spec => []QueuesDrained`.  `QueuesDrained` alone says
  nothing in the middle of a turn, so it is strengthened with what `round` means
  during the dispatch: a service that has been visited has no requests.
* `FrontIsSticky == Spec => FrontStays`.  The action property needs that every
  slot in use is smaller than the number of registrations, so that a newcomer is
  last.

`RpcBrokerRouting_proofs`, under the same assumptions:

* `RoutesRequests == Spec => RoutingSpec`: the broker implements `RequestRouting`.
  The abstract sets are read off the queues and the histories of messages, so the
  work is to show what each append and each removal does to them, and that a
  request which is decided was not decided before.  `RoutingInv` gives the reason:
  a turn reads one message and empties every queue, so at most one request is in
  hand (`OneInHand`), it is the latest one read from its client, and what was
  decided before is older.  The unread requests of a client are the ones after
  those read, in order (`SentInOrder`), and a request has one answer under way at
  most (`AnsweredOnce`).  Then each action is a step of `RequestRouting` or leaves
  its variables alone: a request is submitted when the client sends it, and
  reading it changes nothing; `Dispatch` forwards it, or moves it to
  `not_processed`, which changes nothing either, and `ReplyNotProcessed` refuses
  it; the worker's `Respond` answers and reading the answer delivers it.
* `RequestsInOrder == Spec => []InOrder`.  What is forwarded is the request in
  hand, and it is younger than all of its client's decided before.
* `RefusedOnlyIfUnregistered`: if no two workers offer the same service, then
  `Spec => []UnprocessedMeansUnregistered`.  A worker's names are among what it
  offers (`OffersOnly`), and it has its entry in the service of every name
  (`NamesAreServed`); with one provider per service `RPC_UNCONNECT` cannot empty a
  service another worker has registered.  `broker_unprocessed` shows that the
  hypothesis is needed.

`RpcWorker_proofs`, for any clients and bounds, with leave, destruction and a
second `Connect` allowed or not:

* `TypeCorrect`, `QueuesAreExclusive == Spec => []QueueExclusion`.  The inductive
  invariant says who has a mutex by where the threads are (`LockOwners`): from the
  `try_lock` that succeeded to the unlock and nowhere else.
* `EveryRequestHasItsPlace == Spec => []NothingLost`.  `NothingLost` counts places,
  the proof partitions the numbers of the requests over the places (`Partition`),
  each without repetition (`Distinct`), and what a step overwrites or throws away
  is no request (`NothingOverwritten`).  A step moves one number from one place to
  another.
* `SkippedOnlyIfSuperseded`: with one client,
  `Spec => []SkippedWasSuperseded`.  `current_max` is the serial number of a
  request that was processed, and every client's serial numbers are compared
  with it.  `worker_history` has two clients and skips a request of the second.

`RpcClient_proofs`, for any arguments, settings and width of an `int32_t`, and any
number of calls:

* `TypeCorrect`, and `GivesUpLast == Spec => []EmptyAfterEveryAttempt`: attempts
  made and attempts left add up to what the arguments allow.
* `AnswersAreOwn == Spec => []OwnAnswerOnly`.  A request is in the network or its
  answer is in the socket, once (`EachOnce`), and what belongs to an earlier call
  has an earlier serial number (`PendingKnown`).  That needs the clock to have
  moved between two calls (`TimePasses`): a call that leaves a request behind has
  sent more than one or has seen its first wait end, and no wait ends in the
  millisecond it began in, unless it was cut to nothing.

`RemoteCaller_proofs`, for any threads, services, arguments and bounds, takes over
what is proved of the two halves.  A step of the composition is a step of
`RpcClient` or leaves it alone, which gives its theorems by themselves.

* `WorkerGetsWhatItAssumes == Spec => WorkerAlone`: the composition implements
  `RpcWorker`, whose environment never sends a client's serial number below the
  last one.  `LineInv` says that the requests not yet forwarded are ordered and
  none is older than the last one forwarded; losing one from the middle keeps it.
  From here on the theorems about `RpcWorker` hold of the composition.
* `TypeCorrect`; `ResultsAreOwn == Spec => []OwnResult`: the thread with
  `rpc_client_mutex_` is the one whose call it is, and what is in the socket as a
  result was computed by the worker.
* `LiveCallsAreServed == Spec => []NoLiveCallSkipped`: no request the worker has
  processed is younger than the call that is waiting, so none supersedes it.

`AsyncLog_proofs`, for any threads, topics and sizes of messages:

* `TypeCorrect`, `MutexesSuffice == Spec => []LoopIsAlone`.  The owners of `map_mx_`
  and of each topic's mutex follow from where the threads are, although the first
  search of `log` takes neither.
* `FileIsPrefix == Spec => []WrittenOnceInOrder`.  `InOrder(t)`: what is logged is
  what is written and then what is buffered.
* `FileReadsBack == Spec => []ReadBack`.  `Frames` and `ParseMessage` are recursive
  functions; that they exist and what they compute is shown by taking a least
  number for which it fails (`LeastNumber`).  `FramesPlaces` says where in the file
  the frame of each message is, `FrameParsed` that a frame whose size fits is read
  as its message, `PrefixParsed` puts them together from the last message of the
  prefix to the first.

`PubSub_proofs` proves the three invariants of `PubSub` for any sets of topics and
threads and any number of messages, from the assumption of `PubSub` that a topic
is a prefix of itself.

* `TypeCorrect == Spec => []TypeOK`.  That at most one frame is unfinished on the
  PUB socket is part of `TypeOK`, and needs `MutexCoversMessage`: when `pub_mutex_`
  is free, nothing is unfinished.
* `CallbackFirst`: if no topic is a proper prefix of another, then
  `Spec => []EveryTopicHasHandler`.  The inductive invariant follows a message: the
  filters are among the topics with a callback, so is what is in the socket, and
  so is what the receive thread has read.  Storing the callback before `AddTopic`
  is what makes the first of these inductive.  `pubsub_prefix` shows that the
  assumption is needed.
* `InPublishedOrder == Spec => []HandledAsPublished`.  A message passes from the
  publisher through the bus and the socket to the receive thread and the callback.
  The invariant says that each place holds earlier messages than the places
  behind it, for every two places, since one between them may be empty; that only
  the thread with `pub_mutex_` has a message in its hands; and that a message is
  whole from the time it leaves that thread.

What is only model-checked: the liveness properties (`EveryRequestDecided`,
`SilentWorkerPurged`, `EveryRequestHandled`, `ThreadsJoin`, `CallEnds`,
`SubscribeReturns`, `EveryMessageHandled`, `DestructorReturns`,
`EveryMessageWritten`, `MutexesAreReleased`), because liveness under fairness, and `ENABLED`
with it, is out of TLAPS's reach; and the four violations, which are traces.

## What is not modelled, and what is abstracted

* Payloads, protobuf packing, framing and logging.
* `RemoteCaller::Deconnect` in the composition: `RpcWorker` has the worker's leave,
  at any time, and together with calls under way it makes the states too many.
  A second `ClientConnect`, which would replace the socket under a running call.
* More than one client of the worker in `RemoteCaller`: its requests can be dropped
  then, which `worker_history` shows.
* A callback that calls back into its worker: `services_mutex_` is held and is
  not recursive (`worker.cpp:298`).
* A wall clock that goes back: serial numbers would decrease.
* Identities are unique; `MakeID` draws them at random.
* A second `Connect` of an `mbus::Client`.  It takes `pub_mutex_` and then waits at
  `message_bus/impl/client.cpp:46` for `sub_mutex_`, which the receive thread holds in
  `recv` until a message comes, so that every `Publish` waits as well; if it gets the
  mutex, the assert of line 48 fails.  `Subscribe` before `Connect` (the assert of line
  155 fails), and a `Subscribe` inside a callback, which locks
  `topic_handlers_mutex_` twice in one thread.
* Timestamps of messages: `Publish` takes them before it has `pub_mutex_`
  (`message_bus/client.h:65`), so they need not be in the order of the messages.
* The binding of the bus to its ports: `TryRunOnLocalMode` has no caller.
* `SetHeartbeat` of a worker changes only the rate of heartbeats, and nothing reads
  what `SetReconnectDelay` sets.
* A file of the log whose write fails later, for want of space.
* A timeout so large that `timeout_ << 4` or the doubling overflows 64 bits.

## Where the code and its documentation disagree

| Run | Disagreement |
|---|---|
| `broker_unprocessed` | `RPC_UNCONNECT` of one worker deletes the service record with the other workers in it (`broker.cpp:456`). A request is then refused although a live worker registered the service, which `client.cpp:209` asserts cannot be. |
| `worker_history` | The comment at `worker.cpp:267` calls a request below the maximum a "request already processed"; another client's request was not. Its retries are skipped too. |
| `worker_leave` | The io thread can read the `RPC_SUCCESS` `Deconnect` waits for; the assert at `worker.cpp:400` fails. |
| `pubsub_prefix` | A subscription lets in every topic that begins with its own (`client.cpp:156`), and such a message fails the assert at `client.cpp:147`; the comment at `client.cpp:81` says that a callback exists for what arrives. Both are in `message_bus/impl`. |

Two sentences of the publish/subscribe headers need no run.  "A topic can have
several listeners" (`message_dealer.h:45`): `Subscribe` keeps one callback per
topic, the latest (`client.cpp:90`).  `ConnectOnLocalMode` "tries to start the bus
service on this machine" (`message_bus/client.h:37`): it only connects, and returns
true.

Of calls, `client.h:37` says that a timeout of -1 waits without limit, and
`client.cpp:152` makes it sixteen default timeouts; it says that a positive timeout
is what is waited for, and from 2^31 on it is not.  `worker.h:36` says that a second
`Connect` reconnects, and the process ends (`worker.cpp:108`).  The assert at
`remote_caller.h:60` is there because services must be registered before the
connection; one that is registered while `WorkerConnect` waits for the broker
passes it, since `connected` is set only afterwards, and is never announced: requests
for it are refused, which ends the caller in an assert.  `log` is marked
thread-safe (`async_log.cpp:69`), and two threads can be at line 72 and at line 86,
one of them in the map while the other changes it; the model has both outcomes.

Also seen in the models, without a sentence of the repository that says
otherwise: a destructor that runs before the io thread's `stop_ = false` hangs
for ever, because its `stop_ = true` is undone; one that runs between
`stop_ = false` and `ReceiveLoop` fails the assert of `worker.cpp:386`; one that runs
after `Deconnect` took the message the io thread had polled hangs too, since that
thread is in `ReceiveAll` at `worker.cpp:399`; a thread that logs a new topic can be
passed over for ever by `LogLoop`, and its flag can keep everything from being
written then; a worker
whose heartbeats are read late is purged, connected again by its next message and
never served; a retry is executed again by the worker, since only smaller serial
numbers are filtered.

A message can be lost to the log without a word: its file was opened before
`LogLoop` made the directory, its size does not fit in a byte and spoils the rest
of the file, or it was still in a buffer when the process ended.

## Plan

All safety properties are proved.  What remains worth stating and proving are the
action properties behind them: what a worker's leave may change in the broker's
registries, that the filter of the worker and the log's file only grow, that a
returned result is final; and a hypothesis for the refusal theorem that is weaker
than one provider per service, namely that providers of a shared service do not
leave.
