---------------------------- MODULE RemoteCaller ----------------------------
(***************************************************************************)
(* RemoteCaller (src/rpc/remote_caller.h): an RpcWorker and an RpcClient   *)
(* in one object, connected to one broker, and several threads that call   *)
(* SyncCall under one mutex.  The services it calls are its own: the two   *)
(* halves meet only at the broker, so it could be another's as well.       *)
(*                                                                         *)
(* The modules of the two halves are taken as they are, with each other    *)
(* for environment.  The broker between them is the one of RequestRouting: *)
(* it forwards a request once, in the order of arrival, or refuses it, and *)
(* passes on the answers.  The worker stays connected.  WorkerAlone says   *)
(* that the worker is then treated as RpcWorker assumes.                   *)
(***************************************************************************)
EXTENDS Integers, Sequences, FiniteSets, SequencesExt

CONSTANTS
    Threads,   \* the threads that call SyncCall
    Me,        \* the identity of the client
    Services, TimeoutArgs, RetryArgs, Timeouts, Retries, Word, Debug,
    MaxCalls, MaxTime, MaxRequests

ASSUME CallerAssumption == "nobody" \notin Threads

\* What the modules of the two halves assume.
ASSUME HalvesAssumption ==
    /\ TimeoutArgs \subseteq Int /\ \A t \in TimeoutArgs : t >= -1
    /\ RetryArgs \subseteq Int /\ \A r \in RetryArgs : r >= -1
    /\ Timeouts \subseteq Nat /\ Retries \subseteq Nat
    /\ Word \in Nat \ {0} /\ Debug \in BOOLEAN
    /\ MaxCalls \in Nat /\ MaxTime \in Nat /\ MaxRequests \in Nat

\* The variables of RpcClient and of RpcWorker.
VARIABLES
    timeout_, retries_, now, pc, serial, service, to_request_times, timeout,
    left, socket, network, calls, attempts, args, cut, accepted, returned
VARIABLES
    main, io, handler, stop, inbound, tasks, lock, services_mutex, reading,
    working, current_max, last, delivered, processed, skipped, taken, dropped,
    asked
VARIABLES
    connected,
    services,    \* services_ of the worker: the names that have a callback
    announced,   \* the services in the RPC_REG that was sent
    rpc_client_mutex,  \* its owner
    mine,        \* mine[t]: the number of t's latest call
    result,      \* result[t]: the response t's latest call returned, if any
    line,        \* the requests the broker has not come to, in order
    routed       \* the requests the broker has forwarded, with their ids

C == INSTANCE RpcClient
W == INSTANCE RpcWorker WITH
       Clients <- {Me}, MaxSerial <- MaxTime + 1,
       MayLeave <- FALSE, MayDestroy <- FALSE, MayReconnect <- FALSE

clientVars == <<timeout_, retries_, now, pc, serial, service,
                to_request_times, timeout, left, socket, network, calls,
                attempts, args, cut, accepted, returned>>
workerVars == <<main, io, handler, stop, inbound, tasks, lock, services_mutex,
                reading, working, current_max, last, delivered, processed,
                skipped, taken, dropped, asked>>
namesVars == <<connected, services, announced>>
callerVars == <<rpc_client_mutex, mine, result>>
brokerVars == <<line, routed>>
vars == <<clientVars, workerVars, namesVars, callerVars, brokerVars>>

TypeOK ==
    /\ C!TypeOK
    /\ W!TypeOK
    /\ connected \in BOOLEAN
    /\ services \in SUBSET Services
    /\ announced \in SUBSET services
    /\ rpc_client_mutex \in Threads \cup {"nobody"}
    /\ mine \in [Threads -> 0..MaxCalls]
    /\ result \in [Threads -> Seq(C!Response)]
    /\ line \in Seq(C!Request)
    /\ routed \in SUBSET [id : 1..MaxRequests, request : C!Request]

Init ==
    /\ C!Init
    /\ W!Init
    /\ connected = FALSE
    /\ services = {}
    /\ announced = {}
    /\ rpc_client_mutex = "nobody"
    /\ mine = [t \in Threads |-> 0]
    /\ result = [t \in Threads |-> <<>>]
    /\ line = <<>>
    /\ routed = {}

-----------------------------------------------------------------------------
(***************************************************************************)
(* The worker's half.                                                      *)
(***************************************************************************)

\* assert(!connected); a thread may be in Connect at the same time.
RegisterService(s) ==
    /\ ~connected
    /\ services_mutex = "nobody"
    /\ services' = services \cup {s}
    /\ UNCHANGED <<clientVars, workerVars, connected, announced, callerVars,
                   brokerVars>>

\* Mutant: the services registered later are announced too.
WorkerConnectAll ==
    /\ W!Connect
    /\ announced' = Services
    /\ UNCHANGED <<clientVars, connected, services, callerVars, brokerVars>>

WorkerConnect ==
    /\ W!Connect
    /\ announced' = services
    /\ UNCHANGED <<clientVars, connected, services, callerVars, brokerVars>>

\* RpcWorker::Connect returns, and connected is set.
WorkerConnected ==
    /\ W!Connected
    /\ connected' = TRUE
    /\ UNCHANGED <<clientVars, services, announced, callerVars, brokerVars>>

Worker ==
    /\ W!Io \/ W!Handler \/ W!BrokerAnswers
    /\ UNCHANGED <<clientVars, namesVars, callerVars, brokerVars>>

-----------------------------------------------------------------------------
(***************************************************************************)
(* The client's half: SyncCall locks rpc_client_mutex_ around              *)
(* RpcClient::SyncCall.                                                    *)
(***************************************************************************)
SyncCall(t, s, ms, r) ==
    /\ rpc_client_mutex = "nobody"
    /\ C!Call(s, ms, r)
    /\ rpc_client_mutex' = t
    /\ mine' = [mine EXCEPT ![t] = calls']
    /\ result' = [result EXCEPT ![t] = <<>>]
    /\ UNCHANGED <<workerVars, namesVars, brokerVars>>

\* The mutex is free; the response is unpacked, or is found to be empty.
Return(t) ==
    /\ rpc_client_mutex = t
    /\ pc = "idle"
    /\ rpc_client_mutex' = "nobody"
    /\ result' = [result EXCEPT ![t] =
                    IF returned = "payload" THEN accepted ELSE <<>>]
    /\ UNCHANGED <<clientVars, workerVars, namesVars, mine, brokerVars>>

SendRequest ==
    /\ C!SendRequest
    /\ line' = Append(line, C!NewRequest)
    /\ UNCHANGED <<workerVars, namesVars, callerVars, routed>>

AwaitAnswer ==
    /\ \/ C!ReturnEmpty \/ C!TimedOut \/ C!Reconnect \/ C!Readable
       \/ C!Ignore \/ C!Accept
    /\ UNCHANGED <<workerVars, namesVars, callerVars, brokerVars>>

Call == SendRequest \/ AwaitAnswer

-----------------------------------------------------------------------------
(***************************************************************************)
(* The broker, the network and the clock.                                  *)
(***************************************************************************)
Serves(s) == W!Registered /\ s \in announced

\* Mutant: the latest request first.
NextIsLast(q) == line # <<>> /\ q = line[Len(line)]

NextInLine(q) == line # <<>> /\ q = Head(line)

Forward(q) ==
    /\ NextInLine(q)
    /\ Serves(q.service)
    /\ delivered < MaxRequests
    /\ line' = RemoveFirst(line, q)
    /\ routed' = routed \cup {[id |-> delivered + 1, request |-> q]}
    /\ W!Receive(Me, q.serial + 1)
    /\ UNCHANGED <<clientVars, namesVars, callerVars>>

Refuse(q) ==
    /\ NextInLine(q)
    /\ ~Serves(q.service)
    /\ line' = RemoveFirst(line, q)
    /\ C!Answer(q, "RPC_NOTPROCESSED")
    /\ UNCHANGED <<workerVars, namesVars, callerVars, routed>>

Done(id) == \E m \in processed : m.id = id

\* The worker's answer reaches the client.
Answer(q) ==
    /\ \E r \in routed : r.request = q /\ Done(r.id)
    /\ C!Answer(q, "RPC_RES")
    /\ UNCHANGED <<workerVars, namesVars, callerVars, brokerVars>>

Lose(q) ==
    /\ C!Lose(q)
    /\ line' = RemoveFirst(line, q)
    /\ UNCHANGED <<workerVars, namesVars, callerVars, routed>>

Tick ==
    /\ C!Tick
    /\ UNCHANGED <<workerVars, namesVars, callerVars, brokerVars>>

Stopped == pc = "aborted" \/ W!Aborted

Next ==
    /\ ~Stopped
    /\ \/ \E s \in Services : RegisterService(s)
       \/ WorkerConnect \/ WorkerConnected \/ Worker
       \/ \E t \in Threads :
            \/ Return(t)
            \/ \E s \in Services, ms \in TimeoutArgs, r \in RetryArgs :
                 SyncCall(t, s, ms, r)
       \/ Call
       \/ \E q \in network : Forward(q) \/ Refuse(q) \/ Answer(q) \/ Lose(q)
       \/ Tick

Spec == Init /\ [][Next]_vars

-----------------------------------------------------------------------------
(***************************************************************************)
(* Correctness properties.                                                 *)
(***************************************************************************)

(***************************************************************************)
(* The worker gets what RpcWorker assumes: the serial numbers of a client  *)
(* never decrease, over the calls of all its threads and their retries     *)
(* (client.cpp:119 takes the time under the mutex of remote_caller.h:137). *)
(***************************************************************************)
WorkerAlone == W!Spec

(***************************************************************************)
(* What SyncCall returns to a thread was computed by the worker for that   *)
(* thread's latest call, not for another thread's and not for an earlier   *)
(* one.                                                                    *)
(***************************************************************************)
OwnResult ==
    \A t \in Threads : \A i \in 1..Len(result[t]) :
      LET q == result[t][i].to IN
      /\ cut \/ q.call = mine[t]
      /\ \E r \in routed : r.request = q /\ Done(r.id)

(***************************************************************************)
(* The worker never drops a request that is still waited for as history    *)
(* (worker.cpp:265), a retry of an answered one included, as long as it    *)
(* has one client.                                                         *)
(***************************************************************************)
NoLiveCallSkipped ==
    pc \notin {"idle", "aborted"} =>
      \A r \in routed : r.request.call = calls =>
        \A m \in skipped : m.id # r.id
=============================================================================
