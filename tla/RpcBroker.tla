----------------------------- MODULE RpcBroker -----------------------------
(***************************************************************************)
(* The RPC broker (src/rpc/broker.h, src/rpc/broker.cpp): a single thread  *)
(* that owns a ROUTER socket.  Each turn of RpcBroker::Run receives at     *)
(* most one message, purges the workers whose heartbeat ran out, and       *)
(* dispatches every queued request to a worker or back to its client.      *)
(*                                                                         *)
(* Workers and clients are the environment: they send what                 *)
(* src/rpc/worker.cpp and src/rpc/client.cpp send.  inbox[p] is what peer  *)
(* p sent and the broker has not read: ZeroMQ keeps the order of one peer  *)
(* and serves the peers in turn.                                           *)
(*                                                                         *)
(* Time: expiry_ is kept relative to Now(), so a tick of the clock lowers  *)
(* every deadline by one and no absolute time is needed.                   *)
(***************************************************************************)
EXTENDS Integers, Sequences, FiniteSets

CONSTANTS
    Workers,      \* identities of the RpcWorker sockets
    Clients,      \* identities of the RpcClient sockets
    Services,     \* service names
    Offers,       \* Offers[w]: the services registered on worker w
    Interval,     \* HEARTBEAT_INTERVAL in clock ticks
    Expiry,       \* HEARTBEAT_EXPIRY in clock ticks
    MaxRequests,  \* bound: requests one client sends
    MaxInbox      \* bound: unread messages of one worker

ASSUME PeersAssumption == Workers \cap Clients = {}
ASSUME OffersAssumption == Offers \in [Workers -> SUBSET Services]
ASSUME TimeAssumption == Interval \in Nat /\ Expiry \in Nat
ASSUME BoundsAssumption == MaxRequests \in Nat /\ MaxInbox \in Nat

Peers == Workers \cup Clients

(***************************************************************************)
(* serial tells the requests of one client apart.  The broker never        *)
(* interprets it, it copies it into the answer.                            *)
(***************************************************************************)
Request == [client : Clients, serial : 1..MaxRequests, service : Services]

FromWorker == [head : {"RPC_REG", "RPC_UNCONNECT"}, names : SUBSET Services]
                \cup [head : {"RPC_HB"}]
                \cup [head : {"RPC_RES"}, req : Request]
FromClient == [head : {"RPC_REQ"}, req : Request]
ToWorker == [head : {"RPC_SUCCESS"}] \cup [head : {"RPC_REQ"}, req : Request]
ToClient == [head : {"RPC_RES", "RPC_NOTPROCESSED"}, req : Request]

\* One weak_ptr<Worker> of a service's deque.  slot orders the deque: the
\* front has the least slot.  expired() is true once the record is destroyed.
Entry == [id : Workers, slot : Nat, expired : BOOLEAN]

\* Deadlines below -Expiry are all alike: the worker is due to be purged.
Floor == -(Expiry + 1)
WorkerRecord == [known : BOOLEAN, names : SUBSET Services,
                 expiry : Floor..Interval]
ServiceRecord == [requests : Seq(Request), worker : SUBSET Entry]

\* A key that is absent from workers_, and one absent from services_.
NoWorker == [known |-> FALSE, names |-> {}, expiry |-> 0]
NoService == [requests |-> <<>>, worker |-> {}]

VARIABLES
    pc,             \* where the broker thread is in Run
    round,          \* the services Dispacth has still to visit
    services,       \* services_
    workers,        \* workers_
    not_processed,  \* not_processed_
    registrations,  \* RPC_REG messages handled, the source of slots
    inbox,          \* inbox[p]: sent by p, not yet read by the broker
    toWorker,       \* toWorker[w]: all the broker has sent to w
    toClient,       \* toClient[c]: all the broker has sent to c
    phase,          \* phase[w]: how far the life of worker w has come
    sent,           \* sent[c]: the number of requests c has sent
    answered        \* the requests a worker has answered

brokerVars == <<services, workers, not_processed, registrations>>
peerVars == <<phase, sent, answered>>
vars == <<pc, round, services, workers, not_processed, registrations,
          inbox, toWorker, toClient, phase, sent, answered>>

TypeOK ==
    /\ pc \in {"poll", "purge", "dispatch"}
    /\ round \in SUBSET Services
    /\ services \in [Services -> ServiceRecord]
    /\ workers \in [Workers -> WorkerRecord]
    /\ not_processed \in Seq(Request)
    /\ registrations \in Nat
    /\ inbox \in [Peers -> Seq(FromWorker \cup FromClient)]
    /\ \A w \in Workers : inbox[w] \in Seq(FromWorker)
    /\ \A c \in Clients : inbox[c] \in Seq(FromClient)
    /\ toWorker \in [Workers -> Seq(ToWorker)]
    /\ toClient \in [Clients -> Seq(ToClient)]
    /\ phase \in [Workers -> {"new", "up", "closing", "closed"}]
    /\ sent \in [Clients -> 0..MaxRequests]
    /\ answered \in SUBSET Request

Init ==
    /\ pc = "poll"
    /\ round = {}
    /\ services = [s \in Services |-> NoService]
    /\ workers = [w \in Workers |-> NoWorker]
    /\ not_processed = <<>>
    /\ registrations = 0
    /\ inbox = [p \in Peers |-> <<>>]
    /\ toWorker = [w \in Workers |-> <<>>]
    /\ toClient = [c \in Clients |-> <<>>]
    /\ phase = [w \in Workers |-> "new"]
    /\ sent = [c \in Clients |-> 0]
    /\ answered = {}

-----------------------------------------------------------------------------
(***************************************************************************)
(* Records.                                                                *)
(***************************************************************************)

\* RequireWorker: the record of w, created with a deadline when absent.
RequireWorker(w) ==
    IF workers[w].known
    THEN workers[w]
    ELSE [known |-> TRUE, names |-> {}, expiry |-> Interval]

\* Mutant: emplace_front.
AddWorkerInFront(ws, w) ==
    ws \cup {[id |-> w, slot |-> Cardinality(Workers) - registrations,
              expired |-> FALSE]}

\* AddWorker: emplace_back, so the new entry has the greatest slot.
AddWorker(ws, w) ==
    ws \cup {[id |-> w, slot |-> registrations, expired |-> FALSE]}

\* RemoveWorker for each identity of gone: expired entries go as well.
RemoveWorker(ws, gone) == {e \in ws : ~e.expired /\ e.id \notin gone}

\* Destroying the records of gone invalidates the weak_ptrs left to them.
Expire(ws, gone) ==
    {[e EXCEPT !.expired = @ \/ e.id \in gone] : e \in ws}

Send(log, p, m) == [log EXCEPT ![p] = Append(@, m)]
Success == [head |-> "RPC_SUCCESS"]
Forwarded(r) == [head |-> "RPC_REQ", req |-> r]

-----------------------------------------------------------------------------
(***************************************************************************)
(* HandleWorkerMessage, one operator per header.  RequireWorker comes      *)
(* first whatever the header is.                                           *)
(***************************************************************************)
HandleReg(w, m) ==
    /\ m.head = "RPC_REG"
    /\ workers' = [workers EXCEPT ![w] =
                     [RequireWorker(w) EXCEPT !.names = @ \cup m.names]]
    /\ services' = [s \in Services |->
                      IF s \in m.names
                      THEN [services[s] EXCEPT !.worker = AddWorker(@, w)]
                      ELSE services[s]]
    /\ registrations' = registrations + 1
    /\ toWorker' = Send(toWorker, w, Success)
    /\ UNCHANGED toClient

HandleRes(w, m) ==
    /\ m.head = "RPC_RES"
    /\ workers' = [workers EXCEPT ![w] = RequireWorker(w)]
    /\ toClient' = Send(toClient, m.req.client,
                        [head |-> "RPC_RES", req |-> m.req])
    /\ UNCHANGED <<services, registrations, toWorker>>

\* Mutant: the deadline is pushed further instead of set.
HandleHeartbeatAdds(w, m) ==
    /\ m.head = "RPC_HB"
    /\ workers' = [workers EXCEPT ![w] =
                     [RequireWorker(w) EXCEPT !.expiry = @ + Interval]]
    /\ UNCHANGED <<services, registrations, toWorker, toClient>>

HandleHeartbeat(w, m) ==
    /\ m.head = "RPC_HB"
    /\ workers' = [workers EXCEPT ![w] =
                     [RequireWorker(w) EXCEPT !.expiry = Interval]]
    /\ UNCHANGED <<services, registrations, toWorker, toClient>>

\* Mutant: the names go, the worker stays in the services.
HandleUnconnectNamesOnly(w, m) ==
    /\ m.head = "RPC_UNCONNECT"
    /\ workers' = [workers EXCEPT ![w] =
                     [RequireWorker(w) EXCEPT !.names = @ \ m.names]]
    /\ toWorker' = Send(toWorker, w, Success)
    /\ UNCHANGED <<services, registrations, toClient>>

\* DeleteService drops the whole record, then RequireService makes a new one.
HandleUnconnect(w, m) ==
    /\ m.head = "RPC_UNCONNECT"
    /\ LET left == RequireWorker(w).names \ m.names
       IN  workers' = [workers EXCEPT ![w] =
                         [RequireWorker(w) EXCEPT
                            !.names = left,
                            !.expiry = IF left = {} THEN 0 ELSE @]]
    /\ services' = [s \in Services |->
                      IF s \in m.names THEN NoService ELSE services[s]]
    /\ toWorker' = Send(toWorker, w, Success)
    /\ UNCHANGED <<registrations, toClient>>

HandleWorkerMessage(w, m) ==
    /\ \/ HandleReg(w, m)
       \/ HandleRes(w, m)
       \/ HandleHeartbeat(w, m)
       \/ HandleUnconnect(w, m)
    /\ UNCHANGED not_processed

HandleClientMessage(m) ==
    /\ services' = [services EXCEPT ![m.req.service].requests =
                      Append(@, m.req)]
    /\ UNCHANGED <<workers, not_processed, registrations, toWorker, toClient>>

-----------------------------------------------------------------------------
(***************************************************************************)
(* Run: one message or a timeout, then DeleteTimeoutWorker, then Dispacth. *)
(***************************************************************************)
Overdue == {w \in Workers : workers[w].known /\ workers[w].expiry < -Expiry}

\* Mutant: the worker leaves the services, its record stays.
DeleteTimeoutWorkerKeepsRecord ==
    /\ services' = [s \in Services |->
                      [services[s] EXCEPT !.worker = RemoveWorker(@, Overdue)]]
    /\ UNCHANGED workers

DeleteTimeoutWorker ==
    /\ workers' = [w \in Workers |->
                     IF w \in Overdue THEN NoWorker ELSE workers[w]]
    /\ services' = [s \in Services |->
                      [services[s] EXCEPT !.worker =
                         Expire(RemoveWorker(@, Overdue), Overdue)]]

Receive(p) ==
    /\ pc = "poll"
    /\ inbox[p] # <<>>
    /\ pc' = "purge"
    /\ inbox' = [inbox EXCEPT ![p] = Tail(@)]
    /\ \/ p \in Workers /\ HandleWorkerMessage(p, Head(inbox[p]))
       \/ p \in Clients /\ HandleClientMessage(Head(inbox[p]))
    /\ UNCHANGED <<round, peerVars>>

\* The else branch: nothing to read for HEARTBEAT_INTERVAL, purge here too.
PollTimeout ==
    /\ pc = "poll"
    /\ \A p \in Peers : inbox[p] = <<>>
    /\ pc' = "purge"
    /\ DeleteTimeoutWorker
    /\ UNCHANGED <<round, not_processed, registrations, inbox, toWorker,
                   toClient, peerVars>>

\* Mutant: only the else branch purges.
PurgeWhenIdle ==
    /\ pc = "purge"
    /\ pc' = "dispatch"
    /\ round' = Services
    /\ UNCHANGED <<brokerVars, inbox, toWorker, toClient, peerVars>>

Purge ==
    /\ pc = "purge"
    /\ pc' = "dispatch"
    /\ round' = Services
    /\ DeleteTimeoutWorker
    /\ UNCHANGED <<not_processed, registrations, inbox, toWorker, toClient,
                   peerVars>>

IsFront(e, ws) == e \in ws /\ \A f \in ws : e.slot <= f.slot

\* Mutant: the queue goes to every worker of the service.
ForwardToEach(s, ws) ==
    /\ toWorker' = [w \in Workers |->
                      IF \E e \in ws : e.id = w
                      THEN toWorker[w] \o [i \in 1..Len(services[s].requests) |->
                                            Forwarded(services[s].requests[i])]
                      ELSE toWorker[w]]
    /\ UNCHANGED not_processed

\* The whole queue of s goes to the first worker, as it was queued.
ForwardAll(s, ws) ==
    \E e \in ws :
      /\ IsFront(e, ws)
      /\ toWorker' = [toWorker EXCEPT ![e.id] = @ \o
                        [i \in 1..Len(services[s].requests) |->
                           Forwarded(services[s].requests[i])]]
      /\ UNCHANGED not_processed

\* Mutant: requests nobody serves are dropped.
HandBackNothing(s) == UNCHANGED <<not_processed, toWorker>>

HandBackAll(s) ==
    /\ not_processed' = not_processed \o services[s].requests
    /\ UNCHANGED toWorker

\* Mutant: requests nobody serves wait for a worker.
DispatchKeepsUnserved(s) ==
    LET ws == RemoveWorker(services[s].worker, {})
    IN  /\ pc = "dispatch"
        /\ s \in round
        /\ round' = round \ {s}
        /\ \/ /\ ws # {}
              /\ ForwardAll(s, ws)
              /\ services' = [services EXCEPT ![s] =
                                [requests |-> <<>>, worker |-> ws]]
           \/ /\ ws = {}
              /\ services' = [services EXCEPT ![s].worker = {}]
              /\ UNCHANGED <<not_processed, toWorker>>
        /\ UNCHANGED <<pc, workers, registrations, inbox, toClient, peerVars>>

\* Service::Dispacth
Dispatch(s) ==
    LET ws == RemoveWorker(services[s].worker, {})
    IN  /\ pc = "dispatch"
        /\ s \in round
        /\ round' = round \ {s}
        /\ services' = [services EXCEPT ![s] =
                          [requests |-> <<>>, worker |-> ws]]
        /\ \/ ws # {} /\ ForwardAll(s, ws)
           \/ ws = {} /\ HandBackAll(s)
        /\ UNCHANGED <<pc, workers, registrations, inbox, toClient, peerVars>>

ReplyNotProcessed ==
    /\ pc = "dispatch"
    /\ round = {}
    /\ not_processed # <<>>
    /\ not_processed' = Tail(not_processed)
    /\ toClient' = Send(toClient, Head(not_processed).client,
                        [head |-> "RPC_NOTPROCESSED",
                         req |-> Head(not_processed)])
    /\ UNCHANGED <<pc, round, services, workers, registrations, inbox,
                   toWorker, peerVars>>

FinishDispatch ==
    /\ pc = "dispatch"
    /\ round = {}
    /\ not_processed = <<>>
    /\ pc' = "poll"
    /\ UNCHANGED <<round, brokerVars, inbox, toWorker, toClient, peerVars>>

-----------------------------------------------------------------------------
(***************************************************************************)
(* The environment: what workers, clients and the clock do.                *)
(***************************************************************************)
Post(p, m) == inbox' = [inbox EXCEPT ![p] = Append(@, m)]

\* RpcWorker::Connect registers every service of the worker, once.
WorkerConnect(w) ==
    /\ phase[w] = "new"
    /\ phase' = [phase EXCEPT ![w] = "up"]
    /\ Post(w, [head |-> "RPC_REG", names |-> Offers[w]])
    /\ UNCHANGED <<pc, round, brokerVars, toWorker, toClient, sent, answered>>

\* ReceiveLoop runs once Connect has read the broker's answer.  It may send
\* one more heartbeat after Deconnect has set stop_.
Heartbeat(w) ==
    /\ phase[w] \in {"up", "closing"}
    /\ toWorker[w] # <<>>
    /\ Len(inbox[w]) < MaxInbox
    /\ phase' = [phase EXCEPT ![w] = IF @ = "closing" THEN "closed" ELSE @]
    /\ Post(w, [head |-> "RPC_HB"])
    /\ UNCHANGED <<pc, round, brokerVars, toWorker, toClient, sent, answered>>

\* The handler thread finishes what it had taken when stop_ was set, so an
\* answer can follow RPC_UNCONNECT.
Respond(w, r) ==
    /\ Len(inbox[w]) < MaxInbox
    /\ \E i \in 1..Len(toWorker[w]) : toWorker[w][i] = Forwarded(r)
    /\ r \notin answered
    /\ answered' = answered \cup {r}
    /\ Post(w, [head |-> "RPC_RES", req |-> r])
    /\ UNCHANGED <<pc, round, brokerVars, toWorker, toClient, phase, sent>>

Deconnect(w) ==
    /\ phase[w] = "up"
    /\ toWorker[w] # <<>>
    /\ Len(inbox[w]) < MaxInbox
    /\ phase' = [phase EXCEPT ![w] = "closing"]
    /\ Post(w, [head |-> "RPC_UNCONNECT", names |-> Offers[w]])
    /\ UNCHANGED <<pc, round, brokerVars, toWorker, toClient, sent, answered>>

ClientRequest(c, s) ==
    /\ sent[c] < MaxRequests
    /\ sent' = [sent EXCEPT ![c] = @ + 1]
    /\ Post(c, [head |-> "RPC_REQ",
                req |-> [client |-> c, serial |-> sent[c] + 1, service |-> s]])
    /\ UNCHANGED <<pc, round, brokerVars, toWorker, toClient, phase, answered>>

\* One tick less until every deadline.
Tick ==
    /\ workers' = [w \in Workers |->
                     IF workers[w].known /\ workers[w].expiry > Floor
                     THEN [workers[w] EXCEPT !.expiry = @ - 1]
                     ELSE workers[w]]
    /\ UNCHANGED <<pc, round, services, not_processed, registrations, inbox,
                   toWorker, toClient, peerVars>>

Broker ==
    \/ \E p \in Peers : Receive(p)
    \/ PollTimeout
    \/ Purge
    \/ \E s \in Services : Dispatch(s)
    \/ ReplyNotProcessed
    \/ FinishDispatch

Environment ==
    \/ \E w \in Workers : WorkerConnect(w) \/ Heartbeat(w) \/ Deconnect(w)
    \/ \E w \in Workers, r \in Request : Respond(w, r)
    \/ \E c \in Clients, s \in Services : ClientRequest(c, s)
    \/ Tick

Next == Broker \/ Environment

(***************************************************************************)
(* The broker thread keeps running; ZeroMQ's fair queueing reads every     *)
(* peer that stays readable; time passes.  No peer is obliged to send.     *)
(***************************************************************************)
Fairness ==
    /\ WF_vars(Broker)
    /\ \A p \in Peers : SF_vars(Receive(p))
    /\ WF_vars(Tick)

Spec == Init /\ [][Next]_vars
FairSpec == Spec /\ Fairness
-----------------------------------------------------------------------------
(***************************************************************************)
(* Correctness properties.                                                 *)
(***************************************************************************)

(***************************************************************************)
(* The two registries agree at every step: a worker queued in a service    *)
(* (Service::worker_) has a live record in workers_ that names the         *)
(* service.  Dispacth dereferences worker_.front().lock() on the strength  *)
(* of it, and DeleteTimeoutWorker and RPC_UNCONNECT must keep both sides.  *)
(***************************************************************************)
RegistryAgrees ==
    \A s \in Services : \A e \in services[s].worker :
      /\ ~e.expired
      /\ workers[e.id].known
      /\ s \in workers[e.id].names

(***************************************************************************)
(* When the broker reads its socket no request is left behind in a service *)
(* queue or in not_processed_.  RPC_UNCONNECT deletes a service record     *)
(* with its queue, so a request waiting there would be lost silently.      *)
(***************************************************************************)
QueuesDrained ==
    pc = "poll" => /\ \A s \in Services : services[s].requests = <<>>
                   /\ not_processed = <<>>

(***************************************************************************)
(* A worker gets the requests of one client in the order they were sent,   *)
(* over all services.  The worker's duplicate filter (worker.cpp:265)      *)
(* drops a request that arrives after a later one.                         *)
(***************************************************************************)
InOrder ==
    \A w \in Workers : \A i, j \in 1..Len(toWorker[w]) :
      (/\ i < j
       /\ toWorker[w][i].head = "RPC_REQ"
       /\ toWorker[w][j].head = "RPC_REQ"
       /\ toWorker[w][i].req.client = toWorker[w][j].req.client)
        => toWorker[w][i].req.serial < toWorker[w][j].req.serial

(***************************************************************************)
(* The worker that serves a service stays its first worker until it is     *)
(* removed: registering another worker never takes requests away from it   *)
(* (Service::AddWorker, Service::Dispacth).                                *)
(***************************************************************************)
FrontStays ==
    [][\A s \in Services : \A e \in services[s].worker :
         IsFront(e, services[s].worker) /\ e \in services'[s].worker
           => IsFront(e, services'[s].worker)]_vars

(***************************************************************************)
(* Every request a client sends is decided: forwarded to a worker or       *)
(* refused, even while workers flood the broker with heartbeats.           *)
(***************************************************************************)
Decided(c, n) ==
    \/ \E w \in Workers : \E i \in 1..Len(toWorker[w]) :
         /\ toWorker[w][i].head = "RPC_REQ"
         /\ toWorker[w][i].req.client = c
         /\ toWorker[w][i].req.serial = n
    \/ \E i \in 1..Len(toClient[c]) :
         toClient[c][i].head = "RPC_NOTPROCESSED" /\ toClient[c][i].req.serial = n

EveryRequestDecided ==
    \A c \in Clients, n \in 1..MaxRequests : sent[c] >= n ~> Decided(c, n)

(***************************************************************************)
(* A worker that falls silent is purged for good, however busy the others  *)
(* keep the broker: the purge does not wait for an idle socket, which the  *)
(* fixme of the else branch (broker.cpp:250) is about.                     *)
(***************************************************************************)
SilentWorkerPurged ==
    \A w \in Workers :
      <>[](inbox[w] = <<>>) => <>[](~workers[w].known)

(***************************************************************************)
(* A client is told that a request was not processed only when no known    *)
(* worker provides the service: client.cpp:209 reads the answer as "the    *)
(* server has not registered this service".                                *)
(***************************************************************************)
UnprocessedMeansUnregistered ==
    \A i \in 1..Len(not_processed) : \A w \in Workers :
      ~(workers[w].known /\ not_processed[i].service \in workers[w].names)

(***************************************************************************)
(* The broker implements RequestRouting: no request is lost, duplicated,   *)
(* decided twice, or answered to another client.                           *)
(***************************************************************************)
InSeq(r, q) == \E i \in 1..Len(q) : q[i] = r

Pending ==
    {r \in Request :
       \/ InSeq([head |-> "RPC_REQ", req |-> r], inbox[r.client])
       \/ InSeq(r, services[r.service].requests)
       \/ InSeq(r, not_processed)}

Answering ==
    {r \in Request : \E w \in Workers :
       InSeq([head |-> "RPC_RES", req |-> r], inbox[w])}

Routing == INSTANCE RequestRouting WITH pending <- Pending,
                                        answering <- Answering
RoutingSpec == Routing!Spec
=============================================================================
