-------------------------- MODULE RpcBroker_proofs --------------------------
(***************************************************************************)
(* Proofs about RpcBroker, for any workers, clients, services and offers,  *)
(* any heartbeat constants and any bounds.                                 *)
(***************************************************************************)
EXTENDS RpcBroker, TLAPS

-----------------------------------------------------------------------------
(***************************************************************************)
(* What a message carries, by its header.                                  *)
(***************************************************************************)
LEMMA FromWorkerFields ==
  ASSUME NEW m \in FromWorker
  PROVE  /\ m.head \in {"RPC_REG", "RPC_UNCONNECT"} => m.names \in SUBSET Services
         /\ m.head = "RPC_RES" => m.req \in Request
BY DEF FromWorker

LEMMA FromClientFields ==
  ASSUME NEW m \in FromClient
  PROVE  m.req \in Request
BY DEF FromClient

\* An element of a non-empty sequence, and its tail.
LEMMA HeadTailType ==
  ASSUME NEW S, NEW q \in Seq(S), q # <<>>
  PROVE  Head(q) \in S /\ Tail(q) \in Seq(S)
OBVIOUS

\* Writing to one log of a family keeps the type of the family.
LEMMA SendType ==
  ASSUME NEW P, NEW S, NEW log \in [P -> Seq(S)], NEW p \in P, NEW m \in S
  PROVE  Send(log, p, m) \in [P -> Seq(S)]
BY DEF Send

\* The record RequireWorker returns.
LEMMA RequireWorkerType ==
  ASSUME TypeOK, NEW w \in Workers
  PROVE  RequireWorker(w) \in WorkerRecord
BY TimeAssumption DEF TypeOK, RequireWorker, WorkerRecord, Floor

\* The operations on a service's deque of workers.
LEMMA RemovalType ==
  ASSUME NEW ws \in SUBSET Entry, NEW gone
  PROVE  /\ RemoveWorker(ws, gone) \in SUBSET Entry
         /\ Expire(ws, gone) \in SUBSET Entry
<1>1. RemoveWorker(ws, gone) \in SUBSET Entry
  BY DEF RemoveWorker
<1>2. ASSUME NEW e \in Entry
      PROVE  [e EXCEPT !.expired = @ \/ e.id \in gone] \in Entry
  <2>1. (e.expired \/ e.id \in gone) \in BOOLEAN
    OBVIOUS
  <2> QED
    BY <2>1, Zenon DEF Entry
<1>3. Expire(ws, gone) \in SUBSET Entry
  BY <1>2 DEF Expire
<1> QED
  BY <1>1, <1>3

LEMMA AddWorkerType ==
  ASSUME NEW ws \in SUBSET Entry, NEW w \in Workers, registrations \in Nat
  PROVE  AddWorker(ws, w) \in SUBSET Entry
<1>1. [id |-> w, slot |-> registrations, expired |-> FALSE] \in Entry
  BY Zenon DEF Entry
<1> QED
  BY <1>1 DEF AddWorker

\* The messages that carry a queue of requests.
LEMMA ForwardedType ==
  ASSUME NEW q \in Seq(Request), NEW log \in Seq(ToWorker)
  PROVE  log \o [i \in 1..Len(q) |-> Forwarded(q[i])] \in Seq(ToWorker)
<1>1. \A i \in 1..Len(q) : Forwarded(q[i]) \in ToWorker
  BY DEF Forwarded, ToWorker
<1>2. [i \in 1..Len(q) |-> Forwarded(q[i])] \in Seq(ToWorker)
  BY <1>1
<1> QED
  BY <1>2

-----------------------------------------------------------------------------
(***************************************************************************)
(* Type correctness, one lemma per group of actions.                       *)
(***************************************************************************)
LEMMA InboxTail ==
  ASSUME TypeOK, NEW p \in Peers, inbox[p] # <<>>,
         inbox' = [inbox EXCEPT ![p] = Tail(@)]
  PROVE  /\ inbox' \in [Peers -> Seq(FromWorker \cup FromClient)]
         /\ \A w \in Workers : inbox'[w] \in Seq(FromWorker)
         /\ \A c \in Clients : inbox'[c] \in Seq(FromClient)
         /\ p \in Workers => Head(inbox[p]) \in FromWorker
         /\ p \in Clients => Head(inbox[p]) \in FromClient
<1>1. \A S : \A q \in Seq(S) : q # <<>> => Head(q) \in S /\ Tail(q) \in Seq(S)
  BY HeadTailType
<1>2. /\ inbox \in [Peers -> Seq(FromWorker \cup FromClient)]
      /\ \A w \in Workers : inbox[w] \in Seq(FromWorker)
      /\ \A c \in Clients : inbox[c] \in Seq(FromClient)
  BY DEF TypeOK
<1> QED
  BY <1>1, <1>2 DEF Peers

LEMMA PostType ==
  ASSUME TypeOK, NEW p \in Peers, NEW m \in FromWorker \cup FromClient,
         p \in Workers => m \in FromWorker,
         p \in Clients => m \in FromClient,
         Post(p, m)
  PROVE  /\ inbox' \in [Peers -> Seq(FromWorker \cup FromClient)]
         /\ \A w \in Workers : inbox'[w] \in Seq(FromWorker)
         /\ \A c \in Clients : inbox'[c] \in Seq(FromClient)
BY DEF TypeOK, Post, Peers

LEMMA PurgeType ==
  ASSUME TypeOK, DeleteTimeoutWorker
  PROVE  /\ workers' \in [Workers -> WorkerRecord]
         /\ services' \in [Services -> ServiceRecord]
<1>1. NoWorker \in WorkerRecord
  BY TimeAssumption, SMT DEF NoWorker, WorkerRecord, Floor
<1>2. workers' \in [Workers -> WorkerRecord]
  BY <1>1 DEF TypeOK, DeleteTimeoutWorker
<1>3. ASSUME NEW s \in Services
      PROVE  [services[s] EXCEPT !.worker =
                Expire(RemoveWorker(@, Overdue), Overdue)] \in ServiceRecord
  <2>1. services[s] \in ServiceRecord
    BY DEF TypeOK
  <2>2. Expire(RemoveWorker(services[s].worker, Overdue), Overdue)
          \in SUBSET Entry
    BY <2>1, RemovalType DEF ServiceRecord
  <2> QED
    BY <2>1, <2>2 DEF ServiceRecord
<1> QED
  BY <1>2, <1>3 DEF DeleteTimeoutWorker

LEMMA WorkerMessageType ==
  ASSUME TypeOK, NEW w \in Workers, NEW m \in FromWorker,
         HandleWorkerMessage(w, m)
  PROVE  /\ workers' \in [Workers -> WorkerRecord]
         /\ services' \in [Services -> ServiceRecord]
         /\ registrations' \in Nat
         /\ toWorker' \in [Workers -> Seq(ToWorker)]
         /\ toClient' \in [Clients -> Seq(ToClient)]
<1> USE DEF TypeOK
<1>1. RequireWorker(w) \in WorkerRecord
  BY RequireWorkerType
<1>2. Send(toWorker, w, Success) \in [Workers -> Seq(ToWorker)]
  <2>1. Success \in ToWorker
    BY DEF Success, ToWorker
  <2> QED
    BY <2>1, SendType
<1>3. CASE HandleReg(w, m)
  <2>1. m.names \in SUBSET Services
    BY <1>3, FromWorkerFields DEF HandleReg
  <2>2. [RequireWorker(w) EXCEPT !.names = @ \cup m.names] \in WorkerRecord
    BY <1>1, <2>1 DEF WorkerRecord
  <2>3. workers' \in [Workers -> WorkerRecord]
    BY <1>3, <2>2 DEF HandleReg
  <2>4. ASSUME NEW s \in Services
        PROVE  [services[s] EXCEPT !.worker = AddWorker(@, w)] \in ServiceRecord
    BY AddWorkerType DEF ServiceRecord
  <2>5. services' \in [Services -> ServiceRecord]
    BY <1>3, <2>4 DEF HandleReg
  <2> QED
    BY <1>2, <1>3, <2>3, <2>5 DEF HandleReg
<1>4. CASE HandleRes(w, m)
  <2>1. m.req \in Request
    BY <1>4, FromWorkerFields DEF HandleRes
  <2>2. /\ m.req.client \in Clients
        /\ [head |-> "RPC_RES", req |-> m.req] \in ToClient
    BY <2>1 DEF Request, ToClient
  <2>3. toClient' \in [Clients -> Seq(ToClient)]
    BY <1>4, <2>2, SendType DEF HandleRes
  <2> QED
    BY <1>1, <1>4, <2>3 DEF HandleRes
<1>5. CASE HandleHeartbeat(w, m)
  <2>1. Interval \in Floor..Interval
    BY TimeAssumption DEF Floor
  <2>2. [RequireWorker(w) EXCEPT !.expiry = Interval] \in WorkerRecord
    BY <1>1, <2>1 DEF WorkerRecord
  <2> QED
    BY <1>5, <2>2 DEF HandleHeartbeat
<1>6. CASE HandleUnconnect(w, m)
  <2> DEFINE left == RequireWorker(w).names \ m.names
             deadline == IF left = {} THEN 0 ELSE RequireWorker(w).expiry
  <2>1. left \in SUBSET Services /\ deadline \in Floor..Interval
    BY <1>1, TimeAssumption DEF WorkerRecord, Floor
  <2>2. [RequireWorker(w) EXCEPT !.names = left, !.expiry = deadline]
          \in WorkerRecord
    BY <1>1, <2>1 DEF WorkerRecord
  <2>3. workers' \in [Workers -> WorkerRecord]
    BY <1>6, <2>2 DEF HandleUnconnect
  <2>4. NoService \in ServiceRecord
    BY DEF NoService, ServiceRecord
  <2>5. services' \in [Services -> ServiceRecord]
    BY <1>6, <2>4 DEF HandleUnconnect
  <2> QED
    BY <1>2, <1>6, <2>3, <2>5 DEF HandleUnconnect
<1> QED
  BY <1>3, <1>4, <1>5, <1>6 DEF HandleWorkerMessage

LEMMA ClientMessageType ==
  ASSUME TypeOK, NEW m \in FromClient, HandleClientMessage(m)
  PROVE  services' \in [Services -> ServiceRecord]
<1>1. m.req \in Request /\ m.req.service \in Services
  BY FromClientFields DEF Request
<1>2. services[m.req.service] \in ServiceRecord
  BY <1>1 DEF TypeOK
<1>3. Append(services[m.req.service].requests, m.req) \in Seq(Request)
  BY <1>1, <1>2 DEF ServiceRecord
<1> QED
  BY <1>1, <1>2, <1>3 DEF HandleClientMessage, TypeOK, ServiceRecord

LEMMA BrokerType ==
  ASSUME TypeOK, Broker
  PROVE  TypeOK'
<1> USE DEF TypeOK, peerVars, brokerVars
<1>1. ASSUME NEW p \in Peers, Receive(p)
      PROVE  TypeOK'
  <2>1. /\ inbox' \in [Peers -> Seq(FromWorker \cup FromClient)]
        /\ \A w \in Workers : inbox'[w] \in Seq(FromWorker)
        /\ \A c \in Clients : inbox'[c] \in Seq(FromClient)
        /\ p \in Workers => Head(inbox[p]) \in FromWorker
        /\ p \in Clients => Head(inbox[p]) \in FromClient
    BY <1>1, InboxTail DEF Receive
  <2>2. CASE p \in Workers /\ HandleWorkerMessage(p, Head(inbox[p]))
    BY <1>1, <2>1, <2>2, WorkerMessageType DEF Receive, HandleWorkerMessage
  <2>3. CASE p \in Clients /\ HandleClientMessage(Head(inbox[p]))
    BY <1>1, <2>1, <2>3, ClientMessageType DEF Receive, HandleClientMessage
  <2> QED
    BY <1>1, <2>2, <2>3 DEF Receive
<1>2. CASE PollTimeout
  BY <1>2, PurgeType DEF PollTimeout
<1>3. CASE Purge
  BY <1>3, PurgeType DEF Purge
<1>4. ASSUME NEW s \in Services, Dispatch(s)
      PROVE  TypeOK'
  <2> DEFINE ws == RemoveWorker(services[s].worker, {})
  <2>1. services[s] \in ServiceRecord
    OBVIOUS
  <2>2. ws \in SUBSET Entry
    BY <2>1, RemovalType DEF ServiceRecord
  <2>3. services' \in [Services -> ServiceRecord]
    BY <1>4, <2>2 DEF Dispatch, ServiceRecord
  <2>4. /\ toWorker' \in [Workers -> Seq(ToWorker)]
        /\ not_processed' \in Seq(Request)
    <3>1. CASE ForwardAll(s, ws)
      <4>1. PICK e \in ws :
              toWorker' = [toWorker EXCEPT ![e.id] = @ \o
                             [i \in 1..Len(services[s].requests) |->
                                Forwarded(services[s].requests[i])]]
        BY <3>1 DEF ForwardAll
      <4>2. e.id \in Workers
        BY <2>2, <4>1 DEF Entry
      <4>3. toWorker[e.id] \o [i \in 1..Len(services[s].requests) |->
              Forwarded(services[s].requests[i])] \in Seq(ToWorker)
        BY <2>1, <4>2, ForwardedType DEF ServiceRecord
      <4> QED
        BY <3>1, <4>1, <4>2, <4>3 DEF ForwardAll
    <3>2. CASE HandBackAll(s)
      BY <2>1, <3>2 DEF HandBackAll, ServiceRecord
    <3> QED
      BY <1>4, <3>1, <3>2 DEF Dispatch
  <2>5. round' \in SUBSET Services
    BY <1>4 DEF Dispatch
  <2> QED
    BY <1>4, <2>3, <2>4, <2>5 DEF Dispatch
<1>5. CASE ReplyNotProcessed
  <2>1. Head(not_processed) \in Request /\ Tail(not_processed) \in Seq(Request)
    BY <1>5, HeadTailType DEF ReplyNotProcessed
  <2>2. /\ Head(not_processed).client \in Clients
        /\ [head |-> "RPC_NOTPROCESSED", req |-> Head(not_processed)] \in ToClient
    BY <2>1 DEF Request, ToClient
  <2>3. toClient' \in [Clients -> Seq(ToClient)]
    BY <1>5, <2>2, SendType DEF ReplyNotProcessed
  <2> QED
    BY <1>5, <2>1, <2>3 DEF ReplyNotProcessed
<1>6. CASE FinishDispatch
  BY <1>6 DEF FinishDispatch
<1> QED
  BY <1>1, <1>2, <1>3, <1>4, <1>5, <1>6 DEF Broker

LEMMA EnvironmentType ==
  ASSUME TypeOK, Environment
  PROVE  TypeOK'
<1> USE DEF TypeOK, peerVars, brokerVars
<1> USE OffersAssumption, PeersAssumption
<1>1. ASSUME NEW w \in Workers, WorkerConnect(w)
      PROVE  TypeOK'
  <2>1. [head |-> "RPC_REG", names |-> Offers[w]] \in FromWorker
    BY DEF FromWorker
  <2> QED
    BY <1>1, <2>1, PostType DEF WorkerConnect, Peers
<1>2. ASSUME NEW w \in Workers, Heartbeat(w)
      PROVE  TypeOK'
  <2>1. [head |-> "RPC_HB"] \in FromWorker
    BY DEF FromWorker
  <2> QED
    BY <1>2, <2>1, PostType DEF Heartbeat, Peers
<1>3. ASSUME NEW w \in Workers, Deconnect(w)
      PROVE  TypeOK'
  <2>1. [head |-> "RPC_UNCONNECT", names |-> Offers[w]] \in FromWorker
    BY DEF FromWorker
  <2> QED
    BY <1>3, <2>1, PostType DEF Deconnect, Peers
<1>4. ASSUME NEW w \in Workers, NEW r \in Request, Respond(w, r)
      PROVE  TypeOK'
  <2>1. [head |-> "RPC_RES", req |-> r] \in FromWorker
    BY DEF FromWorker
  <2> QED
    BY <1>4, <2>1, PostType DEF Respond, Peers
<1>5. ASSUME NEW c \in Clients, NEW s \in Services, ClientRequest(c, s)
      PROVE  TypeOK'
  <2>1. /\ sent[c] + 1 \in 1..MaxRequests
        /\ sent' \in [Clients -> 0..MaxRequests]
    BY <1>5, BoundsAssumption DEF ClientRequest
  <2>2. [head |-> "RPC_REQ",
         req |-> [client |-> c, serial |-> sent[c] + 1, service |-> s]]
           \in FromClient
    BY <2>1 DEF FromClient, Request
  <2> QED
    BY <1>5, <2>1, <2>2, PostType DEF ClientRequest, Peers
<1>6. CASE Tick
  <2>1. ASSUME NEW w \in Workers, workers[w].expiry > Floor
        PROVE  [workers[w] EXCEPT !.expiry = @ - 1] \in WorkerRecord
    <3>1. workers[w] \in WorkerRecord
      OBVIOUS
    <3>2. workers[w].expiry - 1 \in Floor..Interval
      BY <2>1, <3>1, TimeAssumption DEF WorkerRecord, Floor
    <3> QED
      BY <3>1, <3>2 DEF WorkerRecord
  <2>2. workers' \in [Workers -> WorkerRecord]
    BY <1>6, <2>1 DEF Tick
  <2> QED
    BY <1>6, <2>2 DEF Tick
<1> QED
  BY <1>1, <1>2, <1>3, <1>4, <1>5, <1>6 DEF Environment

LEMMA InitType == Init => TypeOK
<1>1. NoWorker \in WorkerRecord /\ NoService \in ServiceRecord
  <2>1. NoWorker \in WorkerRecord
    BY TimeAssumption, SMT DEF NoWorker, WorkerRecord, Floor
  <2>2. NoService \in ServiceRecord
    BY DEF NoService, ServiceRecord
  <2> QED
    BY <2>1, <2>2
<1> QED
  BY <1>1, BoundsAssumption DEF Init, TypeOK, Peers

(***************************************************************************)
(* Every variable of the broker and of its peers keeps its type.           *)
(***************************************************************************)
THEOREM TypeCorrect == Spec => []TypeOK
<1>1. Init => TypeOK
  BY InitType
<1>2. TypeOK /\ [Next]_vars => TypeOK'
  <2>1. CASE UNCHANGED vars
    BY <2>1 DEF TypeOK, vars
  <2> QED
    BY <2>1, BrokerType, EnvironmentType DEF Next
<1> QED
  BY <1>1, <1>2, PTL DEF Spec

-----------------------------------------------------------------------------
(***************************************************************************)
(* The two registries.  RegistryAgrees is inductive on its own: every      *)
(* handler that takes a name or a record away takes the entries too.       *)
(***************************************************************************)
LEMMA RegistryAfterPurge ==
  ASSUME TypeOK, RegistryAgrees, DeleteTimeoutWorker
  PROVE  RegistryAgrees'
<1> SUFFICES ASSUME NEW s \in Services, NEW e \in services'[s].worker
             PROVE  /\ ~e.expired
                    /\ workers'[e.id].known
                    /\ s \in workers'[e.id].names
  BY DEF RegistryAgrees
<1>1. services[s] \in ServiceRecord
  BY DEF TypeOK
<1>2. services'[s].worker =
        Expire(RemoveWorker(services[s].worker, Overdue), Overdue)
  BY <1>1 DEF DeleteTimeoutWorker, ServiceRecord
<1>3. PICK f \in RemoveWorker(services[s].worker, Overdue) :
        e = [f EXCEPT !.expired = f.expired \/ f.id \in Overdue]
  BY <1>2 DEF Expire
<1>4. /\ f \in services[s].worker
      /\ ~f.expired
      /\ f.id \notin Overdue
  BY <1>3 DEF RemoveWorker
<1>5. f \in Entry
  BY <1>1, <1>4 DEF ServiceRecord
<1>6. e.id = f.id /\ ~e.expired
  BY <1>3, <1>4, <1>5, Zenon DEF Entry
<1>7. f.id \in Workers
  BY <1>5 DEF Entry
<1>8. workers'[e.id] = workers[f.id]
  BY <1>4, <1>6, <1>7 DEF DeleteTimeoutWorker
<1> QED
  BY <1>4, <1>6, <1>8 DEF RegistryAgrees

LEMMA RegistryAfterWorkerMessage ==
  ASSUME TypeOK, RegistryAgrees, NEW w \in Workers, NEW m \in FromWorker,
         HandleWorkerMessage(w, m)
  PROVE  RegistryAgrees'
<1> DEFINE record == RequireWorker(w)
<1>1. record.known
  BY DEF RequireWorker
<1>2. record \in WorkerRecord
  BY RequireWorkerType
<1>3. \A s \in Services : services[s] \in ServiceRecord
  BY DEF TypeOK
<1>4. \A s \in Services : \A e \in services[s].worker :
        /\ e.id \in Workers
        /\ ~e.expired
        /\ workers[e.id].known
        /\ s \in workers[e.id].names
        /\ e.id = w => record = workers[w]
  BY <1>3 DEF RegistryAgrees, ServiceRecord, Entry, RequireWorker
<1>5. workers \in [Workers -> WorkerRecord]
  BY DEF TypeOK
<1> HIDE DEF record
<1>6. CASE HandleReg(w, m)
  <2>1. /\ workers' = [workers EXCEPT ![w] =
                         [record EXCEPT !.names = @ \cup m.names]]
        /\ services' = [s \in Services |->
                          IF s \in m.names
                          THEN [services[s] EXCEPT !.worker = AddWorker(@, w)]
                          ELSE services[s]]
    BY <1>6 DEF HandleReg, record
  <2>2. ASSUME NEW s \in Services, NEW e \in services[s].worker
        PROVE  /\ ~e.expired
               /\ workers'[e.id].known
               /\ s \in workers'[e.id].names
    BY <1>1, <1>2, <1>4, <1>5, <2>1 DEF WorkerRecord
  <2>3. ASSUME NEW s \in Services, s \in m.names,
               NEW e, e = [id |-> w, slot |-> registrations, expired |-> FALSE]
        PROVE  /\ ~e.expired
               /\ workers'[e.id].known
               /\ s \in workers'[e.id].names
    BY <1>1, <1>2, <1>5, <2>1, <2>3 DEF WorkerRecord
  <2>4. ASSUME NEW s \in Services, NEW e \in services'[s].worker
        PROVE  \/ e \in services[s].worker
               \/ /\ s \in m.names
                  /\ e = [id |-> w, slot |-> registrations, expired |-> FALSE]
    BY <1>3, <2>1 DEF AddWorker, ServiceRecord
  <2> QED
    BY <2>2, <2>3, <2>4 DEF RegistryAgrees
<1>7. CASE HandleRes(w, m)
  <2>1. /\ workers' = [workers EXCEPT ![w] = record]
        /\ services' = services
    BY <1>7 DEF HandleRes, record
  <2> QED
    BY <1>4, <1>5, <2>1 DEF RegistryAgrees
<1>8. CASE HandleHeartbeat(w, m)
  <2>1. /\ workers' = [workers EXCEPT ![w] = [record EXCEPT !.expiry = Interval]]
        /\ services' = services
    BY <1>8 DEF HandleHeartbeat, record
  <2> QED
    BY <1>1, <1>2, <1>4, <1>5, <2>1 DEF RegistryAgrees, WorkerRecord
<1>9. CASE HandleUnconnect(w, m)
  <2> DEFINE left == record.names \ m.names
             deadline == IF left = {} THEN 0 ELSE record.expiry
  <2>1. /\ workers' = [workers EXCEPT ![w] =
                         [record EXCEPT !.names = left, !.expiry = deadline]]
        /\ services' = [s \in Services |->
                          IF s \in m.names THEN NoService ELSE services[s]]
    BY <1>9 DEF HandleUnconnect, record
  <2>2. ASSUME NEW s \in Services, NEW e \in services'[s].worker
        PROVE  e \in services[s].worker /\ s \notin m.names
    BY <2>1 DEF NoService
  <2>3. ASSUME NEW s \in Services, s \notin m.names,
               NEW e \in services[s].worker
        PROVE  /\ ~e.expired
               /\ workers'[e.id].known
               /\ s \in workers'[e.id].names
    <3>1. CASE e.id = w
      BY <1>1, <1>2, <1>4, <1>5, <2>1, <2>3, <3>1 DEF WorkerRecord
    <3>2. CASE e.id # w
      BY <1>4, <1>5, <2>1, <3>2
    <3> QED
      BY <3>1, <3>2
  <2> QED
    BY <2>2, <2>3 DEF RegistryAgrees
<1> QED
  BY <1>6, <1>7, <1>8, <1>9 DEF HandleWorkerMessage

LEMMA RegistryStep ==
  ASSUME TypeOK, RegistryAgrees, [Next]_vars
  PROVE  RegistryAgrees'
<1> USE DEF brokerVars
<1>1. ASSUME UNCHANGED <<services, workers>>
      PROVE  RegistryAgrees'
  BY <1>1 DEF RegistryAgrees
<1>2. ASSUME NEW p \in Peers, Receive(p)
      PROVE  RegistryAgrees'
  <2>1. CASE p \in Workers /\ HandleWorkerMessage(p, Head(inbox[p]))
    BY <1>2, <2>1, InboxTail, RegistryAfterWorkerMessage DEF Receive
  <2>2. CASE p \in Clients /\ HandleClientMessage(Head(inbox[p]))
    <3>1. Head(inbox[p]).req.service \in Services
      BY <1>2, <2>2, InboxTail, FromClientFields DEF Receive, Request
    <3>2. \A s \in Services : services'[s].worker = services[s].worker
      BY <2>2, <3>1 DEF HandleClientMessage, TypeOK, ServiceRecord
    <3> QED
      BY <2>2, <3>2 DEF HandleClientMessage, RegistryAgrees
  <2> QED
    BY <1>2, <2>1, <2>2 DEF Receive
<1>3. CASE PollTimeout \/ Purge
  BY <1>3, RegistryAfterPurge DEF PollTimeout, Purge
<1>4. ASSUME NEW s \in Services, Dispatch(s)
      PROVE  RegistryAgrees'
  <2>1. \A t \in Services : services'[t].worker \subseteq services[t].worker
    BY <1>4 DEF Dispatch, RemoveWorker, TypeOK
  <2>2. workers' = workers
    BY <1>4 DEF Dispatch
  <2> QED
    BY <2>1, <2>2 DEF RegistryAgrees
<1>5. CASE Tick
  <2>1. \A w \in Workers : /\ workers'[w].known = workers[w].known
                           /\ workers'[w].names = workers[w].names
    BY <1>5 DEF Tick, TypeOK, WorkerRecord
  <2>2. \A s \in Services : \A e \in services[s].worker : e.id \in Workers
    BY DEF TypeOK, ServiceRecord, Entry
  <2> QED
    BY <1>5, <2>1, <2>2 DEF RegistryAgrees, Tick
<1>6. CASE ReplyNotProcessed \/ FinishDispatch \/ UNCHANGED vars
  BY <1>1, <1>6 DEF ReplyNotProcessed, FinishDispatch, vars
<1>7. ASSUME NEW w \in Workers,
             WorkerConnect(w) \/ Heartbeat(w) \/ Deconnect(w)
      PROVE  RegistryAgrees'
  BY <1>1, <1>7 DEF WorkerConnect, Heartbeat, Deconnect
<1>8. ASSUME NEW w \in Workers, NEW r \in Request, Respond(w, r)
      PROVE  RegistryAgrees'
  BY <1>1, <1>8 DEF Respond
<1>9. ASSUME NEW c \in Clients, NEW s \in Services, ClientRequest(c, s)
      PROVE  RegistryAgrees'
  BY <1>1, <1>9 DEF ClientRequest
<1> QED
  BY <1>2, <1>3, <1>4, <1>5, <1>6, <1>7, <1>8, <1>9
     DEF Next, Broker, Environment

(***************************************************************************)
(* A worker queued in a service has a live record that names the service.  *)
(***************************************************************************)
THEOREM RegistryConsistent == Spec => []RegistryAgrees
<1>1. Init => RegistryAgrees
  BY DEF Init, RegistryAgrees, NoService
<1>2. TypeOK /\ RegistryAgrees /\ [Next]_vars => RegistryAgrees'
  BY RegistryStep
<1> QED
  BY <1>1, <1>2, TypeCorrect, PTL DEF Spec

-----------------------------------------------------------------------------
(***************************************************************************)
(* The queues.  QueuesDrained speaks of pc = "poll" only; it is inductive  *)
(* together with what one round of Dispacth has done so far: the services  *)
(* already visited have nothing left.                                      *)
(***************************************************************************)
VisitedDrained ==
    pc = "dispatch" =>
      \A s \in Services \ round : services[s].requests = <<>>

LEMMA DrainStep ==
  ASSUME TypeOK, QueuesDrained, VisitedDrained, [Next]_vars
  PROVE  QueuesDrained' /\ VisitedDrained'
<1> USE DEF QueuesDrained, VisitedDrained, brokerVars
<1>1. ASSUME UNCHANGED <<pc, round, services, not_processed>>
      PROVE  QueuesDrained' /\ VisitedDrained'
  BY <1>1
<1>2. ASSUME pc' = "purge"
      PROVE  QueuesDrained' /\ VisitedDrained'
  BY <1>2
<1>3. CASE (\E p \in Peers : Receive(p)) \/ PollTimeout
  BY <1>2, <1>3 DEF Receive, PollTimeout
<1>4. CASE Purge
  BY <1>4 DEF Purge
<1>5. ASSUME NEW s \in Services, Dispatch(s)
      PROVE  QueuesDrained' /\ VisitedDrained'
  <2>1. /\ services'[s].requests = <<>>
        /\ \A t \in Services \ {s} : services'[t] = services[t]
        /\ pc = "dispatch" /\ pc' = pc /\ round' = round \ {s}
    BY <1>5 DEF Dispatch, TypeOK
  <2> QED
    BY <2>1
<1>6. CASE ReplyNotProcessed
  BY <1>6 DEF ReplyNotProcessed
<1>7. CASE FinishDispatch
  BY <1>7 DEF FinishDispatch
<1>8. CASE Environment \/ UNCHANGED vars
  BY <1>1, <1>8 DEF Environment, WorkerConnect, Heartbeat, Respond, Deconnect,
                    ClientRequest, Tick, vars
<1> QED
  BY <1>3, <1>4, <1>5, <1>6, <1>7, <1>8 DEF Next, Broker

(***************************************************************************)
(* Whenever the broker reads its socket, no request is left behind.        *)
(***************************************************************************)
THEOREM NothingLeftBehind == Spec => []QueuesDrained
<1>1. Init => QueuesDrained /\ VisitedDrained
  BY DEF Init, QueuesDrained, VisitedDrained, NoService
<1>2. TypeOK /\ QueuesDrained /\ VisitedDrained /\ [Next]_vars
        => QueuesDrained' /\ VisitedDrained'
  BY DrainStep
<1> QED
  BY <1>1, <1>2, TypeCorrect, PTL DEF Spec

-----------------------------------------------------------------------------
(***************************************************************************)
(* The order of a service's workers.  Slots already given out are below    *)
(* the number of registrations, so a newcomer goes to the back.            *)
(***************************************************************************)
SlotsBelow ==
    \A s \in Services : \A e \in services[s].worker : e.slot < registrations

\* A step gives a service no entry but with an old slot or with the next one.
SlotsKept ==
    /\ registrations' \in {registrations, registrations + 1}
    /\ \A s \in Services : \A f \in services'[s].worker :
         \/ \E e \in services[s].worker : e.slot = f.slot
         \/ f.slot = registrations /\ registrations' = registrations + 1

LEMMA SlotStep ==
  ASSUME TypeOK, [Next]_vars
  PROVE  SlotsKept
<1> USE DEF SlotsKept, brokerVars
<1>0. /\ \A s \in Services : services[s] \in ServiceRecord
      /\ services \in [Services -> ServiceRecord]
  BY DEF TypeOK
<1>1. ASSUME UNCHANGED registrations,
             \A s \in Services : services'[s].worker \subseteq services[s].worker
      PROVE  SlotsKept
  BY <1>1
<1>2. ASSUME NEW p \in Peers, Receive(p)
      PROVE  SlotsKept
  <2>1. CASE p \in Clients /\ HandleClientMessage(Head(inbox[p]))
    <3>1. Head(inbox[p]).req.service \in Services
      BY <1>2, <2>1, InboxTail, FromClientFields DEF Receive, Request
    <3>2. \A s \in Services : services'[s].worker = services[s].worker
      BY <1>0, <2>1, <3>1 DEF HandleClientMessage, ServiceRecord
    <3> QED
      BY <1>1, <2>1, <3>2 DEF HandleClientMessage
  <2>2. CASE p \in Workers /\ HandleReg(p, Head(inbox[p]))
    <3>1. ASSUME NEW s \in Services, NEW f \in services'[s].worker,
                 f \notin services[s].worker
          PROVE  f = [id |-> p, slot |-> registrations, expired |-> FALSE]
      BY <1>0, <2>2, <3>1 DEF HandleReg, AddWorker, ServiceRecord
    <3> QED
      BY <2>2, <3>1 DEF HandleReg
  <2>3. CASE p \in Workers /\ (\/ HandleRes(p, Head(inbox[p]))
                              \/ HandleHeartbeat(p, Head(inbox[p])))
    BY <1>1, <2>3 DEF HandleRes, HandleHeartbeat
  <2>4. CASE p \in Workers /\ HandleUnconnect(p, Head(inbox[p]))
    BY <1>1, <2>4 DEF HandleUnconnect, NoService
  <2> QED
    BY <1>2, <2>1, <2>2, <2>3, <2>4 DEF Receive, HandleWorkerMessage
<1>3. CASE PollTimeout \/ Purge
  <2>1. ASSUME NEW s \in Services, NEW f \in services'[s].worker
        PROVE  \E e \in services[s].worker : e.slot = f.slot
    <3>1. services'[s].worker =
            Expire(RemoveWorker(services[s].worker, Overdue), Overdue)
      BY <1>0, <1>3 DEF PollTimeout, Purge, DeleteTimeoutWorker, ServiceRecord
    <3>2. PICK e \in services[s].worker :
            f = [e EXCEPT !.expired = e.expired \/ e.id \in Overdue]
      BY <3>1 DEF Expire, RemoveWorker
    <3>3. e \in Entry
      BY <1>0 DEF ServiceRecord
    <3>4. f.slot = e.slot
      BY <3>2, <3>3, Zenon DEF Entry
    <3> QED
      BY <3>4
  <2> QED
    BY <1>3, <2>1 DEF PollTimeout, Purge
<1>4. ASSUME NEW s \in Services, Dispatch(s)
      PROVE  SlotsKept
  BY <1>0, <1>1, <1>4 DEF Dispatch, RemoveWorker
<1>5. CASE ReplyNotProcessed \/ FinishDispatch \/ UNCHANGED vars
  BY <1>1, <1>5 DEF ReplyNotProcessed, FinishDispatch, vars
<1>6. CASE Environment
  BY <1>1, <1>6 DEF Environment, WorkerConnect, Heartbeat, Respond, Deconnect,
                    ClientRequest, Tick
<1> QED
  BY <1>2, <1>3, <1>4, <1>5, <1>6 DEF Next, Broker

(***************************************************************************)
(* The first worker of a service stays first until it is removed.          *)
(***************************************************************************)
THEOREM FrontIsSticky == Spec => FrontStays
<1>1. Init => SlotsBelow
  BY DEF Init, SlotsBelow, NoService
<1>2. TypeOK /\ SlotsBelow /\ [Next]_vars => SlotsBelow'
  <2> SUFFICES ASSUME TypeOK, SlotsBelow, [Next]_vars,
                      NEW s \in Services, NEW f \in services'[s].worker
               PROVE  f.slot < registrations'
    BY DEF SlotsBelow
  <2>1. registrations \in Nat
    BY DEF TypeOK
  <2>2. SlotsKept
    BY SlotStep
  <2>3. CASE \E e \in services[s].worker : e.slot = f.slot
    <3>1. PICK e \in services[s].worker : e.slot = f.slot
      BY <2>3
    <3>2. e.slot \in Nat /\ e.slot < registrations
      BY DEF TypeOK, SlotsBelow, ServiceRecord, Entry
    <3> QED
      BY <2>1, <2>2, <3>1, <3>2 DEF SlotsKept
  <2>4. CASE f.slot = registrations /\ registrations' = registrations + 1
    BY <2>1, <2>4
  <2> QED
    BY <2>2, <2>3, <2>4 DEF SlotsKept
<1>3. TypeOK /\ SlotsBelow /\ [Next]_vars =>
        [\A s \in Services : \A e \in services[s].worker :
           IsFront(e, services[s].worker) /\ e \in services'[s].worker
             => IsFront(e, services'[s].worker)]_vars
  <2> SUFFICES ASSUME TypeOK, SlotsBelow, [Next]_vars,
                      NEW s \in Services, NEW e \in services[s].worker,
                      IsFront(e, services[s].worker),
                      e \in services'[s].worker,
                      NEW f \in services'[s].worker
               PROVE  e.slot <= f.slot
    BY DEF IsFront
  <2>1. e.slot \in Nat /\ e.slot < registrations /\ registrations \in Nat
    BY DEF TypeOK, SlotsBelow, ServiceRecord, Entry
  <2>2. SlotsKept
    BY SlotStep
  <2>3. CASE \E g \in services[s].worker : g.slot = f.slot
    BY <2>3 DEF IsFront
  <2>4. CASE f.slot = registrations
    BY <2>1, <2>4
  <2> QED
    BY <2>2, <2>3, <2>4 DEF SlotsKept
<1> QED
  BY <1>1, <1>2, <1>3, TypeCorrect, PTL DEF Spec, FrontStays
=============================================================================
