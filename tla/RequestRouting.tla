--------------------------- MODULE RequestRouting ---------------------------
(***************************************************************************)
(* What the broker promises about requests, without its services, workers, *)
(* queues and heartbeats.  A request is pending from the moment it is sent *)
(* until it is decided, once: forwarded to one worker, or refused.  Only   *)
(* the worker it was forwarded to answers it, once, and the answer goes to *)
(* the client that sent it.                                                *)
(***************************************************************************)
EXTENDS Naturals, Sequences

CONSTANTS Workers, Clients, Services, MaxRequests

VARIABLES
    sent,       \* sent[c]: the number of requests c has sent
    pending,    \* the requests sent and not decided
    toWorker,   \* toWorker[w]: what w has received, in order
    toClient,   \* toClient[c]: what c has received, in order
    answering   \* the answers under way to their clients

vars == <<sent, pending, toWorker, toClient, answering>>

Request == [client : Clients, serial : 1..MaxRequests, service : Services]

Init ==
    /\ sent = [c \in Clients |-> 0]
    /\ pending = {}
    /\ toWorker = [w \in Workers |-> <<>>]
    /\ toClient = [c \in Clients |-> <<>>]
    /\ answering = {}

\* A client sends its next request.
Submit(r) ==
    /\ r.serial = sent[r.client] + 1
    /\ sent' = [sent EXCEPT ![r.client] = r.serial]
    /\ pending' = pending \cup {r}
    /\ UNCHANGED <<toWorker, toClient, answering>>

\* A pending request goes to one worker.
Forward(r, w) ==
    /\ r \in pending
    /\ pending' = pending \ {r}
    /\ toWorker' = [toWorker EXCEPT ![w] =
                      Append(@, [head |-> "RPC_REQ", req |-> r])]
    /\ UNCHANGED <<sent, toClient, answering>>

\* A pending request goes back to its client.
Refuse(r) ==
    /\ r \in pending
    /\ pending' = pending \ {r}
    /\ toClient' = [toClient EXCEPT ![r.client] =
                      Append(@, [head |-> "RPC_NOTPROCESSED", req |-> r])]
    /\ UNCHANGED <<sent, toWorker, answering>>

\* A worker is told that its registration or its leave was handled.
Acknowledge(w) ==
    /\ toWorker' = [toWorker EXCEPT ![w] =
                      Append(@, [head |-> "RPC_SUCCESS"])]
    /\ UNCHANGED <<sent, pending, toClient, answering>>

HasReply(r) ==
    \E i \in 1..Len(toClient[r.client]) : toClient[r.client][i].req = r

\* A worker answers a request that was forwarded to it, once.
Answer(r, w) ==
    /\ \E i \in 1..Len(toWorker[w]) :
         toWorker[w][i] = [head |-> "RPC_REQ", req |-> r]
    /\ r \notin answering
    /\ ~HasReply(r)
    /\ answering' = answering \cup {r}
    /\ UNCHANGED <<sent, pending, toWorker, toClient>>

\* The answer reaches the client the request came from.
Deliver(r) ==
    /\ r \in answering
    /\ answering' = answering \ {r}
    /\ toClient' = [toClient EXCEPT ![r.client] =
                      Append(@, [head |-> "RPC_RES", req |-> r])]
    /\ UNCHANGED <<sent, pending, toWorker>>

Next ==
    \/ \E r \in Request : Submit(r) \/ Refuse(r) \/ Deliver(r)
    \/ \E r \in Request, w \in Workers : Forward(r, w) \/ Answer(r, w)
    \/ \E w \in Workers : Acknowledge(w)

Spec == Init /\ [][Next]_vars
=============================================================================
