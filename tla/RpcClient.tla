----------------------------- MODULE RpcClient -----------------------------
(***************************************************************************)
(* One RpcClient (src/rpc/client.h, src/rpc/client.cpp) making blocking    *)
(* calls one after the other, as RemoteCaller::SyncCall makes them under   *)
(* rpc_client_mutex_.  A call sends its request, waits, reconnects and     *)
(* sends again when it has waited too long, and ignores the answers that   *)
(* belong to earlier calls.                                                *)
(*                                                                         *)
(* The environment is the broker with its workers: it answers a request,   *)
(* late or never, and the answers to different requests come in any order. *)
(*                                                                         *)
(* Serial numbers are Now(), so the clock is part of the model.  One tick  *)
(* is the unit of the timeout.  Timeouts are 64 bits wide and are cut to   *)
(* 32 where the call waits, which makes a long one short or endless.       *)
(***************************************************************************)
EXTENDS Integers, Sequences, FiniteSets

CONSTANTS
    Services,        \* the services the client calls
    TimeoutArgs,     \* values of SyncCall's timeout: -1, 0 or ticks
    RetryArgs,       \* values of SyncCall's rerties: -1, 0 or a count
    Timeouts,        \* values of timeout_, in ticks
    Retries,         \* values of retries_
    Word,            \* the number of values of an int32_t: 2^32 in the code
    Debug,           \* debug_
    MaxCalls,        \* bound: calls made
    MaxTime          \* bound: the clock when a call may still begin

ASSUME ArgsAssumption ==
    /\ TimeoutArgs \subseteq Int /\ \A t \in TimeoutArgs : t >= -1
    /\ RetryArgs \subseteq Int /\ \A r \in RetryArgs : r >= -1
ASSUME SettingsAssumption == Timeouts \subseteq Nat /\ Retries \subseteq Nat
ASSUME WordAssumption == Word \in Nat \ {0}
ASSUME ClientBounds == Debug \in BOOLEAN /\ MaxCalls \in Nat /\ MaxTime \in Nat

Forever == -1

\* call and attempt are history: the code has the serial only.
Request == [call : Nat, attempt : Nat, serial : Nat, service : Services]
Response == [head : {"RPC_RES", "RPC_NOTPROCESSED"}, to : Request]

VARIABLES
    timeout_,
    retries_,
    now,        \* Now()
    pc,         \* where SyncCall is
    serial,     \* serial_num of the current call
    service,    \* the service of the current call
    to_request_times,  \* the attempts left
    timeout,    \* timeout_of_current_request
    left,       \* ticks until WaitReadable gives up, or Forever
    socket,     \* what the socket has received and SyncCall has not read
    network,    \* the requests the broker has not answered yet
    calls,      \* the number of calls made
    attempts,   \* the requests the current call has sent
    args,       \* timeout, rerties and retries_ of the current call
    cut,        \* whether a call so far began with a wait cut to nothing
    accepted,   \* the response the last call acted on, if any
    returned    \* how the last call ended

settings == <<timeout_, retries_>>
callVars == <<settings, serial, service, calls, args, cut>>
vars == <<settings, now, pc, serial, service, to_request_times, timeout, left, socket,
          network, calls, attempts, args, cut, accepted, returned>>

TypeOK ==
    /\ timeout_ \in Timeouts /\ retries_ \in Retries
    /\ now \in 0..MaxTime
    /\ pc \in {"idle", "send", "wait", "read", "reconnect", "aborted"}
    /\ serial \in 0..MaxTime
    /\ service \in Services
    /\ to_request_times \in Nat
    /\ timeout \in Nat
    /\ left \in -1..timeout
    /\ socket \in Seq(Response)
    /\ network \in SUBSET Request
    /\ calls \in 0..MaxCalls
    /\ attempts \in Nat
    /\ args \in [timeout : TimeoutArgs, rerties : RetryArgs,
                retries : Retries]
    /\ cut \in BOOLEAN
    /\ accepted \in Seq(Response) /\ Len(accepted) <= 1
    /\ returned \in {"nothing", "payload", "empty"}

Init ==
    /\ timeout_ \in Timeouts
    /\ retries_ \in Retries
    /\ now = 0
    /\ pc = "idle"
    /\ serial = 0
    /\ service \in Services
    /\ to_request_times = 0
    /\ timeout = timeout_
    /\ left = 0
    /\ socket = <<>>
    /\ network = {}
    /\ calls = 0
    /\ attempts = 0
    /\ args \in [timeout : TimeoutArgs, rerties : RetryArgs,
                retries : Retries]
    /\ cut = FALSE
    /\ accepted = <<>>
    /\ returned = "nothing"

-----------------------------------------------------------------------------
(***************************************************************************)
(* The arguments of SyncCall.                                              *)
(***************************************************************************)

\* Mutant: the request itself is not counted.
RetriesOnly(r) ==
    IF r = -1 THEN 0 ELSE IF r > 0 THEN r ELSE retries_

\* Mutant: -1 is taken for a number of retries.
RetriesOrNone(r) == IF r = 0 THEN retries_ ELSE r

\* One request, and as many again as there are retries.
RequestTimes(r) == 1 + (CASE r = -1 -> 0 [] r > 0 -> r [] r = 0 -> retries_)

\* -1 asks for no timeout and gets sixteen times the default one.
RequestTimeout(t) ==
    CASE t = 0 -> timeout_ [] t = -1 -> timeout_ * 16 [] OTHER -> t

\* What is left of a timeout in an int32_t, in two's complement.
Narrow(t) == LET r == t % Word IN IF 2 * r >= Word THEN r - Word ELSE r

\* How long WaitReadable waits: poll takes any negative number for no limit.
Wait(t) == IF Narrow(t) < 0 THEN Forever ELSE Narrow(t)

-----------------------------------------------------------------------------
(***************************************************************************)
(* SyncCall.                                                               *)
(***************************************************************************)
Call(s, t, r) ==
    /\ pc = "idle"
    /\ calls < MaxCalls
    /\ now < MaxTime
    /\ pc' = "send"
    /\ serial' = now
    /\ service' = s
    /\ calls' = calls + 1
    /\ args' = [timeout |-> t, rerties |-> r, retries |-> retries_]
    /\ to_request_times' = RequestTimes(r)
    /\ timeout' = RequestTimeout(t)
    /\ cut' = (cut \/ Wait(RequestTimeout(t)) = 0)
    /\ left' = 0
    /\ attempts' = 0
    /\ accepted' = <<>>
    /\ returned' = "nothing"
    /\ UNCHANGED <<settings, now, socket, network>>

NewRequest == [call |-> calls, attempt |-> attempts + 1, serial |-> serial,
               service |-> service]

\* SendAll, then WaitReadable begins.
SendRequest ==
    /\ pc = "send"
    /\ to_request_times > 0
    /\ pc' = "wait"
    /\ attempts' = attempts + 1
    /\ network' = network \cup {NewRequest}
    /\ left' = Wait(timeout)
    /\ UNCHANGED <<now, callVars, to_request_times, timeout, socket, accepted,
                   returned>>

\* The loop ends without an answer.
ReturnEmpty ==
    /\ pc = "send"
    /\ to_request_times = 0
    /\ pc' = "idle"
    /\ returned' = "empty"
    /\ UNCHANGED <<now, callVars, to_request_times, timeout, left, socket,
                   network, attempts, accepted>>

\* Mutant: RECEIVE_AGAIN is taken after a timeout too.
TimedOutWaitsAgain ==
    /\ pc = "wait"
    /\ socket = <<>>
    /\ left = 0
    /\ left' = Wait(timeout)
    /\ UNCHANGED <<now, pc, callVars, to_request_times, timeout, socket,
                   network, attempts, accepted, returned>>

\* WaitReadable gave up; the timeout is doubled when debugging.
TimedOut ==
    /\ pc = "wait"
    /\ socket = <<>>
    /\ left = 0
    /\ pc' = "reconnect"
    /\ timeout' = IF Debug THEN timeout * 2 ELSE timeout
    /\ UNCHANGED <<now, callVars, to_request_times, left, socket, network,
                   attempts, accepted, returned>>

\* Reconnect replaces the socket: what it had received is gone.
Reconnect ==
    /\ pc = "reconnect"
    /\ pc' = "send"
    /\ socket' = <<>>
    /\ to_request_times' = to_request_times - 1
    /\ UNCHANGED <<now, callVars, timeout, left, network, attempts, accepted,
                   returned>>

Readable ==
    /\ pc = "wait"
    /\ socket # <<>>
    /\ pc' = "read"
    /\ UNCHANGED <<now, callVars, to_request_times, timeout, left, socket,
                   network, attempts, accepted, returned>>

\* Mutant: no answer is too old.
NeverStale(m) == FALSE

\* S1BiggersS2(serial_num, response_serial_num): an answer to an older call.
Stale(m) == serial > m.to.serial

\* goto RECEIVE_AGAIN: wait anew, for the whole timeout.
Ignore ==
    /\ pc = "read"
    /\ Stale(Head(socket))
    /\ pc' = "wait"
    /\ left' = Wait(timeout)
    /\ socket' = Tail(socket)
    /\ UNCHANGED <<now, callVars, to_request_times, timeout, network, attempts,
                   accepted, returned>>

\* The asserts on RPC_NOTPROCESSED and on the service end the process.
Accept ==
    /\ pc = "read"
    /\ ~Stale(Head(socket))
    /\ accepted' = <<Head(socket)>>
    /\ socket' = Tail(socket)
    /\ \/ /\ Head(socket).head = "RPC_RES"
          /\ Head(socket).to.service = service
          /\ pc' = "idle"
          /\ returned' = "payload"
       \/ /\ \/ Head(socket).head = "RPC_NOTPROCESSED"
             \/ Head(socket).to.service # service
          /\ pc' = "aborted"
          /\ UNCHANGED returned
    /\ UNCHANGED <<now, callVars, to_request_times, timeout, left, network,
                   attempts>>

(***************************************************************************)
(* Between calls.                                                          *)
(***************************************************************************)
Set(t, n) ==
    /\ pc = "idle"
    /\ timeout_' = t
    /\ retries_' = n
    /\ UNCHANGED <<now, pc, serial, service, calls, args, cut, to_request_times,
                   timeout, left, socket, network, attempts, accepted,
                   returned>>

SetTimeout(ms) == Set(ms, retries_)
SetRerties(n) == Set(timeout_, n)

\* Connect once more: a new socket, as in Reconnect.
ConnectAgain ==
    /\ pc = "idle"
    /\ socket # <<>>
    /\ socket' = <<>>
    /\ UNCHANGED <<now, pc, callVars, to_request_times, timeout, left, network,
                   attempts, accepted, returned>>

SyncCall == SendRequest \/ ReturnEmpty \/ TimedOut \/ Reconnect \/ Readable
              \/ Ignore \/ Accept

-----------------------------------------------------------------------------
(***************************************************************************)
(* The broker and the clock.                                               *)
(***************************************************************************)

\* The answer reaches whichever socket has the client's identity now.
Answer(q, h) ==
    /\ q \in network
    /\ network' = network \ {q}
    /\ socket' = Append(socket, [head |-> h, to |-> q])
    /\ UNCHANGED <<now, pc, callVars, to_request_times, timeout, left, attempts,
                   accepted, returned>>

\* The request or its answer is lost: a worker gone, an old connection.
Lose(q) ==
    /\ q \in network
    /\ network' = network \ {q}
    /\ UNCHANGED <<now, pc, callVars, to_request_times, timeout, left, socket,
                   attempts, accepted, returned>>

\* The clock never goes back.  It stands still at MaxTime, where no call
\* begins any more; a wait is counted on.
Tick ==
    /\ now' = IF now < MaxTime THEN now + 1 ELSE now
    /\ left' = IF left > 0 THEN left - 1 ELSE left
    /\ UNCHANGED <<pc, callVars, to_request_times, timeout, socket, network,
                   attempts, accepted, returned>>

Next ==
    /\ pc # "aborted"
    /\ \/ \E s \in Services, t \in TimeoutArgs, r \in RetryArgs : Call(s, t, r)
       \/ SyncCall
       \/ \E ms \in Timeouts : SetTimeout(ms)
       \/ \E n \in Retries : SetRerties(n)
       \/ ConnectAgain
       \/ \E q \in network : \/ Answer(q, "RPC_RES")
                             \/ Answer(q, "RPC_NOTPROCESSED")
                             \/ Lose(q)
       \/ Tick

\* The caller's thread runs and time passes; no request has to be answered.
Fairness == WF_vars(pc # "aborted" /\ SyncCall) /\ WF_vars(pc # "aborted" /\ Tick)

Spec == Init /\ [][Next]_vars
FairSpec == Spec /\ Fairness

-----------------------------------------------------------------------------
(***************************************************************************)
(* Correctness properties.                                                 *)
(***************************************************************************)

(***************************************************************************)
(* The response a call acts on is a response to that call, not to an       *)
(* earlier one that timed out and whose answers are still coming in: it    *)
(* neither returns another call's payload nor fails an assert over it      *)
(* (client.cpp:192-218).  It holds until a call begins whose timeout is    *)
(* cut to nothing (zmq_helper.h:126): that call gives up within the        *)
(* millisecond, the next one can have its serial number and take its       *)
(* answer, return at once, and leave its own to the one after that.        *)
(***************************************************************************)
OwnAnswerOnly ==
    ~cut => \A i \in 1..Len(accepted) : accepted[i].to.call = calls

(***************************************************************************)
(* An empty result means that every attempt the caller asked for was made. *)
(***************************************************************************)
EmptyAfterEveryAttempt ==
    returned = "empty" =>
      attempts = IF args.rerties = -1 THEN 1
                 ELSE IF args.rerties = 0 THEN args.retries + 1
                 ELSE args.rerties + 1

(***************************************************************************)
(* A blocking call comes back, or the process ends in an assert, even when *)
(* nobody answers: old answers that restart the wait run out.  The one     *)
(* exception is a timeout that is negative as an int32_t.                  *)
(***************************************************************************)
CallEnds ==
    pc = "send" ~> pc \in {"idle", "aborted"} \/ (pc = "wait" /\ left = Forever)
=============================================================================
