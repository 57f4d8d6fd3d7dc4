-------------------------- MODULE RpcClient_proofs --------------------------
(***************************************************************************)
(* Proofs about RpcClient, for any services, arguments and settings, any   *)
(* width of an int32_t and any number of calls.                            *)
(***************************************************************************)
EXTENDS RpcClient, TLAPS, SequenceTheorems

-----------------------------------------------------------------------------
(***************************************************************************)
(* The attempts.  A call that has not returned has made as many attempts   *)
(* as its arguments allow, less those that are left.                       *)
(***************************************************************************)
Allowed ==
  IF args.rerties = -1 THEN 1
  ELSE IF args.rerties = 0 THEN args.retries + 1
  ELSE args.rerties + 1

AttemptsCounted ==
  /\ pc # "idle" => returned = "nothing"
  /\ pc \in {"wait", "read", "reconnect"} => to_request_times > 0
  /\ pc = "send" => attempts + to_request_times = Allowed
  /\ pc \in {"wait", "read", "reconnect"} =>
       attempts + to_request_times = Allowed + 1
  /\ returned = "empty" => attempts = Allowed

-----------------------------------------------------------------------------
(***************************************************************************)
(* The answers that are still to come.  A request is in the network or has *)
(* its answer in the socket, once; none is from a call to come; those of   *)
(* earlier calls have earlier serial numbers, which is what a call tells   *)
(* them by.                                                                *)
(***************************************************************************)
Tos(s) == {s[k].to : k \in 1..Len(s)}
OnceIn(s) == \A j, k \in 1..Len(s) : s[j].to = s[k].to => j = k

Pending == network \cup Tos(socket)

EachOnce == OnceIn(socket) /\ network \cap Tos(socket) = {}

OfThisCall(q) ==
  q.call = calls /\ q.serial = serial /\ q.service = service
    /\ q.attempt \in 1..attempts
OfEarlierCall(q) == q.call < calls /\ (~cut => q.serial < serial)

PendingKnown == \A q \in Pending : OfThisCall(q) \/ OfEarlierCall(q)

(***************************************************************************)
(* When no call is running, whatever may still come answers a request of   *)
(* an earlier tick: the call that sent it either has had a wait time out,  *)
(* or has sent one request and got its answer.                             *)
(***************************************************************************)
AttemptOver == attempts > 1 \/ (attempts = 1 /\ pc \in {"reconnect", "send"})

TimePasses ==
  /\ serial <= now
  /\ pc # "idle" => serial < MaxTime
  /\ pc \in {"wait", "read", "reconnect"} => attempts > 0
  /\ ~cut =>
       /\ pc # "idle" /\ AttemptOver => serial < now
       /\ pc = "send" /\ attempts = 0 => Wait(timeout) # 0
       /\ pc \in {"wait", "read"} /\ attempts = 1 => Wait(timeout) # 0
       /\ pc \in {"wait", "read"} /\ attempts = 1 /\ left = 0 => serial < now
       /\ pc = "idle" => \A q \in Pending : q.serial < now

AcceptedOwn ==
  /\ pc \notin {"idle", "aborted"} => accepted = <<>>
  /\ OwnAnswerOnly

\* Nobody else reads the socket.
HasAnswer == pc = "read" => socket # <<>>

ClientInv ==
  /\ TypeOK /\ HasAnswer /\ AttemptsCounted /\ EachOnce /\ PendingKnown /\ TimePasses
  /\ AcceptedOwn

-----------------------------------------------------------------------------
(***************************************************************************)
(* Type correctness.                                                       *)
(***************************************************************************)

\* A wait is no longer than the timeout it is cut from.
LEMMA WaitBound ==
  ASSUME NEW t \in Nat
  PROVE  Wait(t) \in -1..t
<1>1. t % Word \in 0..t
  BY WordAssumption
<1>2. Narrow(t) \in Int /\ Narrow(t) <= t
  BY <1>1, WordAssumption DEF Narrow
<1> QED
  BY <1>2 DEF Wait, Forever

\* Reading and writing the socket.
LEMMA HeadTailType ==
  ASSUME NEW S, NEW q \in Seq(S), q # <<>>
  PROVE  Head(q) \in S /\ Tail(q) \in Seq(S)
OBVIOUS

LEMMA ArgsType ==
  ASSUME TypeOK, NEW t \in TimeoutArgs, NEW r \in RetryArgs
  PROVE  /\ RequestTimeout(t) \in Nat
         /\ RequestTimes(r) \in Nat
         /\ RequestTimes(r) = IF r = -1 THEN 1
                              ELSE IF r = 0 THEN retries_ + 1 ELSE r + 1
<1>1. /\ t \in Int /\ t >= -1 /\ r \in Int /\ r >= -1
      /\ timeout_ \in Nat /\ retries_ \in Nat
  BY ArgsAssumption, SettingsAssumption DEF TypeOK
<1>2. RequestTimeout(t) \in Nat
  BY <1>1 DEF RequestTimeout
<1>3. RequestTimes(r) = IF r = -1 THEN 1
                        ELSE IF r = 0 THEN retries_ + 1 ELSE r + 1
  <2>1. CASE r = -1
    BY <2>1 DEF RequestTimes
  <2>2. CASE r = 0
    BY <1>1, <2>2 DEF RequestTimes
  <2>3. CASE r > 0
    BY <1>1, <2>3 DEF RequestTimes
  <2> QED
    BY <1>1, <2>1, <2>2, <2>3
<1> QED
  BY <1>1, <1>2, <1>3

LEMMA InitInv == Init => ClientInv
<1> SUFFICES ASSUME Init PROVE ClientInv
  OBVIOUS
<1>1. cut \in BOOLEAN
  BY Zenon DEF Init
<1>2. TypeOK
  BY <1>1, SettingsAssumption, ClientBounds DEF Init, TypeOK
<1>3. AttemptsCounted
  BY DEF Init, AttemptsCounted
<1>4. Tos(socket) = {} /\ OnceIn(socket)
  BY DEF Init, Tos, OnceIn
<1>5. EachOnce /\ PendingKnown
  BY <1>4 DEF Init, EachOnce, PendingKnown, Pending
<1>6. TimePasses
  BY <1>4 DEF Init, TimePasses, Pending
<1>7. AcceptedOwn
  BY DEF Init, AcceptedOwn, OwnAnswerOnly
<1>8. HasAnswer
  BY DEF Init, HasAnswer
<1> QED
  BY <1>2, <1>3, <1>5, <1>6, <1>7, <1>8 DEF ClientInv

LEMMA TypeStep ==
  ASSUME TypeOK, HasAnswer, AttemptsCounted, [Next]_vars
  PROVE  TypeOK'
<1> USE DEF TypeOK, callVars, settings
<1>1. CASE UNCHANGED vars
  BY <1>1 DEF vars
<1>2. ASSUME NEW s \in Services, NEW t \in TimeoutArgs, NEW r \in RetryArgs,
             Call(s, t, r)
      PROVE  TypeOK'
  <2>1. /\ RequestTimeout(t) \in Nat /\ RequestTimes(r) \in Nat
    BY ArgsType
  <2>2. cut' \in BOOLEAN
    BY <1>2, Zenon DEF Call
  <2>3. /\ calls' \in 0..MaxCalls /\ serial' \in 0..MaxTime
        /\ left' \in -1..timeout' /\ timeout' \in Nat
        /\ attempts' \in Nat /\ to_request_times' \in Nat
        /\ accepted' = <<>> /\ returned' = "nothing" /\ pc' = "send"
        /\ service' \in Services
        /\ UNCHANGED <<settings, now, socket, network>>
    BY <1>2, <2>1, ClientBounds DEF Call
  <2>4. args' \in [timeout : TimeoutArgs, rerties : RetryArgs, retries : Retries]
    BY <1>2 DEF Call
  <2> QED
    BY <2>2, <2>3, <2>4
<1>3. CASE SendRequest
  <2>1. NewRequest \in Request
    BY ClientBounds DEF NewRequest, Request
  <2>2. left' \in -1..timeout'
    BY <1>3, WaitBound DEF SendRequest
  <2> QED
    BY <1>3, <2>1, <2>2 DEF SendRequest
<1>4. CASE ReturnEmpty
  BY <1>4 DEF ReturnEmpty
<1>5. CASE TimedOut
  BY <1>5, ClientBounds DEF TimedOut
<1>6. CASE Reconnect
  <2>1. to_request_times' \in Nat
    BY <1>6 DEF Reconnect, AttemptsCounted
  <2> QED
    BY <1>6, <2>1 DEF Reconnect
<1>7. CASE Readable
  BY <1>7 DEF Readable
<1>8. CASE socket # <<>> /\ Ignore
  <2>1. socket' \in Seq(Response)
    BY <1>8, HeadTailType DEF Ignore
  <2>2. left' \in -1..timeout'
    BY <1>8, WaitBound DEF Ignore
  <2>3. /\ pc' = "wait"
        /\ UNCHANGED <<now, callVars, to_request_times, timeout, network,
                       attempts, accepted, returned>>
    BY <1>8 DEF Ignore
  <2> QED
    BY <2>1, <2>2, <2>3
<1>9. CASE socket # <<>> /\ Accept
  <2>1. PICK m \in Response : accepted' = <<m>>
    BY <1>9, HeadTailType DEF Accept
  <2>2. socket' \in Seq(Response)
    BY <1>9, HeadTailType DEF Accept
  <2>3. /\ pc' \in {"idle", "aborted"}
        /\ returned' = returned \/ returned' = "payload"
        /\ UNCHANGED <<now, callVars, to_request_times, timeout, left, network,
                       attempts>>
    BY <1>9 DEF Accept
  <2> QED
    BY <2>1, <2>2, <2>3
<1>10. CASE \/ \E ms \in Timeouts : SetTimeout(ms)
            \/ \E n \in Retries : SetRerties(n)
  BY <1>10 DEF SetTimeout, SetRerties, Set
<1>11. CASE ConnectAgain
  BY <1>11 DEF ConnectAgain
<1>12. ASSUME NEW q \in network, NEW h \in {"RPC_RES", "RPC_NOTPROCESSED"},
              Answer(q, h)
       PROVE  TypeOK'
  <2>1. [head |-> h, to |-> q] \in Response
    BY DEF Response
  <2>2. socket' \in Seq(Response)
    BY <1>12, <2>1 DEF Answer
  <2> QED
    BY <1>12, <2>2 DEF Answer
<1>13. ASSUME NEW q \in network, Lose(q)
       PROVE  TypeOK'
  BY <1>13 DEF Lose
<1>14. CASE Tick
  BY <1>14, ClientBounds DEF Tick
<1> QED
  <2>1. SyncCall => TypeOK'
    BY <1>3, <1>4, <1>5, <1>6, <1>7, <1>8, <1>9
       DEF SyncCall, Ignore, Accept, HasAnswer
  <2>2. (\E q \in network : Answer(q, "RPC_RES") \/ Answer(q, "RPC_NOTPROCESSED")
                              \/ Lose(q)) => TypeOK'
    BY <1>12, <1>13
  <2> QED
    BY <1>1, <1>2, <1>10, <1>11, <1>14, <2>1, <2>2 DEF Next

-----------------------------------------------------------------------------
(***************************************************************************)
(* The attempts are counted.                                               *)
(***************************************************************************)
LEMMA HasAnswerStep ==
  ASSUME TypeOK, HasAnswer, [Next]_vars
  PROVE  HasAnswer'
<1> USE DEF HasAnswer
<1>1. ASSUME NEW q \in network, NEW h, Answer(q, h)
      PROVE  HasAnswer'
  <2>1. socket' # <<>>
    BY SMTT(40), <1>1, AppendProperties DEF Answer, TypeOK
  <2> QED
    BY <2>1
<1>2. CASE UNCHANGED vars
  BY <1>2 DEF vars
<1>3. CASE SyncCall
  BY <1>3 DEF SyncCall, SendRequest, ReturnEmpty, TimedOut, Reconnect, Readable,
              Ignore, Accept
<1>4. ASSUME NEW s, NEW t, NEW r, Call(s, t, r) \/ Set(t, r)
      PROVE  HasAnswer'
  BY <1>4 DEF Call, Set
<1>5. CASE ConnectAgain \/ Tick \/ \E q \in network : Lose(q)
  BY <1>5 DEF ConnectAgain, Tick, Lose
<1> QED
  BY <1>1, <1>2, <1>3, <1>4, <1>5 DEF Next, SetTimeout, SetRerties

LEMMA ArgsAreNumbers ==
  ASSUME TypeOK
  PROVE  args.rerties \in Int /\ args.retries \in Int
<1>1. args \in [timeout : TimeoutArgs, rerties : RetryArgs, retries : Retries]
  BY DEF TypeOK
<1>2. args.rerties \in RetryArgs /\ args.retries \in Retries
  BY <1>1
<1>3. RetryArgs \subseteq Int /\ Retries \subseteq Int
  BY ArgsAssumption, SettingsAssumption
<1> QED
  BY <1>2, <1>3

LEMMA AttemptsStep ==
  ASSUME TypeOK, AttemptsCounted, [Next]_vars
  PROVE  AttemptsCounted'
<1> USE DEF AttemptsCounted, Allowed, callVars, settings
<1> args.rerties \in Int /\ args.retries \in Int
  BY ArgsAreNumbers
<1>1. CASE UNCHANGED vars
  BY <1>1 DEF vars
<1>2. ASSUME NEW s \in Services, NEW t \in TimeoutArgs, NEW r \in RetryArgs,
             Call(s, t, r)
      PROVE  AttemptsCounted'
  BY <1>2, ArgsType DEF Call
<1>3. CASE SendRequest
  BY <1>3 DEF SendRequest, TypeOK
<1>4. CASE ReturnEmpty
  BY <1>4 DEF ReturnEmpty, TypeOK
<1>5. CASE Reconnect
  BY SMTT(40), <1>5 DEF Reconnect, TypeOK
<1>6. CASE TimedOut \/ Readable \/ Ignore \/ Accept
  BY <1>6 DEF TimedOut, Readable, Ignore, Accept
<1>7. ASSUME NEW ms, NEW n, Set(ms, n)
      PROVE  AttemptsCounted'
  BY <1>7 DEF Set
<1>8. CASE ConnectAgain \/ Tick
  BY <1>8 DEF ConnectAgain, Tick
<1>9. ASSUME NEW q, NEW h, Answer(q, h) \/ Lose(q)
      PROVE  AttemptsCounted'
  BY <1>9 DEF Answer, Lose
<1> QED
  BY <1>1, <1>2, <1>3, <1>4, <1>5, <1>6, <1>7, <1>8, <1>9
     DEF Next, SyncCall, SetTimeout, SetRerties

-----------------------------------------------------------------------------
(***************************************************************************)
(* The answers that are still to come.                                     *)
(***************************************************************************)
LEMMA PendingType ==
  ASSUME TypeOK
  PROVE  Pending \subseteq Request
<1>1. \A k \in 1..Len(socket) : socket[k] \in Response
  BY DEF TypeOK
<1> QED
  BY <1>1 DEF TypeOK, Pending, Tos, Response

LEMMA TailTos ==
  ASSUME NEW S, NEW q \in Seq(S), q # <<>>, OnceIn(q)
  PROVE  /\ OnceIn(Tail(q))
         /\ Head(q).to \in Tos(q)
         /\ Tos(Tail(q)) = Tos(q) \ {Head(q).to}
<1> DEFINE t == Tail(q)
<1>1. /\ Len(q) \in Nat /\ 1 \in 1..Len(q)
      /\ Head(q) = q[1]
      /\ Len(t) = Len(q) - 1
      /\ \A k \in 1..Len(t) : t[k] = q[k + 1]
  <2>1. Len(q) \in Nat \ {0}
    BY EmptySeq
  <2> QED
    BY <2>1
<1> HIDE DEF t
<1>2. /\ \A k \in 1..Len(t) : k + 1 \in 1..Len(q) /\ k + 1 # 1 /\ t[k] = q[k + 1]
      /\ \A k \in 1..Len(q) : k # 1 => k - 1 \in 1..Len(t) /\ t[k - 1] = q[k]
  BY <1>1
<1>3. OnceIn(t)
  <2> SUFFICES ASSUME NEW j \in 1..Len(t), NEW k \in 1..Len(t), t[j].to = t[k].to
               PROVE  j = k
    BY DEF OnceIn
  <2>1. j + 1 = k + 1
    BY <1>2 DEF OnceIn
  <2> QED
    BY <2>1
<1>4. Head(q).to \in Tos(q)
  BY <1>1 DEF Tos
<1>5. Tos(t) \subseteq Tos(q)
  BY <1>2 DEF Tos
<1>6. Head(q).to \notin Tos(t)
  BY <1>1, <1>2 DEF Tos, OnceIn
<1>7. \A a \in Tos(q) : a \in Tos(t) \/ a = Head(q).to
  BY <1>1, <1>2 DEF Tos
<1> QED
  BY <1>3, <1>4, <1>5, <1>6, <1>7 DEF t

LEMMA AppendTos ==
  ASSUME NEW S, NEW q \in Seq(S), NEW m, OnceIn(q)
  PROVE  /\ Tos(Append(q, m)) = Tos(q) \cup {m.to}
         /\ m.to \notin Tos(q) => OnceIn(Append(q, m))
<1> DEFINE t == Append(q, m)
           end == Len(q) + 1
<1>1. /\ Len(q) \in Nat /\ Len(t) = end /\ t[end] = m
      /\ \A k \in 1..Len(q) : t[k] = q[k]
      /\ \A k \in 1..Len(t) : k \in 1..Len(q) \/ k = end
      /\ \A k \in 1..Len(q) : k \in 1..Len(t)
      /\ end \in 1..Len(t)
  OBVIOUS
<1> HIDE DEF t, end
<1>2. Tos(t) = Tos(q) \cup {m.to}
  <2>1. Tos(t) \subseteq Tos(q) \cup {m.to}
    BY <1>1 DEF Tos
  <2>2. Tos(q) \subseteq Tos(t) /\ m.to \in Tos(t)
    BY <1>1 DEF Tos
  <2> QED
    BY <2>1, <2>2
<1>3. ASSUME m.to \notin Tos(q) PROVE OnceIn(t)
  BY <1>1, <1>3, ZenonT(40) DEF OnceIn, Tos
<1> QED
  BY <1>2, <1>3 DEF t

LEMMA PendingStep ==
  ASSUME TypeOK, HasAnswer, EachOnce, PendingKnown, [Next]_vars
  PROVE  /\ EachOnce'
         /\ SendRequest => Pending' = Pending \cup {NewRequest}
         /\ ~SendRequest => Pending' \subseteq Pending
<1> USE DEF callVars, settings
<1>1. CASE UNCHANGED <<socket, network>>
  <2>1. EachOnce' /\ Pending' = Pending
    BY <1>1 DEF EachOnce, Pending
  <2>2. SendRequest => NewRequest \in network
    BY <1>1 DEF SendRequest
  <2> QED
    BY <2>1, <2>2 DEF Pending
<1>2. CASE SendRequest
  <2>1. NewRequest \notin Pending
    <3>1. NewRequest.call = calls /\ NewRequest.attempt = attempts + 1
      BY DEF NewRequest
    <3>2. attempts + 1 \notin 1..attempts /\ ~(calls < calls)
      BY DEF TypeOK
    <3> QED
      BY <3>1, <3>2 DEF PendingKnown, OfThisCall, OfEarlierCall
  <2>2. network' = network \cup {NewRequest} /\ socket' = socket
    BY <1>2 DEF SendRequest
  <2> QED
    BY <1>2, <2>1, <2>2 DEF EachOnce, Pending
<1>3. CASE Reconnect \/ ConnectAgain
  <2>1. socket' = <<>> /\ network' = network /\ ~SendRequest
    BY <1>3 DEF Reconnect, ConnectAgain, SendRequest
  <2>2. Tos(socket') = {} /\ OnceIn(socket')
    BY <2>1 DEF Tos, OnceIn
  <2> QED
    BY <2>1, <2>2 DEF EachOnce, Pending
<1>4. CASE Ignore \/ Accept
  <2>1. socket' = Tail(socket) /\ network' = network /\ socket # <<>> /\ pc # "send"
    BY <1>4 DEF Ignore, Accept, HasAnswer
  <2>2. OnceIn(socket') /\ Tos(socket') \subseteq Tos(socket)
    BY <2>1, TailTos DEF TypeOK, EachOnce
  <2> QED
    BY <2>1, <2>2 DEF EachOnce, Pending, SendRequest
<1>5. ASSUME NEW q \in network, NEW h, Answer(q, h)
      PROVE  EachOnce' /\ Pending' \subseteq Pending /\ ~SendRequest
  <2> DEFINE m == [head |-> h, to |-> q]
  <2>1. /\ network' = network \ {q} /\ socket' = Append(socket, m) /\ m.to = q
    BY <1>5 DEF Answer
  <2> HIDE DEF m
  <2>2. q \notin Tos(socket)
    BY DEF EachOnce
  <2>3. Tos(socket') = Tos(socket) \cup {q} /\ OnceIn(socket')
    BY <2>1, <2>2, AppendTos DEF TypeOK, EachOnce
  <2>4. ~SendRequest
    BY <1>5 DEF Answer, SendRequest
  <2> QED
    BY <2>1, <2>3, <2>4 DEF EachOnce, Pending
<1>6. ASSUME NEW q \in network, Lose(q)
      PROVE  EachOnce' /\ Pending' \subseteq Pending /\ ~SendRequest
  BY <1>6 DEF Lose, SendRequest, EachOnce, Pending
<1> QED
  <2>1. CASE UNCHANGED vars
    BY <1>1, <2>1 DEF vars
  <2>2. CASE ReturnEmpty \/ TimedOut \/ Readable \/ Tick
               \/ \E s, t, r : Call(s, t, r) \/ Set(t, r)
    BY <1>1, <2>2 DEF ReturnEmpty, TimedOut, Readable, Tick, Call, Set
  <2> QED
    BY <1>2, <1>3, <1>4, <1>5, <1>6, <2>1, <2>2
       DEF Next, SyncCall, SetTimeout, SetRerties

(***************************************************************************)
(* Time passes between the first request of a call and its retries, and    *)
(* between a call and the next, or the call has had all its answers.       *)
(***************************************************************************)

\* A call keeps these from when it has begun until the next one begins.
LEMMA CallKept ==
  ASSUME [Next]_vars, ~\E s, t, r : Call(s, t, r)
  PROVE  UNCHANGED <<calls, serial, service, cut>>
<1>1. CASE SyncCall
  BY <1>1 DEF SyncCall, SendRequest, ReturnEmpty, TimedOut, Reconnect, Readable,
              Ignore, Accept, callVars
<1>2. CASE ConnectAgain \/ Tick \/ UNCHANGED vars
  BY <1>2 DEF ConnectAgain, Tick, vars, callVars
<1>3. ASSUME NEW q, NEW h, Set(q, h) \/ Answer(q, h) \/ Lose(q)
      PROVE  UNCHANGED <<calls, serial, service, cut>>
  BY <1>3 DEF Set, Answer, Lose, callVars
<1> QED
  BY <1>1, <1>2, <1>3 DEF Next, SetTimeout, SetRerties

LEMMA KnownStep ==
  ASSUME TypeOK, HasAnswer, EachOnce, PendingKnown, TimePasses, [Next]_vars
  PROVE  PendingKnown'
<1>1. CASE \E s, t, r : Call(s, t, r)
  <2>1. PICK s, t, r : Call(s, t, r)
    BY <1>1
  <2>2. /\ calls' = calls + 1 /\ serial' = now /\ pc = "idle"
        /\ ~cut' => ~cut
        /\ Pending' = Pending
    BY <2>1 DEF Call, Pending, settings
  <2>3. ASSUME NEW q \in Pending PROVE OfEarlierCall(q)'
    <3>1. q.call = calls \/ q.call < calls
      BY DEF PendingKnown, OfThisCall, OfEarlierCall
    <3>2. q.call < calls + 1
      BY <3>1, PendingType DEF TypeOK, Request
    <3>3. ~cut' => q.serial < now
      BY <2>2 DEF TimePasses
    <3> QED
      BY <2>2, <3>2, <3>3 DEF OfEarlierCall
  <2> QED
    BY <2>2, <2>3 DEF PendingKnown
<1>2. CASE SendRequest
  <2> PICK n : n = NewRequest
    OBVIOUS
  <2>1. /\ Pending' = Pending \cup {n}
        /\ UNCHANGED <<calls, serial, service, cut>>
        /\ attempts' = attempts + 1
    BY <1>2, PendingStep DEF SendRequest, callVars
  <2>2. OfThisCall(n)'
    BY <2>1 DEF OfThisCall, NewRequest, TypeOK
  <2>3. \A q : (OfThisCall(q) => OfThisCall(q)') /\ (OfEarlierCall(q) => OfEarlierCall(q)')
    BY <2>1 DEF OfThisCall, OfEarlierCall, TypeOK
  <2> QED
    BY <2>1, <2>2, <2>3 DEF PendingKnown
<1>3. CASE ~SendRequest /\ ~\E s, t, r : Call(s, t, r)
  <2>1. UNCHANGED <<calls, serial, service, cut>> /\ Pending' \subseteq Pending
    BY <1>3, CallKept, PendingStep
  <2>2. attempts' = attempts
    <3>1. CASE SyncCall
      BY <1>3, <3>1 DEF SyncCall, ReturnEmpty, TimedOut, Reconnect, Readable,
                        Ignore, Accept
    <3>2. CASE ConnectAgain \/ Tick \/ UNCHANGED vars
      BY <3>2 DEF ConnectAgain, Tick, vars
    <3>3. ASSUME NEW q, NEW h, Set(q, h) \/ Answer(q, h) \/ Lose(q)
          PROVE  attempts' = attempts
      BY <3>3 DEF Set, Answer, Lose
    <3> QED
      BY <1>3, <3>1, <3>2, <3>3 DEF Next, SetTimeout, SetRerties
  <2> QED
    BY <2>1, <2>2 DEF PendingKnown, OfThisCall, OfEarlierCall
<1> QED
  BY <1>1, <1>2, <1>3

\* The answer a call acts on: its own, and then nothing else of this tick.
LEMMA AcceptIsOwn ==
  ASSUME ClientInv, Accept, ~cut
  PROVE  /\ Head(socket).to.call = calls
         /\ \A q \in Pending' : q.serial < now
<1> DEFINE m == Head(socket).to
<1>1. /\ pc = "read" /\ socket # <<>> /\ socket \in Seq(Response)
      /\ socket' = Tail(socket) /\ network' = network
      /\ ~(serial > m.serial)
  BY DEF ClientInv, Accept, HasAnswer, Stale, TypeOK
<1>2. /\ m \in Tos(socket) /\ Tos(socket') = Tos(socket) \ {m}
  BY <1>1, TailTos DEF ClientInv, EachOnce
<1> HIDE DEF m
<1>3. m \in Pending /\ m \in Request /\ m \notin Pending' /\ Pending' \subseteq Pending
  BY <1>1, <1>2, PendingType DEF ClientInv, EachOnce, Pending
<1>4. serial \in Int /\ now \in Int /\ serial <= now /\ attempts \in Nat
  BY DEF ClientInv, TypeOK, TimePasses
<1>5. OfThisCall(m)
  BY <1>1, <1>3, <1>4 DEF ClientInv, PendingKnown, OfEarlierCall, Request
<1>6. ASSUME NEW q \in Pending'
      PROVE  q.serial < now
  <2>1. q \in Request /\ q # m /\ (OfThisCall(q) \/ OfEarlierCall(q))
    BY <1>3, PendingType DEF ClientInv, PendingKnown
  <2>2. CASE OfEarlierCall(q)
    BY <1>4, <2>1, <2>2 DEF OfEarlierCall, Request
  <2>3. CASE OfThisCall(q)
    <3>1. attempts # 1
      <4>1. attempts = 1 => q.attempt = m.attempt
        BY <1>5, <2>3 DEF OfThisCall
      <4>2. q.call = m.call /\ q.serial = m.serial /\ q.service = m.service
        BY <1>5, <2>3 DEF OfThisCall
      <4>3. q.attempt # m.attempt
        BY <1>3, <2>1, <4>2 DEF Request
      <4> QED
        BY <4>1, <4>3
    <3>2. attempts > 1
      BY <1>1, <1>4, <3>1 DEF ClientInv, TimePasses
    <3>3. serial < now
      BY <1>1, <3>2 DEF ClientInv, TimePasses, AttemptOver
    <3> QED
      BY <2>3, <3>3 DEF OfThisCall
  <2> QED
    BY <2>1, <2>2, <2>3
<1> QED
  BY <1>5, <1>6 DEF OfThisCall, m

LEMMA TimeStep ==
  ASSUME ClientInv, [Next]_vars
  PROVE  TimePasses'
<1> USE DEF callVars, settings
<1>1. /\ serial \in Int /\ now \in Int /\ attempts \in Nat /\ MaxTime \in Nat
      /\ timeout \in Nat /\ left \in Int /\ now <= MaxTime
      /\ TimePasses
  BY ClientBounds DEF ClientInv, TypeOK
<1>2. ~SendRequest => Pending' \subseteq Pending
  BY PendingStep DEF ClientInv
<1>3. \A q \in Pending : q.serial \in Int
  BY PendingType DEF ClientInv, Request
<1>4. CASE UNCHANGED vars
  <2>1. Pending' = Pending
    BY <1>4 DEF vars, Pending
  <2> QED
    BY <1>1, <1>4, <2>1 DEF vars, TimePasses, AttemptOver
<1>5. ASSUME NEW s, NEW t, NEW r, Call(s, t, r)
      PROVE  TimePasses'
  <2>1. ~cut' => Wait(timeout') # 0
    BY <1>5 DEF Call
  <2> QED
    BY <1>1, <1>5, <2>1 DEF Call, TimePasses, AttemptOver
<1>6. CASE SendRequest
  BY <1>1, <1>6 DEF SendRequest, TimePasses, AttemptOver
<1>7. CASE ReturnEmpty
  <2>1. attempts >= 1
    <3>1. args.rerties \in Int /\ args.retries \in Nat /\ args.rerties >= -1
      BY ArgsAssumption, SettingsAssumption DEF ClientInv, TypeOK
    <3> QED
      BY <1>1, <1>7, <3>1 DEF ReturnEmpty, ClientInv, AttemptsCounted, Allowed
  <2>2. ~cut => serial < now
    BY <1>1, <1>7, <2>1 DEF ReturnEmpty, TimePasses, AttemptOver
  <2>3. ~cut => \A q \in Pending : q.serial < now
    BY <1>1, <1>3, <2>2
       DEF ClientInv, PendingKnown, OfThisCall, OfEarlierCall
  <2>4. Pending' = Pending
    BY <1>7 DEF ReturnEmpty, Pending
  <2> QED
    BY <1>1, <1>7, <2>3, <2>4 DEF ReturnEmpty, TimePasses
<1>8. CASE TimedOut \/ Reconnect \/ Readable \/ Ignore
  BY <1>1, <1>8 DEF TimedOut, Reconnect, Readable, Ignore, TimePasses, AttemptOver
<1>9. CASE Accept
  <2>1. ~cut => \A q \in Pending' : q.serial < now
    BY <1>9, AcceptIsOwn
  <2>2. /\ pc = "read" /\ pc' \in {"idle", "aborted"}
        /\ UNCHANGED <<serial, now, attempts, cut>>
    BY <1>9 DEF Accept
  <2> QED
    BY <1>1, <2>1, <2>2 DEF TimePasses, AttemptOver
<1>10. CASE ConnectAgain \/ \E t, n : Set(t, n)
  BY <1>1, <1>2, <1>10 DEF ConnectAgain, Set, SendRequest, TimePasses, AttemptOver
<1>11. ASSUME NEW q, NEW h, Answer(q, h) \/ Lose(q)
       PROVE  TimePasses'
  <2>1. Pending' \subseteq Pending
    BY <1>11, <1>2 DEF Answer, Lose, SendRequest
  <2> QED
    BY <1>1, <1>11, <2>1 DEF Answer, Lose, TimePasses, AttemptOver
<1>12. CASE Tick
  <2>1. /\ now' >= now /\ now' \in Int
        /\ serial < MaxTime => serial < now'
        /\ UNCHANGED <<pc, serial, cut, attempts, timeout>>
        /\ UNCHANGED <<socket, network>>
    BY <1>1, <1>12 DEF Tick, TimePasses
  <2>2. \A q \in Pending : q.serial < now => q.serial < now'
    BY <1>1, <1>3, <2>1
  <2>3. Pending' = Pending
    BY <2>1 DEF Pending
  <2>4. left' = left \/ (left > 0 /\ left' = left - 1)
    BY <1>12 DEF Tick
  <2>5. pc \in {"wait", "read"} => serial < now'
    BY <1>1, <2>1 DEF TimePasses
  <2> QED
    BY <1>1, <2>1, <2>2, <2>3, <2>4, <2>5 DEF TimePasses, AttemptOver
<1> QED
  BY <1>4, <1>5, <1>6, <1>7, <1>8, <1>9, <1>10, <1>11, <1>12
     DEF Next, SyncCall, SetTimeout, SetRerties

LEMMA AcceptedStep ==
  ASSUME ClientInv, [Next]_vars
  PROVE  AcceptedOwn'
<1> USE DEF callVars, settings
<1>1. AcceptedOwn
  BY DEF ClientInv
<1>2. CASE Accept
  <2>1. ~cut => Head(socket).to.call = calls
    BY <1>2, AcceptIsOwn
  <2>2. /\ pc' \in {"idle", "aborted"}
        /\ accepted' = <<Head(socket)>>
        /\ UNCHANGED <<calls, cut>>
    BY <1>2 DEF Accept
  <2> QED
    BY <2>1, <2>2 DEF AcceptedOwn, OwnAnswerOnly
<1>3. CASE \E s, t, r : Call(s, t, r)
  BY <1>3 DEF Call, AcceptedOwn, OwnAnswerOnly
<1>4. CASE ~Accept /\ ~\E s, t, r : Call(s, t, r)
  <2>1. /\ UNCHANGED <<calls, cut, accepted>>
        /\ pc' \notin {"idle", "aborted"} => pc \notin {"idle", "aborted"}
    <3>1. CASE SyncCall
      BY <1>4, <3>1 DEF SyncCall, SendRequest, ReturnEmpty, TimedOut, Reconnect,
                        Readable, Ignore
    <3>2. CASE ConnectAgain \/ Tick \/ UNCHANGED vars
      BY <3>2 DEF ConnectAgain, Tick, vars
    <3>3. ASSUME NEW q, NEW h, Set(q, h) \/ Answer(q, h) \/ Lose(q)
          PROVE  UNCHANGED <<calls, cut, accepted, pc>>
      BY <3>3 DEF Set, Answer, Lose
    <3> QED
      BY <1>4, <3>1, <3>2, <3>3 DEF Next, SetTimeout, SetRerties
  <2> QED
    BY <1>1, <2>1 DEF AcceptedOwn, OwnAnswerOnly
<1> QED
  BY <1>2, <1>3, <1>4

LEMMA Invariance == Spec => []ClientInv
<1>1. ClientInv /\ [Next]_vars => ClientInv'
  BY TypeStep, HasAnswerStep, AttemptsStep, PendingStep, KnownStep, TimeStep,
     AcceptedStep DEF ClientInv
<1> QED
  BY <1>1, InitInv, PTL DEF Spec

-----------------------------------------------------------------------------
(***************************************************************************)
(* Every variable of the client and of its environment keeps its type: a   *)
(* wait that is cut to 32 bits is never longer than the timeout.           *)
(***************************************************************************)
THEOREM TypeCorrect == Spec => []TypeOK
BY Invariance, PTL DEF ClientInv

(***************************************************************************)
(* As long as no timeout is cut to nothing, a call acts on the answers to  *)
(* its own requests only, however many calls there are, however late their *)
(* answers come and in whatever order.                                     *)
(***************************************************************************)
THEOREM AnswersAreOwn == Spec => []OwnAnswerOnly
BY Invariance, PTL DEF ClientInv, AcceptedOwn

(***************************************************************************)
(* A call gives up only after the attempts its arguments ask for.          *)
(***************************************************************************)
THEOREM GivesUpLast == Spec => []EmptyAfterEveryAttempt
<1>1. ClientInv => EmptyAfterEveryAttempt
  BY DEF ClientInv, AttemptsCounted, Allowed, EmptyAfterEveryAttempt
<1> QED
  BY <1>1, Invariance, PTL
=============================================================================
