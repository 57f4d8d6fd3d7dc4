------------------------------ MODULE AsyncLog ------------------------------
(***************************************************************************)
(* The asynchronous log (src/message_bus/async_log.h,                      *)
(* src/message_bus/impl/async_log.cpp): threads that call log, and the     *)
(* thread of LogLoop, which writes one message of each topic per round to  *)
(* the topic's file.                                                       *)
(*                                                                         *)
(* topic_map_ is a std::map with a mutex, map_mx_.  log looks a topic up   *)
(* without the mutex and takes it only to add the topic.  An entry has a   *)
(* buffer with a mutex of its own.  A file is a sequence of bytes: the     *)
(* size of a message, cut to one byte, and then its body.                  *)
(***************************************************************************)
EXTENDS Naturals, Sequences

CONSTANTS
    Loggers,     \* the threads that call log
    NumTopics,   \* topics are numbered in the order of the map
    SizeOf,      \* SizeOf[n]: the size of the n-th message
    Byte,        \* the number of values of a byte: 256 in the code
    MayDestroy,  \* whether the process ends and destroys the log
    MaxLogs      \* bound: calls of log

ASSUME LogAssumption ==
    /\ NumTopics \in Nat /\ MaxLogs \in Nat
    /\ SizeOf \in [1..MaxLogs -> Nat] /\ Byte \in Nat \ {0}
    /\ MayDestroy \in BOOLEAN
    /\ {"nobody", "loop"} \cap Loggers = {}

Topics == 1..NumTopics
Message == 1..MaxLogs
Cell == [kind : {"size"}, value : 0..(Byte - 1)]
          \cup [kind : {"body"}, value : Message]
Owner == Loggers \cup {"nobody", "loop"}

VARIABLES
    logger,     \* logger[p]: where thread p is in log
    arg,        \* arg[p]: the topic and the message p logs
    begun,      \* the number of calls of log
    topic_map,  \* the topics in topic_map_
    opened,     \* the topics whose file could be opened
    buff,       \* buff[t]: the messages of t not yet written
    mx,         \* mx[t]: the owner of the mutex of t
    map_mx,     \* the owner of map_mx_
    to_add_topic,
    to_run,     \* to_run_
    worker,     \* where LogLoop is
    at,         \* the topic LogLoop has come to
    directory,  \* whether the directory of the files exists
    file,       \* file[t]: the bytes of the file of t
    logged,     \* logged[t]: all the messages of t, in the order of the buffer
    crashed     \* whether a data race on topic_map_ ended the process

callVars == <<arg, begun>>
mapVars == <<topic_map, opened, map_mx, to_add_topic>>
bufferVars == <<buff, mx, logged>>
loopVars == <<worker, at, directory, file>>
vars == <<logger, callVars, mapVars, bufferVars, to_run, loopVars, crashed>>

TypeOK ==
    /\ logger \in [Loggers -> {"idle", "find", "flag", "lock", "insert",
                               "unflag", "push", "pushing"}]
    /\ arg \in [Loggers -> [topic : Topics, message : Message] \cup {<<>>}]
    /\ begun \in 0..MaxLogs
    /\ topic_map \in SUBSET Topics /\ opened \in SUBSET topic_map
    /\ buff \in [Topics -> Seq(Message)]
    /\ mx \in [Topics -> Owner]
    /\ map_mx \in Owner
    /\ to_add_topic \in BOOLEAN /\ to_run \in BOOLEAN
    /\ worker \in {"start", "loop", "lock", "visit", "write", "done"}
    /\ at \in 1..(NumTopics + 1)
    /\ directory \in BOOLEAN
    /\ file \in [Topics -> Seq(Cell)]
    /\ logged \in [Topics -> Seq(Message)]
    /\ crashed \in BOOLEAN

Init ==
    /\ logger = [p \in Loggers |-> "idle"]
    /\ arg = [p \in Loggers |-> <<>>]
    /\ begun = 0
    /\ topic_map = {}
    /\ opened = {}
    /\ buff = [t \in Topics |-> <<>>]
    /\ mx = [t \in Topics |-> "nobody"]
    /\ map_mx = "nobody"
    /\ to_add_topic = FALSE
    /\ to_run = TRUE
    /\ worker = "start"
    /\ at = 1
    /\ directory \in BOOLEAN
    /\ file = [t \in Topics |-> <<>>]
    /\ logged = [t \in Topics |-> <<>>]
    /\ crashed = FALSE

Goes(p, from, to) == logger[p] = from /\ logger' = [logger EXCEPT ![p] = to]

-----------------------------------------------------------------------------
(***************************************************************************)
(* log.  The map is read without its mutex in "find" and written in        *)
(* "insert": two threads in these places race.                             *)
(***************************************************************************)
Log(p, t) ==
    /\ to_run
    /\ begun < MaxLogs
    /\ Goes(p, "idle", "find")
    /\ begun' = begun + 1
    /\ arg' = [arg EXCEPT ![p] = [topic |-> t, message |-> begun + 1]]
    /\ UNCHANGED <<mapVars, bufferVars, to_run, loopVars, crashed>>

Race == \E p, q \in Loggers : logger[p] = "find" /\ logger[q] = "insert"

\* The search without the mutex; it can miss a topic while it races.
Find(p) ==
    /\ \/ Goes(p, "find", "push") /\ arg[p].topic \in topic_map
       \/ Goes(p, "find", "flag") /\ (arg[p].topic \notin topic_map \/ Race)
    /\ UNCHANGED <<callVars, mapVars, bufferVars, to_run, loopVars, crashed>>

\* A data race is undefined: the process may end.
Crash ==
    /\ Race
    /\ crashed' = TRUE
    /\ UNCHANGED <<logger, callVars, mapVars, bufferVars, to_run, loopVars>>

\* LogLoop is asked to let go of the map.
Flag(p) ==
    /\ Goes(p, "flag", "lock")
    /\ to_add_topic' = TRUE
    /\ UNCHANGED <<callVars, topic_map, opened, map_mx, bufferVars, to_run,
                   loopVars, crashed>>

\* Mutant: the request to LogLoop is taken for the mutex.
LockMapTakesFlag(p) ==
    /\ Goes(p, "lock",
            IF arg[p].topic \in topic_map THEN "unflag" ELSE "insert")
    /\ map_mx' = p
    /\ UNCHANGED <<callVars, topic_map, opened, to_add_topic, bufferVars,
                   to_run, loopVars, crashed>>

\* The mutex of the map, and the second search.
LockMap(p) ==
    /\ map_mx = "nobody"
    /\ Goes(p, "lock",
            IF arg[p].topic \in topic_map THEN "unflag" ELSE "insert")
    /\ map_mx' = p
    /\ UNCHANGED <<callVars, topic_map, opened, to_add_topic, bufferVars,
                   to_run, loopVars, crashed>>

\* The file is opened for appending, which fails without the directory.
Insert(p) ==
    /\ Goes(p, "insert", "unflag")
    /\ topic_map' = topic_map \cup {arg[p].topic}
    /\ opened' = IF directory THEN opened \cup {arg[p].topic} ELSE opened
    /\ UNCHANGED <<callVars, map_mx, to_add_topic, bufferVars, to_run,
                   loopVars, crashed>>

\* Mutant: the flag stays up.
UnflagForgets(p) ==
    /\ Goes(p, "unflag", "push")
    /\ map_mx' = "nobody"
    /\ UNCHANGED <<callVars, topic_map, opened, to_add_topic, bufferVars,
                   to_run, loopVars, crashed>>

\* Mutant: the map stays locked.
UnflagKeepsMap(p) ==
    /\ Goes(p, "unflag", "push")
    /\ to_add_topic' = FALSE
    /\ UNCHANGED <<callVars, topic_map, opened, map_mx, bufferVars, to_run,
                   loopVars, crashed>>

Unflag(p) ==
    /\ Goes(p, "unflag", "push")
    /\ to_add_topic' = FALSE
    /\ map_mx' = "nobody"
    /\ UNCHANGED <<callVars, topic_map, opened, bufferVars, to_run, loopVars,
                   crashed>>

LockBuffer(p) ==
    /\ Goes(p, "push", "pushing")
    /\ mx[arg[p].topic] = "nobody"
    /\ mx' = [mx EXCEPT ![arg[p].topic] = p]
    /\ UNCHANGED <<callVars, mapVars, buff, logged, to_run, loopVars, crashed>>

\* push_back, then the mutex is free and log returns.
Push(p) ==
    LET t == arg[p].topic IN
    /\ Goes(p, "pushing", "idle")
    /\ buff' = [buff EXCEPT ![t] = Append(@, arg[p].message)]
    /\ logged' = [logged EXCEPT ![t] = Append(@, arg[p].message)]
    /\ mx' = [mx EXCEPT ![t] = "nobody"]
    /\ arg' = [arg EXCEPT ![p] = <<>>]
    /\ UNCHANGED <<begun, mapVars, to_run, loopVars, crashed>>

LogStep(p) == Find(p) \/ Flag(p) \/ LockMap(p) \/ Insert(p) \/ Unflag(p)
                \/ LockBuffer(p) \/ Push(p)

-----------------------------------------------------------------------------
(***************************************************************************)
(* The thread of LogLoop.                                                  *)
(***************************************************************************)

\* The directory is made by this thread, while others may log already.
MakeDirectory ==
    /\ worker = "start"
    /\ worker' = "loop"
    /\ directory' = TRUE
    /\ UNCHANGED <<logger, callVars, mapVars, bufferVars, to_run, at, file,
                   crashed>>

Loop ==
    /\ worker = "loop"
    /\ worker' = IF to_run THEN "lock" ELSE "done"
    /\ UNCHANGED <<logger, callVars, mapVars, bufferVars, to_run, at,
                   directory, file, crashed>>

LoopLocksMap ==
    /\ worker = "lock"
    /\ map_mx = "nobody"
    /\ map_mx' = "loop"
    /\ worker' = "visit"
    /\ at' = 1
    /\ UNCHANGED <<logger, callVars, topic_map, opened, to_add_topic,
                   bufferVars, to_run, directory, file, crashed>>

\* Mutant: the buffer's mutex need not be free.
MayWriteLocked == at \in topic_map /\ buff[at] # <<>>

\* try_lock succeeded and there is something to write.
MayWrite == at \in topic_map /\ mx[at] = "nobody" /\ buff[at] # <<>>

\* continue: the topic is absent, its mutex is taken, its buffer is empty.
SkipTopic ==
    /\ worker = "visit"
    /\ at <= NumTopics
    /\ ~MayWrite
    /\ at' = at + 1
    /\ UNCHANGED <<logger, callVars, mapVars, bufferVars, to_run, worker,
                   directory, file, crashed>>

StartWrite ==
    /\ worker = "visit"
    /\ at <= NumTopics
    /\ MayWrite
    /\ ~to_add_topic
    /\ mx' = [mx EXCEPT ![at] = "loop"]
    /\ worker' = "write"
    /\ UNCHANGED <<logger, callVars, mapVars, buff, logged, to_run, at,
                   directory, file, crashed>>

\* The end of the map, or a thread has asked for it: the mutex is free.
EndRound ==
    /\ worker = "visit"
    /\ at > NumTopics \/ (MayWrite /\ to_add_topic)
    /\ worker' = "loop"
    /\ map_mx' = "nobody"
    /\ UNCHANGED <<logger, callVars, topic_map, opened, to_add_topic,
                   bufferVars, to_run, at, directory, file, crashed>>

\* Mutant: the size is that of the frame, with its own byte.
FrameSizeOfAll(m) ==
    <<[kind |-> "size", value |-> (SizeOf[m] + 1) % Byte]>>
      \o [k \in 1..SizeOf[m] |-> [kind |-> "body", value |-> m]]

\* Mutant: the size is not cut to a byte.
FrameUncut(m) ==
    <<[kind |-> "size", value |-> SizeOf[m]]>>
      \o [k \in 1..SizeOf[m] |-> [kind |-> "body", value |-> m]]

\* put takes a char, whatever the size; write takes all of the body.
Frame(m) ==
    <<[kind |-> "size", value |-> SizeOf[m] % Byte]>>
      \o [k \in 1..SizeOf[m] |-> [kind |-> "body", value |-> m]]

\* Mutant: the message is written and left in the buffer.
SerializeKeepsFront ==
    /\ worker = "write"
    /\ file' = [file EXCEPT ![at] = IF at \in opened
                                    THEN @ \o Frame(Head(buff[at])) ELSE @]
    /\ mx' = [mx EXCEPT ![at] = "nobody"]
    /\ worker' = "visit"
    /\ at' = at + 1
    /\ UNCHANGED <<logger, callVars, mapVars, buff, logged, to_run, directory,
                   crashed>>

\* SerializeMessage; a file that is not open takes nothing and says nothing.
SerializeMessage ==
    /\ worker = "write"
    /\ file' = [file EXCEPT ![at] = IF at \in opened
                                    THEN @ \o Frame(Head(buff[at])) ELSE @]
    /\ buff' = [buff EXCEPT ![at] = Tail(@)]
    /\ mx' = [mx EXCEPT ![at] = "nobody"]
    /\ worker' = "visit"
    /\ at' = at + 1
    /\ UNCHANGED <<logger, callVars, mapVars, logged, to_run, directory,
                   crashed>>

LogLoop == MakeDirectory \/ Loop \/ LoopLocksMap \/ SkipTopic \/ StartWrite
             \/ EndRound \/ SerializeMessage

\* ~AsyncLog of the static instance: main has returned and nobody logs.
Destroy ==
    /\ MayDestroy
    /\ to_run
    /\ \A p \in Loggers : logger[p] = "idle"
    /\ to_run' = FALSE
    /\ UNCHANGED <<logger, callVars, mapVars, bufferVars, loopVars, crashed>>

Next ==
    /\ ~crashed
    /\ \/ \E p \in Loggers :
            LogStep(p) \/ \E t \in Topics : Log(p, t)
       \/ Crash \/ LogLoop \/ Destroy

(***************************************************************************)
(* Every thread runs when it can.  That is weak fairness: a thread that    *)
(* waits for map_mx_ may wait for ever, because LogLoop unlocks it and     *)
(* locks it again at once and a std::mutex promises no order.              *)
(***************************************************************************)
Fairness ==
    /\ WF_vars(~crashed /\ LogLoop)
    /\ \A p \in Loggers : WF_vars(~crashed /\ LogStep(p))

Spec == Init /\ [][Next]_vars
FairSpec == Spec /\ Fairness

-----------------------------------------------------------------------------
(***************************************************************************)
(* ParseMessage: a size, as many bytes as it says, and so on to the end of *)
(* the file.  A byte of a body taken for a size is garbage and ends it.    *)
(***************************************************************************)
ParseMessage(f) ==
    LET from[i \in 1..(Len(f) + 1)] ==
          IF i > Len(f) THEN <<>>
          ELSE IF f[i].kind # "size" \/ i + f[i].value > Len(f) THEN <<>>
          ELSE <<SubSeq(f, i + 1, i + f[i].value)>>
                 \o from[i + f[i].value + 1]
    IN  from[1]

-----------------------------------------------------------------------------
(***************************************************************************)
(* Correctness properties.                                                 *)
(***************************************************************************)

(***************************************************************************)
(* LogLoop never walks the map while a topic is being added to it          *)
(* (async_log.cpp:112, 86), and never takes from a buffer while a thread   *)
(* appends to it (async_log.cpp:50, 93).                                   *)
(***************************************************************************)
LoopIsAlone ==
    /\ worker \in {"visit", "write"} =>
         \A p \in Loggers : logger[p] # "insert"
    /\ worker = "write" =>
         \A p \in Loggers : ~(logger[p] = "pushing" /\ arg[p].topic = at)

(***************************************************************************)
(* What has been written of a topic and what is still in its buffer are    *)
(* together all that was logged, in order and without repetition, when its *)
(* file could be opened.                                                   *)
(***************************************************************************)
Frames(q) == LET upto[k \in 0..Len(q)] ==
                   IF k = 0 THEN <<>> ELSE upto[k - 1] \o Frame(q[k])
             IN  upto[Len(q)]

WrittenOnceInOrder ==
    \A t \in Topics :
      \E k \in 0..Len(logged[t]) :
        /\ file[t] = IF t \in opened THEN Frames(SubSeq(logged[t], 1, k))
                                     ELSE <<>>
        /\ buff[t] = SubSeq(logged[t], k + 1, Len(logged[t]))

(***************************************************************************)
(* ParseMessage reads back every message up to the first one whose size    *)
(* does not fit in a byte (async_log.cpp:46, 61), and nothing when the     *)
(* file could not be opened.                                               *)
(***************************************************************************)
Fits(q, k) == \A i \in 1..k : SizeOf[q[i]] < Byte

ReadBack ==
    \A t \in Topics : \A k \in 1..(Len(logged[t]) - Len(buff[t])) :
      t \in opened /\ Fits(logged[t], k) =>
        /\ Len(ParseMessage(file[t])) >= k
        /\ ParseMessage(file[t])[k] =
             [i \in 1..SizeOf[logged[t][k]] |->
                [kind |-> "body", value |-> logged[t][k]]]

(***************************************************************************)
(* A buffered message leaves the buffer, although LogLoop gives up its     *)
(* round whenever a thread wants to add a topic (async_log.cpp:125) and    *)
(* skips a topic that is locked (115), unless the process ends: the        *)
(* destructor does not write what is left.  The condition is that no       *)
(* thread waits for map_mx_ for ever: its flag can stay up meanwhile, and  *)
(* LogLoop then ends every round at the first message it could write.      *)
(***************************************************************************)
NobodyStarves == \A p \in Loggers : []<>(logger[p] # "lock")

EveryMessageWritten ==
    NobodyStarves =>
      \A t \in Topics :
        buff[t] # <<>> ~> buff[t] = <<>> \/ ~to_run \/ crashed

(***************************************************************************)
(* Whoever has map_mx_ or the mutex of a topic lets it go, whatever the    *)
(* other threads wait for: LogLoop only tries the mutexes of the topics    *)
(* while it has map_mx_ (async_log.cpp:114), and log has let map_mx_ go    *)
(* before it waits for one of them (91, 92).                               *)
(***************************************************************************)
MutexesAreReleased ==
    /\ map_mx # "nobody" ~> map_mx = "nobody" \/ crashed
    /\ \A t \in Topics : mx[t] # "nobody" ~> mx[t] = "nobody" \/ crashed
=============================================================================
