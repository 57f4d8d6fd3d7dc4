--------------------------- MODULE AsyncLog_proofs ---------------------------
(***************************************************************************)
(* Proofs about AsyncLog, for any threads, topics and sizes of messages.   *)
(***************************************************************************)
EXTENDS AsyncLog, TLAPS, SequenceTheorems, WellFoundedInduction

-----------------------------------------------------------------------------
(***************************************************************************)
(* What Frames computes.  It is a recursive function, so that it exists    *)
(* has to be shown, by induction on the length: a least length for which   *)
(* there is no such function has no predecessor.                           *)
(***************************************************************************)
IsUpTo(f, q, n) ==
  f = [k \in 0..n |-> IF k = 0 THEN <<>> ELSE f[k - 1] \o Frame(q[k])]

UpTo(q) == CHOOSE f : IsUpTo(f, q, Len(q))

LEMMA FramesIsUpTo == \A q : Frames(q) = UpTo(q)[Len(q)]
BY DEF Frames, UpTo, IsUpTo

\* A set of numbers that is not empty has a least one.
LEMMA LeastNumber ==
  ASSUME NEW T \in SUBSET Nat, T # {}
  PROVE  \E n \in T : \A m \in T : n <= m
<1>1. IsWellFoundedOn(OpToRel(<, Nat), Nat)
  BY NatLessThanWellFounded
<1>2. PICK n \in T : \A m \in T : ~(<<m, n>> \in OpToRel(<, Nat))
  BY <1>1, WFMin
<1>3. \A m \in T : ~(m < n)
  BY <1>2 DEF OpToRel
<1> QED
  BY <1>3

\* The function exists, and is the same for as long as the sequence is.
LEMMA UpToExists ==
  ASSUME NEW q, NEW n \in Nat
  PROVE  \E f : IsUpTo(f, q, n)
<1> DEFINE T == {k \in Nat : ~\E f : IsUpTo(f, q, k)}
<1> SUFFICES ASSUME T # {} PROVE FALSE
  BY Zenon
<1>1. PICK k \in T : \A m \in T : k <= m
  BY LeastNumber
<1>2. CASE k = 0
  <2> DEFINE f == [i \in 0..0 |-> <<>>]
  <2>1. f = [i \in 0..k |-> IF i = 0 THEN <<>> ELSE f[i - 1] \o Frame(q[i])]
    BY <1>2
  <2> QED
    BY <1>1, <2>1 DEF IsUpTo
<1>3. CASE k # 0
  <2>1. k \in Nat /\ k - 1 \in Nat /\ k - 1 \notin T
    BY <1>1, <1>3
  <2>2. PICK f : IsUpTo(f, q, k - 1)
    BY <2>1
  <2> DEFINE g == [i \in 0..k |-> IF i = k THEN f[k - 1] \o Frame(q[k]) ELSE f[i]]
  <2>3. \A i \in 0..(k - 1) :
          f[i] = IF i = 0 THEN <<>> ELSE f[i - 1] \o Frame(q[i])
    BY <2>2, Zenon DEF IsUpTo
  <2>4. \A i \in 0..k :
          g[i] = IF i = 0 THEN <<>> ELSE g[i - 1] \o Frame(q[i])
    <3> SUFFICES ASSUME NEW i \in 0..k
                 PROVE  g[i] = IF i = 0 THEN <<>> ELSE g[i - 1] \o Frame(q[i])
      OBVIOUS
    <3>1. CASE i = k
      <4>1. g[i - 1] = f[k - 1]
        BY <2>1, <3>1
      <4> QED
        BY <1>3, <2>1, <3>1, <4>1
    <3>2. CASE i # k
      <4>1. i \in 0..(k - 1) /\ g[i] = f[i]
        BY <2>1, <3>2
      <4>2. i # 0 => g[i - 1] = f[i - 1]
        BY <2>1, <4>1
      <4> QED
        BY <2>3, <4>1, <4>2
    <3> QED
      BY <3>1, <3>2
  <2>5. IsUpTo(g, q, k)
    <3>1. g = [i \in 0..k |-> g[i]]
      OBVIOUS
    <3> HIDE DEF g
    <3> QED
      BY <2>4, <3>1, Zenon DEF IsUpTo
  <2> QED
    BY <1>1, <2>5
<1> QED
  BY <1>2, <1>3

LEMMA UpToStep ==
  ASSUME NEW q, Len(q) \in Nat
  PROVE  /\ UpTo(q)[0] = <<>>
         /\ \A k \in 1..Len(q) : UpTo(q)[k] = UpTo(q)[k - 1] \o Frame(q[k])
<1> DEFINE f == UpTo(q)
<1>1. IsUpTo(f, q, Len(q))
  BY UpToExists DEF UpTo
<1>2. \A k \in 0..Len(q) :
        f[k] = IF k = 0 THEN <<>> ELSE f[k - 1] \o Frame(q[k])
  BY <1>1, Zenon DEF IsUpTo
<1> HIDE DEF f
<1>3. f[0] = <<>>
  <2>1. 0 \in 0..Len(q)
    OBVIOUS
  <2> QED
    BY <1>2, <2>1, Zenon
<1>4. ASSUME NEW k \in 1..Len(q)
      PROVE  f[k] = f[k - 1] \o Frame(q[k])
  <2>1. k \in 0..Len(q) /\ k # 0
    OBVIOUS
  <2> QED
    BY <1>2, <2>1, Zenon
<1> QED
  BY <1>3, <1>4 DEF f

LEMMA FramesEmpty == Frames(<<>>) = <<>>
<1>1. Len(<<>>) = 0
  OBVIOUS
<1> QED
  BY <1>1, UpToStep, FramesIsUpTo, Zenon

LEMMA FramesAppend ==
  ASSUME NEW S, NEW q \in Seq(S), NEW m \in S
  PROVE  Frames(Append(q, m)) = Frames(q) \o Frame(m)
<1> DEFINE r == Append(q, m)
           n == Len(q)
           f == UpTo(q)
           g == UpTo(r)
           T == {k \in Nat : k <= n /\ f[k] # g[k]}
<1>1. /\ n \in Nat /\ Len(r) = n + 1 /\ r[n + 1] = m
      /\ \A k \in 1..n : r[k] = q[k]
  OBVIOUS
<1> HIDE DEF r
<1>2. /\ f[0] = <<>> /\ g[0] = <<>>
      /\ \A k \in 1..n : f[k] = f[k - 1] \o Frame(q[k])
      /\ \A k \in 1..(n + 1) : g[k] = g[k - 1] \o Frame(r[k])
  <2>1. Len(r) \in Nat
    BY <1>1
  <2>2. g[0] = <<>> /\ \A k \in 1..Len(r) : g[k] = g[k - 1] \o Frame(r[k])
    BY <2>1, UpToStep, Zenon
  <2>3. f[0] = <<>> /\ \A k \in 1..n : f[k] = f[k - 1] \o Frame(q[k])
    BY <1>1, UpToStep, Zenon
  <2> QED
    BY <1>1, <2>2, <2>3, Zenon
<1>3. Frames(q) = f[n] /\ Frames(r) = g[n + 1]
  BY <1>1, FramesIsUpTo
<1> HIDE DEF n, f, g
<1>4. T = {}
  <2> SUFFICES ASSUME T # {} PROVE FALSE
    OBVIOUS
  <2>1. PICK k \in T : \A j \in T : k <= j
    BY LeastNumber
  <2>2. k \in Nat /\ k <= n /\ f[k] # g[k]
    BY <2>1
  <2>3. k # 0
    BY <1>2, <2>2
  <2>4. k - 1 \in Nat /\ k - 1 <= n /\ k - 1 \notin T
    BY <1>1, <2>1, <2>2, <2>3
  <2>5. f[k - 1] = g[k - 1]
    BY <2>4
  <2>6. k \in 1..n /\ k \in 1..(n + 1) /\ r[k] = q[k]
    BY <1>1, <2>2, <2>3
  <2>7. f[k] = f[k - 1] \o Frame(q[k]) /\ g[k] = g[k - 1] \o Frame(r[k])
    BY <1>2, <2>6
  <2> QED
    BY <2>2, <2>5, <2>6, <2>7
<1>5. f[n] = g[n]
  BY <1>1, <1>4
<1>6. g[n + 1] = g[n] \o Frame(m)
  <2>1. n + 1 \in 1..(n + 1) /\ (n + 1) - 1 = n
    BY <1>1
  <2> QED
    BY <1>1, <1>2, <2>1
<1> QED
  BY <1>3, <1>5, <1>6 DEF r

-----------------------------------------------------------------------------
(***************************************************************************)
(* What ParseMessage computes, from the end of the file to its beginning:  *)
(* a size is followed by its body, and the rest is parsed from behind it.  *)
(***************************************************************************)
Parsed(f, g, i) ==
  IF i > Len(f) THEN <<>>
  ELSE IF f[i].kind # "size" \/ i + f[i].value > Len(f) THEN <<>>
  ELSE <<SubSeq(f, i + 1, i + f[i].value)>> \o g[i + f[i].value + 1]

IsParse(g, f, k) == g = [i \in k..(Len(f) + 1) |-> Parsed(f, g, i)]

Parse(f) == CHOOSE g : IsParse(g, f, 1)

LEMMA ParseMessageIsParse == \A f : ParseMessage(f) = Parse(f)[1]
BY DEF ParseMessage, Parse, IsParse, Parsed

\* A cell that is a size is followed by the rest of the file.
LEMMA ParsedFromBehind ==
  ASSUME NEW f \in Seq(Cell), NEW i \in 1..(Len(f) + 1), NEW g, NEW h,
         \A j \in (i + 1)..(Len(f) + 1) : g[j] = h[j]
  PROVE  Parsed(f, g, i) = Parsed(f, h, i)
<1>1. CASE i <= Len(f) /\ f[i].kind = "size" /\ i + f[i].value <= Len(f)
  <2>1. f[i] \in Cell
    BY <1>1
  <2>2. f[i].value \in Nat
    BY <1>1, <2>1, LogAssumption DEF Cell, Message
  <2>3. i + f[i].value + 1 \in (i + 1)..(Len(f) + 1)
    BY <1>1, <2>2
  <2> QED
    BY <2>3 DEF Parsed
<1>2. CASE i <= Len(f) /\ f[i].kind = "size" /\ ~(i + f[i].value <= Len(f))
  <2>1. f[i] \in Cell
    BY <1>2
  <2>2. f[i].value \in Nat
    BY <1>2, <2>1, LogAssumption DEF Cell, Message
  <2> QED
    BY <1>2, <2>2 DEF Parsed
<1>3. CASE ~(i <= Len(f)) \/ f[i].kind # "size"
  BY <1>3 DEF Parsed
<1> QED
  BY <1>1, <1>2, <1>3

\* The function exists from every place of the file on.
LEMMA ParseExists ==
  ASSUME NEW f \in Seq(Cell), NEW n \in 0..Len(f)
  PROVE  \E g : IsParse(g, f, Len(f) + 1 - n)
<1> DEFINE N == Len(f)
           T == {m \in Nat : m <= N /\ ~\E g : IsParse(g, f, N + 1 - m)}
<1>0. n \in Nat /\ n <= N
  OBVIOUS
<1> SUFFICES ASSUME T # {} PROVE FALSE
  BY <1>0, Zenon
<1>1. PICK m \in T : \A j \in T : m <= j
  BY LeastNumber
<1>2. N \in Nat /\ m \in 0..N
  BY <1>1
<1> DEFINE k == N + 1 - m
<1>3. CASE m = 0
  <2> DEFINE g == [i \in k..(N + 1) |-> <<>>]
  <2>1. \A i \in k..(N + 1) : i > Len(f)
    BY <1>2, <1>3
  <2>2. g = [i \in k..(N + 1) |-> Parsed(f, g, i)]
    BY <2>1 DEF Parsed
  <2> QED
    BY <1>1, <2>2 DEF IsParse
<1>4. CASE m # 0
  <2>1. m - 1 \in Nat /\ m - 1 \notin T /\ N + 1 - (m - 1) = k + 1 /\ k \in 1..N
    BY <1>1, <1>2, <1>4
  <2>2. PICK h : IsParse(h, f, k + 1)
    BY <1>2, <2>1
  <2> DEFINE g == [i \in k..(N + 1) |->
                     IF i = k THEN Parsed(f, h, k) ELSE h[i]]
  <2>3. \A i \in (k + 1)..(N + 1) : g[i] = h[i]
    BY <1>2, <2>1
  <2>4. \A i \in (k + 1)..(N + 1) : h[i] = Parsed(f, h, i)
    BY <2>2, Zenon DEF IsParse
  <2>5. \A i \in k..(N + 1) : g[i] = Parsed(f, g, i)
    <3> SUFFICES ASSUME NEW i \in k..(N + 1) PROVE g[i] = Parsed(f, g, i)
      OBVIOUS
    <3>1. i \in 1..(N + 1) /\ \A j \in (i + 1)..(N + 1) : g[j] = h[j]
      <4>1. i \in 1..(N + 1)
        BY <1>2, <2>1
      <4>2. \A j \in (i + 1)..(N + 1) : j \in (k + 1)..(N + 1)
        BY <1>2, <2>1
      <4> HIDE DEF g
      <4> QED
        BY <2>3, <4>1, <4>2
    <3>2. Parsed(f, g, i) = Parsed(f, h, i)
      <4> HIDE DEF g
      <4> QED
        BY <3>1, ParsedFromBehind
    <3>3. g[i] = Parsed(f, h, i)
      <4>1. CASE i = k
        BY <4>1
      <4>2. CASE i # k
        <5>1. i \in (k + 1)..(N + 1)
          BY <1>2, <2>1, <4>2
        <5> QED
          BY <2>3, <2>4, <5>1, Zenon
      <4> QED
        BY <4>1, <4>2
    <3> QED
      BY <3>2, <3>3, Zenon
  <2>6. IsParse(g, f, k)
    <3>1. g = [i \in k..(N + 1) |-> g[i]]
      OBVIOUS
    <3> HIDE DEF g
    <3> QED
      BY <2>5, <3>1, Zenon DEF IsParse
  <2> QED
    BY <1>1, <2>6
<1> QED
  BY <1>3, <1>4

LEMMA ParseStep ==
  ASSUME NEW f \in Seq(Cell)
  PROVE  \A i \in 1..(Len(f) + 1) : Parse(f)[i] = Parsed(f, Parse(f), i)
<1>1. Len(f) \in 0..Len(f) /\ Len(f) + 1 - Len(f) = 1
  OBVIOUS
<1>2. \E g : IsParse(g, f, 1)
  BY <1>1, ParseExists
<1>3. IsParse(Parse(f), f, 1)
  BY <1>2, Zenon DEF Parse
<1> QED
  BY <1>3, Zenon DEF IsParse

LEMMA ParseType ==
  ASSUME NEW f \in Seq(Cell), NEW n \in 1..(Len(f) + 1)
  PROVE  Parse(f)[n] \in Seq(Seq(Cell))
<1> DEFINE N == Len(f)
           g == Parse(f)
           T == {m \in Nat : m <= N /\ g[N + 1 - m] \notin Seq(Seq(Cell))}
<1>1. \A i \in 1..(N + 1) : g[i] = Parsed(f, g, i)
  BY ParseStep
<1> HIDE DEF g
<1>2. T = {}
  <2> SUFFICES ASSUME T # {} PROVE FALSE
    OBVIOUS
  <2>1. PICK m \in T : \A j \in T : m <= j
    BY LeastNumber
  <2>2. PICK k \in 1..(N + 1) : k = N + 1 - m
    BY <2>1
  <2>3. g[k] = Parsed(f, g, k) /\ g[k] \notin Seq(Seq(Cell))
    BY <1>1, <2>1, <2>2
  <2>4. k <= N /\ f[k].kind = "size" /\ ~(k + f[k].value > N)
    BY <2>3 DEF Parsed
  <2>5. f[k] \in Cell
    BY <2>4
  <2>6. PICK v \in Nat : v = f[k].value
    BY <2>4, <2>5, LogAssumption DEF Cell, Message
  <2>7. k + v <= N /\ k + v + 1 \in (k + 1)..(N + 1)
    BY SMTT(40), <2>4, <2>6
  <2> DEFINE j == k + v + 1
  <2>8. g[j] \in Seq(Seq(Cell))
    <3>1. N + 1 - j \in Nat /\ N + 1 - j <= N /\ N + 1 - j < m
      BY <2>1, <2>2, <2>7
    <3>2. N + 1 - j \notin T /\ N + 1 - (N + 1 - j) = j
      BY <2>1, <3>1
    <3> QED
      BY <3>1, <3>2
  <2>9. <<SubSeq(f, k + 1, k + v)>> \in Seq(Seq(Cell))
    <3>1. SubSeq(f, k + 1, k + v) \in Seq(Cell)
      <4>1. \A i \in (k + 1)..(k + v) : f[i] \in Cell
        BY <2>7
      <4> QED
        BY <4>1, SubSeqProperties
    <3> QED
      BY <3>1
  <2>10. g[k] = <<SubSeq(f, k + 1, k + v)>> \o g[j]
    <3>1. Parsed(f, g, k) =
            <<SubSeq(f, k + 1, k + f[k].value)>> \o g[k + f[k].value + 1]
      <4>1. ~(k > N)
        BY <2>4
      <4> QED
        BY <2>4, <4>1, Zenon DEF Parsed
    <3> QED
      BY <2>3, <2>6, <3>1
  <2> QED
    BY <2>3, <2>8, <2>9, <2>10
<1>3. N + 1 - n \in Nat /\ N + 1 - n <= N /\ N + 1 - (N + 1 - n) = n
  OBVIOUS
<1> QED
  BY <1>2, <1>3 DEF g

-----------------------------------------------------------------------------
(***************************************************************************)
(* The inductive invariant.  Who holds which mutex is known from where the *)
(* threads are; a thread in log has its arguments; LogLoop writes to a     *)
(* topic that is in the map and has something in its buffer; a topic is    *)
(* added once, and nothing is taken from its buffer before.                *)
(***************************************************************************)
MapOwner ==
  /\ map_mx = "loop" <=> worker \in {"visit", "write"}
  /\ \A p \in Loggers : map_mx = p <=> logger[p] \in {"insert", "unflag"}

BufferOwner ==
  \A t \in Topics :
    /\ mx[t] = "loop" <=> worker = "write" /\ at = t
    /\ \A p \in Loggers :
         mx[t] = p <=> logger[p] = "pushing" /\ arg[p].topic = t

Arguments ==
  \A p \in Loggers :
    logger[p] # "idle" => arg[p] \in [topic : Topics, message : Message]

AddedOnce ==
  /\ worker = "write" => at \in topic_map /\ buff[at] # <<>>
  /\ \A p \in Loggers : logger[p] = "insert" => arg[p].topic \notin topic_map

InOrder(t) ==
  LET k == Len(logged[t]) - Len(buff[t]) IN
  /\ k \in Nat
  /\ file[t] = IF t \in opened THEN Frames(SubSeq(logged[t], 1, k)) ELSE <<>>
  /\ buff[t] = SubSeq(logged[t], k + 1, Len(logged[t]))
  /\ t \notin topic_map => k = 0

LogInv ==
  /\ TypeOK /\ MapOwner /\ BufferOwner /\ Arguments /\ AddedOnce
  /\ \A t \in Topics : InOrder(t)

-----------------------------------------------------------------------------
\* The bytes of a message are bytes.
LEMMA FrameType ==
  ASSUME NEW m \in Message
  PROVE  Frame(m) \in Seq(Cell)
<1> DEFINE size == [kind |-> "size", value |-> SizeOf[m] % Byte]
           body == [k \in 1..SizeOf[m] |-> [kind |-> "body", value |-> m]]
<1>1. SizeOf[m] \in Nat /\ Byte \in Nat \ {0}
  BY LogAssumption DEF Message
<1>2. SizeOf[m] % Byte \in 0..(Byte - 1)
  BY <1>1
<1>3. size \in Cell /\ [kind |-> "body", value |-> m] \in Cell
  BY <1>2 DEF Cell
<1>4. <<size>> \in Seq(Cell)
  BY <1>3
<1>5. body \in Seq(Cell)
  BY <1>1, <1>3, IsASeq
<1> HIDE DEF size, body
<1>6. <<size>> \o body \in Seq(Cell)
  BY <1>4, <1>5
<1> QED
  BY <1>6 DEF Frame, size, body

LEMMA InitInv == Init => LogInv
<1> SUFFICES ASSUME Init PROVE LogInv
  OBVIOUS
<1> USE LogAssumption DEF Init
<1>1. /\ directory \in BOOLEAN /\ to_add_topic \in BOOLEAN /\ to_run \in BOOLEAN
      /\ crashed \in BOOLEAN
  BY Zenon
<1>2. /\ logger \in [Loggers -> {"idle", "find", "flag", "lock", "insert",
                                 "unflag", "push", "pushing"}]
      /\ arg \in [Loggers -> [topic : Topics, message : Message] \cup {<<>>}]
      /\ buff \in [Topics -> Seq(Message)] /\ mx \in [Topics -> Owner]
      /\ file \in [Topics -> Seq(Cell)] /\ logged \in [Topics -> Seq(Message)]
  BY DEF Owner
<1>3. TypeOK
  BY <1>1, <1>2 DEF TypeOK, Owner
<1>4. MapOwner /\ BufferOwner /\ Arguments /\ AddedOnce
  BY DEF MapOwner, BufferOwner, Arguments, AddedOnce
<1>5. ASSUME NEW t \in Topics PROVE InOrder(t)
  <2>1. logged[t] = <<>> /\ buff[t] = <<>> /\ file[t] = <<>>
    OBVIOUS
  <2>2. /\ Len(<<>>) - Len(<<>>) = 0 /\ Len(<<>>) = 0
        /\ SubSeq(<<>>, 1, 0) = <<>>
    OBVIOUS
  <2> QED
    BY <2>1, <2>2, FramesEmpty DEF InOrder
<1> QED
  BY <1>3, <1>4, <1>5 DEF LogInv

(***************************************************************************)
(* Type correctness.                                                       *)
(***************************************************************************)
LEMMA GoesType ==
  ASSUME TypeOK, NEW p \in Loggers, NEW from,
         NEW to \in {"idle", "find", "flag", "lock", "insert", "unflag", "push",
                     "pushing"},
         Goes(p, from, to)
  PROVE  /\ logger' \in [Loggers -> {"idle", "find", "flag", "lock", "insert",
                                     "unflag", "push", "pushing"}]
         /\ logger[p] = from /\ logger'[p] = to
         /\ \A q \in Loggers : q # p => logger'[q] = logger[q]
BY DEF Goes, TypeOK

LEMMA LoggerType ==
  ASSUME LogInv, NEW p \in Loggers, NEW t \in Topics, LogStep(p) \/ Log(p, t)
  PROVE  TypeOK'
<1> USE DEF callVars, mapVars, bufferVars, loopVars
<1>1. TypeOK /\ Arguments
  BY DEF LogInv
<1>2. CASE Log(p, t)
  <2>1. begun' \in 0..MaxLogs /\ begun + 1 \in Message
    BY <1>1, <1>2, LogAssumption DEF Log, TypeOK, Message
  <2>2. arg' \in [Loggers -> [topic : Topics, message : Message] \cup {<<>>}]
    BY <1>1, <1>2, <2>1 DEF Log, TypeOK
  <2>3. logger' \in [Loggers -> {"idle", "find", "flag", "lock", "insert",
                                 "unflag", "push", "pushing"}]
    BY <1>1, <1>2, GoesType DEF Log
  <2> QED
    BY <1>1, <1>2, <2>1, <2>2, <2>3 DEF Log, TypeOK
<1>3. CASE Find(p)
  <2>1. logger' \in [Loggers -> {"idle", "find", "flag", "lock", "insert",
                                 "unflag", "push", "pushing"}]
    BY <1>1, <1>3, GoesType DEF Find
  <2> QED
    BY <1>1, <1>3, <2>1 DEF Find, TypeOK
<1>4. CASE Flag(p)
  <2>1. logger' \in [Loggers -> {"idle", "find", "flag", "lock", "insert",
                                 "unflag", "push", "pushing"}]
    BY <1>1, <1>4, GoesType DEF Flag
  <2>2. to_add_topic' \in BOOLEAN
    BY <1>4, Zenon DEF Flag
  <2> QED
    BY <1>1, <1>4, <2>1, <2>2 DEF Flag, TypeOK
<1>5. CASE LockMap(p)
  <2>1. logger' \in [Loggers -> {"idle", "find", "flag", "lock", "insert",
                                 "unflag", "push", "pushing"}]
    BY <1>1, <1>5, GoesType DEF LockMap
  <2> QED
    BY <1>1, <1>5, <2>1 DEF LockMap, TypeOK, Owner
<1>6. CASE Insert(p)
  <2>1. /\ logger' \in [Loggers -> {"idle", "find", "flag", "lock", "insert",
                                    "unflag", "push", "pushing"}]
        /\ arg[p].topic \in Topics
    BY <1>1, <1>6, GoesType DEF Insert, Arguments
  <2>2. topic_map' \in SUBSET Topics /\ opened' \in SUBSET topic_map'
    BY <1>1, <1>6, <2>1 DEF Insert, TypeOK
  <2> QED
    BY <1>1, <1>6, <2>1, <2>2 DEF Insert, TypeOK
<1>7. CASE Unflag(p)
  <2>1. logger' \in [Loggers -> {"idle", "find", "flag", "lock", "insert",
                                 "unflag", "push", "pushing"}]
    BY <1>1, <1>7, GoesType DEF Unflag
  <2>2. to_add_topic' \in BOOLEAN
    BY <1>7, Zenon DEF Unflag
  <2> QED
    BY <1>1, <1>7, <2>1, <2>2 DEF Unflag, TypeOK, Owner
<1>8. CASE LockBuffer(p)
  <2>1. logger' \in [Loggers -> {"idle", "find", "flag", "lock", "insert",
                                 "unflag", "push", "pushing"}]
    BY <1>1, <1>8, GoesType DEF LockBuffer
  <2>2. mx' \in [Topics -> Owner]
    BY <1>1, <1>8 DEF LockBuffer, TypeOK, Owner
  <2> QED
    BY <1>1, <1>8, <2>1, <2>2 DEF LockBuffer, TypeOK
<1>9. CASE Push(p)
  <2>1. logger' \in [Loggers -> {"idle", "find", "flag", "lock", "insert",
                                 "unflag", "push", "pushing"}]
    BY <1>1, <1>9, GoesType DEF Push
  <2>2. arg[p].message \in Message
    BY <1>1, <1>9, GoesType DEF Push, Arguments
  <2>3. /\ buff' \in [Topics -> Seq(Message)]
        /\ logged' \in [Topics -> Seq(Message)]
    <3>1. PICK d : d = arg[p].topic
      OBVIOUS
    <3>2. PICK m \in Message : m = arg[p].message
      BY <2>2
    <3>3. /\ buff' = [buff EXCEPT ![d] = Append(buff[d], m)]
          /\ logged' = [logged EXCEPT ![d] = Append(logged[d], m)]
      BY <1>9, <3>1, <3>2 DEF Push
    <3>4. /\ buff \in [Topics -> Seq(Message)] /\ logged \in [Topics -> Seq(Message)]
      BY <1>1 DEF TypeOK
    <3> QED
      BY <3>3, <3>4, AppendProperties
  <2>4. /\ mx' \in [Topics -> Owner]
        /\ arg' \in [Loggers -> [topic : Topics, message : Message] \cup {<<>>}]
    BY <1>1, <1>9 DEF Push, TypeOK, Owner
  <2> QED
    BY <1>1, <1>9, <2>1, <2>3, <2>4 DEF Push, TypeOK
<1> QED
  BY <1>2, <1>3, <1>4, <1>5, <1>6, <1>7, <1>8, <1>9 DEF LogStep

LEMMA LoopType ==
  ASSUME LogInv, LogLoop
  PROVE  TypeOK'
<1> USE DEF callVars, mapVars, bufferVars
<1>1. TypeOK /\ AddedOnce /\ NumTopics \in Nat
  BY LogAssumption DEF LogInv
<1>2. CASE MakeDirectory
  <2>1. directory' \in BOOLEAN
    BY <1>2, Zenon DEF MakeDirectory
  <2> QED
    BY <1>1, <1>2, <2>1 DEF MakeDirectory, TypeOK
<1>3. CASE Loop \/ LoopLocksMap \/ SkipTopic
  BY <1>1, <1>3 DEF Loop, LoopLocksMap, SkipTopic, TypeOK, Owner
<1>4. CASE StartWrite
  <2>1. mx' \in [Topics -> Owner]
    BY <1>1, <1>4 DEF StartWrite, TypeOK, Owner
  <2> QED
    BY <1>1, <1>4, <2>1 DEF StartWrite, TypeOK
<1>5. CASE EndRound
  BY <1>1, <1>5 DEF EndRound, TypeOK, Owner
<1>6. CASE SerializeMessage
  <2>1. /\ at \in Topics /\ buff[at] # <<>> /\ buff[at] \in Seq(Message)
    BY <1>1, <1>6 DEF SerializeMessage, AddedOnce, TypeOK
  <2>2. Head(buff[at]) \in Message /\ Tail(buff[at]) \in Seq(Message)
    BY <2>1, HeadTailProperties, Zenon
  <2>3. Frame(Head(buff[at])) \in Seq(Cell)
    BY <2>2, FrameType
  <2>4. file' \in [Topics -> Seq(Cell)]
    <3>1. file[at] \in Seq(Cell) /\ file[at] \o Frame(Head(buff[at])) \in Seq(Cell)
      BY <1>1, <2>1, <2>3, ConcatProperties DEF TypeOK
    <3> QED
      BY <1>1, <1>6, <3>1, Zenon DEF SerializeMessage, TypeOK
  <2>5. buff' \in [Topics -> Seq(Message)] /\ mx' \in [Topics -> Owner]
    BY <1>1, <1>6, <2>2 DEF SerializeMessage, TypeOK, Owner
  <2>6. at' \in 1..(NumTopics + 1)
    BY <1>1, <1>6, <2>1 DEF SerializeMessage, Topics
  <2> QED
    BY <1>1, <1>6, <2>4, <2>5, <2>6 DEF SerializeMessage, TypeOK
<1> QED
  BY <1>2, <1>3, <1>4, <1>5, <1>6 DEF LogLoop

(***************************************************************************)
(* The owners of the mutexes, and the other parts but the last.            *)
(***************************************************************************)
LEMMA LoggerOwners ==
  ASSUME LogInv, NEW p \in Loggers, NEW t \in Topics, LogStep(p) \/ Log(p, t)
  PROVE  MapOwner' /\ BufferOwner' /\ Arguments' /\ AddedOnce'
<1> USE DEF callVars, mapVars, bufferVars, loopVars
<1>1. TypeOK /\ MapOwner /\ BufferOwner /\ Arguments /\ AddedOnce
  BY DEF LogInv
<1>2. /\ p # "nobody" /\ p # "loop"
      /\ "nobody" \notin Loggers /\ "loop" \notin Loggers
  BY LogAssumption
<1>3. arg \in [Loggers -> [topic : Topics, message : Message] \cup {<<>>}]
  BY <1>1 DEF TypeOK
<1>4. CASE Log(p, t)
  <2>1. /\ logger[p] = "idle" /\ logger'[p] = "find"
        /\ \A q \in Loggers : q # p => logger'[q] = logger[q]
    BY <1>1, <1>4, GoesType DEF Log
  <2>2. begun + 1 \in Message
    BY <1>1, <1>4, LogAssumption DEF Log, TypeOK, Message
  <2>3. /\ arg'[p] \in [topic : Topics, message : Message]
        /\ \A q \in Loggers : q # p => arg'[q] = arg[q]
        /\ UNCHANGED <<topic_map, map_mx, mx, buff, worker, at>>
    BY <1>3, <1>4, <2>2 DEF Log
  <2> QED
    BY <1>1, <2>1, <2>3 DEF MapOwner, BufferOwner, Arguments, AddedOnce
<1>5. CASE Find(p) \/ Flag(p)
  <2>1. /\ logger[p] \in {"find", "flag"} /\ logger'[p] \in {"push", "flag", "lock"}
        /\ \A q \in Loggers : q # p => logger'[q] = logger[q]
    BY <1>1, <1>5, GoesType DEF Find, Flag
  <2>2. UNCHANGED <<arg, topic_map, map_mx, mx, buff, worker, at>>
    BY <1>5 DEF Find, Flag
  <2> QED
    BY <1>1, <2>1, <2>2 DEF MapOwner, BufferOwner, Arguments, AddedOnce
<1>6. CASE LockMap(p)
  <2>1. /\ logger[p] = "lock" /\ logger'[p] \in {"insert", "unflag"}
        /\ logger'[p] = "insert" => arg[p].topic \notin topic_map
        /\ \A q \in Loggers : q # p => logger'[q] = logger[q]
    BY <1>1, <1>6, GoesType DEF LockMap
  <2>2. /\ map_mx = "nobody" /\ map_mx' = p
        /\ UNCHANGED <<arg, topic_map, mx, buff, worker, at>>
    BY <1>6 DEF LockMap
  <2> QED
    BY <1>1, <1>2, <2>1, <2>2 DEF MapOwner, BufferOwner, Arguments, AddedOnce
<1>7. CASE Insert(p)
  <2>1. /\ logger[p] = "insert" /\ logger'[p] = "unflag"
        /\ \A q \in Loggers : q # p => logger'[q] = logger[q]
    BY <1>1, <1>7, GoesType DEF Insert
  <2>2. /\ topic_map' = topic_map \cup {arg[p].topic}
        /\ UNCHANGED <<arg, map_mx, mx, buff, worker, at>>
    BY <1>7 DEF Insert
  <2>3. \A q \in Loggers : q # p => logger[q] # "insert"
    BY <1>1, <2>1 DEF MapOwner
  <2> QED
    BY <1>1, <2>1, <2>2, <2>3 DEF MapOwner, BufferOwner, Arguments, AddedOnce
<1>8. CASE Unflag(p)
  <2>1. /\ logger[p] = "unflag" /\ logger'[p] = "push"
        /\ \A q \in Loggers : q # p => logger'[q] = logger[q]
    BY <1>1, <1>8, GoesType DEF Unflag
  <2>2. /\ map_mx' = "nobody"
        /\ UNCHANGED <<arg, topic_map, mx, buff, worker, at>>
    BY <1>8 DEF Unflag
  <2>3. /\ worker \notin {"visit", "write"}
        /\ \A q \in Loggers : q # p => logger[q] \notin {"insert", "unflag"}
    BY <1>1, <1>2, <2>1 DEF MapOwner
  <2> QED
    BY <1>1, <1>2, <2>1, <2>2, <2>3 DEF MapOwner, BufferOwner, Arguments, AddedOnce
<1>9. CASE LockBuffer(p)
  <2>1. /\ logger[p] = "push" /\ logger'[p] = "pushing"
        /\ \A q \in Loggers : q # p => logger'[q] = logger[q]
    BY <1>1, <1>9, GoesType DEF LockBuffer
  <2>2. arg[p].topic \in Topics
    BY <1>1, <2>1 DEF Arguments
  <2>3. PICK d \in Topics : d = arg[p].topic
    BY <2>2
  <2>4. /\ mx[d] = "nobody" /\ mx'[d] = p
        /\ \A u \in Topics : u # d => mx'[u] = mx[u]
        /\ UNCHANGED <<arg, topic_map, map_mx, buff, worker, at>>
    BY <1>1, <1>9, <2>3 DEF LockBuffer, TypeOK
  <2>5. BufferOwner'
    BY <1>1, <1>2, <2>1, <2>3, <2>4 DEF BufferOwner
  <2> QED
    BY <1>1, <2>1, <2>4, <2>5 DEF MapOwner, Arguments, AddedOnce
<1>10. CASE Push(p)
  <2>1. /\ logger[p] = "pushing" /\ logger'[p] = "idle"
        /\ \A q \in Loggers : q # p => logger'[q] = logger[q]
    BY <1>1, <1>10, GoesType DEF Push
  <2>2. PICK d \in Topics : d = arg[p].topic
    BY <1>1, <2>1 DEF Arguments
  <2>3. /\ mx'[d] = "nobody"
        /\ \A u \in Topics : u # d => mx'[u] = mx[u]
        /\ \A q \in Loggers : q # p => arg'[q] = arg[q]
        /\ UNCHANGED <<topic_map, map_mx, worker, at>>
    BY <1>1, <1>3, <1>10, <2>2 DEF Push, TypeOK
  <2>4. mx[d] = p
    BY <1>1, <2>1, <2>2 DEF BufferOwner
  <2>5. BufferOwner'
    BY <1>1, <1>2, <2>1, <2>2, <2>3, <2>4 DEF BufferOwner
  <2>6. \A u \in Topics : buff[u] # <<>> => buff'[u] # <<>>
    <3>1. \A u \in Topics : buff[u] \in Seq(Message)
      BY <1>1 DEF TypeOK
    <3>2. PICK m \in Message : m = arg[p].message
      BY <1>1, <2>1 DEF Arguments
    <3>3. /\ buff'[d] = Append(buff[d], m)
          /\ \A u \in Topics : u # d => buff'[u] = buff[u]
      BY <1>1, <1>10, <2>2, <3>2 DEF Push, TypeOK
    <3>4. buff'[d] # <<>>
      BY <3>1, <3>2, <3>3, AppendProperties
    <3> QED
      BY <3>3, <3>4
  <2>7. worker = "write" => at \in Topics
    BY <1>1 DEF AddedOnce, TypeOK
  <2>8. MapOwner' /\ Arguments'
    BY <1>1, <2>1, <2>3 DEF MapOwner, Arguments
  <2>9. AddedOnce'
    BY <1>1, <2>1, <2>3, <2>6, <2>7 DEF AddedOnce
  <2> QED
    BY <2>5, <2>8, <2>9
<1> QED
  BY <1>4, <1>5, <1>6, <1>7, <1>8, <1>9, <1>10 DEF LogStep

LEMMA LoopOwners ==
  ASSUME LogInv, LogLoop
  PROVE  MapOwner' /\ BufferOwner' /\ Arguments' /\ AddedOnce'
<1> USE DEF callVars, mapVars, bufferVars
<1>1. TypeOK /\ MapOwner /\ BufferOwner /\ Arguments /\ AddedOnce
  BY DEF LogInv
<1>2. "nobody" \notin Loggers /\ "loop" \notin Loggers
  BY LogAssumption
<1>3. UNCHANGED <<logger, arg, topic_map>>
  BY DEF LogLoop, MakeDirectory, Loop, LoopLocksMap, SkipTopic, StartWrite,
         EndRound, SerializeMessage
<1>4. Arguments'
  BY <1>1, <1>3 DEF Arguments
<1>5. CASE MakeDirectory \/ Loop
  BY <1>1, <1>3, <1>4, <1>5 DEF MakeDirectory, Loop, MapOwner, BufferOwner, AddedOnce
<1>6. CASE LoopLocksMap \/ EndRound
  BY <1>1, <1>2, <1>3, <1>4, <1>6
     DEF LoopLocksMap, EndRound, MapOwner, BufferOwner, AddedOnce
<1>7. CASE SkipTopic
  BY <1>1, <1>3, <1>4, <1>7 DEF SkipTopic, MapOwner, BufferOwner, AddedOnce
<1>8. CASE StartWrite
  <2>1. /\ worker = "visit" /\ worker' = "write"
        /\ mx[at] = "nobody" /\ mx' = [mx EXCEPT ![at] = "loop"]
        /\ at \in topic_map /\ buff[at] # <<>>
        /\ UNCHANGED <<map_mx, at, buff>>
    BY <1>8 DEF StartWrite, MayWrite
  <2>2. /\ at \in Topics /\ mx'[at] = "loop"
        /\ \A u \in Topics : u # at => mx'[u] = mx[u]
    BY <1>1, <2>1 DEF TypeOK
  <2>3. BufferOwner'
    BY <1>1, <1>2, <1>3, <2>1, <2>2 DEF BufferOwner
  <2> QED
    BY <1>1, <1>3, <1>4, <2>1, <2>3 DEF MapOwner, AddedOnce
<1>9. CASE SerializeMessage
  <2>1. /\ worker = "write" /\ worker' = "visit"
        /\ mx' = [mx EXCEPT ![at] = "nobody"]
        /\ map_mx' = map_mx
    BY <1>9 DEF SerializeMessage
  <2>2. /\ at \in Topics /\ mx'[at] = "nobody" /\ mx[at] = "loop"
        /\ \A u \in Topics : u # at => mx'[u] = mx[u]
    BY <1>1, <2>1 DEF TypeOK, AddedOnce, BufferOwner
  <2>3. BufferOwner'
    BY <1>1, <1>2, <1>3, <2>1, <2>2 DEF BufferOwner
  <2> QED
    BY <1>1, <1>3, <1>4, <2>1, <2>3 DEF MapOwner, AddedOnce
<1> QED
  BY <1>5, <1>6, <1>7, <1>8, <1>9 DEF LogLoop

(***************************************************************************)
(* The order.  k messages of the topic have been written, and the buffer   *)
(* holds the others.                                                       *)
(***************************************************************************)

\* Appending a message changes no part of the sequence.
LEMMA PartOfAppend ==
  ASSUME NEW S, NEW q \in Seq(S), NEW m \in S,
         NEW i \in 1..(Len(q) + 1), NEW j \in 0..Len(q)
  PROVE  SubSeq(Append(q, m), i, j) = SubSeq(q, i, j)
<1>1. Len(q) \in Nat /\ i \in Int /\ j \in Int
  OBVIOUS
<1>2. CASE j < i
  BY <1>1, <1>2, SubSeqEmpty
<1>3. CASE i <= j
  <2>1. i \in 1..Len(q) /\ j \in 1..Len(q)
    BY <1>1, <1>3
  <2>2. Append(q, m) = q \o <<m>> /\ <<m>> \in Seq(S)
    BY AppendIsConcat
  <2> QED
    BY <2>1, <2>2, SubSeqOfConcat1
<1> QED
  BY <1>1, <1>2, <1>3

\* The last part of a sequence to which a message is appended.
LEMMA RestOfAppend ==
  ASSUME NEW S, NEW q \in Seq(S), NEW m \in S, NEW k \in 0..Len(q)
  PROVE  SubSeq(Append(q, m), k + 1, Len(q) + 1)
           = Append(SubSeq(q, k + 1, Len(q)), m)
<1> DEFINE r == Append(q, m)
           n == Len(q)
<1>1. n \in Nat /\ r \in Seq(S) /\ Len(r) = n + 1 /\ r[n + 1] = m
  BY AppendProperties
<1>2. SubSeq(r, k + 1, n) = SubSeq(q, k + 1, n)
  <2>1. k + 1 \in 1..(Len(q) + 1) /\ n \in 0..Len(q)
    BY <1>1
  <2> QED
    BY <2>1, PartOfAppend
<1>3. SubSeq(q, k + 1, n) \in Seq(S)
  <2>1. k + 1 \in Int /\ n \in Int /\ \A i \in (k + 1)..n : q[i] \in S
    BY <1>1
  <2> QED
    BY <2>1, SubSeqProperties
<1> HIDE DEF r, n
<1>4. SubSeq(r, k + 1, n + 1) = SubSeq(r, k + 1, n) \o <<r[n + 1]>>
  <2>1. k + 1 \in 1..Len(r) /\ n + 1 \in (k + 1)..Len(r) /\ (n + 1) - 1 = n
    BY <1>1 DEF n
  <2> QED
    BY <1>1, <2>1, SubSeqRecursiveSecond
<1>5. SubSeq(r, k + 1, n + 1) = SubSeq(q, k + 1, n) \o <<m>>
  BY <1>1, <1>2, <1>4
<1> QED
  BY <1>3, <1>5, AppendIsConcat DEF r, n

\* A message is pushed: it goes to the end of the buffer.
LEMMA PushInOrder ==
  ASSUME TypeOK, NEW d \in Topics, InOrder(d), NEW m \in Message,
         logged'[d] = Append(logged[d], m), buff'[d] = Append(buff[d], m),
         file'[d] = file[d], opened' = opened, topic_map' = topic_map
  PROVE  InOrder(d)'
<1>1. PICK l \in Seq(Message), b \in Seq(Message) :
        l = logged[d] /\ b = buff[d]
  BY DEF TypeOK
<1>2. PICK n \in Nat, c \in Nat : n = Len(l) /\ c = Len(b)
  OBVIOUS
<1>3. PICK k : k = n - c
  OBVIOUS
<1>4. /\ k \in Nat
      /\ file[d] = IF d \in opened THEN Frames(SubSeq(l, 1, k)) ELSE <<>>
      /\ b = SubSeq(l, k + 1, n)
  BY <1>1, <1>2, <1>3 DEF InOrder
<1>5. k \in 0..n /\ k + 1 \in 1..(n + 1)
  <2>1. k \in Nat /\ k <= n
    BY <1>3, <1>4
  <2> QED
    BY <2>1
<1>6. /\ Len(logged'[d]) = n + 1 /\ Len(buff'[d]) = c + 1
  BY <1>1, <1>2, AppendProperties
<1>7. (n + 1) - (c + 1) = k
  BY <1>3
<1>8. SubSeq(logged'[d], 1, k) = SubSeq(l, 1, k)
  <2>1. 1 \in 1..(Len(l) + 1) /\ k \in 0..Len(l)
    BY <1>2, <1>5
  <2> QED
    BY <1>1, <2>1, PartOfAppend
<1>9. SubSeq(logged'[d], k + 1, n + 1) = buff'[d]
  <2>1. k \in 0..Len(l)
    BY <1>2, <1>5
  <2>2. SubSeq(Append(l, m), k + 1, Len(l) + 1)
          = Append(SubSeq(l, k + 1, Len(l)), m)
    BY <2>1, RestOfAppend
  <2> QED
    BY <1>1, <1>2, <1>4, <2>2
<1>10. file'[d] = IF d \in opened' THEN Frames(SubSeq(logged'[d], 1, k))
                                   ELSE <<>>
  BY <1>4, <1>8
<1>11. d \notin topic_map' => k = 0
  BY <1>1, <1>2, <1>3 DEF InOrder
<1> QED
  BY <1>4, <1>6, <1>7, <1>9, <1>10, <1>11 DEF InOrder

\* The front of the buffer is written: it goes to the end of the file.
LEMMA WriteInOrder ==
  ASSUME TypeOK, NEW d \in Topics, InOrder(d), buff[d] # <<>>,
         logged' = logged, buff'[d] = Tail(buff[d]),
         file'[d] = IF d \in opened THEN file[d] \o Frame(Head(buff[d]))
                                    ELSE file[d],
         opened' = opened, topic_map' = topic_map, d \in topic_map
  PROVE  InOrder(d)'
<1>1. PICK l \in Seq(Message), b \in Seq(Message) :
        l = logged[d] /\ b = buff[d]
  BY DEF TypeOK
<1>2. PICK n \in Nat, c \in Nat \ {0} : n = Len(l) /\ c = Len(b)
  BY <1>1, EmptySeq
<1>3. PICK k : k = n - c
  OBVIOUS
<1>4. /\ k \in Nat
      /\ file[d] = IF d \in opened THEN Frames(SubSeq(l, 1, k)) ELSE <<>>
      /\ b = SubSeq(l, k + 1, n)
  BY <1>1, <1>2, <1>3 DEF InOrder
<1>5. /\ k + 1 \in 1..Len(l) /\ n \in (k + 1)..Len(l)
      /\ 1 \in 1..Len(l) /\ k + 1 \in 1..Len(l) /\ (k + 1) - 1 = k
  BY <1>2, <1>3, <1>4
<1>6. Len(buff'[d]) = c - 1
  BY <1>1, <1>2, HeadTailProperties
<1>7. n - (c - 1) = k + 1
  BY <1>3
<1>8. Head(b) = l[k + 1] /\ Tail(b) = SubSeq(l, (k + 1) + 1, n)
  BY <1>4, <1>5, HeadTailOfSubSeq
<1>9. SubSeq(l, 1, k) \in Seq(Message) /\ l[k + 1] \in Message
  <2>1. k \in Int /\ l[k + 1] \in Message /\ \A i \in 1..k : l[i] \in Message
    BY <1>2, <1>4, <1>5
  <2> QED
    BY <2>1, SubSeqProperties
<1>10. SubSeq(l, 1, k + 1) = Append(SubSeq(l, 1, k), l[k + 1])
  <2>1. SubSeq(l, 1, k + 1) = SubSeq(l, 1, k) \o <<l[k + 1]>>
    BY <1>5, SubSeqRecursiveSecond
  <2> QED
    BY <1>9, <2>1, AppendIsConcat
<1>11. Frames(SubSeq(l, 1, k + 1)) = Frames(SubSeq(l, 1, k)) \o Frame(l[k + 1])
  BY <1>9, <1>10, FramesAppend
<1>12. file'[d] = IF d \in opened' THEN Frames(SubSeq(l, 1, k + 1)) ELSE <<>>
  BY <1>1, <1>4, <1>8, <1>11
<1>13. /\ logged'[d] = l /\ Len(logged'[d]) = n
       /\ buff'[d] = SubSeq(l, (k + 1) + 1, n)
       /\ k + 1 \in Nat
  BY <1>1, <1>2, <1>4, <1>8
<1> QED
  BY <1>6, <1>7, <1>12, <1>13 DEF InOrder

\* A topic nothing is done to.
LEMMA StaysInOrder ==
  ASSUME NEW d \in Topics, InOrder(d), logged'[d] = logged[d],
         buff'[d] = buff[d], file'[d] = file[d], opened' = opened,
         topic_map' = topic_map
  PROVE  InOrder(d)'
BY DEF InOrder

LEMMA OrderStep ==
  ASSUME LogInv, [Next]_vars, NEW d \in Topics
  PROVE  InOrder(d)'
<1> USE DEF callVars, mapVars, bufferVars, loopVars
<1>1. /\ TypeOK /\ MapOwner /\ BufferOwner /\ Arguments /\ AddedOnce
      /\ InOrder(d)
  BY DEF LogInv
<1>2. CASE UNCHANGED <<logged, buff, file, opened, topic_map>>
  BY <1>1, <1>2, StaysInOrder
<1>3. ASSUME NEW p \in Loggers, Insert(p)
      PROVE  InOrder(d)'
  <2>1. /\ arg[p].topic \notin topic_map
        /\ topic_map' = topic_map \cup {arg[p].topic}
        /\ opened' = opened \/ opened' = opened \cup {arg[p].topic}
        /\ UNCHANGED <<logged, buff, file>>
    BY <1>1, <1>3, GoesType DEF Insert, AddedOnce
  <2>2. CASE d # arg[p].topic
    BY <1>1, <2>1, <2>2 DEF InOrder
  <2>3. CASE d = arg[p].topic
    <3>1. /\ d \notin opened /\ d \notin topic_map
      BY <1>1, <2>1, <2>3 DEF TypeOK
    <3>2. PICK l, b : l = logged[d] /\ b = buff[d]
      OBVIOUS
    <3>3. /\ Len(l) - Len(b) = 0 /\ file[d] = <<>>
          /\ b = SubSeq(l, 0 + 1, Len(l))
      BY <1>1, <3>1, <3>2 DEF InOrder
    <3>4. SubSeq(l, 1, 0) = <<>>
      BY SubSeqEmpty
    <3>5. Frames(SubSeq(l, 1, 0)) = <<>>
      BY <3>4, FramesEmpty
    <3>6. PICK k : k = 0
      OBVIOUS
    <3>7. /\ k \in Nat /\ Len(l) - Len(b) = k /\ Frames(SubSeq(l, 1, k)) = <<>>
          /\ b = SubSeq(l, k + 1, Len(l))
      BY <3>3, <3>5, <3>6
    <3>8. logged'[d] = l /\ buff'[d] = b /\ file'[d] = <<>>
      BY <2>1, <3>2, <3>3
    <3>9. file'[d] = IF d \in opened' THEN Frames(SubSeq(l, 1, k)) ELSE <<>>
      BY <3>7, <3>8
    <3> QED
      BY <3>6, <3>7, <3>8, <3>9 DEF InOrder
  <2> QED
    BY <2>2, <2>3
<1>4. ASSUME NEW p \in Loggers, Push(p)
      PROVE  InOrder(d)'
  <2>1. /\ arg[p] \in [topic : Topics, message : Message]
        /\ logger[p] = "pushing"
    BY <1>1, <1>4, GoesType DEF Push, Arguments
  <2>2. PICK e \in Topics, m \in Message : e = arg[p].topic /\ m = arg[p].message
    BY <2>1
  <2>3. /\ buff' = [buff EXCEPT ![e] = Append(buff[e], m)]
        /\ logged' = [logged EXCEPT ![e] = Append(logged[e], m)]
        /\ UNCHANGED <<file, opened, topic_map>>
    BY <1>4, <2>2 DEF Push
  <2>4. CASE d # e
    <3>1. buff'[d] = buff[d] /\ logged'[d] = logged[d]
      BY <1>1, <2>3, <2>4 DEF TypeOK
    <3> QED
      BY <1>1, <2>3, <3>1, StaysInOrder
  <2>5. CASE d = e
    <3>1. buff'[d] = Append(buff[d], m) /\ logged'[d] = Append(logged[d], m)
      BY <1>1, <2>3, <2>5 DEF TypeOK
    <3> QED
      BY <1>1, <2>3, <3>1, PushInOrder
  <2> QED
    BY <2>4, <2>5
<1>5. CASE SerializeMessage
  <2>1. /\ at \in Topics /\ at \in topic_map /\ buff[at] # <<>>
        /\ file' = [file EXCEPT ![at] =
                      IF at \in opened THEN file[at] \o Frame(Head(buff[at]))
                                       ELSE file[at]]
        /\ buff' = [buff EXCEPT ![at] = Tail(buff[at])]
        /\ UNCHANGED <<logged, opened, topic_map>>
    BY <1>1, <1>5 DEF SerializeMessage, AddedOnce, TypeOK
  <2>2. CASE d # at
    <3>1. buff'[d] = buff[d] /\ file'[d] = file[d]
      BY <1>1, <2>1, <2>2 DEF TypeOK
    <3> QED
      BY <1>1, <2>1, <3>1, StaysInOrder
  <2>3. CASE d = at
    <3>1. /\ buff'[d] = Tail(buff[d])
          /\ file'[d] = IF d \in opened THEN file[d] \o Frame(Head(buff[d]))
                                        ELSE file[d]
      BY <1>1, <2>1, <2>3 DEF TypeOK
    <3> QED
      BY <1>1, <2>1, <2>3, <3>1, WriteInOrder
  <2> QED
    BY <2>2, <2>3
<1>6. ASSUME NEW p \in Loggers, NEW t \in Topics,
             LogStep(p) \/ Log(p, t), ~Insert(p), ~Push(p)
      PROVE  InOrder(d)'
  BY <1>2, <1>6 DEF LogStep, Log, Find, Flag, LockMap, Unflag, LockBuffer
<1>7. CASE LogLoop /\ ~SerializeMessage
  BY <1>2, <1>7 DEF LogLoop, MakeDirectory, Loop, LoopLocksMap, SkipTopic,
                    StartWrite, EndRound
<1>8. CASE Crash \/ Destroy \/ UNCHANGED vars
  BY <1>2, <1>8 DEF Crash, Destroy, vars
<1> QED
  BY <1>3, <1>4, <1>5, <1>6, <1>7, <1>8 DEF Next

LEMMA StepInv == LogInv /\ [Next]_vars => LogInv'
<1> SUFFICES ASSUME LogInv, [Next]_vars PROVE LogInv'
  OBVIOUS
<1>1. \A t \in Topics : InOrder(t)'
  BY OrderStep
<1>2. TypeOK /\ MapOwner /\ BufferOwner /\ Arguments /\ AddedOnce
  BY DEF LogInv
<1>3. ASSUME NEW p \in Loggers, NEW t \in Topics, LogStep(p) \/ Log(p, t)
      PROVE  TypeOK' /\ MapOwner' /\ BufferOwner' /\ Arguments' /\ AddedOnce'
  BY <1>3, LoggerType, LoggerOwners
<1>4. ASSUME NEW p \in Loggers, LogStep(p)
      PROVE  TypeOK' /\ MapOwner' /\ BufferOwner' /\ Arguments' /\ AddedOnce'
  <2>1. logger[p] # "idle"
    BY <1>4 DEF LogStep, Find, Flag, LockMap, Insert, Unflag, LockBuffer, Push,
                Goes
  <2>2. arg[p].topic \in Topics
    BY <1>2, <2>1 DEF Arguments
  <2> QED
    BY <1>3, <1>4, <2>2
<1>5. ASSUME LogLoop
      PROVE  TypeOK' /\ MapOwner' /\ BufferOwner' /\ Arguments' /\ AddedOnce'
  BY <1>5, LoopType, LoopOwners
<1>6. ASSUME Crash \/ Destroy \/ UNCHANGED vars
      PROVE  TypeOK' /\ MapOwner' /\ BufferOwner' /\ Arguments' /\ AddedOnce'
  <2> USE DEF callVars, mapVars, bufferVars, loopVars
  <2>1. UNCHANGED <<logger, arg, begun, topic_map, opened, map_mx, to_add_topic,
                    buff, mx, logged, worker, at, directory, file>>
    BY <1>6 DEF Crash, Destroy, vars
  <2>2. to_run' \in BOOLEAN /\ crashed' \in BOOLEAN
    <3>1. to_run \in BOOLEAN /\ crashed \in BOOLEAN
      BY <1>2 DEF TypeOK
    <3> QED
      BY <1>6, <3>1, Zenon DEF Crash, Destroy, vars
  <2>3. TypeOK'
    BY <1>2, <2>1, <2>2 DEF TypeOK
  <2> QED
    BY <1>2, <2>1, <2>3 DEF MapOwner, BufferOwner, Arguments, AddedOnce
<1>7. TypeOK' /\ MapOwner' /\ BufferOwner' /\ Arguments' /\ AddedOnce'
  BY <1>3, <1>4, <1>5, <1>6 DEF Next
<1> QED
  BY <1>1, <1>7 DEF LogInv

LEMMA Invariance == Spec => []LogInv
<1> QED
  BY InitInv, StepInv, PTL DEF Spec

-----------------------------------------------------------------------------
(***************************************************************************)
(* What Frames puts where: the frame of message j of q is behind those of  *)
(* the messages before it.                                                 *)
(***************************************************************************)
Offset(q, j) == Len(UpTo(q)[j])

HasFrame(f, o, m) ==
  /\ o + 1 + SizeOf[m] <= Len(f)
  /\ f[o + 1] = [kind |-> "size", value |-> SizeOf[m] % Byte]
  /\ \A i \in 1..SizeOf[m] : f[o + 1 + i] = [kind |-> "body", value |-> m]

LEMMA FrameAppended ==
  ASSUME NEW f \in Seq(Cell), NEW m \in Message
  PROVE  /\ f \o Frame(m) \in Seq(Cell)
         /\ Len(f \o Frame(m)) = Len(f) + 1 + SizeOf[m]
         /\ HasFrame(f \o Frame(m), Len(f), m)
         /\ \A o \in Nat, k \in Message :
              HasFrame(f, o, k) => HasFrame(f \o Frame(m), o, k)
<1> DEFINE body == [i \in 1..SizeOf[m] |-> [kind |-> "body", value |-> m]]
           size == [kind |-> "size", value |-> SizeOf[m] % Byte]
           r == Frame(m)
           h == f \o r
<1>1. SizeOf \in [Message -> Nat]
  BY LogAssumption DEF Message
<1>2. PICK n \in Nat : n = SizeOf[m]
  BY <1>1
<1>3. /\ r \in Seq(Cell) /\ Len(r) = n + 1
      /\ r[1] = size
      /\ \A i \in 1..n : r[i + 1] = [kind |-> "body", value |-> m]
  <2>1. r \in Seq(Cell)
    BY FrameType
  <2>2. /\ body \in Seq({[kind |-> "body", value |-> m]}) /\ Len(body) = n
        /\ \A i \in 1..n : body[i] = [kind |-> "body", value |-> m]
    BY <1>2
  <2>3. r = <<size>> \o body
    BY DEF Frame
  <2> HIDE DEF body, size, r
  <2>4. Len(r) = n + 1 /\ r[1] = size /\ \A i \in 1..n : r[i + 1] = body[i]
    BY <2>2, <2>3
  <2> QED
    BY <2>1, <2>2, <2>4
<1> HIDE DEF r
<1>4. /\ h \in Seq(Cell) /\ Len(h) = Len(f) + n + 1
      /\ \A i \in 1..Len(f) : h[i] = f[i]
      /\ \A i \in 1..(n + 1) : h[Len(f) + i] = r[i]
  BY SMTT(40), <1>3
<1> HIDE DEF h
<1>5. HasFrame(h, Len(f), m)
  <2>1. h[Len(f) + 1] = size
    BY <1>3, <1>4
  <2>2. ASSUME NEW i \in 1..n
        PROVE  h[Len(f) + 1 + i] = [kind |-> "body", value |-> m]
    <3>1. Len(f) + 1 + i = Len(f) + (i + 1) /\ i + 1 \in 1..(n + 1)
      OBVIOUS
    <3> QED
      BY <1>3, <1>4, <3>1
  <2>3. Len(f) + 1 + n <= Len(h)
    BY <1>4
  <2> QED
    BY <1>2, <2>1, <2>2, <2>3 DEF HasFrame
<1>6. ASSUME NEW o \in Nat, NEW k \in Message, HasFrame(f, o, k)
      PROVE  HasFrame(h, o, k)
  <2>1. PICK s \in Nat : s = SizeOf[k]
    BY <1>1
  <2>2. /\ o + 1 + s <= Len(f)
        /\ f[o + 1] = [kind |-> "size", value |-> SizeOf[k] % Byte]
        /\ \A i \in 1..s : f[o + 1 + i] = [kind |-> "body", value |-> k]
    BY <1>6, <2>1 DEF HasFrame
  <2>3. o + 1 \in 1..Len(f) /\ \A i \in 1..s : o + 1 + i \in 1..Len(f)
    BY <2>2
  <2>4. /\ h[o + 1] = [kind |-> "size", value |-> SizeOf[k] % Byte]
        /\ \A i \in 1..s : h[o + 1 + i] = [kind |-> "body", value |-> k]
    BY <1>4, <2>2, <2>3
  <2>5. o + 1 + s <= Len(h)
    BY <1>4, <2>2
  <2> QED
    BY <2>1, <2>4, <2>5 DEF HasFrame
<1>7. Len(h) = Len(f) + 1 + SizeOf[m]
  <2>1. PICK l \in Nat : l = Len(f)
    OBVIOUS
  <2>2. Len(h) = l + 1 + n
    BY <1>4, <2>1
  <2> QED
    BY <1>2, <2>1, <2>2
<1> QED
  BY <1>4, <1>5, <1>6, <1>7 DEF h, r

LEMMA FramesPlaces ==
  ASSUME NEW q \in Seq(Message)
  PROVE  /\ Frames(q) \in Seq(Cell)
         /\ Offset(q, 0) = 0
         /\ \A j \in 1..Len(q) :
              /\ Offset(q, j - 1) \in Nat
              /\ Offset(q, j) = Offset(q, j - 1) + 1 + SizeOf[q[j]]
              /\ HasFrame(Frames(q), Offset(q, j - 1), q[j])
<1> DEFINE n == Len(q)
           u == UpTo(q)
           Q(k) == /\ u[k] \in Seq(Cell)
                   /\ \A j \in 1..k :
                        /\ Offset(q, j - 1) \in Nat
                        /\ Offset(q, j) = Offset(q, j - 1) + 1 + SizeOf[q[j]]
                        /\ HasFrame(u[k], Offset(q, j - 1), q[j])
           T == {k \in Nat : k <= n /\ ~Q(k)}
<1>1. /\ n \in Nat
      /\ u[0] = <<>>
      /\ \A k \in 1..n : u[k] = u[k - 1] \o Frame(q[k])
      /\ \A k \in 1..n : q[k] \in Message
  <2>1. n \in Nat /\ \A k \in 1..n : q[k] \in Message
    OBVIOUS
  <2>2. u[0] = <<>> /\ \A k \in 1..n : u[k] = u[k - 1] \o Frame(q[k])
    BY <2>1, UpToStep, Zenon
  <2> QED
    BY <2>1, <2>2
<1>2. Frames(q) = u[n]
  BY FramesIsUpTo
<1>3. \A k : Offset(q, k) = Len(u[k])
  BY DEF Offset
<1> HIDE DEF u, n
<1>4. T = {}
  <2> SUFFICES ASSUME T # {} PROVE FALSE
    OBVIOUS
  <2>1. PICK k \in T : \A j \in T : k <= j
    BY LeastNumber
  <2>2. k \in Nat /\ k <= n /\ ~Q(k)
    BY <2>1
  <2>3. CASE k = 0
    <3>1. Q(0)
      BY <1>1
    <3> QED
      BY <2>2, <2>3, <3>1
  <2>4. CASE k # 0
    <3> DEFINE l == k - 1
    <3>1. l \in Nat /\ l <= n /\ l < k /\ k \in 1..n
      BY <1>1, <2>2, <2>4
    <3>2. l \notin T
      BY <2>1, <3>1
    <3>3. Q(l)
      BY <3>1, <3>2
    <3>4. u[k] = u[l] \o Frame(q[k]) /\ q[k] \in Message
      BY <1>1, <3>1
    <3>5. /\ u[k] \in Seq(Cell)
          /\ Len(u[k]) = Len(u[l]) + 1 + SizeOf[q[k]]
          /\ HasFrame(u[k], Len(u[l]), q[k])
          /\ \A o \in Nat, m \in Message : HasFrame(u[l], o, m) => HasFrame(u[k], o, m)
      <4>1. PICK v \in Seq(Cell), b \in Message : v = u[l] /\ b = q[k]
        BY <3>3, <3>4
      <4>2. /\ v \o Frame(b) \in Seq(Cell)
            /\ Len(v \o Frame(b)) = Len(v) + 1 + SizeOf[b]
            /\ HasFrame(v \o Frame(b), Len(v), b)
            /\ \A o \in Nat, m \in Message :
                 HasFrame(v, o, m) => HasFrame(v \o Frame(b), o, m)
        BY FrameAppended
      <4>3. u[k] = v \o Frame(b)
        BY <3>4, <4>1
      <4> QED
        BY <4>1, <4>2, <4>3, Zenon
    <3>6. ASSUME NEW j \in 1..k
          PROVE  /\ Offset(q, j - 1) \in Nat
                 /\ Offset(q, j) = Offset(q, j - 1) + 1 + SizeOf[q[j]]
                 /\ HasFrame(u[k], Offset(q, j - 1), q[j])
      <4>1. CASE j = k
        <5>1. Len(u[l]) \in Nat
          BY <3>3
        <5> QED
          BY <1>3, <3>5, <4>1, <5>1
      <4>2. CASE j # k
        <5>1. j \in 1..l /\ j \in 1..n
          BY <1>1, <3>1, <4>2
        <5>2. q[j] \in Message
          BY <1>1, <5>1
        <5> QED
          BY <3>3, <3>5, <5>1, <5>2
      <4> QED
        BY <4>1, <4>2
    <3>7. Q(k)
      BY <3>5, <3>6
    <3> QED
      BY <2>2, <3>7
  <2> QED
    BY <2>3, <2>4
<1>5. Q(n)
  BY <1>1, <1>4
<1>6. Offset(q, 0) = 0
  BY <1>1, <1>3
<1> QED
  BY <1>2, <1>5, <1>6 DEF n

(***************************************************************************)
(* A frame whose size fits is parsed as its message; so the first k        *)
(* messages, if they fit, are what is read first.                          *)
(***************************************************************************)
Body(m) == [i \in 1..SizeOf[m] |-> [kind |-> "body", value |-> m]]

LEMMA FrameParsed ==
  ASSUME NEW f \in Seq(Cell), NEW o \in Nat, NEW m \in Message, HasFrame(f, o, m),
         SizeOf[m] < Byte
  PROVE  /\ Parse(f)[o + 1] = <<Body(m)>> \o Parse(f)[o + 1 + SizeOf[m] + 1]
         /\ Parse(f)[o + 1 + SizeOf[m] + 1] \in Seq(Seq(Cell))
<1>1. PICK s \in Nat : s = SizeOf[m]
  BY LogAssumption DEF Message
<1>2. s % Byte = s
  <2>1. Byte \in Nat \ {0} /\ s < Byte
    BY <1>1, LogAssumption
  <2> QED
    BY <2>1
<1>3. /\ o + 1 + s <= Len(f) /\ Len(f) \in Nat
      /\ f[o + 1] = [kind |-> "size", value |-> s]
      /\ \A i \in 1..s : f[o + 1 + i] = [kind |-> "body", value |-> m]
  BY <1>1, <1>2 DEF HasFrame
<1> DEFINE i == o + 1
           k == o + 1 + s + 1
           g == Parse(f)
<1>4. i \in 1..(Len(f) + 1) /\ k \in 1..(Len(f) + 1) /\ k = i + s + 1
  BY <1>3
<1>5. g[i] = <<SubSeq(f, i + 1, i + s)>> \o g[k]
  <2>1. g[i] = Parsed(f, g, i)
    BY <1>4, ParseStep
  <2>2. /\ ~(i > Len(f)) /\ f[i].kind = "size" /\ f[i].value = s
        /\ ~(i + s > Len(f))
    BY <1>3
  <2> HIDE DEF i, k, g
  <2>3. Parsed(f, g, i) = <<SubSeq(f, i + 1, i + s)>> \o g[i + s + 1]
    BY <2>2, Zenon DEF Parsed
  <2> QED
    BY <1>4, <2>1, <2>3
<1>6. SubSeq(f, i + 1, i + s) = Body(m)
  <2>1. \A j \in 1..s : f[i + j] = [kind |-> "body", value |-> m]
    BY <1>3
  <2>2. SubSeq(f, i + 1, i + s) = [j \in 1..s |-> f[i + j]]
    BY <1>3, <1>4
  <2> QED
    BY <1>1, <2>1, <2>2 DEF Body
<1>7. g[k] \in Seq(Seq(Cell))
  BY <1>4, ParseType
<1> QED
  BY <1>1, <1>5, <1>6, <1>7

LEMMA PrefixParsed ==
  ASSUME NEW q \in Seq(Message), NEW k \in 1..Len(q), Fits(q, k)
  PROVE  /\ ParseMessage(Frames(q)) \in Seq(Seq(Cell))
         /\ Len(ParseMessage(Frames(q))) >= k
         /\ ParseMessage(Frames(q))[k] = Body(q[k])
<1> DEFINE f == Frames(q)
           g == Parse(f)
           Rest(m) == g[Offset(q, k - m) + 1]
           R(m) == /\ Rest(m) \in Seq(Seq(Cell))
                   /\ Len(Rest(m)) >= m
                   /\ Rest(m)[m] = Body(q[k])
           T == {m \in Nat : m <= k /\ m # 0 /\ ~R(m)}
<1>1. /\ f \in Seq(Cell)
      /\ Offset(q, 0) = 0
      /\ \A j \in 1..Len(q) :
           /\ Offset(q, j - 1) \in Nat
           /\ Offset(q, j) = Offset(q, j - 1) + 1 + SizeOf[q[j]]
           /\ HasFrame(f, Offset(q, j - 1), q[j])
  BY FramesPlaces
<1>2. ASSUME NEW j \in 1..k
      PROVE  /\ g[Offset(q, j - 1) + 1] = <<Body(q[j])>> \o g[Offset(q, j) + 1]
             /\ g[Offset(q, j) + 1] \in Seq(Seq(Cell))
  <2>1. j \in 1..Len(q) /\ q[j] \in Message /\ SizeOf[q[j]] < Byte
    BY DEF Fits
  <2>2. PICK o \in Nat : o = Offset(q, j - 1)
    BY <1>1, <2>1
  <2>3. HasFrame(f, o, q[j]) /\ Offset(q, j) = o + 1 + SizeOf[q[j]]
    BY <1>1, <2>1, <2>2
  <2> HIDE DEF f, g
  <2>4. /\ Parse(f)[o + 1] = <<Body(q[j])>> \o Parse(f)[o + 1 + SizeOf[q[j]] + 1]
        /\ Parse(f)[o + 1 + SizeOf[q[j]] + 1] \in Seq(Seq(Cell))
    BY <1>1, <2>1, <2>3, FrameParsed
  <2> QED
    BY <2>2, <2>3, <2>4 DEF g
<1> HIDE DEF f, g
<1>3. \A j \in 1..k : Body(q[j]) \in Seq(Cell)
  <2> SUFFICES ASSUME NEW j \in 1..k PROVE Body(q[j]) \in Seq(Cell)
    OBVIOUS
  <2>1. PICK m \in Message : m = q[j]
    OBVIOUS
  <2>2. SizeOf[m] \in Nat
    BY LogAssumption DEF Message
  <2>3. [kind |-> "body", value |-> m] \in Cell
    BY DEF Cell
  <2> QED
    BY <2>1, <2>2, <2>3, IsASeq DEF Body
<1>4. T = {}
  <2> SUFFICES ASSUME T # {} PROVE FALSE
    OBVIOUS
  <2>1. PICK m \in T : \A j \in T : m <= j
    BY LeastNumber
  <2> DEFINE j == k - m + 1
  <2>2. m \in Nat /\ m <= k /\ m # 0 /\ ~R(m) /\ j \in 1..k /\ j - 1 = k - m
    BY <2>1
  <2>3. PICK b \in Seq(Cell), rest \in Seq(Seq(Cell)) :
          /\ b = Body(q[j]) /\ rest = g[Offset(q, j) + 1]
          /\ Rest(m) = <<b>> \o rest
    BY <1>2, <1>3, <2>2
  <2>4. Rest(m) \in Seq(Seq(Cell)) /\ Len(Rest(m)) = Len(rest) + 1
    BY <2>3
  <2>5. CASE m = 1
    <3>1. Rest(m)[1] = b
      BY <2>3
    <3>2. j = k
      BY <2>5
    <3> QED
      BY <2>2, <2>3, <2>4, <2>5, <3>1, <3>2
  <2>6. CASE m # 1
    <3>1. m - 1 \in Nat /\ m - 1 <= k /\ m - 1 # 0 /\ m - 1 \notin T
      <4> HIDE DEF T, R
      <4>1. m \in Nat /\ m <= k /\ m # 0
        BY <2>2
      <4>2. m - 1 \in Nat /\ m - 1 <= k /\ m - 1 # 0 /\ ~(m <= m - 1)
        BY <2>6, <4>1
      <4> QED
        BY <2>1, <4>2
    <3>2. R(m - 1)
      BY <3>1
    <3>3. k - (m - 1) = j
      BY <2>2
    <3>4. Rest(m - 1) = rest
      BY <2>3, <3>3
    <3>5. Len(rest) >= m - 1 /\ rest[m - 1] = Body(q[k])
      BY <3>2, <3>4
    <3>6. (<<b>> \o rest)[m] = rest[m - 1]
      BY <3>1, <3>5
    <3> QED
      BY <2>2, <2>3, <2>4, <3>5, <3>6
  <2> QED
    BY <2>5, <2>6
<1>5. R(k)
  BY <1>4
<1>6. Rest(k) = g[1]
  BY <1>1
<1>7. ParseMessage(f) = g[1]
  BY ParseMessageIsParse DEF g
<1> QED
  BY <1>5, <1>6, <1>7 DEF f

-----------------------------------------------------------------------------
(***************************************************************************)
(* Type correctness: every variable keeps to its type, whatever the sizes  *)
(* of the messages and the number of topics.                               *)
(***************************************************************************)
THEOREM TypeCorrect == Spec => []TypeOK
<1>1. LogInv => TypeOK
  BY DEF LogInv
<1> QED
  BY <1>1, Invariance, PTL

(***************************************************************************)
(* LogLoop never walks the map while a topic is added to it, and never     *)
(* takes from a buffer while a thread appends to it: the mutexes of        *)
(* async_log.cpp keep it alone, for any number of threads.                 *)
(***************************************************************************)
THEOREM MutexesSuffice == Spec => []LoopIsAlone
<1>1. LogInv => LoopIsAlone
  <2> SUFFICES ASSUME LogInv PROVE LoopIsAlone
    OBVIOUS
  <2>1. /\ TypeOK /\ MapOwner /\ BufferOwner /\ AddedOnce
        /\ "nobody" \notin Loggers /\ "loop" \notin Loggers
    BY LogAssumption DEF LogInv
  <2>2. ASSUME worker \in {"visit", "write"}, NEW p \in Loggers
        PROVE  logger[p] # "insert"
    BY <2>1, <2>2 DEF MapOwner
  <2>3. ASSUME worker = "write", NEW p \in Loggers
        PROVE  ~(logger[p] = "pushing" /\ arg[p].topic = at)
    <3>1. at \in Topics
      BY <2>1, <2>3 DEF AddedOnce, TypeOK
    <3> QED
      BY <2>1, <2>3, <3>1 DEF BufferOwner
  <2> QED
    BY <2>2, <2>3 DEF LoopIsAlone
<1> QED
  BY <1>1, Invariance, PTL

(***************************************************************************)
(* The file of a topic and its buffer are together what was logged, in     *)
(* order and without repetition (log and LogLoop of async_log.cpp).        *)
(***************************************************************************)
THEOREM FileIsPrefix == Spec => []WrittenOnceInOrder
<1>1. LogInv => WrittenOnceInOrder
  <2> SUFFICES ASSUME LogInv, NEW t \in Topics
               PROVE  \E k \in 0..Len(logged[t]) :
                        /\ file[t] = IF t \in opened
                                     THEN Frames(SubSeq(logged[t], 1, k))
                                     ELSE <<>>
                        /\ buff[t] = SubSeq(logged[t], k + 1, Len(logged[t]))
    BY DEF WrittenOnceInOrder
  <2>1. TypeOK /\ InOrder(t)
    BY DEF LogInv
  <2>2. PICK k : k = Len(logged[t]) - Len(buff[t])
    OBVIOUS
  <2>3. /\ k \in Nat
        /\ file[t] = IF t \in opened THEN Frames(SubSeq(logged[t], 1, k))
                                     ELSE <<>>
        /\ buff[t] = SubSeq(logged[t], k + 1, Len(logged[t]))
    BY <2>1, <2>2 DEF InOrder
  <2>4. PICK n \in Nat, c \in Nat : n = Len(logged[t]) /\ c = Len(buff[t])
    <3>1. logged[t] \in Seq(Message) /\ buff[t] \in Seq(Message)
      BY <2>1 DEF TypeOK
    <3> QED
      BY <3>1
  <2>5. k \in 0..Len(logged[t])
    <3>1. k \in Nat /\ k = n - c
      BY <2>2, <2>3, <2>4
    <3>2. k \in 0..n
      BY <3>1
    <3> QED
      BY <2>4, <3>2
  <2> QED
    BY <2>3, <2>5
<1> QED
  BY <1>1, Invariance, PTL

(***************************************************************************)
(* ParseMessage reads back, in their order, the messages that are in the   *)
(* file, up to the first one whose size does not fit in a byte             *)
(* (SerializeMessage and ParseMessage of async_log.cpp).                   *)
(***************************************************************************)
THEOREM FileReadsBack == Spec => []ReadBack
<1>1. LogInv => ReadBack
  <2> SUFFICES ASSUME LogInv, NEW t \in Topics,
                      NEW k \in 1..(Len(logged[t]) - Len(buff[t])),
                      t \in opened, Fits(logged[t], k)
               PROVE  /\ Len(ParseMessage(file[t])) >= k
                      /\ ParseMessage(file[t])[k] = Body(logged[t][k])
    BY Zenon DEF ReadBack, Body
  <2>1. /\ logged[t] \in Seq(Message) /\ buff[t] \in Seq(Message)
        /\ InOrder(t)
    BY DEF LogInv, TypeOK
  <2>2. PICK l \in Seq(Message), n \in Nat :
          /\ l = logged[t] /\ n = Len(logged[t]) - Len(buff[t])
          /\ file[t] = Frames(SubSeq(l, 1, n))
    BY <2>1 DEF InOrder
  <2>3. n <= Len(l) /\ k \in 1..n
    <3>1. PICK c \in Nat, d \in Nat : c = Len(logged[t]) /\ d = Len(buff[t])
      BY SMTT(40), <2>1
    <3>2. n = c - d /\ c = Len(l)
      BY <2>2, <3>1
    <3>3. k \in 1..n
      BY <2>2
    <3> QED
      BY <3>2, <3>3
  <2> DEFINE q == SubSeq(l, 1, n)
  <2>4. /\ q \in Seq(Message) /\ Len(q) = n
        /\ \A i \in 1..n : q[i] = l[i]
    BY <2>3
  <2> HIDE DEF q
  <2>5. Fits(q, k)
    BY SMTT(40), <2>2, <2>3, <2>4 DEF Fits
  <2>6. /\ Len(ParseMessage(Frames(q))) >= k
        /\ ParseMessage(Frames(q))[k] = Body(q[k])
    BY <2>3, <2>4, <2>5, PrefixParsed
  <2> QED
    BY <2>2, <2>3, <2>4, <2>6 DEF q
<1> QED
  BY <1>1, Invariance, PTL
=============================================================================
