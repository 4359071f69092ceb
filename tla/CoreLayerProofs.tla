-------------------------- MODULE CoreLayerProofs --------------------------
(***************************************************************************)
(* Theorems about CoreLayer, for any set of nodes, any writes, any         *)
(* UPDATE_COUNT, any width of the version, and any interleaving of the     *)
(* mutex and the handlers: what its state is made of; that the replicas    *)
(* agree and every READY is counted for the write it answers; and that the *)
(* layer implements ReplicatedStore.                                       *)
(***************************************************************************)
EXTENDS CoreLayer, LamportMutexProofs, FiniteSetTheorems

\* Wrap brings every integer back into the range of an int.
LEMMA WrapType == ASSUME NEW x \in Int PROVE Wrap(x) \in Version
<1>1. IntHalf \in Nat /\ IntHalf > 0
  BY IntHalfAssumption
<1>2. (x + IntHalf) % (2 * IntHalf) \in 0 .. (2 * IntHalf - 1)
  BY <1>1
<1> QED  BY <1>1, <1>2 DEF Wrap, Version

\* A write of any integer leaves a version.
LEMMA ExecuteType ==
    ASSUME NEW t, t.type \in WriteTag, t.value \in Int, NEW v \in Version
    PROVE  ExecuteTransaction(t, v) \in Version
<1>1. v \in Int
  BY IntHalfAssumption DEF Version
<1>2. CASE t.type = "SUM"
  <2>1. ExecuteTransaction(t, v) = Wrap(v + t.value)
    BY <1>2 DEF ExecuteTransaction
  <2> QED  BY <1>1, <2>1, WrapType
<1>3. CASE t.type = "SUBSTRACT"
  <2>1. ExecuteTransaction(t, v) = Wrap(v - t.value)
    BY <1>3 DEF ExecuteTransaction
  <2> QED  BY <1>1, <2>1, WrapType
<1>4. CASE t.type = "MULTIPLY"
  <2>1. ExecuteTransaction(t, v) = Wrap(v * t.value)
    BY <1>4 DEF ExecuteTransaction
  <2>2. v * t.value \in Int
    BY <1>1
  <2> QED  BY <2>1, <2>2, WrapType
<1> QED  BY <1>2, <1>3, <1>4 DEF WriteTag

\* Applying a write to a replica keeps the types of the three replicas' parts.
LEMMA ApplyType ==
    ASSUME CoreTypeOK, NEW n \in Node, NEW t,
           t.type \in WriteTag, t.value \in Int, Apply(n, t)
    PROVE  /\ version' \in [Node -> Version]
           /\ m_WriteCount' \in [Node -> 0 .. UPDATE_COUNT - 1]
           /\ updates' \in [Node -> Seq(Version)]
<1> DEFINE v == ExecuteTransaction(t, version[n])
<1>1. v \in Version
  BY ExecuteType DEF CoreTypeOK
<1>2. m_WriteCount[n] \in 0 .. UPDATE_COUNT - 1 /\ updates[n] \in Seq(Version)
  BY DEF CoreTypeOK
<1>3. AfterWrite(n, t).version = v
  BY DEF AfterWrite
<1>4. AfterWrite(n, t).count \in 0 .. UPDATE_COUNT - 1
  BY <1>2, UpdateCountAssumption DEF AfterWrite
<1>5. AfterWrite(n, t).updates \in Seq(Version)
  <2>1. Append(updates[n], v) \in Seq(Version)
    BY <1>1, <1>2
  <2> QED  BY <1>2, <2>1 DEF AfterWrite
<1> QED  BY <1>1, <1>3, <1>4, <1>5 DEF Apply, CoreTypeOK

\* A write in a file or in a node's hands is one that can be executed and sent.
LEMMA WriteFacts ==
    ASSUME CoreTypeOK, NEW n \in Node
    PROVE  /\ write[n].type \in WriteTag /\ write[n].value \in Int
           /\ write[n].type \in Tag
<1>1. write[n] \in [type : WriteTag, value : Version]
  BY DEF CoreTypeOK
<1>2. write[n].value \in Version /\ write[n].type \in WriteTag
  BY <1>1
<1> QED  BY <1>2, IntHalfAssumption DEF Version, WriteTag, Tag

\* The types hold when the program begins.
LEMMA CoreTypeInit == CoreInit => CoreTypeOK
<1> SUFFICES ASSUME CoreInit PROVE CoreTypeOK
  OBVIOUS
<1>1. TypeOK
  BY TypeInit DEF CoreInit
<1>2. 0 \in Version
  BY IntHalfAssumption DEF Version
<1>3. 0 \in 0 .. UPDATE_COUNT - 1
  BY UpdateCountAssumption
<1>4. <<>> \in Seq(Version)
  OBVIOUS
<1> QED  BY <1>1, <1>2, <1>3, <1>4 DEF CoreInit, CoreTypeOK, Stage, WriteTag

\* The writer's steps and the wait for READY keep the types.
LEMMA CoreTypeCaller ==
    ASSUME CoreTypeOK, NEW n \in Node,
           \/ \E t \in Writes : Submit(n, t)
           \/ Caller(n) \/ SpuriousFinished(n)
    PROVE  CoreTypeOK'
<1>0. TypeOK
  BY DEF CoreTypeOK
<1>1. ASSUME NEW t \in Writes, Submit(n, t) PROVE CoreTypeOK'
  <2>1. TypeOK'
    BY <1>0, <1>1, TypeCaller DEF Submit
  <2>2. t \in [type : WriteTag, value : Version]
    BY WritesAssumption
  <2> QED  BY <1>1, <2>1, <2>2 DEF Submit, CoreTypeOK, replicaVars, Peers
<1>2. ASSUME NEW d \in Peers(n), SendWrite(n, d) PROVE CoreTypeOK'
  <2>1. channel' \in [Node -> [Node -> Seq(Message)]]
    BY <1>0, <1>2, WriteFacts, SendMsgType DEF SendWrite, Peers, TypeOK
  <2>2. TypeOK'
    BY <1>0, <1>2, <2>1 DEF SendWrite, TypeOK, callerVars
  <2> QED  BY <1>2, <2>2 DEF SendWrite, CoreTypeOK, replicaVars
<1>3. CASE ExecuteWrite(n)
  <2>1. TypeOK'
    BY <1>0, <1>3 DEF ExecuteWrite, TypeOK, lmVars
  <2>2. /\ version' \in [Node -> Version]
        /\ m_WriteCount' \in [Node -> 0 .. UPDATE_COUNT - 1]
        /\ updates' \in [Node -> Seq(Version)]
    BY <1>3, WriteFacts, ApplyType DEF ExecuteWrite
  <2> QED  BY <1>3, <2>1, <2>2 DEF ExecuteWrite, CoreTypeOK, Stage
<1>4. CASE CheckFinished(n)
  <2>1. TypeOK'
    BY <1>0, <1>4 DEF CheckFinished, CheckFor, TypeOK, lmVars
  <2>2. stage' \in [Node -> Stage] /\ m_FinishedNodes' \in [Node -> Nat]
    <3>1. CASE m_FinishedNodes[n] = Cardinality(Peers(n))
      <4>1. /\ stage' = [stage EXCEPT ![n] = "done"]
            /\ m_FinishedNodes' = [m_FinishedNodes EXCEPT ![n] = 0]
        BY <1>4, <3>1, Zenon DEF CheckFinished, CheckFor
      <4> QED  BY <4>1 DEF CoreTypeOK, Stage
    <3>2. CASE m_FinishedNodes[n] # Cardinality(Peers(n))
      <4>1. /\ stage' = [stage EXCEPT ![n] = "blocking"]
            /\ m_FinishedNodes' = m_FinishedNodes
        BY <1>4, <3>2, Zenon DEF CheckFinished, CheckFor
      <4> QED  BY <4>1 DEF CoreTypeOK, Stage
    <3> QED  BY <3>1, <3>2
  <2> QED  BY <1>4, <2>1, <2>2 DEF CheckFinished, CheckFor, CoreTypeOK, replicaVars
<1>5. CASE SleepFinished(n) \/ SpuriousFinished(n)
  <2>1. TypeOK'
    BY <1>0, <1>5 DEF SleepFinished, SpuriousFinished, TypeOK, lmVars
  <2> QED  BY <1>5, <2>1 DEF SleepFinished, SpuriousFinished, CoreTypeOK,
                             replicaVars, Stage
<1>6. CASE Release(n)
  <2>1. TypeOK'
    BY <1>0, <1>6, TypeCaller DEF Release
  <2> QED  BY <1>6, <2>1 DEF Release, CoreTypeOK, replicaVars, Stage
<1> QED  BY <1>1, <1>2, <1>3, <1>4, <1>5, <1>6 DEF Caller

\* What a handler does keeps the types.
LEMMA CoreTypeReceive ==
    ASSUME CoreTypeOK, NEW n \in Node, NEW s \in Peers(n),
           HandleWrite(n, s) \/ HandleReady(n, s) \/ HandleMutex(n, s)
    PROVE  CoreTypeOK'
<1>0. TypeOK /\ s \in Node
  BY DEF CoreTypeOK, Peers
<1>1. CASE HandleWrite(n, s)
  <2> DEFINE m == Head(channel[s][n])
             t == [type |-> m.tag, value |-> m.data]
             rest == ReceiveMsg(channel, s, n)
  <2>1. m \in Message /\ rest \in [Node -> [Node -> Seq(Message)]]
    BY <1>0, <1>1, ReceiveMsgType DEF HandleWrite, NextMsg, TypeOK
  <2>2. m.data \in Int /\ m.tag \in WriteTag
    BY <1>1, <2>1 DEF HandleWrite, NextMsg, Message
  <2>3. channel' \in [Node -> [Node -> Seq(Message)]]
    <3>1. channel' = SendMsg(rest, n, s, "READY", m.data)
      BY <1>1 DEF HandleWrite
    <3> HIDE DEF rest, m
    <3> QED  BY <1>0, <2>1, <2>2, <3>1, SendMsgType DEF Tag
  <2>4. TypeOK'
    BY <1>0, <1>1, <2>3 DEF HandleWrite, TypeOK, callerVars
  <2>5. Apply(n, t)
    BY <1>1 DEF HandleWrite
  <2>6. /\ version' \in [Node -> Version]
        /\ m_WriteCount' \in [Node -> 0 .. UPDATE_COUNT - 1]
        /\ updates' \in [Node -> Seq(Version)]
    BY <2>2, <2>5, ApplyType
  <2> QED  BY <1>1, <2>4, <2>6 DEF HandleWrite, CoreTypeOK, writerVars
<1>2. CASE HandleReady(n, s)
  <2>1. channel' \in [Node -> [Node -> Seq(Message)]]
    BY <1>0, <1>2, ReceiveMsgType DEF HandleReady, NextMsg, TypeOK
  <2>2. TypeOK'
    BY <1>0, <1>2, <2>1 DEF HandleReady, TypeOK, callerVars
  <2> QED  BY <1>2, <2>2 DEF HandleReady, CoreTypeOK, replicaVars, Stage
<1>3. CASE HandleMutex(n, s)
  <2>1. TypeOK'
    BY <1>0, <1>3, TypeHandler DEF HandleMutex, Take
  <2> QED  BY <1>3, <2>1 DEF HandleMutex, CoreTypeOK, coreVars, replicaVars, writerVars
<1> QED  BY <1>1, <1>2, <1>3

\* Every step keeps them.
LEMMA CoreTypeNext == CoreTypeOK /\ [CoreNext]_clVars => CoreTypeOK'
<1> SUFFICES ASSUME CoreTypeOK, [CoreNext]_clVars PROVE CoreTypeOK'
  OBVIOUS
<1>1. ASSUME NEW n \in Node,
             \/ \E t \in Writes : Submit(n, t)
             \/ Caller(n) \/ SpuriousFinished(n)
      PROVE  CoreTypeOK'
  BY <1>1, CoreTypeCaller
<1>2. ASSUME NEW n \in Node, Receive(n) PROVE CoreTypeOK'
  BY <1>2, CoreTypeReceive DEF Receive
<1>3. ASSUME NEW n \in Node,
             \/ Inside(Acquire(n)) \/ Inside(Leave(n)) \/ Inside(Handle(n))
             \/ Inside(SpuriousWakeup(n))
      PROVE  CoreTypeOK'
  <2>1. TypeOK'
    BY <1>3, TypeCaller, TypeHandler DEF Inside, CoreTypeOK
  <2> QED  BY <1>3, <2>1 DEF Inside, CoreTypeOK, coreVars, replicaVars, writerVars
<1>4. CASE UNCHANGED clVars
  BY <1>4 DEF CoreTypeOK, TypeOK, clVars, lmVars, coreVars, replicaVars, writerVars
<1> QED  BY <1>1, <1>2, <1>3, <1>4 DEF CoreNext

\* Every variable of the core layer keeps its type: above all, no write count
\* reaches UPDATE_COUNT and no version leaves the range of an int.
THEOREM CoreTypeCorrect == CoreSpec => []CoreTypeOK
<1> QED  BY CoreTypeInit, CoreTypeNext, PTL DEF CoreSpec

-----------------------------------------------------------------------------
(* The replicas agree, and every READY is counted for the write it answers *)

\* The caller of a node is in requestCS.
Before == {"tick", "ticked", "request", "okeyCS", "okeyClock", "blocking", "asleep"}

\* The places of the frames with one of the tags in the stream from m to n.
Flight(m, n, tags) == {i \in DOMAIN channel[m][n] : channel[m][n][i].tag \in tags}

Alone(S) == \A i, j \in S : i = j

\* The frames that carry m's write to n are m's write.
Carries(m, n) ==
    \A i \in Flight(m, n, WriteTag) :
        channel[m][n][i] = [tag |-> write[m].type, data |-> write[m].value]

\* The one thread that submits writes waits for each.
OneWriter == \A m, n \in Node : pc[m] # "idle" /\ pc[n] # "idle" => m = n

\* How far the transaction of w has come, by where its caller is.
Phase(w) ==
    /\ unsent[w] \subseteq Peers(w)
    /\ pc[w] \in {"idle", "release"} => stage[w] = "none" /\ unsent[w] = {}
    /\ pc[w] \in Before => stage[w] = "none" /\ unsent[w] = Peers(w)
    /\ stage[w] # "none" => unsent[w] = {}

\* The write of w is, as far as peer d is concerned, in one place at most.
Place(w, d) ==
    /\ Alone(Flight(w, d, WriteTag)) /\ Alone(Flight(d, w, {"READY"}))
    /\ d \in unsent[w] => Flight(w, d, WriteTag) = {} /\ Flight(d, w, {"READY"}) = {}
    /\ Flight(w, d, WriteTag) = {} \/ Flight(d, w, {"READY"}) = {}
    /\ Carries(w, d)

\* The peers of w that have not been counted.
Waiting(w) ==
    {d \in Peers(w) : \/ d \in unsent[w]
                      \/ Flight(w, d, WriteTag) # {}
                      \/ Flight(d, w, {"READY"}) # {}}

Counts(w) ==
    IF pc[w] = "cs" /\ stage[w] # "done"
    THEN m_FinishedNodes[w] + Cardinality(Waiting(w)) = Cardinality(Peers(w))
    ELSE m_FinishedNodes[w] = 0 /\ Waiting(w) \subseteq unsent[w]

\* The replica of n.
Replica(n) == [version |-> version[n], count |-> m_WriteCount[n], updates |-> updates[n]]

\* Node n has the write of w, which is in its critical section, still to execute.
Pending(w, n) ==
    IF n = w THEN stage[w] = "none"
    ELSE n \in unsent[w] \/ Flight(w, n, WriteTag) # {}

\* Those that have it before them agree, and so do those that have executed it;
\* the latter are one write ahead.
Agree(w) ==
    \A m, n \in Node :
        /\ (Pending(w, m) <=> Pending(w, n)) => Replica(m) = Replica(n)
        /\ Pending(w, m) /\ ~Pending(w, n) => Replica(n) = AfterWrite(m, write[w])

Agreement ==
    /\ \A w \in Node : pc[w] = "cs" => Agree(w)
    /\ (\A w \in Node : pc[w] # "cs") => \A m, n \in Node : Replica(m) = Replica(n)

ReplicaInv ==
    /\ CoreTypeOK
    /\ OneWriter
    /\ \A w \in Node : Phase(w) /\ Counts(w)
    /\ \A w \in Node : \A d \in Peers(w) : Place(w, d)
    /\ Agreement

-----------------------------------------------------------------------------
(* Streams *)

\* For frames of these tags nothing has happened to the stream from m to n, but
\* that they may have moved up.
Quiet(m, n, tags) ==
    /\ Flight(m, n, tags)' = {} <=> Flight(m, n, tags) = {}
    /\ Alone(Flight(m, n, tags)) => Alone(Flight(m, n, tags))'
    /\ \A i \in Flight(m, n, tags)' :
          \E j \in Flight(m, n, tags) : channel'[m][n][i] = channel[m][n][j]

\* A stream that is as it was is quiet.
LEMMA QuietSame ==
    ASSUME NEW m \in Node, NEW n \in Node, NEW tags,
           channel'[m][n] = channel[m][n]
    PROVE  Quiet(m, n, tags)
BY DEF Quiet, Flight, Alone

\* What Append does to the places of the frames with some tags.
LEMMA FlightAppend ==
    ASSUME TypeOK, NEW m \in Node, NEW n \in Node, NEW tags, NEW f \in Message,
           channel'[m][n] = Append(channel[m][n], f)
    PROVE  /\ f.tag \notin tags => Quiet(m, n, tags)
           /\ f.tag \in tags /\ Flight(m, n, tags) = {} =>
                /\ Flight(m, n, tags)' = {Len(channel[m][n]) + 1}
                /\ channel'[m][n][Len(channel[m][n]) + 1] = f
<1> DEFINE k == Len(channel[m][n]) + 1
<1>1. channel[m][n] \in Seq(Message)
  BY DEF TypeOK
<1>2. /\ Len(channel[m][n]) \in Nat
      /\ DOMAIN channel[m][n] = 1 .. Len(channel[m][n])
      /\ DOMAIN channel'[m][n] = 1 .. k
      /\ channel'[m][n][k] = f
      /\ \A i \in 1 .. Len(channel[m][n]) : channel'[m][n][i] = channel[m][n][i]
  BY <1>1
<1>3. \A i : i \in 1 .. k <=> i \in 1 .. Len(channel[m][n]) \/ i = k
  BY <1>2
<1>4. \A i : i \in Flight(m, n, tags)' <=>
               \/ i \in Flight(m, n, tags)
               \/ i = k /\ f.tag \in tags
  BY <1>2, <1>3 DEF Flight
<1>5. \A i \in Flight(m, n, tags) : channel'[m][n][i] = channel[m][n][i]
  BY <1>2 DEF Flight
<1> HIDE DEF k
<1>6. ASSUME f.tag \notin tags PROVE Quiet(m, n, tags)
  <2>1. Flight(m, n, tags)' = Flight(m, n, tags)
    BY <1>4, <1>6
  <2> QED  BY <1>5, <2>1 DEF Quiet, Alone
<1>7. ASSUME f.tag \in tags, Flight(m, n, tags) = {}
      PROVE  Flight(m, n, tags)' = {k} /\ channel'[m][n][k] = f
  <2>1. channel'[m][n][k] = f
    BY <1>2 DEF k
  <2> QED  BY <1>4, <1>7, <2>1
<1> QED  BY <1>6, <1>7 DEF k

\* What taking the head does to them.
LEMMA FlightTail ==
    ASSUME TypeOK, NEW m \in Node, NEW n \in Node, NEW tags,
           channel[m][n] # <<>>, channel'[m][n] = Tail(channel[m][n])
    PROVE  /\ Head(channel[m][n]).tag \notin tags => Quiet(m, n, tags)
           /\ Head(channel[m][n]).tag \in tags => 1 \in Flight(m, n, tags)
           /\ Head(channel[m][n]).tag \in tags /\ Alone(Flight(m, n, tags)) =>
                Flight(m, n, tags)' = {}
           /\ Head(channel[m][n]) = channel[m][n][1]
<1>1. channel[m][n] \in Seq(Message)
  BY DEF TypeOK
<1>2. /\ Len(channel[m][n]) \in Nat \ {0}
      /\ DOMAIN channel[m][n] = 1 .. Len(channel[m][n])
      /\ DOMAIN channel'[m][n] = 1 .. Len(channel[m][n]) - 1
      /\ Head(channel[m][n]) = channel[m][n][1]
      /\ \A i \in 1 .. Len(channel[m][n]) - 1 : channel'[m][n][i] = channel[m][n][i + 1]
  BY <1>1
<1>3. \A i \in Flight(m, n, tags)' :
         /\ i \in Nat /\ i + 1 # 1 /\ i + 1 \in Flight(m, n, tags)
         /\ channel'[m][n][i] = channel[m][n][i + 1]
  BY <1>2 DEF Flight
<1>4. \A i \in Flight(m, n, tags) : i # 1 =>
         i \in Nat /\ i - 1 \in Flight(m, n, tags)'
  BY <1>2 DEF Flight
<1>5. Head(channel[m][n]).tag \in tags <=> 1 \in Flight(m, n, tags)
  BY <1>2 DEF Flight
<1>6. ASSUME Head(channel[m][n]).tag \notin tags PROVE Quiet(m, n, tags)
  <2>1. Flight(m, n, tags)' = {} <=> Flight(m, n, tags) = {}
    BY <1>3, <1>4, <1>5, <1>6
  <2>2. ASSUME Alone(Flight(m, n, tags)) PROVE Alone(Flight(m, n, tags))'
    <3> SUFFICES ASSUME NEW i \in Flight(m, n, tags)', NEW j \in Flight(m, n, tags)'
                 PROVE  i = j
      BY DEF Alone
    <3>1. i + 1 = j + 1 /\ i \in Nat /\ j \in Nat
      BY <1>3, <2>2 DEF Alone
    <3> QED  BY <3>1
  <2> QED  BY <1>3, <2>1, <2>2 DEF Quiet
<1>7. ASSUME Head(channel[m][n]).tag \in tags, Alone(Flight(m, n, tags))
      PROVE  Flight(m, n, tags)' = {}
  BY <1>3, <1>5, <1>7 DEF Alone
<1> QED  BY <1>2, <1>5, <1>6, <1>7

-----------------------------------------------------------------------------
(* Steps of the mutex *)

\* The tags that carry a write or its answer.
WriterTags == {WriteTag, {"READY"}}

QuietAll == \A m, n \in Node : \A tags \in WriterTags : Quiet(m, n, tags)

\* Frames of the mutex disturb nothing when they are sent,
LEMMA QuietSend ==
    ASSUME TypeOK, NEW a \in Node, NEW b \in Node, NEW t \in Tag, NEW v \in Int,
           t \notin WriteTag, t # "READY",
           channel' = SendMsg(channel, a, b, t, v)
    PROVE  QuietAll
<1> DEFINE f == [tag |-> t, data |-> v]
<1> SUFFICES ASSUME NEW m \in Node, NEW n \in Node, NEW tags \in WriterTags
             PROVE  Quiet(m, n, tags)
  BY DEF QuietAll
<1>1. f \in Message /\ f.tag \notin tags
  BY DEF Message, WriterTags
<1>2. CASE m = a /\ n = b
  <2>1. channel'[m][n] = Append(channel[m][n], f)
    BY <1>2 DEF SendMsg, TypeOK
  <2> HIDE DEF f
  <2> QED  BY <1>1, <2>1, FlightAppend
<1>3. CASE ~(m = a /\ n = b)
  <2>1. channel'[m][n] = channel[m][n]
    BY <1>3 DEF SendMsg, TypeOK
  <2> QED  BY <2>1, QuietSame
<1> QED  BY <1>2, <1>3

\* nor when they are received,
LEMMA QuietReceive ==
    ASSUME TypeOK, NEW a \in Node, NEW b \in Node, channel[a][b] # <<>>,
           Head(channel[a][b]).tag \notin WriteTag \cup {"READY"},
           channel' = ReceiveMsg(channel, a, b)
    PROVE  QuietAll
<1> SUFFICES ASSUME NEW m \in Node, NEW n \in Node, NEW tags \in WriterTags
             PROVE  Quiet(m, n, tags)
  BY DEF QuietAll
<1>1. CASE m = a /\ n = b
  <2>1. channel'[m][n] = Tail(channel[m][n])
    BY <1>1 DEF ReceiveMsg, TypeOK
  <2>2. Head(channel[m][n]).tag \notin tags
    BY <1>1 DEF WriterTags
  <2> QED  BY <1>1, <2>1, <2>2, FlightTail
<1>2. CASE ~(m = a /\ n = b)
  <2>1. channel'[m][n] = channel[m][n]
    BY <1>2 DEF ReceiveMsg, TypeOK
  <2> QED  BY <2>1, QuietSame
<1> QED  BY <1>1, <1>2

\* nor, of course, when nothing moves.
LEMMA QuietUnchanged == ASSUME channel' = channel PROVE QuietAll
<1> SUFFICES ASSUME NEW m \in Node, NEW n \in Node, NEW tags \in WriterTags
             PROVE  Quiet(m, n, tags)
  BY DEF QuietAll
<1> QED  BY QuietSame

\* The caller of m goes on in requestCS, enters its critical section, or leaves
\* releaseCS; or it stays where it is.
Moves(m) ==
    \/ pc'[m] = pc[m]
    \/ pc[m] \in Before /\ pc'[m] \in Before \cup {"cs"}
    \/ pc[m] = "release" /\ pc'[m] = "idle"

\* A step of the mutex, but for the call of requestCS and of releaseCS, neither
\* sends nor takes a write or a READY.
LEMMA MutexStep ==
    ASSUME CoreTypeOK, NEW n \in Node,
           \/ Acquire(n) \/ Leave(n) \/ Handle(n) \/ SpuriousWakeup(n)
           \/ \E s \in Peers(n) : HandleMutex(n, s)
    PROVE  QuietAll /\ \A m \in Node : Moves(m)
<1>0. TypeOK /\ handler[n] \in Handler /\ local[n] \in Int
  BY DEF CoreTypeOK, TypeOK
<1>1. CASE Tick(n) \/ Enqueue(n) \/ CheckClock(n) \/ Sleep(n)
  <2>1. channel' = channel
    BY <1>1 DEF Tick, Enqueue, CheckClock, Sleep
  <2>2. \A m \in Node : Moves(m)
    <3>1. CASE Tick(n)
      BY <1>0, <3>1 DEF Tick, TypeOK, Moves, Before
    <3>2. CASE Enqueue(n)
      BY <1>0, <3>2 DEF Enqueue, TypeOK, Moves, Before
    <3>3. CASE CheckClock(n)
      BY <1>0, <3>3 DEF CheckClock, TypeOK, Moves, Before
    <3>4. CASE Sleep(n)
      BY <1>0, <3>4 DEF Sleep, TypeOK, Moves, Before
    <3> QED  BY <1>1, <3>1, <3>2, <3>3, <3>4
  <2> QED  BY <2>1, <2>2, QuietUnchanged
<1>2. ASSUME NEW d \in Peers(n), BroadcastRequest(n, d)
      PROVE  QuietAll /\ \A m \in Node : Moves(m)
  <2>1. channel' = SendMsg(channel, n, d, "REQUEST", local[n]) /\ d \in Node
    BY <1>2 DEF BroadcastRequest, Peers
  <2>2. QuietAll
    BY <1>0, <2>1, QuietSend DEF Tag, WriteTag
  <2>3. \A m \in Node : Moves(m)
    <3>1. CASE todo[n] = {d}
      <4>1. pc' = [pc EXCEPT ![n] = "okeyCS"] /\ pc[n] = "request"
        BY <1>2, <3>1, Zenon DEF BroadcastRequest
      <4> QED  BY <1>0, <4>1 DEF TypeOK, Moves, Before
    <3>2. CASE todo[n] # {d}
      <4>1. pc' = pc
        BY <1>2, <3>2, Zenon DEF BroadcastRequest
      <4> QED  BY <4>1 DEF Moves
    <3> QED  BY <3>1, <3>2
  <2> QED  BY <2>2, <2>3
<1>3. ASSUME NEW d \in Peers(n), CheckQueue(n, d)
      PROVE  QuietAll /\ \A m \in Node : Moves(m)
  <2>1. channel' = channel
    BY <1>3 DEF CheckQueue
  <2>2. \A m \in Node : Moves(m)
    BY <1>0, <1>3 DEF CheckQueue, TypeOK, Moves, Before
  <2> QED  BY <2>1, <2>2, QuietUnchanged
<1>4. ASSUME NEW d \in Peers(n), BroadcastRelease(n, d)
      PROVE  QuietAll /\ \A m \in Node : Moves(m)
  <2>1. channel' = SendMsg(channel, n, d, "RELEASE", local[n]) /\ d \in Node
    BY <1>4 DEF BroadcastRelease, Peers
  <2>2. QuietAll
    BY <1>0, <2>1, QuietSend DEF Tag, WriteTag
  <2>3. \A m \in Node : Moves(m)
    <3>1. CASE todo[n] = {d}
      <4>1. pc' = [pc EXCEPT ![n] = "idle"] /\ pc[n] = "release"
        BY <1>4, <3>1, Zenon DEF BroadcastRelease
      <4> QED  BY <1>0, <4>1 DEF TypeOK, Moves
    <3>2. CASE todo[n] # {d}
      <4>1. pc' = pc
        BY <1>4, <3>2, Zenon DEF BroadcastRelease
      <4> QED  BY <4>1 DEF Moves
    <3> QED  BY <3>1, <3>2
  <2> QED  BY <2>2, <2>3
<1>5. ASSUME WakeUp(n) PROVE \A m \in Node : Moves(m)
  <2>1. CASE pc[n] = "asleep"
    <3>1. pc' = [pc EXCEPT ![n] = "okeyCS"]
      BY <1>5, <2>1 DEF WakeUp
    <3> QED  BY <1>0, <2>1, <3>1 DEF TypeOK, Moves, Before
  <2>2. CASE pc[n] # "asleep"
    BY <1>5, <2>2 DEF WakeUp, Moves
  <2> QED  BY <2>1, <2>2
<1>6. CASE SpuriousWakeup(n) \/ HandleRelease(n) \/ HandleOther(n)
  <2>1. channel' = channel /\ WakeUp(n)
    BY <1>6 DEF SpuriousWakeup, HandleRelease, HandleOther, NotifyAll
  <2> QED  BY <1>5, <2>1, QuietUnchanged
<1>7. CASE RecieveAction(n) \/ HandleRequest(n)
  <2>1. channel' = channel /\ pc' = pc
    BY <1>7 DEF RecieveAction, HandleRequest, callerVars
  <2> QED  BY <2>1, QuietUnchanged DEF Moves
<1>8. CASE SendAck(n)
  <2>1. /\ channel' = SendMsg(channel, n, handler[n].src, "ACK", handler[n].own)
        /\ WakeUp(n)
    BY <1>8 DEF SendAck, NotifyAll
  <2>2. handler[n].src \in Node /\ handler[n].own \in Int
    BY <1>0 DEF Handler
  <2>3. QuietAll
    BY <1>0, <2>1, <2>2, QuietSend DEF Tag, WriteTag
  <2> QED  BY <1>5, <2>1, <2>3
<1>9. ASSUME NEW s \in Peers(n), HandleMutex(n, s)
      PROVE  QuietAll /\ \A m \in Node : Moves(m)
  <2>1. /\ s \in Node /\ channel[s][n] # <<>>
        /\ Head(channel[s][n]).tag \notin WriteTag \cup {"READY"}
        /\ channel' = ReceiveMsg(channel, s, n) /\ pc' = pc
    BY <1>9 DEF HandleMutex, NextMsg, HandleMsg, callerVars, Peers
  <2> QED  BY <1>0, <2>1, QuietReceive DEF Moves
<1> QED  BY <1>1, <1>2, <1>3, <1>4, <1>6, <1>7, <1>8, <1>9 DEF Acquire, Leave, Handle

-----------------------------------------------------------------------------
(* What a step that is quiet for writes and READYs leaves alone *)

\* To be a peer is mutual.
LEMMA PeerFacts ==
    ASSUME NEW w \in Node, NEW d \in Peers(w)
    PROVE  d \in Node /\ d # w /\ w \in Peers(d)
BY DEF Peers

\* A write that nothing moves stays where it is,
LEMMA PlaceQuiet ==
    ASSUME NEW w \in Node, NEW d \in Node, Place(w, d),
           Quiet(w, d, WriteTag), Quiet(d, w, {"READY"}),
           unsent'[w] = unsent[w], write'[w] = write[w]
    PROVE  Place(w, d)'
<1>1. Carries(w, d)'
  BY DEF Quiet, Carries, Place
<1> QED  BY <1>1 DEF Quiet, Place

\* its writer waits for whom it waited for,
LEMMA WaitingQuiet ==
    ASSUME NEW w \in Node, QuietAll, unsent'[w] = unsent[w]
    PROVE  Waiting(w)' = Waiting(w)
<1>1. ASSUME NEW d \in Peers(w)
      PROVE  /\ Flight(w, d, WriteTag)' = {} <=> Flight(w, d, WriteTag) = {}
             /\ Flight(d, w, {"READY"})' = {} <=> Flight(d, w, {"READY"}) = {}
  <2>1. Quiet(w, d, WriteTag) /\ Quiet(d, w, {"READY"})
    BY PeerFacts DEF QuietAll, WriterTags
  <2> QED  BY <2>1 DEF Quiet
<1> QED  BY <1>1 DEF Waiting

\* and who had it to execute still has.
LEMMA PendingQuiet ==
    ASSUME NEW w \in Node, NEW n \in Node, QuietAll, unsent'[w] = unsent[w],
           stage'[w] = "none" <=> stage[w] = "none"
    PROVE  Pending(w, n)' <=> Pending(w, n)
<1>1. Flight(w, n, WriteTag)' = {} <=> Flight(w, n, WriteTag) = {}
  <2>1. Quiet(w, n, WriteTag)
    BY DEF QuietAll, WriterTags
  <2> QED  BY <2>1 DEF Quiet
<1> QED  BY <1>1 DEF Pending

\* Nothing is executed, and who has executed the write of w stays the same.
LEMMA AgreeQuiet ==
    ASSUME NEW w \in Node, Agree(w), UNCHANGED replicaVars, write'[w] = write[w],
           \A n \in Node : Pending(w, n)' <=> Pending(w, n)
    PROVE  Agree(w)'
<1>1. \A n \in Node : Replica(n)' = Replica(n)
  BY DEF Replica, replicaVars
<1>2. \A n \in Node : AfterWrite(n, write[w])' = AfterWrite(n, write[w])
  BY DEF AfterWrite, replicaVars
<1> QED  BY <1>1, <1>2 DEF Agree

\* Before the write is sent all have it before them.
LEMMA AllPending ==
    ASSUME NEW w \in Node, stage[w] = "none", unsent[w] = Peers(w)
    PROVE  /\ \A n \in Node : Pending(w, n)
           /\ Waiting(w) = Peers(w)
BY DEF Pending, Peers, Waiting

\* A writer that has counted every READY has no peer that has not executed.
LEMMA NonePending ==
    ASSUME ReplicaInv, NEW w \in Node, pc[w] = "cs", stage[w] = "done"
    PROVE  \A n \in Node : ~Pending(w, n)
<1>1. unsent[w] = {} /\ Waiting(w) \subseteq unsent[w]
  BY DEF ReplicaInv, Phase, Counts
<1> QED  BY <1>1 DEF Pending, Waiting, Peers

\* Of the steps of the mutex the transaction takes no notice.
LEMMA ReplicaMutex ==
    ASSUME ReplicaInv, CoreTypeOK', QuietAll, \A m \in Node : Moves(m),
           UNCHANGED coreVars
    PROVE  ReplicaInv'
<1>1. OneWriter'
  <2>1. \A m \in Node : pc'[m] # "idle" => pc[m] # "idle"
    BY DEF Moves, Before
  <2> QED  BY <2>1 DEF ReplicaInv, OneWriter
<1>2. ASSUME NEW w \in Node PROVE Phase(w)'
  <2>1. Phase(w) /\ Moves(w)
    BY DEF ReplicaInv
  <2> QED  BY <2>1 DEF Phase, Moves, Before, coreVars, writerVars, Peers
<1>3. ASSUME NEW w \in Node PROVE Counts(w)'
  <2>1. Phase(w) /\ Counts(w) /\ Moves(w)
    BY DEF ReplicaInv
  <2>2. Waiting(w)' = Waiting(w) /\ Peers(w)' = Peers(w)
    BY WaitingQuiet DEF coreVars, writerVars, Peers
  <2>3. UNCHANGED <<stage, unsent, m_FinishedNodes>>
    BY DEF coreVars, writerVars
  <2>4. CASE pc'[w] = pc[w]
    BY <2>1, <2>2, <2>3, <2>4 DEF Counts
  <2>5. CASE pc[w] = "release" /\ pc'[w] = "idle"
    BY <2>1, <2>2, <2>3, <2>5 DEF Counts
  <2>6. CASE pc[w] \in Before /\ pc'[w] \in Before \cup {"cs"}
    <3>1. stage[w] = "none" /\ unsent[w] = Peers(w) /\ pc[w] # "cs"
      BY <2>1, <2>6 DEF Phase, Before
    <3>2. m_FinishedNodes[w] = 0 /\ Waiting(w) = Peers(w)
      BY <2>1, <3>1, AllPending DEF Counts
    <3>3. IsFiniteSet(Peers(w))
      BY NodeAssumption, FS_RemoveElement DEF Peers
    <3>4. Cardinality(Peers(w)) \in Nat
      BY <3>3, FS_CardinalityType
    <3>5. 0 + Cardinality(Peers(w)) = Cardinality(Peers(w))
      BY <3>4
    <3> QED  BY <2>2, <2>3, <3>1, <3>2, <3>5 DEF Counts
  <2> QED  BY <2>1, <2>4, <2>5, <2>6 DEF Moves
<1>4. ASSUME NEW w \in Node, NEW d \in Peers(w) PROVE Place(w, d)'
  <2>1. /\ d \in Node /\ Place(w, d)
        /\ Quiet(w, d, WriteTag) /\ Quiet(d, w, {"READY"})
    BY PeerFacts DEF ReplicaInv, QuietAll, WriterTags
  <2> QED  BY <2>1, PlaceQuiet DEF coreVars, writerVars
<1>5. Agreement'
  <2>1. /\ UNCHANGED replicaVars
        /\ \A w \in Node : UNCHANGED <<write[w], stage[w], unsent[w]>>
    BY DEF coreVars, writerVars
  <2>2. \A w, n \in Node : Pending(w, n)' <=> Pending(w, n)
    BY <2>1, PendingQuiet
  <2>3. ASSUME NEW w \in Node, pc'[w] = "cs" PROVE Agree(w)'
    <3>1. CASE pc[w] = "cs"
      <4>1. Agree(w)
        BY <3>1 DEF ReplicaInv, Agreement
      <4> QED  BY <2>1, <2>2, <4>1, AgreeQuiet
    <3>2. CASE pc[w] # "cs"
      <4>1. pc[w] \in Before
        BY <2>3, <3>2 DEF Moves
      <4>2. \A v \in Node : pc[v] # "cs"
        BY <4>1 DEF ReplicaInv, OneWriter, Before
      <4>3. \A n \in Node : Pending(w, n)
        BY <4>1, AllPending DEF ReplicaInv, Phase
      <4>4. Agree(w)
        BY <4>2, <4>3 DEF ReplicaInv, Agreement, Agree
      <4> QED  BY <2>1, <2>2, <4>4, AgreeQuiet
    <3> QED  BY <3>1, <3>2
  <2>4. ASSUME \A w \in Node : pc'[w] # "cs"
        PROVE  \A m, n \in Node : Replica(m)' = Replica(n)'
    <3>1. \A w \in Node : pc[w] # "cs"
      BY <2>4 DEF Moves, Before
    <3>2. \A n \in Node : Replica(n)' = Replica(n)
      BY <2>1 DEF Replica, replicaVars
    <3> QED  BY <3>1, <3>2 DEF ReplicaInv, Agreement
  <2> QED  BY <2>3, <2>4 DEF Agreement
<1> QED  BY <1>1, <1>2, <1>3, <1>4, <1>5 DEF ReplicaInv, Peers

-----------------------------------------------------------------------------
(* The writer's steps *)

\* A file submits a write.
LEMMA ReplicaSubmit ==
    ASSUME ReplicaInv, CoreTypeOK', NEW n \in Node, NEW t \in Writes, Submit(n, t)
    PROVE  ReplicaInv'
<1>0. /\ CoreTypeOK /\ TypeOK /\ \A m \in Node : pc[m] = "idle"
      /\ channel' = channel /\ pc' = [pc EXCEPT ![n] = "tick"]
      /\ write' = [write EXCEPT ![n] = t] /\ unsent' = [unsent EXCEPT ![n] = Peers(n)]
      /\ UNCHANGED <<version, m_WriteCount, updates, stage, m_FinishedNodes>>
  BY DEF Submit, RequestCS, replicaVars, ReplicaInv, CoreTypeOK
<1>1. /\ pc'[n] = "tick" /\ unsent'[n] = Peers(n)
      /\ \A w \in Node : w # n => /\ pc'[w] = "idle" /\ unsent'[w] = unsent[w]
                                  /\ write'[w] = write[w]
  BY <1>0 DEF TypeOK, CoreTypeOK
<1>2. \A w \in Node : /\ unsent[w] = {} /\ stage[w] = "none" /\ Waiting(w) = {}
                      /\ m_FinishedNodes[w] = 0
  <2> SUFFICES ASSUME NEW w \in Node
               PROVE  /\ unsent[w] = {} /\ stage[w] = "none" /\ Waiting(w) = {}
                      /\ m_FinishedNodes[w] = 0
    OBVIOUS
  <2>1. pc[w] = "idle" /\ Phase(w) /\ Counts(w)
    BY <1>0 DEF ReplicaInv
  <2> QED  BY <2>1 DEF Phase, Counts
<1>3. QuietAll
  BY <1>0, QuietUnchanged
<1>4. OneWriter'
  BY <1>1 DEF OneWriter
<1>5. ASSUME NEW w \in Node PROVE Phase(w)' /\ Counts(w)'
  <2>1. Phase(w) /\ stage'[w] = "none" /\ m_FinishedNodes'[w] = 0
    BY <1>0, <1>2 DEF ReplicaInv
  <2>2. CASE w = n
    <3>1. Waiting(w)' \subseteq Peers(w)
      BY DEF Waiting, Peers
    <3> QED  BY <1>1, <2>1, <2>2, <3>1 DEF Phase, Counts, Before, Peers
  <2>3. CASE w # n
    <3>1. Waiting(w)' = Waiting(w)
      BY <1>1, <1>3, <2>3, WaitingQuiet
    <3> QED  BY <1>1, <1>2, <2>1, <2>3, <3>1 DEF Phase, Counts, Before
  <2> QED  BY <2>2, <2>3
<1>6. ASSUME NEW w \in Node, NEW d \in Peers(w) PROVE Place(w, d)'
  <2>1. /\ d \in Node /\ Place(w, d)
        /\ Quiet(w, d, WriteTag) /\ Quiet(d, w, {"READY"})
    BY <1>3, PeerFacts DEF ReplicaInv, QuietAll, WriterTags
  <2>2. CASE w # n
    BY <1>1, <2>1, <2>2, PlaceQuiet
  <2>3. CASE w = n
    <3>1. Flight(w, d, WriteTag) = {} /\ Flight(d, w, {"READY"}) = {}
      BY <1>2 DEF Waiting
    <3>2. Flight(w, d, WriteTag)' = {} /\ Flight(d, w, {"READY"})' = {}
      BY <2>1, <3>1 DEF Quiet
    <3> QED  BY <3>2 DEF Place, Alone, Carries
  <2> QED  BY <2>2, <2>3
<1>7. Agreement'
  <2>1. \A w \in Node : pc[w] # "cs" /\ pc'[w] # "cs"
    BY <1>0, <1>1
  <2>2. \A m \in Node : Replica(m)' = Replica(m)
    BY <1>0 DEF Replica
  <2> QED  BY <2>1, <2>2 DEF ReplicaInv, Agreement
<1> QED  BY <1>4, <1>5, <1>6, <1>7 DEF ReplicaInv, Peers

\* Only n's caller is in a critical section, and it stays the only one.
LEMMA OnlyWriter ==
    ASSUME ReplicaInv, NEW n \in Node, pc[n] = "cs"
    PROVE  /\ \A w \in Node : w # n => pc[w] = "idle"
           /\ Agree(n)
BY DEF ReplicaInv, OneWriter, Agreement

\* With n in its critical section, what is left to show of Agreement.
LEMMA AgreementOf ==
    ASSUME ReplicaInv, NEW n \in Node, pc[n] = "cs", pc' = pc, Agree(n)'
    PROVE  Agreement'
BY OnlyWriter DEF Agreement

\* The writer sends its write to one peer.
LEMMA ReplicaSendWrite ==
    ASSUME ReplicaInv, CoreTypeOK', NEW n \in Node, NEW d \in Peers(n), SendWrite(n, d)
    PROVE  ReplicaInv'
<1> DEFINE f == [tag |-> write[n].type, data |-> write[n].value]
<1>0. /\ CoreTypeOK /\ TypeOK /\ pc[n] = "cs" /\ d \in unsent[n]
      /\ channel' = SendMsg(channel, n, d, write[n].type, write[n].value)
      /\ unsent' = [unsent EXCEPT ![n] = @ \ {d}]
      /\ UNCHANGED <<pc, write, stage, m_FinishedNodes, version, m_WriteCount, updates>>
  BY DEF SendWrite, callerVars, replicaVars, ReplicaInv, CoreTypeOK
<1>p. d \in Node /\ d # n
  BY PeerFacts
<1>1. /\ unsent'[n] = unsent[n] \ {d}
      /\ \A w \in Node : w # n => unsent'[w] = unsent[w]
  BY <1>0 DEF CoreTypeOK
<1>2. f.tag \in WriteTag /\ f \in Message
  BY <1>0, WriteFacts DEF Message
<1>3. /\ channel'[n][d] = Append(channel[n][d], f)
      /\ \A a, b \in Node : ~(a = n /\ b = d) => channel'[a][b] = channel[a][b]
  BY <1>0, <1>p DEF SendMsg, TypeOK
<1>4. /\ Place(n, d) /\ Phase(n) /\ Counts(n)
      /\ Flight(n, d, WriteTag) = {} /\ Flight(d, n, {"READY"}) = {}
  BY <1>0 DEF ReplicaInv, Place
<1>5. \E k : Flight(n, d, WriteTag)' = {k} /\ channel'[n][d][k] = f
  <2> HIDE DEF f
  <2>1. /\ TypeOK /\ d \in Node /\ f \in Message
        /\ channel'[n][d] = Append(channel[n][d], f)
    BY <1>0, <1>p, <1>2, <1>3
  <2>2. /\ Flight(n, d, WriteTag)' = {Len(channel[n][d]) + 1}
        /\ channel'[n][d][Len(channel[n][d]) + 1] = f
    BY <1>2, <1>4, <2>1, FlightAppend
  <2> QED  BY <2>2
<1>6. \A a, b \in Node : \A tags \in WriterTags :
         ~(a = n /\ b = d /\ tags = WriteTag) => Quiet(a, b, tags)
  <2> SUFFICES ASSUME NEW a \in Node, NEW b \in Node, NEW tags \in WriterTags,
                      ~(a = n /\ b = d /\ tags = WriteTag)
               PROVE  Quiet(a, b, tags)
    OBVIOUS
  <2>1. CASE a = n /\ b = d
    <3>1. f.tag \notin tags
      BY <1>2, <2>1 DEF WriterTags, WriteTag
    <3> HIDE DEF f
    <3> QED  BY <1>0, <1>2, <1>3, <2>1, <3>1, FlightAppend
  <2>2. CASE ~(a = n /\ b = d)
    BY <1>3, <2>2, QuietSame
  <2> QED  BY <2>1, <2>2
<1>7. \A w \in Node : \A e \in Peers(w) :
        /\ Quiet(e, w, {"READY"})
        /\ ~(w = n /\ e = d) => Quiet(w, e, WriteTag)
  BY <1>6, PeerFacts DEF WriterTags, WriteTag
<1>8. \A w \in Node : Waiting(w)' = Waiting(w)
  <2> SUFFICES ASSUME NEW w \in Node, NEW e \in Peers(w)
               PROVE  e \in Waiting(w)' <=> e \in Waiting(w)
    BY DEF Waiting, Peers
  <2>1. CASE w = n /\ e = d
    BY <1>0, <1>5, <2>1 DEF Waiting, Peers
  <2>2. CASE ~(w = n /\ e = d)
    BY <1>1, <1>7, <2>2 DEF Waiting, Quiet, Peers
  <2> QED  BY <2>1, <2>2
<1>9. OneWriter'
  BY <1>0 DEF ReplicaInv, OneWriter
<1>10. ASSUME NEW w \in Node PROVE Phase(w)' /\ Counts(w)'
  <2>1. Phase(w) /\ Counts(w)
    BY DEF ReplicaInv
  <2>2. CASE w = n
    BY <1>0, <1>1, <1>8, <2>1, <2>2 DEF Phase, Counts, Peers, Before
  <2>3. CASE w # n
    BY <1>0, <1>1, <1>8, <2>1, <2>3 DEF Phase, Counts, Peers
  <2> QED  BY <2>2, <2>3
<1>11. ASSUME NEW w \in Node, NEW e \in Peers(w) PROVE Place(w, e)'
  <2>1. Place(w, e) /\ e \in Node
    BY PeerFacts DEF ReplicaInv
  <2>2. CASE w # n
    BY <1>0, <1>1, <1>7, <2>1, <2>2, PlaceQuiet
  <2>3. CASE w = n /\ e # d
    <3>1. Quiet(w, e, WriteTag) /\ Quiet(e, w, {"READY"})
      BY <1>7, <2>3
    <3>2. Carries(w, e)'
      BY <1>0, <2>1, <3>1 DEF Quiet, Carries, Place
    <3> QED  BY <1>1, <2>1, <2>3, <3>1, <3>2 DEF Quiet, Place
  <2>4. CASE w = n /\ e = d
    <3>1. Flight(e, w, {"READY"})' = {}
      BY <1>4, <1>7, <2>4 DEF Quiet
    <3>2. Carries(w, e)'
      BY <1>0, <1>5, <2>4 DEF Carries
    <3> QED  BY <1>1, <1>5, <2>4, <3>1, <3>2 DEF Place, Alone
  <2> QED  BY <2>2, <2>3, <2>4
<1>12. Agreement'
  <2>1. \A e \in Node : Pending(n, e)' <=> Pending(n, e)
    <3> SUFFICES ASSUME NEW e \in Node PROVE Pending(n, e)' <=> Pending(n, e)
      OBVIOUS
    <3>1. CASE e = n
      BY <1>0, <3>1 DEF Pending
    <3>2. CASE e = d
      BY <1>0, <1>5, <1>p, <3>2 DEF Pending
    <3>3. CASE e # n /\ e # d
      BY <1>1, <1>7, <3>3 DEF Pending, Quiet, Peers
    <3> QED  BY <3>1, <3>2, <3>3
  <2>2. Agree(n)'
    BY <1>0, <2>1, OnlyWriter, AgreeQuiet DEF replicaVars
  <2> QED  BY <1>0, <2>2, AgreementOf
<1> QED  BY <1>9, <1>10, <1>11, <1>12 DEF ReplicaInv, Peers

\* A node x that has the write of w before it executes it.
LEMMA AgreeApply ==
    ASSUME CoreTypeOK, NEW w \in Node, NEW x \in Node, Agree(w), Apply(x, write[w]),
           write'[w] = write[w], Pending(w, x), ~Pending(w, x)',
           \A n \in Node : n # x => (Pending(w, n)' <=> Pending(w, n))
    PROVE  Agree(w)'
<1> DEFINE t == write[w]
           A(n) == AfterWrite(n, t)
<1>1. /\ Replica(x)' = A(x)
      /\ \A n \in Node : n # x => Replica(n)' = Replica(n) /\ A(n)' = A(n)
  <2>1. Replica(x)' = [version |-> A(x).version, count |-> A(x).count,
                       updates |-> A(x).updates]
    BY DEF Apply, Replica, CoreTypeOK
  <2>2. A(x) = [version |-> A(x).version, count |-> A(x).count, updates |-> A(x).updates]
    BY DEF AfterWrite
  <2>3. ASSUME NEW n \in Node, n # x
        PROVE  Replica(n)' = Replica(n) /\ A(n)' = A(n)
    BY <2>3 DEF Apply, Replica, AfterWrite, CoreTypeOK
  <2> QED  BY <2>1, <2>2, <2>3
<1>2. ASSUME NEW m \in Node, NEW n \in Node, Replica(m) = Replica(n) PROVE A(m) = A(n)
  <2>1. version[m] = version[n] /\ m_WriteCount[m] = m_WriteCount[n] /\ updates[m] = updates[n]
    BY <1>2 DEF Replica
  <2> QED  BY <2>1 DEF AfterWrite
<1>3. \A n \in Node : Pending(w, n) => A(n) = A(x)
  BY <1>2 DEF Agree
<1>4. \A n \in Node : ~Pending(w, n) => Replica(n) = A(x)
  BY DEF Agree
<1>5. \A m, n \in Node : Pending(w, m) /\ Pending(w, n) => Replica(m) = Replica(n)
  BY DEF Agree
<1> HIDE DEF A
<1>6. \A n \in Node : ~Pending(w, n)' => Replica(n)' = A(x)
  BY <1>1, <1>4
<1>7. \A m, n \in Node : Pending(w, m)' /\ Pending(w, n)' => Replica(m)' = Replica(n)'
  BY <1>1, <1>5
<1>8. \A m \in Node : Pending(w, m)' => A(m)' = A(x)
  BY <1>1, <1>3
<1> QED  BY <1>6, <1>7, <1>8 DEF Agree, A

\* The writer executes it.
LEMMA ReplicaExecuteWrite ==
    ASSUME ReplicaInv, CoreTypeOK', NEW n \in Node, ExecuteWrite(n)
    PROVE  ReplicaInv'
<1>0. /\ CoreTypeOK /\ pc[n] = "cs" /\ stage[n] = "none" /\ unsent[n] = {}
      /\ stage' = [stage EXCEPT ![n] = "wait"] /\ Apply(n, write[n])
      /\ UNCHANGED <<channel, pc, write, unsent, m_FinishedNodes>>
  BY DEF ExecuteWrite, lmVars, ReplicaInv
<1>1. stage'[n] = "wait" /\ \A w \in Node : w # n => stage'[w] = stage[w]
  BY <1>0 DEF CoreTypeOK
<1>2. QuietAll
  BY <1>0, QuietUnchanged
<1>3. OneWriter'
  BY <1>0 DEF ReplicaInv, OneWriter
<1>4. ASSUME NEW w \in Node PROVE Phase(w)' /\ Counts(w)'
  <2>1. Phase(w) /\ Counts(w) /\ Waiting(w)' = Waiting(w)
    BY <1>0, <1>2, WaitingQuiet DEF ReplicaInv
  <2>2. CASE w = n
    BY <1>0, <1>1, <2>1, <2>2 DEF Phase, Counts, Peers, Before
  <2>3. CASE w # n
    BY <1>0, <1>1, <2>1, <2>3 DEF Phase, Counts, Peers
  <2> QED  BY <2>2, <2>3
<1>5. ASSUME NEW w \in Node, NEW d \in Peers(w) PROVE Place(w, d)'
  <2>1. /\ d \in Node /\ Place(w, d)
        /\ Quiet(w, d, WriteTag) /\ Quiet(d, w, {"READY"})
    BY <1>2, PeerFacts DEF ReplicaInv, QuietAll, WriterTags
  <2> QED  BY <1>0, <2>1, PlaceQuiet
<1>6. Agreement'
  <2>1. Pending(n, n) /\ ~Pending(n, n)'
    BY <1>0, <1>1 DEF Pending
  <2>2. ASSUME NEW e \in Node, e # n PROVE Pending(n, e)' <=> Pending(n, e)
    BY <1>0, <2>2 DEF Pending, Flight
  <2>3. Agree(n)'
    BY <1>0, <2>1, <2>2, OnlyWriter, AgreeApply
  <2> QED  BY <1>0, <2>3, AgreementOf
<1> QED  BY <1>3, <1>4, <1>5, <1>6 DEF ReplicaInv, Peers

\* A step within the wait for the READYs, which has not ended.
LEMMA ReplicaWaits ==
    ASSUME ReplicaInv, CoreTypeOK', UNCHANGED <<lmVars, replicaVars, write, unsent>>,
           m_FinishedNodes' = m_FinishedNodes,
           \A w \in Node : /\ stage'[w] = "none" <=> stage[w] = "none"
                           /\ stage'[w] = "done" <=> stage[w] = "done"
    PROVE  ReplicaInv'
<1>1. QuietAll /\ UNCHANGED <<channel, pc>>
  BY QuietUnchanged DEF lmVars
<1>2. OneWriter'
  BY <1>1 DEF ReplicaInv, OneWriter
<1>3. ASSUME NEW w \in Node PROVE Phase(w)' /\ Counts(w)'
  <2>1. Phase(w) /\ Counts(w) /\ Waiting(w)' = Waiting(w)
    BY <1>1, WaitingQuiet DEF ReplicaInv
  <2> QED  BY <1>1, <2>1 DEF Phase, Counts, Peers
<1>4. ASSUME NEW w \in Node, NEW d \in Peers(w) PROVE Place(w, d)'
  <2>1. /\ d \in Node /\ Place(w, d)
        /\ Quiet(w, d, WriteTag) /\ Quiet(d, w, {"READY"})
    BY <1>1, PeerFacts DEF ReplicaInv, QuietAll, WriterTags
  <2> QED  BY <2>1, PlaceQuiet
<1>5. Agreement'
  <2>1. \A w, n \in Node : Pending(w, n)' <=> Pending(w, n)
    BY <1>1, PendingQuiet
  <2>2. \A w \in Node : Agree(w) => Agree(w)'
    BY <2>1, AgreeQuiet
  <2>3. \A n \in Node : Replica(n)' = Replica(n)
    BY DEF Replica, replicaVars
  <2> QED  BY <1>1, <2>2, <2>3 DEF ReplicaInv, Agreement
<1> QED  BY <1>2, <1>3, <1>4, <1>5 DEF ReplicaInv, Peers

\* The peers can be counted.
LEMMA PeersFinite ==
    ASSUME NEW w \in Node
    PROVE  /\ IsFiniteSet(Peers(w)) /\ IsFiniteSet(Waiting(w))
           /\ Cardinality(Peers(w)) \in Nat /\ Cardinality(Waiting(w)) \in Nat
<1>1. IsFiniteSet(Peers(w))
  BY NodeAssumption, FS_RemoveElement DEF Peers
<1>2. Waiting(w) \in SUBSET Peers(w)
  BY DEF Waiting
<1>3. IsFiniteSet(Waiting(w))
  BY <1>1, <1>2, FS_Subset
<1> QED  BY <1>1, <1>3, FS_CardinalityType

\* The writer looks whether all have answered.
LEMMA ReplicaCheckFinished ==
    ASSUME ReplicaInv, CoreTypeOK', NEW n \in Node, CheckFinished(n)
    PROVE  ReplicaInv'
<1>0. CoreTypeOK /\ stage[n] = "wait"
  BY DEF ReplicaInv, CheckFinished, CheckFor
<1>1. CASE m_FinishedNodes[n] # Cardinality(Peers(n))
  <2>1. /\ stage' = [stage EXCEPT ![n] = "blocking"]
        /\ UNCHANGED m_FinishedNodes
        /\ UNCHANGED <<lmVars, replicaVars, write, unsent>>
    BY <1>1, Zenon DEF CheckFinished, CheckFor
  <2>2. \A w \in Node : /\ stage'[w] = "none" <=> stage[w] = "none"
                        /\ stage'[w] = "done" <=> stage[w] = "done"
    BY <1>0, <2>1 DEF CoreTypeOK
  <2> QED  BY <2>1, <2>2, ReplicaWaits
<1>2. CASE m_FinishedNodes[n] = Cardinality(Peers(n))
  <2>1. /\ stage' = [stage EXCEPT ![n] = "done"]
        /\ m_FinishedNodes' = [m_FinishedNodes EXCEPT ![n] = 0]
        /\ UNCHANGED <<lmVars, replicaVars, write, unsent>>
    BY <1>2, Zenon DEF CheckFinished, CheckFor
  <2>2. /\ stage'[n] = "done" /\ m_FinishedNodes'[n] = 0
        /\ \A w \in Node : w # n => /\ stage'[w] = stage[w]
                                    /\ m_FinishedNodes'[w] = m_FinishedNodes[w]
    BY <1>0, <2>1 DEF CoreTypeOK
  <2>3. pc[n] = "cs" /\ unsent[n] = {}
    <3>1. Phase(n) /\ pc[n] \in PC
      BY <1>0 DEF ReplicaInv, CoreTypeOK, TypeOK
    <3> QED  BY <1>0, <3>1 DEF Phase, PC, Before
  <2>4. Waiting(n) = {}
    <3>1. m_FinishedNodes[n] + Cardinality(Waiting(n)) = Cardinality(Peers(n))
      BY <1>0, <2>3 DEF ReplicaInv, Counts
    <3>2. Cardinality(Waiting(n)) = 0
      BY <1>2, <3>1, PeersFinite
    <3> QED  BY <3>2, PeersFinite, FS_EmptySet
  <2>5. QuietAll /\ UNCHANGED <<channel, pc>>
    BY <2>1, QuietUnchanged DEF lmVars
  <2>6. OneWriter'
    BY <2>5 DEF ReplicaInv, OneWriter
  <2>7. ASSUME NEW w \in Node PROVE Phase(w)' /\ Counts(w)'
    <3>1. Phase(w) /\ Counts(w) /\ Waiting(w)' = Waiting(w)
      BY <2>1, <2>5, WaitingQuiet DEF ReplicaInv
    <3>2. CASE w = n
      BY <2>1, <2>2, <2>3, <2>4, <2>5, <3>1, <3>2 DEF Phase, Counts, Peers, Before
    <3>3. CASE w # n
      BY <2>1, <2>2, <2>5, <3>1, <3>3 DEF Phase, Counts, Peers
    <3> QED  BY <3>2, <3>3
  <2>8. ASSUME NEW w \in Node, NEW d \in Peers(w) PROVE Place(w, d)'
    <3>1. /\ d \in Node /\ Place(w, d)
          /\ Quiet(w, d, WriteTag) /\ Quiet(d, w, {"READY"})
      BY <2>5, PeerFacts DEF ReplicaInv, QuietAll, WriterTags
    <3> QED  BY <2>1, <3>1, PlaceQuiet
  <2>9. Agreement'
    <3>1. \A e \in Node : Pending(n, e)' <=> Pending(n, e)
      BY <1>0, <2>1, <2>2, <2>5, PendingQuiet
    <3>2. Agree(n)'
      BY <2>1, <2>3, <3>1, OnlyWriter, AgreeQuiet
    <3> QED  BY <2>3, <2>5, <3>2, AgreementOf
  <2> QED  BY <2>6, <2>7, <2>8, <2>9 DEF ReplicaInv, Peers
<1> QED  BY <1>1, <1>2

\* It sleeps, or wakes for no reason.
LEMMA ReplicaSleeps ==
    ASSUME ReplicaInv, CoreTypeOK', NEW n \in Node,
           SleepFinished(n) \/ SpuriousFinished(n)
    PROVE  ReplicaInv'
<1>1. /\ stage[n] \in {"blocking", "asleep"}
      /\ \E s \in {"asleep", "wait"} : stage' = [stage EXCEPT ![n] = s]
      /\ UNCHANGED <<lmVars, replicaVars, write, unsent, m_FinishedNodes>>
  BY DEF SleepFinished, SpuriousFinished
<1>2. stage \in [Node -> Stage]
  BY DEF ReplicaInv, CoreTypeOK
<1>3. \A w \in Node : /\ stage'[w] = "none" <=> stage[w] = "none"
                      /\ stage'[w] = "done" <=> stage[w] = "done"
  BY <1>1, <1>2
<1> QED  BY <1>1, <1>3, ReplicaWaits

\* It releases the mutex; the next writer finds no answer left.
LEMMA ReplicaRelease ==
    ASSUME ReplicaInv, CoreTypeOK', NEW n \in Node, Release(n)
    PROVE  ReplicaInv'
<1>0. /\ CoreTypeOK /\ TypeOK /\ pc[n] = "cs" /\ stage[n] = "done"
      /\ channel' = channel /\ pc' = [pc EXCEPT ![n] = "release"]
      /\ stage' = [stage EXCEPT ![n] = "none"]
      /\ UNCHANGED <<replicaVars, write, unsent, m_FinishedNodes>>
  BY DEF Release, ReleaseCS, ReplicaInv, CoreTypeOK
<1>1. /\ pc'[n] = "release" /\ stage'[n] = "none"
      /\ \A w \in Node : w # n => pc'[w] = pc[w] /\ stage'[w] = stage[w]
  BY <1>0 DEF TypeOK, CoreTypeOK
<1>2. QuietAll
  BY <1>0, QuietUnchanged
<1>3. OneWriter'
  BY <1>0, <1>1 DEF ReplicaInv, OneWriter
<1>4. ASSUME NEW w \in Node PROVE Phase(w)' /\ Counts(w)'
  <2>1. Phase(w) /\ Counts(w) /\ Waiting(w)' = Waiting(w)
    BY <1>0, <1>2, WaitingQuiet DEF ReplicaInv
  <2>2. CASE w = n
    BY <1>0, <1>1, <2>1, <2>2 DEF Phase, Counts, Peers, Before
  <2>3. CASE w # n
    BY <1>0, <1>1, <2>1, <2>3 DEF Phase, Counts, Peers
  <2> QED  BY <2>2, <2>3
<1>5. ASSUME NEW w \in Node, NEW d \in Peers(w) PROVE Place(w, d)'
  <2>1. /\ d \in Node /\ Place(w, d)
        /\ Quiet(w, d, WriteTag) /\ Quiet(d, w, {"READY"})
    BY <1>2, PeerFacts DEF ReplicaInv, QuietAll, WriterTags
  <2> QED  BY <1>0, <2>1, PlaceQuiet
<1>6. Agreement'
  <2>1. \A w \in Node : pc'[w] # "cs"
    BY <1>0, <1>1, OnlyWriter
  <2>2. \A e \in Node : ~Pending(n, e)
    BY <1>0, NonePending
  <2>3. \A m, e \in Node : Replica(m) = Replica(e)
    BY <1>0, <2>2, OnlyWriter DEF Agree
  <2>4. \A e \in Node : Replica(e)' = Replica(e)
    BY <1>0 DEF Replica, replicaVars
  <2> QED  BY <2>1, <2>3, <2>4 DEF Agreement
<1> QED  BY <1>3, <1>4, <1>5, <1>6 DEF ReplicaInv, Peers

-----------------------------------------------------------------------------
(* The handlers' steps *)

\* What is in flight belongs to a write that is being executed.
LEMMA InFlightWriter ==
    ASSUME ReplicaInv, NEW w \in Node, NEW d \in Peers(w),
           Flight(w, d, WriteTag) # {} \/ Flight(d, w, {"READY"}) # {}
    PROVE  /\ pc[w] = "cs" /\ stage[w] # "done"
           /\ d \notin unsent[w] /\ d \in Waiting(w)
<1>1. Place(w, d) /\ Counts(w) /\ d \in Waiting(w)
  BY DEF ReplicaInv, Waiting
<1>2. d \notin unsent[w]
  BY <1>1 DEF Place
<1> QED  BY <1>1, <1>2 DEF Counts

\* The write of s goes from the stream to n's replica, and a READY to the stream.
LEMMA HandledWrite ==
    ASSUME ReplicaInv, NEW n \in Node, NEW s \in Peers(n), HandleWrite(n, s)
    PROVE  /\ UNCHANGED <<pc, write, unsent, stage, m_FinishedNodes>>
           /\ pc[s] = "cs" /\ stage[s] # "done"
           /\ n \notin unsent[s] /\ n \in Waiting(s)
           /\ Flight(n, s, {"READY"}) = {}
           /\ Apply(n, write[s])
           /\ Flight(s, n, WriteTag) # {} /\ Flight(s, n, WriteTag)' = {}
           /\ Flight(n, s, {"READY"})' = {Len(channel[n][s]) + 1}
           /\ \A a, b \in Node : \A tags \in WriterTags :
                /\ ~(a = s /\ b = n /\ tags = WriteTag)
                /\ ~(a = n /\ b = s /\ tags = {"READY"})
                => Quiet(a, b, tags)
<1> DEFINE m == Head(channel[s][n])
           f == [tag |-> "READY", data |-> m.data]
<1>0. /\ CoreTypeOK /\ TypeOK /\ s \in Node /\ s # n /\ n \in Peers(s)
      /\ channel[s][n] # <<>> /\ m.tag \in WriteTag
      /\ Apply(n, [type |-> m.tag, value |-> m.data])
      /\ channel' = SendMsg(ReceiveMsg(channel, s, n), n, s, "READY", m.data)
      /\ UNCHANGED <<pc, write, unsent, stage, m_FinishedNodes>>
  BY PeerFacts DEF HandleWrite, NextMsg, callerVars, writerVars, ReplicaInv, CoreTypeOK
<1>1. m \in Message /\ f \in Message /\ f.tag = "READY"
  <2>1. channel[s][n] \in Seq(Message)
    BY <1>0 DEF TypeOK
  <2>2. m \in Message
    BY <1>0, <2>1
  <2> QED  BY <2>2 DEF Message, Tag
<1>2. /\ channel'[s][n] = Tail(channel[s][n])
      /\ channel'[n][s] = Append(channel[n][s], f)
      /\ \A a, b \in Node : ~(a = s /\ b = n) /\ ~(a = n /\ b = s) =>
           channel'[a][b] = channel[a][b]
  <2> DEFINE rest == ReceiveMsg(channel, s, n)
  <2>1. /\ rest \in [Node -> [Node -> Seq(Message)]]
        /\ rest[s][n] = Tail(channel[s][n])
        /\ \A a, b \in Node : ~(a = s /\ b = n) => rest[a][b] = channel[a][b]
    <3>1. channel \in [Node -> [Node -> Seq(Message)]]
      BY <1>0 DEF TypeOK
    <3>2. rest \in [Node -> [Node -> Seq(Message)]]
      BY <1>0, <3>1, ReceiveMsgType
    <3>3. /\ rest[s][n] = Tail(channel[s][n])
          /\ \A a, b \in Node : ~(a = s /\ b = n) => rest[a][b] = channel[a][b]
      BY <1>0, <3>1 DEF ReceiveMsg
    <3> QED  BY <3>2, <3>3
  <2>2. channel' = SendMsg(rest, n, s, "READY", m.data)
    BY <1>0
  <2> HIDE DEF rest, m
  <2>3. /\ channel'[n][s] = Append(rest[n][s], f)
        /\ \A a, b \in Node : ~(a = n /\ b = s) => channel'[a][b] = rest[a][b]
    BY <1>0, <2>1, <2>2 DEF SendMsg
  <2> QED  BY <1>0, <2>1, <2>3
<1> HIDE DEF f
<1>3. /\ 1 \in Flight(s, n, WriteTag)
      /\ m = [tag |-> write[s].type, data |-> write[s].value]
      /\ Flight(s, n, WriteTag)' = {}
  <2>1. Place(s, n)
    BY <1>0 DEF ReplicaInv
  <2>2. /\ 1 \in Flight(s, n, WriteTag) /\ m = channel[s][n][1]
        /\ Flight(s, n, WriteTag)' = {}
    BY <1>0, <1>2, <2>1, FlightTail DEF Place
  <2> QED  BY <2>1, <2>2 DEF Place, Carries
<1>4. /\ pc[s] = "cs" /\ stage[s] # "done"
      /\ n \notin unsent[s] /\ n \in Waiting(s)
      /\ Flight(n, s, {"READY"}) = {}
  BY <1>0, <1>3, InFlightWriter DEF ReplicaInv, Place
<1>5. /\ Flight(n, s, {"READY"})' = {Len(channel[n][s]) + 1}
      /\ Quiet(n, s, WriteTag)
  BY <1>0, <1>1, <1>2, <1>4, FlightAppend DEF WriteTag
<1>6. Quiet(s, n, {"READY"})
  BY <1>0, <1>2, FlightTail DEF WriteTag
<1>7. \A a, b \in Node : \A tags \in WriterTags :
        /\ ~(a = s /\ b = n /\ tags = WriteTag)
        /\ ~(a = n /\ b = s /\ tags = {"READY"})
        => Quiet(a, b, tags)
  BY <1>2, <1>5, <1>6, QuietSame DEF WriterTags
<1>8. Apply(n, write[s])
  <2>1. write[s] = [type |-> write[s].type, value |-> write[s].value]
    BY <1>0 DEF CoreTypeOK
  <2>2. write[s] = [type |-> m.tag, value |-> m.data]
    BY <1>3, <2>1
  <2> QED  BY <1>0, <2>2
<1> QED  BY <1>0, <1>3, <1>4, <1>5, <1>7, <1>8

\* A peer executes the write and answers.
LEMMA ReplicaHandleWrite ==
    ASSUME ReplicaInv, CoreTypeOK', NEW n \in Node, NEW s \in Peers(n), HandleWrite(n, s)
    PROVE  ReplicaInv'
<1>0. /\ CoreTypeOK /\ s \in Node /\ s # n /\ n \in Peers(s)
      /\ UNCHANGED <<pc, write, unsent, stage, m_FinishedNodes>>
  BY HandledWrite, PeerFacts DEF ReplicaInv
<1>1. Apply(n, write[s]) /\ Flight(s, n, WriteTag) # {} /\ Flight(s, n, WriteTag)' = {}
  BY HandledWrite
<1>2. /\ pc[s] = "cs" /\ stage[s] # "done"
      /\ n \notin unsent[s] /\ n \in Waiting(s)
      /\ Flight(n, s, {"READY"}) = {}
  BY HandledWrite
<1>3. Flight(n, s, {"READY"})' = {Len(channel[n][s]) + 1}
  BY HandledWrite
<1>4. \A a, b \in Node : \A tags \in WriterTags :
        /\ ~(a = s /\ b = n /\ tags = WriteTag)
        /\ ~(a = n /\ b = s /\ tags = {"READY"})
        => Quiet(a, b, tags)
  BY HandledWrite
<1>5. \A w \in Node : \A e \in Peers(w) : ~(w = s /\ e = n) =>
        Quiet(w, e, WriteTag) /\ Quiet(e, w, {"READY"})
  BY <1>4, PeerFacts DEF WriterTags, WriteTag
<1>6. \A w \in Node : Waiting(w)' = Waiting(w)
  <2> SUFFICES ASSUME NEW w \in Node, NEW e \in Peers(w)
               PROVE  e \in Waiting(w)' <=> e \in Waiting(w)
    BY DEF Waiting, Peers
  <2>1. CASE w = s /\ e = n
    BY <1>2, <1>3, <2>1 DEF Waiting, Peers
  <2>2. CASE ~(w = s /\ e = n)
    BY <1>0, <1>5, <2>2 DEF Waiting, Quiet, Peers
  <2> QED  BY <2>1, <2>2
<1>7. OneWriter'
  BY <1>0 DEF ReplicaInv, OneWriter
<1>8. ASSUME NEW w \in Node PROVE Phase(w)' /\ Counts(w)'
  <2>1. Phase(w) /\ Counts(w)
    BY DEF ReplicaInv
  <2> QED  BY <1>0, <1>6, <2>1 DEF Phase, Counts, Peers
<1>9. ASSUME NEW w \in Node, NEW e \in Peers(w) PROVE Place(w, e)'
  <2>1. Place(w, e) /\ e \in Node
    BY PeerFacts DEF ReplicaInv
  <2>2. CASE ~(w = s /\ e = n)
    BY <1>0, <1>5, <2>1, <2>2, PlaceQuiet
  <2>3. CASE w = s /\ e = n
    BY <1>0, <1>1, <1>2, <1>3, <2>3 DEF Place, Alone, Carries
  <2> QED  BY <2>2, <2>3
<1>10. Agreement'
  <2>1. Pending(s, n) /\ ~Pending(s, n)'
    BY <1>0, <1>1, <1>2 DEF Pending
  <2>2. ASSUME NEW e \in Node, e # n PROVE Pending(s, e)' <=> Pending(s, e)
    <3>1. CASE e = s
      BY <1>0, <3>1 DEF Pending
    <3>2. CASE e # s
      BY <1>0, <1>5, <2>2, <3>2 DEF Pending, Quiet, Peers
    <3> QED  BY <3>1, <3>2
  <2>3. Agree(s)'
    BY <1>0, <1>1, <1>2, <2>1, <2>2, OnlyWriter, AgreeApply
  <2> QED  BY <1>0, <1>2, <2>3, AgreementOf
<1> QED  BY <1>7, <1>8, <1>9, <1>10 DEF ReplicaInv, Peers

\* The writer counts an answer.
LEMMA ReplicaHandleReady ==
    ASSUME ReplicaInv, CoreTypeOK', NEW n \in Node, NEW s \in Peers(n), HandleReady(n, s)
    PROVE  ReplicaInv'
<1>0. /\ CoreTypeOK /\ TypeOK /\ s \in Node /\ s # n
      /\ channel[s][n] # <<>> /\ Head(channel[s][n]).tag = "READY"
      /\ channel' = ReceiveMsg(channel, s, n)
      /\ m_FinishedNodes' = [m_FinishedNodes EXCEPT ![n] = @ + 1]
      /\ stage' = [stage EXCEPT ![n] = IF @ = "asleep" THEN "wait" ELSE @]
      /\ UNCHANGED <<pc, write, unsent, replicaVars>>
  BY PeerFacts DEF HandleReady, NextMsg, callerVars, ReplicaInv, CoreTypeOK
<1>1. /\ channel'[s][n] = Tail(channel[s][n])
      /\ \A a, b \in Node : ~(a = s /\ b = n) => channel'[a][b] = channel[a][b]
  BY <1>0 DEF ReceiveMsg, TypeOK
<1>2. Place(n, s) /\ Phase(n) /\ Counts(n)
  BY DEF ReplicaInv
<1>3. 1 \in Flight(s, n, {"READY"}) /\ Flight(s, n, {"READY"})' = {}
  BY <1>0, <1>1, <1>2, FlightTail DEF Place
<1>4. /\ pc[n] = "cs" /\ stage[n] # "done"
      /\ s \notin unsent[n] /\ s \in Waiting(n)
      /\ Flight(n, s, WriteTag) = {}
  BY <1>2, <1>3, InFlightWriter DEF Place
<1>5. /\ stage'[n] = "none" <=> stage[n] = "none"
      /\ stage'[n] # "done"
      /\ m_FinishedNodes'[n] = m_FinishedNodes[n] + 1
      /\ \A w \in Node : w # n => /\ stage'[w] = stage[w]
                                  /\ m_FinishedNodes'[w] = m_FinishedNodes[w]
  BY <1>0, <1>4 DEF CoreTypeOK
<1>6. \A a, b \in Node : \A tags \in WriterTags :
        ~(a = s /\ b = n /\ tags = {"READY"}) => Quiet(a, b, tags)
  <2>1. Quiet(s, n, WriteTag)
    BY <1>0, <1>1, FlightTail DEF WriteTag
  <2> QED  BY <1>1, <2>1, QuietSame DEF WriterTags
<1>7. \A w \in Node : \A e \in Peers(w) :
        /\ Quiet(w, e, WriteTag)
        /\ ~(w = n /\ e = s) => Quiet(e, w, {"READY"})
  BY <1>6, PeerFacts DEF WriterTags, WriteTag
<1>8. Flight(n, s, WriteTag)' = {}
  BY <1>4, <1>7 DEF Quiet
<1>9. \A w \in Node : \A e \in Peers(w) : ~(w = n /\ e = s) =>
        (e \in Waiting(w)' <=> e \in Waiting(w))
  BY <1>0, <1>7 DEF Waiting, Quiet, Peers
<1>10. Waiting(n)' = Waiting(n) \ {s}
  <2>1. s \notin Waiting(n)'
    BY <1>0, <1>3, <1>4, <1>8 DEF Waiting
  <2> QED  BY <1>9, <2>1 DEF Waiting, Peers
<1>11. \A w \in Node : w # n => Waiting(w)' = Waiting(w)
  BY <1>9 DEF Waiting, Peers
<1>12. OneWriter'
  BY <1>0 DEF ReplicaInv, OneWriter
<1>13. ASSUME NEW w \in Node PROVE Phase(w)' /\ Counts(w)'
  <2>1. Phase(w) /\ Counts(w)
    BY DEF ReplicaInv
  <2>2. CASE w # n
    BY <1>0, <1>5, <1>11, <2>1, <2>2 DEF Phase, Counts, Peers
  <2>3. CASE w = n
    <3>1. Phase(n)'
      BY <1>0, <1>2, <1>4, <1>5 DEF Phase, Peers, Before
    <3>2. /\ IsFiniteSet(Waiting(n)) /\ Cardinality(Waiting(n)) \in Nat
          /\ Cardinality(Waiting(n) \ {s}) = Cardinality(Waiting(n)) - 1
      BY <1>4, PeersFinite, FS_RemoveElement
    <3>3. /\ m_FinishedNodes[n] + Cardinality(Waiting(n)) = Cardinality(Peers(n))
          /\ m_FinishedNodes[n] \in Nat
      BY <1>0, <1>2, <1>4 DEF Counts, CoreTypeOK
    <3>4. m_FinishedNodes'[n] + Cardinality(Waiting(n)') = Cardinality(Peers(n))
      BY <1>5, <1>10, <3>2, <3>3
    <3>5. Counts(n)'
      BY <1>0, <1>4, <1>5, <3>4 DEF Counts, Peers
    <3> QED  BY <2>3, <3>1, <3>5
  <2> QED  BY <2>2, <2>3
<1>14. ASSUME NEW w \in Node, NEW e \in Peers(w) PROVE Place(w, e)'
  <2>1. Place(w, e) /\ e \in Node
    BY PeerFacts DEF ReplicaInv
  <2>2. CASE ~(w = n /\ e = s)
    BY <1>0, <1>7, <2>1, <2>2, PlaceQuiet
  <2>3. CASE w = n /\ e = s
    BY <1>0, <1>3, <1>4, <1>8, <2>3 DEF Place, Alone, Carries
  <2> QED  BY <2>2, <2>3
<1>15. Agreement'
  <2>1. \A e \in Node : Pending(n, e)' <=> Pending(n, e)
    BY <1>0, <1>5, <1>7 DEF Pending, Quiet, Peers
  <2>2. Agree(n)'
    BY <1>0, <1>4, <2>1, OnlyWriter, AgreeQuiet
  <2> QED  BY <1>0, <1>4, <2>2, AgreementOf
<1> QED  BY <1>12, <1>13, <1>14, <1>15 DEF ReplicaInv, Peers

-----------------------------------------------------------------------------
(* The invariant *)

\* The invariant holds when the program begins.
LEMMA ReplicaInit == CoreInit => ReplicaInv
<1> SUFFICES ASSUME CoreInit PROVE ReplicaInv
  OBVIOUS
<1>1. CoreTypeOK
  BY CoreTypeInit
<1>2. /\ \A w \in Node : /\ pc[w] = "idle" /\ stage[w] = "none" /\ unsent[w] = {}
                         /\ m_FinishedNodes[w] = 0
      /\ \A m, n \in Node : Replica(m) = Replica(n)
  BY DEF CoreInit, Init, Replica
<1>3. \A m, n \in Node : \A tags : Flight(m, n, tags) = {}
  BY DEF CoreInit, Init, Flight
<1>4. \A w \in Node : Phase(w) /\ Counts(w)
  <2>1. \A w \in Node : Waiting(w) = {}
    BY <1>2, <1>3 DEF Waiting, Peers
  <2> QED  BY <1>2, <2>1 DEF Phase, Counts, Before
<1>5. \A w \in Node : \A d \in Peers(w) : Place(w, d)
  BY <1>2, <1>3 DEF Place, Alone, Carries, Peers
<1> QED  BY <1>1, <1>2, <1>4, <1>5 DEF ReplicaInv, OneWriter, Agreement

\* The steps that matter here: the writer's, the handlers' with a write or a
\* READY, and those of the mutex.
LEMMA CoreSteps ==
    ASSUME CoreTypeOK, [CoreNext]_clVars
    PROVE  \/ \E n \in Node : \/ \E t \in Writes : Submit(n, t)
                             \/ Caller(n) \/ SpuriousFinished(n)
           \/ \E n \in Node : \E s \in Peers(n) : HandleWrite(n, s) \/ HandleReady(n, s)
           \/ QuietAll /\ (\A m \in Node : Moves(m)) /\ UNCHANGED coreVars
           \/ UNCHANGED clVars
<1>1. ASSUME NEW n \in Node,
             \/ Inside(Acquire(n)) \/ Inside(Leave(n)) \/ Inside(Handle(n))
             \/ Inside(SpuriousWakeup(n))
             \/ \E s \in Peers(n) : HandleMutex(n, s)
      PROVE  QuietAll /\ (\A m \in Node : Moves(m)) /\ UNCHANGED coreVars
  <2>1. /\ \/ Acquire(n) \/ Leave(n) \/ Handle(n) \/ SpuriousWakeup(n)
           \/ \E s \in Peers(n) : HandleMutex(n, s)
        /\ UNCHANGED coreVars
    BY <1>1 DEF Inside, HandleMutex
  <2>2. QuietAll /\ \A m \in Node : Moves(m)
    BY <2>1, MutexStep
  <2> QED  BY <2>1, <2>2
<1> QED  BY <1>1 DEF CoreNext, Receive

\* Every step keeps it.
LEMMA ReplicaNext == ReplicaInv /\ [CoreNext]_clVars => ReplicaInv'
<1> SUFFICES ASSUME ReplicaInv, [CoreNext]_clVars PROVE ReplicaInv'
  OBVIOUS
<1>0. CoreTypeOK /\ CoreTypeOK'
  BY CoreTypeNext DEF ReplicaInv
<1>1. ASSUME NEW n \in Node,
             \/ \E t \in Writes : Submit(n, t)
             \/ Caller(n) \/ SpuriousFinished(n)
      PROVE  ReplicaInv'
  <2>1. ASSUME NEW t \in Writes, Submit(n, t) PROVE ReplicaInv'
    BY <1>0, <2>1, ReplicaSubmit
  <2>2. ASSUME NEW d \in Peers(n), SendWrite(n, d) PROVE ReplicaInv'
    BY <1>0, <2>2, ReplicaSendWrite
  <2>3. CASE ExecuteWrite(n)
    BY <1>0, <2>3, ReplicaExecuteWrite
  <2>4. CASE CheckFinished(n)
    BY <1>0, <2>4, ReplicaCheckFinished
  <2>5. CASE SleepFinished(n) \/ SpuriousFinished(n)
    BY <1>0, <2>5, ReplicaSleeps
  <2>6. CASE Release(n)
    BY <1>0, <2>6, ReplicaRelease
  <2> QED  BY <1>1, <2>1, <2>2, <2>3, <2>4, <2>5, <2>6 DEF Caller
<1>2. ASSUME NEW n \in Node, NEW s \in Peers(n), HandleWrite(n, s) \/ HandleReady(n, s)
      PROVE  ReplicaInv'
  BY <1>0, <1>2, ReplicaHandleWrite, ReplicaHandleReady
<1>3. CASE QuietAll /\ (\A m \in Node : Moves(m)) /\ UNCHANGED coreVars
  BY <1>0, <1>3, ReplicaMutex
<1>4. CASE UNCHANGED clVars
  <2>1. UNCHANGED <<lmVars, replicaVars, write, unsent, m_FinishedNodes, stage>>
    BY <1>4 DEF clVars, coreVars, writerVars
  <2> QED  BY <1>0, <2>1, ReplicaWaits
<1> QED  BY <1>0, <1>1, <1>2, <1>3, <1>4, CoreSteps

\* It always holds.
LEMMA ReplicaAlways == CoreSpec => []ReplicaInv
<1> QED  BY ReplicaInit, ReplicaNext, PTL DEF CoreSpec

\* Outside the time from a writer's entry until its last READY all replicas are
\* the same: the same version, count and updates.
LEMMA InvAgree == ReplicaInv => ReplicasAgree
<1> SUFFICES ASSUME ReplicaInv, \A n \in Node : pc[n] = "cs" => stage[n] = "done",
                    NEW m \in Node, NEW n \in Node
             PROVE  /\ version[m] = version[n]
                    /\ m_WriteCount[m] = m_WriteCount[n]
                    /\ updates[m] = updates[n]
  BY DEF ReplicasAgree
<1>1. Replica(m) = Replica(n)
  <2>1. CASE \E w \in Node : pc[w] = "cs"
    <3>1. PICK w \in Node : pc[w] = "cs"
      BY <2>1
    <3>2. stage[w] = "done"
      BY <3>1
    <3>3. ~Pending(w, m) /\ ~Pending(w, n)
      BY <3>1, <3>2, NonePending
    <3> QED  BY <3>1, <3>3, OnlyWriter DEF Agree
  <2>2. CASE \A w \in Node : pc[w] # "cs"
    BY <2>2 DEF ReplicaInv, Agreement
  <2> QED  BY <2>1, <2>2
<1> QED  BY <1>1 DEF Replica

\* The number of frames in flight, when there is one at most.
LEMMA FlightCount ==
    ASSUME TypeOK, NEW m \in Node, NEW n \in Node, NEW tags
    PROVE  /\ InFlight(m, n, tags) \in Nat
           /\ InFlight(m, n, tags) > 0 <=> Flight(m, n, tags) # {}
           /\ Alone(Flight(m, n, tags)) => InFlight(m, n, tags) <= 1
<1>1. InFlight(m, n, tags) = Cardinality(Flight(m, n, tags))
  BY DEF InFlight, Flight
<1>2. IsFiniteSet(Flight(m, n, tags))
  <2>1. channel[m][n] \in Seq(Message)
    BY DEF TypeOK
  <2>2. DOMAIN channel[m][n] = 1 .. Len(channel[m][n]) /\ Len(channel[m][n]) \in Nat
    BY <2>1
  <2>3. IsFiniteSet(1 .. Len(channel[m][n]))
    BY <2>2, FS_Interval
  <2> QED  BY <2>2, <2>3, FS_Subset DEF Flight
<1>3. Cardinality(Flight(m, n, tags)) \in Nat
  BY <1>2, FS_CardinalityType
<1>4. Cardinality(Flight(m, n, tags)) = 0 <=> Flight(m, n, tags) = {}
  BY <1>2, FS_EmptySet
<1>5. ASSUME Alone(Flight(m, n, tags)) PROVE Cardinality(Flight(m, n, tags)) <= 1
  <2>1. CASE Flight(m, n, tags) = {}
    BY <1>4, <2>1
  <2>2. ASSUME NEW k \in Flight(m, n, tags)
        PROVE  Cardinality(Flight(m, n, tags)) <= 1
    <3>1. Flight(m, n, tags) = {k}
      BY <1>5, <2>2 DEF Alone
    <3> QED  BY <3>1, FS_Singleton
  <2> QED  BY <2>1, <2>2
<1> QED  BY <1>1, <1>3, <1>4, <1>5

\* It implies the accounting of the READYs.
LEMMA InvAccounting == ReplicaInv => ReadyAccounting
<1> SUFFICES ASSUME ReplicaInv PROVE ReadyAccounting
  OBVIOUS
<1>0. TypeOK
  BY DEF ReplicaInv, CoreTypeOK
<1>1. ASSUME NEW w \in Node, NEW d \in Peers(w)
      PROVE  /\ InFlight(w, d, WriteTag) \in Nat /\ InFlight(d, w, {"READY"}) \in Nat
             /\ InFlight(w, d, WriteTag) > 0 <=> Flight(w, d, WriteTag) # {}
             /\ InFlight(d, w, {"READY"}) > 0 <=> Flight(d, w, {"READY"}) # {}
             /\ InFlight(w, d, WriteTag) <= 1 /\ InFlight(d, w, {"READY"}) <= 1
  BY <1>0, PeerFacts, FlightCount DEF ReplicaInv, Place
<1>2. ASSUME NEW w \in Node, NEW d \in Peers(w)
      PROVE  (IF d \in unsent[w] THEN 1 ELSE 0)
               + InFlight(w, d, WriteTag) + InFlight(d, w, {"READY"}) <= 1
  <2>1. Place(w, d)
    BY DEF ReplicaInv
  <2>2. /\ d \in unsent[w] => Flight(w, d, WriteTag) = {} /\ Flight(d, w, {"READY"}) = {}
        /\ Flight(w, d, WriteTag) = {} \/ Flight(d, w, {"READY"}) = {}
    BY <2>1 DEF Place
  <2> QED  BY <1>1, <2>2
<1>3. ASSUME NEW w \in Node
      PROVE  Waiting(w) = {d \in Peers(w) : \/ d \in unsent[w]
                                            \/ InFlight(w, d, WriteTag) > 0
                                            \/ InFlight(d, w, {"READY"}) > 0}
  BY <1>1 DEF Waiting
<1>4. ASSUME NEW w \in Node PROVE Counts(w)
  BY DEF ReplicaInv
<1> QED  BY <1>2, <1>3, <1>4, Zenon DEF ReadyAccounting, Counts

\* Between two writes all nodes have the same version, have counted the same
\* writes and have sent the same updates (CoreNode.cpp:64-70, 97-104), whatever
\* the number of nodes and the interleaving.
THEOREM ReplicasAlwaysAgree == CoreSpec => []ReplicasAgree
<1> QED  BY ReplicaAlways, InvAgree, PTL

\* Each peer of a writer is waited for exactly while its write, or its READY,
\* is to come; no READY is counted for another write (CoreNode.cpp:66-67, 85-89).
THEOREM ReadyAlwaysAccounted == CoreSpec => []ReadyAccounting
<1> QED  BY ReplicaAlways, InvAccounting, PTL

-----------------------------------------------------------------------------
(* The refinement of ReplicatedStore, step by step *)

\* What a node executes was submitted to it.
Submitted == \A n \in Node : pc[n] # "idle" => write[n] \in Writes

\* The committed state, seen from any node: that of its replica, or of its
\* replica after the write it has still to execute.
Commit ==
    /\ \A w, n \in Node : pc[w] = "cs" =>
         Committed = IF Pending(w, n) THEN AfterWrite(n, write[w]) ELSE Replica(n)
    /\ (\A w \in Node : pc[w] # "cs") => \A n \in Node : Committed = Replica(n)

StoreInv == ReplicaInv /\ Submitted /\ Commit

\* There is a core node.
LEMMA SomeNode == Node # {}
<1>1. Cardinality(Node) # 0
  BY NodeAssumption
<1> QED  BY <1>1, NodeAssumption, FS_EmptySet

\* What is committed can be read off any node.
LEMMA InvCommit == ReplicaInv => Commit
<1> SUFFICES ASSUME ReplicaInv PROVE Commit
  OBVIOUS
<1>1. ASSUME NEW w \in Node, NEW n \in Node, pc[w] = "cs"
      PROVE  Committed = IF Pending(w, n) THEN AfterWrite(n, write[w]) ELSE Replica(n)
  <2>1. Writer = w
    <3>1. \A v \in Node : pc[v] = "cs" => v = w
      BY <1>1, OnlyWriter
    <3> QED  BY <1>1, <3>1 DEF Writer
  <2>2. Agree(w)
    BY <1>1, OnlyWriter
  <2>3. Committed = IF Pending(w, w) THEN AfterWrite(w, write[w]) ELSE Replica(w)
    BY <1>1, <2>1 DEF Committed, Pending, Replica
  <2>4. CASE Pending(w, n) /\ Pending(w, w)
    <3>1. Replica(n) = Replica(w)
      BY <2>2, <2>4 DEF Agree
    <3>2. /\ version[n] = version[w] /\ m_WriteCount[n] = m_WriteCount[w]
          /\ updates[n] = updates[w]
      BY <3>1 DEF Replica
    <3>3. AfterWrite(n, write[w]) = AfterWrite(w, write[w])
      BY <3>2 DEF AfterWrite
    <3> QED  BY <2>3, <2>4, <3>3
  <2>5. CASE ~Pending(w, n) \/ ~Pending(w, w)
    BY <2>2, <2>3, <2>5 DEF Agree
  <2> QED  BY <2>4, <2>5
<1>2. ASSUME \A w \in Node : pc[w] # "cs", NEW n \in Node PROVE Committed = Replica(n)
  <2>1. Writer \in Node
    BY <1>2, SomeNode DEF Writer
  <2>2. Committed = Replica(Writer)
    BY <1>2, <2>1 DEF Committed, Replica
  <2>3. Replica(Writer) = Replica(n)
    BY <1>2, <2>1 DEF ReplicaInv, Agreement
  <2> QED  BY <2>2, <2>3
<1> QED  BY <1>1, <1>2 DEF Commit

\* The store's and the core layer's Transaction are the same.
LEMMA SameExecute ==
    ASSUME NEW t, NEW v
    PROVE  Store!ExecuteTransaction(t, v) = ExecuteTransaction(t, v)
BY DEF Store!ExecuteTransaction, ExecuteTransaction, Store!Wrap, Wrap

-----------------------------------------------------------------------------
(* Steps *)

\* A step that executes nothing and moves no caller in or out of its critical
\* section is none of the store.
LEMMA StoreStutter ==
    ASSUME Commit, Commit', UNCHANGED replicaVars,
           \A w \in Node : /\ pc'[w] = "cs" <=> pc[w] = "cs"
                           /\ pc[w] = "cs" => /\ write'[w] = write[w]
                                              /\ stage'[w] = "none" <=> stage[w] = "none"
    PROVE  UNCHANGED Store!storeVars
<1>1. \A n \in Node : Replica(n)' = Replica(n)
  BY DEF Replica, replicaVars
<1>2. Committed' = Committed
  <2>1. ASSUME NEW w \in Node, pc[w] = "cs" PROVE Committed' = Committed
    <3>1. Pending(w, w)' <=> Pending(w, w)
      BY <2>1 DEF Pending
    <3>2. AfterWrite(w, write[w])' = AfterWrite(w, write[w])
      BY <2>1 DEF AfterWrite, replicaVars
    <3> QED  BY <1>1, <2>1, <3>1, <3>2 DEF Commit
  <2>2. ASSUME \A w \in Node : pc[w] # "cs" PROVE Committed' = Committed
    <3>1. PICK n \in Node : TRUE
      BY SomeNode
    <3>2. Committed' = Replica(n)' /\ Committed = Replica(n)
      BY <2>2 DEF Commit
    <3> QED  BY <1>1, <3>2
  <2> QED  BY <2>1, <2>2
<1> QED  BY <1>2 DEF Store!storeVars, replicaVars

\* A node that has the write of w before it executes it: it forwards the
\* checkpoint, if the write has made one.
LEMMA StoreApply ==
    ASSUME CoreTypeOK, Commit, Commit', NEW w \in Node, pc[w] = "cs", pc' = pc,
           NEW x \in Node, Apply(x, write[w]), Pending(w, x), ~Pending(w, x)'
    PROVE  Store!Forward(x) \/ UNCHANGED Store!storeVars
<1> DEFINE A == AfterWrite(x, write[w])
           v == ExecuteTransaction(write[w], version[x])
<1>1. Committed = A /\ Committed' = Replica(x)'
  BY DEF Commit
<1>2. Replica(x)' = A
  <2>1. Replica(x)' = [version |-> A.version, count |-> A.count, updates |-> A.updates]
    BY DEF Apply, Replica, CoreTypeOK
  <2> QED  BY <2>1 DEF AfterWrite
<1>3. updates' = [updates EXCEPT ![x] = A.updates]
  BY DEF Apply
<1>4. Committed' = Committed
  BY <1>1, <1>2
<1>5. updates[x] \in Seq(Version) /\ updates \in [Node -> Seq(Version)]
  BY DEF CoreTypeOK
<1>6. CASE m_WriteCount[x] + 1 >= UPDATE_COUNT
  <2>1. A.updates = Append(updates[x], v)
    BY <1>6 DEF AfterWrite
  <2> HIDE DEF v, A
  <2>2. /\ A.updates # updates[x]
        /\ A.updates[Len(updates[x]) + 1] = v
    <3>1. Len(Append(updates[x], v)) # Len(updates[x])
      BY <1>5
    <3> QED  BY <1>5, <2>1, <3>1
  <2>3. updates' = [updates EXCEPT ![x] = Append(@, A.updates[Len(@) + 1])]
    BY <1>3, <1>5, <2>1, <2>2
  <2> QED  BY <1>1, <1>4, <2>2, <2>3 DEF Store!Forward
<1>7. CASE ~(m_WriteCount[x] + 1 >= UPDATE_COUNT)
  <2>1. A.updates = updates[x]
    BY <1>7 DEF AfterWrite
  <2>2. updates' = updates
    BY <1>3, <1>5, <2>1
  <2> QED  BY <1>4, <2>2 DEF Store!storeVars
<1> QED  BY <1>6, <1>7

\* The caller of w enters its critical section: the store is written.
LEMMA StoreEnter ==
    ASSUME StoreInv, StoreInv', NEW w \in Node, pc[w] \in Before, pc'[w] = "cs",
           UNCHANGED coreVars
    PROVE  Store!Write(write[w])
<1> DEFINE A == AfterWrite(w, write[w])
<1>1. \A n \in Node : pc[n] # "cs"
  <2>1. pc[w] # "idle" /\ pc[w] # "cs"
    BY DEF Before
  <2>2. \A n \in Node : pc[n] # "idle" => n = w
    BY <2>1 DEF StoreInv, ReplicaInv, OneWriter
  <2> QED  BY <2>1, <2>2
<1>2. \A n \in Node : Committed = Replica(n)
  BY <1>1 DEF StoreInv, Commit
<1>3. \A n \in Node : updates[n] = Committed.updates
  BY <1>2 DEF Replica
<1>4. Committed' = A
  <2>1. stage'[w] = "none"
    BY DEF coreVars, writerVars, StoreInv, ReplicaInv, Phase
  <2>2. Pending(w, w)'
    BY <2>1 DEF Pending
  <2>3. Committed' = AfterWrite(w, write[w])'
    BY <2>2 DEF StoreInv, Commit
  <2>4. AfterWrite(w, write[w])' = A
    BY DEF AfterWrite, coreVars, replicaVars, writerVars
  <2> QED  BY <2>3, <2>4
<1>5. /\ Committed.version = version[w] /\ Committed.count = m_WriteCount[w]
      /\ Committed.updates = updates[w]
  BY <1>2 DEF Replica
<1>6. m_WriteCount[w] + 1 >= UPDATE_COUNT <=> m_WriteCount[w] + 1 = UPDATE_COUNT
  BY UpdateCountAssumption DEF StoreInv, ReplicaInv, CoreTypeOK
<1>7. A.version = ExecuteTransaction(write[w], version[w])
  BY DEF AfterWrite
<1>8. UNCHANGED updates
  BY DEF coreVars, replicaVars
<1>9. Committed.version' = Store!ExecuteTransaction(write[w], Committed.version)
  BY <1>4, <1>5, <1>7, SameExecute
<1>10. IF Committed.count + 1 = UPDATE_COUNT
       THEN /\ Committed.count' = 0
            /\ Committed.updates' = Append(Committed.updates, Committed.version')
       ELSE /\ Committed.count' = Committed.count + 1
            /\ Committed.updates' = Committed.updates
  BY <1>4, <1>5, <1>6 DEF AfterWrite
<1> QED  BY <1>3, <1>8, <1>9, <1>10, Zenon DEF Store!Write

\* A step of the mutex, but for the calls of requestCS and releaseCS.
LEMMA StoreMutex ==
    ASSUME StoreInv, StoreInv', \A m \in Node : Moves(m), UNCHANGED coreVars
    PROVE  Store!StoreNext \/ UNCHANGED Store!storeVars
<1>1. \A w \in Node : pc[w] = "cs" => pc'[w] = "cs"
  BY DEF Moves, Before
<1>2. CASE \E w \in Node : pc'[w] = "cs" /\ pc[w] # "cs"
  <2>1. PICK w \in Node : pc'[w] = "cs" /\ pc[w] # "cs"
    BY <1>2
  <2>2. pc[w] \in Before
    BY <2>1 DEF Moves
  <2>3. write[w] \in Writes
    BY <2>2 DEF StoreInv, Submitted, Before
  <2>4. Store!Write(write[w])
    BY <2>1, <2>2, StoreEnter
  <2> QED  BY <2>3, <2>4 DEF Store!StoreNext
<1>3. CASE \A w \in Node : pc'[w] = "cs" => pc[w] = "cs"
  <2>1. /\ UNCHANGED <<replicaVars, write, stage>>
        /\ Commit /\ Commit'
    BY DEF coreVars, writerVars, StoreInv
  <2> QED  BY <1>1, <1>3, <2>1, StoreStutter
<1> QED  BY <1>2, <1>3

\* A step of a caller is one of the store, or is not seen by it;
LEMMA StoreCaller ==
    ASSUME StoreInv, StoreInv', NEW n \in Node,
           \/ \E t \in Writes : Submit(n, t)
           \/ Caller(n) \/ SpuriousFinished(n)
    PROVE  Store!StoreNext \/ UNCHANGED Store!storeVars
<1>0. Commit /\ Commit' /\ CoreTypeOK /\ TypeOK /\ ReplicaInv
  BY DEF StoreInv, ReplicaInv, CoreTypeOK
<1>1. ASSUME NEW t \in Writes, Submit(n, t) PROVE UNCHANGED Store!storeVars
  <2>1. /\ \A w \in Node : pc[w] = "idle"
        /\ pc' = [pc EXCEPT ![n] = "tick"] /\ UNCHANGED replicaVars
    BY <1>1 DEF Submit, RequestCS
  <2>2. \A w \in Node : pc[w] # "cs" /\ pc'[w] # "cs"
    BY <1>0, <2>1 DEF TypeOK
  <2> QED  BY <1>0, <2>1, <2>2, StoreStutter
<1>2. ASSUME NEW d \in Peers(n), SendWrite(n, d) PROVE UNCHANGED Store!storeVars
  <2>1. UNCHANGED <<replicaVars, pc, write, stage>>
    BY <1>2 DEF SendWrite, callerVars
  <2> QED  BY <1>0, <2>1, StoreStutter
<1>3. ASSUME ExecuteWrite(n) PROVE Store!Forward(n) \/ UNCHANGED Store!storeVars
  <2>1. /\ pc[n] = "cs" /\ pc' = pc /\ stage[n] = "none" /\ Apply(n, write[n])
        /\ stage' = [stage EXCEPT ![n] = "wait"]
    BY <1>3 DEF ExecuteWrite, lmVars
  <2>2. Pending(n, n) /\ ~Pending(n, n)'
    BY <1>0, <2>1 DEF Pending, CoreTypeOK
  <2> QED  BY <1>0, <2>1, <2>2, StoreApply
<1>4. ASSUME CheckFinished(n) PROVE UNCHANGED Store!storeVars
  <2>1. /\ stage[n] = "wait" /\ UNCHANGED <<replicaVars, pc, write>>
        /\ \E s \in {"done", "blocking"} : stage' = [stage EXCEPT ![n] = s]
    <3>1. stage[n] = "wait" /\ UNCHANGED <<replicaVars, pc, write>>
      BY <1>4 DEF CheckFinished, CheckFor, lmVars
    <3>2. CASE m_FinishedNodes[n] = Cardinality(Peers(n))
      <4>1. stage' = [stage EXCEPT ![n] = "done"]
        BY <1>4, <3>2, Zenon DEF CheckFinished, CheckFor
      <4> QED  BY <3>1, <4>1
    <3>3. CASE m_FinishedNodes[n] # Cardinality(Peers(n))
      <4>1. stage' = [stage EXCEPT ![n] = "blocking"]
        BY <1>4, <3>3, Zenon DEF CheckFinished, CheckFor
      <4> QED  BY <3>1, <4>1
    <3> QED  BY <3>2, <3>3
  <2>2. \A w \in Node : stage'[w] = "none" <=> stage[w] = "none"
    BY <1>0, <2>1 DEF CoreTypeOK
  <2> QED  BY <1>0, <2>1, <2>2, StoreStutter
<1>5. ASSUME SleepFinished(n) \/ SpuriousFinished(n) PROVE UNCHANGED Store!storeVars
  <2>1. /\ stage[n] # "none" /\ UNCHANGED <<replicaVars, pc, write>>
        /\ \E s \in {"asleep", "wait"} : stage' = [stage EXCEPT ![n] = s]
    BY <1>5 DEF SleepFinished, SpuriousFinished, lmVars
  <2>2. \A w \in Node : stage'[w] = "none" <=> stage[w] = "none"
    BY <1>0, <2>1 DEF CoreTypeOK
  <2> QED  BY <1>0, <2>1, <2>2, StoreStutter
<1>6. ASSUME Release(n) PROVE UNCHANGED Store!storeVars
  <2>1. /\ pc[n] = "cs" /\ stage[n] = "done" /\ pc' = [pc EXCEPT ![n] = "release"]
        /\ UNCHANGED replicaVars
    BY <1>6 DEF Release, ReleaseCS, StoreInv, ReplicaInv, Phase, Stage
  <2>2. ~Pending(n, n)
    BY <2>1 DEF Pending
  <2>3. Committed = Replica(n)
    BY <1>0, <2>1, <2>2 DEF Commit
  <2>4. \A w \in Node : pc'[w] # "cs"
    BY <1>0, <2>1, OnlyWriter DEF TypeOK
  <2>5. Committed' = Replica(n)'
    BY <1>0, <2>4 DEF Commit
  <2>6. Replica(n)' = Replica(n)
    BY <2>1 DEF Replica, replicaVars
  <2> QED  BY <2>1, <2>3, <2>5, <2>6 DEF Store!storeVars, replicaVars
<1>7. CASE \E t \in Writes : Submit(n, t)
  BY <1>1, <1>7
<1>8. CASE Caller(n) \/ SpuriousFinished(n)
  BY <1>2, <1>3, <1>4, <1>5, <1>6, <1>8 DEF Caller, Store!StoreNext
<1> QED  BY <1>7, <1>8

\* so is one of a handler.
LEMMA StoreReceive ==
    ASSUME StoreInv, StoreInv', NEW n \in Node, NEW s \in Peers(n),
           HandleWrite(n, s) \/ HandleReady(n, s)
    PROVE  Store!StoreNext \/ UNCHANGED Store!storeVars
<1>0. Commit /\ Commit' /\ CoreTypeOK /\ TypeOK /\ ReplicaInv /\ ReplicaInv'
  BY DEF StoreInv, ReplicaInv, CoreTypeOK
<1>1. CASE HandleWrite(n, s)
  <2>1. /\ s \in Node /\ n \in Peers(s) /\ n # s /\ pc' = pc /\ unsent' = unsent
        /\ pc[s] = "cs" /\ Apply(n, write[s])
        /\ Flight(s, n, WriteTag) # {} /\ Flight(s, n, WriteTag)' = {}
        /\ n \notin unsent[s]
    BY <1>0, <1>1, HandledWrite, PeerFacts
  <2>2. Pending(s, n) /\ ~Pending(s, n)'
    BY <2>1 DEF Pending
  <2>3. Store!Forward(n) \/ UNCHANGED Store!storeVars
    BY <1>0, <2>1, <2>2, StoreApply
  <2> QED  BY <2>3 DEF Store!StoreNext
<1>2. CASE HandleReady(n, s)
  <2>1. /\ UNCHANGED <<replicaVars, pc, write>>
        /\ stage' = [stage EXCEPT ![n] = IF @ = "asleep" THEN "wait" ELSE @]
    BY <1>2 DEF HandleReady, callerVars
  <2>2. \A w \in Node : stage'[w] = "none" <=> stage[w] = "none"
    BY <1>0, <2>1 DEF CoreTypeOK
  <2> QED  BY <1>0, <2>1, <2>2, StoreStutter
<1> QED  BY <1>1, <1>2

\* Only what was submitted is executed.
LEMMA SubmittedNext ==
    ASSUME StoreInv, [CoreNext]_clVars
    PROVE  Submitted'
<1>0. CoreTypeOK /\ TypeOK
  BY DEF StoreInv, ReplicaInv, CoreTypeOK
<1>1. ASSUME NEW n \in Node, NEW t \in Writes, Submit(n, t) PROVE Submitted'
  <2>1. /\ \A w \in Node : pc[w] = "idle"
        /\ pc' = [pc EXCEPT ![n] = "tick"] /\ write' = [write EXCEPT ![n] = t]
    BY <1>1 DEF Submit, RequestCS
  <2> QED  BY <1>0, <2>1 DEF Submitted, TypeOK, CoreTypeOK
<1>2. ASSUME write' = write, \A w \in Node : pc'[w] # "idle" => pc[w] # "idle"
      PROVE  Submitted'
  BY <1>2 DEF StoreInv, Submitted
<1>3. ASSUME NEW n \in Node, Caller(n) \/ SpuriousFinished(n) PROVE Submitted'
  <2>1. write' = write
    BY <1>3 DEF Caller, SpuriousFinished, ExecuteWrite, CheckFinished, CheckFor,
                SleepFinished, Release, SendWrite
  <2>2. \A w \in Node : pc'[w] # "idle" => pc[w] # "idle"
    <3>1. CASE Release(n)
      BY <1>0, <3>1 DEF Release, ReleaseCS, TypeOK
    <3>2. CASE ~Release(n)
      <4>1. pc' = pc
        BY <1>3, <3>2 DEF Caller, SpuriousFinished, ExecuteWrite, CheckFinished,
                          CheckFor, SleepFinished, SendWrite, lmVars, callerVars
      <4> QED  BY <4>1
    <3> QED  BY <3>1, <3>2
  <2> QED  BY <1>2, <2>1, <2>2
<1>4. ASSUME NEW n \in Node, NEW s \in Peers(n), HandleWrite(n, s) \/ HandleReady(n, s)
      PROVE  Submitted'
  <2>1. write' = write /\ pc' = pc
    BY <1>4 DEF HandleWrite, HandleReady, callerVars, writerVars
  <2> QED  BY <1>2, <2>1
<1>5. ASSUME \A m \in Node : Moves(m), UNCHANGED coreVars PROVE Submitted'
  <2>1. \A w \in Node : pc'[w] # "idle" => pc[w] # "idle"
    BY <1>5 DEF Moves, Before
  <2> QED  BY <1>2, <1>5, <2>1 DEF coreVars, writerVars
<1>6. CASE UNCHANGED clVars
  BY <1>2, <1>6 DEF clVars, coreVars, writerVars, lmVars
<1> QED  BY <1>0, <1>1, <1>3, <1>4, <1>5, <1>6, CoreSteps

\* Every step of the core layer is one of the store, or none.
LEMMA StoreStep ==
    ASSUME StoreInv, StoreInv', [CoreNext]_clVars
    PROVE  [Store!StoreNext]_(Store!storeVars)
<1>0. CoreTypeOK
  BY DEF StoreInv, ReplicaInv
<1>1. ASSUME UNCHANGED clVars PROVE UNCHANGED Store!storeVars
  BY <1>1, StoreStutter DEF StoreInv, clVars, coreVars, writerVars, lmVars
<1> QED  BY <1>0, <1>1, CoreSteps, StoreCaller, StoreReceive, StoreMutex

\* The core layer begins where the store does.
LEMMA StoreStart == CoreInit /\ StoreInv => Store!StoreInit
<1> SUFFICES ASSUME CoreInit, StoreInv PROVE Store!StoreInit
  OBVIOUS
<1>1. PICK n \in Node : TRUE
  BY SomeNode
<1>2. Committed = Replica(n)
  BY DEF StoreInv, Commit, CoreInit, Init
<1>3. Replica(n) = [version |-> 0, count |-> 0, updates |-> <<>>]
  BY DEF CoreInit, Replica
<1> QED  BY <1>2, <1>3 DEF CoreInit, Store!StoreInit

\* The nodes of the core layer are one store: each write takes effect once, in
\* one order, when its writer enters the critical section, and each node passes
\* on every UPDATE_COUNT-th value (CoreNode.cpp:54-104).
THEOREM CoreImplementsStore == CoreSpec => ImplementsStore
<1>1. CoreInit => StoreInv
  BY ReplicaInit, InvCommit DEF StoreInv, Submitted, CoreInit, Init
<1>2. StoreInv /\ [CoreNext]_clVars => StoreInv'
  <2>1. ReplicaInv' => Commit'
    BY InvCommit, PTL
  <2> QED  BY <2>1, ReplicaNext, SubmittedNext DEF StoreInv
<1>3. StoreInv /\ StoreInv' /\ [CoreNext]_clVars => [Store!StoreNext]_(Store!storeVars)
  BY StoreStep
<1> QED  BY <1>1, <1>2, <1>3, StoreStart, PTL DEF CoreSpec, ImplementsStore, Store!StoreSpec
=============================================================================
