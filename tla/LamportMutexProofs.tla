------------------------- MODULE LamportMutexProofs -------------------------
(***************************************************************************)
(* Theorems about LamportMutex, for any set of nodes and any bound.        *)
(***************************************************************************)
EXTENDS LamportMutex, TLAPS

\* Appending a frame to one stream leaves every stream a sequence of frames.
LEMMA SendMsgType ==
    ASSUME NEW ch \in [Node -> [Node -> Seq(Message)]],
           NEW src \in Node, NEW dst \in Node, NEW t \in Tag, NEW d \in Int
    PROVE  SendMsg(ch, src, dst, t, d) \in [Node -> [Node -> Seq(Message)]]
<1>1. [tag |-> t, data |-> d] \in Message
  BY DEF Message
<1>2. Append(ch[src][dst], [tag |-> t, data |-> d]) \in Seq(Message)
  BY <1>1
<1> QED  BY <1>2 DEF SendMsg

\* A stream that is not empty has a frame at its head, and is a stream after it.
LEMMA ReceiveMsgType ==
    ASSUME NEW ch \in [Node -> [Node -> Seq(Message)]],
           NEW src \in Node, NEW dst \in Node, ch[src][dst] # <<>>
    PROVE  /\ Head(ch[src][dst]) \in Message
           /\ ReceiveMsg(ch, src, dst) \in [Node -> [Node -> Seq(Message)]]
<1>1. ch[src][dst] \in Seq(Message)
  OBVIOUS
<1>2. /\ Head(ch[src][dst]) \in Message
      /\ Tail(ch[src][dst]) \in Seq(Message)
  BY <1>1
<1> QED  BY <1>2 DEF ReceiveMsg

\* A notify keeps the types.
LEMMA WakeUpType ==
    ASSUME TypeOK, NEW n \in Node, WakeUp(n)
    PROVE  pc' \in [Node -> PC] /\ todo' \in [Node -> SUBSET Node]
<1>1. CASE pc[n] = "asleep"
  <2>1. /\ pc' = [pc EXCEPT ![n] = "okeyCS"]
        /\ todo' = [todo EXCEPT ![n] = Peers(n)]
    BY <1>1 DEF WakeUp
  <2> QED  BY <2>1 DEF TypeOK, PC, Peers
<1>2. CASE pc[n] # "asleep"
  BY <1>2 DEF TypeOK, WakeUp
<1> QED  BY <1>1, <1>2

\* A handler that moves on, with a value read from the clock.
LEMMA HandlerType ==
    ASSUME NEW h \in Handler, NEW a \in {"idle", "own", "switch", "ack"},
           NEW t \in Int
    PROVE  GoOn(h, a, t) \in Handler
<1>1. [h EXCEPT !.at = a] \in Handler
  BY DEF Handler
<1>2. ASSUME NEW g \in Handler PROVE [g EXCEPT !.own = t] \in Handler
  BY DEF Handler
<1> QED  BY <1>1, <1>2 DEF GoOn

\* The initial values have their types.
LEMMA TypeInit == Init => TypeOK
<1> SUFFICES ASSUME Init PROVE TypeOK
  OBVIOUS
<1>1. channel \in [Node -> [Node -> Seq(Message)]]
  BY DEF Init
<1>2. handler \in [Node -> Handler]
  BY DEF Init, Handler, IdleHandler, Tag
<1> QED  BY <1>1, <1>2 DEF Init, TypeOK, PC

\* The caller's steps keep the types.
LEMMA TypeCaller ==
    ASSUME TypeOK, NEW n \in Node,
           \/ RequestCS(n) \/ Acquire(n) \/ SpuriousWakeup(n)
           \/ ReleaseCS(n) \/ Leave(n)
    PROVE  TypeOK'
<1> USE DEF TypeOK, PC, Peers
<1>1. CASE RequestCS(n)
  BY <1>1 DEF RequestCS
<1>2. CASE Tick(n)
  BY <1>2 DEF Tick
<1>3. CASE Enqueue(n)
  BY <1>3 DEF Enqueue
<1>4. ASSUME NEW d \in Peers(n), BroadcastRequest(n, d) PROVE TypeOK'
  <2>1. channel' \in [Node -> [Node -> Seq(Message)]]
    BY <1>4, SendMsgType DEF BroadcastRequest, Tag
  <2>2. /\ pc' \in [Node -> PC]
        /\ local' \in [Node -> Int]
        /\ todo' \in [Node -> SUBSET Node]
    <3>1. CASE todo[n] = {d}
      <4>1. /\ pc' = [pc EXCEPT ![n] = "okeyCS"]
            /\ local' = [local EXCEPT ![n] = 0]
            /\ todo' = [todo EXCEPT ![n] = Peers(n)]
        BY <1>4, <3>1, Zenon DEF BroadcastRequest
      <4> QED  BY <4>1
    <3>2. CASE todo[n] # {d}
      <4>1. todo' = [todo EXCEPT ![n] = @ \ {d}] /\ UNCHANGED <<pc, local>>
        BY <1>4, <3>2, Zenon DEF BroadcastRequest
      <4> QED  BY <4>1
    <3> QED  BY <3>1, <3>2
  <2> QED  BY <1>4, <2>1, <2>2 DEF BroadcastRequest
<1>5. ASSUME NEW d \in Peers(n), CheckQueue(n, d) PROVE TypeOK'
  BY <1>5 DEF CheckQueue
<1>6. CASE CheckClock(n)
  BY <1>6 DEF CheckClock
<1>7. CASE Sleep(n)
  BY <1>7 DEF Sleep
<1>8. CASE SpuriousWakeup(n)
  BY <1>8, WakeUpType DEF SpuriousWakeup
<1>9. CASE ReleaseCS(n)
  BY <1>9 DEF ReleaseCS
<1>10. ASSUME NEW d \in Peers(n), BroadcastRelease(n, d) PROVE TypeOK'
  <2>1. channel' \in [Node -> [Node -> Seq(Message)]]
    BY <1>10, SendMsgType DEF BroadcastRelease, Tag
  <2>2. /\ pc' \in [Node -> PC]
        /\ local' \in [Node -> Int]
        /\ todo' \in [Node -> SUBSET Node]
    <3>1. CASE todo[n] = {d}
      <4>1. /\ pc' = [pc EXCEPT ![n] = "idle"]
            /\ local' = [local EXCEPT ![n] = 0]
            /\ todo' = [todo EXCEPT ![n] = todo[n] \ {d}]
        BY <1>10, <3>1, Zenon DEF BroadcastRelease
      <4> QED  BY <4>1
    <3>2. CASE todo[n] # {d}
      <4>1. todo' = [todo EXCEPT ![n] = @ \ {d}] /\ UNCHANGED <<pc, local>>
        BY <1>10, <3>2, Zenon DEF BroadcastRelease
      <4> QED  BY <4>1
    <3> QED  BY <3>1, <3>2
  <2> QED  BY <1>10, <2>1, <2>2 DEF BroadcastRelease
<1> QED  BY <1>1, <1>2, <1>3, <1>4, <1>5, <1>6, <1>7, <1>8, <1>9, <1>10
         DEF Acquire, Leave

\* The handler goes back to idle and the caller wakes.
LEMMA NotifyAllType ==
    ASSUME TypeOK, NEW n \in Node, NotifyAll(n)
    PROVE  /\ pc' \in [Node -> PC] /\ todo' \in [Node -> SUBSET Node]
           /\ handler' \in [Node -> Handler]
<1>1. IdleHandler(n) \in Handler
  BY DEF IdleHandler, Handler, Tag
<1> QED  BY <1>1, WakeUpType DEF NotifyAll, TypeOK

\* The handler's steps keep the types.
LEMMA TypeHandler ==
    ASSUME TypeOK, NEW n \in Node, Handle(n) \/ Take(n)
    PROVE  TypeOK'
<1> USE DEF TypeOK
<1>h. handler[n] \in Handler
  OBVIOUS
<1>1. ASSUME NEW s \in Peers(n), HandleMsg(n, s) PROVE TypeOK'
  <2> DEFINE m == Head(channel[s][n])
  <2>1. s \in Node /\ channel[s][n] # <<>>
    BY <1>1 DEF HandleMsg, Peers
  <2>2. m \in Message /\ channel' \in [Node -> [Node -> Seq(Message)]]
    BY <1>1, <2>1, ReceiveMsgType DEF HandleMsg
  <2>3. m.tag \in Tag /\ m.data \in Int
    BY <2>2 DEF Message
  <2>4. m_Ticks' \in [Node -> [Node -> Int]]
    <3>1. Later(m_Ticks[n][s], m.data) \in Int
      BY <2>1, <2>3 DEF Later
    <3> QED  BY <1>1, <2>1, <3>1 DEF HandleMsg
  <2>5. handler' \in [Node -> Handler]
    <3>1. [at |-> "own", src |-> s, tag |-> m.tag, ticks |-> m.data,
           own |-> m_Ticks[n][n]] \in Handler
      BY <2>1, <2>3 DEF Handler
    <3> QED  BY <1>1, <3>1 DEF HandleMsg
  <2> QED  BY <1>1, <2>2, <2>4, <2>5 DEF HandleMsg, callerVars
<1>2. CASE RecieveAction(n)
  <2>1. handler[n].own \in Int /\ handler[n].ticks \in Int
    BY <1>h DEF Handler
  <2>2. Later(handler[n].own, handler[n].ticks) + 1 \in Int
    BY <2>1 DEF Later
  <2>3. GoOn(handler[n], "switch", 0) \in Handler
    BY <1>h, HandlerType
  <2> QED  BY <1>2, <2>2, <2>3 DEF RecieveAction, callerVars
<1>3. CASE HandleRequest(n)
  <2>1. GoOn(handler[n], "ack", m_Ticks[n][n]) \in Handler
    BY <1>h, HandlerType
  <2>2. handler[n].src \in Node /\ handler[n].ticks \in Int
    BY <1>h DEF Handler
  <2> QED  BY <1>3, <2>1, <2>2 DEF HandleRequest, callerVars
<1>4. CASE SendAck(n)
  <2>1. handler[n].src \in Node /\ handler[n].own \in Int
    BY <1>h DEF Handler
  <2>2. channel' \in [Node -> [Node -> Seq(Message)]]
    BY <1>4, <2>1, SendMsgType DEF SendAck, Tag
  <2> QED  BY <1>4, <2>2, NotifyAllType DEF SendAck
<1>5. CASE HandleRelease(n)
  <2>1. handler[n].src \in Node
    BY <1>h DEF Handler
  <2>2. m_RequestQ' \in [Node -> [Node -> Int]]
    BY <1>5, <2>1 DEF HandleRelease
  <2>3. NotifyAll(n) /\ UNCHANGED <<channel, m_Ticks, local, peer, calls>>
    BY <1>5 DEF HandleRelease
  <2> QED  BY <2>2, <2>3, NotifyAllType
<1>6. CASE HandleOther(n)
  BY <1>6, NotifyAllType DEF HandleOther
<1> QED  BY <1>1, <1>2, <1>3, <1>4, <1>5, <1>6 DEF Handle, Take

\* So does every step.
LEMMA TypeNext == TypeOK /\ [Next]_lmVars => TypeOK'
<1> SUFFICES ASSUME TypeOK, [Next]_lmVars PROVE TypeOK'
  OBVIOUS
<1>1. ASSUME NEW n \in Node,
             \/ RequestCS(n) \/ Acquire(n) \/ SpuriousWakeup(n)
             \/ ReleaseCS(n) \/ Leave(n)
      PROVE  TypeOK'
  BY <1>1, TypeCaller
<1>2. ASSUME NEW n \in Node, Handle(n) \/ Take(n) PROVE TypeOK'
  BY <1>2, TypeHandler
<1>3. CASE UNCHANGED lmVars
  BY <1>3 DEF TypeOK, lmVars
<1> QED  BY <1>1, <1>2, <1>3 DEF Next

\* Every variable of the mutex keeps its type: no step of a caller or of a
\* handler leaves the streams, the clocks, the queues or the two threads'
\* positions outside what the other steps expect.
THEOREM TypeCorrect == Spec => []TypeOK
<1> QED  BY TypeInit, TypeNext, PTL DEF Spec

-----------------------------------------------------------------------------
(* QueuesSettle.  It is inductive once a handler is known never to process a *)
(* message of its own node.                                                  *)

\* What a handler processes comes from a peer.
FromPeers == \A n \in Node : handler[n].at # "idle" => handler[n].src # n

QueuesInv == TypeOK /\ FromPeers /\ QueuesSettle

\* A step that changes nothing LastWord(m, n) looks at.
LEMMA Untouched ==
    ASSUME NEW m \in Node, NEW n \in Node, LastWord(m, n),
           m_RequestQ'[m][m] = m_RequestQ[m][m],
           m_RequestQ'[n][m] = m_RequestQ[n][m],
           channel'[m][n] = channel[m][n],
           ToTell(m, n)' <=> ToTell(m, n),
           ToTell(m, n) => pc'[m] = pc[m] /\ local'[m] = local[m],
           Hearing(m, n)' <=> Hearing(m, n),
           Hearing(m, n) => /\ handler'[n].tag = handler[n].tag
                            /\ handler'[n].ticks = handler[n].ticks
    PROVE  LastWord(m, n)'
<1>1. Told(m, n)' = Told(m, n)
  BY DEF Told
<1>2. CASE ToTell(m, n)
  BY <1>2 DEF LastWord
<1>3. CASE ~ToTell(m, n) /\ Hearing(m, n)
  BY <1>1, <1>3 DEF LastWord
<1>4. CASE ~ToTell(m, n) /\ ~Hearing(m, n)
  BY <1>1, <1>4 DEF LastWord
<1> QED  BY <1>2, <1>3, <1>4

\* Appending a frame to the stream from m to n leaves the places before it.
LEMMA ToldAppend ==
    ASSUME TypeOK, NEW m \in Node, NEW n \in Node, NEW f \in Message,
           channel'[m][n] = Append(channel[m][n], f)
    PROVE  /\ \A i \in Told(m, n) : /\ i \in Told(m, n)'
                                    /\ i \in 1 .. Len(channel[m][n])
                                    /\ channel'[m][n][i] = channel[m][n][i]
           /\ \A i \in Told(m, n)' : i \in Told(m, n) \/ i = Len(channel[m][n]) + 1
           /\ Len(channel[m][n]) + 1 \in Told(m, n)' <=> f.tag \in {"REQUEST", "RELEASE"}
           /\ channel'[m][n][Len(channel[m][n]) + 1] = f
           /\ Len(channel[m][n]) \in Nat
<1>1. channel[m][n] \in Seq(Message)
  BY DEF TypeOK
<1>2. /\ Len(channel[m][n]) \in Nat
      /\ DOMAIN channel[m][n] = 1 .. Len(channel[m][n])
      /\ DOMAIN channel'[m][n] = 1 .. Len(channel[m][n]) + 1
      /\ channel'[m][n][Len(channel[m][n]) + 1] = f
      /\ \A i \in 1 .. Len(channel[m][n]) : channel'[m][n][i] = channel[m][n][i]
  BY <1>1
<1> QED  BY <1>2 DEF Told

\* Taking the head of the stream from m to n moves the other places down.
LEMMA ToldTail ==
    ASSUME TypeOK, NEW m \in Node, NEW n \in Node, channel[m][n] # <<>>,
           channel'[m][n] = Tail(channel[m][n])
    PROVE  /\ \A i \in Told(m, n) : i \in Nat /\ i >= 1
           /\ \A i \in Told(m, n) : i # 1 =>
                 i - 1 \in Told(m, n)' /\ channel'[m][n][i - 1] = channel[m][n][i]
           /\ \A i \in Told(m, n)' : i \in Nat /\ i + 1 \in Told(m, n)
           /\ 1 \in Told(m, n) <=> Head(channel[m][n]).tag \in {"REQUEST", "RELEASE"}
           /\ Head(channel[m][n]) = channel[m][n][1]
<1>1. channel[m][n] \in Seq(Message)
  BY DEF TypeOK
<1>2. /\ Len(channel[m][n]) \in Nat \ {0}
      /\ DOMAIN channel[m][n] = 1 .. Len(channel[m][n])
      /\ DOMAIN channel'[m][n] = 1 .. Len(channel[m][n]) - 1
      /\ Head(channel[m][n]) = channel[m][n][1]
      /\ \A i \in 1 .. Len(channel[m][n]) - 1 : channel'[m][n][i] = channel[m][n][i + 1]
  BY <1>1
<1> QED  BY <1>2 DEF Told

\* A frame of another kind in the stream from m to n is no word on m's request.
LEMMA OtherFrame ==
    ASSUME TypeOK, NEW m \in Node, NEW n \in Node, LastWord(m, n),
           NEW f \in Message, f.tag \notin {"REQUEST", "RELEASE"},
           channel'[m][n] = Append(channel[m][n], f),
           m_RequestQ'[m][m] = m_RequestQ[m][m],
           m_RequestQ'[n][m] = m_RequestQ[n][m],
           ToTell(m, n)' <=> ToTell(m, n),
           ToTell(m, n) => pc'[m] = pc[m] /\ local'[m] = local[m],
           Hearing(m, n)' <=> Hearing(m, n),
           handler'[n].tag = handler[n].tag /\ handler'[n].ticks = handler[n].ticks
    PROVE  LastWord(m, n)'
<1>1. Told(m, n)' = Told(m, n)
  <2>1. \A i \in Told(m, n) : i \in Told(m, n)'
    BY ToldAppend
  <2>2. \A i \in Told(m, n)' : i \in Told(m, n)
    BY ToldAppend
  <2> QED  BY <2>1, <2>2
<1>2. \A i \in Told(m, n) : channel'[m][n][i] = channel[m][n][i]
  BY ToldAppend
<1>3. CASE ToTell(m, n)
  BY <1>3 DEF LastWord
<1>4. CASE ~ToTell(m, n)
  BY <1>1, <1>2, <1>4 DEF LastWord
<1> QED  BY <1>3, <1>4

\* Before anything is sent every entry is empty.
LEMMA QueuesInit == Init => QueuesInv
<1> SUFFICES ASSUME Init PROVE QueuesInv
  OBVIOUS
<1>1. TypeOK
  BY TypeInit
<1>2. FromPeers
  BY DEF Init, FromPeers, IdleHandler
<1>3. ASSUME NEW n \in Node, NEW m \in Peers(n) PROVE LastWord(m, n)
  <2>1. m \in Node
    BY DEF Peers
  <2>2. channel[m][n] = <<>> /\ ~ToTell(m, n) /\ ~Hearing(m, n)
    BY <2>1 DEF Init, ToTell, Hearing, IdleHandler
  <2>3. Told(m, n) = {}
    BY <2>2 DEF Told
  <2>4. m_RequestQ[m][m] = m_RequestQ[n][m]
    BY <2>1, m # n DEF Init, Peers
  <2> QED  BY <2>2, <2>3, <2>4 DEF LastWord
<1> QED  BY <1>1, <1>2, <1>3 DEF QueuesInv, QueuesSettle

\* The caller's steps outside its broadcasts: what they do to a pair.
LEMMA QueuesQuiet ==
    ASSUME QueuesInv, NEW k \in Node,
           \/ RequestCS(k) \/ Tick(k) \/ CheckClock(k) \/ Sleep(k)
           \/ SpuriousWakeup(k)
           \/ \E d \in Peers(k) : CheckQueue(k, d)
    PROVE  QueuesSettle'
<1> SUFFICES ASSUME NEW n \in Node, NEW m \in Peers(n) PROVE LastWord(m, n)'
  BY DEF QueuesSettle, Peers
<1>1. TypeOK /\ m \in Node /\ LastWord(m, n)
  BY DEF QueuesInv, QueuesSettle, Peers
<1>2. UNCHANGED <<channel, m_RequestQ, handler>>
  BY DEF RequestCS, Tick, CheckClock, Sleep, SpuriousWakeup, CheckQueue
<1>3. /\ pc[k] \notin {"request", "release"} /\ pc'[k] \notin {"request", "release"}
      /\ m # k => pc'[m] = pc[m] /\ local'[m] = local[m] /\ todo'[m] = todo[m]
  <2>1. CASE RequestCS(k)
    BY <1>1, <2>1 DEF TypeOK, RequestCS
  <2>2. CASE Tick(k)
    BY <1>1, <2>2 DEF TypeOK, Tick
  <2>3. CASE CheckClock(k)
    BY <1>1, <2>3 DEF TypeOK, CheckClock
  <2>4. CASE Sleep(k)
    BY <1>1, <2>4 DEF TypeOK, Sleep
  <2>5. CASE SpuriousWakeup(k)
    <3>1. /\ pc' = [pc EXCEPT ![k] = "okeyCS"]
          /\ todo' = [todo EXCEPT ![k] = Peers(k)]
      BY <2>5 DEF SpuriousWakeup, WakeUp
    <3> QED  BY <1>1, <2>5, <3>1 DEF TypeOK, SpuriousWakeup
  <2>6. ASSUME NEW d \in Peers(k), CheckQueue(k, d)
        PROVE  /\ pc[k] = "okeyCS" /\ pc'[k] \in {"cs", "blocking", "okeyClock"}
               /\ m # k => pc'[m] = pc[m] /\ local'[m] = local[m] /\ todo'[m] = todo[m]
    BY <1>1, <2>6 DEF TypeOK, CheckQueue
  <2> QED  BY <2>1, <2>2, <2>3, <2>4, <2>5, <2>6
<1>4. ~ToTell(k, n) /\ ~ToTell(k, n)'
  BY <1>3 DEF ToTell
<1>5. Hearing(m, n)' <=> Hearing(m, n)
  BY <1>2 DEF Hearing
<1>6. ToTell(m, n)' <=> ToTell(m, n)
  BY <1>3, <1>4 DEF ToTell
<1>7. ToTell(m, n) => pc'[m] = pc[m] /\ local'[m] = local[m]
  BY <1>3, <1>4
<1> QED  BY <1>1, <1>2, <1>5, <1>6, <1>7, Untouched

\* requestCS writes the own entry: every peer is still to be told of it.
LEMMA QueuesEnqueue ==
    ASSUME QueuesInv, NEW k \in Node, Enqueue(k)
    PROVE  QueuesSettle'
<1> SUFFICES ASSUME NEW n \in Node, NEW m \in Peers(n) PROVE LastWord(m, n)'
  BY DEF QueuesSettle, Peers
<1>1. /\ TypeOK /\ m \in Node /\ m # n /\ LastWord(m, n)
  BY DEF QueuesInv, QueuesSettle, Peers
<1>2. CASE m = k
  <2>1. /\ pc'[m] = "request" /\ n \in todo'[m]
        /\ m_RequestQ'[m][m] = local'[m]
    BY <1>1, <1>2 DEF Enqueue, TypeOK, Peers
  <2> QED  BY <2>1 DEF LastWord, ToTell
<1>3. CASE m # k
  <2>1. /\ pc'[m] = pc[m] /\ local'[m] = local[m] /\ todo'[m] = todo[m]
        /\ m_RequestQ'[m][m] = m_RequestQ[m][m]
        /\ m_RequestQ'[n][m] = m_RequestQ[n][m]
    BY <1>1, <1>3 DEF Enqueue, TypeOK
  <2>2. UNCHANGED <<channel, handler>>
    BY DEF Enqueue
  <2>3. /\ ToTell(m, n)' <=> ToTell(m, n)
        /\ Hearing(m, n)' <=> Hearing(m, n)
    BY <2>1, <2>2 DEF ToTell, Hearing
  <2> QED  BY <1>1, <2>1, <2>2, <2>3, Untouched
<1> QED  BY <1>2, <1>3

\* releaseCS erases it: every peer is still to be told of that.
LEMMA QueuesReleaseCS ==
    ASSUME QueuesInv, NEW k \in Node, ReleaseCS(k)
    PROVE  QueuesSettle'
<1> SUFFICES ASSUME NEW n \in Node, NEW m \in Peers(n) PROVE LastWord(m, n)'
  BY DEF QueuesSettle, Peers
<1>1. /\ TypeOK /\ m \in Node /\ m # n /\ LastWord(m, n)
  BY DEF QueuesInv, QueuesSettle, Peers
<1>2. CASE m = k
  <2>1. /\ pc'[m] = "release" /\ n \in todo'[m]
        /\ m_RequestQ'[m][m] = 0
    BY <1>1, <1>2 DEF ReleaseCS, TypeOK, Peers
  <2> QED  BY <2>1 DEF LastWord, ToTell
<1>3. CASE m # k
  <2>1. /\ pc'[m] = pc[m] /\ local'[m] = local[m] /\ todo'[m] = todo[m]
        /\ m_RequestQ'[m][m] = m_RequestQ[m][m]
        /\ m_RequestQ'[n][m] = m_RequestQ[n][m]
    BY <1>1, <1>3 DEF ReleaseCS, TypeOK
  <2>2. UNCHANGED <<channel, handler>>
    BY DEF ReleaseCS
  <2>3. /\ ToTell(m, n)' <=> ToTell(m, n)
        /\ Hearing(m, n)' <=> Hearing(m, n)
    BY <2>1, <2>2 DEF ToTell, Hearing
  <2> QED  BY <1>1, <2>1, <2>2, <2>3, Untouched
<1> QED  BY <1>2, <1>3

\* One more REQUEST is sent: the word is now in the stream of its peer.
LEMMA QueuesBroadcastRequest ==
    ASSUME QueuesInv, NEW k \in Node, NEW d \in Peers(k), BroadcastRequest(k, d)
    PROVE  QueuesSettle'
<1> SUFFICES ASSUME NEW n \in Node, NEW m \in Peers(n) PROVE LastWord(m, n)'
  BY DEF QueuesSettle, Peers
<1>1. /\ TypeOK /\ m \in Node /\ d \in Node /\ m # n /\ LastWord(m, n)
  BY DEF QueuesInv, QueuesSettle, Peers
<1>2. /\ UNCHANGED <<m_RequestQ, handler>>
      /\ channel' = SendMsg(channel, k, d, "REQUEST", local[k])
      /\ pc[k] = "request" /\ d \in todo[k]
  BY DEF BroadcastRequest
<1>3. Hearing(m, n)' <=> Hearing(m, n)
  BY <1>2 DEF Hearing
<1>4. /\ m # k => pc'[m] = pc[m] /\ local'[m] = local[m] /\ todo'[m] = todo[m]
      /\ ToTell(k, n)' <=> ToTell(k, n) /\ n # d
      /\ ToTell(k, n)' => pc'[k] = pc[k] /\ local'[k] = local[k]
  <2>1. CASE todo[k] = {d}
    <3>1. /\ pc' = [pc EXCEPT ![k] = "okeyCS"]
          /\ local' = [local EXCEPT ![k] = 0]
          /\ \A i \in Node : i # k => todo'[i] = todo[i]
      BY <1>1, <2>1 DEF BroadcastRequest, TypeOK
    <3> QED  BY <1>1, <1>2, <2>1, <3>1 DEF TypeOK, ToTell
  <2>2. CASE todo[k] # {d}
    <3>1. todo' = [todo EXCEPT ![k] = @ \ {d}] /\ UNCHANGED <<pc, local>>
      BY <2>2, Zenon DEF BroadcastRequest
    <3> QED  BY <1>1, <1>2, <3>1 DEF TypeOK, ToTell
  <2> QED  BY <2>1, <2>2
<1>5. CASE m = k /\ n = d
  <2> DEFINE f == [tag |-> "REQUEST", data |-> local[k]]
  <2>1. f \in Message /\ channel'[m][n] = Append(channel[m][n], f)
    BY <1>1, <1>2, <1>5 DEF TypeOK, Message, Tag, SendMsg
  <2>2. /\ \A i \in Told(m, n)' : i \in Told(m, n) \/ i = Len(channel[m][n]) + 1
        /\ \A i \in Told(m, n) : i \in 1 .. Len(channel[m][n])
        /\ Len(channel[m][n]) + 1 \in Told(m, n)'
        /\ channel'[m][n][Len(channel[m][n]) + 1] = f
        /\ Len(channel[m][n]) \in Nat
    BY <1>1, <2>1, ToldAppend
  <2>3. m_RequestQ[m][m] = Entry(f.tag, f.data)
    BY <1>1, <1>2, <1>5 DEF LastWord, ToTell, Entry
  <2>4. ASSUME NEW i \in Told(m, n)', \A j \in Told(m, n)' : j <= i
        PROVE  channel'[m][n][i] = f
    BY <2>2, <2>4
  <2>5. ~ToTell(m, n)'
    BY <1>4, <1>5
  <2> QED  BY <1>2, <2>2, <2>3, <2>4, <2>5 DEF LastWord
<1>6. CASE ~(m = k /\ n = d)
  <2>1. channel'[m][n] = channel[m][n]
    BY <1>1, <1>2, <1>6 DEF TypeOK, SendMsg
  <2>2. ToTell(m, n)' <=> ToTell(m, n)
    BY <1>4, <1>6 DEF ToTell
  <2>3. ToTell(m, n) => pc'[m] = pc[m] /\ local'[m] = local[m]
    BY <1>4, <1>6, <2>2
  <2> QED  BY <1>1, <1>2, <1>3, <2>1, <2>2, <2>3, Untouched
<1> QED  BY <1>5, <1>6

\* One more RELEASE is sent: the word is now in the stream of its peer.
LEMMA QueuesBroadcastRelease ==
    ASSUME QueuesInv, NEW k \in Node, NEW d \in Peers(k), BroadcastRelease(k, d)
    PROVE  QueuesSettle'
<1> SUFFICES ASSUME NEW n \in Node, NEW m \in Peers(n) PROVE LastWord(m, n)'
  BY DEF QueuesSettle, Peers
<1>1. /\ TypeOK /\ m \in Node /\ d \in Node /\ m # n /\ LastWord(m, n)
  BY DEF QueuesInv, QueuesSettle, Peers
<1>2. /\ UNCHANGED <<m_RequestQ, handler>>
      /\ channel' = SendMsg(channel, k, d, "RELEASE", local[k])
      /\ pc[k] = "release" /\ d \in todo[k]
  BY DEF BroadcastRelease
<1>3. Hearing(m, n)' <=> Hearing(m, n)
  BY <1>2 DEF Hearing
<1>4. /\ m # k => pc'[m] = pc[m] /\ local'[m] = local[m] /\ todo'[m] = todo[m]
      /\ ToTell(k, n)' <=> ToTell(k, n) /\ n # d
      /\ ToTell(k, n)' => pc'[k] = pc[k] /\ local'[k] = local[k]
  <2>1. CASE todo[k] = {d}
    <3>1. /\ pc' = [pc EXCEPT ![k] = "idle"]
          /\ local' = [local EXCEPT ![k] = 0]
          /\ \A i \in Node : i # k => todo'[i] = todo[i]
      BY <1>1, <2>1 DEF BroadcastRelease, TypeOK
    <3> QED  BY <1>1, <1>2, <2>1, <3>1 DEF TypeOK, ToTell
  <2>2. CASE todo[k] # {d}
    <3>1. todo' = [todo EXCEPT ![k] = @ \ {d}] /\ UNCHANGED <<pc, local>>
      BY <2>2, Zenon DEF BroadcastRelease
    <3> QED  BY <1>1, <1>2, <3>1 DEF TypeOK, ToTell
  <2> QED  BY <2>1, <2>2
<1>5. CASE m = k /\ n = d
  <2> DEFINE f == [tag |-> "RELEASE", data |-> local[k]]
  <2>1. f \in Message /\ channel'[m][n] = Append(channel[m][n], f)
    BY <1>1, <1>2, <1>5 DEF TypeOK, Message, Tag, SendMsg
  <2>2. /\ \A i \in Told(m, n)' : i \in Told(m, n) \/ i = Len(channel[m][n]) + 1
        /\ \A i \in Told(m, n) : i \in 1 .. Len(channel[m][n])
        /\ Len(channel[m][n]) + 1 \in Told(m, n)'
        /\ channel'[m][n][Len(channel[m][n]) + 1] = f
        /\ Len(channel[m][n]) \in Nat
    BY <1>1, <2>1, ToldAppend
  <2>3. m_RequestQ[m][m] = Entry(f.tag, f.data)
    BY <1>1, <1>2, <1>5 DEF LastWord, ToTell, Entry
  <2>4. ASSUME NEW i \in Told(m, n)', \A j \in Told(m, n)' : j <= i
        PROVE  channel'[m][n][i] = f
    BY <2>2, <2>4
  <2>5. ~ToTell(m, n)'
    BY <1>4, <1>5
  <2> QED  BY <1>2, <2>2, <2>3, <2>4, <2>5 DEF LastWord
<1>6. CASE ~(m = k /\ n = d)
  <2>1. channel'[m][n] = channel[m][n]
    BY <1>1, <1>2, <1>6 DEF TypeOK, SendMsg
  <2>2. ToTell(m, n)' <=> ToTell(m, n)
    BY <1>4, <1>6 DEF ToTell
  <2>3. ToTell(m, n) => pc'[m] = pc[m] /\ local'[m] = local[m]
    BY <1>4, <1>6, <2>2
  <2> QED  BY <1>1, <1>2, <1>3, <2>1, <2>2, <2>3, Untouched
<1> QED  BY <1>5, <1>6

\* The handler wakes its caller, which is in no broadcast before or after.
LEMMA NotifyAllToTell ==
    ASSUME TypeOK, NEW k \in Node, NotifyAll(k), NEW m \in Node, NEW n \in Node,
           UNCHANGED local
    PROVE  /\ ToTell(m, n)' <=> ToTell(m, n)
           /\ ToTell(m, n) => pc'[m] = pc[m] /\ local'[m] = local[m]
<1>1. CASE pc[k] = "asleep"
  <2>1. /\ pc' = [pc EXCEPT ![k] = "okeyCS"]
        /\ todo' = [todo EXCEPT ![k] = Peers(k)]
    BY <1>1 DEF NotifyAll, WakeUp
  <2> QED  BY <1>1, <2>1 DEF TypeOK, ToTell
<1>2. CASE pc[k] # "asleep"
  BY <1>2 DEF NotifyAll, WakeUp, ToTell
<1> QED  BY <1>1, <1>2

\* The head of a stream becomes what the handler is about to apply.
LEMMA QueuesHandleMsg ==
    ASSUME QueuesInv, NEW k \in Node, NEW s \in Peers(k), HandleMsg(k, s)
    PROVE  QueuesSettle'
<1> SUFFICES ASSUME NEW n \in Node, NEW m \in Peers(n) PROVE LastWord(m, n)'
  BY DEF QueuesSettle, Peers
<1>1. /\ TypeOK /\ m \in Node /\ m # n /\ LastWord(m, n)
  BY DEF QueuesInv, QueuesSettle, Peers
<1>2. /\ UNCHANGED <<m_RequestQ, pc, local, todo>>
      /\ channel' = ReceiveMsg(channel, s, k)
      /\ handler[k].at = "idle" /\ channel[s][k] # <<>> /\ s \in Node
  BY DEF HandleMsg, callerVars, Peers
<1>3. /\ \A i \in Node : i # k => handler'[i] = handler[i]
      /\ handler'[k].at = "own" /\ handler'[k].src = s
      /\ handler'[k].tag = Head(channel[s][k]).tag
      /\ handler'[k].ticks = Head(channel[s][k]).data
  BY <1>1 DEF HandleMsg, TypeOK
<1>4. ToTell(m, n)' <=> ToTell(m, n)
  BY <1>2 DEF ToTell
<1>5. CASE m = s /\ n = k
  <2>1. channel'[m][n] = Tail(channel[m][n]) /\ channel[m][n] # <<>>
    BY <1>1, <1>2, <1>5 DEF TypeOK, ReceiveMsg
  <2>2. /\ \A i \in Told(m, n) : i \in Nat /\ i >= 1
        /\ \A i \in Told(m, n) : i # 1 =>
              i - 1 \in Told(m, n)' /\ channel'[m][n][i - 1] = channel[m][n][i]
        /\ \A i \in Told(m, n)' : i \in Nat /\ i + 1 \in Told(m, n)
        /\ 1 \in Told(m, n) <=> Head(channel[m][n]).tag \in {"REQUEST", "RELEASE"}
        /\ Head(channel[m][n]) = channel[m][n][1]
    BY <1>1, <2>1, ToldTail
  <2>3. ~Hearing(m, n)
    BY <1>2, <1>5 DEF Hearing
  <2>4. Hearing(m, n)' <=> 1 \in Told(m, n)
    BY <1>3, <1>5, <2>2 DEF Hearing
  <2>5. CASE ToTell(m, n)
    BY <1>1, <1>2, <1>4, <2>5 DEF LastWord
  <2>6. CASE ~ToTell(m, n) /\ Told(m, n)' # {}
    <3>1. ASSUME NEW i \in Told(m, n)', \A j \in Told(m, n)' : j <= i
          PROVE  m_RequestQ[m][m] = Entry(channel'[m][n][i].tag, channel'[m][n][i].data)
      <4>1. /\ i + 1 \in Told(m, n) /\ i \in Nat /\ i >= 1
            /\ i + 1 # 1 /\ i + 1 - 1 = i
        <5>1. i \in Nat /\ i + 1 \in Told(m, n)
          BY <2>2
        <5>2. i # 0
          BY <1>1, <1>2, <1>5 DEF Told, TypeOK, ReceiveMsg
        <5> QED  BY <5>1, <5>2
      <4>2. channel'[m][n][i] = channel[m][n][i + 1]
        BY <2>2, <4>1
      <4>3. \A j \in Told(m, n) : j <= i + 1
        <5>1. ASSUME NEW j \in Told(m, n), j # 1 PROVE j <= i + 1
          <6>1. j - 1 <= i /\ j \in Nat
            BY <2>2, <3>1, <5>1
          <6> QED  BY <4>1, <6>1
        <5> QED  BY <4>1, <5>1
      <4> QED  BY <1>1, <2>6, <4>1, <4>2, <4>3 DEF LastWord
    <3> QED  BY <1>2, <1>4, <2>6, <3>1 DEF LastWord
  <2>7. CASE ~ToTell(m, n) /\ Told(m, n)' = {} /\ 1 \in Told(m, n)
    <3>1. \A j \in Told(m, n) : j = 1
      BY <2>2, <2>7
    <3>2. m_RequestQ[m][m] = Entry(handler'[n].tag, handler'[n].ticks)
      BY <1>1, <1>3, <1>5, <2>2, <2>7, <3>1 DEF LastWord
    <3> QED  BY <1>2, <1>4, <2>4, <2>7, <3>2 DEF LastWord
  <2>8. CASE ~ToTell(m, n) /\ Told(m, n)' = {} /\ 1 \notin Told(m, n)
    <3>1. Told(m, n) = {}
      BY <2>2, <2>8
    <3>2. m_RequestQ[m][m] = m_RequestQ[n][m]
      BY <1>1, <2>3, <2>8, <3>1 DEF LastWord
    <3> QED  BY <1>2, <1>4, <2>4, <2>8, <3>2 DEF LastWord
  <2> QED  BY <2>5, <2>6, <2>7, <2>8
<1>6. CASE ~(m = s /\ n = k)
  <2>1. channel'[m][n] = channel[m][n]
    BY <1>1, <1>2, <1>6 DEF TypeOK, ReceiveMsg
  <2>2. Hearing(m, n)' <=> Hearing(m, n)
    BY <1>2, <1>3, <1>6 DEF Hearing
  <2>3. Hearing(m, n) => handler'[n].tag = handler[n].tag
                           /\ handler'[n].ticks = handler[n].ticks
    BY <1>2, <1>3 DEF Hearing
  <2> QED  BY <1>1, <1>2, <1>4, <2>1, <2>2, <2>3, Untouched
<1> QED  BY <1>5, <1>6

\* RecieveAction keeps the message it is for.
LEMMA QueuesRecieveAction ==
    ASSUME QueuesInv, NEW k \in Node, RecieveAction(k)
    PROVE  QueuesSettle'
<1> SUFFICES ASSUME NEW n \in Node, NEW m \in Peers(n) PROVE LastWord(m, n)'
  BY DEF QueuesSettle, Peers
<1>1. /\ TypeOK /\ m \in Node /\ m # n /\ LastWord(m, n)
  BY DEF QueuesInv, QueuesSettle, Peers
<1>2. /\ UNCHANGED <<channel, m_RequestQ, pc, local, todo>>
      /\ handler' = [handler EXCEPT ![k] = GoOn(@, "switch", 0)]
      /\ handler[k].at = "own"
  BY DEF RecieveAction, callerVars
<1>3. handler[k] \in Handler
  BY <1>1 DEF TypeOK
<1>4. /\ GoOn(handler[k], "switch", 0).at = "switch"
      /\ GoOn(handler[k], "switch", 0).src = handler[k].src
      /\ GoOn(handler[k], "switch", 0).tag = handler[k].tag
      /\ GoOn(handler[k], "switch", 0).ticks = handler[k].ticks
  BY <1>3 DEF GoOn, Handler
<1>5. /\ Hearing(m, n)' <=> Hearing(m, n)
      /\ handler'[n].tag = handler[n].tag /\ handler'[n].ticks = handler[n].ticks
  BY <1>1, <1>2, <1>4 DEF Hearing, TypeOK
<1>6. ToTell(m, n)' <=> ToTell(m, n)
  BY <1>2 DEF ToTell
<1> QED  BY <1>1, <1>2, <1>5, <1>6, Untouched

\* The handler applies what it has taken: the entry of the sender follows.
LEMMA QueuesApply ==
    ASSUME QueuesInv, NEW k \in Node, HandleRequest(k) \/ HandleRelease(k)
    PROVE  QueuesSettle'
<1> SUFFICES ASSUME NEW n \in Node, NEW m \in Peers(n) PROVE LastWord(m, n)'
  BY DEF QueuesSettle, Peers
<1>1. /\ TypeOK /\ m \in Node /\ m # n /\ LastWord(m, n)
  BY DEF QueuesInv, QueuesSettle, Peers
<1>2. /\ handler[k].at = "switch" /\ handler[k].tag \in {"REQUEST", "RELEASE"}
      /\ m_RequestQ' = [m_RequestQ EXCEPT ![k][handler[k].src] =
                          Entry(handler[k].tag, handler[k].ticks)]
      /\ UNCHANGED <<channel, local>>
  BY DEF HandleRequest, HandleRelease, callerVars, Entry
<1>3. /\ handler'[k].at \in {"idle", "ack"}
      /\ \A i \in Node : i # k => handler'[i] = handler[i]
  <2>1. CASE HandleRequest(k)
    <3>1. handler[k] \in Handler
      BY <1>1 DEF TypeOK
    <3>2. GoOn(handler[k], "ack", m_Ticks[k][k]).at = "ack"
      BY <3>1 DEF GoOn, Handler
    <3> QED  BY <1>1, <2>1, <3>2 DEF HandleRequest, TypeOK
  <2>2. CASE HandleRelease(k)
    BY <1>1, <2>2 DEF HandleRelease, NotifyAll, IdleHandler, TypeOK
  <2> QED  BY <2>1, <2>2
<1>4. /\ ToTell(m, n)' <=> ToTell(m, n)
      /\ ToTell(m, n) => pc'[m] = pc[m] /\ local'[m] = local[m]
  <2>1. CASE HandleRequest(k)
    BY <2>1 DEF HandleRequest, callerVars, ToTell
  <2>2. CASE HandleRelease(k)
    BY <1>1, <2>2, NotifyAllToTell DEF HandleRelease
  <2> QED  BY <2>1, <2>2
<1>5. handler[k].src \in Node /\ handler[k].src # k
  BY <1>1, <1>2 DEF QueuesInv, FromPeers, TypeOK, Handler
<1>6. m_RequestQ'[m][m] = m_RequestQ[m][m]
  BY <1>1, <1>2, <1>5 DEF TypeOK
<1>7. Told(m, n)' = Told(m, n)
  BY <1>2 DEF Told
<1>8. CASE n = k /\ m = handler[k].src
  <2>1. /\ m_RequestQ'[n][m] = Entry(handler[n].tag, handler[n].ticks)
        /\ Hearing(m, n) /\ ~Hearing(m, n)'
    BY <1>1, <1>2, <1>3, <1>5, <1>8 DEF Hearing, TypeOK
  <2>2. CASE ToTell(m, n)
    BY <1>1, <1>4, <1>6, <2>2 DEF LastWord
  <2>3. CASE ~ToTell(m, n)
    BY <1>1, <1>2, <1>4, <1>6, <1>7, <2>1, <2>3 DEF LastWord
  <2> QED  BY <2>2, <2>3
<1>9. CASE ~(n = k /\ m = handler[k].src)
  <2>1. m_RequestQ'[n][m] = m_RequestQ[n][m]
    BY <1>1, <1>2, <1>5, <1>9 DEF TypeOK
  <2>2. /\ Hearing(m, n)' <=> Hearing(m, n)
        /\ Hearing(m, n) => handler'[n].tag = handler[n].tag
                              /\ handler'[n].ticks = handler[n].ticks
    BY <1>3, <1>9 DEF Hearing
  <2> QED  BY <1>1, <1>2, <1>4, <1>6, <2>1, <2>2, Untouched
<1> QED  BY <1>8, <1>9

\* The handler ends with nothing left to apply; an ACK is no word on a request.
LEMMA QueuesFinish ==
    ASSUME QueuesInv, NEW k \in Node, SendAck(k) \/ HandleOther(k)
    PROVE  QueuesSettle'
<1> SUFFICES ASSUME NEW n \in Node, NEW m \in Peers(n) PROVE LastWord(m, n)'
  BY DEF QueuesSettle, Peers
<1>1. /\ TypeOK /\ m \in Node /\ m # n /\ LastWord(m, n)
  BY DEF QueuesInv, QueuesSettle, Peers
<1>2. /\ UNCHANGED <<m_RequestQ, local>> /\ NotifyAll(k)
      /\ ~Hearing(m, k)
  BY DEF SendAck, HandleOther, Hearing
<1>3. /\ handler'[k].at = "idle"
      /\ \A i \in Node : i # k => handler'[i] = handler[i]
  BY <1>1, <1>2 DEF NotifyAll, IdleHandler, TypeOK
<1>4. /\ ToTell(m, n)' <=> ToTell(m, n)
      /\ ToTell(m, n) => pc'[m] = pc[m] /\ local'[m] = local[m]
  BY <1>1, <1>2, NotifyAllToTell
<1>5. /\ Hearing(m, n)' <=> Hearing(m, n)
      /\ Hearing(m, n) => handler'[n].tag = handler[n].tag
                            /\ handler'[n].ticks = handler[n].ticks
  BY <1>2, <1>3 DEF Hearing
<1>6. CASE channel'[m][n] = channel[m][n]
  BY <1>1, <1>2, <1>4, <1>5, <1>6, Untouched
<1>7. CASE channel'[m][n] # channel[m][n]
  <2> DEFINE f == [tag |-> "ACK", data |-> handler[k].own]
  <2>1. handler[k].src \in Node /\ handler[k].own \in Int
    BY <1>1 DEF TypeOK, Handler
  <2>2. channel' = SendMsg(channel, k, handler[k].src, "ACK", handler[k].own)
    BY <1>7 DEF SendAck, HandleOther
  <2>3. /\ m = k /\ f \in Message
        /\ channel'[m][n] = Append(channel[m][n], f)
    BY <1>1, <1>7, <2>1, <2>2 DEF TypeOK, SendMsg, Message, Tag
  <2>4. handler'[n] = handler[n]
    BY <1>1, <1>3, <2>3
  <2> QED  BY <1>1, <1>2, <1>4, <1>5, <2>3, <2>4, OtherFrame
<1> QED  BY <1>6, <1>7

\* No handler ever processes a word of its own node.
LEMMA FromPeersNext ==
    ASSUME QueuesInv, [Next]_lmVars
    PROVE  FromPeers'
<1> SUFFICES ASSUME NEW n \in Node, handler'[n].at # "idle"
             PROVE  handler'[n].src # n
  BY DEF FromPeers
<1>1. TypeOK /\ (handler[n].at # "idle" => handler[n].src # n)
  BY DEF QueuesInv, FromPeers
<1>2. CASE handler'[n] = handler[n]
  BY <1>1, <1>2
<1>3. ASSUME NEW k \in Node, NEW s \in Peers(k), HandleMsg(k, s)
      PROVE  handler'[n].src # n
  BY <1>1, <1>3 DEF HandleMsg, TypeOK, Peers
<1>4. ASSUME NEW k \in Node, RecieveAction(k) \/ HandleRequest(k)
      PROVE  handler'[n].src # n
  <2>1. handler[k] \in Handler /\ handler[k].at \in {"own", "switch"}
    BY <1>1, <1>4 DEF TypeOK, RecieveAction, HandleRequest
  <2>2. \A a, t : GoOn(handler[k], a, t).src = handler[k].src
    BY <2>1 DEF GoOn, Handler
  <2>3. CASE n = k
    <3>1. \E a, t : handler' = [handler EXCEPT ![k] = GoOn(@, a, t)]
      BY <1>4 DEF RecieveAction, HandleRequest
    <3>2. handler'[n].src = handler[n].src
      BY <1>1, <2>2, <2>3, <3>1 DEF TypeOK
    <3> QED  BY <1>1, <2>1, <2>3, <3>2
  <2>4. CASE n # k
    BY <1>1, <1>2, <1>4, <2>4 DEF RecieveAction, HandleRequest, TypeOK
  <2> QED  BY <2>3, <2>4
<1>5. ASSUME NEW k \in Node, SendAck(k) \/ HandleRelease(k) \/ HandleOther(k)
      PROVE  handler'[n].src # n
  <2>1. NotifyAll(k)
    BY <1>5 DEF SendAck, HandleRelease, HandleOther
  <2> QED  BY <1>1, <1>2, <2>1 DEF NotifyAll, IdleHandler, TypeOK
<1>6. ASSUME NEW k \in Node,
             \/ RequestCS(k) \/ Acquire(k) \/ SpuriousWakeup(k)
             \/ ReleaseCS(k) \/ Leave(k)
      PROVE  handler'[n].src # n
  BY <1>2, <1>6 DEF RequestCS, Acquire, SpuriousWakeup, ReleaseCS, Leave, Tick,
     Enqueue, CheckClock, Sleep, BroadcastRequest, CheckQueue, BroadcastRelease
<1>7. CASE UNCHANGED lmVars
  BY <1>2, <1>7 DEF lmVars
<1> QED  BY <1>3, <1>4, <1>5, <1>6, <1>7 DEF Next, Handle, Take

\* Every step keeps the invariant.
LEMMA QueuesNext == QueuesInv /\ [Next]_lmVars => QueuesInv'
<1> SUFFICES ASSUME QueuesInv, [Next]_lmVars PROVE QueuesInv'
  OBVIOUS
<1>1. TypeOK'
  BY TypeNext DEF QueuesInv
<1>2. FromPeers'
  BY FromPeersNext
<1>3. ASSUME NEW k \in Node,
             \/ RequestCS(k) \/ Acquire(k) \/ SpuriousWakeup(k)
             \/ ReleaseCS(k) \/ Leave(k)
      PROVE  QueuesSettle'
  BY <1>3, QueuesQuiet, QueuesEnqueue, QueuesReleaseCS, QueuesBroadcastRequest,
     QueuesBroadcastRelease DEF Acquire, Leave
<1>4. ASSUME NEW k \in Node, Handle(k) \/ Take(k)
      PROVE  QueuesSettle'
  BY <1>4, QueuesHandleMsg, QueuesRecieveAction, QueuesApply, QueuesFinish
     DEF Handle, Take
<1>5. ASSUME UNCHANGED lmVars PROVE QueuesSettle'
  <2> SUFFICES ASSUME NEW n \in Node, NEW m \in Peers(n) PROVE LastWord(m, n)'
    BY DEF QueuesSettle, Peers
  <2>1. m \in Node /\ LastWord(m, n)
    BY DEF QueuesInv, QueuesSettle, Peers
  <2>2. UNCHANGED <<channel, m_RequestQ, pc, local, todo, handler>>
    BY <1>5 DEF lmVars
  <2>3. /\ ToTell(m, n)' <=> ToTell(m, n)
        /\ Hearing(m, n)' <=> Hearing(m, n)
    BY <2>2 DEF ToTell, Hearing
  <2> QED  BY <2>1, <2>2, <2>3, Untouched
<1> QED  BY <1>1, <1>2, <1>3, <1>4, <1>5 DEF QueuesInv, Next

\* Whatever the nodes are and however often they call requestCS, the queue of a
\* node shows, once all words to it are applied, exactly its peers' requests.
THEOREM QueuesSettled == Spec => []QueuesSettle
<1>1. QueuesInv => QueuesSettle
  BY DEF QueuesInv
<1> QED  BY <1>1, QueuesInit, QueuesNext, PTL DEF Spec
=============================================================================
