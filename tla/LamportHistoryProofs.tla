----------------------- MODULE LamportHistoryProofs -----------------------
(***************************************************************************)
(* Lamport's mutex excludes as long as none of its three races has         *)
(* happened: for any set of nodes, any number of calls and any             *)
(* interleaving of callers and handlers.                                   *)
(***************************************************************************)
EXTENDS LamportMutexHistory, LamportMutexProofs, FiniteSetTheorems

\* No time that m has sent n, whether n has it or it is under way, is after b.
Sent(m, n, b) ==
    /\ m_Ticks[n][m] <= b
    /\ \A j \in DOMAIN channel[m][n] : channel[m][n][j].data <= b

\* The clock of m is not behind what m has sent or is about to send; and it is
\* ahead of all that from the tick to the request.
Clock(m) ==
    /\ m_Ticks[m][m] >= 1
    /\ handler[m].at = "ack" => handler[m].own <= m_Ticks[m][m]
    /\ pc[m] \in {"request", "release"} => local[m] <= m_Ticks[m][m]
    /\ \A n \in Peers(m) :
         /\ Sent(m, n, m_Ticks[m][m])
         /\ pc[m] = "tick" => Sent(m, n, local[m])
         /\ pc[m] = "ticked" => Sent(m, n, m_Ticks[m][m] - 1)

\* Until n has applied the REQUEST of m, it has no later time from m, and none
\* comes to it before that REQUEST.
Order(m, n) ==
    m_RequestQ[m][m] # 0 =>
        /\ ToTell(m, n) \/ Told(m, n) # {} \/ Hearing(m, n) =>
             m_Ticks[n][m] <= m_RequestQ[m][m]
        /\ \A j \in DOMAIN channel[m][n] :
             ToTell(m, n) \/ (\E i \in Told(m, n) : j <= i) =>
                channel[m][n][j].data <= m_RequestQ[m][m]

\* Where the own request is in the queue.
Asked(n) ==
    pc[n] \in {"request", "okeyCS", "okeyClock", "blocking", "asleep", "cs"} =>
        m_RequestQ[n][n] >= 1

\* okeyCS has looked at both entries of m.
Passed(n, m) ==
    \/ pc[n] = "cs"
    \/ pc[n] \in {"okeyCS", "okeyClock"} /\ m \notin todo[n] /\ peer[n] # m

\* What it has seen: a later time of m; so if m has a request, that is later.
Pass(n, m) ==
    Passed(n, m) =>
        /\ ~isGreater(m_RequestQ[n][n], n, m_Ticks[n][m], m)
        /\ m_RequestQ[m][m] # 0 =>
             isGreater(m_RequestQ[m][m], m, m_RequestQ[n][n], n)

\* It has looked at the queue entry of the next peer, and not at its clock.
Half(n) ==
    IF pc[n] = "okeyClock"
    THEN /\ peer[n] \in Peers(n) \ todo[n]
         /\ \/ m_RequestQ[n][peer[n]] = 0
            \/ isGreater(m_RequestQ[n][peer[n]], peer[n], m_RequestQ[n][n], n)
    ELSE peer[n] = n

Unraced ==
    \A m \in Node : /\ Clock(m) /\ Asked(m) /\ Half(m)
                    /\ \A n \in Peers(m) : Order(m, n) /\ Pass(m, n)

RaceInv == QueuesInv /\ (raced = {} => Unraced)

-----------------------------------------------------------------------------
(* What a step does to a caller, a handler and a stream *)

\* The caller of m stays where it is.
Still(m) ==
    /\ pc'[m] = pc[m] /\ local'[m] = local[m] /\ todo'[m] = todo[m] /\ peer'[m] = peer[m]
    /\ m_RequestQ'[m][m] = m_RequestQ[m][m]

Woken(m) ==
    /\ pc[m] = "asleep" /\ pc'[m] = "okeyCS" /\ todo'[m] = Peers(m)
    /\ local'[m] = local[m] /\ peer'[m] = peer[m]
    /\ m_RequestQ'[m][m] = m_RequestQ[m][m]

CallerAction(m) ==
    \/ RequestCS(m) \/ Tick(m) \/ Enqueue(m) \/ CheckClock(m) \/ Sleep(m) \/ ReleaseCS(m)
    \/ \E d \in Peers(m) : \/ BroadcastRequest(m, d) \/ CheckQueue(m, d)
                           \/ BroadcastRelease(m, d)

\* What a handler processes is a peer's.
LEMMA SourceFacts ==
    ASSUME QueuesInv
    PROVE  \A k \in Node : /\ handler[k] \in Handler
                           /\ handler[k].at # "idle" => handler[k].src \in Peers(k)
<1>1. \A k \in Node : handler[k] \in Handler
  BY DEF QueuesInv, TypeOK
<1>2. \A k \in Node : handler[k].src \in Node
  BY <1>1 DEF Handler
<1> QED  BY <1>1, <1>2 DEF QueuesInv, FromPeers, Peers

\* A notify wakes the caller or leaves it alone.
LEMMA WakeStep ==
    ASSUME TypeOK, NEW k \in Node, WakeUp(k), UNCHANGED <<local, peer>>,
           NEW m \in Node, m_RequestQ'[m][m] = m_RequestQ[m][m]
    PROVE  Still(m) \/ Woken(m)
<1>1. CASE pc[k] = "asleep"
  <2>1. pc' = [pc EXCEPT ![k] = "okeyCS"] /\ todo' = [todo EXCEPT ![k] = Peers(k)]
    BY <1>1 DEF WakeUp
  <2> QED  BY <1>1, <2>1 DEF TypeOK, Still, Woken
<1>2. CASE pc[k] # "asleep"
  <2>1. UNCHANGED <<pc, todo>>
    BY <1>2 DEF WakeUp
  <2> QED  BY <2>1 DEF Still
<1> QED  BY <1>1, <1>2

\* Any step leaves a caller where it is, wakes it, or is its own.
LEMMA CallerStep ==
    ASSUME QueuesInv, Next, NEW m \in Node
    PROVE  Still(m) \/ Woken(m) \/ CallerAction(m)
<1>0. TypeOK
  BY DEF QueuesInv
<1>p. \A k \in Node : handler[k].at # "idle" => handler[k].src \in Peers(k)
  BY SourceFacts
<1>1. ASSUME NEW k \in Node, k # m, CallerAction(k) PROVE Still(m)
  <2>1. CASE RequestCS(k) \/ Tick(k) \/ Enqueue(k)
    <3>1. CASE RequestCS(k)
      BY <1>0, <1>1, <3>1 DEF RequestCS, TypeOK, Still
    <3>2. CASE Tick(k)
      BY <1>0, <1>1, <3>2 DEF Tick, TypeOK, Still
    <3>3. CASE Enqueue(k)
      BY <1>0, <1>1, <3>3 DEF Enqueue, TypeOK, Still
    <3> QED  BY <2>1, <3>1, <3>2, <3>3
  <2>2. CASE CheckClock(k) \/ Sleep(k) \/ ReleaseCS(k)
    <3>1. CASE CheckClock(k)
      BY <1>0, <1>1, <3>1 DEF CheckClock, TypeOK, Still
    <3>2. CASE Sleep(k)
      BY <1>0, <1>1, <3>2 DEF Sleep, TypeOK, Still
    <3>3. CASE ReleaseCS(k)
      BY <1>0, <1>1, <3>3 DEF ReleaseCS, TypeOK, Still
    <3> QED  BY <2>2, <3>1, <3>2, <3>3
  <2>3. ASSUME NEW d \in Peers(k), BroadcastRequest(k, d) PROVE Still(m)
    <3>1. CASE todo[k] = {d}
      BY <1>0, <1>1, <2>3, <3>1 DEF BroadcastRequest, TypeOK, Still
    <3>2. CASE todo[k] # {d}
      BY <1>0, <1>1, <2>3, <3>2 DEF BroadcastRequest, TypeOK, Still
    <3> QED  BY <3>1, <3>2
  <2>4. ASSUME NEW d \in Peers(k), CheckQueue(k, d) PROVE Still(m)
    BY <1>0, <1>1, <2>4 DEF CheckQueue, TypeOK, Still
  <2>5. ASSUME NEW d \in Peers(k), BroadcastRelease(k, d) PROVE Still(m)
    <3>1. CASE todo[k] = {d}
      BY <1>0, <1>1, <2>5, <3>1 DEF BroadcastRelease, TypeOK, Still
    <3>2. CASE todo[k] # {d}
      BY <1>0, <1>1, <2>5, <3>2 DEF BroadcastRelease, TypeOK, Still
    <3> QED  BY <3>1, <3>2
  <2> QED  BY <1>1, <2>1, <2>2, <2>3, <2>4, <2>5 DEF CallerAction
<1>2. ASSUME NEW k \in Node, SpuriousWakeup(k) \/ SendAck(k) \/ HandleOther(k)
      PROVE  Still(m) \/ Woken(m)
  BY <1>0, <1>2, WakeStep DEF SpuriousWakeup, SendAck, HandleOther, NotifyAll
<1>3. ASSUME NEW k \in Node, HandleRelease(k) PROVE Still(m) \/ Woken(m)
  <2>1. handler[k].src \in Peers(k)
    BY <1>p, <1>3 DEF HandleRelease
  <2>2. m_RequestQ'[m][m] = m_RequestQ[m][m]
    BY <1>0, <1>3, <2>1 DEF HandleRelease, TypeOK, Peers
  <2> QED  BY <1>0, <1>3, <2>2, WakeStep DEF HandleRelease, NotifyAll
<1>4. ASSUME NEW k \in Node, RecieveAction(k) \/ Take(k) PROVE Still(m)
  BY <1>4 DEF RecieveAction, Take, HandleMsg, callerVars, Still
<1>5. ASSUME NEW k \in Node, HandleRequest(k) PROVE Still(m)
  <2>1. handler[k].src \in Peers(k)
    BY <1>p, <1>5 DEF HandleRequest
  <2> QED  BY <1>0, <1>5, <2>1 DEF HandleRequest, TypeOK, Peers, callerVars, Still
<1>6. ASSUME NEW k \in Node, RequestCS(k) \/ Acquire(k) \/ ReleaseCS(k) \/ Leave(k)
      PROVE  Still(m) \/ CallerAction(m)
  <2>1. CallerAction(k)
    BY <1>6 DEF Acquire, Leave, CallerAction
  <2> QED  BY <1>1, <2>1
<1> QED  BY <1>2, <1>3, <1>4, <1>5, <1>6 DEF Next, Handle

\* The stream from m to n and what n knows of m's time: nothing has changed, n
\* has taken the first frame, or f has come.
Kept(m, n) ==
    /\ channel'[m][n] = channel[m][n]
    /\ m_Ticks'[n][m] = m_Ticks[n][m]

Taken(m, n) ==
    /\ HandleMsg(n, m)
    /\ channel[m][n] # <<>>
    /\ channel'[m][n] = Tail(channel[m][n])
    /\ m_Ticks'[n][m] = Later(m_Ticks[n][m], Head(channel[m][n]).data)

Came(m, n, f) ==
    /\ channel'[m][n] = Append(channel[m][n], f)
    /\ m_Ticks'[n][m] = m_Ticks[n][m]

\* f is what m's caller or its handler sends to n.
FromCaller(m, n, f) ==
    /\ f.data = local[m] /\ n \in todo[m]
    /\ pc[m] \in {"request", "release"}

FromHandler(m, n, f) ==
    /\ f.data = handler[m].own /\ f.tag = "ACK"
    /\ handler[m].at = "ack" /\ handler'[m].at = "idle" /\ handler[m].src = n

\* Any step leaves a stream, takes its first word, or adds one of the caller or of
\* the handler.
LEMMA StreamStep ==
    ASSUME QueuesInv, Next, NEW m \in Node, NEW n \in Peers(m)
    PROVE  \/ Kept(m, n)
           \/ Taken(m, n)
           \/ \E f \in Message : /\ Came(m, n, f)
                                 /\ FromCaller(m, n, f) \/ FromHandler(m, n, f)
<1>0. TypeOK /\ n \in Node /\ m # n
  BY DEF QueuesInv, Peers
<1>1. ASSUME NEW k \in Node,
             \/ RequestCS(k) \/ Enqueue(k) \/ CheckClock(k) \/ Sleep(k)
             \/ ReleaseCS(k) \/ SpuriousWakeup(k) \/ HandleRequest(k)
             \/ HandleRelease(k) \/ HandleOther(k)
             \/ \E d \in Peers(k) : CheckQueue(k, d)
      PROVE  Kept(m, n)
  BY <1>1 DEF RequestCS, Enqueue, CheckClock, Sleep, ReleaseCS, SpuriousWakeup,
              HandleRequest, HandleRelease, HandleOther, CheckQueue, Kept
<1>2. ASSUME NEW k \in Node, Tick(k) \/ RecieveAction(k) PROVE Kept(m, n)
  <2>1. /\ channel' = channel
        /\ \E v : m_Ticks' = [m_Ticks EXCEPT ![k][k] = v]
    BY <1>2 DEF Tick, RecieveAction
  <2> QED  BY <1>0, <2>1 DEF TypeOK, Kept
<1>3. ASSUME NEW k \in Node, NEW d \in Node, NEW t \in Tag, NEW v \in Int,
             channel' = SendMsg(channel, k, d, t, v), UNCHANGED m_Ticks
      PROVE  \/ Kept(m, n)
             \/ k = m /\ d = n /\ Came(m, n, [tag |-> t, data |-> v])
  BY <1>0, <1>3 DEF SendMsg, TypeOK, Kept, Came
<1>4. ASSUME NEW t \in Tag, NEW v \in Int PROVE [tag |-> t, data |-> v] \in Message
  BY DEF Message
<1>5. ASSUME NEW k \in Node, NEW d \in Peers(k), BroadcastRequest(k, d)
      PROVE  \/ Kept(m, n)
             \/ \E f \in Message : Came(m, n, f) /\ FromCaller(m, n, f)
  <2>1. /\ channel' = SendMsg(channel, k, d, "REQUEST", local[k]) /\ UNCHANGED m_Ticks
        /\ pc[k] = "request" /\ d \in todo[k] /\ d \in Node
        /\ local[k] \in Int /\ "REQUEST" \in Tag
    BY <1>0, <1>5 DEF BroadcastRequest, Peers, TypeOK, Tag
  <2>2. \/ Kept(m, n)
        \/ k = m /\ d = n /\ Came(m, n, [tag |-> "REQUEST", data |-> local[k]])
    BY <1>3, <2>1
  <2> QED  BY <1>4, <2>1, <2>2 DEF FromCaller
<1>6. ASSUME NEW k \in Node, NEW d \in Peers(k), BroadcastRelease(k, d)
      PROVE  \/ Kept(m, n)
             \/ \E f \in Message : Came(m, n, f) /\ FromCaller(m, n, f)
  <2>1. /\ channel' = SendMsg(channel, k, d, "RELEASE", local[k]) /\ UNCHANGED m_Ticks
        /\ pc[k] = "release" /\ d \in todo[k] /\ d \in Node
        /\ local[k] \in Int /\ "RELEASE" \in Tag
    BY <1>0, <1>6 DEF BroadcastRelease, Peers, TypeOK, Tag
  <2>2. \/ Kept(m, n)
        \/ k = m /\ d = n /\ Came(m, n, [tag |-> "RELEASE", data |-> local[k]])
    BY <1>3, <2>1
  <2> QED  BY <1>4, <2>1, <2>2 DEF FromCaller
<1>7. ASSUME NEW k \in Node, SendAck(k)
      PROVE  \/ Kept(m, n)
             \/ \E f \in Message : Came(m, n, f) /\ FromHandler(m, n, f)
  <2> DEFINE h == handler[k]
  <2>1. /\ channel' = SendMsg(channel, k, h.src, "ACK", h.own) /\ UNCHANGED m_Ticks
        /\ h.at = "ack" /\ handler'[k].at = "idle"
        /\ h.src \in Node /\ h.own \in Int /\ "ACK" \in Tag
    BY <1>0, <1>7, SourceFacts DEF SendAck, NotifyAll, IdleHandler, Handler, TypeOK, Tag
  <2> HIDE DEF h
  <2>2. \/ Kept(m, n)
        \/ k = m /\ h.src = n /\ Came(m, n, [tag |-> "ACK", data |-> h.own])
    BY <1>3, <2>1
  <2> QED  BY <1>4, <2>1, <2>2 DEF FromHandler, h
<1>8. ASSUME NEW k \in Node, NEW s \in Peers(k), HandleMsg(k, s)
      PROVE  Kept(m, n) \/ Taken(m, n)
  <2>1. CASE k = n /\ s = m
    BY <1>0, <1>8, <2>1 DEF HandleMsg, ReceiveMsg, TypeOK, Taken
  <2>2. CASE ~(k = n /\ s = m)
    BY <1>0, <1>8, <2>2 DEF HandleMsg, ReceiveMsg, TypeOK, Kept, Peers
  <2> QED  BY <2>1, <2>2
<1> QED  BY <1>1, <1>2, <1>5, <1>6, <1>7, <1>8 DEF Next, Acquire, Leave, Handle, Take

\* A bound on what m has sent to n outlives a step, if what comes is within it.
LEMMA SentStep ==
    ASSUME TypeOK, NEW m \in Node, NEW n \in Node, NEW b \in Int, NEW c \in Int,
           Sent(m, n, b), b <= c,
           \/ Kept(m, n) \/ Taken(m, n)
           \/ \E f \in Message : Came(m, n, f) /\ f.data <= c
    PROVE  /\ m_Ticks'[n][m] <= c
           /\ \A j \in DOMAIN channel'[m][n] : channel'[m][n][j].data <= c
<1>1. /\ channel[m][n] \in Seq(Message) /\ m_Ticks[n][m] \in Int
      /\ \A f \in Message : f.data \in Int
  <2>1. \A f \in Message : f.data \in Int
    BY DEF Message
  <2> QED  BY <2>1 DEF TypeOK
<1>2. \A j \in DOMAIN channel[m][n] : channel[m][n][j].data <= c
  <2>1. \A j \in DOMAIN channel[m][n] : channel[m][n][j] \in Message
    BY <1>1
  <2> QED  BY <1>1, <2>1 DEF Sent
<1>3. m_Ticks[n][m] <= c
  BY <1>1 DEF Sent
<1>4. CASE Kept(m, n)
  BY <1>2, <1>3, <1>4 DEF Kept
<1>5. CASE Taken(m, n)
  <2>1. /\ channel[m][n] # <<>> /\ channel'[m][n] = Tail(channel[m][n])
        /\ m_Ticks'[n][m] = Later(m_Ticks[n][m], Head(channel[m][n]).data)
    BY <1>5 DEF Taken
  <2>2. /\ Head(channel[m][n]) = channel[m][n][1] /\ 1 \in DOMAIN channel[m][n]
        /\ \A j \in DOMAIN channel'[m][n] : /\ j + 1 \in DOMAIN channel[m][n]
                                            /\ channel'[m][n][j] = channel[m][n][j + 1]
    BY <1>1, <2>1
  <2> QED  BY <1>2, <1>3, <2>1, <2>2 DEF Later
<1>6. ASSUME NEW f \in Message, Came(m, n, f), f.data <= c
      PROVE  /\ m_Ticks'[n][m] <= c
             /\ \A j \in DOMAIN channel'[m][n] : channel'[m][n][j].data <= c
  <2>1. channel'[m][n] = Append(channel[m][n], f) /\ m_Ticks'[n][m] = m_Ticks[n][m]
    BY <1>6 DEF Came
  <2>2. \A j \in DOMAIN channel'[m][n] :
          \/ j \in DOMAIN channel[m][n] /\ channel'[m][n][j] = channel[m][n][j]
          \/ channel'[m][n][j] = f
    BY <1>1, <2>1
  <2> QED  BY <1>2, <1>3, <1>6, <2>1, <2>2
<1> QED  BY <1>4, <1>5, <1>6

-----------------------------------------------------------------------------
(* The parts of Unraced *)

\* No race happens in this step.
NoRace ==
    \A n \in Node : ~AnswersInRequest(n) /\ ~QueuesInOkeyCS(n) /\ ~TicksBack(n)

\* What the handler has to answer with.
LEMMA AckStep ==
    ASSUME QueuesInv, Next, NEW m \in Node, handler'[m].at = "ack"
    PROVE  \/ handler'[m] = handler[m]
           \/ handler'[m].own = m_Ticks[m][m]
<1>0. TypeOK
  BY DEF QueuesInv
<1>1. ASSUME NEW k \in Node, NEW s \in Peers(k), HandleMsg(k, s)
      PROVE  handler'[m] = handler[m]
  BY <1>0, <1>1 DEF HandleMsg, TypeOK
<1>2. ASSUME NEW k \in Node, RecieveAction(k) PROVE handler'[m] = handler[m]
  BY <1>0, <1>2 DEF RecieveAction, GoOn, TypeOK, Handler
<1>3. ASSUME NEW k \in Node, HandleRequest(k)
      PROVE  handler'[m] = handler[m] \/ handler'[m].own = m_Ticks[m][m]
  BY <1>0, <1>3 DEF HandleRequest, GoOn, TypeOK, Handler
<1>4. ASSUME NEW k \in Node, NotifyAll(k) PROVE handler'[m] = handler[m]
  BY <1>0, <1>4 DEF NotifyAll, IdleHandler, TypeOK
<1>5. ASSUME NEW k \in Node, SendAck(k) \/ HandleRelease(k) \/ HandleOther(k)
      PROVE  handler'[m] = handler[m]
  BY <1>4, <1>5 DEF SendAck, HandleRelease, HandleOther
<1>6. ASSUME NEW k \in Node,
             RequestCS(k) \/ Acquire(k) \/ SpuriousWakeup(k) \/ ReleaseCS(k) \/ Leave(k)
      PROVE  handler' = handler
  BY <1>6 DEF RequestCS, Acquire, SpuriousWakeup, ReleaseCS, Leave, Tick, Enqueue,
              CheckClock, Sleep, BroadcastRequest, CheckQueue, BroadcastRelease
<1> QED  BY <1>1, <1>2, <1>3, <1>5, <1>6 DEF Next, Handle, Take

\* The time a caller reads or has read for its broadcast.
LEMMA LocalStep ==
    ASSUME QueuesInv, Next, NEW m \in Node, pc'[m] \in {"request", "release"}
    PROVE  \/ pc[m] \in {"request", "release"} /\ local'[m] = local[m]
           \/ local'[m] = m_Ticks[m][m]
<1>0. TypeOK
  BY DEF QueuesInv
<1>1. CASE Still(m) \/ Woken(m)
  BY <1>1 DEF Still, Woken
<1>2. CASE RequestCS(m) \/ Tick(m) \/ Enqueue(m)
  <2>1. CASE RequestCS(m)
    BY <1>0, <2>1 DEF RequestCS, TypeOK
  <2>2. CASE Tick(m)
    BY <1>0, <2>2 DEF Tick, TypeOK
  <2>3. CASE Enqueue(m)
    BY <1>0, <2>3 DEF Enqueue, TypeOK
  <2> QED  BY <1>2, <2>1, <2>2, <2>3
<1>3. CASE CheckClock(m) \/ Sleep(m) \/ ReleaseCS(m)
  <2>1. CASE CheckClock(m)
    BY <1>0, <2>1 DEF CheckClock, TypeOK
  <2>2. CASE Sleep(m)
    BY <1>0, <2>2 DEF Sleep, TypeOK
  <2>3. CASE ReleaseCS(m)
    BY <1>0, <2>3 DEF ReleaseCS, TypeOK
  <2> QED  BY <1>3, <2>1, <2>2, <2>3
<1>4. ASSUME NEW d \in Peers(m), BroadcastRequest(m, d) \/ BroadcastRelease(m, d)
      PROVE  pc[m] \in {"request", "release"} /\ local'[m] = local[m]
  <2>1. CASE BroadcastRequest(m, d)
    <3>1. CASE todo[m] = {d}
      <4>1. pc' = [pc EXCEPT ![m] = "okeyCS"]
        BY <2>1, <3>1, Zenon DEF BroadcastRequest
      <4> QED  BY <1>0, <4>1 DEF TypeOK
    <3>2. CASE todo[m] # {d}
      BY <2>1, <3>2 DEF BroadcastRequest
    <3> QED  BY <3>1, <3>2
  <2>2. CASE BroadcastRelease(m, d)
    <3>1. CASE todo[m] = {d}
      <4>1. pc' = [pc EXCEPT ![m] = "idle"]
        BY <2>2, <3>1, Zenon DEF BroadcastRelease
      <4> QED  BY <1>0, <4>1 DEF TypeOK
    <3>2. CASE todo[m] # {d}
      BY <2>2, <3>2 DEF BroadcastRelease
    <3> QED  BY <3>1, <3>2
  <2> QED  BY <1>4, <2>1, <2>2
<1>5. ASSUME NEW d \in Peers(m), CheckQueue(m, d)
      PROVE  pc'[m] \notin {"request", "release"}
  BY <1>0, <1>5 DEF CheckQueue, TypeOK
<1> QED  BY <1>1, <1>2, <1>3, <1>4, <1>5, CallerStep DEF CallerAction

\* How a caller gets to the tick and past it.
LEMMA TickStep ==
    ASSUME QueuesInv, Next, NEW m \in Node
    PROVE  /\ pc'[m] = "tick" =>
                \/ pc[m] = "tick" /\ local'[m] = local[m]
                \/ RequestCS(m) /\ local'[m] = m_Ticks[m][m]
           /\ pc'[m] = "ticked" =>
                \/ pc[m] = "ticked"
                \/ pc[m] = "tick" /\ Tick(m) /\ m_Ticks'[m][m] = local[m] + 1
<1>0. TypeOK
  BY DEF QueuesInv
<1>1. CASE Still(m) \/ Woken(m)
  BY <1>1 DEF Still, Woken
<1>2. CASE RequestCS(m) \/ Tick(m) \/ Enqueue(m)
  <2>1. CASE RequestCS(m)
    BY <1>0, <2>1 DEF RequestCS, TypeOK
  <2>2. CASE Tick(m)
    BY <1>0, <2>2 DEF Tick, TypeOK
  <2>3. CASE Enqueue(m)
    BY <1>0, <2>3 DEF Enqueue, TypeOK
  <2> QED  BY <1>2, <2>1, <2>2, <2>3
<1>3. CASE CheckClock(m) \/ Sleep(m) \/ ReleaseCS(m)
  <2>1. CASE CheckClock(m)
    BY <1>0, <2>1 DEF CheckClock, TypeOK
  <2>2. CASE Sleep(m)
    BY <1>0, <2>2 DEF Sleep, TypeOK
  <2>3. CASE ReleaseCS(m)
    BY <1>0, <2>3 DEF ReleaseCS, TypeOK
  <2> QED  BY <1>3, <2>1, <2>2, <2>3
<1>4. ASSUME NEW d \in Peers(m), BroadcastRequest(m, d)
      PROVE  pc'[m] \notin {"tick", "ticked"}
  <2>1. CASE todo[m] = {d}
    BY <1>0, <1>4, <2>1 DEF BroadcastRequest, TypeOK
  <2>2. CASE todo[m] # {d}
    BY <1>0, <1>4, <2>2 DEF BroadcastRequest, TypeOK
  <2> QED  BY <2>1, <2>2
<1>5. ASSUME NEW d \in Peers(m), BroadcastRelease(m, d)
      PROVE  pc'[m] \notin {"tick", "ticked"}
  <2>1. CASE todo[m] = {d}
    BY <1>0, <1>5, <2>1 DEF BroadcastRelease, TypeOK
  <2>2. CASE todo[m] # {d}
    BY <1>0, <1>5, <2>2 DEF BroadcastRelease, TypeOK
  <2> QED  BY <2>1, <2>2
<1>6. ASSUME NEW d \in Peers(m), CheckQueue(m, d)
      PROVE  pc'[m] \notin {"tick", "ticked"}
  BY <1>0, <1>6 DEF CheckQueue, TypeOK
<1> QED  BY <1>1, <1>2, <1>3, <1>4, <1>5, <1>6, CallerStep DEF CallerAction

\* The clock of m stays ahead of what m says.
LEMMA ClockNext ==
    ASSUME QueuesInv, QueuesInv', Unraced, Next, NoRace, NEW m \in Node
    PROVE  Clock(m)'
<1>0. TypeOK /\ TypeOK' /\ Clock(m)
  BY DEF QueuesInv, Unraced
<1>1. /\ m_Ticks[m][m] \in Int /\ m_Ticks'[m][m] \in Int /\ local[m] \in Int
      /\ local'[m] \in Int /\ handler[m].own \in Int
  <2>1. handler[m] \in Handler
    BY <1>0 DEF TypeOK
  <2>2. handler[m].own \in Int
    BY <2>1 DEF Handler
  <2> QED  BY <1>0, <2>2 DEF TypeOK
<1>2. m_Ticks'[m][m] >= m_Ticks[m][m]
  BY <1>1 DEF NoRace, TicksBack
<1>3. handler'[m].at = "ack" => handler'[m].own <= m_Ticks'[m][m]
  BY <1>0, <1>1, <1>2, AckStep DEF Clock
<1>4. pc'[m] \in {"request", "release"} => local'[m] <= m_Ticks'[m][m]
  BY <1>0, <1>1, <1>2, LocalStep DEF Clock
<1>5. ASSUME NEW n \in Peers(m)
      PROVE  /\ Sent(m, n, m_Ticks[m][m])'
             /\ pc'[m] = "tick" => Sent(m, n, local[m])'
             /\ pc'[m] = "ticked" => Sent(m, n, m_Ticks[m][m] - 1)'
  <2>0. n \in Node
    BY DEF Peers
  <2> DEFINE Within(c) == /\ m_Ticks'[n][m] <= c
                          /\ \A j \in DOMAIN channel'[m][n] : channel'[m][n][j].data <= c
  <2>1. ASSUME NEW f \in Message, FromCaller(m, n, f) \/ FromHandler(m, n, f)
        PROVE  /\ f.data <= m_Ticks'[m][m]
               /\ pc[m] \notin {"tick", "ticked"}
    <3>1. CASE FromCaller(m, n, f)
      BY <1>0, <1>1, <1>2, <3>1 DEF FromCaller, Clock
    <3>2. CASE FromHandler(m, n, f)
      BY <1>0, <1>1, <1>2, <3>2 DEF FromHandler, Clock, NoRace, AnswersInRequest
    <3> QED  BY <2>1, <3>1, <3>2
  <2>2. \/ Kept(m, n) \/ Taken(m, n)
        \/ \E f \in Message : /\ Came(m, n, f) /\ f.data <= m_Ticks'[m][m]
                              /\ pc[m] \notin {"tick", "ticked"}
    BY <2>1, StreamStep
  <2>3. Within(m_Ticks'[m][m])
    <3>1. Sent(m, n, m_Ticks[m][m])
      BY <1>0 DEF Clock
    <3> QED  BY <1>0, <1>1, <1>2, <2>0, <2>2, <3>1, SentStep
  <2>4. ASSUME pc'[m] = "tick" PROVE Within(local'[m])
    <3>1. CASE pc[m] = "tick" /\ local'[m] = local[m]
      <4>1. Sent(m, n, local[m]) /\ (Kept(m, n) \/ Taken(m, n))
        BY <1>0, <2>2, <3>1 DEF Clock
      <4> QED  BY <1>0, <1>1, <2>0, <3>1, <4>1, SentStep
    <3>2. CASE RequestCS(m) /\ local'[m] = m_Ticks[m][m]
      <4>1. Sent(m, n, m_Ticks[m][m]) /\ Kept(m, n)
        BY <1>0, <3>2 DEF Clock, RequestCS, Kept
      <4> QED  BY <1>0, <1>1, <2>0, <3>2, <4>1, SentStep
    <3> QED  BY <2>4, <3>1, <3>2, TickStep
  <2>5. ASSUME pc'[m] = "ticked" PROVE Within(m_Ticks'[m][m] - 1)
    <3>1. CASE pc[m] = "ticked"
      <4>1. Sent(m, n, m_Ticks[m][m] - 1) /\ (Kept(m, n) \/ Taken(m, n))
        BY <1>0, <2>2, <3>1 DEF Clock
      <4> QED  BY <1>0, <1>1, <1>2, <2>0, <4>1, SentStep
    <3>2. CASE pc[m] = "tick" /\ Tick(m) /\ m_Ticks'[m][m] = local[m] + 1
      <4>1. Sent(m, n, local[m]) /\ (Kept(m, n) \/ Taken(m, n))
        BY <1>0, <2>2, <3>2 DEF Clock
      <4> QED  BY <1>0, <1>1, <2>0, <3>2, <4>1, SentStep
    <3> QED  BY <2>5, <3>1, <3>2, TickStep
  <2> QED  BY <2>3, <2>4, <2>5 DEF Sent
<1> QED  BY <1>0, <1>1, <1>2, <1>3, <1>4, <1>5 DEF Clock, Peers

\* Who waits for the mutex has its request in its own queue.
LEMMA AskedNext ==
    ASSUME QueuesInv, Unraced, Next, NEW m \in Node
    PROVE  Asked(m)'
<1>0. TypeOK /\ Asked(m) /\ m_Ticks[m][m] >= 1
  BY DEF QueuesInv, Unraced, Clock
<1>1. CASE Still(m) \/ Woken(m)
  BY <1>0, <1>1 DEF Still, Woken, Asked
<1>2. CASE RequestCS(m) \/ Tick(m) \/ Enqueue(m)
  <2>1. CASE RequestCS(m)
    BY <1>0, <2>1 DEF RequestCS, TypeOK, Asked
  <2>2. CASE Tick(m)
    BY <1>0, <2>2 DEF Tick, TypeOK, Asked
  <2>3. CASE Enqueue(m)
    BY <1>0, <2>3 DEF Enqueue, TypeOK, Asked
  <2> QED  BY <1>2, <2>1, <2>2, <2>3
<1>3. CASE CheckClock(m) \/ Sleep(m) \/ ReleaseCS(m)
  <2>1. CASE CheckClock(m)
    BY <1>0, <2>1 DEF CheckClock, TypeOK, Asked
  <2>2. CASE Sleep(m)
    BY <1>0, <2>2 DEF Sleep, TypeOK, Asked
  <2>3. CASE ReleaseCS(m)
    BY <1>0, <2>3 DEF ReleaseCS, TypeOK, Asked
  <2> QED  BY <1>3, <2>1, <2>2, <2>3
<1>4. ASSUME NEW d \in Peers(m), BroadcastRequest(m, d) PROVE Asked(m)'
  <2>1. pc[m] = "request" /\ m_RequestQ' = m_RequestQ
    BY <1>4 DEF BroadcastRequest
  <2> QED  BY <1>0, <2>1 DEF Asked
<1>5. ASSUME NEW d \in Peers(m), BroadcastRelease(m, d) PROVE Asked(m)'
  <2>1. pc'[m] \in {"release", "idle"}
    <3>1. CASE todo[m] = {d}
      BY <1>0, <1>5, <3>1 DEF BroadcastRelease, TypeOK
    <3>2. CASE todo[m] # {d}
      BY <1>0, <1>5, <3>2 DEF BroadcastRelease, TypeOK
    <3> QED  BY <3>1, <3>2
  <2> QED  BY <2>1 DEF Asked
<1>6. ASSUME NEW d \in Peers(m), CheckQueue(m, d) PROVE Asked(m)'
  <2>1. pc[m] = "okeyCS" /\ m_RequestQ' = m_RequestQ
    BY <1>6 DEF CheckQueue
  <2> QED  BY <1>0, <2>1 DEF Asked
<1> QED  BY <1>1, <1>2, <1>3, <1>4, <1>5, <1>6, CallerStep DEF CallerAction

\* n's entry for another node changes by that node's RELEASE, which is not
\* applied while okeyCS is at work, or by its REQUEST.
LEMMA EntryStep ==
    ASSUME QueuesInv, Next, NEW n \in Node, NEW d \in Peers(n)
    PROVE  \/ m_RequestQ'[n][d] = m_RequestQ[n][d]
           \/ m_RequestQ'[n][d] = 0
           \/ /\ handler[n].at = "switch" /\ handler'[n].at = "ack"
              /\ handler[n].src = d
<1>0. TypeOK /\ d \in Node /\ d # n
  BY DEF QueuesInv, Peers
<1>1. ASSUME NEW k \in Node, Enqueue(k) \/ ReleaseCS(k)
      PROVE  m_RequestQ'[n][d] = m_RequestQ[n][d]
  <2>1. \E v : m_RequestQ' = [m_RequestQ EXCEPT ![k][k] = v]
    BY <1>1 DEF Enqueue, ReleaseCS
  <2> QED  BY <1>0, <2>1 DEF TypeOK
<1>2. ASSUME NEW k \in Node, HandleRelease(k)
      PROVE  m_RequestQ'[n][d] = m_RequestQ[n][d] \/ m_RequestQ'[n][d] = 0
  BY <1>0, <1>2 DEF HandleRelease, TypeOK
<1>3. ASSUME NEW k \in Node, HandleRequest(k)
      PROVE  \/ m_RequestQ'[n][d] = m_RequestQ[n][d]
             \/ /\ handler[n].at = "switch" /\ handler'[n].at = "ack"
                /\ handler[n].src = d
  <2>1. handler[k].src \in Peers(k)
    BY <1>3, SourceFacts DEF HandleRequest
  <2>2. CASE k = n /\ handler[k].src = d
    BY <1>0, <1>3, <2>2 DEF HandleRequest, GoOn, TypeOK, Handler
  <2>3. CASE ~(k = n /\ handler[k].src = d)
    BY <1>0, <1>3, <2>1, <2>3 DEF HandleRequest, TypeOK, Peers
  <2> QED  BY <2>2, <2>3
<1>4. ASSUME NEW k \in Node,
             \/ RequestCS(k) \/ Tick(k) \/ CheckClock(k) \/ Sleep(k) \/ Leave(k)
             \/ SpuriousWakeup(k) \/ RecieveAction(k) \/ SendAck(k)
             \/ HandleOther(k) \/ Take(k)
             \/ \E e \in Peers(k) : BroadcastRequest(k, e) \/ CheckQueue(k, e)
      PROVE  m_RequestQ' = m_RequestQ
  BY <1>4 DEF RequestCS, Tick, CheckClock, Sleep, Leave, BroadcastRelease,
              SpuriousWakeup, RecieveAction, SendAck, HandleOther, Take, HandleMsg,
              BroadcastRequest, CheckQueue
<1> QED  BY <1>1, <1>2, <1>3, <1>4 DEF Next, Acquire, Handle

\* okeyCS at one of its two looks at peer d.
LEMMA QueueLook ==
    ASSUME QueuesInv, Unraced, NEW n \in Node, NEW d \in Peers(n), CheckQueue(n, d)
    PROVE  \/ pc'[n] = "blocking" /\ peer'[n] = n
           \/ /\ pc'[n] = "okeyClock" /\ todo'[n] = todo[n] \ {d} /\ peer'[n] = d
              /\ \/ m_RequestQ[n][d] = 0
                 \/ isGreater(m_RequestQ[n][d], d, m_RequestQ[n][n], n)
<1>0. /\ TypeOK /\ Asked(n) /\ d \in Node /\ d # n
      /\ m_RequestQ[n][n] \in Int /\ m_RequestQ[n][d] \in Int
      /\ n \in Int /\ d \in Int
  <2>1. TypeOK /\ Asked(n) /\ d \in Node /\ d # n
    BY DEF QueuesInv, Unraced, Peers
  <2>2. /\ m_RequestQ[n][n] \in Int /\ m_RequestQ[n][d] \in Int
        /\ n \in Int /\ d \in Int
    BY <2>1, NodeAssumption DEF TypeOK
  <2> QED  BY <2>1, <2>2
<1>1. m_RequestQ[n][n] # 0
  BY <1>0 DEF CheckQueue, Asked
<1> DEFINE blocked == /\ m_RequestQ[n][d] # 0
                      /\ isGreater(m_RequestQ[n][n], n, m_RequestQ[n][d], d)
<1>2. CASE blocked
  <2>1. /\ pc' = [pc EXCEPT ![n] = "blocking"] /\ peer' = [peer EXCEPT ![n] = n]
    BY <1>1, <1>2 DEF CheckQueue
  <2> QED  BY <1>0, <2>1 DEF TypeOK
<1>3. CASE ~blocked
  <2>1. /\ pc' = [pc EXCEPT ![n] = "okeyClock"] /\ peer' = [peer EXCEPT ![n] = d]
        /\ todo' = [todo EXCEPT ![n] = @ \ {d}]
    BY <1>1, <1>3 DEF CheckQueue
  <2>2. \/ m_RequestQ[n][d] = 0
        \/ isGreater(m_RequestQ[n][d], d, m_RequestQ[n][n], n)
    BY <1>0, <1>3 DEF isGreater
  <2> QED  BY <1>0, <2>1, <2>2 DEF TypeOK
<1> QED  BY <1>2, <1>3

\* The look at the clock of a peer.
LEMMA ClockLook ==
    ASSUME TypeOK, NEW n \in Node, CheckClock(n)
    PROVE  /\ pc[n] = "okeyClock" /\ peer'[n] = n
           /\ m_RequestQ' = m_RequestQ /\ m_Ticks' = m_Ticks
           /\ \/ pc'[n] = "blocking"
              \/ /\ ~isGreater(m_RequestQ[n][n], n, m_Ticks[n][peer[n]], peer[n])
                 /\ todo'[n] = todo[n]
                 /\ pc'[n] = "okeyCS" \/ (pc'[n] = "cs" /\ todo[n] = {})
<1> DEFINE blocked == isGreater(m_RequestQ[n][n], n, m_Ticks[n][peer[n]], peer[n])
<1>1. /\ pc[n] = "okeyClock" /\ peer' = [peer EXCEPT ![n] = n]
      /\ m_RequestQ' = m_RequestQ /\ m_Ticks' = m_Ticks
  BY DEF CheckClock
<1>2. CASE blocked
  <2>1. pc' = [pc EXCEPT ![n] = "blocking"]
    BY <1>2 DEF CheckClock
  <2> QED  BY <1>1, <2>1 DEF TypeOK
<1>3. CASE ~blocked
  <2>1. /\ pc' = [pc EXCEPT ![n] = IF todo[n] = {} THEN "cs" ELSE "okeyCS"]
        /\ todo' = [todo EXCEPT ![n] = @]
    BY <1>3 DEF CheckClock
  <2>2. /\ pc'[n] = IF todo[n] = {} THEN "cs" ELSE "okeyCS"
        /\ todo'[n] = todo[n] /\ peer'[n] = n
    BY <1>1, <2>1 DEF TypeOK
  <2>3. pc'[n] = "okeyCS" \/ (pc'[n] = "cs" /\ todo[n] = {})
    BY <2>2
  <2> HIDE DEF blocked
  <2>4. ~isGreater(m_RequestQ[n][n], n, m_Ticks[n][peer[n]], peer[n])
    BY <1>3, Zenon DEF blocked
  <2> QED  BY <1>1, <2>2, <2>3, <2>4
<1> QED  BY <1>2, <1>3

\* The other actions of a caller do not look.
LEMMA NoLook ==
    ASSUME QueuesInv, Unraced, Next, NEW n \in Node
    PROVE  \/ Still(n)
           \/ /\ pc[n] # "okeyClock" /\ peer'[n] = peer[n]
              /\ pc'[n] \notin {"okeyCS", "okeyClock", "cs"}
           \/ /\ pc[n] # "okeyClock" /\ peer'[n] = peer[n]
              /\ pc'[n] = "okeyCS" /\ todo'[n] = Peers(n)
              /\ m_RequestQ'[n][n] = m_RequestQ[n][n]
           \/ CheckClock(n)
           \/ \E d \in Peers(n) : CheckQueue(n, d)
<1>0. TypeOK
  BY DEF QueuesInv
<1>1. CASE Woken(n)
  BY <1>1 DEF Woken
<1>2. CASE RequestCS(n) \/ Tick(n) \/ Enqueue(n)
  <2>1. CASE RequestCS(n)
    BY <1>0, <2>1 DEF RequestCS, TypeOK
  <2>2. CASE Tick(n)
    BY <1>0, <2>2 DEF Tick, TypeOK
  <2>3. CASE Enqueue(n)
    BY <1>0, <2>3 DEF Enqueue, TypeOK
  <2> QED  BY <1>2, <2>1, <2>2, <2>3
<1>3. CASE Sleep(n) \/ ReleaseCS(n)
  BY <1>0, <1>3 DEF Sleep, ReleaseCS, TypeOK
<1>4. ASSUME NEW d \in Peers(n), BroadcastRequest(n, d)
      PROVE  /\ pc[n] # "okeyClock" /\ peer'[n] = peer[n]
             /\ m_RequestQ'[n][n] = m_RequestQ[n][n]
             /\ pc'[n] = "request" \/ (pc'[n] = "okeyCS" /\ todo'[n] = Peers(n))
  <2>1. CASE todo[n] = {d}
    BY <1>0, <1>4, <2>1 DEF BroadcastRequest, TypeOK, Peers
  <2>2. CASE todo[n] # {d}
    <3>1. pc[n] = "request" /\ UNCHANGED <<pc, m_RequestQ, peer>>
      BY <1>4, <2>2, Zenon DEF BroadcastRequest
    <3> QED  BY <3>1
  <2> QED  BY <2>1, <2>2
<1>5. ASSUME NEW d \in Peers(n), BroadcastRelease(n, d)
      PROVE  /\ pc[n] # "okeyClock" /\ peer'[n] = peer[n]
             /\ pc'[n] \in {"release", "idle"}
  <2>1. CASE todo[n] = {d}
    BY <1>0, <1>5, <2>1 DEF BroadcastRelease, TypeOK
  <2>2. CASE todo[n] # {d}
    BY <1>0, <1>5, <2>2 DEF BroadcastRelease, TypeOK
  <2> QED  BY <2>1, <2>2
<1> QED  BY <1>1, <1>2, <1>3, <1>4, <1>5, CallerStep DEF CallerAction

\* What was seen of the queue is still so when the clock is looked at.
LEMMA HalfNext ==
    ASSUME QueuesInv, Unraced, Next, NoRace, NEW n \in Node
    PROVE  Half(n)'
<1>0. TypeOK /\ Half(n)
  BY DEF QueuesInv, Unraced
<1>1. CASE Still(n)
  <2>1. CASE pc[n] = "okeyClock"
    <3>1. peer[n] \in Peers(n)
      BY <1>0, <2>1 DEF Half
    <3>2. \/ m_RequestQ'[n][peer[n]] = m_RequestQ[n][peer[n]]
          \/ m_RequestQ'[n][peer[n]] = 0
      BY <2>1, <3>1, EntryStep DEF NoRace, QueuesInOkeyCS
    <3> QED  BY <1>0, <1>1, <2>1, <3>2 DEF Still, Half, Peers
  <2>2. CASE pc[n] # "okeyClock"
    BY <1>0, <1>1, <2>2 DEF Still, Half
  <2> QED  BY <2>1, <2>2
<1>2. CASE /\ pc[n] # "okeyClock" /\ peer'[n] = peer[n] /\ pc'[n] # "okeyClock"
  BY <1>0, <1>2 DEF Half
<1>3. CASE CheckClock(n)
  <2>1. peer'[n] = n /\ pc'[n] # "okeyClock"
    BY <1>0, <1>3, ClockLook
  <2> QED  BY <2>1 DEF Half
<1>4. ASSUME NEW d \in Peers(n), CheckQueue(n, d) PROVE Half(n)'
  <2>1. m_RequestQ' = m_RequestQ
    BY <1>4 DEF CheckQueue
  <2>2. CASE pc'[n] = "blocking" /\ peer'[n] = n
    BY <2>2 DEF Half
  <2>3. CASE /\ pc'[n] = "okeyClock" /\ todo'[n] = todo[n] \ {d} /\ peer'[n] = d
             /\ \/ m_RequestQ[n][d] = 0
                \/ isGreater(m_RequestQ[n][d], d, m_RequestQ[n][n], n)
    BY <2>1, <2>3 DEF Half, Peers, isGreater
  <2> QED  BY <1>4, <2>2, <2>3, QueueLook
<1> QED  BY <1>1, <1>2, <1>3, <1>4, NoLook

\* The caller of n gets past peer m only at the clock of m.
LEMMA PassedStep ==
    ASSUME QueuesInv, Unraced, Next, NEW n \in Node, NEW m \in Peers(n), Passed(n, m)'
    PROVE  /\ m_RequestQ'[n][n] = m_RequestQ[n][n]
           /\ \/ Passed(n, m)
              \/ /\ pc[n] = "okeyClock" /\ peer[n] = m
                 /\ ~isGreater(m_RequestQ[n][n], n, m_Ticks[n][m], m)
<1>0. TypeOK /\ Half(n) /\ m # n
  BY DEF QueuesInv, Unraced, Peers
<1>1. CASE Still(n)
  BY <1>1 DEF Still, Passed
<1>2. CASE pc'[n] \notin {"okeyCS", "okeyClock", "cs"}
  BY <1>2 DEF Passed
<1>3. CASE pc'[n] = "okeyCS" /\ todo'[n] = Peers(n)
  BY <1>3 DEF Passed
<1>4. CASE CheckClock(n)
  <2>1. /\ pc[n] = "okeyClock" /\ m_RequestQ' = m_RequestQ
        /\ ~isGreater(m_RequestQ[n][n], n, m_Ticks[n][peer[n]], peer[n])
        /\ \/ pc'[n] = "okeyCS" /\ todo'[n] = todo[n]
           \/ pc'[n] = "cs" /\ todo[n] = {}
    BY <1>0, <1>4, ClockLook DEF Passed
  <2>2. m \notin todo[n]
    BY <2>1 DEF Passed
  <2> QED  BY <2>1, <2>2 DEF Passed
<1>5. ASSUME NEW d \in Peers(n), CheckQueue(n, d)
      PROVE  Passed(n, m) /\ m_RequestQ' = m_RequestQ
  <2>1. pc[n] = "okeyCS" /\ m_RequestQ' = m_RequestQ
    BY <1>5 DEF CheckQueue
  <2>2. pc'[n] = "okeyClock" /\ todo'[n] = todo[n] \ {d} /\ peer'[n] = d
    BY <1>5, QueueLook DEF Passed
  <2> QED  BY <1>0, <2>1, <2>2 DEF Passed, Half
<1> QED  BY <1>1, <1>2, <1>3, <1>4, <1>5, NoLook

\* n, at the clock of m and satisfied with it, has m's request in its queue.
LEMMA Overtakes ==
    ASSUME QueuesInv, Unraced, NEW n \in Node, NEW m \in Peers(n),
           pc[n] = "okeyClock", peer[n] = m,
           ~isGreater(m_RequestQ[n][n], n, m_Ticks[n][m], m), m_RequestQ[m][m] # 0
    PROVE  isGreater(m_RequestQ[m][m], m, m_RequestQ[n][n], n)
<1>0. /\ m \in Node /\ m # n /\ n \in Peers(m)
      /\ Half(n) /\ Order(m, n) /\ LastWord(m, n)
  BY DEF QueuesInv, QueuesSettle, Unraced, Peers
<1>1. /\ m_RequestQ[n][n] \in Int /\ m_RequestQ[m][m] \in Int
      /\ m_Ticks[n][m] \in Int /\ m \in Int /\ n \in Int
  BY <1>0, NodeAssumption DEF QueuesInv, TypeOK
<1> SUFFICES ASSUME ~isGreater(m_RequestQ[m][m], m, m_RequestQ[n][n], n) PROVE FALSE
  OBVIOUS
<1>2. m_Ticks[n][m] > m_RequestQ[m][m]
  BY <1>0, <1>1 DEF isGreater
<1>3. ~ToTell(m, n) /\ Told(m, n) = {} /\ ~Hearing(m, n)
  BY <1>0, <1>1, <1>2 DEF Order
<1>4. m_RequestQ[m][m] = m_RequestQ[n][m]
  BY <1>0, <1>3 DEF LastWord
<1> QED  BY <1>0, <1>4 DEF Half

\* The own entry of m: it stays, is erased, or gets a time later than all that
\* m has sent.
LEMMA OwnEntryStep ==
    ASSUME QueuesInv, Unraced, Next, NEW m \in Node
    PROVE  \/ m_RequestQ'[m][m] = m_RequestQ[m][m]
           \/ m_RequestQ'[m][m] = 0
           \/ /\ Enqueue(m) /\ m_RequestQ'[m][m] = m_Ticks[m][m]
              /\ \A n \in Peers(m) : Sent(m, n, m_Ticks[m][m] - 1)
<1>0. TypeOK /\ Clock(m)
  BY DEF QueuesInv, Unraced
<1>1. CASE Still(m) \/ Woken(m)
  BY <1>1 DEF Still, Woken
<1>2. CASE Enqueue(m)
  BY <1>0, <1>2 DEF Enqueue, Clock, TypeOK
<1>3. CASE ReleaseCS(m)
  BY <1>0, <1>3 DEF ReleaseCS, TypeOK
<1>4. CASE \/ RequestCS(m) \/ Tick(m) \/ CheckClock(m) \/ Sleep(m)
           \/ \E d \in Peers(m) : \/ BroadcastRequest(m, d) \/ CheckQueue(m, d)
                                  \/ BroadcastRelease(m, d)
  BY <1>4 DEF RequestCS, Tick, CheckClock, Sleep, BroadcastRequest, CheckQueue,
              BroadcastRelease
<1> QED  BY <1>1, <1>2, <1>3, <1>4, CallerStep DEF CallerAction

\* What okeyCS has passed stays passed.
LEMMA PassNext ==
    ASSUME QueuesInv, QueuesInv', Unraced, Next, NEW n \in Node, NEW m \in Peers(n)
    PROVE  Pass(n, m)'
<1>0. /\ TypeOK /\ TypeOK' /\ m \in Node /\ m # n /\ n \in Peers(m) /\ Pass(n, m)
  BY DEF QueuesInv, Unraced, Peers
<1>1. /\ m_RequestQ[n][n] \in Int /\ m_RequestQ[m][m] \in Int
      /\ m_Ticks[n][m] \in Int /\ m_Ticks'[n][m] \in Int /\ m_Ticks[m][m] \in Int
      /\ m \in Int /\ n \in Int
  BY <1>0, NodeAssumption DEF TypeOK
<1> SUFFICES ASSUME Passed(n, m)'
             PROVE  /\ ~isGreater(m_RequestQ'[n][n], n, m_Ticks'[n][m], m)
                    /\ m_RequestQ'[m][m] # 0 =>
                         isGreater(m_RequestQ'[m][m], m, m_RequestQ'[n][n], n)
  BY DEF Pass, isGreater
<1>2. /\ m_RequestQ'[n][n] = m_RequestQ[n][n]
      /\ ~isGreater(m_RequestQ[n][n], n, m_Ticks[n][m], m)
      /\ m_RequestQ[m][m] # 0 => isGreater(m_RequestQ[m][m], m, m_RequestQ[n][n], n)
  BY <1>0, PassedStep, Overtakes DEF Pass
<1>3. m_Ticks'[n][m] >= m_Ticks[n][m]
  <2>1. CASE Taken(m, n)
    <3>1. /\ channel[m][n] # <<>>
          /\ m_Ticks'[n][m] = Later(m_Ticks[n][m], Head(channel[m][n]).data)
      BY <2>1 DEF Taken
    <3>2. Head(channel[m][n]).data \in Int
      <4>1. channel[m][n] \in Seq(Message)
        BY <1>0 DEF TypeOK
      <4>2. Head(channel[m][n]) \in Message
        BY <3>1, <4>1
      <4> QED  BY <4>2 DEF Message
    <3> QED  BY <1>1, <3>1, <3>2 DEF Later
  <2>2. CASE ~Taken(m, n)
    <3>1. m_Ticks'[n][m] = m_Ticks[n][m]
      BY <1>0, <2>2, StreamStep DEF Kept, Came
    <3> QED  BY <1>1, <3>1
  <2> QED  BY <2>1, <2>2
<1>4. ~isGreater(m_RequestQ'[n][n], n, m_Ticks'[n][m], m)
  BY <1>1, <1>2, <1>3 DEF isGreater
<1>5. ASSUME m_RequestQ'[m][m] # 0
      PROVE  isGreater(m_RequestQ'[m][m], m, m_RequestQ'[n][n], n)
  <2>1. CASE m_RequestQ'[m][m] = m_RequestQ[m][m]
    BY <1>2, <1>5, <2>1
  <2>2. CASE m_RequestQ'[m][m] = m_Ticks[m][m] /\ Sent(m, n, m_Ticks[m][m] - 1)
    <3>1. m_Ticks[n][m] <= m_Ticks[m][m] - 1
      BY <2>2 DEF Sent
    <3> QED  BY <1>0, <1>1, <1>2, <2>2, <3>1 DEF isGreater
  <2> QED  BY <1>0, <1>5, <2>1, <2>2, OwnEntryStep
<1> QED  BY <1>4, <1>5

\* There is something new to tell only after the own request has changed;
LEMMA ToTellStep ==
    ASSUME QueuesInv, Next, NEW m \in Node, NEW n \in Peers(m), ToTell(m, n)'
    PROVE  ToTell(m, n) \/ Enqueue(m) \/ ReleaseCS(m)
<1>0. TypeOK
  BY DEF QueuesInv
<1>1. CASE Still(m) \/ Woken(m)
  BY <1>1 DEF Still, Woken, ToTell
<1>2. CASE RequestCS(m) \/ Tick(m) \/ CheckClock(m) \/ Sleep(m)
  <2>1. pc'[m] \notin {"request", "release"}
    <3>1. CASE RequestCS(m) \/ Tick(m) \/ Sleep(m)
      <4>1. CASE RequestCS(m)
        BY <1>0, <4>1 DEF RequestCS, TypeOK
      <4>2. CASE Tick(m)
        BY <1>0, <4>2 DEF Tick, TypeOK
      <4>3. CASE Sleep(m)
        BY <1>0, <4>3 DEF Sleep, TypeOK
      <4> QED  BY <3>1, <4>1, <4>2, <4>3
    <3>2. CASE CheckClock(m)
      BY <1>0, <3>2 DEF CheckClock, TypeOK
    <3> QED  BY <1>2, <3>1, <3>2
  <2> QED  BY <2>1 DEF ToTell
<1>3. ASSUME NEW d \in Peers(m), BroadcastRequest(m, d) PROVE ToTell(m, n)
  <2>1. CASE todo[m] = {d}
    <3>1. pc' = [pc EXCEPT ![m] = "okeyCS"]
      BY <1>3, <2>1, Zenon DEF BroadcastRequest
    <3> QED  BY <1>0, <3>1 DEF TypeOK, ToTell
  <2>2. CASE todo[m] # {d}
    <3>1. pc' = pc /\ todo' = [todo EXCEPT ![m] = @ \ {d}]
      BY <1>3, <2>2, Zenon DEF BroadcastRequest
    <3> QED  BY <1>0, <3>1 DEF TypeOK, ToTell
  <2> QED  BY <2>1, <2>2
<1>4. ASSUME NEW d \in Peers(m), BroadcastRelease(m, d) PROVE ToTell(m, n)
  <2>1. pc[m] = "release" /\ todo' = [todo EXCEPT ![m] = @ \ {d}]
    BY <1>4 DEF BroadcastRelease
  <2> QED  BY <1>0, <2>1 DEF TypeOK, ToTell
<1>5. ASSUME NEW d \in Peers(m), CheckQueue(m, d) PROVE ToTell(m, n)
  <2>1. pc'[m] \notin {"request", "release"}
    BY <1>0, <1>5 DEF CheckQueue, TypeOK
  <2> QED  BY <2>1 DEF ToTell
<1> QED  BY <1>1, <1>2, <1>3, <1>4, <1>5, CallerStep DEF CallerAction

\* and something new to hear only after a word was taken from the stream.
LEMMA HearingStep ==
    ASSUME QueuesInv, Next, NEW m \in Node, NEW n \in Peers(m), Hearing(m, n)'
    PROVE  Hearing(m, n) \/ HandleMsg(n, m)
<1>0. TypeOK /\ n \in Node /\ m \in Peers(n)
  BY DEF QueuesInv, Peers
<1>1. ASSUME NEW k \in Node, NEW s \in Peers(k), HandleMsg(k, s)
      PROVE  Hearing(m, n) \/ HandleMsg(n, m)
  <2>1. CASE k = n /\ s = m
    BY <1>1, <2>1
  <2>2. CASE k = n /\ s # m
    BY <1>0, <1>1, <2>2 DEF HandleMsg, TypeOK, Hearing
  <2>3. CASE k # n
    BY <1>0, <1>1, <2>3 DEF HandleMsg, TypeOK, Hearing
  <2> QED  BY <2>1, <2>2, <2>3
<1>2. ASSUME NEW k \in Node, RecieveAction(k) PROVE Hearing(m, n)
  BY <1>0, <1>2 DEF RecieveAction, GoOn, TypeOK, Handler, Hearing
<1>3. ASSUME NEW k \in Node, HandleRequest(k) PROVE Hearing(m, n)
  BY <1>0, <1>3 DEF HandleRequest, GoOn, TypeOK, Handler, Hearing
<1>4. ASSUME NEW k \in Node, SendAck(k) \/ HandleRelease(k) \/ HandleOther(k)
      PROVE  Hearing(m, n)
  <2>1. handler' = [handler EXCEPT ![k] = IdleHandler(k)]
    BY <1>4 DEF SendAck, HandleRelease, HandleOther, NotifyAll
  <2> QED  BY <1>0, <2>1 DEF IdleHandler, TypeOK, Hearing
<1>5. ASSUME NEW k \in Node,
             RequestCS(k) \/ Acquire(k) \/ SpuriousWakeup(k) \/ ReleaseCS(k) \/ Leave(k)
      PROVE  Hearing(m, n)
  <2>1. handler' = handler
    BY <1>5 DEF RequestCS, Acquire, SpuriousWakeup, ReleaseCS, Leave, Tick, Enqueue,
                CheckClock, Sleep, BroadcastRequest, CheckQueue, BroadcastRelease
  <2> QED  BY <2>1 DEF Hearing
<1> QED  BY <1>1, <1>2, <1>3, <1>4, <1>5 DEF Next, Handle, Take

\* n takes a frame of m: what was behind its REQUEST stays behind it.
LEMMA OrderTaken ==
    ASSUME TypeOK, NEW m \in Node, NEW n \in Peers(m), Order(m, n), HandleMsg(n, m),
           m_RequestQ'[m][m] = m_RequestQ[m][m], m_RequestQ[m][m] # 0,
           ToTell(m, n)' => ToTell(m, n)
    PROVE  Order(m, n)'
<1> DEFINE q == m_RequestQ[m][m]
           c == channel[m][n]
<1>0. /\ n \in Node /\ q \in Int /\ m_Ticks[n][m] \in Int /\ c \in Seq(Message)
  BY DEF Peers, TypeOK
<1>1. /\ c # <<>> /\ channel'[m][n] = Tail(c)
      /\ m_Ticks'[n][m] = Later(m_Ticks[n][m], Head(c).data)
      /\ handler'[n].tag = Head(c).tag
  BY <1>0 DEF HandleMsg, ReceiveMsg, TypeOK
<1>2. /\ 1 \in DOMAIN c /\ Head(c) = c[1] /\ c[1] \in Message
      /\ \A j \in DOMAIN channel'[m][n] : /\ j \in Nat /\ j + 1 \in DOMAIN c
                                          /\ channel'[m][n][j] = c[j + 1]
  BY <1>0, <1>1
<1>3. /\ \A i \in Told(m, n) : i \in Nat /\ i >= 1
      /\ \A i \in Told(m, n)' : i \in Nat /\ i + 1 \in Told(m, n)
      /\ 1 \in Told(m, n) <=> Head(c).tag \in {"REQUEST", "RELEASE"}
  BY <1>0, <1>1, ToldTail
<1>4. ASSUME ToTell(m, n)' \/ Told(m, n)' # {} \/ Hearing(m, n)'
      PROVE  m_Ticks'[n][m] <= q
  <2>1. ToTell(m, n) \/ \E i \in Told(m, n) : 1 <= i
    BY <1>1, <1>3, <1>4 DEF Hearing
  <2>2. m_Ticks[n][m] <= q /\ c[1].data <= q
    BY <1>2, <2>1 DEF Order
  <2>3. c[1].data \in Int
    BY <1>2 DEF Message
  <2> QED  BY <1>0, <1>1, <1>2, <2>2, <2>3 DEF Later
<1>5. ASSUME NEW j \in DOMAIN channel'[m][n],
             ToTell(m, n)' \/ \E i \in Told(m, n)' : j <= i
      PROVE  channel'[m][n][j].data <= q
  <2>1. j + 1 \in DOMAIN c /\ channel'[m][n][j] = c[j + 1] /\ j \in Nat
    BY <1>2
  <2>2. ToTell(m, n) \/ \E i \in Told(m, n) : j + 1 <= i
    BY <1>3, <1>5, <2>1
  <2> QED  BY <2>1, <2>2 DEF Order
<1> QED  BY <1>4, <1>5 DEF Order

\* A frame comes into the stream that is not later than the request, or that
\* comes behind the REQUEST.
LEMMA OrderCame ==
    ASSUME TypeOK, NEW m \in Node, NEW n \in Peers(m), Order(m, n),
           NEW f \in Message, Came(m, n, f),
           m_RequestQ'[m][m] = m_RequestQ[m][m], m_RequestQ[m][m] # 0,
           ToTell(m, n)' => ToTell(m, n), Hearing(m, n)' => Hearing(m, n),
           \/ ToTell(m, n) /\ f.data <= m_RequestQ[m][m]
           \/ ~ToTell(m, n) /\ f.tag = "ACK"
    PROVE  Order(m, n)'
<1> DEFINE q == m_RequestQ[m][m]
           k == Len(channel[m][n]) + 1
<1>0. n \in Node /\ channel[m][n] \in Seq(Message)
  BY DEF Peers, TypeOK
<1>1. channel'[m][n] = Append(channel[m][n], f) /\ m_Ticks'[n][m] = m_Ticks[n][m]
  BY DEF Came
<1>2. /\ channel'[m][n][k] = f /\ k \in Nat
      /\ \A j \in DOMAIN channel'[m][n] :
            \/ j = k
            \/ /\ j \in DOMAIN channel[m][n] /\ j \in Nat /\ j < k
               /\ channel'[m][n][j] = channel[m][n][j]
  BY <1>0, <1>1
<1>3. /\ \A i \in Told(m, n)' : i \in Told(m, n) \/ i = k
      /\ k \in Told(m, n)' <=> f.tag \in {"REQUEST", "RELEASE"}
      /\ \A i \in Told(m, n) : i \in 1 .. Len(channel[m][n])
  BY <1>0, <1>1, ToldAppend
<1> HIDE DEF k
<1>4. CASE ToTell(m, n) /\ f.data <= q
  <2>1. m_Ticks[n][m] <= q /\ \A j \in DOMAIN channel[m][n] : channel[m][n][j].data <= q
    BY <1>4 DEF Order
  <2> QED  BY <1>1, <1>2, <1>4, <2>1 DEF Order
<1>5. CASE ~ToTell(m, n) /\ f.tag = "ACK"
  <2>1. \A i \in Told(m, n)' : i \in Told(m, n) /\ i < k
    BY <1>0, <1>3, <1>5 DEF k
  <2>2. m_Ticks[n][m] <= q \/ ~(Told(m, n)' # {} \/ Hearing(m, n)')
    BY <1>5, <2>1 DEF Order
  <2>3. ASSUME NEW j \in DOMAIN channel'[m][n], \E i \in Told(m, n)' : j <= i
        PROVE  channel'[m][n][j].data <= q
    <3>1. PICK i \in Told(m, n)' : j <= i
      BY <2>3
    <3>2. i \in Told(m, n) /\ i < k /\ i \in Nat
      BY <1>3, <2>1
    <3>3. /\ j \in DOMAIN channel[m][n]
          /\ channel'[m][n][j] = channel[m][n][j]
      BY <1>2, <3>1, <3>2
    <3> QED  BY <3>1, <3>2, <3>3 DEF Order
  <2> QED  BY <1>1, <1>5, <2>2, <2>3 DEF Order
<1> QED  BY <1>4, <1>5

\* No later time overtakes a REQUEST.
LEMMA OrderNext ==
    ASSUME QueuesInv, QueuesInv', Unraced, Next, NoRace, NEW m \in Node, NEW n \in Peers(m)
    PROVE  Order(m, n)'
<1>0. /\ TypeOK /\ TypeOK' /\ n \in Node /\ m \in Peers(n)
      /\ Order(m, n) /\ Clock(m) /\ LastWord(m, n)
  BY DEF QueuesInv, QueuesSettle, Unraced, Peers
<1>1. CASE Enqueue(m)
  <2>1. /\ channel' = channel /\ m_Ticks' = m_Ticks
        /\ m_RequestQ'[m][m] = m_Ticks[m][m]
    BY <1>0, <1>1 DEF Enqueue, TypeOK
  <2>2. Sent(m, n, m_Ticks[m][m])
    BY <1>0 DEF Clock
  <2> QED  BY <2>1, <2>2 DEF Sent, Order
<1>2. CASE ReleaseCS(m)
  <2>1. m_RequestQ'[m][m] = 0
    BY <1>0, <1>2 DEF ReleaseCS, TypeOK
  <2> QED  BY <2>1 DEF Order
<1>3. ASSUME ~Enqueue(m), ~ReleaseCS(m), m_RequestQ'[m][m] # 0
      PROVE  Order(m, n)'
  <2>1. m_RequestQ'[m][m] = m_RequestQ[m][m] /\ m_RequestQ[m][m] # 0
    BY <1>3, OwnEntryStep
  <2>2. ToTell(m, n)' => ToTell(m, n)
    BY <1>3, ToTellStep
  <2>3. ToTell(m, n) => pc[m] = "request" /\ m_RequestQ[m][m] = local[m]
    BY <1>0, <2>1 DEF LastWord, ToTell
  <2>4. CASE HandleMsg(n, m)
    BY <1>0, <2>1, <2>2, <2>4, OrderTaken
  <2>5. CASE ~HandleMsg(n, m)
    <3>1. Hearing(m, n)' => Hearing(m, n)
      BY <2>5, HearingStep
    <3>2. CASE Kept(m, n)
      <4>1. /\ channel'[m][n] = channel[m][n]
            /\ m_Ticks'[n][m] = m_Ticks[n][m]
        BY <3>2 DEF Kept
      <4>2. Told(m, n)' = Told(m, n)
        BY <4>1 DEF Told
      <4> QED  BY <1>0, <2>1, <2>2, <3>1, <4>1, <4>2 DEF Order
    <3>3. ASSUME NEW f \in Message, Came(m, n, f), FromCaller(m, n, f)
          PROVE  Order(m, n)'
      <4>1. ToTell(m, n)
        BY <3>3 DEF FromCaller, ToTell
      <4>2. f.data <= m_RequestQ[m][m]
        BY <1>0, <2>3, <3>3, <4>1 DEF FromCaller, TypeOK
      <4> QED  BY <1>0, <2>1, <2>2, <3>1, <3>3, <4>1, <4>2, OrderCame
    <3>4. ASSUME NEW f \in Message, Came(m, n, f), FromHandler(m, n, f)
          PROVE  Order(m, n)'
      <4>1. ~ToTell(m, n) /\ f.tag = "ACK"
        BY <2>3, <3>4 DEF FromHandler, ToTell, NoRace, AnswersInRequest
      <4> QED  BY <1>0, <2>1, <2>2, <3>1, <3>4, <4>1, OrderCame
    <3> QED  BY <2>5, <3>2, <3>3, <3>4, StreamStep DEF Taken
  <2> QED  BY <2>4, <2>5
<1>4. CASE m_RequestQ'[m][m] = 0
  BY <1>4 DEF Order
<1> QED  BY <1>1, <1>2, <1>3, <1>4

-----------------------------------------------------------------------------
(* The theorem *)

\* Without a race all of it is kept.
LEMMA UnracedNext ==
    ASSUME QueuesInv, QueuesInv', Unraced, Next, NoRace
    PROVE  Unraced'
<1>1. ASSUME NEW m \in Node PROVE Clock(m)' /\ Asked(m)' /\ Half(m)'
  BY ClockNext, AskedNext, HalfNext
<1>2. ASSUME NEW m \in Node, NEW n \in Peers(m) PROVE Order(m, n)' /\ Pass(m, n)'
  BY OrderNext, PassNext
<1> QED  BY <1>1, <1>2 DEF Unraced, Peers

\* The invariant holds when the program begins.
LEMMA RaceInit == HInit => RaceInv
<1> SUFFICES ASSUME HInit PROVE RaceInv
  OBVIOUS
<1>1. QueuesInv /\ Init
  BY QueuesInit DEF HInit
<1>2. ASSUME NEW m \in Node, NEW n \in Peers(m) PROVE Order(m, n) /\ Pass(m, n)
  BY <1>1 DEF Init, Order, Pass, Passed, Peers
<1>3. ASSUME NEW m \in Node, NEW n \in Peers(m) PROVE Sent(m, n, m_Ticks[m][m])
  BY <1>1, <1>3 DEF Init, Sent, Peers
<1>4. ASSUME NEW m \in Node PROVE Clock(m) /\ Asked(m) /\ Half(m)
  BY <1>1, <1>3 DEF Init, Clock, Asked, Half, IdleHandler
<1> QED  BY <1>1, <1>2, <1>4 DEF RaceInv, Unraced

\* When all races are watched for, every step keeps it.
LEMMA RaceNext ==
    ASSUME Watched = Race
    PROVE  RaceInv /\ [HNext]_historyVars => RaceInv'
<1> SUFFICES ASSUME RaceInv, [HNext]_historyVars PROVE RaceInv'
  OBVIOUS
<1>1. QueuesInv'
  <2>1. [Next]_lmVars
    BY DEF HNext, historyVars
  <2> QED  BY <2>1, QueuesNext DEF RaceInv
<1>2. ASSUME raced' = {} PROVE Unraced'
  <2>1. CASE HNext
    <3>1. raced = {} /\ \A r \in Race : \A n \in Node : ~Races(r, n)
      BY <1>2, <2>1 DEF HNext
    <3>2. NoRace
      <4>1. \A r \in {"answer", "queue", "clock"} : \A n \in Node : ~Races(r, n)
        BY <3>1 DEF Race
      <4> QED  BY <4>1 DEF NoRace, Races
    <3> QED  BY <1>1, <2>1, <3>1, <3>2, UnracedNext DEF RaceInv, HNext
  <2>2. CASE UNCHANGED historyVars
    <3>1. Unraced /\ UNCHANGED lmVars
      BY <1>2, <2>2 DEF RaceInv, historyVars
    <3> QED  BY <3>1 DEF lmVars, Unraced, Clock, Sent, Asked, Half, Order, ToTell, Told,
                         Hearing, Pass, Passed, Peers, isGreater
  <2> QED  BY <2>1, <2>2
<1> QED  BY <1>1, <1>2 DEF RaceInv

\* It implies mutual exclusion: of two nodes in the critical section each would have
\* seen the other later than itself.
LEMMA RaceMutex == RaceInv => MutexUnlessRaced
<1> SUFFICES ASSUME RaceInv, raced = {}, NEW m \in Node, NEW n \in Node,
                    pc[m] = "cs", pc[n] = "cs", m # n
             PROVE  FALSE
  BY DEF MutexUnlessRaced, MutualExclusion
<1>1. /\ m \in Peers(n) /\ n \in Peers(m) /\ m \in Int /\ n \in Int
      /\ m_RequestQ[m][m] \in Int /\ m_RequestQ[n][n] \in Int
  BY NodeAssumption DEF Peers, RaceInv, QueuesInv, TypeOK
<1>2. m_RequestQ[m][m] >= 1 /\ m_RequestQ[n][n] >= 1
  BY DEF RaceInv, Unraced, Asked
<1>3. /\ isGreater(m_RequestQ[m][m], m, m_RequestQ[n][n], n)
      /\ isGreater(m_RequestQ[n][n], n, m_RequestQ[m][m], m)
  <2>1. Pass(n, m) /\ Pass(m, n) /\ Passed(n, m) /\ Passed(m, n)
    BY <1>1 DEF RaceInv, Unraced, Passed
  <2> QED  BY <1>1, <1>2, <2>1 DEF Pass
<1> QED  BY <1>1, <1>3 DEF isGreater

\* Two nodes are never in the critical section together unless the two threads
\* of some node have raced in one of the three ways (LamportMutex.cpp:20-23,
\* 49-54 against 84-90), whatever the nodes and their calls.
THEOREM MutexWithoutRaces ==
    ASSUME Watched = Race
    PROVE  HSpec => []MutexUnlessRaced
<1>1. RaceInv /\ [HNext]_historyVars => RaceInv'
  BY RaceNext
<1> QED  BY <1>1, RaceInit, RaceMutex, PTL DEF HSpec
=============================================================================
