---------------------------- MODULE MonitorProofs ----------------------------
(***************************************************************************)
(* Theorems about Monitor, for any number of messages and frames of any    *)
(* kinds: what is sent and what is heard keeps its order, and a handle is  *)
(* closed once.                                                            *)
(***************************************************************************)
EXTENDS Monitor, SequenceTheorems, TLAPS

\* The frames of the node, those the system took and those to be sent.
Frames == delivered \o txbuf

\* What has been sent by the monitor and not dispatched, in halves of frames.
Stream == rxbuf \o wire

Closing == readyState \in {"CLOSING", "CLOSED"}

\* The thread opens the socket once, and closes it before it ends.
Places ==
    /\ at \in {"connect", "status", "headers"} =>
          readyState = "CONNECTING" /\ ~leaving /\ rxbuf = <<>>
    /\ at = "ended" => leaving \/ readyState = "CONNECTING"
    /\ leaving => Closing

\* The handle is closed when the socket becomes CLOSED, and again at most by the
\* second loop of the same poll, which leaves what it could not send.
Handle ==
    /\ readyState = "CLOSING" => txbuf # <<>>
    /\ readyState # "CLOSED" => closed = 0
    /\ readyState = "CLOSED" => closed = 1 \/ (closed = 2 /\ txbuf # <<>> /\ at # "send")

\* The positions of the node's messages among the frames F.
Texts(F) == {i \in DOMAIN F : F[i].kind = "text"}

NoClose(F) == \A i \in DOMAIN F : F[i].kind # "close"

\* The messages among the frames F are the first k, each once and in order, and
\* nothing follows a farewell.
Sent(F, k) ==
    /\ {F[i].n : i \in Texts(F)} = 1 .. k
    /\ \A i, j \in Texts(F) : i < j => F[i].n < F[j].n
    /\ \A i \in DOMAIN F : F[i].kind = "close" => i = Len(F)

\* The queue q holds the last messages of the p that were pushed.
Queued(q, p) == \A i \in DOMAIN q : q[i] = p - Len(q) + i

\* There is a farewell only when the socket is closing, and only then are
\* messages popped that are not sent.
Reported ==
    /\ ~Closing => NoClose(Frames)
    /\ Queued(m_Outgoing, pushed)
    /\ \E k \in 0 .. pushed - Len(m_Outgoing) :
         /\ Sent(Frames, k)
         /\ k < pushed - Len(m_Outgoing) => Closing

\* S holds the halves of the frames after the b-th, two of each, in order.
Halves(S, b) ==
    \A i \in 1 .. Len(S) : i <= 2 * (S[i].n - b) /\ 2 * (S[i].n - b) <= i + 1

\* All frames up to the b-th are dispatched, the next ones up to the last that
\* the monitor has begun to send are in the stream, unless the connection has
\* ended.
Flowing(b) ==
    /\ Halves(Stream, b)
    /\ Len(Stream) <= 2 * (told - b)
    /\ monitor = "up" => Len(Stream) = 2 * (told - b) - (IF half = None THEN 0 ELSE 1)
    /\ half # None => half.n = told

\* The messages M and the unfinished one R hold the data frames of numbers up
\* to b, in order, each message up to the frame that ends it.
Heard(M, R, b) ==
    /\ \A c \in DOMAIN M : \A i \in DOMAIN M[c] : M[c][i].n <= b
    /\ \A i \in DOMAIN R : R[i].n <= b
    /\ \A c, d \in DOMAIN M : \A i \in DOMAIN M[c], j \in DOMAIN M[d] :
         c < d \/ (c = d /\ i < j) => M[c][i].n < M[d][j].n
    /\ \A i, j \in DOMAIN R : i < j => R[i].n < R[j].n
    /\ \A c \in DOMAIN M : \A i \in DOMAIN M[c], j \in DOMAIN R : M[c][i].n < R[j].n
    /\ \A c \in DOMAIN M : \A i \in DOMAIN M[c] :
         M[c][i].kind = IF i = Len(M[c]) THEN "text" ELSE "part"
    /\ \A i \in DOMAIN R : R[i].kind = "part"
    /\ \A c \in DOMAIN M : M[c] # <<>>

DataKind == {"text", "part"}

\* data has the numbers of the data frames in S.
Marked(S) == \A i \in 1 .. Len(S) : S[i].kind \in DataKind <=> S[i].n \in data

\* Frame n is in one of the messages M or in the unfinished one R.
Hears(M, R, n) ==
    \/ \E c \in DOMAIN M : \E i \in DOMAIN M[c] : M[c][i].n = n
    \/ \E i \in DOMAIN R : R[i].n = n

\* Of the frames up to the b-th those in D, and no others, are there.
Whole(M, R, D, b) == \A n \in 1 .. b : n \in D <=> Hears(M, R, n)

Dispatched ==
    /\ \E b \in 0 .. told :
         Flowing(b) /\ Heard(m_Incoming, receivedData, b)
                   /\ Whole(m_Incoming, receivedData, data, b)
    /\ Marked(Stream)
    /\ half # None => (half.kind \in DataKind <=> half.n \in data)
    /\ at = "loop" => ~WholeFrame

MonitorInv == MonitorTypeOK /\ Places /\ Handle /\ Reported /\ Dispatched

-----------------------------------------------------------------------------
(* Sequences *)

\* What is left of a sequence when its first k elements are taken.
LEMMA Rest ==
    ASSUME NEW S, NEW s \in Seq(S), NEW k \in 0 .. Len(s)
    PROVE  /\ SubSeq(s, 1, k) \in Seq(S)
           /\ SubSeq(s, k + 1, Len(s)) \in Seq(S)
           /\ Len(SubSeq(s, k + 1, Len(s))) = Len(s) - k
           /\ \A i \in 1 .. Len(s) - k : SubSeq(s, k + 1, Len(s))[i] = s[k + i]
           /\ SubSeq(s, 1, k) \o SubSeq(s, k + 1, Len(s)) = s
<1> DEFINE n == Len(s)
<1>1. n \in Nat /\ \A i \in 1 .. n : s[i] \in S
  BY LenProperties, ElementOfSeq
<1>2. SubSeq(s, 1, n) = s
  BY SubSeqFull
<1>3. SubSeq(s, 1, k) \o SubSeq(s, k + 1, n) = SubSeq(s, 1, n)
  <2>1. k \in 0 .. n /\ n \in Nat /\ n = Len(s)
    BY <1>1
  <2> HIDE DEF n
  <2>2. 1 \in 1 .. n + 1 /\ k \in 1 - 1 .. n /\ n \in k .. n
    BY <2>1
  <2> QED  BY <2>1, <2>2, ConcatAdjacentSubSeq
<1> HIDE DEF n
<1>4. SubSeq(s, 1, k) \in Seq(S)
  BY <1>1, SubSeqProperties DEF n
<1>5. /\ SubSeq(s, k + 1, n) \in Seq(S)
      /\ Len(SubSeq(s, k + 1, n)) = n - k
      /\ \A i \in 1 .. n - k : SubSeq(s, k + 1, n)[i] = s[k + i]
  <2>1. k + 1 \in Int /\ n \in Int /\ \A i \in k + 1 .. n : s[i] \in S
    BY <1>1 DEF n
  <2>2. /\ SubSeq(s, k + 1, n) \in Seq(S)
        /\ Len(SubSeq(s, k + 1, n)) = IF k + 1 <= n THEN n - (k + 1) + 1 ELSE 0
        /\ \A i \in 1 .. n - (k + 1) + 1 : SubSeq(s, k + 1, n)[i] = s[(k + 1) + i - 1]
    BY <2>1, SubSeqProperties
  <2>3. k \in Int /\ k <= n
    BY DEF n
  <2> HIDE DEF n
  <2> QED  BY <1>1, <2>2, <2>3
<1> QED  BY <1>2, <1>3, <1>4, <1>5 DEF n

\* What is appended to the second part is appended to the whole.
LEMMA AppendRight ==
    ASSUME NEW S, NEW s \in Seq(S), NEW t \in Seq(S), NEW e \in S
    PROVE  s \o Append(t, e) = Append(s \o t, e)
<1>1. <<e>> \in Seq(S) /\ s \o t \in Seq(S)
  BY ConcatProperties
<1>2. Append(t, e) = t \o <<e>> /\ Append(s \o t, e) = (s \o t) \o <<e>>
  BY <1>1, AppendIsConcat
<1> QED  BY <1>1, <1>2, ConcatAssociative

-----------------------------------------------------------------------------
(* The type, the places of the thread and the handle *)

\* A frame of the monitor and one of the node have a kind and a number.
LEMMA FrameFields ==
    /\ \A f \in Frame : f.kind \in FrameKind /\ f.n \in 1 .. MaxFrames
    /\ \A f \in OutFrame : f.n \in 0 .. MaxPushed /\ (f.kind = "text" => f.n \in 1 .. MaxPushed)
BY MonitorAssumption DEF Frame, OutFrame

\* The frames that SendData and Close append.
LEMMA OutFrames ==
    /\ \A n \in 1 .. MaxPushed : [kind |-> "text", n |-> n] \in OutFrame
    /\ [kind |-> "pong", n |-> 0] \in OutFrame
    /\ [kind |-> "close", n |-> 0] \in OutFrame
BY DEF OutFrame

\* SendData and Close keep the buffer a sequence of frames.
LEMMA BufferType ==
    ASSUME MonitorTypeOK
    PROVE  /\ \A f \in OutFrame : SendData(f) => txbuf' \in Seq(OutFrame)
           /\ Close => txbuf' \in Seq(OutFrame) /\ readyState' \in {"CLOSING", "CLOSED"}
<1>1. ASSUME NEW f \in OutFrame
      PROVE  Append(txbuf, f) \in Seq(OutFrame)
  BY AppendProperties DEF MonitorTypeOK
<1> QED  BY <1>1, OutFrames DEF MonitorTypeOK, SendData, Close

\* Every step keeps the types.
LEMMA TypeNext ==
    ASSUME MonitorTypeOK, Handle, [MonitorNext]_vars
    PROVE  MonitorTypeOK'
<1> USE DEF MonitorTypeOK
<1> USE MonitorAssumption
<1>1. CASE Push
  <2>1. pushed + 1 \in 1 .. MaxPushed
    BY <1>1 DEF Push
  <2>2. m_Outgoing' \in Seq(1 .. MaxPushed)
    BY <1>1, <2>1, AppendProperties DEF Push
  <2> QED  BY <1>1, <2>1, <2>2 DEF Push, socketVars, monitorVars
<1>2. CASE Destroy \/ Join
  <2>1. CASE Destroy
    <3>1. /\ UNCHANGED <<m_Outgoing, pushed, m_Incoming, at, leaving, readyState, txbuf, rxbuf>>
          /\ UNCHANGED <<receivedData, isRxBad, closed, monitor, answer, wire, half, told>>
          /\ UNCHANGED <<data, delivered>>
          /\ node' \in {"lives", "joining", "gone"} /\ m_Running' \in BOOLEAN
      BY <2>1 DEF Destroy, nodeVars, socketVars, monitorVars
    <3> QED  BY <3>1
  <2>2. CASE Join
    BY <2>2 DEF Join, nodeVars, socketVars, monitorVars
  <2> QED  BY <1>2, <2>1, <2>2
<1>3. CASE Connect \/ ReadStatus \/ ReadHeaders \/ ReadReset \/ DispatchDone
  <2>1. /\ UNCHANGED <<m_Outgoing, pushed, m_Incoming, m_Running, node, txbuf, rxbuf>>
        /\ UNCHANGED <<receivedData, isRxBad, closed, monitor, answer, wire, half, told>>
        /\ UNCHANGED <<data, delivered>>
    BY <1>3 DEF Connect, ReadStatus, ReadHeaders, ReadReset, DispatchDone, ThreadGoes, nodeVars,
                monitorVars
  <2>2. /\ at' \in {"connect", "status", "headers", "loop", "recv", "send", "dispatch", "ended"}
        /\ leaving' \in BOOLEAN
        /\ readyState' \in {"CONNECTING", "OPEN", "CLOSING", "CLOSED"}
    BY <1>3 DEF Connect, ReadStatus, ReadHeaders, ReadReset, DispatchDone, ThreadGoes
  <2> QED  BY <2>1, <2>2
<1>4. CASE Loop
  <2>1. CASE m_Outgoing # <<>> /\ m_Outgoing' = Tail(m_Outgoing)
             /\ SendData([kind |-> "text", n |-> Head(m_Outgoing)])
             /\ UNCHANGED <<leaving, readyState>>
    <3>1. Head(m_Outgoing) \in 1 .. MaxPushed /\ Tail(m_Outgoing) \in Seq(1 .. MaxPushed)
      BY <2>1, HeadTailProperties
    <3>2. txbuf' \in Seq(OutFrame)
      BY <2>1, <3>1, OutFrames, BufferType
    <3> QED  BY <1>4, <2>1, <3>1, <3>2 DEF Loop, monitorVars
  <2>2. CASE UNCHANGED <<m_Outgoing, txbuf, leaving, readyState>>
    BY <1>4, <2>2 DEF Loop, monitorVars
  <2>3. CASE Close /\ leaving' = TRUE /\ UNCHANGED m_Outgoing
    BY <1>4, <2>3, BufferType DEF Loop, monitorVars
  <2> QED  BY <1>4, <2>1, <2>2, <2>3 DEF Loop, Pops
<1>5. CASE PollRecv
  <2>1. rxbuf \o wire \in Seq(Frame) /\ <<>> \in Seq(Frame)
    BY ConcatProperties
  <2>2. readyState # "CLOSED" => closed + 1 \in 0 .. 2
    BY DEF Handle
  <2>3. CASE readyState = "CLOSED"
    BY <1>5, <2>3 DEF PollRecv, PollReturns, nodeVars
  <2>4. CASE readyState # "CLOSED"
    <3> HIDE DEF MonitorTypeOK
    <3>1. /\ UNCHANGED <<m_Outgoing, pushed, m_Incoming, m_Running, node, leaving, txbuf>>
          /\ UNCHANGED <<receivedData, isRxBad, monitor, answer, half, told, data, delivered>>
      BY <1>5 DEF PollRecv, nodeVars
    <3>2. at' = "send" /\ rxbuf' = rxbuf \o wire /\ wire' = <<>>
      BY <1>5, <2>4 DEF PollRecv
    <3>3. \/ readyState' = readyState /\ closed' = closed
          \/ readyState' = "CLOSED" /\ closed' = closed + 1
      BY <1>5, <2>4 DEF PollRecv
    <3>4. closed' \in 0 .. 2 /\ readyState' \in {"CONNECTING", "OPEN", "CLOSING", "CLOSED"}
      BY <3>3, <2>2, <2>4 DEF MonitorTypeOK
    <3> QED  BY <2>1, <3>1, <3>2, <3>4 DEF MonitorTypeOK
  <2> QED  BY <2>3, <2>4
<1>6. CASE PollSend
  <2>1. CASE SendFails
    <3>1. closed + 1 \in 0 .. 2
      BY <1>6 DEF Handle, PollSend
    <3> QED  BY <1>6, <2>1, <3>1 DEF PollSend, PollReturns, SendFails, nodeVars
  <2>2. CASE SendSome
    <3>1. PICK k \in 0 .. Len(txbuf) :
            /\ delivered' = delivered \o SubSeq(txbuf, 1, k)
            /\ txbuf' = SubSeq(txbuf, k + 1, Len(txbuf))
      BY <2>2 DEF SendSome
    <3>2. SubSeq(txbuf, 1, k) \in Seq(OutFrame) /\ txbuf' \in Seq(OutFrame)
      BY <3>1, Rest
    <3>3. delivered' \in Seq(OutFrame)
      BY <3>1, <3>2, ConcatProperties
    <3>4. closed' \in 0 .. 2 /\ readyState' \in {"CONNECTING", "OPEN", "CLOSING", "CLOSED"}
      BY <2>2 DEF SendSome, Handle
    <3> QED  BY <1>6, <3>2, <3>3, <3>4 DEF PollSend, PollReturns, nodeVars
  <2> QED  BY <1>6, <2>1, <2>2 DEF PollSend
<1>7. CASE RefuseFrame
  BY <1>7, BufferType DEF RefuseFrame, nodeVars, monitorVars
<1>8. CASE DispatchFrame
  <2> DEFINE f == Head(rxbuf)
  <2>1. Len(rxbuf) >= 2 /\ rxbuf # <<>> /\ Len(rxbuf) \in Nat
    BY <1>8, EmptySeq DEF DispatchFrame, WholeFrame
  <2>2. f \in Frame
    BY <2>1, HeadTailProperties
  <2>3. SubSeq(rxbuf, 2 + 1, Len(rxbuf)) \in Seq(Frame)
    BY <2>1, Rest
  <2>4. rxbuf' \in Seq(Frame)
    BY <1>8, <2>3 DEF DispatchFrame
  <2>5. Append(receivedData, f) \in Seq(Frame) /\ <<>> \in Seq(Frame)
    BY <2>2, AppendProperties
  <2>6. Append(m_Incoming, Append(receivedData, f)) \in Seq(Seq(Frame))
    BY <2>5, AppendProperties
  <2>7. CASE Collect(f) /\ UNCHANGED <<txbuf, readyState>>
    <3>1. /\ receivedData' \in Seq(Frame)
          /\ m_Incoming' \in Seq(Seq(Frame))
      BY <2>5, <2>6, <2>7 DEF Collect
    <3> QED  BY <1>8, <2>4, <2>7, <3>1 DEF DispatchFrame, nodeVars, monitorVars
  <2>8. CASE SendData([kind |-> "pong", n |-> 0])
             /\ UNCHANGED <<readyState, receivedData, m_Incoming>>
    <3>1. txbuf' \in Seq(OutFrame)
      BY <2>8, OutFrames, BufferType
    <3> QED  BY <1>8, <2>4, <2>8, <3>1 DEF DispatchFrame, nodeVars, monitorVars
  <2>9. CASE Close /\ UNCHANGED <<receivedData, m_Incoming>>
    BY <1>8, <2>4, <2>9, BufferType DEF DispatchFrame, nodeVars, monitorVars
  <2> QED  BY <1>8, <2>7, <2>8, <2>9 DEF DispatchFrame
<1>9. CASE Answer \/ SendRest \/ Hangup
  <2>1. half # None => half \in Frame /\ Append(wire, half) \in Seq(Frame)
    BY AppendProperties
  <2>2. <<>> \in Seq(Frame)
    OBVIOUS
  <2>3. CASE Answer
    BY <2>3 DEF Answer, MonitorDoes, nodeVars, socketVars
  <2>4. CASE SendRest
    BY <2>1, <2>4 DEF SendRest, MonitorDoes, nodeVars, socketVars
  <2>5. CASE Hangup
    <3>1. /\ monitor' \in {"absent", "up", "fin", "reset"} /\ wire' \in Seq(Frame)
          /\ answer' \in {"nothing", "status", "headers", "lost"}
      BY <2>2, <2>5 DEF Hangup
    <3> QED  BY <2>5, <3>1 DEF Hangup, MonitorDoes, nodeVars, socketVars
  <2> QED  BY <1>9, <2>3, <2>4, <2>5
<1>10. ASSUME NEW kind \in FrameKind, SendHead(kind)
       PROVE  MonitorTypeOK'
  <2>1. told + 1 \in 1 .. MaxFrames
    BY <1>10 DEF SendHead
  <2>2. half' \in Frame
    BY <1>10, <2>1 DEF SendHead, Frame
  <2>3. Append(wire, half') \in Seq(Frame)
    BY <2>2, AppendProperties
  <2>4. data' \subseteq 1 .. told'
    <3>1. \A n \in 1 .. told : n \in 1 .. told + 1
      OBVIOUS
    <3> QED  BY <1>10, <2>1, <3>1 DEF SendHead
  <2> QED  BY <1>10, <2>1, <2>2, <2>3, <2>4 DEF SendHead, MonitorDoes, nodeVars, socketVars
<1>11. CASE UNCHANGED vars
  BY <1>11 DEF vars, nodeVars, socketVars, monitorVars
<1> QED  BY <1>1, <1>2, <1>3, <1>4, <1>5, <1>6, <1>7, <1>8, <1>9, <1>10, <1>11
         DEF MonitorNext, Thread

\* Close leaves the socket closing, with something to send if it was not.
LEMMA CloseStep ==
    ASSUME MonitorTypeOK, Handle, Close
    PROVE  /\ Closing'
           /\ readyState' = "CLOSING" => txbuf' # <<>>
           /\ readyState' = "CLOSED" <=> readyState = "CLOSED"
           /\ readyState = "CLOSED" => UNCHANGED txbuf
<1>1. CASE readyState \in {"CLOSING", "CLOSED"}
  BY <1>1 DEF Close, Closing, Handle
<1>2. CASE readyState \notin {"CLOSING", "CLOSED"}
  <2>1. Append(txbuf, [kind |-> "close", n |-> 0]) # <<>>
    <3> DEFINE e == [kind |-> "close", n |-> 0]
    <3>1. e \in OutFrame /\ txbuf \in Seq(OutFrame)
      BY OutFrames DEF MonitorTypeOK
    <3> HIDE DEF e
    <3>2. Append(txbuf, e) # <<>>
      BY <3>1, AppendProperties
    <3> QED  BY <3>2 DEF e
  <2> QED  BY <1>2, <2>1 DEF Close, Closing
<1> QED  BY <1>1, <1>2

\* What is sent on a socket that is not closed may only make the buffer longer.
LEMMA SendDataStep ==
    ASSUME MonitorTypeOK, Handle, NEW f \in OutFrame, SendData(f)
    PROVE  /\ txbuf # <<>> => txbuf' # <<>>
           /\ readyState = "CLOSED" => UNCHANGED txbuf
<1>1. Append(txbuf, f) # <<>>
  <2>1. txbuf \in Seq(OutFrame)
    BY DEF MonitorTypeOK
  <2> QED  BY <2>1, AppendProperties
<1> QED  BY <1>1 DEF SendData

\* Every step keeps what is known of the thread's places.
LEMMA PlacesNext ==
    ASSUME MonitorTypeOK, Handle, Places, [MonitorNext]_vars
    PROVE  Places'
<1> USE DEF Places
<1>1. CASE Push \/ Destroy \/ Join
  <2>1. UNCHANGED <<at, leaving, readyState, rxbuf>>
    BY <1>1 DEF Push, Destroy, Join, socketVars
  <2> QED  BY <2>1 DEF Closing
<1>2. CASE Connect \/ ReadStatus \/ ReadHeaders \/ ReadReset \/ DispatchDone
  BY <1>2 DEF Connect, ReadStatus, ReadHeaders, ReadReset, DispatchDone, ThreadGoes, Closing
<1>3. CASE Loop
  <2>1. at = "loop" /\ at' = "recv"
    BY <1>3 DEF Loop
  <2>2. CASE UNCHANGED <<leaving, readyState>>
    BY <2>1, <2>2 DEF Closing
  <2>3. CASE Close /\ leaving' = TRUE
    BY <2>1, <2>3, CloseStep
  <2> QED  BY <1>3, <2>2, <2>3 DEF Loop
<1>4. CASE PollRecv
  <2>1. leaving' = leaving /\ at = "recv" /\ at' \in {"ended", "dispatch", "send"}
    BY <1>4 DEF PollRecv, PollReturns
  <2>2. at' = "ended" => leaving
    BY <1>4 DEF PollRecv, PollReturns
  <2>3. readyState' = readyState \/ readyState' = "CLOSED"
    BY <1>4 DEF PollRecv
  <2> QED  BY <2>1, <2>2, <2>3 DEF Closing
<1>5. CASE PollSend
  <2>1. leaving' = leaving /\ at = "send" /\ at' \in {"ended", "dispatch"}
    BY <1>5 DEF PollSend, PollReturns
  <2>2. at' = "ended" => leaving
    BY <1>5 DEF PollSend, PollReturns
  <2>3. readyState' = readyState \/ readyState' = "CLOSED"
    BY <1>5 DEF PollSend, SendFails, SendSome
  <2> QED  BY <2>1, <2>2, <2>3 DEF Closing
<1>6. CASE RefuseFrame
  BY <1>6, CloseStep DEF RefuseFrame
<1>7. CASE DispatchFrame
  <2>1. at = "dispatch" /\ UNCHANGED <<at, leaving>>
    BY <1>7 DEF DispatchFrame
  <2>2. UNCHANGED readyState \/ Close
    BY <1>7 DEF DispatchFrame
  <2>3. Closing => Closing'
    BY <2>2, CloseStep DEF Closing
  <2> QED  BY <2>1, <2>3
<1>8. CASE Answer \/ SendRest \/ Hangup \/ \E kind \in FrameKind : SendHead(kind)
  <2>1. MonitorDoes
    BY <1>8 DEF Answer, SendRest, Hangup, SendHead
  <2> QED  BY <2>1 DEF MonitorDoes, socketVars, Closing
<1>9. CASE UNCHANGED vars
  BY <1>9 DEF vars, socketVars, Closing
<1> QED  BY <1>1, <1>2, <1>3, <1>4, <1>5, <1>6, <1>7, <1>8, <1>9 DEF MonitorNext, Thread

\* Every step keeps what is known of the handle.
LEMMA HandleNext ==
    ASSUME MonitorTypeOK, Places, Handle, [MonitorNext]_vars
    PROVE  Handle'
<1>1. CASE UNCHANGED <<at, readyState, txbuf, closed>>
  BY <1>1 DEF Handle
<1>2. CASE Push \/ Destroy \/ Join \/ UNCHANGED vars
  <2>1. UNCHANGED <<at, readyState, txbuf, closed>>
    BY <1>2 DEF Push, Destroy, Join, socketVars, vars
  <2> QED  BY <1>1, <2>1
<1>3. CASE Answer \/ SendRest \/ Hangup \/ \E kind \in FrameKind : SendHead(kind)
  <2>1. MonitorDoes
    BY <1>3 DEF Answer, SendRest, Hangup, SendHead
  <2> QED  BY <1>1, <2>1 DEF MonitorDoes, socketVars
<1>4. CASE Connect \/ ReadStatus \/ ReadHeaders \/ ReadReset \/ DispatchDone
  <2>1. UNCHANGED <<txbuf, closed>> /\ at' # "send"
    BY <1>4 DEF Connect, ReadStatus, ReadHeaders, ReadReset, DispatchDone, ThreadGoes
  <2>2. UNCHANGED readyState \/ (readyState = "CONNECTING" /\ readyState' = "OPEN")
    BY <1>4 DEF Connect, ReadStatus, ReadHeaders, ReadReset, DispatchDone, Places
  <2> QED  BY <2>1, <2>2 DEF Handle
<1>5. CASE Loop
  <2>1. closed' = closed /\ at' = "recv"
    BY <1>5 DEF Loop
  <2>2. CASE Close
    BY <2>1, <2>2, CloseStep DEF Handle, MonitorTypeOK
  <2>3. CASE m_Outgoing # <<>> /\ SendData([kind |-> "text", n |-> Head(m_Outgoing)])
             /\ UNCHANGED readyState
    <3> DEFINE f == [kind |-> "text", n |-> Head(m_Outgoing)]
    <3>1. f \in OutFrame
      BY <2>3, HeadTailProperties, OutFrames DEF MonitorTypeOK
    <3>2. SendData(f) /\ UNCHANGED readyState
      BY <2>3
    <3> HIDE DEF f
    <3> QED  BY <2>1, <3>1, <3>2, SendDataStep DEF Handle
  <2>4. CASE UNCHANGED <<txbuf, readyState>>
    BY <2>1, <2>4 DEF Handle
  <2> QED  BY <1>5, <2>2, <2>3, <2>4 DEF Loop, Pops
<1>6. CASE PollRecv
  <2>1. at = "recv" /\ UNCHANGED txbuf
    BY <1>6 DEF PollRecv
  <2>2. CASE readyState = "CLOSED"
    BY <1>6, <2>1, <2>2 DEF PollRecv, PollReturns, Handle
  <2>3. CASE readyState # "CLOSED"
    BY <1>6, <2>1, <2>3 DEF PollRecv, Handle
  <2> QED  BY <2>2, <2>3
<1>7. CASE PollSend
  <2>1. at = "send" /\ at' # "send"
    BY <1>7 DEF PollSend, PollReturns
  <2>2. CASE SendFails
    BY <2>1, <2>2 DEF SendFails, Handle
  <2>3. CASE SendSome
    BY <2>1, <2>3 DEF SendSome, Handle, MonitorTypeOK
  <2> QED  BY <1>7, <2>2, <2>3 DEF PollSend
<1>8. CASE RefuseFrame
  <2>1. Close /\ UNCHANGED <<at, closed>>
    BY <1>8 DEF RefuseFrame
  <2> QED  BY <2>1, CloseStep DEF Handle, MonitorTypeOK
<1>9. CASE DispatchFrame
  <2>1. UNCHANGED <<at, closed>>
    BY <1>9 DEF DispatchFrame
  <2>2. CASE UNCHANGED <<txbuf, readyState>>
    BY <1>1, <2>1, <2>2
  <2>3. CASE SendData([kind |-> "pong", n |-> 0]) /\ UNCHANGED readyState
    BY <2>1, <2>3, OutFrames, SendDataStep DEF Handle
  <2>4. CASE Close
    BY <2>1, <2>4, CloseStep DEF Handle, MonitorTypeOK
  <2> QED  BY <1>9, <2>2, <2>3, <2>4 DEF DispatchFrame
<1> QED  BY <1>2, <1>3, <1>4, <1>5, <1>6, <1>7, <1>8, <1>9 DEF MonitorNext, Thread

-----------------------------------------------------------------------------
(* What the node sends *)

\* The next message is appended to what has been sent.
LEMMA SentText ==
    ASSUME NEW F \in Seq(OutFrame), NEW k \in Nat, NEW e \in OutFrame,
           e.kind = "text", e.n = k + 1, NoClose(F), Sent(F, k)
    PROVE  NoClose(Append(F, e)) /\ Sent(Append(F, e), k + 1)
<1> DEFINE G == Append(F, e)
           l == Len(F)
<1>1. /\ l \in Nat /\ DOMAIN F = 1 .. l /\ G \in Seq(OutFrame) /\ Len(G) = l + 1
      /\ \A i \in 1 .. l : G[i] = F[i]
      /\ G[l + 1] = e
  BY AppendProperties, LenProperties
<1>2. DOMAIN G = 1 .. l + 1
  BY <1>1, LenProperties
<1> SUFFICES NoClose(G) /\ Sent(G, k + 1)
  OBVIOUS
<1> HIDE DEF G, l
<1>3. Texts(G) = Texts(F) \cup {l + 1}
  BY <1>1, <1>2 DEF Texts
<1>4. \A i \in Texts(F) : i \in 1 .. l /\ G[i].n = F[i].n /\ F[i].n \in 1 .. k
  BY <1>1 DEF Texts, Sent
<1>5. NoClose(G)
  BY <1>1, <1>2 DEF NoClose
<1>6. {G[i].n : i \in Texts(G)} = 1 .. k + 1
  <2>1. \A i \in Texts(G) : G[i].n \in 1 .. k + 1
    BY <1>1, <1>3, <1>4
  <2>2. ASSUME NEW m \in 1 .. k + 1
        PROVE  \E i \in Texts(G) : G[i].n = m
    <3>1. CASE m = k + 1
      BY <1>1, <1>3, <3>1
    <3>2. CASE m \in 1 .. k
      <4>1. PICK i \in Texts(F) : F[i].n = m
        BY <3>2 DEF Sent
      <4> QED  BY <1>3, <1>4, <4>1
    <3> QED  BY <3>1, <3>2
  <2> QED  BY <2>1, <2>2
<1>7. ASSUME NEW i \in Texts(G), NEW j \in Texts(G), i < j
      PROVE  G[i].n < G[j].n
  <2>1. CASE j = l + 1
    <3>1. i \in Texts(F)
      BY <1>1, <1>3, <1>7, <2>1
    <3>2. G[i].n \in 1 .. k /\ G[j].n = k + 1
      BY <1>1, <1>4, <2>1, <3>1
    <3> QED  BY <3>2
  <2>2. CASE j # l + 1
    <3>1. j \in Texts(F) /\ i \in Texts(F)
      BY <1>1, <1>3, <1>4, <1>7, <2>2
    <3> QED  BY <1>4, <1>7, <3>1 DEF Sent
  <2> QED  BY <2>1, <2>2
<1> QED  BY <1>5, <1>6, <1>7 DEF Sent, NoClose

\* An answer or a farewell is appended to what has been sent.
LEMMA SentOther ==
    ASSUME NEW F \in Seq(OutFrame), NEW k \in Nat, NEW e \in OutFrame,
           e.kind # "text", NoClose(F), Sent(F, k)
    PROVE  /\ Sent(Append(F, e), k)
           /\ e.kind # "close" => NoClose(Append(F, e))
<1> DEFINE G == Append(F, e)
           l == Len(F)
<1>1. /\ l \in Nat /\ DOMAIN F = 1 .. l /\ G \in Seq(OutFrame) /\ Len(G) = l + 1
      /\ \A i \in 1 .. l : G[i] = F[i]
      /\ G[l + 1] = e
  BY AppendProperties, LenProperties
<1>2. DOMAIN G = 1 .. l + 1
  BY <1>1, LenProperties
<1> SUFFICES Sent(G, k) /\ (e.kind # "close" => NoClose(G))
  OBVIOUS
<1> HIDE DEF G, l
<1>3. Texts(G) = Texts(F)
  BY <1>1, <1>2 DEF Texts
<1>4. \A i \in Texts(F) : G[i].n = F[i].n
  BY <1>1 DEF Texts
<1>5. {G[i].n : i \in Texts(G)} = {F[i].n : i \in Texts(F)}
  BY <1>3, <1>4
<1>6. \A i, j \in Texts(G) : i < j => G[i].n < G[j].n
  BY <1>3, <1>4 DEF Sent
<1>7. \A i \in DOMAIN G : G[i].kind = "close" => i = Len(G)
  BY <1>1, <1>2 DEF NoClose
<1>8. e.kind # "close" => NoClose(G)
  BY <1>1, <1>2 DEF NoClose
<1> QED  BY <1>5, <1>6, <1>7, <1>8 DEF Sent

\* What is appended to the buffer is appended to the frames.
LEMMA FramesAppend ==
    ASSUME MonitorTypeOK, NEW e \in OutFrame, UNCHANGED delivered,
           txbuf' = Append(txbuf, e)
    PROVE  Frames' = Append(Frames, e)
<1>1. delivered \in Seq(OutFrame) /\ txbuf \in Seq(OutFrame)
  BY DEF MonitorTypeOK
<1>2. delivered \o Append(txbuf, e) = Append(delivered \o txbuf, e)
  BY <1>1, AppendRight
<1> QED  BY <1>2 DEF Frames

\* The socket does not open again, and the frames are the same.
SameFrames ==
    /\ Frames' = Frames /\ (Closing => Closing')
    /\ UNCHANGED m_Outgoing

\* A frame that is no message is appended while the socket is open.
OtherFrame ==
    \E e \in OutFrame :
       /\ ~Closing /\ e.kind # "text" /\ (e.kind = "close" => Closing')
       /\ Frames' = Append(Frames, e) /\ UNCHANGED m_Outgoing

\* A message is popped, and appended while the socket is open.
PopFrame ==
    /\ m_Outgoing # <<>> /\ m_Outgoing' = Tail(m_Outgoing)
    /\ UNCHANGED readyState
    /\ IF Closing THEN Frames' = Frames
       ELSE \E e \in OutFrame : /\ e.kind = "text" /\ e.n = Head(m_Outgoing)
                                /\ Frames' = Append(Frames, e)

PushFrame == Push /\ UNCHANGED <<delivered, txbuf, readyState>>

\* Close appends a farewell to the frames or does nothing.
LEMMA CloseFrames ==
    ASSUME MonitorTypeOK, Close, UNCHANGED <<delivered, nodeVars>>
    PROVE  SameFrames \/ OtherFrame
<1>1. CASE Closing
  BY <1>1 DEF Close, Closing, SameFrames, Frames, nodeVars
<1>2. CASE ~Closing
  <2> DEFINE e == [kind |-> "close", n |-> 0]
  <2>1. e \in OutFrame /\ e.kind = "close"
    BY OutFrames
  <2>2. txbuf' = Append(txbuf, e) /\ Closing' /\ UNCHANGED m_Outgoing
    BY <1>2 DEF Close, Closing, nodeVars
  <2> HIDE DEF e
  <2>3. Frames' = Append(Frames, e)
    BY <2>1, <2>2, FramesAppend
  <2> QED  BY <1>2, <2>1, <2>2, <2>3 DEF OtherFrame
<1> QED  BY <1>1, <1>2

\* What a step does to the frames and to the queue.
LEMMA FramesStep ==
    ASSUME MonitorTypeOK, Places, [MonitorNext]_vars
    PROVE  \/ (SameFrames \/ OtherFrame \/ PopFrame) /\ UNCHANGED pushed
           \/ PushFrame
<1>1. CASE UNCHANGED <<delivered, txbuf, m_Outgoing, pushed, readyState>>
  BY <1>1 DEF SameFrames, Frames, Closing
<1>2. CASE Push
  BY <1>2 DEF Push, PushFrame, socketVars, monitorVars
<1>3. CASE Destroy \/ Join \/ UNCHANGED vars
  <2>1. UNCHANGED <<delivered, txbuf, m_Outgoing, pushed, readyState>>
    BY <1>3 DEF Destroy, Join, vars, nodeVars, socketVars, monitorVars
  <2> QED  BY <1>1, <2>1
<1>4. CASE Answer \/ SendRest \/ Hangup \/ \E kind \in FrameKind : SendHead(kind)
  <2>1. MonitorDoes
    BY <1>4 DEF Answer, SendRest, Hangup, SendHead
  <2> QED  BY <1>1, <2>1 DEF MonitorDoes, socketVars, nodeVars
<1>5. CASE Connect \/ ReadStatus \/ ReadHeaders \/ ReadReset \/ DispatchDone
  <2>1. UNCHANGED <<delivered, txbuf, m_Outgoing, pushed>>
    BY <1>5 DEF Connect, ReadStatus, ReadHeaders, ReadReset, DispatchDone, ThreadGoes, nodeVars,
                monitorVars
  <2>2. UNCHANGED readyState \/ readyState = "CONNECTING"
    BY <1>5 DEF Connect, ReadStatus, ReadHeaders, ReadReset, DispatchDone, Places
  <2> QED  BY <2>1, <2>2 DEF SameFrames, Frames, Closing
<1>6. CASE Loop
  <2>1. UNCHANGED <<pushed, delivered>>
    BY <1>6 DEF Loop, monitorVars
  <2>2. CASE Close /\ UNCHANGED m_Outgoing
    BY <2>1, <2>2, CloseFrames DEF nodeVars
  <2>3. CASE UNCHANGED <<m_Outgoing, txbuf, leaving, readyState>>
    BY <1>1, <2>1, <2>3
  <2>4. CASE m_Outgoing # <<>> /\ m_Outgoing' = Tail(m_Outgoing)
             /\ SendData([kind |-> "text", n |-> Head(m_Outgoing)])
             /\ UNCHANGED <<leaving, readyState>>
    <3> DEFINE e == [kind |-> "text", n |-> Head(m_Outgoing)]
    <3>1. e \in OutFrame /\ e.kind = "text" /\ e.n = Head(m_Outgoing)
      BY <2>4, HeadTailProperties, OutFrames DEF MonitorTypeOK
    <3>2. IF Closing THEN UNCHANGED txbuf ELSE txbuf' = Append(txbuf, e)
      BY <2>4 DEF SendData, Closing
    <3>3. m_Outgoing # <<>> /\ m_Outgoing' = Tail(m_Outgoing) /\ UNCHANGED readyState
      BY <2>4
    <3> HIDE DEF e
    <3>4. ~Closing => Frames' = Append(Frames, e)
      BY <2>1, <3>1, <3>2, FramesAppend
    <3>5. Closing => Frames' = Frames
      BY <2>1, <3>2 DEF Frames
    <3>6. PopFrame
      BY <3>1, <3>3, <3>4, <3>5 DEF PopFrame
    <3> QED  BY <2>1, <3>6
  <2> QED  BY <1>6, <2>2, <2>3, <2>4 DEF Loop, Pops
<1>7. CASE PollRecv
  <2>1. UNCHANGED <<delivered, txbuf, m_Outgoing, pushed>>
    BY <1>7 DEF PollRecv, nodeVars
  <2>2. UNCHANGED readyState \/ readyState' = "CLOSED"
    BY <1>7 DEF PollRecv
  <2> QED  BY <2>1, <2>2 DEF SameFrames, Frames, Closing
<1>8. CASE PollSend
  <2>1. UNCHANGED <<m_Outgoing, pushed>>
    BY <1>8 DEF PollSend, nodeVars
  <2>2. CASE SendFails
    BY <2>1, <2>2 DEF SendFails, SameFrames, Frames, Closing
  <2>3. CASE SendSome
    <3>1. PICK k \in 0 .. Len(txbuf) :
            /\ delivered' = delivered \o SubSeq(txbuf, 1, k)
            /\ txbuf' = SubSeq(txbuf, k + 1, Len(txbuf))
      BY <2>3 DEF SendSome
    <3> DEFINE s == SubSeq(txbuf, 1, k)
               t == SubSeq(txbuf, k + 1, Len(txbuf))
    <3>2. s \in Seq(OutFrame) /\ t \in Seq(OutFrame) /\ s \o t = txbuf
      BY Rest DEF MonitorTypeOK
    <3>3. delivered \in Seq(OutFrame)
      BY DEF MonitorTypeOK
    <3> HIDE DEF s, t
    <3>4. (delivered \o s) \o t = delivered \o (s \o t)
      <4>1. ASSUME NEW d \in Seq(OutFrame), NEW u \in Seq(OutFrame), NEW v \in Seq(OutFrame)
            PROVE  (d \o u) \o v = d \o (u \o v)
        BY ConcatAssociative
      <4> QED  BY <3>2, <3>3, <4>1
    <3>5. Frames' = Frames
      BY <3>1, <3>2, <3>4 DEF Frames, s, t
    <3>6. UNCHANGED readyState \/ readyState' = "CLOSED"
      BY <2>3 DEF SendSome
    <3> QED  BY <2>1, <3>5, <3>6 DEF SameFrames, Closing
  <2> QED  BY <1>8, <2>2, <2>3 DEF PollSend
<1>9. CASE RefuseFrame
  BY <1>9, CloseFrames DEF RefuseFrame, nodeVars, monitorVars
<1>10. CASE DispatchFrame
  <2>1. UNCHANGED <<delivered, nodeVars, m_Outgoing, pushed>>
    BY <1>10 DEF DispatchFrame, nodeVars, monitorVars
  <2>2. CASE UNCHANGED <<txbuf, readyState>>
    BY <1>1, <2>1, <2>2
  <2>3. CASE Close
    BY <2>1, <2>3, CloseFrames
  <2>4. CASE SendData([kind |-> "pong", n |-> 0]) /\ UNCHANGED readyState
    <3> DEFINE e == [kind |-> "pong", n |-> 0]
    <3>1. e \in OutFrame /\ e.kind \notin {"text", "close"}
      BY OutFrames
    <3>2. IF Closing THEN UNCHANGED txbuf ELSE txbuf' = Append(txbuf, e)
      BY <2>4 DEF SendData, Closing
    <3> HIDE DEF e
    <3>3. ~Closing => Frames' = Append(Frames, e)
      BY <2>1, <3>1, <3>2, FramesAppend
    <3>4. Closing => Frames' = Frames
      BY <2>1, <3>2 DEF Frames
    <3> QED  BY <2>1, <2>4, <3>1, <3>3, <3>4 DEF SameFrames, OtherFrame, Closing
  <2> QED  BY <1>10, <2>2, <2>3, <2>4 DEF DispatchFrame
<1> QED  BY <1>2, <1>3, <1>4, <1>5, <1>6, <1>7, <1>8, <1>9, <1>10 DEF MonitorNext, Thread

\* A queue without its head, and with one more message.
LEMMA QueueStep ==
    ASSUME NEW q \in Seq(1 .. MaxPushed), NEW p \in Nat, Queued(q, p)
    PROVE  /\ q # <<>> => /\ Queued(Tail(q), p) /\ Len(Tail(q)) = Len(q) - 1
                          /\ Len(q) \in Nat \ {0} /\ Head(q) = p - Len(q) + 1
           /\ p + 1 \in 1 .. MaxPushed =>
                /\ Queued(Append(q, p + 1), p + 1)
                /\ Len(Append(q, p + 1)) = Len(q) + 1
<1> DEFINE l == Len(q)
<1>1. l \in Nat /\ DOMAIN q = 1 .. l
  BY LenProperties
<1>2. \A i \in 1 .. l : q[i] = p - l + i
  BY <1>1 DEF Queued
<1>3. ASSUME q # <<>>
      PROVE  /\ Queued(Tail(q), p) /\ Len(Tail(q)) = Len(q) - 1
             /\ Len(q) \in Nat \ {0} /\ Head(q) = p - Len(q) + 1
  <2> DEFINE t == Tail(q)
  <2>1. /\ t \in Seq(1 .. MaxPushed) /\ Len(t) = l - 1 /\ l # 0
        /\ \A i \in 1 .. Len(t) : t[i] = q[i + 1]
    BY <1>1, <1>3, HeadTailProperties, EmptySeq
  <2>2. DOMAIN t = 1 .. l - 1
    BY <2>1, LenProperties
  <2>3. Head(q) = q[1]
    OBVIOUS
  <2> HIDE DEF t, l
  <2>4. \A i \in 1 .. l - 1 : t[i] = p - (l - 1) + i
    BY <1>1, <1>2, <2>1
  <2>5. Queued(t, p)
    BY <2>1, <2>2, <2>4 DEF Queued
  <2>6. Head(q) = p - l + 1
    BY <1>1, <1>2, <2>1, <2>3
  <2> QED  BY <1>1, <2>1, <2>5, <2>6 DEF t, l
<1>4. ASSUME p + 1 \in 1 .. MaxPushed
      PROVE  Queued(Append(q, p + 1), p + 1) /\ Len(Append(q, p + 1)) = Len(q) + 1
  <2> DEFINE e == p + 1
             t == Append(q, e)
  <2>1. e \in 1 .. MaxPushed
    BY <1>4
  <2> HIDE DEF e
  <2>2. /\ t \in Seq(1 .. MaxPushed) /\ Len(t) = l + 1
        /\ \A i \in 1 .. l : t[i] = q[i]
        /\ t[l + 1] = e
    BY <2>1, AppendProperties
  <2>3. DOMAIN t = 1 .. l + 1
    BY <2>2, LenProperties
  <2> HIDE DEF t, l
  <2>4. \A i \in 1 .. l + 1 : t[i] = e - (l + 1) + i
    BY <1>1, <1>2, <2>2 DEF e
  <2> QED  BY <2>2, <2>3, <2>4 DEF Queued, t, e, l
<1> QED  BY <1>3, <1>4

\* Every step keeps the order of what is sent.
LEMMA ReportedNext ==
    ASSUME MonitorTypeOK, Places, Reported, [MonitorNext]_vars
    PROVE  Reported'
<1> DEFINE l == Len(m_Outgoing)
<1>1. /\ Frames \in Seq(OutFrame) /\ m_Outgoing \in Seq(1 .. MaxPushed)
      /\ pushed \in Nat /\ pushed <= MaxPushed /\ l \in Nat
  BY MonitorAssumption, ConcatProperties, LenProperties DEF MonitorTypeOK, Frames
<1>2. PICK k \in 0 .. pushed - l :
        Sent(Frames, k) /\ (k < pushed - l => Closing)
  BY DEF Reported
<1>3. (~Closing => NoClose(Frames)) /\ Queued(m_Outgoing, pushed)
  BY DEF Reported
<1>4. CASE SameFrames /\ UNCHANGED pushed
  <2>1. UNCHANGED <<Frames, m_Outgoing, pushed>> /\ (Closing => Closing')
    BY <1>4 DEF SameFrames
  <2> QED  BY <1>2, <1>3, <2>1 DEF Reported
<1>5. CASE OtherFrame /\ UNCHANGED pushed
  <2>1. PICK e \in OutFrame :
          /\ ~Closing /\ e.kind # "text" /\ (e.kind = "close" => Closing')
          /\ Frames' = Append(Frames, e) /\ UNCHANGED <<m_Outgoing, pushed>>
    BY <1>5 DEF OtherFrame
  <2>2. Sent(Frames', k) /\ (e.kind # "close" => NoClose(Frames'))
    BY <1>1, <1>2, <1>3, <2>1, SentOther
  <2>3. k = pushed - l
    <3>1. ~Closing
      BY <2>1
    <3> QED  BY <1>1, <1>2, <3>1
  <2> QED  BY <1>1, <1>2, <1>3, <2>1, <2>2, <2>3 DEF Reported
<1>6. CASE PopFrame /\ UNCHANGED pushed
  <2>1. /\ m_Outgoing # <<>> /\ m_Outgoing' = Tail(m_Outgoing)
        /\ UNCHANGED <<readyState, pushed>>
    BY <1>6 DEF PopFrame
  <2>2. /\ Queued(m_Outgoing', pushed') /\ Len(m_Outgoing') = l - 1
        /\ l # 0 /\ Head(m_Outgoing) = pushed - l + 1
    BY <1>1, <1>3, <2>1, QueueStep
  <2>3. CASE Closing
    <3>1. Frames' = Frames /\ Closing'
      BY <1>6, <2>1, <2>3 DEF PopFrame, Closing
    <3>2. k \in 0 .. pushed' - Len(m_Outgoing')
      BY <1>1, <1>2, <2>1, <2>2
    <3> QED  BY <1>2, <2>2, <3>1, <3>2 DEF Reported
  <2>4. CASE ~Closing
    <3>1. PICK e \in OutFrame : /\ e.kind = "text" /\ e.n = Head(m_Outgoing)
                                /\ Frames' = Append(Frames, e)
      BY <1>6, <2>4 DEF PopFrame
    <3>2. k = pushed - l /\ k \in Nat
      BY <1>1, <1>2, <2>4
    <3>3. NoClose(Frames') /\ Sent(Frames', k + 1)
      BY <1>1, <1>2, <1>3, <2>2, <2>4, <3>1, <3>2, SentText
    <3>4. k + 1 \in 0 .. pushed' - Len(m_Outgoing') /\ ~(k + 1 < pushed' - Len(m_Outgoing'))
      BY <1>1, <1>2, <2>1, <2>2, <3>2
    <3> QED  BY <2>2, <3>3, <3>4 DEF Reported
  <2> QED  BY <2>3, <2>4
<1>7. CASE PushFrame
  <2>1. /\ UNCHANGED <<delivered, txbuf, readyState>>
        /\ pushed < MaxPushed /\ pushed' = pushed + 1
        /\ m_Outgoing' = Append(m_Outgoing, pushed + 1)
    BY <1>7 DEF PushFrame, Push
  <2>2. pushed + 1 \in 1 .. MaxPushed
    BY <1>1, <2>1, MonitorAssumption
  <2>3. Queued(m_Outgoing', pushed') /\ Len(m_Outgoing') = l + 1
    BY <1>1, <1>3, <2>1, <2>2, QueueStep
  <2>4. Frames' = Frames /\ Closing' = Closing
    BY <2>1 DEF Frames, Closing
  <2>5. pushed' - Len(m_Outgoing') = pushed - l
    BY <1>1, <2>1, <2>3
  <2> QED  BY <1>2, <1>3, <2>3, <2>4, <2>5 DEF Reported
<1> QED  BY <1>4, <1>5, <1>6, <1>7, FramesStep

-----------------------------------------------------------------------------
(* What the node hears *)

\* A frame is dispatched: its halves leave the stream, whose next frame has the
\* next number.
LEMMA HalvesDrop ==
    ASSUME NEW S \in Seq(Frame), NEW T \in Seq(Frame), NEW b \in Nat, NEW t \in Nat,
           Halves(S, b), Len(S) >= 2, Len(T) = Len(S) - 2,
           \A i \in 1 .. Len(S) - 2 : T[i] = S[2 + i],
           Len(S) <= 2 * (t - b)
    PROVE  /\ S[1].n = b + 1
           /\ Halves(T, b + 1)
           /\ b + 1 \in 0 .. t
<1> DEFINE l == Len(S)
<1>1. l \in Nat /\ l >= 2 /\ l <= 2 * (t - b) /\ Len(T) = l - 2
  BY LenProperties
<1>2. \A i \in 1 .. l : /\ S[i].n \in Nat
                        /\ i <= 2 * (S[i].n - b) /\ 2 * (S[i].n - b) <= i + 1
  BY ElementOfSeq, FrameFields, MonitorAssumption DEF Halves
<1>3. \A i \in 1 .. l - 2 : T[i] = S[2 + i]
  OBVIOUS
<1> HIDE DEF l
<1>4. S[1].n = b + 1
  <2>1. 1 \in 1 .. l
    BY <1>1
  <2>2. S[1].n \in Nat /\ 1 <= 2 * (S[1].n - b) /\ 2 * (S[1].n - b) <= 1 + 1
    BY <1>2, <2>1
  <2> QED  BY <2>2
<1>5. ASSUME NEW i \in 1 .. l - 2
      PROVE  i <= 2 * (T[i].n - (b + 1)) /\ 2 * (T[i].n - (b + 1)) <= i + 1
  <2>1. 2 + i \in 1 .. l /\ i \in Nat
    BY <1>1
  <2>2. /\ S[2 + i].n \in Nat
        /\ 2 + i <= 2 * (S[2 + i].n - b) /\ 2 * (S[2 + i].n - b) <= (2 + i) + 1
    BY <1>2, <2>1
  <2>3. T[i].n = S[2 + i].n
    BY <1>3
  <2> DEFINE x == S[2 + i].n
  <2>4. T[i].n = x /\ x \in Nat /\ 2 + i <= 2 * (x - b) /\ 2 * (x - b) <= (2 + i) + 1
    BY <2>2, <2>3
  <2> HIDE DEF x
  <2> QED  BY <2>1, <2>4
<1>6. Halves(T, b + 1)
  BY <1>1, <1>5 DEF Halves
<1> QED  BY <1>1, <1>4, <1>6

\* A half is added at the end of the stream.
LEMMA HalvesAppend ==
    ASSUME NEW S \in Seq(Frame), NEW b \in Nat, NEW h \in Frame, Halves(S, b),
           Len(S) + 1 <= 2 * (h.n - b), 2 * (h.n - b) <= Len(S) + 2
    PROVE  Halves(Append(S, h), b) /\ Len(Append(S, h)) = Len(S) + 1
<1> DEFINE T == Append(S, h)
           l == Len(S)
<1>1. /\ l \in Nat /\ Len(T) = l + 1
      /\ \A i \in 1 .. l : T[i] = S[i]
      /\ T[l + 1] = h
  BY AppendProperties, LenProperties
<1>2. h.n \in Nat
  BY FrameFields, MonitorAssumption
<1>3. /\ \A i \in 1 .. l : i <= 2 * (S[i].n - b) /\ 2 * (S[i].n - b) <= i + 1
      /\ l + 1 <= 2 * (h.n - b) /\ 2 * (h.n - b) <= l + 2
  BY DEF Halves
<1> HIDE DEF T, l
<1>4. ASSUME NEW i \in 1 .. l + 1
      PROVE  i <= 2 * (T[i].n - b) /\ 2 * (T[i].n - b) <= i + 1
  <2>1. CASE i = l + 1
    BY <1>1, <1>2, <1>3, <2>1
  <2>2. CASE i # l + 1
    <3>1. i \in 1 .. l
      BY <1>1, <2>2
    <3> QED  BY <1>1, <1>3, <3>1
  <2> QED  BY <2>1, <2>2
<1> QED  BY <1>1, <1>4 DEF Halves, T, l

\* What was heard up to b was heard up to b + 1.
LEMMA HeardWiden ==
    ASSUME NEW M \in Seq(Seq(Frame)), NEW R \in Seq(Frame), NEW b \in Nat,
           Heard(M, R, b)
    PROVE  Heard(M, R, b + 1)
<1>1. ASSUME NEW S \in Seq(Frame), NEW i \in DOMAIN S, S[i].n <= b
      PROVE  S[i].n <= b + 1
  <2>1. S[i] \in Frame
    BY ElementOfSeq, LenProperties
  <2>2. S[i].n \in Nat
    BY <2>1, FrameFields, MonitorAssumption
  <2> QED  BY <1>1, <2>2
<1>2. \A c \in DOMAIN M : M[c] \in Seq(Frame)
  BY ElementOfSeq, LenProperties
<1>3. \A i \in DOMAIN R : R[i].n <= b + 1
  BY <1>1 DEF Heard
<1>4. \A c \in DOMAIN M : \A i \in DOMAIN M[c] : M[c][i].n <= b + 1
  BY <1>1, <1>2 DEF Heard
<1> QED  BY <1>3, <1>4 DEF Heard

\* What is known of the unfinished message Q == Append(R, f) behind the messages M.
Longer(M, R, Q, f, b) ==
    /\ Q \in Seq(Frame) /\ DOMAIN Q = 1 .. Len(R) + 1 /\ Len(R) \in Nat
    /\ Len(Q) = Len(R) + 1 /\ Q # <<>>
    /\ \A i \in 1 .. Len(R) : Q[i] = R[i] /\ Q[i].kind = "part"
    /\ Q[Len(R) + 1] = f
    /\ \A i \in DOMAIN Q : Q[i].n <= b + 1
    /\ \A i, j \in DOMAIN Q : i < j => Q[i].n < Q[j].n
    /\ \A c \in DOMAIN M : \A i \in DOMAIN M[c], j \in DOMAIN Q : M[c][i].n < Q[j].n

\* The last part of a message, or one more, is added to the unfinished one.
LEMMA HeardPart ==
    ASSUME NEW M \in Seq(Seq(Frame)), NEW R \in Seq(Frame), NEW b \in Nat,
           NEW f \in Frame, f.n = b + 1, Heard(M, R, b)
    PROVE  Longer(M, R, Append(R, f), f, b)
<1> DEFINE Q == Append(R, f)
           l == Len(R)
<1>1. /\ l \in Nat /\ Q \in Seq(Frame) /\ Len(Q) = l + 1 /\ Q # <<>>
      /\ \A i \in 1 .. l : Q[i] = R[i]
      /\ Q[l + 1] = f
  BY AppendProperties, LenProperties
<1>2. DOMAIN Q = 1 .. l + 1 /\ DOMAIN R = 1 .. l
  BY <1>1, LenProperties
<1>3. /\ \A i \in 1 .. l : R[i].n \in Nat /\ R[i].n <= b /\ R[i].kind = "part"
      /\ \A i, j \in 1 .. l : i < j => R[i].n < R[j].n
      /\ \A c \in DOMAIN M : \A i \in DOMAIN M[c], j \in 1 .. l : M[c][i].n < R[j].n
  <2>1. \A i \in 1 .. l : R[i] \in Frame
    BY ElementOfSeq
  <2>2. \A i \in 1 .. l : R[i].n \in Nat
    BY <2>1, FrameFields, MonitorAssumption
  <2> QED  BY <1>2, <2>2 DEF Heard
<1>4. \A c \in DOMAIN M : \A i \in DOMAIN M[c] : M[c][i].n \in Nat /\ M[c][i].n <= b
  <2>1. ASSUME NEW c \in DOMAIN M, NEW i \in DOMAIN M[c]
        PROVE  M[c][i].n \in Nat /\ M[c][i].n <= b
    <3> DEFINE m == M[c]
    <3>1. m \in Seq(Frame)
      BY ElementOfSeq, LenProperties
    <3>2. i \in DOMAIN m /\ m[i].n <= b
      BY DEF Heard
    <3> HIDE DEF m
    <3>3. m[i] \in Frame
      BY <3>1, <3>2, ElementOfSeq, LenProperties
    <3>4. m[i].n \in Nat
      BY <3>3, FrameFields, MonitorAssumption
    <3> QED  BY <3>2, <3>4 DEF m
  <2> QED  BY <2>1
<1> HIDE DEF Q, l
<1>5. \A i \in 1 .. l : Q[i] = R[i] /\ Q[i].kind = "part"
  BY <1>1, <1>3
<1>6. \A i \in 1 .. l + 1 : i \in 1 .. l \/ i = l + 1
  BY <1>1
<1>7. ASSUME NEW i \in 1 .. l + 1
      PROVE  Q[i].n <= b + 1
  <2>1. CASE i \in 1 .. l
    <3>1. Q[i].n \in Nat /\ Q[i].n <= b
      BY <1>1, <1>3, <2>1
    <3> QED  BY <3>1
  <2>2. CASE i = l + 1
    BY <1>1, <2>2
  <2> QED  BY <1>6, <2>1, <2>2
<1>8. \A i, j \in 1 .. l + 1 : i < j => Q[i].n < Q[j].n
  <2>1. ASSUME NEW i \in 1 .. l + 1, NEW j \in 1 .. l + 1, i < j
        PROVE  Q[i].n < Q[j].n
    <3>1. i \in 1 .. l
      BY <1>1, <2>1
    <3>2. CASE j \in 1 .. l
      BY <1>1, <1>3, <2>1, <3>1, <3>2
    <3>3. CASE j = l + 1
      BY <1>1, <1>3, <3>1, <3>3
    <3> QED  BY <1>6, <3>2, <3>3
  <2> QED  BY <2>1
<1>9. \A c \in DOMAIN M : \A i \in DOMAIN M[c], j \in 1 .. l + 1 : M[c][i].n < Q[j].n
  <2>1. ASSUME NEW c \in DOMAIN M, NEW i \in DOMAIN M[c], NEW j \in 1 .. l + 1
        PROVE  M[c][i].n < Q[j].n
    <3>1. CASE j \in 1 .. l
      BY <1>1, <1>3, <3>1
    <3>2. CASE j = l + 1
      <4>1. M[c][i].n \in Nat /\ M[c][i].n <= b
        BY <1>4
      <4>2. Q[j].n = b + 1
        BY <1>1, <3>2
      <4> QED  BY <4>1, <4>2
    <3> QED  BY <1>6, <3>1, <3>2
  <2> QED  BY <2>1
<1>10. Longer(M, R, Q, f, b)
  BY <1>1, <1>2, <1>5, <1>7, <1>8, <1>9 DEF Longer, l
<1> QED  BY <1>10 DEF Q

\* A data frame without FIN goes to the unfinished message.
LEMMA HeardNextPart ==
    ASSUME NEW M \in Seq(Seq(Frame)), NEW R \in Seq(Frame), NEW b \in Nat,
           NEW f \in Frame, f.n = b + 1, f.kind = "part", Heard(M, R, b)
    PROVE  Heard(M, Append(R, f), b + 1)
<1> DEFINE Q == Append(R, f)
<1>0. Longer(M, R, Q, f, b)
  BY HeardPart
<1> HIDE DEF Q
<1>1. /\ DOMAIN Q = 1 .. Len(R) + 1 /\ Len(R) \in Nat
      /\ \A i \in 1 .. Len(R) : Q[i].kind = "part"
      /\ Q[Len(R) + 1] = f
      /\ \A i \in DOMAIN Q : Q[i].n <= b + 1
      /\ \A i, j \in DOMAIN Q : i < j => Q[i].n < Q[j].n
      /\ \A c \in DOMAIN M : \A i \in DOMAIN M[c], j \in DOMAIN Q : M[c][i].n < Q[j].n
  BY <1>0 DEF Longer
<1>2. \A i \in DOMAIN Q : Q[i].kind = "part"
  BY <1>1
<1>3. Heard(M, R, b + 1)
  BY HeardWiden
<1>4. Heard(M, Q, b + 1)
  BY <1>1, <1>2, <1>3 DEF Heard
<1> QED  BY <1>4 DEF Q

\* A data frame with FIN completes it.
LEMMA HeardNextText ==
    ASSUME NEW M \in Seq(Seq(Frame)), NEW R \in Seq(Frame), NEW b \in Nat,
           NEW f \in Frame, f.n = b + 1, f.kind = "text", Heard(M, R, b)
    PROVE  Heard(Append(M, Append(R, f)), <<>>, b + 1)
<1> DEFINE Q == Append(R, f)
           N == Append(M, Q)
           l == Len(M)
<1>0. Longer(M, R, Q, f, b)
  BY HeardPart
<1> HIDE DEF Q
<1>1. /\ Q \in Seq(Frame) /\ DOMAIN Q = 1 .. Len(R) + 1 /\ Len(R) \in Nat
      /\ Len(Q) = Len(R) + 1 /\ Q # <<>>
      /\ \A i \in 1 .. Len(R) : Q[i].kind = "part"
      /\ Q[Len(R) + 1] = f
      /\ \A i \in DOMAIN Q : Q[i].n <= b + 1
      /\ \A i, j \in DOMAIN Q : i < j => Q[i].n < Q[j].n
      /\ \A c \in DOMAIN M : \A i \in DOMAIN M[c], j \in DOMAIN Q : M[c][i].n < Q[j].n
  BY <1>0 DEF Longer
<1>2. /\ l \in Nat /\ N \in Seq(Seq(Frame)) /\ Len(N) = l + 1
      /\ \A c \in 1 .. l : N[c] = M[c]
      /\ N[l + 1] = Q
  BY <1>1, AppendProperties, LenProperties
<1>3. DOMAIN N = 1 .. l + 1 /\ DOMAIN M = 1 .. l
  BY <1>2, LenProperties
<1>4. Heard(M, R, b + 1)
  BY HeardWiden
<1>5. DOMAIN <<>> = {}
  OBVIOUS
<1> HIDE DEF N, l
<1>6. \A c \in 1 .. l + 1 : (c \in 1 .. l /\ N[c] = M[c]) \/ (c = l + 1 /\ N[c] = Q)
  BY <1>2
<1>7. \A i \in DOMAIN Q : Q[i].kind = IF i = Len(Q) THEN "text" ELSE "part"
  BY <1>1
<1>8. \A c \in DOMAIN N : \A i \in DOMAIN N[c] : N[c][i].n <= b + 1
  BY <1>1, <1>3, <1>4, <1>6 DEF Heard
<1>9. \A c \in DOMAIN N : /\ N[c] # <<>>
                          /\ \A i \in DOMAIN N[c] :
                                N[c][i].kind = IF i = Len(N[c]) THEN "text" ELSE "part"
  <2>1. ASSUME NEW c \in 1 .. l
        PROVE  /\ N[c] # <<>>
               /\ \A i \in DOMAIN N[c] :
                     N[c][i].kind = IF i = Len(N[c]) THEN "text" ELSE "part"
    <3>1. N[c] = M[c] /\ c \in DOMAIN M
      BY <1>2, <1>3
    <3> QED  BY <1>4, <3>1 DEF Heard
  <2>2. N[l + 1] # <<>> /\ \A i \in DOMAIN N[l + 1] :
             N[l + 1][i].kind = IF i = Len(N[l + 1]) THEN "text" ELSE "part"
    BY <1>1, <1>2, <1>7
  <2> QED  BY <1>3, <1>6, <2>1, <2>2
<1>10. ASSUME NEW c \in DOMAIN N, NEW d \in DOMAIN N, NEW i \in DOMAIN N[c],
              NEW j \in DOMAIN N[d], c < d \/ (c = d /\ i < j)
       PROVE  N[c][i].n < N[d][j].n
  <2>1. CASE c \in 1 .. l /\ d \in 1 .. l
    <3>1. N[c] = M[c] /\ N[d] = M[d]
      BY <1>2, <2>1
    <3> QED  BY <1>3, <1>4, <1>10, <2>1, <3>1 DEF Heard
  <2>2. CASE c \in 1 .. l /\ d = l + 1
    <3>1. N[c] = M[c] /\ N[d] = Q
      BY <1>2, <2>2
    <3> QED  BY <1>1, <1>3, <2>2, <3>1
  <2>3. CASE c = l + 1
    <3>1. d = l + 1 /\ i < j
      BY <1>2, <1>3, <1>10, <2>3
    <3>2. N[c] = Q /\ N[d] = Q
      BY <1>2, <2>3, <3>1
    <3> QED  BY <1>1, <3>1, <3>2
  <2> QED  BY <1>3, <1>6, <2>1, <2>2, <2>3
<1>11. Heard(N, <<>>, b + 1)
  BY <1>5, <1>8, <1>9, <1>10 DEF Heard
<1> QED  BY <1>11 DEF N, Q

\* The next frame has not been heard.
LEMMA HearsNotNext ==
    ASSUME NEW M \in Seq(Seq(Frame)), NEW R \in Seq(Frame), NEW b \in Nat, Heard(M, R, b)
    PROVE  ~Hears(M, R, b + 1)
<1>1. ASSUME NEW n, n <= b PROVE n # b + 1
  BY <1>1
<1> QED  BY <1>1 DEF Heard, Hears

\* One more part is heard, and what was heard before.
LEMMA HearsPart ==
    ASSUME NEW M \in Seq(Seq(Frame)), NEW R \in Seq(Frame), NEW f \in Frame, NEW n
    PROVE  Hears(M, Append(R, f), n) <=> Hears(M, R, n) \/ f.n = n
<1> DEFINE Q == Append(R, f)
           l == Len(R)
<1>1. /\ l \in Nat /\ DOMAIN Q = 1 .. l + 1 /\ DOMAIN R = 1 .. l
      /\ \A i \in 1 .. l : Q[i] = R[i]
      /\ Q[l + 1] = f
  BY AppendProperties, LenProperties
<1> HIDE DEF Q, l
<1>2. \A i \in 1 .. l + 1 : i \in 1 .. l \/ i = l + 1
  BY <1>1
<1>3. l + 1 \in 1 .. l + 1 /\ \A i \in 1 .. l : i \in 1 .. l + 1
  BY <1>1
<1>4. (\E i \in DOMAIN Q : Q[i].n = n) <=> (\E i \in DOMAIN R : R[i].n = n) \/ f.n = n
  BY <1>1, <1>2, <1>3
<1> QED  BY <1>4 DEF Hears, Q

\* So it is when the message is completed.
LEMMA HearsText ==
    ASSUME NEW M \in Seq(Seq(Frame)), NEW R \in Seq(Frame), NEW f \in Frame, NEW n
    PROVE  Hears(Append(M, Append(R, f)), <<>>, n) <=> Hears(M, R, n) \/ f.n = n
<1> DEFINE Q == Append(R, f)
           N == Append(M, Q)
           l == Len(M)
<1>0. Hears(M, Q, n) <=> Hears(M, R, n) \/ f.n = n
  BY HearsPart
<1>1. Q \in Seq(Frame)
  BY AppendProperties
<1> HIDE DEF Q
<1>2. /\ l \in Nat /\ DOMAIN N = 1 .. l + 1 /\ DOMAIN M = 1 .. l
      /\ \A c \in 1 .. l : N[c] = M[c]
      /\ N[l + 1] = Q
  BY <1>1, AppendProperties, LenProperties
<1> HIDE DEF N, l
<1>3. \A c \in 1 .. l + 1 : c \in 1 .. l \/ c = l + 1
  BY <1>2
<1>4. l + 1 \in 1 .. l + 1 /\ \A c \in 1 .. l : c \in 1 .. l + 1
  BY <1>2
<1>5. DOMAIN <<>> = {}
  OBVIOUS
<1>6. (\E c \in DOMAIN N : \E i \in DOMAIN N[c] : N[c][i].n = n)
        <=> \/ \E c \in DOMAIN M : \E i \in DOMAIN M[c] : M[c][i].n = n
            \/ \E i \in DOMAIN Q : Q[i].n = n
  BY <1>2, <1>3, <1>4
<1>7. Hears(N, <<>>, n) <=> Hears(M, Q, n)
  BY <1>5, <1>6 DEF Hears
<1> QED  BY <1>0, <1>7 DEF N, Q

\* What was heard up to b is heard up to b + 1, with that frame if it has data.
LEMMA WholeNext ==
    ASSUME NEW M, NEW R, NEW M2, NEW R2, NEW D, NEW b \in Nat,
           Whole(M, R, D, b), ~Hears(M, R, b + 1),
           \/ b + 1 \in D /\ \A n : Hears(M2, R2, n) <=> Hears(M, R, n) \/ b + 1 = n
           \/ b + 1 \notin D /\ \A n : Hears(M2, R2, n) <=> Hears(M, R, n)
    PROVE  Whole(M2, R2, D, b + 1)
<1>1. \A n \in 1 .. b + 1 : n = b + 1 \/ (n \in 1 .. b /\ n # b + 1)
  OBVIOUS
<1>2. \A n \in 1 .. b : n \in D <=> Hears(M, R, n)
  BY DEF Whole
<1>3. ASSUME NEW n \in 1 .. b + 1
      PROVE  n \in D <=> Hears(M2, R2, n)
  <2>1. CASE n = b + 1
    BY <2>1
  <2>2. CASE n \in 1 .. b /\ n # b + 1
    BY <1>2, <2>2
  <2> QED  BY <1>1, <2>1, <2>2
<1> QED  BY <1>3 DEF Whole

\* When a round of the thread is over no whole frame is left.
LEMMA LoopNext ==
    ASSUME MonitorTypeOK, Places, Dispatched, [MonitorNext]_vars
    PROVE  at' = "loop" => ~WholeFrame'
<1>1. at = "loop" => ~WholeFrame
  BY DEF Dispatched
<1>2. CASE UNCHANGED <<at, rxbuf, isRxBad>>
  BY <1>1, <1>2 DEF WholeFrame
<1>3. CASE Push \/ Destroy \/ Join \/ UNCHANGED vars
  <2>1. UNCHANGED <<at, rxbuf, isRxBad>>
    BY <1>3 DEF Push, Destroy, Join, socketVars, vars
  <2> QED  BY <1>2, <2>1
<1>4. CASE Answer \/ SendRest \/ Hangup \/ \E kind \in FrameKind : SendHead(kind)
  <2>1. MonitorDoes
    BY <1>4 DEF Answer, SendRest, Hangup, SendHead
  <2> QED  BY <1>2, <2>1 DEF MonitorDoes, socketVars
<1>5. CASE ReadHeaders \/ DispatchDone
  <2>1. UNCHANGED <<rxbuf, isRxBad>>
    BY <1>5 DEF ReadHeaders, DispatchDone, ThreadGoes
  <2>2. rxbuf = <<>> \/ ~WholeFrame
    BY <1>5 DEF ReadHeaders, DispatchDone, Places
  <2>3. rxbuf = <<>> => ~WholeFrame
    BY DEF WholeFrame
  <2> QED  BY <2>1, <2>2, <2>3 DEF WholeFrame
<1>6. CASE Connect \/ ReadStatus \/ ReadReset \/ Loop \/ PollRecv \/ PollSend
           \/ RefuseFrame \/ DispatchFrame
  <2>1. at' # "loop"
    BY <1>6 DEF Connect, ReadStatus, ReadReset, ThreadGoes, Loop, PollRecv, PollSend, PollReturns,
                RefuseFrame, DispatchFrame
  <2> QED  BY <2>1
<1> QED  BY <1>3, <1>4, <1>5, <1>6 DEF MonitorNext, Thread

\* The stream and what was heard are the same; the monitor may have closed.
SameStream ==
    /\ Stream' = Stream
    /\ UNCHANGED <<m_Incoming, receivedData, told, data, half>>
    /\ monitor' = "up" => monitor = "up"

\* The monitor sends a half of a frame, the first or the second.
HalfSent ==
    /\ monitor = "up" /\ UNCHANGED <<monitor, m_Incoming, receivedData>>
    /\ \/ /\ half = None /\ told' = told + 1
          /\ half' \in Frame /\ half'.n = told + 1
          /\ data' = IF half'.kind \in DataKind THEN data \cup {told + 1} ELSE data
          /\ Stream' = Append(Stream, half')
       \/ /\ half \in Frame /\ half # None /\ half' = None
          /\ UNCHANGED <<told, data>>
          /\ Stream' = Append(Stream, half)

\* The connection is reset, and what is not received is lost.
StreamCut ==
    /\ Stream' = rxbuf /\ monitor' = "reset"
    /\ UNCHANGED <<told, data, half, m_Incoming, receivedData>>

\* A frame leaves the stream and is collected if it is a data frame.
FrameTaken ==
    /\ Len(Stream) >= 2 /\ Len(Stream') = Len(Stream) - 2
    /\ \A i \in 1 .. Len(Stream) - 2 : Stream'[i] = Stream[2 + i]
    /\ UNCHANGED <<told, data, half, monitor>>
    /\ \/ Stream[1].kind \in DataKind /\ Collect(Stream[1])
       \/ Stream[1].kind \notin DataKind /\ UNCHANGED <<m_Incoming, receivedData>>

\* What a step does to the stream and to what was heard.
LEMMA StreamStep ==
    ASSUME MonitorTypeOK, [MonitorNext]_vars
    PROVE  SameStream \/ HalfSent \/ StreamCut \/ FrameTaken
<1>1. CASE UNCHANGED <<rxbuf, m_Incoming, receivedData, wire, told, data, half, monitor>>
  BY <1>1 DEF SameStream, Stream
<1>2. CASE Push \/ Destroy \/ Join \/ UNCHANGED vars
  <2>1. UNCHANGED <<rxbuf, m_Incoming, receivedData, wire, told, data, half, monitor>>
    BY <1>2 DEF Push, Destroy, Join, vars, socketVars, monitorVars
  <2> QED  BY <1>1, <2>1
<1>3. CASE Connect \/ ReadStatus \/ ReadHeaders \/ ReadReset \/ DispatchDone
  <2>1. UNCHANGED <<rxbuf, m_Incoming, receivedData, wire, told, data, half, monitor>>
    BY <1>3 DEF Connect, ReadStatus, ReadHeaders, ReadReset, DispatchDone, ThreadGoes, monitorVars
  <2> QED  BY <1>1, <2>1
<1>4. CASE Loop \/ RefuseFrame \/ PollSend
  <2>1. UNCHANGED <<rxbuf, m_Incoming, receivedData, wire, told, data, half, monitor>>
    BY <1>4 DEF Loop, RefuseFrame, PollSend, monitorVars
  <2> QED  BY <1>1, <2>1
<1>5. CASE PollRecv
  <2>1. UNCHANGED <<m_Incoming, receivedData, monitor, told, data, half>>
    BY <1>5 DEF PollRecv
  <2>2. CASE UNCHANGED <<rxbuf, wire>>
    BY <1>1, <2>1, <2>2
  <2>3. CASE rxbuf' = rxbuf \o wire /\ wire' = <<>>
    <3>1. (rxbuf \o wire) \o <<>> = rxbuf \o wire
      <4>1. rxbuf \o wire \in Seq(Frame)
        BY ConcatProperties DEF MonitorTypeOK
      <4> QED  BY <4>1, ConcatEmptySeq
    <3> QED  BY <2>1, <2>3, <3>1 DEF SameStream, Stream
  <2> QED  BY <1>5, <2>2, <2>3 DEF PollRecv
<1>6. CASE DispatchFrame
  <2> DEFINE S == Stream
             T == Stream'
             l == Len(rxbuf)
             d == SubSeq(rxbuf, 3, l)
  <2>1. UNCHANGED <<wire, told, data, half, monitor>> /\ rxbuf' = d /\ l >= 2
    BY <1>6 DEF DispatchFrame, monitorVars, WholeFrame
  <2>2. rxbuf \in Seq(Frame) /\ wire \in Seq(Frame) /\ l \in Nat /\ Len(wire) \in Nat
    BY LenProperties DEF MonitorTypeOK
  <2>3. d \in Seq(Frame) /\ Len(d) = l - 2 /\ \A i \in 1 .. l - 2 : d[i] = rxbuf[2 + i]
    <3>1. 2 \in 0 .. Len(rxbuf) /\ 2 + 1 = 3
      BY <2>1, <2>2
    <3>2. /\ SubSeq(rxbuf, 2 + 1, Len(rxbuf)) \in Seq(Frame)
          /\ Len(SubSeq(rxbuf, 2 + 1, Len(rxbuf))) = Len(rxbuf) - 2
          /\ \A i \in 1 .. Len(rxbuf) - 2 : SubSeq(rxbuf, 2 + 1, Len(rxbuf))[i] = rxbuf[2 + i]
      BY <2>2, <3>1, Rest
    <3> QED  BY <3>1, <3>2
  <2>4. /\ Len(S) = l + Len(wire)
        /\ \A i \in 1 .. l + Len(wire) : S[i] = IF i <= l THEN rxbuf[i] ELSE wire[i - l]
    BY <2>2, ConcatProperties DEF Stream
  <2>5. T = d \o wire
    BY <2>1 DEF Stream
  <2> HIDE DEF d
  <2>6. /\ Len(T) = (l - 2) + Len(wire)
        /\ \A i \in 1 .. (l - 2) + Len(wire) : T[i] = IF i <= l - 2 THEN d[i] ELSE wire[i - (l - 2)]
    <3>1. /\ Len(d \o wire) = Len(d) + Len(wire)
          /\ \A i \in 1 .. Len(d) + Len(wire) :
                (d \o wire)[i] = IF i <= Len(d) THEN d[i] ELSE wire[i - Len(d)]
      BY <2>2, <2>3, ConcatProperties
    <3> HIDE DEF T, l
    <3> QED  BY <2>3, <2>5, <3>1
  <2>7. Head(rxbuf) = S[1]
    <3>1. Head(rxbuf) = rxbuf[1]
      OBVIOUS
    <3> HIDE DEF S, l
    <3> QED  BY <2>1, <2>2, <2>4, <3>1
  <2> HIDE DEF S, T, l
  <2>8. \A i \in 1 .. Len(S) - 2 : T[i] = S[2 + i]
    <3>1. ASSUME NEW i \in 1 .. Len(S) - 2
          PROVE  T[i] = S[2 + i]
      <4>1. /\ 2 + i \in 1 .. l + Len(wire) /\ i \in 1 .. (l - 2) + Len(wire) /\ i \in Nat
            /\ (2 + i <= l <=> i <= l - 2) /\ (2 + i) - l = i - (l - 2)
        BY <2>1, <2>2, <2>4
      <4>2. CASE i <= l - 2
        BY <2>3, <2>4, <2>6, <4>1, <4>2
      <4>3. CASE ~(i <= l - 2)
        BY <2>4, <2>6, <4>1, <4>3
      <4> QED  BY <4>2, <4>3
    <3> QED  BY <3>1
  <2>9. Len(S) >= 2 /\ Len(T) = Len(S) - 2
    BY <2>1, <2>2, <2>4, <2>6
  <2>10. \/ S[1].kind \in DataKind /\ Collect(S[1])
         \/ S[1].kind \notin DataKind /\ UNCHANGED <<m_Incoming, receivedData>>
    BY <1>6, <2>7 DEF DispatchFrame, DataKind
  <2> QED  BY <2>1, <2>8, <2>9, <2>10 DEF FrameTaken, S, T
<1>7. CASE Answer
  <2>1. UNCHANGED <<rxbuf, m_Incoming, receivedData, wire, told, data, half, monitor>>
    BY <1>7 DEF Answer, MonitorDoes, socketVars
  <2> QED  BY <1>1, <2>1
<1>8. CASE Hangup
  <2>1. UNCHANGED <<rxbuf, m_Incoming, receivedData, told, data, half>>
    BY <1>8 DEF Hangup, MonitorDoes, socketVars
  <2>2. CASE monitor' = "fin" /\ UNCHANGED wire
    BY <2>1, <2>2 DEF SameStream, Stream
  <2>3. CASE monitor' = "reset" /\ wire' = <<>>
    <3>1. rxbuf \o <<>> = rxbuf
      BY ConcatEmptySeq DEF MonitorTypeOK
    <3> QED  BY <2>1, <2>3, <3>1 DEF StreamCut, Stream
  <2> QED  BY <1>8, <2>2, <2>3 DEF Hangup
<1>9. CASE SendRest
  <2>1. /\ UNCHANGED <<rxbuf, m_Incoming, receivedData, told, data, monitor>>
        /\ half' = None /\ half # None /\ monitor = "up" /\ wire' = Append(wire, half)
    BY <1>9 DEF SendRest, MonitorDoes, socketVars
  <2>2. half \in Frame
    BY <2>1 DEF MonitorTypeOK
  <2>3. Stream' = Append(Stream, half)
    <3>1. rxbuf \in Seq(Frame) /\ wire \in Seq(Frame)
      BY DEF MonitorTypeOK
    <3>2. rxbuf \o Append(wire, half) = Append(rxbuf \o wire, half)
      BY <2>2, <3>1, AppendRight
    <3> QED  BY <2>1, <3>2 DEF Stream
  <2> QED  BY <2>1, <2>2, <2>3 DEF HalfSent
<1>10. ASSUME NEW kind \in FrameKind, SendHead(kind)
       PROVE  HalfSent
  <2> DEFINE h == [kind |-> kind, n |-> told + 1]
  <2>1. /\ UNCHANGED <<rxbuf, m_Incoming, receivedData, monitor>>
        /\ half = None /\ monitor = "up" /\ wire' = Append(wire, h) /\ half' = h
        /\ told' = told + 1 /\ told + 1 \in 1 .. MaxFrames
        /\ data' = IF h.kind \in DataKind THEN data \cup {told + 1} ELSE data
    BY <1>10, MonitorAssumption DEF SendHead, MonitorDoes, socketVars, MonitorTypeOK, DataKind
  <2>2. h \in Frame /\ h.n = told + 1
    BY <2>1 DEF Frame
  <2> HIDE DEF h
  <2>3. Stream' = Append(Stream, h)
    <3>1. rxbuf \in Seq(Frame) /\ wire \in Seq(Frame)
      BY DEF MonitorTypeOK
    <3>2. rxbuf \o Append(wire, h) = Append(rxbuf \o wire, h)
      BY <2>2, <3>1, AppendRight
    <3> QED  BY <2>1, <3>2 DEF Stream
  <2> QED  BY <2>1, <2>2, <2>3 DEF HalfSent
<1> QED  BY <1>2, <1>3, <1>4, <1>5, <1>6, <1>7, <1>8, <1>9, <1>10 DEF MonitorNext, Thread

\* No frame in the stream is newer than the last the monitor has begun to send.
LEMMA HalvesBelow ==
    ASSUME NEW S \in Seq(Frame), NEW b \in Nat, NEW t \in Nat,
           Halves(S, b), Len(S) <= 2 * (t - b)
    PROVE  \A i \in 1 .. Len(S) : S[i].n # t + 1
<1>1. ASSUME NEW i \in 1 .. Len(S) PROVE S[i].n # t + 1
  <2>1. S[i].n \in Nat /\ 2 * (S[i].n - b) <= i + 1
    BY ElementOfSeq, FrameFields, MonitorAssumption DEF Halves
  <2>2. Len(S) \in Nat /\ i <= Len(S)
    BY LenProperties
  <2> QED  BY <2>1, <2>2
<1> QED  BY <1>1

\* Every step keeps data the numbers of the data frames.
LEMMA MarkedNext ==
    ASSUME MonitorTypeOK, Dispatched, [MonitorNext]_vars
    PROVE  /\ Marked(Stream)'
           /\ half' # None => (half'.kind \in DataKind <=> half'.n \in data')
<1> DEFINE l == Len(Stream)
<1>0. /\ Stream \in Seq(Frame) /\ rxbuf \in Seq(Frame) /\ l \in Nat /\ told \in Nat
  BY ConcatProperties, LenProperties, MonitorAssumption DEF MonitorTypeOK, Stream
<1>1. /\ \A i \in 1 .. l : Stream[i].kind \in DataKind <=> Stream[i].n \in data
      /\ half # None => (half.kind \in DataKind <=> half.n \in data)
  BY DEF Dispatched, Marked
<1>2. CASE SameStream
  BY <1>1, <1>2 DEF SameStream, Marked
<1>3. CASE HalfSent
  <2>1. ASSUME NEW h \in Frame, Stream' = Append(Stream, h),
               \A i \in 1 .. l : Stream[i].n \in data' <=> Stream[i].n \in data,
               h.kind \in DataKind <=> h.n \in data'
        PROVE  Marked(Stream)'
    <3>1. /\ Len(Stream') = l + 1 /\ Stream'[l + 1] = h
          /\ \A i \in 1 .. l : Stream'[i] = Stream[i]
      BY <1>0, <2>1, AppendProperties
    <3>2. \A i \in 1 .. l + 1 : i \in 1 .. l \/ i = l + 1
      BY <1>0
    <3> HIDE DEF l
    <3>3. \A i \in 1 .. l + 1 : Stream'[i].kind \in DataKind <=> Stream'[i].n \in data'
      BY <1>1, <2>1, <3>1, <3>2
    <3> QED  BY <3>1, <3>3 DEF Marked
  <2>2. CASE /\ half' \in Frame /\ half'.n = told + 1
             /\ data' = IF half'.kind \in DataKind THEN data \cup {told + 1} ELSE data
             /\ Stream' = Append(Stream, half')
    <3> DEFINE h == half'
    <3>1. told + 1 \notin data
      <4>1. \A n \in 1 .. told : n # told + 1
        BY <1>0
      <4> QED  BY <4>1 DEF MonitorTypeOK
    <3>2. \A i \in 1 .. l : Stream[i].n # told + 1
      <4>1. PICK b \in 0 .. told : Flowing(b)
        BY DEF Dispatched
      <4> QED  BY <1>0, <4>1, HalvesBelow DEF Flowing
    <3>3. /\ h \in Frame /\ Stream' = Append(Stream, h) /\ h.n = told + 1
          /\ data' = IF h.kind \in DataKind THEN data \cup {told + 1} ELSE data
      BY <2>2
    <3> HIDE DEF h, l
    <3>4. h.kind \in DataKind <=> h.n \in data'
      BY <3>1, <3>3
    <3>5. \A i \in 1 .. l : Stream[i].n \in data' <=> Stream[i].n \in data
      BY <3>2, <3>3
    <3>6. Marked(Stream)'
      BY <2>1, <3>3, <3>4, <3>5
    <3> QED  BY <3>4, <3>6 DEF h
  <2>3. CASE /\ half \in Frame /\ half # None /\ half' = None
             /\ UNCHANGED <<told, data>>
             /\ Stream' = Append(Stream, half)
    BY <1>1, <2>1, <2>3
  <2> QED  BY <1>3, <2>2, <2>3 DEF HalfSent
<1>4. CASE StreamCut
  <2>1. \A i \in 1 .. Len(rxbuf) : i \in 1 .. l /\ Stream[i] = rxbuf[i]
    <3> DEFINE r == Len(rxbuf)
               w == Len(wire)
    <3>1. wire \in Seq(Frame) /\ r \in Nat /\ w \in Nat
      BY <1>0, LenProperties DEF MonitorTypeOK
    <3>2. l = r + w /\ \A i \in 1 .. r + w : i <= r => Stream[i] = rxbuf[i]
      BY <1>0, <3>1, ConcatProperties DEF Stream
    <3> HIDE DEF l, r, w
    <3>3. \A i \in 1 .. r : i \in 1 .. l /\ Stream[i] = rxbuf[i]
      BY <3>1, <3>2
    <3> QED  BY <3>3 DEF r
  <2> QED  BY <1>1, <1>4, <2>1 DEF StreamCut, Marked
<1>5. CASE FrameTaken
  <2>1. /\ l >= 2 /\ Len(Stream') = l - 2
        /\ \A i \in 1 .. l - 2 : Stream'[i] = Stream[2 + i]
        /\ UNCHANGED <<data, half>>
    BY <1>5 DEF FrameTaken
  <2> HIDE DEF l
  <2>2. \A i \in 1 .. l - 2 : 2 + i \in 1 .. l
    BY <1>0, <2>1
  <2>3. \A i \in 1 .. l - 2 : Stream'[i].kind \in DataKind <=> Stream'[i].n \in data'
    BY <1>1, <2>1, <2>2
  <2> QED  BY <1>1, <2>1, <2>3 DEF Marked
<1> QED  BY <1>2, <1>3, <1>4, <1>5, StreamStep

\* Every step keeps the order of what is heard.
LEMMA DispatchedNext ==
    ASSUME MonitorTypeOK, MonitorTypeOK', Places, Dispatched, [MonitorNext]_vars
    PROVE  Dispatched'
<1> DEFINE l == Len(Stream)
<1>1. PICK b \in 0 .. told : /\ Flowing(b) /\ Heard(m_Incoming, receivedData, b)
                             /\ Whole(m_Incoming, receivedData, data, b)
  BY DEF Dispatched
<1>0. Marked(Stream) /\ (half # None => (half.kind \in DataKind <=> half.n \in data))
  BY DEF Dispatched
<1>2. /\ Stream \in Seq(Frame) /\ Stream' \in Seq(Frame) /\ l \in Nat
      /\ told \in Nat /\ b \in Nat /\ b <= told
      /\ m_Incoming \in Seq(Seq(Frame)) /\ receivedData \in Seq(Frame)
  BY ConcatProperties, LenProperties, MonitorAssumption DEF MonitorTypeOK, Stream
<1>3. /\ Halves(Stream, b) /\ l <= 2 * (told - b)
      /\ monitor = "up" => l = 2 * (told - b) - (IF half = None THEN 0 ELSE 1)
      /\ half # None => half.n = told
  BY <1>1 DEF Flowing
<1> DEFINE Goes(c) == /\ Flowing(c)' /\ Heard(m_Incoming', receivedData', c)
                       /\ Whole(m_Incoming', receivedData', data', c)
<1>4. SUFFICES \E c \in 0 .. told' : Goes(c)
  BY <1>1, LoopNext, MarkedNext DEF Dispatched, Flowing, Heard, Halves, Whole, Hears
<1>5. CASE SameStream
  <2>1. Flowing(b)'
    BY <1>3, <1>5 DEF SameStream, Flowing
  <2>2. Goes(b)
    BY <1>1, <1>5, <2>1 DEF SameStream
  <2> QED  BY <1>2, <1>5, <2>2 DEF SameStream
<1>6. CASE HalfSent
  <2>1. monitor = "up" /\ UNCHANGED <<monitor, m_Incoming, receivedData>>
    BY <1>6 DEF HalfSent
  <2>2. CASE /\ half = None /\ told' = told + 1
             /\ half' \in Frame /\ half'.n = told + 1
             /\ data' = IF half'.kind \in DataKind THEN data \cup {told + 1} ELSE data
             /\ Stream' = Append(Stream, half')
    <3> DEFINE h == half'
    <3>1. l = 2 * (told - b) /\ h.n = told + 1 /\ h \in Frame /\ h # None
      <4>1. h \in Frame /\ h.n = told + 1
        BY <2>2
      <4>2. h # None
        BY <4>1, NoneIsNoFrame
      <4> HIDE DEF h, l
      <4>3. l = 2 * (told - b) - 0
        BY <1>3, <2>1, <2>2
      <4> QED  BY <1>2, <4>1, <4>2, <4>3
    <3>2. Stream' = Append(Stream, h) /\ told' = told + 1
      BY <2>2
    <3> HIDE DEF h, l
    <3>3. l + 1 <= 2 * (h.n - b) /\ 2 * (h.n - b) <= l + 2
      BY <1>2, <3>1
    <3>4. Halves(Stream', b) /\ Len(Stream') = l + 1
      BY <1>2, <1>3, <3>1, <3>2, <3>3, HalvesAppend DEF l
    <3>5. Len(Stream') = 2 * (told' - b) - 1 /\ Len(Stream') <= 2 * (told' - b)
      BY <1>2, <3>1, <3>2, <3>4
    <3>6. Flowing(b)'
      BY <3>1, <3>2, <3>4, <3>5 DEF Flowing, h
    <3>7. b \in 0 .. told'
      BY <1>2, <3>2
    <3>8. Whole(m_Incoming', receivedData', data', b)
      <4>1. \A n \in 1 .. b : n # told + 1
        BY <1>2
      <4>2. \A n \in 1 .. b : n \in data' <=> n \in data
        BY <2>2, <4>1
      <4> QED  BY <1>1, <2>1, <4>2 DEF Whole
    <3> QED  BY <1>1, <2>1, <3>6, <3>7, <3>8
  <2>3. CASE /\ half \in Frame /\ half # None /\ half' = None
             /\ UNCHANGED <<told, data>>
             /\ Stream' = Append(Stream, half)
    <3>1. l = 2 * (told - b) - 1 /\ half.n = told
      BY <1>3, <2>1, <2>3
    <3> HIDE DEF l
    <3>2. l + 1 <= 2 * (half.n - b) /\ 2 * (half.n - b) <= l + 2
      BY <1>2, <3>1
    <3>3. Halves(Stream', b) /\ Len(Stream') = l + 1
      BY <1>2, <1>3, <2>3, <3>2, HalvesAppend DEF l
    <3>4. Len(Stream') = 2 * (told' - b) /\ Len(Stream') <= 2 * (told' - b)
      BY <1>2, <2>3, <3>1, <3>3
    <3>5. 2 * (told' - b) - 0 = 2 * (told' - b)
      BY <1>2, <2>3
    <3>6. Flowing(b)'
      BY <2>3, <3>3, <3>4, <3>5 DEF Flowing
    <3> QED  BY <1>1, <2>1, <2>3, <3>6
  <2> QED  BY <1>6, <2>2, <2>3 DEF HalfSent
<1>7. CASE StreamCut
  <2> DEFINE r == Len(rxbuf)
  <2>1. /\ rxbuf \in Seq(Frame) /\ wire \in Seq(Frame)
        /\ r \in Nat /\ Len(wire) \in Nat
    BY LenProperties DEF MonitorTypeOK
  <2>2. l = r + Len(wire) /\ \A i \in 1 .. r + Len(wire) : i <= r => Stream[i] = rxbuf[i]
    BY <2>1, ConcatProperties DEF Stream
  <2>3. \A i \in 1 .. r : i \in 1 .. l /\ rxbuf[i] = Stream[i]
    <3> HIDE DEF l, r
    <3> QED  BY <2>1, <2>2
  <2>4. Halves(rxbuf, b)
    BY <1>3, <2>3 DEF Halves
  <2>5. r <= 2 * (told - b)
    <3> HIDE DEF l, r
    <3> QED  BY <1>2, <1>3, <2>1, <2>2
  <2>6. Flowing(b)'
    BY <1>3, <1>7, <2>4, <2>5 DEF StreamCut, Flowing
  <2> QED  BY <1>1, <1>7, <2>6 DEF StreamCut
<1>8. CASE FrameTaken
  <2> DEFINE f == Stream[1]
             c == b + 1
  <2>1. /\ l >= 2 /\ Len(Stream') = l - 2
        /\ \A i \in 1 .. l - 2 : Stream'[i] = Stream[2 + i]
        /\ UNCHANGED <<told, data, half, monitor>>
        /\ \/ f.kind \in DataKind /\ Collect(f)
           \/ f.kind \notin DataKind /\ UNCHANGED <<m_Incoming, receivedData>>
    BY <1>8 DEF FrameTaken
  <2>2. f.n = b + 1 /\ Halves(Stream', b + 1) /\ b + 1 \in 0 .. told
    <3>1. ASSUME NEW S \in Seq(Frame), NEW T \in Seq(Frame), S = Stream, T = Stream'
          PROVE  S[1].n = b + 1 /\ Halves(T, b + 1) /\ b + 1 \in 0 .. told
      <4>1. /\ Halves(S, b) /\ Len(S) >= 2 /\ Len(T) = Len(S) - 2
            /\ \A i \in 1 .. Len(S) - 2 : T[i] = S[2 + i]
            /\ Len(S) <= 2 * (told - b)
        BY <1>3, <2>1, <3>1
      <4> QED  BY <1>2, <4>1, HalvesDrop
    <3> QED  BY <1>2, <3>1
  <2>3. f \in Frame
    <3>1. 1 \in 1 .. Len(Stream)
      <4> HIDE DEF l
      <4>1. 1 \in 1 .. l
        BY <1>2, <2>1
      <4> QED  BY <4>1 DEF l
    <3> QED  BY <1>2, <3>1, ElementOfSeq
  <2>8. f.kind \in DataKind <=> f.n \in data
    <3>1. 1 \in 1 .. Len(Stream)
      <4> HIDE DEF l, f
      <4>1. 1 \in 1 .. l
        BY <1>2, <2>1
      <4> QED  BY <4>1 DEF l
    <3> QED  BY <1>0, <3>1 DEF Marked
  <2> HIDE DEF f, l
  <2>4. /\ Len(Stream') <= 2 * (told - c)
        /\ monitor = "up" => Len(Stream') = 2 * (told - c) - (IF half = None THEN 0 ELSE 1)
    BY <1>2, <1>3, <2>1
  <2> HIDE DEF c
  <2>5. Halves(Stream', c) /\ c \in 0 .. told'
    BY <2>1, <2>2 DEF c
  <2>6. Flowing(c)'
    BY <1>3, <2>1, <2>4, <2>5 DEF Flowing
  <2>7. Heard(m_Incoming', receivedData', c)
    <3>1. CASE UNCHANGED <<m_Incoming, receivedData>>
      BY <1>1, <1>2, <3>1, HeardWiden DEF c
    <3>2. CASE f.kind = "text" /\ Collect(f)
      <4>1. m_Incoming' = Append(m_Incoming, Append(receivedData, f)) /\ receivedData' = <<>>
        BY <3>2 DEF Collect
      <4> QED  BY <1>1, <1>2, <2>2, <2>3, <3>2, <4>1, HeardNextText DEF c
    <3>3. CASE f.kind = "part" /\ Collect(f)
      <4>1. UNCHANGED m_Incoming /\ receivedData' = Append(receivedData, f)
        BY <3>3 DEF Collect
      <4> QED  BY <1>1, <1>2, <2>2, <2>3, <3>3, <4>1, HeardNextPart DEF c
    <3> QED  BY <2>1, <3>1, <3>2, <3>3 DEF DataKind
  <2>9. Whole(m_Incoming', receivedData', data', c)
    <3>1. ~Hears(m_Incoming, receivedData, b + 1)
      BY <1>1, <1>2, HearsNotNext
    <3>2. b + 1 \in data <=> f.kind \in DataKind
      BY <2>2, <2>8
    <3>3. CASE f.kind \notin DataKind /\ UNCHANGED <<m_Incoming, receivedData>>
      <4>1. Whole(m_Incoming, receivedData, data, b + 1)
        BY <1>1, <1>2, <3>1, <3>2, <3>3, WholeNext
      <4> QED  BY <2>1, <3>3, <4>1 DEF c
    <3>4. CASE f.kind = "text" /\ Collect(f)
      <4>1. m_Incoming' = Append(m_Incoming, Append(receivedData, f)) /\ receivedData' = <<>>
        BY <3>4 DEF Collect
      <4>2. \A n : Hears(m_Incoming', receivedData', n)
                     <=> Hears(m_Incoming, receivedData, n) \/ b + 1 = n
        BY <1>2, <2>2, <2>3, <4>1, HearsText
      <4>3. b + 1 \in data
        BY <3>2, <3>4 DEF DataKind
      <4>4. Whole(m_Incoming', receivedData', data, b + 1)
        BY <1>1, <1>2, <3>1, <4>2, <4>3, WholeNext
      <4> QED  BY <2>1, <4>4 DEF c
    <3>5. CASE f.kind = "part" /\ Collect(f)
      <4>1. UNCHANGED m_Incoming /\ receivedData' = Append(receivedData, f)
        BY <3>5 DEF Collect
      <4>2. \A n : Hears(m_Incoming', receivedData', n)
                     <=> Hears(m_Incoming, receivedData, n) \/ b + 1 = n
        BY <1>2, <2>2, <2>3, <4>1, HearsPart
      <4>3. b + 1 \in data
        BY <3>2, <3>5 DEF DataKind
      <4>4. Whole(m_Incoming', receivedData', data, b + 1)
        BY <1>1, <1>2, <3>1, <4>2, <4>3, WholeNext
      <4> QED  BY <2>1, <4>4 DEF c
    <3> QED  BY <2>1, <3>3, <3>4, <3>5 DEF DataKind
  <2>10. Goes(c)
    BY <2>6, <2>7, <2>9
  <2> QED  BY <2>5, <2>10
<1> QED  BY <1>5, <1>6, <1>7, <1>8, StreamStep

-----------------------------------------------------------------------------
(* The invariant *)

\* The invariant holds at the start.
LEMMA InvInit == MonitorInit => MonitorInv
<1> SUFFICES ASSUME MonitorInit PROVE MonitorInv
  OBVIOUS
<1> USE MonitorAssumption
<1>1. /\ m_Outgoing = <<>> /\ m_Incoming = <<>> /\ delivered = <<>> /\ txbuf = <<>>
      /\ rxbuf = <<>> /\ wire = <<>> /\ receivedData = <<>>
      /\ told = 0 /\ data = {} /\ pushed = 0 /\ half = None /\ closed = 0
      /\ at = "connect" /\ readyState = "CONNECTING" /\ leaving = FALSE
  BY DEF MonitorInit
<1>2. /\ <<>> \in Seq(1 .. MaxPushed) /\ <<>> \in Seq(Seq(Frame))
      /\ <<>> \in Seq(OutFrame) /\ <<>> \in Seq(Frame)
  OBVIOUS
<1>3. MonitorTypeOK
  <2>1. /\ m_Outgoing \in Seq(1 .. MaxPushed) /\ m_Incoming \in Seq(Seq(Frame))
        /\ txbuf \in Seq(OutFrame) /\ delivered \in Seq(OutFrame)
        /\ rxbuf \in Seq(Frame) /\ wire \in Seq(Frame) /\ receivedData \in Seq(Frame)
    BY <1>1, <1>2
  <2>2. /\ pushed \in 0 .. MaxPushed /\ told \in 0 .. MaxFrames /\ data \subseteq 1 .. told /\ closed \in 0 .. 2
        /\ half \in Frame \cup {None}
    BY <1>1
  <2>3. /\ m_Running \in BOOLEAN /\ leaving \in BOOLEAN /\ isRxBad \in BOOLEAN
        /\ node \in {"lives", "joining", "gone"}
        /\ at \in {"connect", "status", "headers", "loop", "recv", "send", "dispatch", "ended"}
        /\ readyState \in {"CONNECTING", "OPEN", "CLOSING", "CLOSED"}
        /\ monitor \in {"absent", "up", "fin", "reset"}
        /\ answer \in {"nothing", "status", "headers", "lost"}
    BY DEF MonitorInit
  <2> QED  BY <2>1, <2>2, <2>3 DEF MonitorTypeOK
<1>4. Places /\ Handle
  BY <1>1 DEF Places, Handle
<1>5. /\ <<>> \o <<>> = <<>> /\ Len(<<>>) = 0
      /\ DOMAIN <<>> = {} /\ 1 .. 0 = {}
  OBVIOUS
<1>6. Frames = <<>> /\ Stream = <<>>
  BY <1>1, <1>5 DEF Frames, Stream
<1>7. Texts(<<>>) = {}
  BY <1>5 DEF Texts
<1>8. Sent(<<>>, 0)
  BY <1>5, <1>7 DEF Sent
<1>9. Reported
  <2>1. NoClose(<<>>) /\ Queued(<<>>, 0)
    BY <1>5 DEF NoClose, Queued
  <2>2. 0 \in 0 .. pushed - Len(m_Outgoing) /\ ~(0 < pushed - Len(m_Outgoing))
    BY <1>1, <1>5
  <2> QED  BY <1>1, <1>6, <1>8, <2>1, <2>2 DEF Reported
<1>10. Dispatched
  <2>1. Halves(<<>>, 0)
    BY <1>5 DEF Halves
  <2>2. Flowing(0)
    BY <1>1, <1>5, <1>6, <2>1 DEF Flowing
  <2>3. Heard(<<>>, <<>>, 0)
    BY <1>5 DEF Heard
  <2>4. Whole(<<>>, <<>>, {}, 0) /\ Marked(<<>>)
    BY <1>5 DEF Whole, Marked
  <2> QED  BY <1>1, <1>6, <2>2, <2>3, <2>4 DEF Dispatched
<1> QED  BY <1>3, <1>4, <1>9, <1>10 DEF MonitorInv

\* The invariant holds always.
LEMMA InvAlways == MonitorSpec => []MonitorInv
<1>1. MonitorInv /\ [MonitorNext]_vars => MonitorInv'
  BY TypeNext, PlacesNext, HandleNext, ReportedNext, DispatchedNext DEF MonitorInv
<1> QED  BY InvInit, <1>1, PTL DEF MonitorSpec

\* Every variable keeps its type (Monitor.MonitorTypeOK).
THEOREM MonitorTypeCorrect == MonitorSpec => []MonitorTypeOK
<1>1. MonitorInv => MonitorTypeOK
  BY DEF MonitorInv
<1> QED  BY InvAlways, <1>1, PTL

\* What the node tells the monitor is sent in order and once, and nothing is
\* left out while the socket is open; a farewell is the last frame.
THEOREM AlwaysReportedInOrder == MonitorSpec => []ReportedInOrder
<1>1. ASSUME MonitorInv
      PROVE  ReportedInOrder
  <2> DEFINE F == delivered \o txbuf
             popped == pushed - Len(m_Outgoing)
  <2>1. MonitorTypeOK /\ Reported
    BY <1>1 DEF MonitorInv
  <2>2. /\ F = Frames /\ Len(m_Outgoing) \in Nat /\ pushed \in Nat
        /\ DOMAIN m_Outgoing = 1 .. Len(m_Outgoing)
    BY <2>1, MonitorAssumption, LenProperties DEF MonitorTypeOK, Frames
  <2>3. PICK k \in 0 .. popped : Sent(F, k) /\ (k < popped => Closing)
    BY <2>1, <2>2 DEF Reported
  <2>4. \A i \in DOMAIN m_Outgoing : m_Outgoing[i] = popped + i
    BY <2>1, <2>2 DEF Reported, Queued
  <2> HIDE DEF F, popped
  <2>5. /\ {F[i].n : i \in {j \in DOMAIN F : F[j].kind = "text"}} = 1 .. k
        /\ \A i, j \in {h \in DOMAIN F : F[h].kind = "text"} : i < j => F[i].n < F[j].n
        /\ \A i \in DOMAIN F : F[i].kind = "close" => i = Len(F)
    BY <2>3 DEF Sent, Texts
  <2>6. k < popped => readyState \in {"CLOSING", "CLOSED"}
    BY <2>3 DEF Closing
  <2> QED  BY <2>4, <2>5, <2>6 DEF ReportedInOrder, F, popped
<1> QED  BY InvAlways, <1>1, PTL

\* What the node hears is heard in order and once, in the messages that the
\* monitor made of it, and no frame stays undispatched when a round is over.
THEOREM AlwaysHeardInOrder == MonitorSpec => []HeardInOrder
<1>1. ASSUME MonitorInv
      PROVE  HeardInOrder
  <2> DEFINE H == Append(m_Incoming, receivedData)
             l == Len(m_Incoming)
  <2>1. MonitorTypeOK /\ Dispatched
    BY <1>1 DEF MonitorInv
  <2>2. PICK b \in 0 .. told : /\ Flowing(b) /\ Heard(m_Incoming, receivedData, b)
                              /\ Whole(m_Incoming, receivedData, data, b)
    BY <2>1 DEF Dispatched
  <2>3. /\ l \in Nat /\ H \in Seq(Seq(Frame)) /\ Len(H) = l + 1
        /\ \A c \in 1 .. l : H[c] = m_Incoming[c]
        /\ H[l + 1] = receivedData
    BY <2>1, AppendProperties, LenProperties DEF MonitorTypeOK
  <2>4. DOMAIN H = 1 .. l + 1 /\ DOMAIN m_Incoming = 1 .. l
    BY <2>1, <2>3, LenProperties DEF MonitorTypeOK
  <2> HIDE DEF H, l
  <2>5. \A c \in 1 .. l + 1 : c \in 1 .. l \/ c = l + 1
    BY <2>3
  <2>6. ASSUME NEW c \in DOMAIN H, NEW d \in DOMAIN H, NEW i \in DOMAIN H[c],
               NEW j \in DOMAIN H[d], c < d \/ (c = d /\ i < j)
        PROVE  H[c][i].n < H[d][j].n
    <3>1. CASE c \in 1 .. l /\ d \in 1 .. l
      BY <2>2, <2>3, <2>4, <2>6, <3>1 DEF Heard
    <3>2. CASE c \in 1 .. l /\ d = l + 1
      BY <2>2, <2>3, <2>4, <3>2 DEF Heard
    <3>3. CASE c = l + 1
      <4>1. d = l + 1 /\ i < j
        BY <2>3, <2>4, <2>6, <3>3
      <4> QED  BY <2>2, <2>3, <3>3, <4>1 DEF Heard
    <3> QED  BY <2>4, <2>5, <3>1, <3>2, <3>3
  <2>7. ASSUME NEW c \in DOMAIN H, NEW i \in DOMAIN H[c]
        PROVE  H[c][i].kind = IF c <= l /\ i = Len(H[c]) THEN "text" ELSE "part"
    <3>1. CASE c \in 1 .. l
      <4>1. c <= l
        BY <2>3, <3>1
      <4> QED  BY <2>2, <2>3, <2>4, <3>1, <4>1 DEF Heard
    <3>2. CASE c = l + 1
      <4>1. ~(c <= l)
        BY <2>3, <3>2
      <4> QED  BY <2>2, <2>3, <3>2, <4>1 DEF Heard
    <3> QED  BY <2>4, <2>5, <3>1, <3>2
  <2>8. \A c \in DOMAIN m_Incoming : m_Incoming[c] # <<>>
    BY <2>2 DEF Heard
  <2>9. at = "loop" => ~WholeFrame
    BY <2>1 DEF Dispatched
  <2>10. UNION {Numbers(H[c]) : c \in DOMAIN H} = data \cap 1 .. b
    <3>1. \A n : (\E c \in DOMAIN H : n \in Numbers(H[c]))
                   <=> Hears(m_Incoming, receivedData, n)
      <4>1. \A n : (\E c \in DOMAIN H : n \in Numbers(H[c]))
                     <=> n \in Numbers(H[l + 1]) \/ \E c \in 1 .. l : n \in Numbers(H[c])
        <5>1. l + 1 \in 1 .. l + 1 /\ \A c \in 1 .. l : c \in 1 .. l + 1
          BY <2>3
        <5> QED  BY <2>4, <2>5, <5>1
      <4>2. \A n : n \in Numbers(receivedData)
                     <=> \E i \in DOMAIN receivedData : receivedData[i].n = n
        BY DEF Numbers
      <4>3. \A c, n : n \in Numbers(m_Incoming[c])
                        <=> \E i \in DOMAIN m_Incoming[c] : m_Incoming[c][i].n = n
        BY DEF Numbers
      <4>4. \A n : (\E c \in 1 .. l : n \in Numbers(H[c]))
                     <=> \E c \in DOMAIN m_Incoming : \E i \in DOMAIN m_Incoming[c] :
                           m_Incoming[c][i].n = n
        BY <2>3, <2>4, <4>3
      <4> QED  BY <2>3, <4>1, <4>2, <4>4 DEF Hears
    <3>2. \A n : Hears(m_Incoming, receivedData, n) => n \in 1 .. b
      <4>1. /\ \A i \in DOMAIN receivedData : receivedData[i] \in Frame
            /\ \A c \in DOMAIN m_Incoming : \A i \in DOMAIN m_Incoming[c] :
                  m_Incoming[c][i] \in Frame
        <5>1. ASSUME NEW m \in Seq(Frame) PROVE \A i \in DOMAIN m : m[i] \in Frame
          BY ElementOfSeq, LenProperties
        <5>2. \A c \in DOMAIN m_Incoming : m_Incoming[c] \in Seq(Frame)
          BY <2>1, ElementOfSeq, LenProperties DEF MonitorTypeOK
        <5> QED  BY <2>1, <5>1, <5>2 DEF MonitorTypeOK
      <4>2. ASSUME NEW f \in Frame, f.n <= b PROVE f.n \in 1 .. b
        <5>1. f.n \in Nat /\ f.n >= 1
          BY FrameFields, MonitorAssumption
        <5>2. b \in Nat
          BY <2>1 DEF MonitorTypeOK
        <5> QED  BY <4>2, <5>1, <5>2
      <4> QED  BY <2>2, <4>1, <4>2 DEF Hears, Heard
    <3>3. \A n \in 1 .. b : n \in data <=> Hears(m_Incoming, receivedData, n)
      BY <2>2 DEF Whole
    <3>4. \A n : n \in UNION {Numbers(H[c]) : c \in DOMAIN H} <=> n \in data \cap 1 .. b
      BY <3>1, <3>2, <3>3
    <3> QED  BY <3>4
  <2> DEFINE k == Len(Stream)
  <2>11. /\ Stream \in Seq(Frame) /\ k \in Nat /\ told \in Nat /\ b \in Nat
         /\ Stream # <<>> => k >= 1
         /\ Stream = <<>> => k = 0
    BY <2>1, ConcatProperties, LenProperties, EmptySeq, MonitorAssumption
       DEF MonitorTypeOK, Stream
  <2>12. ASSUME Stream # <<>> PROVE Stream[1].n = b + 1
    <3>1. 1 \in 1 .. Len(Stream)
      <4> HIDE DEF k
      <4>1. 1 \in 1 .. k
        BY <2>11, <2>12
      <4> QED  BY <4>1 DEF k
    <3>2. /\ Stream[1].n \in Nat
          /\ 1 <= 2 * (Stream[1].n - b) /\ 2 * (Stream[1].n - b) <= 1 + 1
      BY <2>2, <2>11, <3>1, ElementOfSeq, FrameFields, MonitorAssumption DEF Flowing, Halves
    <3> QED  BY <2>11, <3>2
  <2>13. ASSUME Stream = <<>>, monitor = "up" PROVE b = told
    <3>1. k = 2 * (told - b) - (IF half = None THEN 0 ELSE 1)
      BY <2>2, <2>13 DEF Flowing
    <3> HIDE DEF k
    <3> QED  BY <2>11, <2>13, <3>1
  <2> HIDE DEF k
  <2>14. \E e \in 0 .. told :
            /\ UNION {Numbers(H[c]) : c \in DOMAIN H} = data \cap 1 .. e
            /\ Stream # <<>> => Stream[1].n = e + 1
            /\ Stream = <<>> /\ monitor = "up" => e = told
    BY <2>10, <2>12, <2>13
  <2> QED  BY <2>6, <2>7, <2>8, <2>9, <2>14 DEF HeardInOrder, H, l, Stream
<1> QED  BY InvAlways, <1>1, PTL

\* The handle is closed exactly once before the thread ends, unless a frame is
\* left that could not be sent.
THEOREM ClosedOnce == MonitorSpec => []HandleClosedOnce
<1>1. MonitorInv => HandleClosedOnce
  BY DEF MonitorInv, Places, Handle, HandleClosedOnce, Closing
<1> QED  BY InvAlways, <1>1, PTL
=============================================================================
