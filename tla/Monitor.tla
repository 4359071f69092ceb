------------------------------- MODULE Monitor -------------------------------
(***************************************************************************)
(* What a node tells the monitor: WebSocketClient (src/src/web_socket),    *)
(* its two queues and its thread, and the web socket it drives             *)
(* (src/dependencies/easywsclient).                                        *)
(*                                                                         *)
(* Node::ExecuteTransaction pushes a message for every write.  The thread  *)
(* of the client connects once, then moves messages from m_Outgoing to the *)
(* socket and from the socket to m_Incoming until the destructor, which    *)
(* joins it, or the monitor ends the connection.                           *)
(***************************************************************************)
EXTENDS Integers, Sequences, SequencesExt

CONSTANTS
    FrameKind,  \* what the monitor sends, of the kinds below
    None,
    MaxPushed,  \* bound: messages of the node
    MaxFrames   \* bound: frames of the monitor

\* Frames by what dispatch does with them: part is a data frame without FIN, text
\* one with it; close also stands for an opcode it does not know; bad is a frame
\* whose length it refuses.
ASSUME MonitorAssumption ==
    /\ FrameKind \subseteq {"text", "part", "ping", "close", "bad"}
    /\ MaxPushed \in Nat /\ MaxFrames \in Nat

VARIABLES
    m_Outgoing, \* numbers of the messages that wait for the thread
    m_Incoming, \* messages of the monitor, which the node never reads
    m_Running,
    pushed,     \* how many messages the node has pushed
    node,       \* lives; joining in ~WebSocketClient; gone
    at,         \* where the thread is
    leaving,    \* it is past its loop
    readyState,
    txbuf,      \* frames to be sent
    rxbuf,      \* received bytes: two halves of every frame
    receivedData, \* the parts of a message that is not complete
    isRxBad,
    closed,     \* how often closesocket was called on the handle
    monitor,    \* the other end: absent, up, fin (has closed), reset
    answer,     \* what it has answered of the handshake, or lost in a reset
    wire,       \* halves it has sent that are not received
    half,       \* the frame of which it has still to send the second half
    told,       \* how many frames it has begun to send
    data,       \* which of them are data frames
    delivered   \* frames the system took for it

nodeVars == <<m_Outgoing, pushed>>
socketVars == <<readyState, txbuf, rxbuf, receivedData, isRxBad, closed>>
monitorVars == <<monitor, answer, wire, half, told, data, delivered>>
vars == <<nodeVars, m_Incoming, m_Running, node, at, leaving, socketVars, monitorVars>>

\* The n-th frame of the monitor, of some kind.
Frame == [kind : FrameKind, n : 1 .. MaxFrames]

ASSUME NoneIsNoFrame == None \notin Frame

\* A text of the node has its number; the others are answers and the farewell.
OutFrame == [kind : {"text"}, n : 1 .. MaxPushed] \cup [kind : {"pong", "close"}, n : {0}]

MonitorTypeOK ==
    /\ m_Outgoing \in Seq(1 .. MaxPushed)
    /\ m_Incoming \in Seq(Seq(Frame))
    /\ m_Running \in BOOLEAN
    /\ pushed \in 0 .. MaxPushed
    /\ node \in {"lives", "joining", "gone"}
    /\ at \in {"connect", "status", "headers", "loop", "recv", "send", "dispatch", "ended"}
    /\ leaving \in BOOLEAN
    /\ readyState \in {"CONNECTING", "OPEN", "CLOSING", "CLOSED"}
    /\ txbuf \in Seq(OutFrame) /\ delivered \in Seq(OutFrame)
    /\ rxbuf \in Seq(Frame) /\ wire \in Seq(Frame)
    /\ receivedData \in Seq(Frame)
    /\ isRxBad \in BOOLEAN
    /\ closed \in 0 .. 2
    /\ monitor \in {"absent", "up", "fin", "reset"}
    /\ answer \in {"nothing", "status", "headers", "lost"}
    /\ half \in Frame \cup {None}
    /\ told \in 0 .. MaxFrames
    /\ data \subseteq 1 .. told

MonitorInit ==
    /\ m_Outgoing = <<>> /\ m_Incoming = <<>>
    /\ m_Running = TRUE
    /\ pushed = 0
    /\ node = "lives"
    /\ at = "connect"
    /\ leaving = FALSE
    /\ readyState = "CONNECTING"
    /\ txbuf = <<>> /\ rxbuf = <<>> /\ receivedData = <<>>
    /\ isRxBad = FALSE
    /\ closed = 0
    /\ monitor \in {"absent", "up"}
    /\ answer = "nothing"
    /\ wire = <<>>
    /\ half = None
    /\ told = 0
    /\ data = {}
    /\ delivered = <<>>

-----------------------------------------------------------------------------
(* The node: Node::ExecuteTransaction and the end of its life *)

\* A write was executed: Send pushes a message.
Push ==
    /\ node # "gone"
    /\ pushed < MaxPushed
    /\ pushed' = pushed + 1
    /\ m_Outgoing' = Append(m_Outgoing, pushed + 1)
    /\ UNCHANGED <<m_Incoming, m_Running, node, at, leaving, socketVars, monitorVars>>

\* ~WebSocketClient clears m_Running and joins the thread.
Destroy ==
    /\ node = "lives"
    /\ node' = "joining"
    /\ m_Running' = FALSE
    /\ UNCHANGED <<nodeVars, m_Incoming, at, leaving, socketVars, monitorVars>>

Join ==
    /\ node = "joining"
    /\ at = "ended"
    /\ node' = "gone"
    /\ UNCHANGED <<nodeVars, m_Incoming, m_Running, at, leaving, socketVars, monitorVars>>

-----------------------------------------------------------------------------
(* from_url, on the thread: blocking calls that do not look at m_Running *)

ThreadGoes(to) ==
    /\ at' = to
    /\ UNCHANGED <<nodeVars, m_Incoming, m_Running, node, leaving, monitorVars>>
    /\ UNCHANGED <<txbuf, rxbuf, receivedData, isRxBad, closed>>

\* hostname_connect.  When the name has no address it returns descriptor 1, on
\* which the handshake fails at once.
Connect ==
    /\ at = "connect"
    /\ \/ ThreadGoes("ended")
       \/ monitor # "absent" /\ ThreadGoes("status")
    /\ UNCHANGED readyState

\* The status line arrives, or the connection ends, or it is another status:
\* from_url returns NULL then and leaves the socket open.  What a reset leaves of
\* the line may do for a status.
ReadStatus ==
    /\ at = "status"
    /\ \/ (answer \in {"status", "headers"} \/ monitor = "reset") /\ ThreadGoes("headers")
       \/ (answer # "nothing" \/ monitor # "up") /\ ThreadGoes("ended")
    /\ UNCHANGED readyState

\* The other headers, to the empty line.  A connection that ends before it gives
\* NULL.
ReadHeaders ==
    /\ at = "headers"
    /\ \/ answer = "headers" /\ ThreadGoes("loop") /\ readyState' = "OPEN"
       \/ monitor = "fin" /\ answer # "headers" /\ ThreadGoes("ended") /\ UNCHANGED readyState

\* When a reset has taken a header, recv fails, which is not looked at, and the
\* loop goes on for ever; or a system that tells of a reset only once lets it end.
ReadReset ==
    /\ at = "headers"
    /\ monitor = "reset" /\ answer # "headers"
    /\ ThreadGoes("ended")
    /\ UNCHANGED readyState

-----------------------------------------------------------------------------
(* The thread's loop *)

\* Mutant: a frame may follow the farewell.
SendDataAlways(f) == txbuf' = Append(txbuf, f)

\* _RealWebSocket::sendData, for a frame: nothing is sent once it is closing.
SendData(f) ==
    txbuf' = IF readyState \in {"CLOSING", "CLOSED"} THEN txbuf ELSE Append(txbuf, f)

\* _RealWebSocket::close: the farewell is the last frame.
Close ==
    IF readyState \in {"CLOSING", "CLOSED"}
    THEN UNCHANGED <<readyState, txbuf>>
    ELSE /\ readyState' = "CLOSING"
         /\ txbuf' = Append(txbuf, [kind |-> "close", n |-> 0])

\* Mutant: the destructor is not noticed.
GoesOnUntilClosed == readyState # "CLOSED"

\* The conditions under which the loop goes on.
GoesOn == m_Running /\ readyState # "CLOSED"

\* Mutant: nothing is popped before the last message is sent.
PopsWhenSent == m_Outgoing # <<>> /\ txbuf = <<>>

Pops == m_Outgoing # <<>>

\* The top of the loop: at most one message is popped and sent.  After the loop
\* the socket is closed.
Loop ==
    /\ at = "loop"
    /\ at' = "recv"
    /\ \/ /\ GoesOn /\ Pops
          /\ m_Outgoing' = Tail(m_Outgoing)
          /\ SendData([kind |-> "text", n |-> Head(m_Outgoing)])
          /\ UNCHANGED <<leaving, readyState>>
       \/ /\ GoesOn /\ ~Pops
          /\ UNCHANGED <<m_Outgoing, txbuf, leaving, readyState>>
       \/ /\ ~GoesOn
          /\ Close
          /\ leaving' = TRUE
          /\ UNCHANGED m_Outgoing
    /\ UNCHANGED <<pushed, m_Incoming, m_Running, node, rxbuf, receivedData, isRxBad, closed>>
    /\ UNCHANGED monitorVars

\* Where poll returns to.
PollReturns == at' = IF leaving THEN "ended" ELSE "dispatch"

\* Mutant: poll works on a closed socket too.
PollRecvAlways ==
    /\ at = "recv"
    /\ at' = "send"
    /\ rxbuf' = rxbuf \o wire
    /\ wire' = <<>>
    /\ IF monitor = "up" THEN UNCHANGED <<readyState, closed>>
       ELSE readyState' = "CLOSED" /\ closed' = closed + 1
    /\ UNCHANGED <<nodeVars, m_Incoming, m_Running, node, leaving>>
    /\ UNCHANGED <<txbuf, receivedData, isRxBad>>
    /\ UNCHANGED <<monitor, answer, half, told, data, delivered>>

\* poll, first loop: what has arrived is read; when the connection has ended the
\* handle is closed.  There is nothing to do for a socket that is closed.
PollRecv ==
    /\ at = "recv"
    /\ IF readyState = "CLOSED"
       THEN PollReturns /\ UNCHANGED <<rxbuf, wire, readyState, closed>>
       ELSE /\ at' = "send"
            /\ rxbuf' = rxbuf \o wire
            /\ wire' = <<>>
            /\ IF monitor = "up" THEN UNCHANGED <<readyState, closed>>
               ELSE readyState' = "CLOSED" /\ closed' = closed + 1
    /\ UNCHANGED <<nodeVars, m_Incoming, m_Running, node, leaving>>
    /\ UNCHANGED <<txbuf, receivedData, isRxBad>>
    /\ UNCHANGED <<monitor, answer, half, told, data, delivered>>

\* send fails, on a connection that was reset or on the handle that the first
\* loop has just closed; the handle is closed, the second time then.
SendFails ==
    /\ readyState = "CLOSED" \/ monitor = "reset"
    /\ txbuf # <<>>
    /\ readyState' = "CLOSED"
    /\ closed' = closed + 1
    /\ UNCHANGED <<txbuf, delivered>>

\* Mutant: the handle stays open when the farewell is gone.
SendSomeOpen ==
    /\ txbuf = <<>> \/ (readyState # "CLOSED" /\ monitor # "reset")
    /\ delivered' = delivered \o txbuf
    /\ txbuf' = <<>>
    /\ readyState' = IF readyState = "CLOSING" THEN "CLOSED" ELSE readyState
    /\ UNCHANGED closed

\* The system takes some of what is to be sent, nothing while it would block.
\* When the farewell is gone the handle is closed.
SendSome ==
    /\ txbuf = <<>> \/ (readyState # "CLOSED" /\ monitor # "reset")
    /\ \E k \in 0 .. Len(txbuf) :
          /\ delivered' = delivered \o SubSeq(txbuf, 1, k)
          /\ txbuf' = SubSeq(txbuf, k + 1, Len(txbuf))
    /\ IF txbuf' = <<>> /\ readyState = "CLOSING"
       THEN readyState' = "CLOSED" /\ closed' = closed + 1
       ELSE UNCHANGED <<readyState, closed>>

\* poll, second loop.
PollSend ==
    /\ at = "send"
    /\ PollReturns
    /\ SendFails \/ SendSome
    /\ UNCHANGED <<nodeVars, m_Incoming, m_Running, node, leaving>>
    /\ UNCHANGED <<rxbuf, receivedData, isRxBad>>
    /\ UNCHANGED <<monitor, answer, wire, half, told, data>>

\* A frame is in rxbuf with both halves.
WholeFrame == Len(rxbuf) >= 2 /\ ~isRxBad

\* _dispatchBinary for a frame whose length is refused: its header is enough,
\* and nothing is read from then on.
RefuseFrame ==
    /\ at = "dispatch"
    /\ rxbuf # <<>> /\ Head(rxbuf).kind = "bad" /\ ~isRxBad
    /\ isRxBad' = TRUE
    /\ Close
    /\ UNCHANGED <<nodeVars, m_Incoming, m_Running, node, at, leaving>>
    /\ UNCHANGED <<rxbuf, receivedData, closed, monitorVars>>

\* Mutant: a message that is complete stays in receivedData.
CollectKeeps(f) ==
    /\ receivedData' = Append(receivedData, f)
    /\ m_Incoming' = IF f.kind = "text" THEN Append(m_Incoming, receivedData') ELSE m_Incoming

\* A data frame is collected; the one with FIN completes a message, for which
\* the callback of the thread is called.
Collect(f) ==
    IF f.kind = "text"
    THEN /\ m_Incoming' = Append(m_Incoming, Append(receivedData, f))
         /\ receivedData' = <<>>
    ELSE /\ receivedData' = Append(receivedData, f)
         /\ UNCHANGED m_Incoming

\* _dispatchBinary for another one: data frames are collected, a ping is
\* answered, the monitor's farewell, or an unknown opcode, closes the socket.
DispatchFrame ==
    /\ at = "dispatch"
    /\ WholeFrame /\ Head(rxbuf).kind # "bad"
    /\ rxbuf' = SubSeq(rxbuf, 3, Len(rxbuf))
    /\ LET f == Head(rxbuf)
       IN  \/ /\ f.kind \in {"text", "part"}
              /\ Collect(f)
              /\ UNCHANGED <<txbuf, readyState>>
           \/ /\ f.kind = "ping"
              /\ SendData([kind |-> "pong", n |-> 0])
              /\ UNCHANGED <<readyState, receivedData, m_Incoming>>
           \/ /\ f.kind = "close"
              /\ Close
              /\ UNCHANGED <<receivedData, m_Incoming>>
    /\ UNCHANGED <<nodeVars, m_Running, node, at, leaving, isRxBad, closed, monitorVars>>

\* No whole frame is left: dispatch returns, and after ten milliseconds the loop
\* goes on.
DispatchDone ==
    /\ at = "dispatch"
    /\ ~WholeFrame
    /\ rxbuf # <<>> /\ ~isRxBad => Head(rxbuf).kind # "bad"
    /\ ThreadGoes("loop")
    /\ UNCHANGED readyState

-----------------------------------------------------------------------------
(* The monitor and the connection to it *)

MonitorDoes ==
    UNCHANGED <<nodeVars, m_Incoming, m_Running, node, at, leaving, socketVars, delivered>>

\* It answers the handshake, the status first.
Answer ==
    /\ monitor = "up"
    /\ at \in {"status", "headers"}
    /\ answer' = IF answer = "nothing" THEN "status" ELSE "headers"
    /\ MonitorDoes
    /\ UNCHANGED <<monitor, wire, half, told, data>>

\* It sends a frame, whose second half may arrive later than the first.
SendHead(kind) ==
    /\ monitor = "up"
    /\ answer = "headers" /\ half = None /\ told < MaxFrames
    /\ told' = told + 1
    /\ data' = IF kind \in {"text", "part"} THEN data \cup {told + 1} ELSE data
    /\ half' = [kind |-> kind, n |-> told + 1]
    /\ wire' = Append(wire, half')
    /\ MonitorDoes
    /\ UNCHANGED <<monitor, answer>>

SendRest ==
    /\ monitor = "up"
    /\ half # None
    /\ wire' = Append(wire, half)
    /\ half' = None
    /\ MonitorDoes
    /\ UNCHANGED <<monitor, answer, told, data>>

\* It closes the connection, or the connection is reset and what it had sent is
\* lost, of the handshake too if it was not read.
Hangup ==
    /\ monitor = "up"
    /\ \/ monitor' = "fin" /\ UNCHANGED <<wire, answer>>
       \/ /\ monitor' = "reset" /\ wire' = <<>>
          /\ answer' \in {answer} \cup {a \in {"lost"} : at \in {"status", "headers"}}
    /\ MonitorDoes
    /\ UNCHANGED <<half, told, data>>

-----------------------------------------------------------------------------
Thread ==
    \/ Connect \/ ReadStatus \/ ReadHeaders
    \/ Loop \/ PollRecv \/ PollSend
    \/ RefuseFrame \/ DispatchFrame \/ DispatchDone

MonitorNext ==
    \/ Push \/ Destroy \/ Join
    \/ Thread \/ ReadReset
    \/ Answer \/ SendRest \/ Hangup
    \/ \E kind \in FrameKind : SendHead(kind)

\* The thread runs and the join returns.  Nothing is assumed of the monitor, nor
\* that the system tells of a reset only once.
MonitorSpec ==
    MonitorInit /\ [][MonitorNext]_vars /\ WF_vars(Thread) /\ WF_vars(Join)

-----------------------------------------------------------------------------
(* Properties *)

\* What the system took for the monitor and what is to follow are the node's
\* messages from the first on, in order and once, and while the socket is open
\* m_Outgoing goes on where they end; a farewell is the last frame.  (The thread
\* pops one message per round, WsClient.cpp:23-25; close, also one that dispatch
\* makes, and poll change the buffer in between, easywsclient.cpp:241, 392, 450.)
ReportedInOrder ==
    LET frames == delivered \o txbuf
        texts == {i \in DOMAIN frames : frames[i].kind = "text"}
        popped == pushed - Len(m_Outgoing)
    IN  /\ \A i \in DOMAIN m_Outgoing : m_Outgoing[i] = popped + i
        /\ \E k \in 0 .. popped :
              /\ {frames[i].n : i \in texts} = 1 .. k
              /\ k < popped => readyState \in {"CLOSING", "CLOSED"}
        /\ \A i, j \in texts : i < j => frames[i].n < frames[j].n
        /\ \A i \in DOMAIN frames : frames[i].kind = "close" => i = Len(frames)

\* The numbers of some frames.
Numbers(frames) == {frames[i].n : i \in DOMAIN frames}

\* The data frames that were dispatched are the monitor's up to some frame b,
\* each once and in order, whatever control frames come between them; messages end
\* where the monitor ended them (easywsclient.cpp:337-363); what is dispatched
\* next is the frame after b, and nothing is lost between the two.  When a round
\* of the thread is over no whole frame is left, also when its poll found the
\* connection closed.
HeardInOrder ==
    LET heard == Append(m_Incoming, receivedData)
        next == rxbuf \o wire
    IN  /\ \A a, b \in DOMAIN heard : \A i \in DOMAIN heard[a], j \in DOMAIN heard[b] :
              a < b \/ (a = b /\ i < j) => heard[a][i].n < heard[b][j].n
        /\ \E b \in 0 .. told :
              /\ UNION {Numbers(heard[a]) : a \in DOMAIN heard} = data \cap 1 .. b
              /\ next # <<>> => next[1].n = b + 1
              /\ next = <<>> /\ monitor = "up" => b = told
        /\ \A a \in DOMAIN heard : \A i \in DOMAIN heard[a] :
              heard[a][i].kind =
                 IF a <= Len(m_Incoming) /\ i = Len(heard[a]) THEN "text" ELSE "part"
        /\ \A a \in DOMAIN m_Incoming : m_Incoming[a] # <<>>
        /\ at = "loop" => ~WholeFrame

\* A handle is closed exactly once when the thread ends, unless some frame could
\* not be sent: then it stays open for ever, or poll closes it twice, and the
\* second time it may be somebody else's (easywsclient.cpp:219 and 235).
HandleClosedOnce ==
    at = "ended" /\ readyState # "CONNECTING" => closed = 1 \/ txbuf # <<>>

\* The handshake waits for an answer that does not come, or fails for ever to
\* read one that a reset has taken.
Stalled ==
    \/ at = "status" /\ answer = "nothing" /\ monitor = "up"
    \/ at = "headers" /\ answer # "headers" /\ monitor # "fin"

\* ~WebSocketClient returns, unless the thread stays in the handshake for ever,
\* which does not look at m_Running (easywsclient.cpp:511-519): a program that
\* accepts on the monitor's port and does not answer, or a connection that is
\* reset before the last header is read, keeps the nodes from being deleted.
JoinsUnlessStalled == <>[]Stalled \/ (node = "joining" ~> node = "gone")

\* What a write reports leaves the queue, even if the monitor reads nothing,
\* unless the thread stays in the handshake or has ended: then the queue only
\* grows (Node.cpp:77, WsClient.cpp:16).
LeavesUnlessAlone ==
    <>[]Stalled \/ \A k \in 1 .. MaxPushed :
                      pushed >= k ~> ~Contains(m_Outgoing, k) \/ at = "ended"
=============================================================================
