---------------------------- MODULE Connections ----------------------------
(***************************************************************************)
(* How the nodes get connected: Controller::Run, MsgHandler::Connect and   *)
(* IncommingConnection, and the accept loop of Server (src/src/Controller, *)
(* nodes/MsgHandler, sockets/Server and Client).                           *)
(*                                                                         *)
(* The controller's thread makes the connections one after another; every  *)
(* node accepts on a thread of its own, and learns from the first eight    *)
(* bytes of a connection, the hello, who is there and on which layer.  The *)
(* file watcher runs already, so a write may send its frames at any time.  *)
(***************************************************************************)
EXTENDS Integers, Sequences

CONSTANTS
    Node,       \* the nodes
    Plan,       \* the connections in the order in which Run makes them
    Garbled,    \* an id read from bytes that are not a hello
    MaxEarly    \* bound: frames sent while the connections are made

CORE_LAYER == 0
LAYER_ONE == 1
Layer == 0 .. 2

\* No two nodes are connected twice (Controller.cpp:52-55).
ASSUME ConnectionsAssumption ==
    /\ Plan \in Seq([from : Node, to : Node, layer : Layer])
    /\ \A i, j \in DOMAIN Plan :
         /\ Plan[i].from # Plan[i].to
         /\ {Plan[i].from, Plan[i].to} = {Plan[j].from, Plan[j].to} => i = j
    /\ Garbled \notin Node
    /\ MaxEarly \in Nat

VARIABLES
    listening,  \* the accept thread of a node has called listen
    next,       \* the connection of Plan that Connect is working on
    at,         \* where in its loop body it is
    link,       \* the accepting side's view of every connection
    stream,     \* what its connecting side has sent and nobody has read
    m_Layers,   \* m_Layers[n][l]: the peers of n on layer l
    early,      \* how many frames were sent while connections were made
    hasty       \* history: the connections on which one was sent before the hello

earlyVars == <<early, hasty>>
vars == <<listening, next, at, link, stream, m_Layers, earlyVars>>

Link == DOMAIN Plan

\* link: none; refused; backlog until accepted; hello until it is received;
\* serving; dropped for a level out of range; garbled when bytes that are no
\* hello happened to have a level in range.
LinkState == {"none", "refused", "backlog", "hello", "serving", "dropped", "garbled"}

ConnectionsTypeOK ==
    /\ listening \in [Node -> BOOLEAN]
    /\ next \in 1 .. Len(Plan) + 1
    /\ at \in {"register", "hello"}
    /\ link \in [Link -> LinkState]
    /\ stream \in [Link -> Seq({"hello", "frame"})]
    /\ m_Layers \in [Node -> [Layer -> SUBSET (Node \cup {Garbled})]]
    /\ early \in 0 .. MaxEarly
    /\ hasty \subseteq Link

ConnectionsInit ==
    /\ listening = [n \in Node |-> FALSE]
    /\ next = 1
    /\ at = "register"
    /\ link = [i \in Link |-> "none"]
    /\ stream = [i \in Link |-> <<>>]
    /\ m_Layers = [n \in Node |-> [l \in Layer |-> {}]]
    /\ early = 0
    /\ hasty = {}

-----------------------------------------------------------------------------
(* MsgHandler::Connect, on the controller's thread *)

\* The connections that wait for accept: listen asks for room for one of them.
Backlog(n) == {i \in Link : Plan[i].to = n /\ link[i] = "backlog"}

\* What connecting to n may lead to: refused while nobody listens yet, and also
\* when the backlog is full, where the system is free to take one more.
Outcome(n) ==
    IF listening[n] THEN {"backlog"} \cup {l \in {"refused"} : Backlog(n) # {}}
                    ELSE {"refused"}

\* Under mtx_Data: the client connects, or is refused (which is logged and
\* nothing more), and the peer is in the layer.
Register ==
    /\ next \in Link
    /\ at = "register"
    /\ LET p == Plan[next]
       IN  /\ \E l \in Outcome(p.to) : link' = [link EXCEPT ![next] = l]
           /\ m_Layers' = [m_Layers EXCEPT ![p.from][p.layer] = @ \cup {p.to}]
    /\ at' = "hello"
    /\ UNCHANGED <<listening, next, stream, earlyVars>>

\* Mutant: the hello is not sent.
HelloNever ==
    /\ next \in Link
    /\ at = "hello"
    /\ at' = "register"
    /\ next' = next + 1
    /\ UNCHANGED <<listening, link, stream, m_Layers, earlyVars>>

\* The hello is sent, then the next connection is made.
Hello ==
    /\ next \in Link
    /\ at = "hello"
    /\ stream' = [stream EXCEPT ![next] =
                    IF link[next] = "refused" THEN @ ELSE Append(@, "hello")]
    /\ at' = "register"
    /\ next' = next + 1
    /\ UNCHANGED <<listening, link, m_Layers, earlyVars>>

-----------------------------------------------------------------------------
(* Server::IncommingConnectionsHandler, on the accept thread of n *)

Listen(n) ==
    /\ ~listening[n]
    /\ listening' = [listening EXCEPT ![n] = TRUE]
    /\ UNCHANGED <<next, at, link, stream, m_Layers, earlyVars>>

\* Connections are accepted in the order in which they were made, and the next
\* one only when the last one's IncommingConnection has returned.
Accept(n) ==
    \E i \in Backlog(n) :
        /\ \A j \in Backlog(n) : i <= j
        /\ \A j \in Link : Plan[j].to = n => link[j] # "hello"
        /\ link' = [link EXCEPT ![i] = "hello"]
        /\ UNCHANGED <<listening, next, at, stream, m_Layers, earlyVars>>

\* Mutant: the connecting node is put on the core layer, whatever it says.
IncommingConnectionOnCore(i) ==
    /\ link[i] = "hello"
    /\ stream[i] # <<>>
    /\ stream' = [stream EXCEPT ![i] = Tail(@)]
    /\ link' = [link EXCEPT ![i] = "serving"]
    /\ m_Layers' = [m_Layers EXCEPT ![Plan[i].to][CORE_LAYER] = @ \cup {Plan[i].from}]
    /\ UNCHANGED <<listening, next, at, earlyVars>>

\* Mutant: the level is not checked.
IncommingConnectionUnchecked(i) ==
    /\ link[i] = "hello"
    /\ stream[i] # <<>>
    /\ stream' = [stream EXCEPT ![i] = Tail(@)]
    /\ link' = [link EXCEPT ![i] = "serving"]
    /\ LET n == Plan[i].to
           level == IF Head(stream[i]) = "hello" THEN Plan[i].layer ELSE 3
       IN  m_Layers' = [m_Layers EXCEPT ![n] =
              [l \in Layer \cup {level} |->
                 IF l = level THEN {Plan[i].from} ELSE @[l]]]
    /\ UNCHANGED <<listening, next, at, earlyVars>>

\* IncommingConnection: eight bytes are read.  If they are the hello, the peer
\* is registered on its layer and served; if a frame came first, five of them
\* are that frame and the others the start of the hello, or were never written:
\* the level is out of range, or some layer gets an id that is nobody's.
IncommingConnection(i) ==
    /\ link[i] = "hello"
    /\ stream[i] # <<>>
    /\ stream' = [stream EXCEPT ![i] = Tail(@)]
    /\ LET n == Plan[i].to
       IN  \/ /\ Head(stream[i]) = "hello"
              /\ link' = [link EXCEPT ![i] = "serving"]
              /\ m_Layers' = [m_Layers EXCEPT ![n][Plan[i].layer] = @ \cup {Plan[i].from}]
           \/ /\ Head(stream[i]) = "frame"
              /\ link' = [link EXCEPT ![i] = "dropped"]
              /\ UNCHANGED m_Layers
           \/ /\ Head(stream[i]) = "frame"
              /\ link' = [link EXCEPT ![i] = "garbled"]
              /\ \E l \in Layer :
                    m_Layers' = [m_Layers EXCEPT ![n][l] = @ \cup {Garbled}]
    /\ UNCHANGED <<listening, next, at, earlyVars>>

-----------------------------------------------------------------------------
(* The threads that use the connections *)

\* ClientService: a frame is read and handled.
ClientService(i) ==
    /\ link[i] = "serving"
    /\ stream[i] # <<>>
    /\ stream' = [stream EXCEPT ![i] = Tail(@)]
    /\ UNCHANGED <<listening, next, at, link, m_Layers, earlyVars>>

\* All connections are made, and accepted or lost.
Started ==
    /\ next \notin Link
    /\ \A i \in Link : link[i] \in {"refused", "serving", "dropped", "garbled"}

\* A write of the connecting node sends one frame on connection i before that: its
\* REQUEST or RELEASE to a peer, in BroadcastMsg; the write itself, in a loop of its
\* own that takes no lock (CoreNode.cpp:49-50); every UPDATE_COUNT writes its SET to
\* layer one (lines 60 and 101).  Sent to a peer that is registered but not greeted
\* yet it is the first thing the other end reads; a refused socket sends nothing.
\* (Frames that the accepting end sends meet no hello and are left out.)
SendMsg(i) ==
    /\ ~Started
    /\ early < MaxEarly
    /\ Plan[i].layer \in {CORE_LAYER, LAYER_ONE}
    /\ link[i] \notin {"none", "refused"}
    /\ early' = early + 1
    /\ hasty' = IF i = next THEN hasty \cup {i} ELSE hasty
    /\ stream' = [stream EXCEPT ![i] = Append(@, "frame")]
    /\ UNCHANGED <<listening, next, at, link, m_Layers>>

ConnectionsNext ==
    \/ Register \/ Hello
    \/ \E n \in Node : Listen(n) \/ Accept(n)
    \/ \E i \in Link : IncommingConnection(i) \/ ClientService(i) \/ SendMsg(i)

\* Threads that can run do run; nobody has to write.
ConnectionsFairness ==
    /\ WF_vars(Register) /\ WF_vars(Hello)
    /\ \A n \in Node : WF_vars(Listen(n)) /\ WF_vars(Accept(n))
    /\ \A i \in Link : WF_vars(IncommingConnection(i)) /\ WF_vars(ClientService(i))

ConnectionsSpec == ConnectionsInit /\ [][ConnectionsNext]_vars /\ ConnectionsFairness

-----------------------------------------------------------------------------
(* Properties *)

\* Who is connected to n on layer l, once the whole Plan has been carried out.
Planned(n, l) ==
    {m \in Node : \E i \in Link :
        /\ Plan[i].layer = l
        /\ {Plan[i].from, Plan[i].to} = {m, n}
        /\ m # n}

\* Those whose connection to n was refused, or that sent it a frame before the hello.
Lost(n) == {m \in Node : \E i \in Link :
               /\ Plan[i].from = m /\ Plan[i].to = n
               /\ link[i] = "refused" \/ i \in hasty}

\* When every connection is accepted or lost, both ends of it have each other, on
\* the same layer, and nobody else, which is what module MsgHandler takes Peers to
\* be; there are two ways to lose one, and then the connecting end alone knows of
\* it.  Either the other node did not listen yet or had its backlog of one full
\* (Server.cpp:76), or a write sent a frame between the lines where Connect makes
\* the peer known and where it sends the hello (MsgHandler.cpp:133 and 136;
\* Controller.cpp:49 starts the file watcher before it connects, lines 52-55).  A
\* frame sent at any other moment of the start, on any thread, costs nothing.  The
\* two ends learn of each other on different threads (MsgHandler.cpp:70-87, 122-140).
MeshedUnlessLost ==
    Started => \A n \in Node, l \in Layer :
                   m_Layers[n][l] \ {Garbled} = Planned(n, l) \ Lost(n)

\* The start comes to an end: no accept thread waits for a hello for ever, not
\* even when writes come early or connections are refused.
Starts == <>Started
=============================================================================
