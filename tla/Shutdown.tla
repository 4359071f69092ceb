------------------------------ MODULE Shutdown ------------------------------
(***************************************************************************)
(* The end of the program: ~Controller and the destructors of the nodes    *)
(* (src/src/Controller, nodes/, sockets/), while the threads of the nodes  *)
(* still receive.                                                          *)
(*                                                                         *)
(* The main thread stops the Run threads and waits for them, joins the     *)
(* file watcher and destroys the nodes one after another, last one first.  *)
(* Of each node first the derived part goes, then the client of the        *)
(* monitor, then the sockets; then its ClientService threads are waited    *)
(* for, and last its accept thread.                                        *)
(***************************************************************************)
EXTENDS Integers, Sequences, FiniteSets

CONSTANTS
    Order,      \* the nodes in the order in which they are destroyed
    Core,       \* those of the core layer
    Links,      \* the connections: pairs <<n, m>> where n has connected to m
    Down,       \* Down[n]: the nodes of the next layer that n is connected to
    MaxWrites,  \* bound: writes before the end
    MaxRounds   \* bound: rounds of a Run thread that wait ten seconds

Node == {Order[i] : i \in DOMAIN Order}
Pair == Links \cup {<<l[2], l[1]>> : l \in Links}
Relay == {n \in Node \ Core : Down[n] # {}}

\* Nobody connects to itself, nor to who has connected to it (Controller.cpp:52-55).
ASSUME ShutdownAssumption ==
    /\ Order \in Seq(Node) /\ Core \subseteq Node /\ Order # <<>>
    /\ \A i, j \in DOMAIN Order : Order[i] = Order[j] => i = j
    /\ Links \subseteq Node \X Node
    /\ \A l \in Links : <<l[2], l[1]>> \notin Links
    /\ Down \in [Node -> SUBSET Node]
    /\ MaxWrites \in Nat /\ MaxRounds \in Nat
    /\ {"nobody", "hung"} \cap Node = {}

VARIABLES
    main,       \* where the main thread is: run, shutdown, wait, watcher, nodes, done
    next,       \* the node of Order it is destroying
    stage,      \* what is left of each node
    socket,     \* each end of a connection: none before it is accepted, open, closed
    service,    \* the ClientService thread of each end
    frame,      \* what that thread has received last
    stream,     \* stream[<<m, n>>]: frames from m that n has not received
    accepting,  \* the accept thread of each node is in its loop
    run,        \* the Run thread of each layer-one node
    rounds,     \* how many rounds it has begun
    writer,     \* the core node that executes a write, for the file watcher
    ready,      \* the peers that have answered it
    writes,     \* how many writes there were
    busy,       \* what was unfinished when the first node was destroyed
    stalled,    \* main joins a monitor's thread that stays in the handshake
    late,       \* a connection was accepted by a node whose sockets were cleared
    aborted     \* a pure virtual function was called: the process is gone

mainVars == <<main, next, stage, busy, stalled>>
threadVars == <<service, frame, stream, aborted>>
runVars == <<run, rounds>>
writerVars == <<writer, ready, writes>>
vars == <<mainVars, socket, threadVars, accepting, runVars, writerVars, late>>

\* whole; base when the derived part is destroyed; cleared when the sockets are;
\* server when ~MsgHandler is over; gone.
Stage == {"whole", "base", "cleared", "server", "gone"}
Frame == {"write", "ready", "release", "set"}
Zero == "zero"      \* ReceiveMsg's data when it finds no socket
Nobody == "nobody"  \* no write is being executed
Hung == "hung"      \* a write that never returns is

ShutdownTypeOK ==
    /\ main \in {"run", "shutdown", "wait", "watcher", "nodes", "done"}
    /\ next \in 1 .. Len(Order) + 1
    /\ stage \in [Node -> Stage]
    /\ socket \in [Pair -> {"none", "open", "closed"}]
    /\ service \in [Pair -> {"none", "peek", "receive", "call", "handle", "ended"}]
    /\ frame \in [Pair -> Frame \cup {Zero}]
    /\ stream \in [Pair -> Seq(Frame)]
    /\ accepting \in [Node -> BOOLEAN]
    /\ run \in [Relay -> {"broadcast", "wait", "ended"}]
    /\ rounds \in [Relay -> 0 .. MaxRounds]
    /\ writer \in Core \cup {Nobody, Hung}
    /\ ready \subseteq Node
    /\ writes \in 0 .. MaxWrites
    /\ busy \in BOOLEAN /\ stalled \in BOOLEAN /\ late \in BOOLEAN /\ aborted \in BOOLEAN

Reverse(p) == <<p[2], p[1]>>

\* The nodes are connected, but for connections that wait to be accepted.
ShutdownInit ==
    /\ main = "run" /\ next = 1
    /\ stage = [n \in Node |-> "whole"]
    /\ \E pending \in SUBSET Links :
          socket = [p \in Pair |-> IF Reverse(p) \in pending THEN "none" ELSE "open"]
    /\ service = [p \in Pair |-> IF socket[p] = "open" THEN "peek" ELSE "none"]
    /\ frame = [p \in Pair |-> Zero]
    /\ stream = [p \in Pair |-> <<>>]
    /\ accepting = [n \in Node |-> TRUE]
    /\ run = [n \in Relay |-> "broadcast"]
    /\ rounds = [n \in Relay |-> 0]
    /\ writer = Nobody /\ ready = {} /\ writes = 0
    /\ busy = FALSE /\ stalled = FALSE /\ late = FALSE /\ aborted = FALSE

\* SendMsg to some nodes: a frame for each that n has a socket to and that has
\* not closed its own end.
Sent(str, n, dests, f) ==
    [p \in Pair |->
        IF /\ p[1] = n /\ p[2] \in dests
           /\ socket[p] = "open" /\ socket[Reverse(p)] # "closed"
        THEN Append(str[p], f) ELSE str[p]]

\* The peers of n on its layer: those it knows by now.
Peers(n) == {m \in Core : <<n, m>> \in Pair /\ socket[<<n, m>>] # "none"}

-----------------------------------------------------------------------------
(* The threads that send *)

\* A file submits a write to a core node, which may be one that is sent down.  A
\* callback that is in progress when the watch is removed goes on with the other
\* writes of its file, until the watcher's thread is joined.
StartWrite(n) ==
    /\ main \notin {"nodes", "done"} /\ writer = Nobody /\ writes < MaxWrites
    /\ writer' = n
    /\ ready' = {}
    /\ writes' = writes + 1
    /\ \E down \in {{}, Down[n]} :
          stream' = Sent(Sent(stream, n, Peers(n), "write"), n, down, "set")
    /\ UNCHANGED <<mainVars, socket, service, frame, aborted, accepting, runVars, late>>

\* Every peer has answered: the write returns and releases the mutex, or it has
\* missed the last notify and never returns.
EndWrite(n) ==
    /\ writer = n
    /\ Peers(n) \subseteq ready
    /\ \/ /\ writer' = Nobody
          /\ stream' = Sent(stream, n, Peers(n), "release")
       \/ /\ writer' = Hung
          /\ UNCHANGED stream
    /\ UNCHANGED <<ready, writes>>
    /\ UNCHANGED <<mainVars, socket, service, frame, aborted, accepting, runVars, late>>

\* LayerOneNode::Run sends its version down, then waits up to ten seconds.
Broadcast(n) ==
    /\ run[n] = "broadcast"
    /\ run' = [run EXCEPT ![n] = "wait"]
    /\ stream' = Sent(stream, n, Down[n], "set")
    /\ UNCHANGED <<mainVars, socket, service, frame, aborted, accepting, rounds, writerVars, late>>

\* The wait is over: another round while m_Running, which Shutdown has cleared
\* once main waits.
Wakeup(n) ==
    /\ run[n] = "wait"
    /\ \/ /\ main \in {"run", "shutdown"}
          /\ rounds[n] < MaxRounds
          /\ rounds' = [rounds EXCEPT ![n] = @ + 1]
          /\ run' = [run EXCEPT ![n] = "broadcast"]
       \/ /\ main \notin {"run", "shutdown"}
          /\ run' = [run EXCEPT ![n] = "ended"]
          /\ UNCHANGED rounds
    /\ UNCHANGED <<mainVars, socket, threadVars, accepting, writerVars, late>>

-----------------------------------------------------------------------------
(* MsgHandler::ClientService, of node p[1] for its peer p[2] *)

ServiceGoes(p, to) ==
    /\ service' = [service EXCEPT ![p] = to]
    /\ UNCHANGED <<mainVars, socket, accepting, runVars, late>>

\* IncommingReadFrom: a frame is there; or the peer has closed, or reset the
\* connection because it had not read everything, or the own socket is closed or
\* no longer found: the thread ends.
IncommingReadFrom(p) ==
    /\ service[p] = "peek"
    /\ \/ /\ socket[p] = "open" /\ stream[Reverse(p)] # <<>>
          /\ ServiceGoes(p, "receive")
       \/ /\ socket[p] = "closed" \/ socket[Reverse(p)] = "closed"
          /\ ServiceGoes(p, "ended")
    /\ UNCHANGED <<frame, stream, aborted, writerVars>>

\* ReceiveMsg, whose result is not looked at: without a socket the frame is of
\* zeros.
ReceiveMsg(p) ==
    /\ service[p] = "receive"
    /\ ServiceGoes(p, "call")
    /\ IF socket[p] = "open" /\ stream[Reverse(p)] # <<>>
       THEN /\ frame' = [frame EXCEPT ![p] = Head(stream[Reverse(p)])]
            /\ stream' = [stream EXCEPT ![Reverse(p)] = Tail(@)]
       ELSE /\ frame' = [frame EXCEPT ![p] = Zero]
            /\ UNCHANGED stream
    /\ UNCHANGED <<aborted, writerVars>>

\* The virtual call, under mtx_CallbackWait: when the derived part is destroyed
\* HandleMsg is pure.
CallHandleMsg(p) ==
    /\ service[p] = "call"
    /\ \A q \in Pair : q[1] = p[1] => service[q] # "handle"
    /\ ServiceGoes(p, "handle")
    /\ aborted' = (stage[p[1]] # "whole")
    /\ UNCHANGED <<frame, stream, writerVars>>

\* HandleMsg: a write is executed and answered, and may be one that is sent down;
\* READYs are counted; the others are applied.
HandleMsg(p) ==
    /\ service[p] = "handle"
    /\ ServiceGoes(p, "peek")
    /\ IF frame[p] = "write"
       THEN \E down \in {{}, Down[p[1]]} :
               stream' = Sent(Sent(stream, p[1], down, "set"), p[1], {p[2]}, "ready")
       ELSE UNCHANGED stream
    /\ ready' = IF frame[p] = "ready" THEN ready \cup {p[2]} ELSE ready
    /\ UNCHANGED <<frame, aborted, writer, writes>>

-----------------------------------------------------------------------------
(* Server::IncommingConnectionsHandler, on the accept thread of l[2] *)

\* A connection that waits is accepted and served; by a node whose sockets are
\* cleared already too.  When ~MsgHandler is over the callback is pure.  If the
\* node has just sent a write to its peers, it waits for as many READYs as it has
\* peers now, one more than will come.
Accept(l) ==
    LET p == Reverse(l)
    IN  /\ accepting[p[1]]
        /\ socket[p] = "none"
        /\ socket' = [socket EXCEPT ![p] = "open"]
        /\ service' = [service EXCEPT ![p] = "peek"]
        /\ aborted' = (stage[p[1]] = "server")
        /\ late' = (late \/ stage[p[1]] = "cleared")
        /\ writer' = IF p[1] = writer /\ p[2] \in Core THEN Hung ELSE writer
        /\ UNCHANGED <<mainVars, frame, stream, accepting, runVars, ready, writes>>

\* accept fails once the listening socket is closed: the loop ends.
AcceptFails(n) ==
    /\ accepting[n]
    /\ stage[n] = "server"
    /\ accepting' = [accepting EXCEPT ![n] = FALSE]
    /\ UNCHANGED <<mainVars, socket, threadVars, runVars, writerVars, late>>

-----------------------------------------------------------------------------
(* The main thread: ~Controller, then its members, the last one first *)

MainGoes(from, to) ==
    /\ main = from
    /\ main' = to
    /\ UNCHANGED <<next, stage, stalled, socket, threadVars, accepting, runVars, writerVars>>
    /\ UNCHANGED late

\* removeWatch: no other file submits anything from now on.
RemoveWatch == MainGoes("run", "shutdown") /\ UNCHANGED busy

\* Shutdown of all nodes: m_Running is cleared and the Run threads woken.
ShutdownNodes == MainGoes("shutdown", "wait") /\ UNCHANGED busy

\* Mutant: the Run threads are not waited for.
WaitNever == MainGoes("wait", "watcher") /\ UNCHANGED busy

\* Wait for all nodes: their Run threads have ended.
Wait ==
    /\ \A n \in Relay : run[n] = "ended"
    /\ MainGoes("wait", "watcher")
    /\ UNCHANGED busy

\* Something is in a stream, in the hands of a thread or still to be accepted.
Busy == \E p \in Pair :
           \/ stream[p] # <<>>
           \/ service[p] \in {"receive", "call", "handle"}
           \/ socket[p] = "none"

\* Mutant: the thread of the watcher is left alone.
JoinWatcherNever == MainGoes("watcher", "nodes") /\ busy' = Busy

\* The file watcher is destroyed: its thread has returned from its callback.
JoinWatcher ==
    /\ writer = Nobody
    /\ MainGoes("watcher", "nodes")
    /\ busy' = Busy

Destroys(n, from, to) ==
    /\ main = "nodes" /\ n = Order[next] /\ stage[n] = from
    /\ stage' = [stage EXCEPT ![n] = to]
    /\ UNCHANGED <<busy, frame, aborted, runVars, writerVars, late>>

\* The destructor of the derived class, then ~Node, which joins the thread of
\* m_WsClient (WsClient.cpp:38-41): it may stay in the handshake with the monitor
\* for ever (Monitor's Stalled).
DestroyDerived(n) ==
    /\ Destroys(n, "whole", "base")
    /\ stalled' \in BOOLEAN
    /\ UNCHANGED <<main, next, socket, service, stream, accepting>>

\* n's ends of its connections are closed, and what it has not read is lost.
CloseSockets(n, states) ==
    /\ socket' = [p \in Pair |-> IF p[1] = n /\ socket[p] \in states
                                 THEN "closed" ELSE socket[p]]
    /\ stream' = [p \in Pair |-> IF p[2] = n /\ socket[Reverse(p)] \in states
                                 THEN <<>> ELSE stream[p]]

\* Mutant: the threads are waited for before the sockets are cleared.
ClearSocketsLate(n) ==
    /\ ~stalled
    /\ Destroys(n, "base", "cleared")
    /\ \A p \in Pair : p[1] = n => service[p] \in {"none", "ended"}
    /\ CloseSockets(n, {"open"})
    /\ UNCHANGED <<main, next, stalled, service, accepting>>

\* m_WsClient is joined; ~MsgHandler: m_Sockets.clear().
ClearSockets(n) ==
    /\ ~stalled
    /\ Destroys(n, "base", "cleared")
    /\ CloseSockets(n, {"open"})
    /\ UNCHANGED <<main, next, stalled, service, accepting>>

\* ~MsgHandler: all ClientService threads have ended.
WaitServices(n) ==
    /\ Destroys(n, "cleared", "server")
    /\ \A p \in Pair : p[1] = n => service[p] \in {"none", "ended"}
    /\ CloseSockets(n, {"open"})
    /\ UNCHANGED <<main, next, stalled, service, accepting>>

\* ~Server: the listening socket is closed and the accept thread has ended; who
\* waits to be accepted is turned away.
JoinAccept(n) ==
    /\ Destroys(n, "server", "gone")
    /\ ~accepting[n]
    /\ CloseSockets(n, {"none"})
    /\ next' = next + 1
    /\ main' = IF next = Len(Order) THEN "done" ELSE "nodes"
    /\ UNCHANGED <<stalled, service, accepting>>

-----------------------------------------------------------------------------
Main ==
    \/ RemoveWatch \/ ShutdownNodes \/ Wait \/ JoinWatcher
    \/ \E n \in Node :
          DestroyDerived(n) \/ ClearSockets(n) \/ WaitServices(n) \/ JoinAccept(n)

ClientService(p) == IncommingReadFrom(p) \/ ReceiveMsg(p) \/ CallHandleMsg(p) \/ HandleMsg(p)

\* Mutant: whatever node a file names is asked to execute its writes.
ShutdownNextAnyNode ==
    /\ ~aborted
    /\ \/ Main
       \/ \E n \in Node : StartWrite(n) \/ EndWrite(n)
       \/ \E p \in Pair : ClientService(p)

ShutdownNext ==
    /\ ~aborted
    /\ \/ Main
       \/ \E n \in Core : StartWrite(n) \/ EndWrite(n)
       \/ \E n \in Relay : Broadcast(n) \/ Wakeup(n)
       \/ \E p \in Pair : ClientService(p)
       \/ \E l \in Links : Accept(l)
       \/ \E n \in Node : AcceptFails(n)

Runs(action) == ~aborted /\ action

\* Every thread that can run does; the user ends the program and need not write.
ShutdownFairness ==
    /\ WF_vars(Runs(Main))
    /\ \A n \in Core : WF_vars(Runs(EndWrite(n)))
    /\ \A n \in Relay : WF_vars(Runs(Broadcast(n) \/ Wakeup(n)))
    /\ \A p \in Pair : WF_vars(Runs(ClientService(p)))
    /\ \A l \in Links : WF_vars(Runs(Accept(l)))
    /\ \A n \in Node : WF_vars(Runs(AcceptFails(n)))

ShutdownSpec == ShutdownInit /\ [][ShutdownNext]_vars /\ ShutdownFairness

-----------------------------------------------------------------------------
(* Properties *)

\* A handler works on a node whose derived part is being destroyed.
Torn == \E p \in Pair : service[p] = "handle" /\ stage[p[1]] # "whole"

\* If nothing is on its way when the first node is destroyed, the destruction is
\* clean: no handler is called for, or works on, a node that is not whole.  The
\* Run threads and the writer are waited for before (Controller.cpp:39-41 and the
\* order of the members in Controller.h:21-28), and a peer that goes makes no
\* thread take its end for a message (MsgHandler.cpp:40-62).
CleanUnlessBusy == ~busy => ~aborted /\ ~Torn

\* Nobody waits any more for an answer of a node that is being destroyed, and no
\* handler has to send one: a write that was under way has been executed by all.
NoAnswerDue ==
    main \in {"nodes", "done"} =>
        \A p \in Pair :
            /\ \A i \in DOMAIN stream[p] : stream[p][i] \notin {"write", "ready"}
            /\ service[p] \in {"call", "handle"} => frame[p] \notin {"write", "ready"}

\* The program ends: closing the own end first makes the threads return that the
\* destructor then waits for (MsgHandler.cpp:26-28), in whatever order the two
\* ends of a connection go.  Unless it is aborted; or a write hangs and the
\* watcher's thread with it (Controller.cpp:91), because of a missed notify or of
\* a peer that was accepted while it waited (CoreNode.cpp:66); or a connection is
\* accepted after its node's sockets were cleared: nobody closes that one; or the
\* thread of a node's monitor never leaves the handshake (WsClient.cpp:41).
EndsUnlessStuck ==
    main # "run" ~> main = "done" \/ aborted \/ writer = Hung \/ late \/ stalled
=============================================================================
