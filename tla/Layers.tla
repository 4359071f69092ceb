------------------------------- MODULE Layers -------------------------------
(***************************************************************************)
(* The layers below the core: LayerOneNode and LayerTwoNode in             *)
(* src/src/nodes, on top of what the core layer promises (ReplicatedStore, *)
(* which CoreLayer implements).                                            *)
(*                                                                         *)
(* A layer-one node sets its version to every update its core node sends.  *)
(* Its Run thread sends the version it finds to its layer-two nodes, then  *)
(* waits ten seconds or until Shutdown, and starts again.  The thread that *)
(* writes to the core also executes writes on these nodes themselves, when *)
(* a file's header says so: beside their other threads, without a lock.    *)
(***************************************************************************)
EXTENDS ReplicatedStore

CONSTANTS
    LayerOne, LayerTwo,     \* the nodes of the two layers
    Parent,         \* the core node that is connected to a layer-one node
    Children,       \* the layer-two nodes it has connected to
    MaxCheckpoints, \* bound: updates the core layer makes
    MaxSets,        \* bound: SETs in one stream; ten seconds pass between two
    MaxBelow,       \* bound: writes executed on nodes below the core
    None            \* no node

\* No layer-two node has two parents (Controller.cpp:55), and what is written
\* are ints.
ASSUME LayersAssumption ==
    /\ LayerOne \cap LayerTwo = {}
    /\ \A b, d \in LayerOne : b # d => Children[b] \cap Children[d] = {}
    /\ \A t \in Writes : t.type \in WriteType /\ t.value \in Version
    /\ Parent \in [LayerOne -> Node]
    /\ Children \in [LayerOne -> SUBSET LayerTwo]
    /\ MaxCheckpoints \in Nat
    /\ MaxSets \in Nat \ {0}
    /\ MaxBelow \in Nat
    /\ None \notin LayerOne \cup LayerTwo

VARIABLES
    version,    \* m_Transaction of every node of the two layers, see HeldVersion
    taken,      \* how many of its core node's updates a node has handled
    downlink,   \* the SETs in the stream to each child
    run,        \* where the Run thread of a layer-one node is
    sending,    \* the version that thread is broadcasting
    unsent,     \* the children it has still to send it to
    m_Running,  \* cleared by Shutdown
    writer,     \* the write the watcher's thread is executing below the core
    below       \* how many it has executed or begun

threadVars == <<run, sending, unsent>>
writerVars == <<writer, below>>
layerVars == <<version, taken, downlink, threadVars, m_Running, writerVars>>
layersVars == <<storeVars, layerVars>>

\* A version with its history, which the program does not keep: as it came from
\* the core; after writes below the core on top of that; or without a SET that was
\* handled between the load and the store of such a write (Transaction.cpp:11-27).
HeldVersion == [value : Version, from : {"core", "below", "raced"}]

FromCore(v) == [value |-> v, from |-> "core"]

\* writer.node is None or the node on whose version the thread has computed value
\* and not stored it yet; overtaken says that the node has handled a SET meanwhile.
Idle == [node |-> None, value |-> 0, overtaken |-> FALSE]

\* run[b]: loop at the test of m_Running; send in BroadcastMsg; wait at the
\* predicate of wait_for, blocking once it was false, asleep in it; done.
RunState == {"loop", "send", "wait", "blocking", "asleep", "done"}

LayersTypeOK ==
    /\ version \in [LayerOne \cup LayerTwo -> HeldVersion]
    /\ taken \in [LayerOne -> 0 .. MaxCheckpoints]
    /\ downlink \in [LayerOne -> [LayerTwo -> Seq(HeldVersion)]]
    /\ run \in [LayerOne -> RunState]
    /\ sending \in [LayerOne -> HeldVersion]
    /\ unsent \in [LayerOne -> SUBSET LayerTwo]
    /\ m_Running \in [LayerOne -> BOOLEAN]
    /\ writer \in [node : LayerOne \cup LayerTwo \cup {None},
                   value : Version, overtaken : BOOLEAN]
    /\ below \in 0 .. MaxBelow

LayersInit ==
    /\ StoreInit
    /\ version = [n \in LayerOne \cup LayerTwo |-> FromCore(0)]
    /\ taken = [b \in LayerOne |-> 0]
    /\ downlink = [b \in LayerOne |-> [c \in LayerTwo |-> <<>>]]
    /\ run = [b \in LayerOne |-> "loop"]
    /\ sending = [b \in LayerOne |-> FromCore(0)]
    /\ unsent = [b \in LayerOne |-> {}]
    /\ m_Running = [b \in LayerOne |-> TRUE]
    /\ writer = Idle
    /\ below = 0

-----------------------------------------------------------------------------
(* LayerOneNode::Run *)

\* Mutant: the update goes to every connected node.
TestRunningAllLayers(b) ==
    /\ run[b] = "loop"
    /\ m_Running[b]
    /\ run' = [run EXCEPT ![b] = "send"]
    /\ sending' = [sending EXCEPT ![b] = version[b]]
    /\ unsent' = [unsent EXCEPT ![b] = Children[b] \cup {Parent[b]}]
    /\ UNCHANGED <<storeVars, version, taken, downlink, m_Running, writerVars>>

\* The loop is left, or the broadcast begins with the version it reads now.
TestRunning(b) ==
    /\ run[b] = "loop"
    /\ \A c \in Children[b] : Len(downlink[b][c]) < MaxSets
    /\ run' = [run EXCEPT ![b] = IF ~m_Running[b] THEN "done"
                                 ELSE IF Children[b] = {} THEN "wait"
                                 ELSE "send"]
    /\ IF m_Running[b]
       THEN /\ sending' = [sending EXCEPT ![b] = version[b]]
            /\ unsent' = [unsent EXCEPT ![b] = Children[b]]
       ELSE UNCHANGED <<sending, unsent>>
    /\ UNCHANGED <<storeVars, version, taken, downlink, m_Running, writerVars>>

\* One iteration of BroadcastMsg(SET, version, LAYER_TWO).
SendSet(b, c) ==
    /\ run[b] = "send"
    /\ c \in unsent[b]
    /\ downlink' = [downlink EXCEPT ![b][c] = Append(@, sending[b])]
    /\ unsent' = [unsent EXCEPT ![b] = @ \ {c}]
    /\ run' = [run EXCEPT ![b] = IF unsent[b] = {c} THEN "wait" ELSE "send"]
    /\ UNCHANGED <<storeVars, version, taken, sending, m_Running, writerVars>>

\* wait_for looks at its predicate before it sleeps.
CheckRunning(b) ==
    /\ run[b] = "wait"
    /\ run' = [run EXCEPT ![b] = IF m_Running[b] THEN "blocking" ELSE "loop"]
    /\ UNCHANGED <<storeVars, version, taken, downlink, sending, unsent, m_Running, writerVars>>

\* A notify before this step is missed, Shutdown does not hold m_WaitMutex.
Sleep(b) ==
    /\ run[b] = "blocking"
    /\ run' = [run EXCEPT ![b] = "asleep"]
    /\ UNCHANGED <<storeVars, version, taken, downlink, sending, unsent, m_Running, writerVars>>

\* Mutant: wait instead of wait_for.
TimeoutNever(b) == b \notin LayerOne /\ UNCHANGED layersVars

\* Ten seconds have passed: wait_for returns whatever its predicate says.
Timeout(b) ==
    /\ run[b] = "asleep"
    /\ run' = [run EXCEPT ![b] = "loop"]
    /\ UNCHANGED <<storeVars, version, taken, downlink, sending, unsent, m_Running, writerVars>>

\* Shutdown, from the controller's destructor: the flag, then notify_all.
Shutdown(b) ==
    /\ m_Running[b]
    /\ m_Running' = [m_Running EXCEPT ![b] = FALSE]
    /\ run' = [run EXCEPT ![b] = IF @ = "asleep" THEN "wait" ELSE @]
    /\ UNCHANGED <<storeVars, version, taken, downlink, sending, unsent, writerVars>>

-----------------------------------------------------------------------------
(* HandleMsg, on the ClientService thread of the sender *)

\* SetVersion of v on node n, which may come between the load and the store of a
\* write below.
SetVersion(n, v) ==
    /\ version' = [version EXCEPT ![n] =
          [v EXCEPT !.value = ExecuteTransaction([type |-> "SET", value |-> v.value],
                                                 version[n].value)]]
    /\ writer' = [writer EXCEPT !.overtaken = @ \/ writer.node = n]
    /\ UNCHANGED below

\* A layer-one node executes the next SET of its core node.
HandleSetOne(b) ==
    /\ taken[b] < Len(stream[Parent[b]])
    /\ taken' = [taken EXCEPT ![b] = @ + 1]
    /\ SetVersion(b, FromCore(stream[Parent[b]][taken[b] + 1]))
    /\ UNCHANGED <<storeVars, downlink, threadVars, m_Running>>

\* Mutant: the version received is added.
HandleSetTwoAdds(b, c) ==
    /\ downlink[b][c] # <<>>
    /\ downlink' = [downlink EXCEPT ![b][c] = Tail(@)]
    /\ SetVersion(c, [Head(downlink[b][c]) EXCEPT !.value = Wrap(@ + version[c].value)])
    /\ UNCHANGED <<storeVars, taken, threadVars, m_Running>>

\* A layer-two node executes the next SET of layer-one node b.
HandleSetTwo(b, c) ==
    /\ downlink[b][c] # <<>>
    /\ downlink' = [downlink EXCEPT ![b][c] = Tail(@)]
    /\ SetVersion(c, Head(downlink[b][c]))
    /\ UNCHANGED <<storeVars, taken, threadVars, m_Running>>

-----------------------------------------------------------------------------
(* ExecuteTransaction on a node below the core, on the watcher's thread *)

\* The write has been handed to all nodes of the core, so that the thread that
\* makes it is free.
Returned == \A n \in Node : stream[n] = checkpoints

\* Add, Substract or Multiply reads the version of node n and computes.
LoadBelow(n, t) ==
    /\ Returned
    /\ writer.node = None
    /\ below < MaxBelow
    /\ writer' = [node |-> n, value |-> ExecuteTransaction(t, version[n].value),
                  overtaken |-> FALSE]
    /\ below' = below + 1
    /\ UNCHANGED <<storeVars, version, taken, downlink, threadVars, m_Running>>

\* And stores the result, over whatever has been set meanwhile.
StoreBelow ==
    /\ writer.node # None
    /\ version' = [version EXCEPT ![writer.node] =
          [value |-> writer.value,
           from |-> IF writer.overtaken \/ @.from = "raced" THEN "raced" ELSE "below"]]
    /\ writer' = Idle
    /\ UNCHANGED <<storeVars, taken, downlink, threadVars, m_Running, below>>

-----------------------------------------------------------------------------
\* The core layer goes on writing, as long as the bound allows and the thread that
\* writes is not below.
Core ==
    /\ \/ /\ Len(checkpoints) < MaxCheckpoints
          /\ writer.node = None
          /\ \E t \in Writes : Write(t)
       \/ \E n \in Node : Forward(n)
    /\ UNCHANGED layerVars

Run(b) ==
    \/ TestRunning(b) \/ CheckRunning(b) \/ Sleep(b)
    \/ \E c \in Children[b] : SendSet(b, c)

LayersNext ==
    \/ Core
    \/ \E n \in LayerOne \cup LayerTwo, t \in Writes : LoadBelow(n, t)
    \/ StoreBelow
    \/ \E b \in LayerOne :
        \/ Run(b) \/ Timeout(b) \/ Shutdown(b) \/ HandleSetOne(b)
        \/ \E c \in Children[b] : HandleSetTwo(b, c)

\* Threads run, ten seconds pass, and what has been sent is received and
\* handled; nobody has to write, and the program need not be shut down.
LayersFairness ==
    /\ WF_layersVars(\E n \in Node : Forward(n) /\ UNCHANGED layerVars)
    /\ WF_layersVars(StoreBelow)
    /\ \A b \in LayerOne :
        /\ WF_layersVars(Run(b)) /\ WF_layersVars(Timeout(b))
        /\ WF_layersVars(HandleSetOne(b))
        /\ \A c \in Children[b] : WF_layersVars(HandleSetTwo(b, c))

LayersSpec == LayersInit /\ [][LayersNext]_layersVars

FairLayersSpec == LayersSpec /\ LayersFairness

-----------------------------------------------------------------------------
(* Properties *)

\* The checkpoints version v may be, 0 standing for the initial version: what came
\* from the core is one, what was written below may stand for any.
Places(v) ==
    {k \in 0 .. Len(checkpoints) :
        v.from = "core" => v.value = IF k = 0 THEN 0 ELSE checkpoints[k]}

\* From the core layer down, what a node has from the core is never newer than what
\* is above it: the SETs that a layer-one node has handled, its version, the one it
\* is broadcasting, those in the stream to a child and the child's version are
\* checkpoints of the store, each at or before the one it comes from, but for those
\* that a file's write was executed on below the core.  Run reads the version while
\* HandleMsg and that write change it, and sends it later (LayerOneNode.cpp:24, 39).
Downhill ==
    \A b \in LayerOne : \A c \in Children[b] :
        LET chain == <<version[c]>> \o downlink[b][c]
                       \o (IF c \in unsent[b] THEN <<sending[b]>> ELSE <<>>)
                       \o <<version[b]>>
        IN  \E place \in [DOMAIN chain -> 0 .. Len(checkpoints)] :
              /\ \A i \in DOMAIN chain : place[i] \in Places(chain[i])
              /\ \A i, j \in DOMAIN chain : i < j => place[i] <= place[j]
              /\ place[Len(chain)] = taken[b]
              /\ taken[b] <= Len(stream[Parent[b]])

\* With writes that only add, so that a smaller version is an older one, a node of
\* the two layers goes back to a smaller version only where a SET replaces what a
\* file's write has made of the node's own, or where such a write has overtaken a
\* SET, there or above.
NeverBack ==
    [][\A n \in LayerOne \cup LayerTwo :
          \/ version'[n].value >= version[n].value
          \/ version[n].from # "core"
          \/ version'[n].from = "raced"]_layersVars

\* With such writes: every checkpoint of the store is reached or passed by each
\* node of layer two that has a node above it, unless that one is shut down or has
\* lost a SET to a write that overtook it.
Spreads ==
    \A k \in 1 .. MaxCheckpoints : \A b \in LayerOne : \A c \in Children[b] :
        Len(checkpoints) >= k ~>
            \/ Len(checkpoints) >= k /\ version[c].value >= checkpoints[k]
            \/ ~m_Running[b]
            \/ version[b].from = "raced"

\* A node that is shut down finishes, although Shutdown's notify_all may come
\* between wait_for's look at m_Running and its sleep (LayerOneNode.cpp:27,
\* 49-50), and Controller's destructor, which waits for it, returns.
Stops == \A b \in LayerOne : ~m_Running[b] ~> run[b] = "done"
=============================================================================
