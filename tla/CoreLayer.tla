----------------------------- MODULE CoreLayer -----------------------------
(***************************************************************************)
(* The core layer: CoreNode (src/src/nodes/CoreNode.cpp) on top of its     *)
(* LamportMutex, the nodes A1, A2, A3 and the thread that feeds them.      *)
(*                                                                         *)
(* A write to node n takes the mutex, is sent to every peer, is executed,  *)
(* waits until every peer has answered READY and releases the mutex.  All  *)
(* writes come from the file watcher's one thread through                  *)
(* Controller::FileModifiedCallback, which returns from a transaction      *)
(* before it starts the next.                                              *)
(***************************************************************************)
EXTENDS LamportMutex, Transaction

CONSTANTS
    Writes,         \* the write transactions that files contain
    UPDATE_COUNT    \* writes between two updates of layer one

WriteTag == {"SUM", "SUBSTRACT", "MULTIPLY"}

ASSUME WritesAssumption ==
    Writes \subseteq [type : WriteTag, value : Version]

ASSUME UpdateCountAssumption == UPDATE_COUNT \in Nat \ {0}

VARIABLES
    version,         \* m_Transaction: the replica of each node
    m_WriteCount,    \* writes a node has executed since its last update
    m_FinishedNodes, \* READY answers counted for the write in progress
    write,           \* the transaction a node's caller is executing
    unsent,          \* the peers that transaction has not been sent to
    stage,           \* where that caller is in its critical section
    updates          \* the SET values a node has broadcast to layer one

replicaVars == <<version, m_WriteCount, updates>>
writerVars == <<write, unsent, stage, m_FinishedNodes>>
coreVars == <<replicaVars, writerVars>>
clVars == <<lmVars, coreVars>>

\* stage[n]: none until the write is executed; wait, blocking, asleep in
\* cv_Transaction; done when every READY has arrived.
Stage == {"none", "wait", "blocking", "asleep", "done"}

CoreTypeOK ==
    /\ TypeOK
    /\ version \in [Node -> Version]
    /\ m_WriteCount \in [Node -> 0 .. UPDATE_COUNT - 1]
    /\ m_FinishedNodes \in [Node -> Nat]
    /\ write \in [Node -> [type : WriteTag, value : Version]]
    /\ unsent \in [Node -> SUBSET Node]
    /\ stage \in [Node -> Stage]
    /\ updates \in [Node -> Seq(Version)]

CoreInit ==
    /\ Init
    /\ version = [n \in Node |-> 0]
    /\ m_WriteCount = [n \in Node |-> 0]
    /\ m_FinishedNodes = [n \in Node |-> 0]
    /\ write = [n \in Node |-> [type |-> "SUM", value |-> 0]]
    /\ unsent = [n \in Node |-> {}]
    /\ stage = [n \in Node |-> "none"]
    /\ updates = [n \in Node |-> <<>>]

\* Mutant: the update is one write late.
AfterWriteLate(n, t) ==
    LET v == ExecuteTransaction(t, version[n])
        full == m_WriteCount[n] + 1 > UPDATE_COUNT
    IN  [version |-> v,
         count   |-> IF full THEN 0 ELSE m_WriteCount[n] + 1,
         updates |-> IF full THEN Append(updates[n], v) ELSE updates[n]]

\* The replica of n, its count and its updates once t has been executed: the
\* UPDATE_COUNT-th write since the last update broadcasts the new version.
AfterWrite(n, t) ==
    LET v == ExecuteTransaction(t, version[n])
        full == m_WriteCount[n] + 1 >= UPDATE_COUNT
    IN  [version |-> v,
         count   |-> IF full THEN 0 ELSE m_WriteCount[n] + 1,
         updates |-> IF full THEN Append(updates[n], v) ELSE updates[n]]

Apply(n, t) ==
    LET after == AfterWrite(n, t)
    IN  /\ version' = [version EXCEPT ![n] = after.version]
        /\ m_WriteCount' = [m_WriteCount EXCEPT ![n] = after.count]
        /\ updates' = [updates EXCEPT ![n] = after.updates]

-----------------------------------------------------------------------------
(* CoreNode::ExecuteTransaction, on the controller's thread *)

\* A file submits t to node n and requestCS is called: no other transaction
\* is being executed, the thread would not be here.
Submit(n, t) ==
    /\ \A m \in Node : pc[m] = "idle"
    /\ RequestCS(n)
    /\ write' = [write EXCEPT ![n] = t]
    /\ unsent' = [unsent EXCEPT ![n] = Peers(n)]
    /\ UNCHANGED <<replicaVars, stage, m_FinishedNodes>>

\* requestCS has returned: the transaction is sent to the next peer.
SendWrite(n, d) ==
    /\ pc[n] = "cs"
    /\ d \in unsent[n]
    /\ channel' = SendMsg(channel, n, d, write[n].type, write[n].value)
    /\ unsent' = [unsent EXCEPT ![n] = @ \ {d}]
    /\ UNCHANGED <<m_Ticks, m_RequestQ, callerVars, handler>>
    /\ UNCHANGED <<replicaVars, write, stage, m_FinishedNodes>>

\* The transaction is executed on the own replica.
ExecuteWrite(n) ==
    /\ pc[n] = "cs"
    /\ stage[n] = "none"
    /\ unsent[n] = {}
    /\ Apply(n, write[n])
    /\ stage' = [stage EXCEPT ![n] = "wait"]
    /\ UNCHANGED <<lmVars, write, unsent, m_FinishedNodes>>

\* The wait for a given number of READYs, and the count it leaves.
CheckFor(n, readys, rest) ==
    /\ stage[n] = "wait"
    /\ IF m_FinishedNodes[n] = readys
       THEN /\ stage' = [stage EXCEPT ![n] = "done"]
            /\ m_FinishedNodes' = [m_FinishedNodes EXCEPT ![n] = rest]
       ELSE /\ stage' = [stage EXCEPT ![n] = "blocking"]
            /\ UNCHANGED m_FinishedNodes
    /\ UNCHANGED <<lmVars, replicaVars, write, unsent>>

\* Mutants: one READY is enough; no reset.
CheckFinishedEarly(n) == CheckFor(n, 1, 0)
CheckFinishedKeeps(n) == CheckFor(n, Cardinality(Peers(n)), m_FinishedNodes[n])

\* The predicate of cv_Transaction.wait; when it is true the count is reset.
CheckFinished(n) == CheckFor(n, Cardinality(Peers(n)), 0)

\* It was false: cv_Transaction blocks.  A notify before this step is lost,
\* the notifier does not hold mtx_Transaction.
SleepFinished(n) ==
    /\ stage[n] = "blocking"
    /\ stage' = [stage EXCEPT ![n] = "asleep"]
    /\ UNCHANGED <<lmVars, replicaVars, write, unsent, m_FinishedNodes>>

SpuriousFinished(n) ==
    /\ stage[n] = "asleep"
    /\ stage' = [stage EXCEPT ![n] = "wait"]
    /\ UNCHANGED <<lmVars, replicaVars, write, unsent, m_FinishedNodes>>

\* Every replica has executed the transaction: releaseCS is called.
Release(n) ==
    /\ stage[n] = "done"
    /\ ReleaseCS(n)
    /\ stage' = [stage EXCEPT ![n] = "none"]
    /\ UNCHANGED <<replicaVars, write, unsent, m_FinishedNodes>>

-----------------------------------------------------------------------------
(* CoreNode::HandleMsg, on the thread that holds mtx_CallbackWait *)

\* The next message of s for n, when n's handler is free to take it.
NextMsg(n, s, tags) ==
    /\ handler[n].at = "idle"
    /\ channel[s][n] # <<>>
    /\ Head(channel[s][n]).tag \in tags

\* Mutant: the write of another node is not counted.
HandleWriteUncounted(n, s) ==
    /\ NextMsg(n, s, WriteTag)
    /\ LET m == Head(channel[s][n])
       IN  /\ version' = [version EXCEPT ![n] =
                            ExecuteTransaction([type |-> m.tag, value |-> m.data], @)]
           /\ channel' = SendMsg(ReceiveMsg(channel, s, n), n, s, "READY", m.data)
    /\ UNCHANGED <<m_WriteCount, updates>>
    /\ UNCHANGED <<m_Ticks, m_RequestQ, callerVars, handler, writerVars>>

\* Mutant: the write is executed and not answered.
HandleWriteSilent(n, s) ==
    /\ NextMsg(n, s, WriteTag)
    /\ LET m == Head(channel[s][n])
       IN  Apply(n, [type |-> m.tag, value |-> m.data])
    /\ channel' = ReceiveMsg(channel, s, n)
    /\ UNCHANGED <<m_Ticks, m_RequestQ, callerVars, handler, writerVars>>

\* SUM, SUBSTRACT, MULTIPLY: the write of s is executed and answered READY.
HandleWrite(n, s) ==
    /\ NextMsg(n, s, WriteTag)
    /\ LET m == Head(channel[s][n])
       IN  /\ Apply(n, [type |-> m.tag, value |-> m.data])
           /\ channel' = SendMsg(ReceiveMsg(channel, s, n), n, s, "READY", m.data)
    /\ UNCHANGED <<m_Ticks, m_RequestQ, callerVars, handler, writerVars>>

\* READY: one more replica has executed the write; cv_Transaction.notify_one.
HandleReady(n, s) ==
    /\ NextMsg(n, s, {"READY"})
    /\ channel' = ReceiveMsg(channel, s, n)
    /\ m_FinishedNodes' = [m_FinishedNodes EXCEPT ![n] = @ + 1]
    /\ stage' = [stage EXCEPT ![n] = IF @ = "asleep" THEN "wait" ELSE @]
    /\ UNCHANGED <<m_Ticks, m_RequestQ, callerVars, handler>>
    /\ UNCHANGED <<replicaVars, write, unsent>>

\* Every other tag goes to LamportMutex::HandleMsg.
HandleMutex(n, s) ==
    /\ NextMsg(n, s, Tag \ (WriteTag \cup {"READY"}))
    /\ HandleMsg(n, s)
    /\ UNCHANGED coreVars

-----------------------------------------------------------------------------
\* Steps of the mutex leave the replicas and the transaction alone.
Inside(mutexStep) == mutexStep /\ UNCHANGED coreVars

Caller(n) ==
    \/ ExecuteWrite(n) \/ CheckFinished(n) \/ SleepFinished(n) \/ Release(n)
    \/ \E d \in Peers(n) : SendWrite(n, d)

Receive(n) ==
    \E s \in Peers(n) : HandleWrite(n, s) \/ HandleReady(n, s) \/ HandleMutex(n, s)

CoreNext ==
    \E n \in Node :
        \/ \E t \in Writes : Submit(n, t)
        \/ Inside(Acquire(n)) \/ Caller(n) \/ Inside(Leave(n))
        \/ Receive(n) \/ Inside(Handle(n))
        \/ Inside(SpuriousWakeup(n)) \/ SpuriousFinished(n)

CoreSpec == CoreInit /\ [][CoreNext]_clVars

\* The fairness of LamportMutex, and the same for the new steps of its threads.
CoreFairness ==
    \A n \in Node :
        /\ WF_clVars(Inside(Acquire(n)))
        /\ WF_clVars(Caller(n))
        /\ WF_clVars(Inside(Leave(n)))
        /\ WF_clVars(Receive(n))
        /\ WF_clVars(Inside(Handle(n)))
        /\ SF_clVars(Inside(HandleRelease(n)))

FairCoreSpec == CoreSpec /\ CoreFairness

-----------------------------------------------------------------------------
(* Properties *)

\* Between two writes the three replicas are equal, have counted the same
\* number of writes and have sent layer one the same updates: from the moment
\* CoreNode::ExecuteTransaction has seen the last READY until the next writer
\* enters its critical section (CoreNode.cpp:64-70, 97-104).
ReplicasAgree ==
    (\A n \in Node : pc[n] = "cs" => stage[n] = "done") =>
        \A m, n \in Node :
            /\ version[m] = version[n]
            /\ m_WriteCount[m] = m_WriteCount[n]
            /\ updates[m] = updates[n]

\* The frames of one of the tags on their way from m to n.
InFlight(m, n, tags) ==
    Cardinality({i \in DOMAIN channel[m][n] : channel[m][n][i].tag \in tags})

\* Each peer of a writer is in exactly one of these states: the write has not
\* been sent to it, is on its way, is answered by a READY on its way, or is
\* counted in m_FinishedNodes.  No READY of one write is ever counted for
\* another (m_FinishedNodes is reset after the wait, CoreNode.cpp:66-67), and
\* a node that is not writing has nothing in flight.
ReadyAccounting ==
    \A w \in Node :
        LET waiting == {d \in Peers(w) :
                          \/ d \in unsent[w]
                          \/ InFlight(w, d, WriteTag) > 0
                          \/ InFlight(d, w, {"READY"}) > 0}
        IN  /\ \A d \in Peers(w) :
                 (IF d \in unsent[w] THEN 1 ELSE 0)
                   + InFlight(w, d, WriteTag) + InFlight(d, w, {"READY"}) <= 1
            /\ IF pc[w] = "cs" /\ stage[w] # "done"
               THEN m_FinishedNodes[w] + Cardinality(waiting) = Cardinality(Peers(w))
               ELSE m_FinishedNodes[w] = 0 /\ waiting \subseteq unsent[w]

\* The state of the abstract store: that of the node whose write has entered
\* its critical section, with this write already done, or else of any node.
Writer == IF \E n \in Node : pc[n] = "cs"
          THEN CHOOSE n \in Node : pc[n] = "cs"
          ELSE CHOOSE n \in Node : TRUE

Committed ==
    IF pc[Writer] = "cs" /\ stage[Writer] = "none"
    THEN AfterWrite(Writer, write[Writer])
    ELSE [version |-> version[Writer], count |-> m_WriteCount[Writer],
          updates |-> updates[Writer]]

Store == INSTANCE ReplicatedStore
         WITH value <- Committed.version, uncounted <- Committed.count,
              checkpoints <- Committed.updates, stream <- updates

\* The core layer implements the replicated store: every write takes effect
\* once, on all nodes and in one order, at the instant its writer enters the
\* critical section; each node sends layer one every UPDATE_COUNT-th value.
ImplementsStore == Store!StoreSpec

\* The caller of n sleeps in cv_Transaction although every READY is counted:
\* the last notify_one came between the predicate and the sleep.
MissedReady(n) ==
    stage[n] = "asleep" /\ m_FinishedNodes[n] = Cardinality(Peers(n))

\* "... will execute the command on the specified node" (README.md:20): a write
\* that has been submitted is executed and ExecuteTransaction returns.
WriteFinishes == \A n \in Node : pc[n] = "tick" ~> pc[n] = "idle"

\* It does, unless one of the two condition variables is notified, without its
\* mutex, between the waiting thread's look at the predicate and its sleep
\* (LamportMutex.cpp:101, CoreNode.cpp:87-88).  Nothing else stops the layer.
WriteFinishesUnlessMissed ==
    \A n \in Node :
        pc[n] = "tick" ~> \/ pc[n] = "idle"
                          \/ \E m \in Node : MissedNotify(m) \/ MissedReady(m)
=============================================================================
