---------------------------- MODULE LamportMutex ----------------------------
(***************************************************************************)
(* Lamport's distributed mutex as class LamportMutex implements it         *)
(* (LamportMutex and DirectClock in src/src/mutex), one instance per core  *)
(* node.  On every node two threads run it:                                *)
(*                                                                         *)
(*   - the caller of requestCS and releaseCS; pc[n] says where it is;      *)
(*   - the ClientService thread that holds mtx_CallbackWait and runs       *)
(*     LamportMutex::HandleMsg on one message; handler[n] says where it is.*)
(*                                                                         *)
(* No lock is shared by the two except mtx_RequestQ, which okeyCS and the  *)
(* RELEASE branch take, so one action here is at most one access to what   *)
(* the other thread writes.                                                *)
(***************************************************************************)
EXTENDS MsgHandler

CONSTANT MaxCalls   \* bound: how often each node calls requestCS

ASSUME MaxCallsAssumption == MaxCalls \in [Node -> Nat]

VARIABLES
    channel,    \* channel[s][d]: frames sent by s that d has not received
    m_Ticks,    \* m_Ticks[n][i]: DirectClock entry of n for i, 0 when absent
    m_RequestQ, \* m_RequestQ[n][i]: ticks of i's request at n, 0 when absent
    pc,         \* where the thread that calls the mutex of n is
    local,      \* that thread's local: the clock value it last read, or 0
    todo,       \* the peers its current loop has still to visit
    peer,       \* the peer whose queue entry okeyCS has just passed, or n
    calls,      \* how many times requestCS has been called on n
    handler     \* the message that n's handler is processing, and how far

lmVars == <<channel, m_Ticks, m_RequestQ, pc, local, todo, peer, calls, handler>>
callerVars == <<pc, local, todo, peer, calls>>

\* pc[n]: idle; tick, ticked, request in requestCS before the wait; okeyCS and
\* okeyClock in the predicate of the wait; blocking once the predicate was
\* false; asleep in cv_Wait; cs; release in releaseCS.
PC == {"idle", "tick", "ticked", "request", "okeyCS", "okeyClock",
       "blocking", "asleep", "cs", "release"}

\* at: idle; own before the second half of RecieveAction; switch; ack.
Handler == [at : {"idle", "own", "switch", "ack"}, src : Node,
            tag : Tag, ticks : Int, own : Int]

\* A handler that goes on to at, with the own clock value it has read.
GoOn(h, at, own) == [h EXCEPT !.at = at, !.own = own]

IdleHandler(n) == [at |-> "idle", src |-> n, tag |-> "ACK", ticks |-> 0, own |-> 0]

TypeOK ==
    /\ channel \in [Node -> [Node -> Seq(Message)]]
    /\ m_Ticks \in [Node -> [Node -> Int]]
    /\ m_RequestQ \in [Node -> [Node -> Int]]
    /\ pc \in [Node -> PC]
    /\ local \in [Node -> Int]
    /\ todo \in [Node -> SUBSET Node]
    /\ peer \in [Node -> Node]
    /\ calls \in [Node -> Nat]
    /\ handler \in [Node -> Handler]

Init ==
    /\ channel = [s \in Node |-> [d \in Node |-> <<>>]]
    /\ m_Ticks = [n \in Node |-> [i \in Node |-> IF i = n THEN 1 ELSE 0]]
    /\ m_RequestQ = [n \in Node |-> [i \in Node |-> 0]]
    /\ pc = [n \in Node |-> "idle"]
    /\ local = [n \in Node |-> 0]
    /\ todo = [n \in Node |-> {}]
    /\ peer = [n \in Node |-> n]
    /\ calls = [n \in Node |-> 0]
    /\ handler = [n \in Node |-> IdleHandler(n)]

\* Mutant: equal times are not ordered by the ids.
isGreaterByTime(t1, id1, t2, id2) == t1 > t2

\* isGreater: entry (t1, id1) comes after entry (t2, id2).
isGreater(t1, id1, t2, id2) == t1 > t2 \/ (t1 = t2 /\ id1 > id2)

Later(a, b) == IF a > b THEN a ELSE b

-----------------------------------------------------------------------------
(* requestCS *)

\* requestCS is called; m_Ticks[m_Id]++ reads the counter.
RequestCS(n) ==
    /\ pc[n] = "idle"
    /\ calls[n] < MaxCalls[n]
    /\ calls' = [calls EXCEPT ![n] = @ + 1]
    /\ local' = [local EXCEPT ![n] = m_Ticks[n][n]]
    /\ pc' = [pc EXCEPT ![n] = "tick"]
    /\ UNCHANGED <<channel, m_Ticks, m_RequestQ, todo, peer, handler>>

\* ... and writes it back, over whatever the handler wrote in between.
Tick(n) ==
    /\ pc[n] = "tick"
    /\ m_Ticks' = [m_Ticks EXCEPT ![n][n] = local[n] + 1]
    /\ local' = [local EXCEPT ![n] = 0]
    /\ pc' = [pc EXCEPT ![n] = "ticked"]
    /\ UNCHANGED <<channel, m_RequestQ, todo, peer, calls, handler>>

\* ticks = GetValue(m_Id); m_RequestQ[m_Id] = ticks.
Enqueue(n) ==
    /\ pc[n] = "ticked"
    /\ m_RequestQ' = [m_RequestQ EXCEPT ![n][n] = m_Ticks[n][n]]
    /\ local' = [local EXCEPT ![n] = m_Ticks[n][n]]
    /\ todo' = [todo EXCEPT ![n] = Peers(n)]
    /\ pc' = [pc EXCEPT ![n] = "request"]
    /\ UNCHANGED <<channel, m_Ticks, peer, calls, handler>>

\* One iteration of BroadcastMsg(REQUEST, ticks, CORE_LAYER); after the last
\* one the thread goes on to cv_Wait.wait.
BroadcastRequest(n, d) ==
    /\ pc[n] = "request"
    /\ d \in todo[n]
    /\ channel' = SendMsg(channel, n, d, "REQUEST", local[n])
    /\ IF todo[n] = {d}
       THEN /\ pc' = [pc EXCEPT ![n] = "okeyCS"]
            /\ todo' = [todo EXCEPT ![n] = Peers(n)]
            /\ local' = [local EXCEPT ![n] = 0]
       ELSE /\ todo' = [todo EXCEPT ![n] = @ \ {d}]
            /\ UNCHANGED <<pc, local>>
    /\ UNCHANGED <<m_Ticks, m_RequestQ, peer, calls, handler>>

\* okeyCS holds mtx_RequestQ from the first peer it looks at to the last.
QueueLocked(n) ==
    \/ pc[n] = "okeyClock"
    \/ pc[n] = "okeyCS" /\ todo[n] # Peers(n)

\* okeyCS, the queue entry of the next peer d: an earlier request makes it
\* false.  (Without an entry of its own it is true at once.)
CheckQueue(n, d) ==
    /\ pc[n] = "okeyCS"
    /\ d \in todo[n]
    /\ LET mine == m_RequestQ[n][n]
           blocked == m_RequestQ[n][d] # 0
                        /\ isGreater(mine, n, m_RequestQ[n][d], d)
       IN  /\ pc' = [pc EXCEPT ![n] = IF mine = 0 THEN "cs"
                                      ELSE IF blocked THEN "blocking"
                                      ELSE "okeyClock"]
           /\ todo' = [todo EXCEPT ![n] = IF mine = 0 \/ blocked THEN {} ELSE @ \ {d}]
           /\ peer' = [peer EXCEPT ![n] = IF mine = 0 \/ blocked THEN n ELSE d]
    /\ UNCHANGED <<channel, m_Ticks, m_RequestQ, local, calls, handler>>

\* okeyCS, the clock entry of the same peer: it is false until a message of
\* that peer carries a time after the request, and true after the last peer.
CheckClock(n) ==
    /\ pc[n] = "okeyClock"
    /\ LET blocked == isGreater(m_RequestQ[n][n], n, m_Ticks[n][peer[n]], peer[n])
       IN  /\ pc' = [pc EXCEPT ![n] = IF blocked THEN "blocking"
                                      ELSE IF todo[n] = {} THEN "cs"
                                      ELSE "okeyCS"]
           /\ todo' = [todo EXCEPT ![n] = IF blocked THEN {} ELSE @]
    /\ peer' = [peer EXCEPT ![n] = n]
    /\ UNCHANGED <<channel, m_Ticks, m_RequestQ, local, calls, handler>>

\* okeyCS was false: cv_Wait blocks.  A notify before this step is lost, the
\* notifier does not hold mtx_Wait.
Sleep(n) ==
    /\ pc[n] = "blocking"
    /\ pc' = [pc EXCEPT ![n] = "asleep"]
    /\ UNCHANGED <<channel, m_Ticks, m_RequestQ, local, todo, peer, calls, handler>>

\* Waking: the caller of n, if it sleeps in cv_Wait, evaluates okeyCS again.
WakeUp(n) ==
    IF pc[n] = "asleep"
    THEN /\ pc' = [pc EXCEPT ![n] = "okeyCS"]
         /\ todo' = [todo EXCEPT ![n] = Peers(n)]
    ELSE UNCHANGED <<pc, todo>>

\* A condition variable may wake without a notify; nothing says it will.
SpuriousWakeup(n) ==
    /\ pc[n] = "asleep"
    /\ WakeUp(n)
    /\ UNCHANGED <<channel, m_Ticks, m_RequestQ, local, peer, calls, handler>>

-----------------------------------------------------------------------------
(* releaseCS *)

\* Mutant: the own entry stays in the queue.
ReleaseCSKeepsEntry(n) ==
    /\ pc[n] = "cs"
    /\ local' = [local EXCEPT ![n] = m_Ticks[n][n]]
    /\ todo' = [todo EXCEPT ![n] = Peers(n)]
    /\ pc' = [pc EXCEPT ![n] = "release"]
    /\ UNCHANGED <<channel, m_Ticks, m_RequestQ, peer, calls, handler>>

\* The own entry is erased and GetValue(m_Id) is read for the broadcast.
ReleaseCS(n) ==
    /\ pc[n] = "cs"
    /\ m_RequestQ' = [m_RequestQ EXCEPT ![n][n] = 0]
    /\ local' = [local EXCEPT ![n] = m_Ticks[n][n]]
    /\ todo' = [todo EXCEPT ![n] = Peers(n)]
    /\ pc' = [pc EXCEPT ![n] = "release"]
    /\ UNCHANGED <<channel, m_Ticks, peer, calls, handler>>

\* One iteration of BroadcastMsg(RELEASE, ...); after the last one releaseCS
\* returns.
BroadcastRelease(n, d) ==
    /\ pc[n] = "release"
    /\ d \in todo[n]
    /\ channel' = SendMsg(channel, n, d, "RELEASE", local[n])
    /\ todo' = [todo EXCEPT ![n] = @ \ {d}]
    /\ IF todo[n] = {d}
       THEN /\ pc' = [pc EXCEPT ![n] = "idle"]
            /\ local' = [local EXCEPT ![n] = 0]
       ELSE UNCHANGED <<pc, local>>
    /\ UNCHANGED <<m_Ticks, m_RequestQ, peer, calls, handler>>

-----------------------------------------------------------------------------
(* HandleMsg, on the ClientService thread that holds mtx_CallbackWait *)

\* HandleMsg ends with cv_Wait.notify_all, which wakes the caller only if it
\* already sleeps, and mtx_CallbackWait is free again.
NotifyAll(n) ==
    /\ handler' = [handler EXCEPT ![n] = IdleHandler(n)]
    /\ WakeUp(n)

\* A message of s is taken; RecieveAction raises the entry of the sender and
\* reads the own one.
HandleMsg(n, s) ==
    /\ handler[n].at = "idle"
    /\ channel[s][n] # <<>>
    /\ LET m == Head(channel[s][n])
       IN  /\ m_Ticks' = [m_Ticks EXCEPT ![n][s] = Later(@, m.data)]
           /\ handler' = [handler EXCEPT ![n] =
                            [at |-> "own", src |-> s, tag |-> m.tag,
                             ticks |-> m.data, own |-> m_Ticks[n][n]]]
    /\ channel' = ReceiveMsg(channel, s, n)
    /\ UNCHANGED <<m_RequestQ, callerVars>>

\* RecieveAction writes the own entry.
RecieveAction(n) ==
    /\ handler[n].at = "own"
    /\ m_Ticks' = [m_Ticks EXCEPT ![n][n] =
                     Later(handler[n].own, handler[n].ticks) + 1]
    /\ handler' = [handler EXCEPT ![n] = GoOn(@, "switch", 0)]
    /\ UNCHANGED <<channel, m_RequestQ, callerVars>>

\* REQUEST: the request is recorded, and GetValue(m_Id) read for the answer.
HandleRequest(n) ==
    /\ handler[n].at = "switch"
    /\ handler[n].tag = "REQUEST"
    /\ m_RequestQ' = [m_RequestQ EXCEPT ![n][handler[n].src] = handler[n].ticks]
    /\ handler' = [handler EXCEPT ![n] = GoOn(@, "ack", m_Ticks[n][n])]
    /\ UNCHANGED <<channel, m_Ticks, callerVars>>

\* Mutant: the answer has the tag OK, which nobody handles.
SendAckAsOk(n) ==
    /\ handler[n].at = "ack"
    /\ channel' = SendMsg(channel, n, handler[n].src, "OK", handler[n].own)
    /\ NotifyAll(n)
    /\ UNCHANGED <<m_Ticks, m_RequestQ, local, peer, calls>>

\* The answer is sent and the caller notified.
SendAck(n) ==
    /\ handler[n].at = "ack"
    /\ channel' = SendMsg(channel, n, handler[n].src, "ACK", handler[n].own)
    /\ NotifyAll(n)
    /\ UNCHANGED <<m_Ticks, m_RequestQ, local, peer, calls>>

\* Mutant: a RELEASE leaves the request in the queue.
HandleReleaseKeepsEntry(n) ==
    /\ handler[n].at = "switch"
    /\ handler[n].tag = "RELEASE"
    /\ ~QueueLocked(n)
    /\ NotifyAll(n)
    /\ UNCHANGED <<channel, m_Ticks, m_RequestQ, local, peer, calls>>

\* RELEASE: the request is erased under mtx_RequestQ, which okeyCS may hold.
HandleRelease(n) ==
    /\ handler[n].at = "switch"
    /\ handler[n].tag = "RELEASE"
    /\ ~QueueLocked(n)
    /\ m_RequestQ' = [m_RequestQ EXCEPT ![n][handler[n].src] = 0]
    /\ NotifyAll(n)
    /\ UNCHANGED <<channel, m_Ticks, local, peer, calls>>

\* Any other tag only moves the clock.
HandleOther(n) ==
    /\ handler[n].at = "switch"
    /\ handler[n].tag \notin {"REQUEST", "RELEASE"}
    /\ NotifyAll(n)
    /\ UNCHANGED <<channel, m_Ticks, m_RequestQ, local, peer, calls>>

-----------------------------------------------------------------------------
\* requestCS from the call to its return, without the call itself.
Acquire(n) ==
    \/ Tick(n) \/ Enqueue(n) \/ CheckClock(n) \/ Sleep(n)
    \/ \E d \in Peers(n) : BroadcastRequest(n, d) \/ CheckQueue(n, d)

\* The rest of releaseCS.
Leave(n) == \E d \in Peers(n) : BroadcastRelease(n, d)

\* HandleMsg after it has taken its message.
Handle(n) ==
    \/ RecieveAction(n) \/ HandleRequest(n) \/ SendAck(n)
    \/ HandleRelease(n) \/ HandleOther(n)

Take(n) == \E s \in Peers(n) : HandleMsg(n, s)

\* Every node calls requestCS and releaseCS on a thread of its own, as the
\* test code kept in CoreNode::Run does.
Next ==
    \E n \in Node :
        \/ RequestCS(n) \/ Acquire(n) \/ SpuriousWakeup(n)
        \/ ReleaseCS(n) \/ Leave(n)
        \/ Handle(n) \/ Take(n)

Spec == Init /\ [][Next]_lmVars

\* Threads that can run do run, and a critical section ends.  A handler that
\* waits for mtx_RequestQ gets it although okeyCS may lock it again and again.
\* Nobody has to call requestCS, and nothing makes a wakeup spurious.
Fairness ==
    \A n \in Node :
        /\ WF_lmVars(Acquire(n)) /\ WF_lmVars(ReleaseCS(n)) /\ WF_lmVars(Leave(n))
        /\ WF_lmVars(Take(n)) /\ WF_lmVars(Handle(n)) /\ SF_lmVars(HandleRelease(n))

FairSpec == Spec /\ Fairness

-----------------------------------------------------------------------------
(* Properties *)

\* Between the call of requestCS and the end of releaseCS's broadcast no two
\* nodes are in the critical section together: what CoreNode expects of its
\* "Lamport mutex for the core layer transactions" (CoreNode.h:17).
MutualExclusion ==
    \A m, n \in Node : pc[m] = "cs" /\ pc[n] = "cs" => m = n

\* m has still to send n the REQUEST or RELEASE of its current broadcast.
ToTell(m, n) == pc[m] \in {"request", "release"} /\ n \in todo[m]

\* The places of the REQUESTs and RELEASEs in the stream from m to n.
Told(m, n) ==
    {i \in DOMAIN channel[m][n] : channel[m][n][i].tag \in {"REQUEST", "RELEASE"}}

\* n's handler has taken a REQUEST or RELEASE of m and not applied it yet.
Hearing(m, n) ==
    /\ handler[n].at \in {"own", "switch"}
    /\ handler[n].src = m
    /\ handler[n].tag \in {"REQUEST", "RELEASE"}

\* The entry of m_RequestQ that a REQUEST or RELEASE leads to.
Entry(tag, ticks) == IF tag = "REQUEST" THEN ticks ELSE 0

\* The last word on m's request that n has not yet applied (to be sent, in the
\* stream, in n's handler) agrees with m's own entry; if there is no such word,
\* n's entry for m does.
LastWord(m, n) ==
    /\ ToTell(m, n) =>
         m_RequestQ[m][m] = IF pc[m] = "request" THEN local[m] ELSE 0
    /\ ~ToTell(m, n) =>
         \A i \in Told(m, n) :
            (\A j \in Told(m, n) : j <= i) =>
               m_RequestQ[m][m] = Entry(channel[m][n][i].tag, channel[m][n][i].data)
    /\ ~ToTell(m, n) /\ Told(m, n) = {} /\ Hearing(m, n) =>
         m_RequestQ[m][m] = Entry(handler[n].tag, handler[n].ticks)
    /\ ~ToTell(m, n) /\ Told(m, n) = {} /\ ~Hearing(m, n) =>
         m_RequestQ[m][m] = m_RequestQ[n][m]

\* Once a node has applied everything a peer has told it and will tell it in
\* its current broadcast, its m_RequestQ shows that peer's request exactly as
\* the peer has it.  requestCS, releaseCS and the branches of HandleMsg keep it
\* together, on two nodes and four threads (LamportMutex.cpp:17-34, 88-97).
QueuesSettle == \A n \in Node : \A m \in Peers(n) : LastWord(m, n)

\* What okeyCS returns when it is evaluated at once.
OkeyCS(n) ==
    \A d \in Peers(n) :
        /\ m_RequestQ[n][d] # 0 =>
              ~isGreater(m_RequestQ[n][n], n, m_RequestQ[n][d], d)
        /\ ~isGreater(m_RequestQ[n][n], n, m_Ticks[n][d], d)

\* The caller of n sleeps although okeyCS holds, and no message is left whose
\* handler would wake it: it missed the last notify_all.
MissedNotify(n) ==
    /\ pc[n] = "asleep"
    /\ OkeyCS(n)
    /\ handler[n].at = "idle"
    /\ \A s \in Node : channel[s][n] = <<>>
=============================================================================
