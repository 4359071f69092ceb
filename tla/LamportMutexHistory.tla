------------------------ MODULE LamportMutexHistory ------------------------
(***************************************************************************)
(* LamportMutex with a history variable that records which of its three    *)
(* races between the caller's thread and the handler's thread of one node  *)
(* have happened.  The state of LamportMutex does not depend on it.        *)
(***************************************************************************)
EXTENDS LamportMutex

CONSTANT Watched    \* the kinds of race that are recorded

Race == {"answer", "queue", "clock"}

ASSUME WatchedAssumption == Watched \subseteq Race

VARIABLE raced      \* the kinds of race that have happened

historyVars == <<lmVars, raced>>

\* answer: the handler of n answers a peer between the caller's reading of the
\* clock for its own request and the sending of that REQUEST to the peer.  The
\* peer gets a later time from n before it gets n's earlier request.
AnswersInRequest(n) ==
    /\ handler[n].at = "ack"
    /\ handler'[n].at = "idle"
    /\ \/ pc[n] \in {"tick", "ticked"}
       \/ pc[n] = "request" /\ handler[n].src \in todo[n]

\* queue: the handler of n inserts a peer's request, without mtx_RequestQ, when
\* okeyCS has found no request of that peer and not yet looked at its clock.
QueuesInOkeyCS(n) ==
    /\ handler[n].at = "switch"
    /\ handler'[n].at = "ack"
    /\ pc[n] = "okeyClock"
    /\ peer[n] = handler[n].src

\* clock: Tick writes back a clock value the handler has meanwhile passed.
TicksBack(n) == m_Ticks'[n][n] < m_Ticks[n][n]

Races(r, n) ==
    \/ r = "answer" /\ AnswersInRequest(n)
    \/ r = "queue" /\ QueuesInOkeyCS(n)
    \/ r = "clock" /\ TicksBack(n)

HInit == Init /\ raced = {}

HNext ==
    /\ Next
    /\ raced' = raced \cup {r \in Watched : \E n \in Node : Races(r, n)}

HSpec == HInit /\ [][HNext]_historyVars

FairHSpec == HSpec /\ Fairness

-----------------------------------------------------------------------------
(* Properties *)

\* Two nodes are in the critical section together only after one of the races:
\* the handler answered inside a request or queued inside okeyCS, or Tick
\* undid the handler's clock (LamportMutex.cpp:20-23 and 49-54, which share no
\* lock with lines 84-90).  Without them the protocol keeps its promise, and
\* none of the three is harmless.
MutexUnlessRaced == raced # {} \/ MutualExclusion

\* Every requestCS returns, unless some caller missed the notify_all that
\* HandleMsg gives without holding mtx_Wait, or a clock went back, after which
\* a peer may never be sent a time later than its request.  No other order of
\* REQUEST, ACK and RELEASE blocks a caller for ever.
EnterUnlessMissed ==
    \A n \in Node :
        pc[n] = "tick" ~> \/ pc[n] = "cs"
                          \/ "clock" \in raced
                          \/ \E m \in Node : MissedNotify(m)
=============================================================================
