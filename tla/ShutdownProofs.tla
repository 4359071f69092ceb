---------------------------- MODULE ShutdownProofs ----------------------------
(***************************************************************************)
(* That the nodes are destroyed in peace, for any number of nodes,         *)
(* connections and writes: what must be answered has been when the first   *)
(* of them goes, and if nothing else is on its way nothing is cut off.     *)
(***************************************************************************)
EXTENDS Shutdown, SequenceTheorems, TLAPS

\* The frames of a write that is under way.
Answer == {"write", "ready"}

Clear(s) == \A i \in 1 .. Len(s) : s[i] \notin Answer

\* f is the only one of them in s.
Lone(s, f) ==
    \E i \in 1 .. Len(s) :
        s[i] = f /\ \A j \in 1 .. Len(s) : j # i => s[j] \notin Answer

\* The thread of end p has received f and has still to handle it.
Works(p, f) == service[p] \in {"call", "handle"} /\ frame[p] = f

Rests(p) == \A f \in Answer : ~Works(p, f)

Silent(p) == Clear(stream[p]) /\ Rests(p)

\* Between the writer p[1] and its peer p[2] there is at most one such frame: the
\* write, on its way or at the peer, or the READY, on its way or at the writer.
Exchange(p) ==
    LET q == Reverse(p)
    IN  \/ Silent(p) /\ Silent(q)
        \/ Lone(stream[p], "write") /\ Clear(stream[q]) /\ Rests(p) /\ Rests(q)
        \/ Works(q, "write") /\ Clear(stream[p]) /\ Clear(stream[q]) /\ Rests(p)
        \/ Lone(stream[q], "ready") /\ Clear(stream[p]) /\ Rests(p) /\ Rests(q)
        \/ Works(p, "ready") /\ Clear(stream[p]) /\ Clear(stream[q]) /\ Rests(q)

\* The ends between which there may be one.
Waited(p) == p[1] = writer /\ p[2] \in Peers(writer) /\ p[2] \notin ready

Protocol ==
    writer # Hung =>
        \A p \in Pair : \/ Silent(p) /\ Silent(Reverse(p))
                        \/ Waited(p) /\ Exchange(p)
                        \/ Waited(Reverse(p)) /\ Exchange(Reverse(p))

\* What main has done: nothing is destroyed before the watcher's thread and the
\* Run threads have returned.
Progress ==
    /\ main \notin {"nodes", "done"} => /\ next = 1 /\ ~aborted
                                        /\ \A n \in Node : stage[n] = "whole"
    /\ main = "nodes" => next <= Len(Order)
    /\ main \in {"watcher", "nodes", "done"} => \A n \in Relay : run[n] = "ended"
    /\ main \in {"nodes", "done"} => writer = Nobody
    /\ \A p \in Pair : socket[p] = "none" => service[p] = "none"

\* If nothing was on its way when the first node went, nothing is from then on.
Peace ==
    main \in {"nodes", "done"} /\ ~busy =>
        /\ ~aborted
        /\ \A p \in Pair : /\ stream[p] = <<>>
                           /\ service[p] \in {"none", "peek", "ended"}
                           /\ socket[p] # "none"

ShutdownInv == ShutdownTypeOK /\ Protocol /\ Progress /\ Peace

-----------------------------------------------------------------------------
(* Frames *)

\* The frames of a write stay alone when others follow them.
LEMMA OthersFollow ==
    ASSUME NEW s \in Seq(Frame), NEW f \in Frame, f \notin Answer
    PROVE  /\ Clear(s) => Clear(Append(s, f))
           /\ \A g \in Answer : Lone(s, g) => Lone(Append(s, f), g)
<1> DEFINE t == Append(s, f)
           n == Len(s)
<1>1. /\ n \in Nat /\ Len(t) = n + 1 /\ t[n + 1] = f
      /\ \A i \in 1 .. n : t[i] = s[i]
  BY AppendProperties
<1> SUFFICES /\ Clear(s) => Clear(t)
             /\ \A g \in Answer : Lone(s, g) => Lone(t, g)
  OBVIOUS
<1> HIDE DEF t
<1>2. \A i \in 1 .. Len(t) : (i = n + 1 \/ i \in 1 .. n)
  BY <1>1
<1>3. \A i \in 1 .. n : i \in 1 .. Len(t)
  BY <1>1
<1>4. Clear(s) => Clear(t)
  BY <1>1, <1>2 DEF Clear
<1>5. ASSUME NEW g \in Answer, Lone(s, g) PROVE Lone(t, g)
  <2>1. PICK i \in 1 .. n : s[i] = g /\ \A j \in 1 .. n : j # i => s[j] \notin Answer
    BY <1>5 DEF Lone
  <2>2. i \in 1 .. Len(t) /\ t[i] = g
    BY <1>1, <1>3, <2>1
  <2>3. \A j \in 1 .. Len(t) : j # i => t[j] \notin Answer
    BY <1>1, <1>2, <2>1
  <2> QED  BY <2>2, <2>3 DEF Lone
<1> QED  BY <1>4, <1>5

\* The first of them is alone.
LEMMA OneFollows ==
    ASSUME NEW s \in Seq(Frame), NEW f \in Frame, Clear(s)
    PROVE  Lone(Append(s, f), f)
<1> DEFINE t == Append(s, f)
           n == Len(s)
<1>1. /\ n \in Nat /\ Len(t) = n + 1 /\ t[n + 1] = f
      /\ \A i \in 1 .. n : t[i] = s[i]
  BY AppendProperties
<1> SUFFICES Lone(t, f)
  OBVIOUS
<1> HIDE DEF t
<1>2. \A i \in 1 .. Len(t) : (i = n + 1 \/ i \in 1 .. n)
  BY <1>1
<1>3. n + 1 \in 1 .. Len(t)
  BY <1>1
<1> QED  BY <1>1, <1>2, <1>3 DEF Lone, Clear

\* Either it is taken and no other is left, or it is not the first.
LEMMA FirstTaken ==
    ASSUME NEW s \in Seq(Frame), s # <<>>
    PROVE  /\ Clear(s) => Head(s) \notin Answer /\ Clear(Tail(s))
           /\ \A f \in Answer : Lone(s, f) =>
                \/ Head(s) = f /\ Clear(Tail(s))
                \/ Head(s) \notin Answer /\ Lone(Tail(s), f)
<1> DEFINE t == Tail(s)
           n == Len(t)
<1>1. /\ n \in Nat /\ Len(s) = n + 1 /\ Head(s) = s[1]
      /\ \A i \in 1 .. n : t[i] = s[i + 1]
  BY HeadTailProperties
<1> SUFFICES /\ Clear(s) => s[1] \notin Answer /\ Clear(t)
             /\ \A f \in Answer : Lone(s, f) =>
                  \/ s[1] = f /\ Clear(t)
                  \/ s[1] \notin Answer /\ Lone(t, f)
  BY <1>1
<1> HIDE DEF t
<1>2. 1 \in 1 .. Len(s) /\ \A i \in 1 .. n : i + 1 \in 1 .. Len(s) /\ i + 1 # 1
  BY <1>1
<1>3. Clear(s) => s[1] \notin Answer /\ Clear(t)
  BY <1>1, <1>2 DEF Clear
<1>4. ASSUME NEW f \in Answer, Lone(s, f)
      PROVE  \/ s[1] = f /\ Clear(t)
             \/ s[1] \notin Answer /\ Lone(t, f)
  <2>1. PICK i \in 1 .. Len(s) : s[i] = f /\ \A j \in 1 .. Len(s) : j # i => s[j] \notin Answer
    BY <1>4 DEF Lone
  <2>2. CASE i = 1
    <3>1. \A j \in 1 .. n : t[j] \notin Answer
      BY <1>1, <1>2, <2>1, <2>2
    <3> QED  BY <2>1, <2>2, <3>1 DEF Clear
  <2>3. CASE i # 1
    <3>1. i - 1 \in 1 .. n /\ (i - 1) + 1 = i
      BY <1>1, <2>3
    <3>2. t[i - 1] = f
      BY <1>1, <2>1, <3>1
    <3>3. \A j \in 1 .. n : j # i - 1 => j + 1 # i
      BY <1>1, <3>1
    <3>4. \A j \in 1 .. n : j # i - 1 => t[j] \notin Answer
      BY <1>1, <1>2, <2>1, <3>3
    <3>5. s[1] \notin Answer
      BY <1>2, <2>1, <2>3
    <3> QED  BY <3>1, <3>2, <3>4, <3>5 DEF Lone
  <2> QED  BY <2>2, <2>3
<1> QED  BY <1>3, <1>4

\* The two ends of a connection.
LEMMA PairFacts ==
    \A p \in Pair : /\ Reverse(p) \in Pair /\ Reverse(Reverse(p)) = p /\ Reverse(p) # p
                    /\ p[1] \in Node /\ p[2] \in Node /\ p[1] # p[2]
                    /\ Reverse(p)[1] = p[2] /\ Reverse(p)[2] = p[1]
                    /\ p = <<p[1], p[2]>>
<1>1. ASSUME NEW l \in Links
      PROVE  /\ l = <<l[1], l[2]>> /\ l[1] \in Node /\ l[2] \in Node /\ l[1] # l[2]
  BY ShutdownAssumption
<1>2. ASSUME NEW p \in Pair
      PROVE  p \in Links \/ \E l \in Links : p = <<l[2], l[1]>>
  BY DEF Pair
<1>3. ASSUME NEW l \in Links
      PROVE  l \in Pair /\ <<l[2], l[1]>> \in Pair
  BY DEF Pair
<1>4. ASSUME NEW p \in Pair
      PROVE  /\ p = <<p[1], p[2]>> /\ p[1] \in Node /\ p[2] \in Node /\ p[1] # p[2]
             /\ <<p[2], p[1]>> \in Pair
  <2>1. CASE p \in Links
    BY <1>1, <1>3, <2>1
  <2>2. ASSUME NEW l \in Links, p = <<l[2], l[1]>>
        PROVE  /\ p = <<p[1], p[2]>> /\ p[1] \in Node /\ p[2] \in Node /\ p[1] # p[2]
               /\ <<p[2], p[1]>> \in Pair
    <3>1. p[1] = l[2] /\ p[2] = l[1]
      BY <2>2
    <3> QED  BY <1>1, <1>3, <2>2, <3>1
  <2> QED  BY <1>2, <2>1, <2>2
<1> QED  BY <1>4 DEF Reverse

\* SendMsg adds at most f, to what n sends to dests.
LEMMA SentStep ==
    ASSUME NEW str \in [Pair -> Seq(Frame)], NEW n, NEW dests, NEW f \in Frame
    PROVE  /\ Sent(str, n, dests, f) \in [Pair -> Seq(Frame)]
           /\ \A p \in Pair : \/ Sent(str, n, dests, f)[p] = str[p]
                              \/ /\ Sent(str, n, dests, f)[p] = Append(str[p], f)
                                 /\ p[1] = n /\ p[2] \in dests
<1>1. \A p \in Pair : Append(str[p], f) \in Seq(Frame)
  OBVIOUS
<1> QED  BY <1>1 DEF Sent

-----------------------------------------------------------------------------
(* Types *)

\* Who is destroyed.
LEMMA OrderFacts ==
    /\ Len(Order) \in Nat /\ Len(Order) >= 1
    /\ \A i \in 1 .. Len(Order) : Order[i] \in Node
    /\ Core \subseteq Node /\ Relay \subseteq Node
    /\ Nobody \notin Core /\ Hung \notin Core /\ Nobody # Hung
BY ShutdownAssumption DEF Nobody, Hung, Relay, Node

\* The steps of the threads of the nodes keep the types.
LEMMA TypeThreads ==
    ASSUME ShutdownTypeOK,
           \/ \E n \in Core : StartWrite(n) \/ EndWrite(n)
           \/ \E n \in Relay : Broadcast(n) \/ Wakeup(n)
           \/ \E p \in Pair : ClientService(p)
           \/ \E l \in Links : Accept(l)
           \/ \E n \in Node : AcceptFails(n)
    PROVE  ShutdownTypeOK'
<1>0. stream \in [Pair -> Seq(Frame)] /\ {"write", "ready", "release", "set"} \subseteq Frame
  BY DEF ShutdownTypeOK, Frame
<1>1. ASSUME NEW n \in Core, StartWrite(n) PROVE ShutdownTypeOK'
  <2>1. PICK down \in {{}, Down[n]} :
           stream' = Sent(Sent(stream, n, Peers(n), "write"), n, down, "set")
    BY <1>1 DEF StartWrite
  <2>2. Sent(stream, n, Peers(n), "write") \in [Pair -> Seq(Frame)]
    BY <1>0, SentStep
  <2>3. stream' \in [Pair -> Seq(Frame)]
    BY <1>0, <2>1, <2>2, SentStep
  <2>4. writes' \in 0 .. MaxWrites
    BY <1>1, ShutdownAssumption DEF StartWrite, ShutdownTypeOK
  <2> QED  BY <1>1, <2>3, <2>4 DEF StartWrite, mainVars, runVars, ShutdownTypeOK
<1>2. ASSUME NEW n \in Core, EndWrite(n) PROVE ShutdownTypeOK'
  <2>1. stream' \in [Pair -> Seq(Frame)]
    <3>1. Sent(stream, n, Peers(n), "release") \in [Pair -> Seq(Frame)]
      BY <1>0, SentStep
    <3> QED  BY <1>0, <1>2, <3>1 DEF EndWrite
  <2>2. writer' \in Core \cup {Nobody, Hung}
    BY <1>2 DEF EndWrite
  <2> QED  BY <1>2, <2>1, <2>2 DEF EndWrite, mainVars, runVars, ShutdownTypeOK
<1>3. ASSUME NEW n \in Relay, Broadcast(n) PROVE ShutdownTypeOK'
  <2>1. stream' \in [Pair -> Seq(Frame)]
    <3>1. Sent(stream, n, Down[n], "set") \in [Pair -> Seq(Frame)]
      BY <1>0, SentStep
    <3> QED  BY <1>3, <3>1 DEF Broadcast
  <2> QED  BY <1>3, <2>1 DEF Broadcast, mainVars, writerVars, ShutdownTypeOK
<1>4. ASSUME NEW n \in Relay, Wakeup(n) PROVE ShutdownTypeOK'
  <2>1. rounds' \in [Relay -> 0 .. MaxRounds]
    <3>1. rounds[n] \in 0 .. MaxRounds /\ MaxRounds \in Nat
      BY ShutdownAssumption DEF ShutdownTypeOK
    <3>2. rounds[n] < MaxRounds => rounds[n] + 1 \in 0 .. MaxRounds
      BY <3>1
    <3> QED  BY <1>4, <3>2 DEF Wakeup, ShutdownTypeOK
  <2>2. run' \in [Relay -> {"broadcast", "wait", "ended"}]
    BY <1>4 DEF Wakeup, ShutdownTypeOK
  <2> QED  BY <1>4, <2>1, <2>2 DEF Wakeup, mainVars, threadVars, writerVars, ShutdownTypeOK
<1>5. ASSUME NEW p \in Pair, IncommingReadFrom(p) PROVE ShutdownTypeOK'
  BY <1>5 DEF IncommingReadFrom, ServiceGoes, mainVars, runVars, writerVars, ShutdownTypeOK
<1>6. ASSUME NEW p \in Pair, ReceiveMsg(p) PROVE ShutdownTypeOK'
  <2>1. CASE socket[p] = "open" /\ stream[Reverse(p)] # <<>>
    <3>1. stream[Reverse(p)] \in Seq(Frame) /\ stream[Reverse(p)] # <<>>
      BY <2>1, PairFacts DEF ShutdownTypeOK
    <3>2. Head(stream[Reverse(p)]) \in Frame /\ Tail(stream[Reverse(p)]) \in Seq(Frame)
      BY <3>1, HeadTailProperties
    <3> DEFINE h == Head(stream[Reverse(p)])
               t == Tail(stream[Reverse(p)])
    <3>3. /\ frame' = [frame EXCEPT ![p] = h]
          /\ stream' = [stream EXCEPT ![Reverse(p)] = t]
      BY <1>6, <2>1 DEF ReceiveMsg
    <3> HIDE DEF h, t
    <3>4. h \in Frame /\ t \in Seq(Frame)
      BY <3>2 DEF h, t
    <3>5. frame' \in [Pair -> Frame \cup {Zero}] /\ stream' \in [Pair -> Seq(Frame)]
      BY <3>3, <3>4 DEF ShutdownTypeOK
    <3> QED  BY <1>6, <3>5 DEF ReceiveMsg, ServiceGoes, mainVars, runVars, writerVars, ShutdownTypeOK
  <2>2. CASE ~(socket[p] = "open" /\ stream[Reverse(p)] # <<>>)
    BY <1>6, <2>2 DEF ReceiveMsg, ServiceGoes, mainVars, runVars, writerVars, ShutdownTypeOK
  <2> QED  BY <2>1, <2>2
<1>7. ASSUME NEW p \in Pair, CallHandleMsg(p) PROVE ShutdownTypeOK'
  BY <1>7 DEF CallHandleMsg, ServiceGoes, mainVars, runVars, writerVars, ShutdownTypeOK
<1>8. ASSUME NEW p \in Pair, HandleMsg(p) PROVE ShutdownTypeOK'
  <2>1. stream' \in [Pair -> Seq(Frame)]
    <3>1. CASE frame[p] = "write"
      <4>1. PICK down \in {{}, Down[p[1]]} :
               stream' = Sent(Sent(stream, p[1], down, "set"), p[1], {p[2]}, "ready")
        BY <1>8, <3>1 DEF HandleMsg
      <4>2. Sent(stream, p[1], down, "set") \in [Pair -> Seq(Frame)]
        BY <1>0, SentStep
      <4> QED  BY <1>0, <4>1, <4>2, SentStep
    <3>2. CASE frame[p] # "write"
      BY <1>8, <3>2 DEF HandleMsg, ShutdownTypeOK
    <3> QED  BY <3>1, <3>2
  <2>2. ready' \subseteq Node
    BY <1>8, PairFacts DEF HandleMsg, ShutdownTypeOK
  <2> QED  BY <1>8, <2>1, <2>2 DEF HandleMsg, ServiceGoes, mainVars, runVars, ShutdownTypeOK
<1>9. ASSUME NEW l \in Links, Accept(l) PROVE ShutdownTypeOK'
  <2>1. writer' \in Core \cup {Nobody, Hung}
    BY <1>9 DEF Accept, ShutdownTypeOK
  <2>2. late' \in BOOLEAN /\ aborted' \in BOOLEAN
    BY <1>9 DEF Accept, ShutdownTypeOK
  <2> QED  BY <1>9, <2>1, <2>2 DEF Accept, mainVars, runVars, ShutdownTypeOK
<1>10. ASSUME NEW n \in Node, AcceptFails(n) PROVE ShutdownTypeOK'
  BY <1>10 DEF AcceptFails, mainVars, threadVars, runVars, writerVars, ShutdownTypeOK
<1> QED  BY <1>1, <1>2, <1>3, <1>4, <1>5, <1>6, <1>7, <1>8, <1>9, <1>10 DEF ClientService

\* So do those of the main thread.
LEMMA TypeMain ==
    ASSUME ShutdownTypeOK, Progress, Main
    PROVE  ShutdownTypeOK'
<1>1. CASE RemoveWatch \/ ShutdownNodes \/ Wait
  BY <1>1 DEF RemoveWatch, ShutdownNodes, Wait, MainGoes, threadVars, runVars, writerVars,
              ShutdownTypeOK
<1>2. CASE JoinWatcher
  <2>1. busy' \in BOOLEAN
    BY <1>2 DEF JoinWatcher, Busy
  <2> QED  BY <1>2, <2>1 DEF JoinWatcher, MainGoes, threadVars, runVars, writerVars, ShutdownTypeOK
<1>3. ASSUME NEW n \in Node, NEW from, NEW to \in Stage, Destroys(n, from, to)
      PROVE  /\ stage' \in [Node -> Stage]
             /\ UNCHANGED <<busy, frame, aborted, run, rounds, writer, ready, writes, late>>
  BY <1>3 DEF Destroys, runVars, writerVars, ShutdownTypeOK
<1>4. ASSUME NEW n \in Node, NEW states, CloseSockets(n, states)
      PROVE  /\ socket' \in [Pair -> {"none", "open", "closed"}]
             /\ stream' \in [Pair -> Seq(Frame)]
  <2>1. <<>> \in Seq(Frame)
    OBVIOUS
  <2> QED  BY <1>4, <2>1 DEF CloseSockets, ShutdownTypeOK
<1>5. ASSUME NEW n \in Node, DestroyDerived(n) PROVE ShutdownTypeOK'
  <2>1. Destroys(n, "whole", "base") /\ "base" \in Stage
    BY <1>5 DEF DestroyDerived, Stage
  <2> QED  BY <1>3, <1>5, <2>1 DEF DestroyDerived, ShutdownTypeOK
<1>6. ASSUME NEW n \in Node, ClearSockets(n) PROVE ShutdownTypeOK'
  <2>1. Destroys(n, "base", "cleared") /\ "cleared" \in Stage /\ CloseSockets(n, {"open"})
    BY <1>6 DEF ClearSockets, Stage
  <2> QED  BY <1>3, <1>4, <1>6, <2>1 DEF ClearSockets, ShutdownTypeOK
<1>7. ASSUME NEW n \in Node, WaitServices(n) PROVE ShutdownTypeOK'
  <2>1. Destroys(n, "cleared", "server") /\ "server" \in Stage /\ CloseSockets(n, {"open"})
    BY <1>7 DEF WaitServices, Stage
  <2> QED  BY <1>3, <1>4, <1>7, <2>1 DEF WaitServices, ShutdownTypeOK
<1>8. ASSUME NEW n \in Node, JoinAccept(n) PROVE ShutdownTypeOK'
  <2>1. Destroys(n, "server", "gone") /\ "gone" \in Stage /\ CloseSockets(n, {"none"})
    BY <1>8 DEF JoinAccept, Stage
  <2>2. next <= Len(Order)
    BY <2>1 DEF Destroys, Progress
  <2>3. next' \in 1 .. Len(Order) + 1 /\ main' \in {"nodes", "done"}
    BY <1>8, <2>2, OrderFacts DEF JoinAccept, ShutdownTypeOK
  <2> QED  BY <1>3, <1>4, <1>8, <2>1, <2>3 DEF JoinAccept, ShutdownTypeOK
<1> QED  BY <1>1, <1>2, <1>5, <1>6, <1>7, <1>8 DEF Main

\* Every variable keeps its type.
LEMMA TypeNext ==
    ASSUME ShutdownTypeOK, Progress, [ShutdownNext]_vars
    PROVE  ShutdownTypeOK'
<1>1. CASE UNCHANGED vars
  BY <1>1 DEF vars, mainVars, threadVars, runVars, writerVars, ShutdownTypeOK
<1>2. CASE Main
  BY <1>2, TypeMain
<1>3. CASE ShutdownNext /\ ~Main
  BY <1>3, TypeThreads, Zenon DEF ShutdownNext
<1> QED  BY <1>1, <1>2, <1>3

-----------------------------------------------------------------------------
(* The frames of a write *)

\* A step that neither sends, receives nor handles one at p's end.
Kept(p) ==
    /\ Clear(stream[p]) => Clear(stream'[p])
    /\ \A f \in Answer : Lone(stream[p], f) => Lone(stream'[p], f)
    /\ \A f \in Answer : Works(p, f)' <=> Works(p, f)

\* What such a step leaves.
LEMMA KeptFacts ==
    ASSUME NEW p \in Pair, Kept(p), Kept(Reverse(p))
    PROVE  /\ Silent(p) => Silent(p)'
           /\ Silent(Reverse(p)) => Silent(Reverse(p))'
           /\ Exchange(p) => Exchange(p)'
<1> DEFINE q == Reverse(p)
<1>1. "write" \in Answer /\ "ready" \in Answer
  BY DEF Answer
<1>2. /\ Clear(stream[p]) => Clear(stream[p])'
      /\ Clear(stream[q]) => Clear(stream[q])'
      /\ Lone(stream[p], "write") => Lone(stream[p], "write")'
      /\ Lone(stream[q], "ready") => Lone(stream[q], "ready")'
      /\ Rests(p) => Rests(p)'
      /\ Rests(q) => Rests(q)'
      /\ Works(p, "ready") => Works(p, "ready")'
      /\ Works(q, "write") => Works(q, "write")'
  BY <1>1 DEF Kept, Rests
<1>3. Silent(p) => Silent(p)'
  BY <1>2 DEF Silent
<1>4. Silent(q) => Silent(q)'
  BY <1>2 DEF Silent
<1>5. Exchange(p) => Exchange(p)'
  BY <1>2, <1>3, <1>4 DEF Exchange
<1> QED  BY <1>3, <1>4, <1>5

\* A step that is such a one at both ends of a connection, and still waits for
\* whom it waited for.
LEMMA KeptPair ==
    ASSUME Protocol, writer # Hung, NEW p \in Pair, Kept(p), Kept(Reverse(p)),
           \A r \in Pair : Waited(r) => Waited(r)'
    PROVE  \/ Silent(p)' /\ Silent(Reverse(p))'
           \/ Waited(p)' /\ Exchange(p)'
           \/ Waited(Reverse(p))' /\ Exchange(Reverse(p))'
<1>1. Reverse(p) \in Pair /\ Reverse(Reverse(p)) = p
  BY PairFacts
<1>2. /\ Silent(p) => Silent(p)'
      /\ Silent(Reverse(p)) => Silent(Reverse(p))'
      /\ Exchange(p) => Exchange(p)'
  BY KeptFacts
<1>3. Exchange(Reverse(p)) => Exchange(Reverse(p))'
  BY <1>1, KeptFacts
<1>4. /\ Waited(p) => Waited(p)'
      /\ Waited(Reverse(p)) => Waited(Reverse(p))'
  BY <1>1
<1>5. \/ Silent(p) /\ Silent(Reverse(p))
      \/ Waited(p) /\ Exchange(p)
      \/ Waited(Reverse(p)) /\ Exchange(Reverse(p))
  BY DEF Protocol
<1> QED  BY <1>2, <1>3, <1>4, <1>5

\* A step that is such a one for all ends.
LEMMA KeptAll ==
    ASSUME Protocol, writer # Hung, \A p \in Pair : Kept(p),
           \A p \in Pair : Waited(p) => Waited(p)'
    PROVE  Protocol'
<1>1. \A p \in Pair : Kept(Reverse(p))
  BY PairFacts
<1> QED  BY <1>1, KeptPair DEF Protocol

\* A stream to which at most another frame was added.
LEMMA KeptStream ==
    ASSUME ShutdownTypeOK, NEW p \in Pair, NEW f \in Frame, f \notin Answer,
           stream'[p] = stream[p] \/ stream'[p] = Append(stream[p], f),
           \A g \in Answer : Works(p, g)' <=> Works(p, g)
    PROVE  Kept(p)
<1>1. stream[p] \in Seq(Frame)
  BY DEF ShutdownTypeOK
<1> QED  BY <1>1, OthersFollow DEF Kept

\* While nobody waits for an answer there is none.
LEMMA NobodyWaits ==
    ASSUME Protocol, writer = Nobody
    PROVE  \A p \in Pair : Silent(p)
<1>1. \A p \in Pair : ~Waited(p)
  BY PairFacts, ShutdownAssumption DEF Waited, Nobody
<1> QED  BY <1>1, PairFacts DEF Protocol, Nobody, Hung

\* A write is sent to the peers.
LEMMA ProtocolStart ==
    ASSUME ShutdownTypeOK, Protocol, NEW n \in Core, StartWrite(n)
    PROVE  Protocol'
<1>0. /\ writer = Nobody /\ writer' = n /\ ready' = {} /\ Peers(n)' = Peers(n)
      /\ UNCHANGED <<service, frame>>
  BY DEF StartWrite, Peers
<1>1. \A p \in Pair : Silent(p)
  BY <1>0, NobodyWaits
<1>2. PICK down \in {{}, Down[n]} :
         stream' = Sent(Sent(stream, n, Peers(n), "write"), n, down, "set")
  BY DEF StartWrite
<1> DEFINE mid == Sent(stream, n, Peers(n), "write")
<1>3. /\ mid \in [Pair -> Seq(Frame)] /\ stream \in [Pair -> Seq(Frame)]
      /\ \A p \in Pair : \/ mid[p] = stream[p]
                         \/ /\ mid[p] = Append(stream[p], "write")
                            /\ p[1] = n /\ p[2] \in Peers(n)
  <2>1. stream \in [Pair -> Seq(Frame)] /\ "write" \in Frame
    BY DEF ShutdownTypeOK, Frame
  <2> QED  BY <2>1, SentStep
<1>4. stream' = Sent(mid, n, down, "set")
  BY <1>2
<1> HIDE DEF mid
<1>5. \A p \in Pair : \/ stream'[p] = mid[p]
                      \/ stream'[p] = Append(mid[p], "set") /\ p[1] = n
  <2>1. "set" \in Frame
    BY DEF Frame
  <2> QED  BY <1>3, <1>4, <2>1, SentStep
<1>6. \A p \in Pair : Rests(p)'
  BY <1>0, <1>1 DEF Silent, Rests, Works
<1>7. ASSUME NEW p \in Pair
      PROVE  \/ Clear(stream'[p])
             \/ p[1] = n /\ p[2] \in Peers(n) /\ Lone(stream'[p], "write")
  <2>1. Clear(stream[p])
    BY <1>1 DEF Silent
  <2>2. \/ Clear(mid[p])
        \/ p[1] = n /\ p[2] \in Peers(n) /\ Lone(mid[p], "write")
    BY <1>3, <2>1, OneFollows DEF Frame
  <2>3. "set" \in Frame /\ "set" \notin Answer /\ "write" \in Answer /\ mid[p] \in Seq(Frame)
    BY <1>3 DEF Frame, Answer
  <2>4. /\ Clear(mid[p]) => Clear(stream'[p])
        /\ Lone(mid[p], "write") => Lone(stream'[p], "write")
    BY <1>5, <2>3, OthersFollow
  <2> QED  BY <2>2, <2>4
<1>8. ASSUME NEW p \in Pair, p[1] = n
      PROVE  \/ Silent(p)' /\ Silent(Reverse(p))'
             \/ Waited(p)' /\ Exchange(p)'
  <2>1. Clear(stream'[Reverse(p)])
    BY <1>7, <1>8, PairFacts
  <2>2. Rests(p)' /\ Rests(Reverse(p))'
    BY <1>6, PairFacts
  <2>3. CASE Clear(stream'[p])
    BY <2>1, <2>2, <2>3 DEF Silent
  <2>4. CASE p[2] \in Peers(n) /\ Lone(stream'[p], "write")
    <3>1. Waited(p)'
      BY <1>0, <1>8, <2>4 DEF Waited
    <3>2. Exchange(p)'
      BY <2>1, <2>2, <2>4 DEF Exchange
    <3> QED  BY <3>1, <3>2
  <2> QED  BY <1>7, <2>3, <2>4
<1>9. ASSUME NEW p \in Pair
      PROVE  \/ Silent(p)' /\ Silent(Reverse(p))'
             \/ Waited(p)' /\ Exchange(p)'
             \/ Waited(Reverse(p))' /\ Exchange(Reverse(p))'
  <2>1. CASE p[1] = n
    BY <1>8, <2>1
  <2>2. CASE Reverse(p)[1] = n
    BY <1>8, <2>2, PairFacts
  <2>3. CASE p[1] # n /\ Reverse(p)[1] # n
    <3>1. Clear(stream'[p]) /\ Clear(stream'[Reverse(p)])
      BY <1>7, <2>3, PairFacts
    <3>2. Rests(p)' /\ Rests(Reverse(p))'
      BY <1>6, PairFacts
    <3> QED  BY <3>1, <3>2 DEF Silent
  <2> QED  BY <2>1, <2>2, <2>3
<1> QED  BY <1>9 DEF Protocol

\* The write returns, or hangs.
LEMMA ProtocolEnd ==
    ASSUME ShutdownTypeOK, Protocol, NEW n \in Core, EndWrite(n)
    PROVE  Protocol'
<1>0. writer = n /\ Peers(n) \subseteq ready /\ UNCHANGED <<service, frame>>
  BY DEF EndWrite
<1>1. CASE writer' = Hung
  BY <1>1 DEF Protocol
<1>2. CASE writer' # Hung
  <2>1. stream' = Sent(stream, n, Peers(n), "release")
    BY <1>2 DEF EndWrite
  <2>2. "release" \in Frame /\ "release" \notin Answer /\ stream \in [Pair -> Seq(Frame)]
    BY DEF Frame, Answer, ShutdownTypeOK
  <2>3. \A p \in Pair : stream'[p] = stream[p] \/ stream'[p] = Append(stream[p], "release")
    BY <2>1, <2>2, SentStep
  <2>4. \A p \in Pair : Kept(p)
    BY <1>0, <2>2, <2>3, KeptStream DEF Works
  <2>5. \A p \in Pair : ~Waited(p)
    BY <1>0 DEF Waited
  <2>6. writer # Hung
    BY <1>0, OrderFacts
  <2> QED  BY <2>4, <2>5, <2>6, KeptAll
<1> QED  BY <1>1, <1>2

\* A Run thread sends to the layer below; it takes no part in a write.
LEMMA ProtocolBroadcast ==
    ASSUME ShutdownTypeOK, Protocol, NEW n \in Relay, Broadcast(n)
    PROVE  Protocol'
<1>1. /\ stream' = Sent(stream, n, Down[n], "set")
      /\ UNCHANGED <<service, frame, socket, writer, ready>>
  BY DEF Broadcast, writerVars
<1>2. "set" \in Frame /\ "set" \notin Answer /\ stream \in [Pair -> Seq(Frame)]
  BY DEF Frame, Answer, ShutdownTypeOK
<1>3. \A p \in Pair : stream'[p] = stream[p] \/ stream'[p] = Append(stream[p], "set")
  <2> DEFINE dests == Down[n]
             res == stream'
  <2>1. res = Sent(stream, n, dests, "set")
    BY <1>1
  <2> HIDE DEF dests, res
  <2>2. \A p \in Pair : res[p] = stream[p] \/ res[p] = Append(stream[p], "set")
    BY <1>2, <2>1, SentStep
  <2> QED  BY <2>2 DEF res
<1>4. \A p \in Pair : Kept(p)
  BY <1>1, <1>2, <1>3, KeptStream DEF Works
<1>5. \A p \in Pair : Waited(p) => Waited(p)'
  BY <1>1 DEF Waited, Peers
<1> QED  BY <1>1, <1>4, <1>5, KeptAll DEF Protocol

\* The streams and what the threads have received are as they were.
LEMMA ProtocolSame ==
    ASSUME ShutdownTypeOK, Protocol, UNCHANGED <<stream, writer, ready>>,
           \A p \in Pair : \A f \in Answer : Works(p, f)' <=> Works(p, f),
           writer \in Core => UNCHANGED socket
    PROVE  Protocol'
<1>1. \A p \in Pair : Kept(p)
  BY DEF Kept
<1>2. ASSUME NEW p \in Pair, Waited(p), writer # Hung PROVE Waited(p)'
  <2>1. writer \in Core
    BY <1>2, PairFacts, ShutdownAssumption DEF Waited, ShutdownTypeOK, Nobody
  <2> QED  BY <1>2, <2>1 DEF Waited, Peers
<1> QED  BY <1>1, <1>2, KeptAll DEF Protocol

\* A thread peeks, or begins to handle what it has.
LEMMA ProtocolPeek ==
    ASSUME ShutdownTypeOK, Protocol, NEW p \in Pair,
           IncommingReadFrom(p) \/ CallHandleMsg(p)
    PROVE  Protocol'
<1>1. UNCHANGED <<stream, writer, ready, socket, frame>>
  BY DEF IncommingReadFrom, CallHandleMsg, ServiceGoes, writerVars
<1>2. ASSUME NEW q \in Pair, NEW f \in Answer PROVE Works(q, f)' <=> Works(q, f)
  <2>1. CASE IncommingReadFrom(p)
    <3>1. /\ service[p] = "peek"
          /\ \E to \in {"receive", "ended"} : service' = [service EXCEPT ![p] = to]
      BY <2>1 DEF IncommingReadFrom, ServiceGoes
    <3> QED  BY <1>1, <3>1 DEF Works, ShutdownTypeOK
  <2>2. CASE CallHandleMsg(p)
    <3>1. service[p] = "call" /\ service' = [service EXCEPT ![p] = "handle"]
      BY <2>2 DEF CallHandleMsg, ServiceGoes
    <3> QED  BY <1>1, <3>1 DEF Works, ShutdownTypeOK
  <2> QED  BY <2>1, <2>2
<1> QED  BY <1>1, <1>2, ProtocolSame

\* A frame moves from the stream into the thread's hands.
LEMMA ProtocolReceive ==
    ASSUME ShutdownTypeOK, Protocol, NEW p \in Pair, ReceiveMsg(p)
    PROVE  Protocol'
<1> DEFINE q == Reverse(p)
<1>0. /\ service[p] = "receive" /\ service' = [service EXCEPT ![p] = "call"]
      /\ UNCHANGED <<socket, writer, ready>>
      /\ q \in Pair /\ Reverse(q) = p /\ q # p
      /\ \A f \in Answer : ~Works(p, f)
  BY PairFacts DEF ReceiveMsg, ServiceGoes, writerVars, Works
<1>1. CASE ~(socket[p] = "open" /\ stream[q] # <<>>)
  <2>1. frame' = [frame EXCEPT ![p] = Zero] /\ stream' = stream
    BY <1>1 DEF ReceiveMsg
  <2>2. Zero \notin Answer
    BY DEF Zero, Answer
  <2>3. ASSUME NEW r \in Pair, NEW f \in Answer PROVE Works(r, f)' <=> Works(r, f)
    BY <1>0, <2>1, <2>2 DEF Works, ShutdownTypeOK
  <2> QED  BY <1>0, <2>1, <2>3, ProtocolSame
<1>2. CASE socket[p] = "open" /\ stream[q] # <<>>
  <2> DEFINE g == Head(stream[q])
             t == Tail(stream[q])
  <2>1. /\ frame' = [frame EXCEPT ![p] = g]
        /\ stream' = [stream EXCEPT ![q] = t]
    BY <1>2 DEF ReceiveMsg
  <2>2. stream[q] \in Seq(Frame) /\ stream[q] # <<>>
    BY <1>0, <1>2 DEF ShutdownTypeOK
  <2>3. /\ Clear(stream[q]) => g \notin Answer /\ Clear(t)
        /\ \A f \in Answer : Lone(stream[q], f) =>
             \/ g = f /\ Clear(t)
             \/ g \notin Answer /\ Lone(t, f)
    BY <2>2, FirstTaken
  <2> HIDE DEF g, t
  <2>4. /\ stream'[q] = t /\ stream'[p] = stream[p]
        /\ \A f \in Answer : Works(p, f)' <=> g = f
        /\ \A f \in Answer : Works(q, f)' <=> Works(q, f)
    BY <1>0, <2>1 DEF Works, ShutdownTypeOK
  <2>5. ASSUME NEW r \in Pair, r # p, r # q PROVE Kept(r)
    BY <1>0, <2>1, <2>5 DEF Kept, Works, ShutdownTypeOK
  <2>6. CASE g \notin Answer
    <3>1. Kept(p) /\ Kept(q)
      BY <1>0, <2>3, <2>4, <2>6 DEF Kept
    <3>2. \A r \in Pair : Waited(r) => Waited(r)'
      BY <1>0 DEF Waited, Peers
    <3> QED  BY <1>0, <2>5, <3>1, <3>2, KeptAll DEF Protocol
  <2>7. CASE g \in Answer /\ writer # Hung
    <3>1. ~Clear(stream[q]) /\ \A f \in Answer : Lone(stream[q], f) => g = f /\ Clear(t)
      BY <2>3, <2>7
    <3>2. "write" \in Answer /\ "ready" \in Answer
      BY DEF Answer
    <3>3. \/ Waited(p) /\ Exchange(p)
          \/ Waited(q) /\ Exchange(q)
      BY <1>0, <2>7, <3>1 DEF Protocol, Silent
    <3>4. Waited(p) /\ Exchange(p) => Exchange(p)'
      <4> SUFFICES ASSUME Exchange(p) PROVE Exchange(p)'
        OBVIOUS
      <4>1. Lone(stream[q], "ready") /\ Clear(stream[p]) /\ Rests(q)
        BY <3>1 DEF Exchange, Silent
      <4>2. g = "ready" /\ Clear(t)
        BY <3>1, <3>2, <4>1
      <4>3. Works(p, "ready")' /\ Rests(q)' /\ Clear(stream[p])' /\ Clear(stream[q])'
        BY <2>4, <3>2, <4>1, <4>2 DEF Rests
      <4> QED  BY <4>3 DEF Exchange
    <3>5. Waited(q) /\ Exchange(q) => Exchange(q)'
      <4> SUFFICES ASSUME Exchange(q) PROVE Exchange(q)'
        OBVIOUS
      <4>1. Lone(stream[q], "write") /\ Clear(stream[p]) /\ Rests(q)
        BY <1>0, <3>1 DEF Exchange, Silent
      <4>2. g = "write" /\ Clear(t)
        BY <3>1, <3>2, <4>1
      <4>3. Works(p, "write")' /\ Rests(q)' /\ Clear(stream[p])' /\ Clear(stream[q])'
        BY <2>4, <3>2, <4>1, <4>2 DEF Rests
      <4> QED  BY <1>0, <4>3 DEF Exchange
    <3>6. \A r \in Pair : Waited(r) => Waited(r)'
      BY <1>0 DEF Waited, Peers
    <3>7. \/ Waited(p)' /\ Exchange(p)'
          \/ Waited(q)' /\ Exchange(q)'
      BY <1>0, <3>3, <3>4, <3>5, <3>6
    <3>8. ASSUME NEW r \in Pair, r # p, r # q
          PROVE  \/ Silent(r)' /\ Silent(Reverse(r))'
                 \/ Waited(r)' /\ Exchange(r)'
                 \/ Waited(Reverse(r))' /\ Exchange(Reverse(r))'
      <4>1. Reverse(r) \in Pair /\ Reverse(r) # p /\ Reverse(r) # q
        BY <1>0, <3>8, PairFacts
      <4>2. Kept(r) /\ Kept(Reverse(r))
        BY <2>5, <3>8, <4>1
      <4> QED  BY <2>7, <3>6, <4>2, KeptPair
    <3> QED  BY <1>0, <3>7, <3>8 DEF Protocol
  <2> QED  BY <1>0, <2>6, <2>7 DEF Protocol
<1> QED  BY <1>1, <1>2

\* end is stream after at most two more frames, an answer only from n to dests.
Answered(end, n, dests) ==
    \E mid \in [Pair -> Seq(Frame)] :
       /\ \A r \in Pair : mid[r] = stream[r] \/ mid[r] = Append(stream[r], "set")
       /\ \A r \in Pair :
             \/ end[r] = mid[r]
             \/ end[r] = Append(mid[r], "ready") /\ r[1] = n /\ r[2] \in dests

\* Such is what a write does that is sent down and answered.
LEMMA AnswerStep ==
    ASSUME stream \in [Pair -> Seq(Frame)], NEW n, NEW dests, NEW down
    PROVE  Answered(Sent(Sent(stream, n, down, "set"), n, dests, "ready"), n, dests)
<1> DEFINE mid == Sent(stream, n, down, "set")
           end == Sent(mid, n, dests, "ready")
<1>1. "set" \in Frame /\ "ready" \in Frame
  BY DEF Frame
<1>2. /\ mid \in [Pair -> Seq(Frame)]
      /\ \A r \in Pair : mid[r] = stream[r] \/ mid[r] = Append(stream[r], "set")
  <2>1. /\ mid \in [Pair -> Seq(Frame)]
        /\ \A r \in Pair : \/ mid[r] = stream[r]
                           \/ /\ mid[r] = Append(stream[r], "set")
                              /\ r[1] = n /\ r[2] \in down
    BY <1>1, SentStep
  <2> QED  BY ONLY <2>1
<1> HIDE DEF mid
<1>3. \A r \in Pair : \/ end[r] = mid[r]
                      \/ end[r] = Append(mid[r], "ready") /\ r[1] = n /\ r[2] \in dests
  BY <1>1, <1>2, SentStep
<1>4. Answered(end, n, dests)
  BY <1>2, <1>3 DEF Answered
<1> QED  BY <1>4 DEF mid

\* What a thread has in its hands is handled: a write is answered, a READY is
\* counted.
LEMMA ProtocolHandle ==
    ASSUME ShutdownTypeOK, Protocol, NEW p \in Pair, HandleMsg(p)
    PROVE  Protocol'
<1> DEFINE q == Reverse(p)
<1>0. /\ service[p] = "handle" /\ service' = [service EXCEPT ![p] = "peek"]
      /\ UNCHANGED <<socket, writer, frame>>
      /\ q \in Pair /\ Reverse(q) = p /\ q # p /\ q[1] = p[2] /\ q[2] = p[1]
      /\ p[1] # p[2]
      /\ \A f \in Answer : ~Works(p, f)'
      /\ \A r \in Pair : r # p => \A f \in Answer : Works(r, f)' <=> Works(r, f)
  BY PairFacts DEF HandleMsg, ServiceGoes, Works, ShutdownTypeOK
<1>1. CASE writer = Hung
  BY <1>0, <1>1 DEF Protocol
<1>2. CASE frame[p] \notin Answer
  <2>1. UNCHANGED <<stream, ready>>
    BY <1>2 DEF HandleMsg, Answer
  <2>2. ASSUME NEW r \in Pair, NEW f \in Answer PROVE Works(r, f)' <=> Works(r, f)
    BY <1>0, <1>2 DEF Works
  <2> QED  BY <1>0, <2>1, <2>2, ProtocolSame
<1>3. ASSUME writer # Hung, \A r \in Pair : r # p => Kept(r),
             Rests(q) /\ Clear(stream[p]) /\ Clear(stream[q]),
             \A r \in Pair : r # p /\ r # q /\ Waited(r) => Waited(r)',
             \/ Clear(stream'[p])
             \/ Lone(stream'[p], "ready") /\ Waited(q)'
      PROVE  Protocol'
  <2>1. Rests(q)' /\ Rests(p)' /\ Clear(stream'[q])
    BY <1>0, <1>3 DEF Rests, Kept
  <2>2. \/ Silent(p)' /\ Silent(q)'
        \/ Waited(q)' /\ Exchange(q)'
    <3>1. CASE Clear(stream'[p])
      BY <2>1, <3>1 DEF Silent
    <3>2. CASE Lone(stream'[p], "ready") /\ Waited(q)'
      BY <1>0, <2>1, <3>2 DEF Exchange
    <3> QED  BY <1>3, <3>1, <3>2
  <2>3. ASSUME NEW r \in Pair, r # p, r # q
        PROVE  \/ Silent(r)' /\ Silent(Reverse(r))'
               \/ Waited(r)' /\ Exchange(r)'
               \/ Waited(Reverse(r))' /\ Exchange(Reverse(r))'
    <3>1. Reverse(r) \in Pair /\ Reverse(r) # p /\ Reverse(r) # q /\ Reverse(Reverse(r)) = r
      BY <1>0, <2>3, PairFacts
    <3>2. Kept(r) /\ Kept(Reverse(r))
      BY <1>3, <2>3, <3>1
    <3>3. /\ Silent(r) => Silent(r)'
          /\ Silent(Reverse(r)) => Silent(Reverse(r))'
          /\ Exchange(r) => Exchange(r)'
      BY <3>2, KeptFacts
    <3>4. Exchange(Reverse(r)) => Exchange(Reverse(r))'
      BY <3>1, <3>2, KeptFacts
    <3>5. /\ Waited(r) => Waited(r)'
          /\ Waited(Reverse(r)) => Waited(Reverse(r))'
      BY <1>3, <2>3, <3>1
    <3>6. \/ Silent(r) /\ Silent(Reverse(r))
          \/ Waited(r) /\ Exchange(r)
          \/ Waited(Reverse(r)) /\ Exchange(Reverse(r))
      BY <1>3 DEF Protocol
    <3> QED  BY <3>3, <3>4, <3>5, <3>6
  <2> QED  BY <1>0, <2>2, <2>3 DEF Protocol
<1>4. CASE frame[p] = "write" /\ writer # Hung
  <2>1. Works(p, "write") /\ "write" \in Answer /\ ~Works(p, "ready")
    BY <1>0, <1>4 DEF Works, Answer
  <2>2. ~Silent(p) /\ ~Rests(p)
    BY <2>1 DEF Silent, Rests
  <2>3. Waited(q) /\ Exchange(q)
    <3>1. ~Exchange(p)
      BY <2>1, <2>2 DEF Exchange
    <3> QED  BY <1>4, <2>2, <3>1 DEF Protocol
  <2>4. Clear(stream[p]) /\ Clear(stream[q]) /\ Rests(q)
    BY <1>0, <2>2, <2>3 DEF Exchange
  <2>5. PICK down \in {{}, Down[p[1]]} :
           stream' = Sent(Sent(stream, p[1], down, "set"), p[1], {p[2]}, "ready")
    BY <1>4 DEF HandleMsg
  <2>6. "set" \in Frame /\ "ready" \in Frame /\ "set" \notin Answer
        /\ stream \in [Pair -> Seq(Frame)]
    BY DEF Frame, Answer, ShutdownTypeOK
  <2>9. PICK mid \in [Pair -> Seq(Frame)] :
         /\ \A r \in Pair : mid[r] = stream[r] \/ mid[r] = Append(stream[r], "set")
         /\ \A r \in Pair : \/ stream'[r] = mid[r]
                            \/ /\ stream'[r] = Append(mid[r], "ready")
                               /\ r[1] = p[1] /\ r[2] = p[2]
    <3> DEFINE n == p[1]
               dests == {p[2]}
    <3>1. stream' = Sent(Sent(stream, n, down, "set"), n, dests, "ready")
      BY <2>5
    <3> HIDE DEF n, dests
    <3>2. stream \in [Pair -> Seq(Frame)]
      BY <2>6
    <3>3. Answered(stream', n, dests)
      BY <3>1, <3>2, AnswerStep
    <3> QED  BY <3>3 DEF n, dests, Answered
  <2>10. ASSUME NEW r \in Pair, r # p PROVE Kept(r)
    <3>1. ~(r[1] = p[1] /\ r[2] = p[2])
      BY <2>10, PairFacts
    <3>2. stream'[r] = stream[r] \/ stream'[r] = Append(stream[r], "set")
      BY <2>9, <3>1
    <3> QED  BY <1>0, <2>6, <2>10, <3>2, KeptStream
  <2>11. ready' = ready
    BY <1>4 DEF HandleMsg
  <2>12. \A r \in Pair : Waited(r) => Waited(r)'
    BY <1>0, <2>11 DEF Waited, Peers
  <2>13. Clear(stream'[p]) \/ Lone(stream'[p], "ready")
    <3>1. stream[p] \in Seq(Frame) /\ mid[p] \in Seq(Frame)
      BY <2>6
    <3>2. Clear(mid[p])
      BY <2>4, <2>6, <2>9, <3>1, OthersFollow
    <3> QED  BY <2>6, <2>9, <3>1, <3>2, OneFollows
  <2> QED  BY <1>0, <1>3, <1>4, <2>3, <2>4, <2>10, <2>12, <2>13
<1>5. CASE frame[p] = "ready" /\ writer # Hung
  <2>1. Works(p, "ready") /\ "ready" \in Answer /\ ~Works(p, "write")
    BY <1>0, <1>5 DEF Works, Answer
  <2>2. ~Silent(p) /\ ~Rests(p)
    BY <2>1 DEF Silent, Rests
  <2>3. Waited(p) /\ Exchange(p)
    <3>1. ~Exchange(q)
      BY <1>0, <2>1, <2>2 DEF Exchange
    <3> QED  BY <1>5, <2>2, <3>1 DEF Protocol
  <2>4. Clear(stream[p]) /\ Clear(stream[q]) /\ Rests(q)
    BY <2>2, <2>3 DEF Exchange
  <2>5. stream' = stream /\ ready' = ready \cup {p[2]}
    BY <1>5 DEF HandleMsg
  <2>6. \A r \in Pair : r # p => Kept(r)
    BY <1>0, <2>5 DEF Kept
  <2>7. ASSUME NEW r \in Pair, r # p, Waited(r) PROVE Waited(r)'
    <3>1. r[1] = p[1]
      BY <2>3, <2>7 DEF Waited
    <3>2. r[2] # p[2]
      BY <2>7, <3>1, PairFacts
    <3> QED  BY <1>0, <2>5, <2>7, <3>2 DEF Waited, Peers
  <2> QED  BY <1>3, <1>5, <2>4, <2>5, <2>6, <2>7
<1> QED  BY <1>1, <1>2, <1>4, <1>5 DEF Answer

\* A connection is accepted: a writer that has not counted its node among its
\* peers is hung.
LEMMA ProtocolAccept ==
    ASSUME ShutdownTypeOK, Protocol, Progress, NEW l \in Links, Accept(l)
    PROVE  Protocol'
<1> DEFINE p == Reverse(l)
<1>0. /\ l \in Pair /\ p \in Pair /\ p[1] \in Node /\ p[2] \in Node
  BY PairFacts DEF Pair
<1>1. /\ socket[p] = "none" /\ socket' = [socket EXCEPT ![p] = "open"]
      /\ service[p] = "none" /\ service' = [service EXCEPT ![p] = "peek"]
      /\ writer' = IF p[1] = writer /\ p[2] \in Core THEN Hung ELSE writer
      /\ UNCHANGED <<frame, stream, ready>>
  BY <1>0 DEF Accept, Progress
<1>2. CASE writer' = Hung
  BY <1>2 DEF Protocol
<1>3. CASE writer' # Hung
  <2>1. writer' = writer /\ ~(p[1] = writer /\ p[2] \in Core) /\ writer # Hung
    BY <1>1, <1>3
  <2>2. ASSUME NEW r \in Pair, NEW f \in Answer PROVE Works(r, f)' <=> Works(r, f)
    BY <1>0, <1>1 DEF Works, ShutdownTypeOK
  <2>3. \A r \in Pair : Kept(r)
    BY <1>1, <2>2 DEF Kept
  <2>4. ASSUME NEW r \in Pair, Waited(r) PROVE Waited(r)'
    <3>1. \A x \in Pair : socket[x] # "none" => socket'[x] # "none"
      BY <1>0, <1>1 DEF ShutdownTypeOK
    <3> QED  BY <1>1, <2>1, <2>4, <3>1 DEF Waited, Peers
  <2> QED  BY <2>1, <2>3, <2>4, KeptAll
<1> QED  BY <1>2, <1>3

\* When the nodes are destroyed nobody waits any more, and streams are emptied.
LEMMA ProtocolDestroy ==
    ASSUME ShutdownTypeOK, Protocol, writer = Nobody, UNCHANGED <<service, frame, writer>>,
           \A p \in Pair : stream'[p] \in {<<>>, stream[p]}
    PROVE  Protocol'
<1>1. \A p \in Pair : Silent(p)
  BY NobodyWaits
<1>2. Clear(<<>>)
  BY DEF Clear
<1>3. \A p \in Pair : Silent(p)'
  BY <1>1, <1>2 DEF Silent, Rests, Works
<1> QED  BY <1>3, PairFacts DEF Protocol

-----------------------------------------------------------------------------
(* What the main thread has waited for *)

\* A step of the destruction of a node.
Destruction ==
    \E n \in Node : DestroyDerived(n) \/ ClearSockets(n) \/ WaitServices(n) \/ JoinAccept(n)

\* It only empties streams and closes sockets.
LEMMA DestructionStep ==
    ASSUME ShutdownTypeOK, Progress, Destruction
    PROVE  /\ main = "nodes" /\ main' \in {"nodes", "done"}
           /\ main' = "nodes" => next' <= Len(Order)
           /\ UNCHANGED <<service, frame, run, writer, ready, busy, aborted>>
           /\ \A p \in Pair : /\ stream'[p] \in {<<>>, stream[p]}
                              /\ socket'[p] = "none" => socket[p] = "none"
<1>1. ASSUME NEW n \in Node, NEW from, NEW to, Destroys(n, from, to)
      PROVE  /\ main = "nodes" /\ next <= Len(Order)
             /\ UNCHANGED <<frame, run, writer, ready, busy, aborted>>
  BY <1>1 DEF Destroys, runVars, writerVars, Progress
<1>2. ASSUME NEW n \in Node, NEW states, CloseSockets(n, states)
      PROVE  \A p \in Pair : /\ stream'[p] \in {<<>>, stream[p]}
                             /\ socket'[p] = "none" => socket[p] = "none"
  BY <1>2 DEF CloseSockets
<1>3. ASSUME NEW n \in Node, DestroyDerived(n)
      PROVE  /\ Destroys(n, "whole", "base")
             /\ UNCHANGED <<main, next, socket, service, stream>>
  BY <1>3 DEF DestroyDerived
<1>4. ASSUME NEW n \in Node, ClearSockets(n) \/ WaitServices(n)
      PROVE  /\ Destroys(n, "base", "cleared") \/ Destroys(n, "cleared", "server")
             /\ CloseSockets(n, {"open"})
             /\ UNCHANGED <<main, next, service>>
  BY <1>4 DEF ClearSockets, WaitServices
<1>5. ASSUME NEW n \in Node, JoinAccept(n)
      PROVE  /\ Destroys(n, "server", "gone") /\ CloseSockets(n, {"none"})
             /\ main' \in {"nodes", "done"} /\ UNCHANGED service
             /\ main' = "nodes" => next' <= Len(Order)
  <2>1. Destroys(n, "server", "gone") /\ CloseSockets(n, {"none"}) /\ UNCHANGED service
        /\ next' = next + 1 /\ main' = IF next = Len(Order) THEN "done" ELSE "nodes"
    BY <1>5 DEF JoinAccept
  <2>2. next <= Len(Order) /\ next \in Nat /\ Len(Order) \in Nat
    BY <1>1, <2>1, OrderFacts DEF ShutdownTypeOK
  <2> QED  BY <2>1, <2>2
<1>6. CASE \E n \in Node : DestroyDerived(n)
  BY <1>1, <1>3, <1>6
<1>7. CASE \E n \in Node : ClearSockets(n) \/ WaitServices(n)
  BY <1>1, <1>2, <1>4, <1>7
<1>8. CASE \E n \in Node : JoinAccept(n)
  BY <1>1, <1>2, <1>5, <1>8
<1> QED  BY <1>6, <1>7, <1>8 DEF Destruction

\* Nothing is destroyed early.
LEMMA ProgressNext ==
    ASSUME ShutdownTypeOK, Progress, [ShutdownNext]_vars
    PROVE  Progress'
<1>1. CASE UNCHANGED vars
  BY <1>1 DEF vars, mainVars, threadVars, runVars, writerVars, Progress
<1>2. CASE RemoveWatch \/ ShutdownNodes \/ Wait
  BY <1>2 DEF RemoveWatch, ShutdownNodes, Wait, MainGoes, threadVars, runVars, writerVars, Progress
<1>3. CASE JoinWatcher
  <2>1. next <= Len(Order)
    BY <1>3, OrderFacts DEF JoinWatcher, MainGoes, Progress
  <2> QED  BY <1>3, <2>1 DEF JoinWatcher, MainGoes, threadVars, runVars, writerVars, Progress
<1>4. CASE Destruction
  BY <1>4, DestructionStep DEF Progress
<1>5. ASSUME NEW n \in Core, StartWrite(n) \/ EndWrite(n) PROVE Progress'
  <2>1. main \notin {"nodes", "done"}
    BY <1>5, OrderFacts DEF StartWrite, EndWrite, Progress
  <2> QED  BY <1>5, <2>1 DEF StartWrite, EndWrite, mainVars, runVars, Progress
<1>6. ASSUME NEW n \in Relay, Broadcast(n) \/ Wakeup(n) PROVE Progress'
  <2>1. run[n] # "ended"
    BY <1>6 DEF Broadcast, Wakeup
  <2>2. main \notin {"watcher", "nodes", "done"}
    BY <2>1 DEF Progress
  <2> QED  BY <1>6, <2>2 DEF Broadcast, Wakeup, mainVars, threadVars, writerVars, Progress
<1>7. ASSUME NEW p \in Pair, ClientService(p) PROVE Progress'
  <2>1. /\ UNCHANGED <<main, next, stage, socket, run, writer>>
        /\ service[p] # "none"
        /\ \E to : service' = [service EXCEPT ![p] = to]
    BY <1>7 DEF ClientService, IncommingReadFrom, ReceiveMsg, CallHandleMsg, HandleMsg, ServiceGoes,
                mainVars, runVars, writerVars
  <2>2. main \notin {"nodes", "done"} => ~aborted'
    <3>1. main \notin {"nodes", "done"} => stage[p[1]] = "whole" /\ ~aborted
      BY PairFacts DEF Progress
    <3> QED  BY <1>7, <3>1 DEF ClientService, IncommingReadFrom, ReceiveMsg, CallHandleMsg, HandleMsg
  <2>3. \A q \in Pair : socket'[q] = "none" => service'[q] = "none"
    BY <2>1 DEF Progress, ShutdownTypeOK
  <2> QED  BY <2>1, <2>2, <2>3 DEF Progress
<1>8. ASSUME NEW l \in Links, Accept(l) PROVE Progress'
  <2> DEFINE p == Reverse(l)
  <2>1. p \in Pair /\ p[1] \in Node
    BY PairFacts DEF Pair
  <2>2. /\ UNCHANGED <<main, next, stage, run>>
        /\ socket' = [socket EXCEPT ![p] = "open"]
        /\ service' = [service EXCEPT ![p] = "peek"]
        /\ aborted' = (stage[p[1]] = "server")
        /\ writer' = IF p[1] = writer /\ p[2] \in Core THEN Hung ELSE writer
    BY <1>8 DEF Accept, mainVars, runVars
  <2> HIDE DEF p
  <2>3. \A q \in Pair : socket'[q] = "none" => service'[q] = "none"
    BY <2>1, <2>2 DEF Progress, ShutdownTypeOK
  <2>4. main \notin {"nodes", "done"} => ~aborted'
    BY <2>1, <2>2 DEF Progress
  <2>5. main \in {"nodes", "done"} => writer' = Nobody
    BY <2>1, <2>2, ShutdownAssumption DEF Progress, Nobody
  <2> QED  BY <2>2, <2>3, <2>4, <2>5 DEF Progress
<1>9. ASSUME NEW n \in Node, AcceptFails(n) PROVE Progress'
  BY <1>9 DEF AcceptFails, mainVars, threadVars, runVars, writerVars, Progress
<1> QED  BY <1>1, <1>2, <1>3, <1>4, <1>5, <1>6, <1>7, <1>8, <1>9 DEF ShutdownNext, Main, Destruction

\* Nothing begins once nothing was on its way.
LEMMA PeaceNext ==
    ASSUME ShutdownTypeOK, Progress, Peace, [ShutdownNext]_vars
    PROVE  Peace'
<1>1. CASE UNCHANGED vars
  BY <1>1 DEF vars, mainVars, threadVars, runVars, writerVars, Peace
<1>2. CASE RemoveWatch \/ ShutdownNodes \/ Wait
  BY <1>2 DEF RemoveWatch, ShutdownNodes, Wait, MainGoes, Peace
<1>3. CASE JoinWatcher
  <2>1. busy' = Busy /\ main = "watcher" /\ UNCHANGED <<stream, service, socket, aborted>>
    BY <1>3 DEF JoinWatcher, MainGoes, threadVars
  <2>2. ~aborted
    BY <2>1 DEF Progress
  <2> QED  BY <2>1, <2>2 DEF Peace, Busy, ShutdownTypeOK
<1>4. CASE Destruction
  BY <1>4, DestructionStep DEF Peace
<1>5. ASSUME main' \in {"nodes", "done"}, ~busy', UNCHANGED <<main, busy>>
      PROVE  /\ ~aborted /\ writer = Nobody
             /\ \A n \in Relay : run[n] = "ended"
             /\ \A p \in Pair : /\ stream[p] = <<>>
                                /\ service[p] \in {"none", "peek", "ended"}
                                /\ socket[p] # "none"
  BY <1>5 DEF Peace, Progress
<1>6. ASSUME NEW n \in Core, StartWrite(n) \/ EndWrite(n) PROVE Peace'
  <2>1. main \notin {"nodes", "done"} /\ UNCHANGED <<main, busy>>
    BY <1>6, OrderFacts DEF StartWrite, EndWrite, Progress, mainVars
  <2> QED  BY <2>1 DEF Peace
<1>7. ASSUME NEW n \in Relay, Broadcast(n) \/ Wakeup(n) PROVE Peace'
  <2>1. run[n] # "ended" /\ UNCHANGED <<main, busy>>
    BY <1>7 DEF Broadcast, Wakeup, mainVars
  <2>2. main \notin {"nodes", "done"}
    BY <2>1 DEF Progress
  <2> QED  BY <2>1, <2>2 DEF Peace
<1>8. ASSUME NEW p \in Pair, ClientService(p) PROVE Peace'
  <2>1. UNCHANGED <<main, busy>>
    BY <1>8 DEF ClientService, IncommingReadFrom, ReceiveMsg, CallHandleMsg, HandleMsg, ServiceGoes,
                mainVars
  <2>2. SUFFICES ASSUME main' \in {"nodes", "done"}, ~busy' PROVE Peace'
    BY DEF Peace
  <2>3. /\ ~aborted /\ Reverse(p) \in Pair /\ stream[Reverse(p)] = <<>>
        /\ service[p] \in {"none", "peek", "ended"}
    BY <1>5, <2>1, <2>2, PairFacts
  <2>4. IncommingReadFrom(p)
    BY <1>8, <2>3 DEF ClientService, ReceiveMsg, CallHandleMsg, HandleMsg
  <2>5. service' = [service EXCEPT ![p] = "ended"] /\ UNCHANGED <<stream, socket, aborted>>
    BY <2>3, <2>4 DEF IncommingReadFrom, ServiceGoes
  <2> QED  BY <1>5, <2>1, <2>2, <2>5 DEF Peace, ShutdownTypeOK
<1>9. ASSUME NEW l \in Links, Accept(l) PROVE Peace'
  <2>1. UNCHANGED <<main, busy>> /\ socket[Reverse(l)] = "none" /\ Reverse(l) \in Pair
    BY <1>9, PairFacts DEF Accept, mainVars, Pair
  <2>2. ~(main' \in {"nodes", "done"} /\ ~busy')
    BY <1>5, <2>1
  <2> QED  BY <2>2 DEF Peace
<1>10. ASSUME NEW n \in Node, AcceptFails(n) PROVE Peace'
  BY <1>10 DEF AcceptFails, mainVars, threadVars, Peace
<1> QED  BY <1>1, <1>2, <1>3, <1>4, <1>6, <1>7, <1>8, <1>9, <1>10 DEF ShutdownNext, Main, Destruction

\* Whoever waits for an answer still gets just that one.
LEMMA ProtocolNext ==
    ASSUME ShutdownTypeOK, Protocol, Progress, [ShutdownNext]_vars
    PROVE  Protocol'
<1>1. CASE UNCHANGED vars \/ RemoveWatch \/ ShutdownNodes \/ Wait \/ JoinWatcher
  <2>1. UNCHANGED <<stream, writer, ready, socket, service, frame>>
    BY <1>1 DEF vars, mainVars, threadVars, runVars, writerVars, RemoveWatch, ShutdownNodes, Wait,
                JoinWatcher, MainGoes
  <2> QED  BY <2>1, ProtocolSame DEF Works
<1>2. CASE Destruction
  <2>1. writer = Nobody
    BY <1>2, DestructionStep DEF Progress
  <2> QED  BY <1>2, <2>1, DestructionStep, ProtocolDestroy
<1>3. ASSUME NEW n \in Core, StartWrite(n) \/ EndWrite(n) PROVE Protocol'
  BY <1>3, ProtocolStart, ProtocolEnd
<1>4. ASSUME NEW n \in Relay, Broadcast(n) PROVE Protocol'
  BY <1>4, ProtocolBroadcast
<1>5. ASSUME NEW n \in Relay, Wakeup(n) PROVE Protocol'
  <2>1. UNCHANGED <<stream, writer, ready, socket, service, frame>>
    BY <1>5 DEF Wakeup, threadVars, writerVars
  <2> QED  BY <2>1, ProtocolSame DEF Works
<1>6. ASSUME NEW p \in Pair, ClientService(p) PROVE Protocol'
  BY <1>6, ProtocolPeek, ProtocolReceive, ProtocolHandle DEF ClientService
<1>7. ASSUME NEW l \in Links, Accept(l) PROVE Protocol'
  BY <1>7, ProtocolAccept
<1>8. ASSUME NEW n \in Node, AcceptFails(n) PROVE Protocol'
  <2>1. UNCHANGED <<stream, writer, ready, socket, service, frame>>
    BY <1>8 DEF AcceptFails, threadVars, writerVars
  <2> QED  BY <2>1, ProtocolSame DEF Works
<1> QED  BY <1>1, <1>2, <1>3, <1>4, <1>5, <1>6, <1>7, <1>8 DEF ShutdownNext, Main, Destruction

\* It holds when the program begins.
LEMMA InvInit == ShutdownInit => ShutdownInv
<1> SUFFICES ASSUME ShutdownInit PROVE ShutdownInv
  OBVIOUS
<1> USE DEF ShutdownInit
<1>1. PICK pending \in SUBSET Links :
         socket = [p \in Pair |-> IF Reverse(p) \in pending THEN "none" ELSE "open"]
  OBVIOUS
<1>2. /\ socket \in [Pair -> {"none", "open", "closed"}]
      /\ \A p \in Pair : socket[p] = "none" => service[p] = "none"
      /\ \A p \in Pair : service[p] \notin {"call", "handle"}
      /\ service \in [Pair -> {"none", "peek", "receive", "call", "handle", "ended"}]
  BY <1>1
<1>3. /\ stream = [p \in Pair |-> <<>>] /\ <<>> \in Seq(Frame)
      /\ next \in 1 .. Len(Order) + 1
      /\ rounds \in [Relay -> 0 .. MaxRounds] /\ writes \in 0 .. MaxWrites
  BY OrderFacts, ShutdownAssumption
<1>4. ShutdownTypeOK
  <2>1. stage \in [Node -> Stage] /\ frame \in [Pair -> Frame \cup {Zero}]
    BY DEF Stage
  <2>2. stream \in [Pair -> Seq(Frame)]
    BY <1>3
  <2>3. /\ accepting \in [Node -> BOOLEAN] /\ run \in [Relay -> {"broadcast", "wait", "ended"}]
        /\ writer \in Core \cup {Nobody, Hung} /\ ready \subseteq Node
        /\ busy \in BOOLEAN /\ late \in BOOLEAN /\ aborted \in BOOLEAN
    OBVIOUS
  <2>4. main \in {"run", "shutdown", "wait", "watcher", "nodes", "done"}
    OBVIOUS
  <2> QED  BY <1>2, <1>3, <2>1, <2>2, <2>3, <2>4 DEF ShutdownTypeOK
<1>5. Clear(<<>>)
  BY DEF Clear
<1>6. \A p \in Pair : Silent(p)
  BY <1>2, <1>3, <1>5 DEF Silent, Rests, Works
<1>7. Protocol
  BY <1>6, PairFacts DEF Protocol
<1>8. Progress
  BY <1>2 DEF Progress
<1>9. Peace
  BY DEF Peace
<1> QED  BY <1>4, <1>7, <1>8, <1>9 DEF ShutdownInv

\* The invariant always holds.
LEMMA InvAlways == ShutdownSpec => []ShutdownInv
<1>1. ShutdownInv /\ [ShutdownNext]_vars => ShutdownInv'
  <2> SUFFICES ASSUME ShutdownInv, [ShutdownNext]_vars PROVE ShutdownInv'
    OBVIOUS
  <2> QED  BY TypeNext, ProtocolNext, ProgressNext, PeaceNext DEF ShutdownInv
<1> QED  BY <1>1, InvInit, PTL DEF ShutdownSpec

-----------------------------------------------------------------------------
(* The theorems *)

\* Every variable of the shutdown keeps its type: the nodes are destroyed one by
\* one, each in its four stages, and no thread is in a position that its loop does
\* not have (MsgHandler.cpp:24-30, 115-136).
THEOREM ShutdownTypeCorrect == ShutdownSpec => []ShutdownTypeOK
BY InvAlways, PTL DEF ShutdownInv

\* If nothing is on its way when the first node is destroyed, no message handler
\* works on a half-destroyed node and no pure virtual function is called, whatever
\* the network and the order of the destruction.  It follows from Peace: the
\* threads that send have been waited for, so streams that are empty stay empty,
\* and a thread whose peer goes takes that for the end and not for a message.
THEOREM CleanWhenIdle == ShutdownSpec => []CleanUnlessBusy
<1>1. ShutdownInv => CleanUnlessBusy
  <2> SUFFICES ASSUME ShutdownInv, ~busy PROVE ~aborted /\ ~Torn
    BY DEF CleanUnlessBusy
  <2>1. CASE main \in {"nodes", "done"}
    BY <2>1 DEF ShutdownInv, Peace, Torn
  <2>2. CASE main \notin {"nodes", "done"}
    <3>1. ~aborted /\ \A p \in Pair : stage[p[1]] = "whole"
      BY <2>2, PairFacts DEF ShutdownInv, Progress
    <3> QED  BY <3>1 DEF Torn
  <2> QED  BY <2>1, <2>2
<1> QED  BY <1>1, InvAlways, PTL

\* When the nodes are destroyed no write and no READY is on its way or waits to be
\* handled: the file watcher's thread has returned, its write has had all its
\* answers, and between the writer and each peer there was never more than one of
\* these frames.
THEOREM NothingDue == ShutdownSpec => []NoAnswerDue
<1>1. ShutdownInv => NoAnswerDue
  <2> SUFFICES ASSUME ShutdownInv, main \in {"nodes", "done"}, NEW p \in Pair
               PROVE  /\ \A i \in DOMAIN stream[p] : stream[p][i] \notin {"write", "ready"}
                      /\ service[p] \in {"call", "handle"} => frame[p] \notin {"write", "ready"}
    BY DEF NoAnswerDue
  <2>1. writer = Nobody /\ Protocol /\ stream[p] \in Seq(Frame)
    BY DEF ShutdownInv, Progress, ShutdownTypeOK
  <2>2. Clear(stream[p]) /\ Rests(p)
    BY <2>1, NobodyWaits DEF Silent
  <2> QED  BY <2>1, <2>2 DEF Clear, Rests, Works, Answer
<1> QED  BY <1>1, InvAlways, PTL
=============================================================================
