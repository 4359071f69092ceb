-------------------------- MODULE ConnectionsProofs --------------------------
(***************************************************************************)
(* That the start leaves the nodes meshed but for two ways to lose a       *)
(* connection, for every set of nodes, every plan and any number of early  *)
(* frames.                                                                 *)
(***************************************************************************)
EXTENDS Connections, SequenceTheorems, TLAPS

\* The connections are made in the order of the plan.
Made ==
    \A i \in Link : link[i] # "none" <=> i < next \/ (i = next /\ at = "hello")

\* Who is not connected has sent nothing; who has finished Connect, something
\* that the accepting side has yet to read as a hello; who is at it, no hello.
Spoken ==
    /\ \A i \in Link :
        /\ link[i] \in {"none", "refused"} => stream[i] = <<>>
        /\ i < next /\ link[i] \in {"backlog", "hello"} => stream[i] # <<>>
    /\ next \in Link => link[next] # "serving" /\ stream[next] \in Seq({"frame"})

\* The peers of n on layer l, as far as the connections have come: the connecting
\* side knows of them at once, the accepting side when it has the hello.
Ends(n, l) ==
    {m \in Node : \E i \in Link :
        /\ Plan[i].layer = l
        /\ \/ Plan[i].from = n /\ Plan[i].to = m /\ link[i] # "none"
           \/ Plan[i].to = n /\ Plan[i].from = m /\ link[i] = "serving"}

Known == \A n \in Node, l \in Layer : m_Layers[n][l] \ {Garbled} = Ends(n, l)

\* A frame was, or will be, read as the hello of the connection.
Spoils(i) ==
    \/ link[i] \in {"dropped", "garbled"}
    \/ link[i] \in {"backlog", "hello"} /\ stream[i] # <<>> /\ Head(stream[i]) = "frame"

\* That is what happens to the connections on which a frame came before the hello.
HastyLost == \A i \in Link : i \in hasty <=> Spoils(i)

ConnectionsInv ==
    /\ ConnectionsTypeOK
    /\ Made
    /\ Spoken
    /\ Known
    /\ HastyLost

-----------------------------------------------------------------------------
(* Types *)

\* A connection of the plan, and the number of the next one.
LEMMA PlanType ==
    /\ Link = 1 .. Len(Plan) /\ Len(Plan) \in Nat
    /\ \A i \in Link : Plan[i].from \in Node /\ Plan[i].to \in Node /\ Plan[i].layer \in Layer
<1>1. Link = 1 .. Len(Plan) /\ Len(Plan) \in Nat
  BY ConnectionsAssumption DEF Link
<1>2. \A i \in Link : Plan[i] \in [from : Node, to : Node, layer : Layer]
  <2>1. Plan \in Seq([from : Node, to : Node, layer : Layer])
    BY ConnectionsAssumption
  <2> HIDE DEF Layer
  <2> QED  BY <1>1, <2>1, ElementOfSeq
<1> QED  BY <1>1, <1>2

\* Every variable keeps its type.
LEMMA TypeNext ==
    ASSUME ConnectionsTypeOK, [ConnectionsNext]_vars
    PROVE  ConnectionsTypeOK'
<1> USE PlanType DEF ConnectionsTypeOK, earlyVars
<1>1. CASE Register
  <2>1. PICK l \in Outcome(Plan[next].to) : link' = [link EXCEPT ![next] = l]
    BY <1>1 DEF Register
  <2>2. l \in LinkState
    BY <2>1 DEF Outcome, LinkState
  <2>3. m_Layers' \in [Node -> [Layer -> SUBSET (Node \cup {Garbled})]]
    BY <1>1 DEF Register
  <2> QED  BY <1>1, <2>1, <2>2, <2>3 DEF Register
<1>2. CASE Hello
  <2>1. stream' \in [Link -> Seq({"hello", "frame"})]
    BY <1>2 DEF Hello
  <2>2. next' \in 1 .. Len(Plan) + 1
    BY <1>2 DEF Hello
  <2> QED  BY <1>2, <2>1, <2>2 DEF Hello
<1>3. ASSUME NEW n \in Node, Listen(n) PROVE ConnectionsTypeOK'
  BY <1>3 DEF Listen
<1>4. ASSUME NEW n \in Node, Accept(n) PROVE ConnectionsTypeOK'
  BY <1>4 DEF Accept, Backlog, LinkState
<1>5. ASSUME NEW i \in Link, SendMsg(i) PROVE ConnectionsTypeOK'
  <2>1. stream' \in [Link -> Seq({"hello", "frame"})]
    BY <1>5 DEF SendMsg
  <2>2. early' \in 0 .. MaxEarly /\ hasty' \subseteq Link
    BY <1>5, ConnectionsAssumption DEF SendMsg
  <2> QED  BY <1>5, <2>1, <2>2 DEF SendMsg
<1>6. ASSUME NEW i \in Link, IncommingConnection(i) PROVE ConnectionsTypeOK'
  <2>1. stream' \in [Link -> Seq({"hello", "frame"})]
    <3>1. stream[i] \in Seq({"hello", "frame"}) /\ stream[i] # <<>>
      BY <1>6, Zenon DEF IncommingConnection
    <3>2. Tail(stream[i]) \in Seq({"hello", "frame"})
      BY <3>1
    <3>3. stream' = [stream EXCEPT ![i] = Tail(@)]
      BY <1>6, Zenon DEF IncommingConnection
    <3> QED  BY <3>2, <3>3
  <2>2. link' \in [Link -> LinkState]
    BY <1>6 DEF IncommingConnection, LinkState
  <2>3. m_Layers' \in [Node -> [Layer -> SUBSET (Node \cup {Garbled})]]
    <3>1. ASSUME NEW k \in Layer, NEW m \in Node \cup {Garbled}, NEW n \in Node,
                 m_Layers' = [m_Layers EXCEPT ![n][k] = @ \cup {m}]
          PROVE  m_Layers' \in [Node -> [Layer -> SUBSET (Node \cup {Garbled})]]
      BY <3>1
    <3>2. CASE UNCHANGED m_Layers
      BY <3>2
    <3> QED  BY <1>6, <3>1, <3>2 DEF IncommingConnection
  <2> QED  BY <1>6, <2>1, <2>2, <2>3 DEF IncommingConnection
<1>7. ASSUME NEW i \in Link, ClientService(i) PROVE ConnectionsTypeOK'
  <2>1. stream' \in [Link -> Seq({"hello", "frame"})]
    <3>1. stream[i] \in Seq({"hello", "frame"}) /\ stream[i] # <<>>
      BY <1>7 DEF ClientService
    <3>2. Tail(stream[i]) \in Seq({"hello", "frame"})
      BY <3>1
    <3> QED  BY <1>7, <3>2 DEF ClientService
  <2> QED  BY <1>7, <2>1 DEF ClientService
<1>8. CASE UNCHANGED vars
  BY <1>8 DEF vars
<1> QED  BY <1>1, <1>2, <1>3, <1>4, <1>5, <1>6, <1>7, <1>8 DEF ConnectionsNext

-----------------------------------------------------------------------------
(* The order of the plan, and what is in the streams *)

\* Only Register gives a connection a state, and only to the next one.
LEMMA MadeNext ==
    ASSUME ConnectionsTypeOK, Made, [ConnectionsNext]_vars
    PROVE  Made'
<1> USE PlanType DEF ConnectionsTypeOK, Made
<1>1. CASE Register
  <2>1. PICK l \in Outcome(Plan[next].to) : link' = [link EXCEPT ![next] = l]
    BY <1>1 DEF Register
  <2>2. l # "none"
    BY <2>1 DEF Outcome
  <2> QED  BY <1>1, <2>1, <2>2 DEF Register
<1>2. CASE Hello
  BY <1>2 DEF Hello
<1>3. ASSUME NEW n \in Node, Listen(n) PROVE Made'
  BY <1>3 DEF Listen
<1>4. ASSUME NEW n \in Node, Accept(n) PROVE Made'
  BY <1>4 DEF Accept, Backlog
<1>5. ASSUME NEW i \in Link, SendMsg(i) PROVE Made'
  BY <1>5 DEF SendMsg
<1>6. ASSUME NEW i \in Link, IncommingConnection(i) PROVE Made'
  BY <1>6 DEF IncommingConnection
<1>7. ASSUME NEW i \in Link, ClientService(i) PROVE Made'
  BY <1>7 DEF ClientService
<1>8. CASE UNCHANGED vars
  BY <1>8 DEF vars
<1> QED  BY <1>1, <1>2, <1>3, <1>4, <1>5, <1>6, <1>7, <1>8 DEF ConnectionsNext

\* Only the accepting side takes from a stream, and of a connection that is
\* waiting for its hello only that.
LEMMA SpokenNext ==
    ASSUME ConnectionsTypeOK, Made, Spoken, [ConnectionsNext]_vars
    PROVE  Spoken'
<1> USE PlanType DEF ConnectionsTypeOK
<1>1. CASE Register
  <2>1. PICK l \in Outcome(Plan[next].to) : link' = [link EXCEPT ![next] = l]
    BY <1>1 DEF Register
  <2>2. stream[next] = <<>> /\ stream' = stream /\ next' = next
    BY <1>1 DEF Register, Made, Spoken
  <2>3. link'[next] # "serving" /\ stream'[next] \in Seq({"frame"})
    BY <1>1, <2>1, <2>2 DEF Register, Outcome
  <2> QED  BY <2>1, <2>2, <2>3 DEF Spoken
<1>2. CASE Hello
  <2>1. ASSUME NEW i \in Link, i # next
        PROVE  /\ link'[i] = link[i] /\ stream'[i] = stream[i]
               /\ i < next' => i < next
    BY <1>2, <2>1 DEF Hello
  <2>2. /\ link'[next] = link[next]
        /\ link[next] \in {"none", "refused"} => stream'[next] = <<>>
        /\ link[next] \in {"backlog", "hello"} => stream'[next] # <<>>
    <3>1. /\ next \in Link /\ link' = link /\ link[next] # "none"
          /\ stream'[next] = IF link[next] = "refused" THEN stream[next]
                                                     ELSE Append(stream[next], "hello")
      BY <1>2 DEF Hello, Made
    <3>2. /\ stream[next] \in Seq({"hello", "frame"})
          /\ link[next] = "refused" => stream[next] = <<>>
      BY <3>1 DEF Spoken
    <3>3. Append(stream[next], "hello") # <<>>
      <4> DEFINE s == stream[next]
      <4>1. s \in Seq({"hello", "frame"})
        BY <3>2
      <4> HIDE DEF s
      <4>2. Append(s, "hello") # <<>>
        BY <4>1
      <4> QED  BY <4>2 DEF s
    <3> QED  BY <3>1, <3>2, <3>3
  <2>3. next' \in Link => link'[next'] = "none" /\ stream'[next'] = <<>>
    BY <1>2, <2>1 DEF Hello, Made, Spoken
  <2>4. <<>> \in Seq({"frame"})
    OBVIOUS
  <2>5. next' = next + 1
    BY <1>2 DEF Hello
  <2> QED  BY <2>1, <2>2, <2>3, <2>4, <2>5 DEF Spoken
<1>3. ASSUME NEW n \in Node, Listen(n) PROVE Spoken'
  BY <1>3 DEF Listen, Spoken
<1>4. ASSUME NEW n \in Node, Accept(n) PROVE Spoken'
  BY <1>4 DEF Accept, Backlog, Spoken
<1>5. ASSUME NEW i \in Link, SendMsg(i) PROVE Spoken'
  <2>1. /\ link' = link /\ next' = next /\ link[i] \notin {"none", "refused"}
        /\ stream' = [stream EXCEPT ![i] = Append(stream[i], "frame")]
    BY <1>5 DEF SendMsg
  <2>2. Append(stream[i], "frame") # <<>>
    <3>1. stream[i] \in Seq({"hello", "frame"})
      OBVIOUS
    <3> QED  BY <3>1, AppendProperties, EmptySeq
  <2>3. next \in Link => stream'[next] \in Seq({"frame"})
    <3>1. CASE i = next
      <4>1. stream'[i] = Append(stream[i], "frame") /\ stream[i] \in Seq({"frame"})
        BY <2>1, <3>1 DEF Spoken
      <4> QED  BY <3>1, <4>1
    <3>2. CASE i # next
      BY <2>1, <3>2 DEF Spoken
    <3> QED  BY <3>1, <3>2
  <2> QED  BY <2>1, <2>2, <2>3 DEF Spoken
<1>6. ASSUME NEW i \in Link, IncommingConnection(i) PROVE Spoken'
  <2>1. /\ next' = next
        /\ link'[i] \in {"serving", "dropped", "garbled"}
        /\ \A j \in Link : j # i => link'[j] = link[j] /\ stream'[j] = stream[j]
    BY <1>6 DEF IncommingConnection
  <2>2. CASE i = next
    <3>1. stream[i] \in Seq({"frame"}) /\ stream[i] # <<>>
      BY <1>6, <2>2 DEF Spoken, IncommingConnection
    <3>2. Head(stream[i]) = "frame" /\ Tail(stream[i]) \in Seq({"frame"})
      BY <3>1
    <3>3. link'[i] # "serving" /\ stream'[i] = Tail(stream[i])
      BY <1>6, <3>2 DEF IncommingConnection
    <3> QED  BY <2>1, <2>2, <3>2, <3>3 DEF Spoken
  <2>3. CASE i # next
    BY <2>1, <2>3 DEF Spoken
  <2> QED  BY <2>2, <2>3
<1>7. ASSUME NEW i \in Link, ClientService(i) PROVE Spoken'
  <2>1. i # next /\ link' = link /\ next' = next /\ link[i] = "serving"
    BY <1>7 DEF ClientService, Spoken
  <2>2. \A j \in Link : j # i => stream'[j] = stream[j]
    BY <1>7 DEF ClientService
  <2> QED  BY <2>1, <2>2 DEF Spoken
<1>8. CASE UNCHANGED vars
  BY <1>8 DEF vars, Spoken
<1> QED  BY <1>1, <1>2, <1>3, <1>4, <1>5, <1>6, <1>7, <1>8 DEF ConnectionsNext

-----------------------------------------------------------------------------
(* The peers of each node *)

\* The peers of a node change with its connections only.
LEMMA EndsSame ==
    ASSUME ConnectionsTypeOK, NEW n \in Node, NEW l \in Layer,
           \A i \in Link : /\ link'[i] = "none" <=> link[i] = "none"
                           /\ link'[i] = "serving" <=> link[i] = "serving"
    PROVE  Ends(n, l)' = Ends(n, l)
BY DEF Ends

\* One connection has been registered by its connecting side, or accepted: that
\* side has one more peer.
LEMMA KnownMore ==
    ASSUME ConnectionsTypeOK, Known, NEW i \in Link, NEW n \in Node, NEW m \in Node,
           \/ /\ n = Plan[i].from /\ m = Plan[i].to
              /\ link[i] = "none" /\ link'[i] \notin {"none", "serving"}
           \/ /\ n = Plan[i].to /\ m = Plan[i].from
              /\ link[i] \notin {"none", "serving"} /\ link'[i] = "serving",
           \A j \in Link : j # i => link'[j] = link[j],
           m_Layers' = [m_Layers EXCEPT ![n][Plan[i].layer] = @ \cup {m}]
    PROVE  Known'
<1> SUFFICES ASSUME NEW k \in Node, NEW l \in Layer
             PROVE  m_Layers'[k][l] \ {Garbled} = Ends(k, l)'
  BY DEF Known
<1>0. m # Garbled /\ Plan[i].layer \in Layer
  BY PlanType, ConnectionsAssumption
<1>1. m_Layers[k][l] \ {Garbled} = Ends(k, l)
  BY DEF Known
<1>2. m_Layers'[k][l] = IF k = n /\ l = Plan[i].layer THEN m_Layers[k][l] \cup {m}
                                                      ELSE m_Layers[k][l]
  BY <1>0 DEF ConnectionsTypeOK
<1>3. CASE k = n /\ l = Plan[i].layer
  <2>1. m \in Ends(k, l)'
    BY <1>3 DEF Ends
  <2>2. \A p \in Node : p # m => (p \in Ends(k, l)' <=> p \in Ends(k, l))
    BY <1>3 DEF Ends
  <2>3. Ends(k, l)' \subseteq Node /\ Ends(k, l) \subseteq Node
    BY DEF Ends
  <2>4. Ends(k, l)' = Ends(k, l) \cup {m}
    BY <2>1, <2>2, <2>3
  <2> QED  BY <1>0, <1>1, <1>2, <1>3, <2>4
<1>4. CASE ~(k = n /\ l = Plan[i].layer)
  <2>1. \A p \in Node : p \in Ends(k, l)' <=> p \in Ends(k, l)
    BY <1>4 DEF Ends
  <2>2. Ends(k, l)' = Ends(k, l)
    BY <2>1 DEF Ends
  <2> QED  BY <1>1, <1>2, <1>4, <2>2
<1> QED  BY <1>3, <1>4

\* Both sides of a connection learn of each other, each from its own step.
LEMMA KnownNext ==
    ASSUME ConnectionsTypeOK, Made, Known, [ConnectionsNext]_vars
    PROVE  Known'
<1> USE PlanType
<1>0. ASSUME m_Layers' = m_Layers,
             \A i \in Link : /\ link'[i] = "none" <=> link[i] = "none"
                             /\ link'[i] = "serving" <=> link[i] = "serving"
      PROVE  Known'
  BY <1>0, EndsSame DEF Known
<1>1. CASE Register
  <2>1. PICK l \in Outcome(Plan[next].to) : link' = [link EXCEPT ![next] = l]
    BY <1>1 DEF Register
  <2>2. l \notin {"none", "serving"}
    BY <2>1 DEF Outcome
  <2>3. next \in Link /\ link[next] = "none"
    BY <1>1 DEF Register, Made, ConnectionsTypeOK
  <2>4. /\ link'[next] \notin {"none", "serving"}
        /\ \A j \in Link : j # next => link'[j] = link[j]
    BY <2>1, <2>2, <2>3 DEF ConnectionsTypeOK
  <2>5. m_Layers' = [m_Layers EXCEPT ![Plan[next].from][Plan[next].layer] = @ \cup {Plan[next].to}]
    BY <1>1 DEF Register
  <2>6. Plan[next].from \in Node /\ Plan[next].to \in Node
    BY <2>3
  <2> QED  BY <2>3, <2>4, <2>5, <2>6, KnownMore
<1>2. CASE Hello
  BY <1>0, <1>2 DEF Hello
<1>3. ASSUME NEW n \in Node, Listen(n) PROVE Known'
  BY <1>0, <1>3 DEF Listen
<1>4. ASSUME NEW n \in Node, Accept(n) PROVE Known'
  BY <1>0, <1>4 DEF Accept, Backlog, ConnectionsTypeOK
<1>5. ASSUME NEW i \in Link, SendMsg(i) PROVE Known'
  BY <1>0, <1>5 DEF SendMsg
<1>6. ASSUME NEW i \in Link, IncommingConnection(i) PROVE Known'
  <2>1. /\ link[i] = "hello"
        /\ \A j \in Link : j # i => link'[j] = link[j]
    BY <1>6 DEF IncommingConnection, ConnectionsTypeOK
  <2>2. CASE Head(stream[i]) = "hello"
    <3>1. /\ link'[i] = "serving"
          /\ m_Layers' = [m_Layers EXCEPT ![Plan[i].to][Plan[i].layer] = @ \cup {Plan[i].from}]
      BY <1>6, <2>2 DEF IncommingConnection, ConnectionsTypeOK
    <3> QED  BY <2>1, <3>1, KnownMore
  <2>3. CASE Head(stream[i]) # "hello"
    <3>1. link'[i] \in {"dropped", "garbled"}
      BY <1>6, <2>3 DEF IncommingConnection, ConnectionsTypeOK
    <3>2. \A n \in Node, l \in Layer : Ends(n, l)' = Ends(n, l)
      BY <2>1, <3>1, EndsSame
    <3>3. \A n \in Node, l \in Layer : m_Layers'[n][l] \ {Garbled} = m_Layers[n][l] \ {Garbled}
      <4>1. CASE UNCHANGED m_Layers
        BY <4>1
      <4>2. ASSUME NEW k \in Layer,
                   m_Layers' = [m_Layers EXCEPT ![Plan[i].to][k] = @ \cup {Garbled}]
            PROVE  \A n \in Node, l \in Layer :
                       m_Layers'[n][l] \ {Garbled} = m_Layers[n][l] \ {Garbled}
        BY <4>2 DEF ConnectionsTypeOK
      <4> QED  BY <1>6, <2>3, <4>1, <4>2 DEF IncommingConnection
    <3> QED  BY <3>2, <3>3 DEF Known
  <2> QED  BY <2>2, <2>3
<1>7. ASSUME NEW i \in Link, ClientService(i) PROVE Known'
  BY <1>0, <1>7 DEF ClientService
<1>8. CASE UNCHANGED vars
  BY <1>0, <1>8 DEF vars
<1> QED  BY <1>1, <1>2, <1>3, <1>4, <1>5, <1>6, <1>7, <1>8 DEF ConnectionsNext

-----------------------------------------------------------------------------
(* What early frames cost *)

\* A frame is read as a hello where it was sent by a write while Connect had yet to
\* send the hello, and nowhere else.
LEMMA HastyNext ==
    ASSUME ConnectionsTypeOK, Made, Spoken, HastyLost, [ConnectionsNext]_vars
    PROVE  HastyLost'
<1> USE PlanType
<1>0. ASSUME hasty' = hasty, \A i \in Link : Spoils(i)' <=> Spoils(i)
      PROVE  HastyLost'
  BY <1>0 DEF HastyLost
<1>1. CASE Register
  <2>1. PICK l \in Outcome(Plan[next].to) : link' = [link EXCEPT ![next] = l]
    BY <1>1 DEF Register
  <2>2. l \in {"backlog", "refused"}
    BY <2>1 DEF Outcome
  <2>3. /\ link[next] = "none" /\ stream[next] = <<>>
        /\ stream' = stream /\ hasty' = hasty
    BY <1>1 DEF Register, Made, Spoken, ConnectionsTypeOK, earlyVars
  <2> QED  BY <1>0, <2>1, <2>2, <2>3 DEF Spoils, ConnectionsTypeOK
<1>2. CASE Hello
  <2>1. link' = link /\ hasty' = hasty
    BY <1>2 DEF Hello, earlyVars
  <2>2. ASSUME NEW i \in Link, i # next PROVE stream'[i] = stream[i]
    BY <1>2, <2>2 DEF Hello, ConnectionsTypeOK
  <2>3. stream'[next] \in {stream[next], Append(stream[next], "hello")}
    BY <1>2 DEF Hello, ConnectionsTypeOK
  <2>4. next \in Link /\ stream[next] \in Seq({"hello", "frame"})
    BY <1>2 DEF Hello, ConnectionsTypeOK
  <2>5. CASE stream[next] = <<>>
    <3>1. stream'[next] \in {<<>>, <<"hello">>}
      BY <2>3, <2>5
    <3>2. stream'[next] # <<>> => Head(stream'[next]) = "hello"
      BY <3>1
    <3> QED  BY <1>0, <2>1, <2>2, <2>5, <3>2 DEF Spoils
  <2>6. CASE stream[next] # <<>>
    <3>1. stream'[next] # <<>> /\ Head(stream'[next]) = Head(stream[next])
      BY <2>3, <2>4, <2>6
    <3> QED  BY <1>0, <2>1, <2>2, <2>6, <3>1 DEF Spoils
  <2> QED  BY <2>5, <2>6
<1>3. ASSUME NEW n \in Node, Listen(n) PROVE HastyLost'
  BY <1>0, <1>3 DEF Listen, Spoils, earlyVars
<1>4. ASSUME NEW n \in Node, Accept(n) PROVE HastyLost'
  BY <1>0, <1>4 DEF Accept, Backlog, Spoils, ConnectionsTypeOK, earlyVars
<1>5. ASSUME NEW i \in Link, SendMsg(i) PROVE HastyLost'
  <2>1. /\ link' = link /\ link[i] \notin {"none", "refused"}
        /\ stream' = [stream EXCEPT ![i] = Append(stream[i], "frame")]
        /\ hasty' = IF i = next THEN hasty \cup {i} ELSE hasty
    BY <1>5 DEF SendMsg
  <2>2. ASSUME NEW j \in Link, j # i PROVE j \in hasty' <=> Spoils(j)'
    BY <2>1, <2>2 DEF HastyLost, Spoils, ConnectionsTypeOK
  <2>3. stream[i] \in Seq({"hello", "frame"}) /\ stream'[i] = Append(stream[i], "frame")
    BY <2>1 DEF ConnectionsTypeOK
  <2>4. CASE stream[i] # <<>>
    <3>1. stream'[i] # <<>> /\ Head(stream'[i]) = Head(stream[i])
      BY <2>3, <2>4
    <3>2. Spoils(i)' <=> Spoils(i)
      BY <2>1, <2>4, <3>1 DEF Spoils
    <3>3. i = next => Spoils(i)
      <4>1. SUFFICES ASSUME i = next PROVE Spoils(i)
        OBVIOUS
      <4>2. stream[i] \in Seq({"frame"}) /\ link[i] # "serving"
        BY <4>1 DEF Spoken
      <4>3. Head(stream[i]) = "frame"
        BY <2>4, <4>2
      <4> QED  BY <2>1, <2>4, <4>2, <4>3 DEF Spoils, ConnectionsTypeOK, LinkState
    <3>4. i \in hasty' <=> Spoils(i)'
      BY <2>1, <3>2, <3>3 DEF HastyLost
    <3> QED  BY <2>2, <3>4 DEF HastyLost
  <2>5. CASE stream[i] = <<>>
    <3>1. stream'[i] # <<>> /\ Head(stream'[i]) = "frame"
      BY <2>3, <2>5
    <3>2. CASE i = next
      <4>1. link[i] # "serving"
        BY <3>2 DEF Spoken
      <4>2. Spoils(i)'
        BY <2>1, <3>1, <4>1 DEF Spoils, ConnectionsTypeOK, LinkState
      <4> QED  BY <2>1, <2>2, <3>2, <4>2 DEF HastyLost
    <3>3. CASE i # next
      <4>1. i < next
        BY <2>1, <3>3 DEF Made
      <4>2. link[i] \notin {"backlog", "hello"}
        BY <2>5, <4>1 DEF Spoken
      <4>3. Spoils(i)' <=> Spoils(i)
        BY <2>1, <4>2 DEF Spoils
      <4> QED  BY <2>1, <2>2, <3>3, <4>3 DEF HastyLost
    <3> QED  BY <3>2, <3>3
  <2> QED  BY <2>4, <2>5
<1>6. ASSUME NEW i \in Link, IncommingConnection(i) PROVE HastyLost'
  <2>1. /\ hasty' = hasty /\ link[i] = "hello" /\ stream[i] # <<>>
        /\ \A j \in Link : j # i => link'[j] = link[j] /\ stream'[j] = stream[j]
    BY <1>6 DEF IncommingConnection, ConnectionsTypeOK, earlyVars
  <2>2. \/ Head(stream[i]) = "hello" /\ link'[i] = "serving"
        \/ Head(stream[i]) = "frame" /\ link'[i] \in {"dropped", "garbled"}
    BY <1>6 DEF IncommingConnection, ConnectionsTypeOK
  <2> QED  BY <1>0, <2>1, <2>2 DEF Spoils
<1>7. ASSUME NEW i \in Link, ClientService(i) PROVE HastyLost'
  BY <1>0, <1>7 DEF ClientService, Spoils, ConnectionsTypeOK, earlyVars
<1>8. CASE UNCHANGED vars
  BY <1>0, <1>8 DEF vars, Spoils, earlyVars
<1> QED  BY <1>1, <1>2, <1>3, <1>4, <1>5, <1>6, <1>7, <1>8 DEF ConnectionsNext

-----------------------------------------------------------------------------
(* The theorems *)

\* The start begins with no connection made and nothing sent.
LEMMA InvInit == ConnectionsInit => ConnectionsInv
<1> SUFFICES ASSUME ConnectionsInit PROVE ConnectionsInv
  OBVIOUS
<1> USE PlanType DEF ConnectionsInit
<1>1. ConnectionsTypeOK
  BY ConnectionsAssumption DEF ConnectionsTypeOK, LinkState
<1>2. Made /\ Spoken
  <2>1. <<>> \in Seq({"frame"})
    OBVIOUS
  <2> QED  BY <2>1 DEF Made, Spoken
<1>3. Known
  BY DEF Known, Ends
<1>4. HastyLost
  BY DEF HastyLost, Spoils
<1> QED  BY <1>1, <1>2, <1>3, <1>4 DEF ConnectionsInv

\* ConnectionsInv is inductive.
LEMMA InvAlways == ConnectionsSpec => []ConnectionsInv
<1>1. ConnectionsInv /\ [ConnectionsNext]_vars => ConnectionsInv'
  BY TypeNext, MadeNext, SpokenNext, KnownNext, HastyNext DEF ConnectionsInv
<1> QED  BY <1>1, InvInit, PTL DEF ConnectionsSpec

\* Every variable keeps its type.
THEOREM ConnectionsTypeCorrect == ConnectionsSpec => []ConnectionsTypeOK
<1>1. ConnectionsInv => ConnectionsTypeOK
  BY DEF ConnectionsInv
<1> QED  BY <1>1, InvAlways, PTL

\* What the two ends know of each other when the start is over: in the peers as
\* the connections left them, those that were lost are missing on the accepting
\* side, and only there, and they were lost in one of the two ways.
LEMMA InvMeshed == ConnectionsInv => MeshedUnlessLost
<1> SUFFICES ASSUME ConnectionsInv, Started, NEW n \in Node, NEW l \in Layer
             PROVE  Ends(n, l) = Planned(n, l) \ Lost(n)
  BY DEF ConnectionsInv, Known, MeshedUnlessLost
<1> USE PlanType
<1>1. \A i \in Link :
        /\ link[i] # "none"
        /\ link[i] # "serving" <=> link[i] = "refused" \/ i \in hasty
  BY DEF Started, ConnectionsInv, HastyLost, Spoils
<1>2. \A i, j \in Link :
          /\ Plan[i].from # Plan[i].to
          /\ {Plan[i].from, Plan[i].to} = {Plan[j].from, Plan[j].to} => i = j
  BY ConnectionsAssumption DEF Link
<1>3. ASSUME NEW m \in Ends(n, l) PROVE m \in Planned(n, l) \ Lost(n)
  <2>1. PICK i \in Link :
          /\ Plan[i].layer = l
          /\ \/ Plan[i].from = n /\ Plan[i].to = m /\ link[i] # "none"
             \/ Plan[i].to = n /\ Plan[i].from = m /\ link[i] = "serving"
    BY <1>3 DEF Ends
  <2>2. m \in Planned(n, l)
    BY <1>2, <1>3, <2>1 DEF Planned, Ends
  <2>3. ASSUME NEW j \in Link, Plan[j].from = m, Plan[j].to = n,
               link[j] = "refused" \/ j \in hasty
        PROVE  FALSE
    <3>1. {Plan[i].from, Plan[i].to} = {Plan[j].from, Plan[j].to}
      BY <2>1, <2>3
    <3>2. i = j
      BY <1>2, <3>1
    <3> QED  BY <1>1, <1>2, <2>1, <2>3, <3>2
  <2> QED  BY <2>2, <2>3 DEF Lost
<1>4. ASSUME NEW m \in Planned(n, l), m \notin Lost(n) PROVE m \in Ends(n, l)
  <2>1. PICK i \in Link : /\ Plan[i].layer = l
                          /\ {Plan[i].from, Plan[i].to} = {m, n}
                          /\ m # n
    BY <1>4 DEF Planned
  <2>2. m \in Node
    BY <1>4 DEF Planned
  <2>3. CASE Plan[i].from = n /\ Plan[i].to = m
    BY <1>1, <2>1, <2>2, <2>3 DEF Ends
  <2>4. CASE Plan[i].from = m /\ Plan[i].to = n
    <3>1. ~(link[i] = "refused" \/ i \in hasty)
      BY <1>4, <2>2, <2>4 DEF Lost
    <3>2. link[i] = "serving"
      BY <1>1, <3>1
    <3> QED  BY <2>1, <2>2, <2>4, <3>2 DEF Ends
  <2> QED  BY <2>1, <2>3, <2>4
<1> QED  BY <1>3, <1>4

\* When the start is over both ends of every connection have each other on the same
\* layer, and nobody else (MsgHandler.cpp:70-87, 122-140), but for those that were
\* refused or on which a write sent a frame before Connect sent the hello (lines 133
\* and 136), for any plan that connects no two nodes twice.
THEOREM MeshedAtTheEnd == ConnectionsSpec => []MeshedUnlessLost
BY InvMeshed, InvAlways, PTL
=============================================================================
