----------------------------- MODULE MsgHandler -----------------------------
(***************************************************************************)
(* The messages core-layer nodes exchange and the connections they travel  *)
(* on (MsgHandler in src/src/nodes, Socket in src/src/sockets).            *)
(*                                                                         *)
(* Every ordered pair of nodes has one TCP stream, read by one             *)
(* ClientService thread, so a channel is a FIFO queue without loss or      *)
(* duplication.  A frame is one byte of tag and four of data.  The         *)
(* connections are those of a node whose Connect calls and accepted        *)
(* connections have all completed.                                         *)
(***************************************************************************)
EXTENDS Integers, Sequences, FiniteSets

CONSTANT Node       \* ids (ports) of the core-layer nodes

ASSUME NodeAssumption ==
    Node \subseteq Nat /\ IsFiniteSet(Node) /\ Cardinality(Node) > 1

\* The Tag values that are ever sent: a READ is executed where it is submitted.
Tag == {"REQUEST", "RELEASE", "ACK", "READY",
        "SUM", "SUBSTRACT", "MULTIPLY", "SET"}

Message == [tag : Tag, data : Int]

\* m_Layers[CORE_LAYER] of node n: the ids of its connected peers.  The order
\* of that vector depends on the order in which connections are accepted, so
\* loops over it take the peers in any order.
Peers(n) == Node \ {n}

\* SendMsg: one frame appended to the stream from src to dst.
SendMsg(ch, src, dst, t, d) ==
    [ch EXCEPT ![src][dst] = Append(@, [tag |-> t, data |-> d])]

\* ReceiveMsg: the frame at the head of the stream from src to dst is consumed.
ReceiveMsg(ch, src, dst) == [ch EXCEPT ![src][dst] = Tail(@)]
=============================================================================
