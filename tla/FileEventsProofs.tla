-------------------------- MODULE FileEventsProofs --------------------------
(***************************************************************************)
(* Theorems about FileEvents, for any files, nodes and contents and any    *)
(* number of saves: no save is forgotten, and what may change the versions *)
(* below the core layer.                                                   *)
(***************************************************************************)
EXTENDS FileEvents, SequenceTheorems, NaturalsInduction, WellFoundedInduction, TLAPS

\* Tokens that change nothing.
Harmless == {t \in Token : t.type \notin WriteType}

\* A transaction that may be executed while no file asks for a write below the
\* core layer.
CoreJob == {j \in [node : Node, trans : Token] : j.node \in Core \/ j.trans \in Harmless}

\* A save that has not yet written the file counts as one of those allowed.
Bounded == \A f \in File : writing[f] # None => saved[f] < MaxSaves[f]

\* What is still to be executed changes the core only, unless a file asks for more.
TodoOnCore == AskedBelow \/ todo \in Seq(CoreJob)

FilesInv ==
    /\ FilesTypeOK /\ Bounded /\ NoSaveForgotten
    /\ TodoOnCore /\ WritesOnCoreUnlessAsked

-----------------------------------------------------------------------------
(* What is read from a file *)

\* A set of natural numbers that is not empty has a least one.
LEMMA Least ==
    ASSUME NEW T \in SUBSET Nat, T # {}
    PROVE  \E n \in T : \A m \in T : n <= m
<1> DEFINE R == OpToRel(<, Nat)
<1>1. IsWellFoundedOn(R, Nat)
  BY NatLessThanWellFounded
<1>2. \A x, y \in Nat : <<x, y>> \in R <=> x < y
  BY DEF OpToRel
<1> HIDE DEF R
<1>3. PICK n \in T : \A m \in T : ~(<<m, n>> \in R)
  BY <1>1, WFMin
<1>4. \A m \in T : m \in Nat /\ n \in Nat /\ ~(m < n)
  BY <1>2, <1>3
<1> QED  BY <1>4

\* What reading one more token makes of the transactions s.
Push(s, t) == IF t.type = "UNKOWN" THEN s ELSE Append(s, t)

\* g[i] is what the first i tokens of body make, for i up to n.
Reads(body, T, g, n) ==
    /\ g \in [0 .. n -> Seq(T)]
    /\ g[0] = <<>>
    /\ \A i \in 1 .. n : g[i] = Push(g[i - 1], body[i])

\* The loop has a result for every body, and it is a sequence of its tokens.
LEMMA ReadsAll ==
    ASSUME NEW T, NEW body \in Seq(T)
    PROVE  \E g : Reads(body, T, g, Len(body))
<1> DEFINE l == Len(body)
           Bad == {n \in 0 .. l : ~ \E g : Reads(body, T, g, n)}
<1>1. l \in Nat /\ \A i \in 1 .. l : body[i] \in T
  BY LenProperties, ElementOfSeq
<1>2. \A s \in Seq(T), t \in T : Push(s, t) \in Seq(T)
  BY AppendProperties DEF Push
<1> HIDE DEF l
<1>3. SUFFICES Bad = {}
  <2>1. l \in 0 .. l
    BY <1>1
  <2> QED  BY <1>3, <2>1 DEF l
<1>4. SUFFICES ASSUME Bad # {} PROVE FALSE
  OBVIOUS
<1>5. PICK n \in Bad : \A m \in Bad : n <= m
  <2>1. Bad \in SUBSET Nat
    BY <1>1
  <2> HIDE DEF Bad
  <2> QED  BY <1>4, <2>1, Least
<1>6. n \in 0 .. l /\ n \in Nat
  BY <1>1
<1>7. n # 0
  <2> DEFINE g == [i \in 0 .. 0 |-> <<>>]
  <2>1. g \in [0 .. 0 -> Seq(T)] /\ g[0] = <<>> /\ 1 .. 0 = {}
    OBVIOUS
  <2> HIDE DEF g
  <2>2. Reads(body, T, g, 0)
    BY <2>1 DEF Reads
  <2> QED  BY <2>2
<1>8. n - 1 \in 0 .. l /\ ~(n <= n - 1)
  BY <1>1, <1>6, <1>7
<1>9. PICK g : Reads(body, T, g, n - 1)
  BY <1>5, <1>8
<1> DEFINE h == [i \in 0 .. n |-> IF i < n THEN g[i] ELSE Push(g[n - 1], body[n])]
<1>10. /\ g \in [0 .. n - 1 -> Seq(T)] /\ g[0] = <<>>
       /\ \A i \in 1 .. n - 1 : g[i] = Push(g[i - 1], body[i])
  BY <1>9 DEF Reads
<1>11. Push(g[n - 1], body[n]) \in Seq(T)
  <2>1. n - 1 \in 0 .. n - 1 /\ n \in 1 .. l
    BY <1>1, <1>6, <1>7
  <2>2. g[n - 1] \in Seq(T) /\ body[n] \in T
    BY <1>1, <1>10, <2>1
  <2> QED  BY <1>2, <2>2
<1>12. h \in [0 .. n -> Seq(T)]
  <2>1. \A i \in 0 .. n : i < n => i \in 0 .. n - 1
    BY <1>6
  <2> QED  BY <1>10, <1>11, <2>1
<1>13. h[0] = <<>>
  BY <1>6, <1>7, <1>10
<1>14. ASSUME NEW i \in 1 .. n
       PROVE  h[i] = Push(h[i - 1], body[i])
  <2>1. i - 1 \in 0 .. n /\ i - 1 < n /\ h[i - 1] = g[i - 1]
    BY <1>6
  <2>2. CASE i = n
    <3>1. i \in 0 .. n /\ ~(i < n)
      BY <1>6, <2>2
    <3>2. h[i] = Push(g[n - 1], body[n])
      BY <3>1
    <3> QED  BY <2>1, <2>2, <3>2
  <2>3. CASE i # n
    <3>1. i \in 0 .. n /\ i < n /\ i \in 1 .. n - 1
      BY <1>6, <2>3
    <3>2. h[i] = g[i]
      BY <3>1
    <3> QED  BY <1>10, <2>1, <3>1, <3>2
  <2> QED  BY <2>2, <2>3
<1> HIDE DEF h
<1>15. Reads(body, T, h, n)
  BY <1>12, <1>13, <1>14 DEF Reads
<1> QED  BY <1>15

\* The loop, as an equation.
LEMMA ParsedIs ==
    ASSUME NEW body
    PROVE  Parsed(body) =
              (CHOOSE g : g = [i \in 0 .. Len(body) |->
                  IF i = 0 THEN <<>>
                  ELSE IF body[i].type = "UNKOWN" THEN g[i - 1]
                  ELSE Append(g[i - 1], body[i])])[Len(body)]
BY DEF Parsed

\* What is read from a body is a sequence of its tokens.
LEMMA ParsedType ==
    ASSUME NEW T, NEW body \in Seq(T)
    PROVE  Parsed(body) \in Seq(T)
<1> DEFINE l == Len(body)
           Eq(g) == g = [i \in 0 .. l |->
                           IF i = 0 THEN <<>>
                           ELSE IF body[i].type = "UNKOWN" THEN g[i - 1]
                           ELSE Append(g[i - 1], body[i])]
           F == CHOOSE g : Eq(g)
<1>1. l \in Nat /\ \A i \in 1 .. l : body[i] \in T
  BY LenProperties, ElementOfSeq
<1>2. Parsed(body) = F[l]
  BY ParsedIs
<1>3. PICK g : Reads(body, T, g, l)
  BY ReadsAll
<1> HIDE DEF l
<1>4. Eq(g)
  <2> DEFINE h == [i \in 0 .. l |->
                     IF i = 0 THEN <<>>
                     ELSE IF body[i].type = "UNKOWN" THEN g[i - 1]
                     ELSE Append(g[i - 1], body[i])]
  <2>1. g \in [0 .. l -> Seq(T)]
    BY <1>3 DEF Reads
  <2>2. ASSUME NEW i \in 0 .. l
        PROVE  g[i] = h[i]
    <3>1. CASE i = 0
      BY <1>3, <3>1 DEF Reads
    <3>2. CASE i # 0
      <4>1. i \in 1 .. l
        BY <1>1, <3>2
      <4>2. g[i] = Push(g[i - 1], body[i])
        BY <1>3, <4>1 DEF Reads
      <4> QED  BY <3>2, <4>2 DEF Push
    <3> QED  BY <3>1, <3>2
  <2>3. g = [i \in 0 .. l |-> g[i]] /\ h = [i \in 0 .. l |-> h[i]]
    BY <2>1
  <2> HIDE DEF h
  <2>4. g = h
    BY <2>2, <2>3
  <2> QED  BY <2>4 DEF h
<1>5. Eq(F)
  <2> HIDE DEF Eq
  <2> QED  BY <1>4
<1>6. /\ F[0] = <<>>
      /\ \A i \in 1 .. l : F[i] = Push(F[i - 1], body[i])
  <2> HIDE DEF F
  <2>1. \A i \in 0 .. l : F[i] = IF i = 0 THEN <<>>
                                 ELSE IF body[i].type = "UNKOWN" THEN F[i - 1]
                                 ELSE Append(F[i - 1], body[i])
    BY <1>5
  <2>2. 0 \in 0 .. l /\ \A i \in 1 .. l : i \in 0 .. l /\ i # 0
    BY <1>1
  <2> QED  BY <2>1, <2>2 DEF Push
<1> HIDE DEF F
<1> DEFINE Bad == {n \in 0 .. l : F[n] \notin Seq(T)}
<1>7. Bad = {}
  <2>1. SUFFICES ASSUME Bad # {} PROVE FALSE
    OBVIOUS
  <2>2. PICK n \in Bad : \A m \in Bad : n <= m
    <3>1. Bad \in SUBSET Nat
      BY <1>1
    <3> HIDE DEF Bad
    <3> QED  BY <2>1, <3>1, Least
  <2>3. n # 0
    <3>1. <<>> \in Seq(T) /\ F[n] \notin Seq(T)
      OBVIOUS
    <3> QED  BY <1>6, <3>1
  <2>4. n \in 1 .. l /\ n - 1 \in 0 .. l /\ ~(n <= n - 1)
    BY <1>1, <2>3
  <2>5. F[n - 1] \in Seq(T)
    BY <2>2, <2>4
  <2>6. Push(F[n - 1], body[n]) \in Seq(T)
    BY <1>1, <2>4, <2>5, AppendProperties DEF Push
  <2> QED  BY <1>6, <2>4, <2>6
<1>8. l \in 0 .. l
  BY <1>1
<1> QED  BY <1>2, <1>7, <1>8

-----------------------------------------------------------------------------
(* What is to be executed *)

\* The layers of nodes, and the core among them.
LEMMA LayerNodes ==
    /\ Members[0] \in Seq(Core)
    /\ \A k \in 0 .. 2 : Members[k] \in Seq(Node)
    /\ Core \subseteq Node
<1>1. \A k \in 0 .. 2 : Members[k] \in Seq(Node)
  BY FilesAssumption
<1>2. Members[0] \in Seq(Node)
  BY <1>1
<1>3. Core = {Members[0][i] : i \in 1 .. Len(Members[0])} /\ Core \subseteq Node
  BY <1>2, RangeEquality, RangeOfSeq DEF Core
<1>4. Members[0] \in Seq(Core)
  BY <1>2, SeqOfRange DEF Core
<1> QED  BY <1>1, <1>3, <1>4

\* Each of k transactions on every one of m nodes: both indices are in range.
LEMMA OnLayerIndex ==
    ASSUME NEW k \in Nat, NEW m \in Nat, NEW i \in 1 .. k * m
    PROVE  ((i - 1) % m) + 1 \in 1 .. m /\ ((i - 1) \div m) + 1 \in 1 .. k
<1>1. i \in Nat /\ 1 <= i /\ i <= k * m
  OBVIOUS
<1>2. m # 0
  BY <1>1
<1> DEFINE r == (i - 1) % m
           q == (i - 1) \div m
<1>3. /\ r \in 0 .. m - 1 /\ q \in Int
      /\ i - 1 = m * q + r
  BY <1>1, <1>2
<1> HIDE DEF r, q
<1>4. q >= 0
  <2>1. ASSUME q <= -1
        PROVE  FALSE
    <3>1. m * q <= m * (-1)
      BY <1>3, <2>1
    <3> QED  BY <1>1, <1>3, <3>1
  <2> QED  BY <1>3, <2>1
<1>5. q < k
  <2>1. ASSUME q >= k
        PROVE  FALSE
    <3>1. m * q >= m * k
      BY <1>3, <2>1
    <3>2. m * k = k * m
      OBVIOUS
    <3> QED  BY <1>1, <1>3, <3>1, <3>2
  <2> QED  BY <1>3, <2>1
<1>6. r + 1 \in 1 .. m /\ q + 1 \in 1 .. k
  BY <1>3, <1>4, <1>5
<1> QED  BY <1>6 DEF r, q

\* What is executed on a layer of nodes N: pairs of N and of the transactions' T.
LEMMA OnLayerType ==
    ASSUME NEW N, NEW T, NEW layer \in 0 .. 2, Members[layer] \in Seq(N),
           NEW transactions \in Seq(T),
           NEW J, \A n \in N, t \in T : [node |-> n, trans |-> t] \in J
    PROVE  OnLayer(layer, transactions) \in Seq(J)
<1> DEFINE nodes == Members[layer]
           m == Len(nodes)
           k == Len(transactions)
           s == [i \in 1 .. k * m |-> [node |-> nodes[((i - 1) % m) + 1],
                                       trans |-> transactions[((i - 1) \div m) + 1]]]
<1>1. /\ m \in Nat /\ \A i \in 1 .. m : nodes[i] \in N
      /\ k \in Nat /\ \A i \in 1 .. k : transactions[i] \in T
  BY LenProperties, ElementOfSeq
<1>2. OnLayer(layer, transactions) = s
  BY DEF OnLayer
<1> HIDE DEF nodes, m, k
<1>3. ASSUME NEW i \in 1 .. k * m
      PROVE  [node |-> nodes[((i - 1) % m) + 1], trans |-> transactions[((i - 1) \div m) + 1]] \in J
  <2>1. ((i - 1) % m) + 1 \in 1 .. m /\ ((i - 1) \div m) + 1 \in 1 .. k
    BY <1>1, OnLayerIndex
  <2>2. nodes[((i - 1) % m) + 1] \in N /\ transactions[((i - 1) \div m) + 1] \in T
    BY <1>1, <2>1
  <2> QED  BY <2>2
<1>4. k * m \in Nat
  BY <1>1
<1>5. s \in [1 .. k * m -> J]
  BY <1>3
<1> HIDE DEF s
<1>6. s \in Seq(J)
  BY <1>4, <1>5
<1> QED  BY <1>2, <1>6

\* What a file with contents c makes to be executed: a job of J, when J holds what
\* may go to the core, all tokens, and what may go below it, the tokens H that
\* files for the other layers hold.
LEMMA DispatchType ==
    ASSUME NEW f \in File, NEW c, c.header \in Header, c.body \in Seq(Token),
           NEW H, c.header \in {1, 2} => c.body \in Seq(H),
           NEW J, \A n \in Core, t \in Token : [node |-> n, trans |-> t] \in J,
           \A n \in Node, t \in H : [node |-> n, trans |-> t] \in J
    PROVE  Dispatch(f, ReadTransactions(c)) \in Seq(J)
<1> DEFINE r == ReadTransactions(c)
           b == c.body
           s == Parsed(b)
<1>1. /\ r.readOnly = isReadOnly(c.header) /\ r.layer = parseLayer(c.header)
      /\ r.transactions = s
  BY DEF ReadTransactions
<1>2. s \in Seq(Token) /\ (c.header \in {1, 2} => s \in Seq(H))
  <2>1. b \in Seq(Token) /\ (c.header \in {1, 2} => b \in Seq(H))
    OBVIOUS
  <2> HIDE DEF b
  <2> QED  BY <2>1, ParsedType
<1>3. r.layer = IF c.header \in {1, 2} THEN c.header ELSE 0
  <2>1. 1 .. 2 = {1, 2}
    OBVIOUS
  <2> QED  BY <1>1, <2>1 DEF parseLayer
<1> HIDE DEF r, s
<1>4. CASE r.readOnly
  <2>1. Dispatch(f, r) = OnLayer(r.layer, s)
    BY <1>1, <1>4 DEF Dispatch
  <2>2. CASE c.header \in {1, 2}
    <3>1. r.layer \in 0 .. 2
      BY <1>3, <2>2
    <3>2. \A l \in 0 .. 2 : OnLayer(l, s) \in Seq(J)
      BY <1>2, <2>2, LayerNodes, OnLayerType
    <3> QED  BY <2>1, <3>1, <3>2 DEF r
  <2>3. CASE c.header \notin {1, 2}
    <3>1. r.layer = 0 /\ 0 \in 0 .. 2
      BY <1>3, <2>3
    <3>2. OnLayer(0, s) \in Seq(J)
      BY <1>2, <3>1, LayerNodes, OnLayerType
    <3> QED  BY <2>1, <3>1, <3>2 DEF r
  <2> QED  BY <2>2, <2>3
<1>5. CASE ~r.readOnly /\ Target[f] = None
  <2>1. Dispatch(f, r) = <<>>
    BY <1>5 DEF Dispatch
  <2> QED  BY <2>1 DEF r
<1>6. CASE ~r.readOnly /\ Target[f] # None
  <2> DEFINE d == [i \in DOMAIN s |-> [node |-> Target[f], trans |-> s[i]]]
             l == Len(s)
  <2>1. Target[f] \in Core
    BY <1>6, FilesAssumption
  <2>2. l \in Nat /\ DOMAIN s = 1 .. l /\ \A i \in 1 .. l : s[i] \in Token
    BY <1>2, LenProperties, ElementOfSeq
  <2>3. Dispatch(f, r) = d
    BY <1>1, <1>6 DEF Dispatch
  <2>4. \A i \in 1 .. l : [node |-> Target[f], trans |-> s[i]] \in J
    BY <2>1, <2>2
  <2>5. d \in [1 .. l -> J]
    BY <2>2, <2>4
  <2> HIDE DEF d, l
  <2>6. d \in Seq(J)
    BY <2>2, <2>5
  <2> QED  BY <2>3, <2>6 DEF r
<1> QED  BY <1>4, <1>5, <1>6

\* A file has the contents of a save or none.
LEMMA ContentsType ==
    ASSUME NEW c \in Contents \cup {Empty}
    PROVE  c.header \in Header /\ c.body \in Seq(Token)
<1>1. CASE c \in Contents
  BY <1>1, FilesAssumption
<1>2. CASE c = Empty
  BY <1>2 DEF Empty, Header
<1> QED  BY <1>1, <1>2

\* What is read from a file is a sequence of nodes and tokens.
LEMMA JobsType ==
    ASSUME NEW f \in File, NEW c \in Contents \cup {Empty}
    PROVE  /\ Dispatch(f, ReadTransactions(c)) \in Seq([node : Node, trans : Token])
           /\ ~AskedBelow => Dispatch(f, ReadTransactions(c)) \in Seq(CoreJob)
<1>1. c.header \in Header /\ c.body \in Seq(Token)
  BY ContentsType
<1>2. Dispatch(f, ReadTransactions(c)) \in Seq([node : Node, trans : Token])
  <2> DEFINE J == [node : Node, trans : Token]
  <2>1. /\ \A n \in Core, t \in Token : [node |-> n, trans |-> t] \in J
        /\ \A n \in Node, t \in Token : [node |-> n, trans |-> t] \in J
    BY LayerNodes
  <2> HIDE DEF J
  <2>2. Dispatch(f, ReadTransactions(c)) \in Seq(J)
    BY <1>1, <2>1, DispatchType
  <2> QED  BY <2>2 DEF J
<1>3. ASSUME ~AskedBelow
      PROVE  Dispatch(f, ReadTransactions(c)) \in Seq(CoreJob)
  <2>1. /\ \A n \in Core, t \in Token : [node |-> n, trans |-> t] \in CoreJob
        /\ \A n \in Node, t \in Harmless : [node |-> n, trans |-> t] \in CoreJob
    BY LayerNodes DEF CoreJob, Harmless
  <2>2. ASSUME c.header \in {1, 2}
        PROVE  c.body \in Seq(Harmless)
    <3> DEFINE b == c.body
               l == Len(b)
    <3>1. l \in Nat /\ b \in [1 .. l -> Token] /\ DOMAIN b = 1 .. l
      BY <1>1, LenProperties
    <3>2. CASE c = Empty
      <4>1. b = <<>>
        BY <3>2 DEF Empty
      <4> QED  BY <4>1
    <3>3. CASE c \in Contents
      <4>1. \A t \in Range(b) : t.type \notin WriteType
        BY <1>3, <2>2, <3>3 DEF AskedBelow
      <4> HIDE DEF b, l
      <4>2. \A i \in 1 .. l : b[i] \in Token /\ b[i] \in Range(b)
        BY <3>1 DEF Range
      <4>3. \A i \in 1 .. l : b[i] \in Harmless
        BY <4>1, <4>2 DEF Harmless
      <4>4. b \in [1 .. l -> Harmless]
        BY <3>1, <4>3
      <4>5. b \in Seq(Harmless)
        BY <3>1, <4>4
      <4> QED  BY <4>5 DEF b
    <3> QED  BY <3>2, <3>3
  <2> QED  BY <1>1, <2>1, <2>2, DispatchType
<1> QED  BY <1>2, <1>3

-----------------------------------------------------------------------------
(* Steps *)

\* Wrap brings every integer back into the range of an int.
LEMMA WrapVersion == ASSUME NEW x \in Int PROVE Wrap(x) \in Version
<1>1. IntHalf \in Nat /\ IntHalf > 0
  BY IntHalfAssumption
<1>2. (x + IntHalf) % (2 * IntHalf) \in 0 .. (2 * IntHalf - 1)
  BY <1>1
<1> QED  BY <1>1, <1>2 DEF Wrap, Version

\* A transaction leaves a version, and a harmless one the same.
LEMMA ExecuteToken ==
    ASSUME NEW t \in Token, NEW v \in Version
    PROVE  /\ ExecuteTransaction(t, v) \in Version
           /\ t \in Harmless => ExecuteTransaction(t, v) = v
<1>1. v \in Int /\ t.value \in Int /\ t.value \in Version
      /\ t.type \in WriteType \cup {"READ", "UNKOWN"}
  BY IntHalfAssumption DEF Token, Version
<1>2. CASE t.type = "SUM"
  <2>1. ExecuteTransaction(t, v) = Wrap(v + t.value)
    BY <1>2 DEF ExecuteTransaction
  <2> QED  BY <1>1, <1>2, <2>1, WrapVersion DEF Harmless, WriteType
<1>3. CASE t.type = "SUBSTRACT"
  <2>1. ExecuteTransaction(t, v) = Wrap(v - t.value)
    BY <1>3 DEF ExecuteTransaction
  <2> QED  BY <1>1, <1>3, <2>1, WrapVersion DEF Harmless, WriteType
<1>4. CASE t.type = "MULTIPLY"
  <2>1. ExecuteTransaction(t, v) = Wrap(v * t.value)
    BY <1>4 DEF ExecuteTransaction
  <2>2. v * t.value \in Int
    BY <1>1
  <2> QED  BY <1>4, <2>1, <2>2, WrapVersion DEF Harmless, WriteType
<1>5. CASE t.type = "SET"
  <2>1. ExecuteTransaction(t, v) = t.value
    BY <1>5 DEF ExecuteTransaction
  <2> QED  BY <1>1, <1>5, <2>1 DEF Harmless, WriteType
<1>6. CASE t.type \in {"READ", "UNKOWN"}
  <2>1. ExecuteTransaction(t, v) = v
    BY <1>6 DEF ExecuteTransaction
  <2> QED  BY <2>1
<1> QED  BY <1>1, <1>2, <1>3, <1>4, <1>5, <1>6 DEF WriteType

\* What is executed leaves every node a version.
LEMMA ExecuteOnStep ==
    ASSUME FilesTypeOK, NEW t \in Token, NEW on, ExecuteOn(on, t)
    PROVE  version' \in [Node -> Version]
<1>1. version' = [n \in Node |-> IF n \in on THEN ExecuteTransaction(t, version[n])
                                             ELSE version[n]]
  BY DEF ExecuteOn
<1>2. \A n \in Node : version[n] \in Version /\ ExecuteTransaction(t, version[n]) \in Version
  BY ExecuteToken DEF FilesTypeOK
<1> QED  BY <1>1, <1>2

\* A change is one more event.
LEMMA ChangedStep ==
    ASSUME FilesTypeOK, NEW f \in File, NEW action \in {"Modified", "Other"},
           Changed(f, action)
    PROVE  /\ events' \in Seq([file : File, action : {"Modified", "Other"}])
           /\ \A g : (\E i \in DOMAIN events : events[i] = Modified(g)) =>
                     \E i \in DOMAIN events' : events'[i] = Modified(g)
           /\ action = "Modified" => \E i \in DOMAIN events' : events'[i] = Modified(f)
<1> DEFINE E == [file : File, action : {"Modified", "Other"}]
           e == [file |-> f, action |-> action]
           l == Len(events)
<1>1. e \in E /\ events \in Seq(E) /\ events' = Append(events, e)
  BY DEF FilesTypeOK, Changed
<1>2. e = [file |-> f, action |-> action]
  OBVIOUS
<1> HIDE DEF E, e, l
<1>3. /\ l \in Nat /\ DOMAIN events = 1 .. l
      /\ events' \in Seq(E) /\ Len(events') = l + 1
      /\ \A i \in 1 .. l : events'[i] = events[i]
      /\ events'[l + 1] = e
  BY <1>1, AppendProperties, LenProperties DEF l
<1>4. DOMAIN events' = 1 .. l + 1
  BY <1>3, LenProperties
<1>5. l + 1 \in 1 .. l + 1 /\ \A i \in 1 .. l : i \in 1 .. l + 1
  BY <1>3
<1>6. action = "Modified" => e = Modified(f)
  BY <1>2 DEF Modified
<1> QED  BY <1>3, <1>4, <1>5, <1>6 DEF E

\* When the first event is taken, the others are left.
LEMMA TakenStep ==
    ASSUME FilesTypeOK, events # <<>>, events' = Tail(events)
    PROVE  /\ Head(events) \in [file : File, action : {"Modified", "Other"}]
           /\ events' \in Seq([file : File, action : {"Modified", "Other"}])
           /\ \A g : (\E i \in DOMAIN events : events[i] = Modified(g)) =>
                     \/ Head(events) = Modified(g)
                     \/ \E i \in DOMAIN events' : events'[i] = Modified(g)
<1> DEFINE E == [file : File, action : {"Modified", "Other"}]
           l == Len(events)
<1>1. events \in Seq(E)
  BY DEF FilesTypeOK
<1> HIDE DEF E, l
<1>2. /\ l \in Nat /\ DOMAIN events = 1 .. l
      /\ Head(events) \in E /\ events' \in Seq(E) /\ Len(events') = l - 1
      /\ \A i \in 1 .. Len(events') : events'[i] = events[i + 1]
      /\ Head(events) = events[1]
  BY <1>1, HeadTailProperties, LenProperties DEF l
<1>3. DOMAIN events' = 1 .. l - 1
  BY <1>2, LenProperties
<1>4. ASSUME NEW g, NEW i \in 2 .. l, events[i] = Modified(g)
      PROVE  \E j \in DOMAIN events' : events'[j] = Modified(g)
  <2>1. i - 1 \in 1 .. l - 1 /\ (i - 1) + 1 = i
    BY <1>2
  <2>2. events'[i - 1] = events[i]
    BY <1>2, <2>1
  <2> QED  BY <1>3, <1>4, <2>1, <2>2
<1>5. \A i \in 1 .. l : i = 1 \/ i \in 2 .. l
  BY <1>2
<1>6. ASSUME NEW g, NEW i \in DOMAIN events, events[i] = Modified(g)
      PROVE  Head(events) = Modified(g) \/ \E j \in DOMAIN events' : events'[j] = Modified(g)
  BY <1>2, <1>4, <1>5, <1>6
<1> QED  BY <1>2, <1>6 DEF E

\* Every step keeps the types.
LEMMA TypeNext ==
    ASSUME FilesTypeOK, Bounded, [FilesNext]_filesVars
    PROVE  FilesTypeOK' /\ Bounded'
<1> USE DEF FilesTypeOK
<1> DEFINE E == [file : File, action : {"Modified", "Other"}]
<1>1. ASSUME NEW f \in File, NEW c \in Contents, Truncate(f, c)
      PROVE  FilesTypeOK' /\ Bounded'
  <2>1. /\ writing[f] = None /\ saved[f] < MaxSaves[f] /\ Changed(f, "Modified")
        /\ contents' = [contents EXCEPT ![f] = Empty]
        /\ writing' = [writing EXCEPT ![f] = c]
        /\ UNCHANGED <<saved, touches, at, file, todo, quiet, version, read, dropped, unopened>>
    BY <1>1 DEF Truncate, lostVars
  <2>2. events' \in Seq(E)
    BY <2>1, ChangedStep
  <2>3. /\ contents' \in [File -> Contents \cup {Empty}]
        /\ writing' \in [File -> Contents \cup {Empty, None}]
    BY <2>1
  <2>4. Bounded'
    BY <2>1 DEF Bounded
  <2> QED  BY <2>1, <2>2, <2>3, <2>4
<1>2. ASSUME NEW f \in File, WriteOut(f)
      PROVE  FilesTypeOK' /\ Bounded'
  <2>1. /\ writing[f] # None /\ Changed(f, "Modified")
        /\ contents' = [contents EXCEPT ![f] = writing[f]]
        /\ writing' = [writing EXCEPT ![f] = None]
        /\ saved' = [saved EXCEPT ![f] = @ + 1]
        /\ dropped' = dropped \ {f} /\ unopened' = unopened \ {f}
        /\ UNCHANGED <<touches, at, file, todo, quiet, version, read>>
    BY <1>2 DEF WriteOut
  <2>2. events' \in Seq(E)
    BY <2>1, ChangedStep
  <2>3. /\ contents' \in [File -> Contents \cup {Empty}]
        /\ writing' \in [File -> Contents \cup {Empty, None}]
    BY <2>1
  <2>4. saved' \in [File -> Nat] /\ \A g \in File : read'[g] <= saved'[g] /\ saved'[g] <= MaxSaves[g]
    <3>1. saved' \in [File -> Nat]
      BY <2>1
    <3>2. ASSUME NEW g \in File
          PROVE  read'[g] <= saved'[g] /\ saved'[g] <= MaxSaves[g]
      <4>1. /\ read[g] \in Nat /\ saved[g] \in Nat /\ MaxSaves[g] \in Nat
            /\ read[g] <= saved[g] /\ saved[g] <= MaxSaves[g]
        BY FilesAssumption
      <4>2. CASE g = f
        BY <2>1, <4>1, <4>2 DEF Bounded
      <4>3. CASE g # f
        BY <2>1, <4>1, <4>3
      <4> QED  BY <4>2, <4>3
    <3> QED  BY <3>1, <3>2
  <2>5. Bounded'
    BY <2>1 DEF Bounded
  <2> QED  BY <2>1, <2>2, <2>3, <2>4, <2>5
<1>3. ASSUME NEW f \in File, Touch(f)
      PROVE  FilesTypeOK' /\ Bounded'
  <2>1. /\ touches < MaxTouches /\ touches' = touches + 1 /\ Changed(f, "Other")
        /\ UNCHANGED <<contents, writing, saved, at, file, todo, quiet, version, read>>
        /\ UNCHANGED <<dropped, unopened>>
    BY <1>3 DEF Touch, lostVars
  <2>2. events' \in Seq(E)
    BY <2>1, ChangedStep
  <2>3. touches' \in 0 .. MaxTouches
    BY <2>1, FilesAssumption
  <2>4. Bounded'
    BY <2>1 DEF Bounded
  <2> QED  BY <2>1, <2>2, <2>3, <2>4
<1>4. CASE HandleFileAction
  <2>1. at = "idle" /\ events # <<>> /\ events' = Tail(events)
        /\ UNCHANGED <<contents, writing, saved, touches, todo, version, read, unopened>>
    BY <1>4 DEF HandleFileAction, userVars
  <2>2. Head(events) \in E /\ events' \in Seq(E)
    BY <2>1, TakenStep
  <2>3. Head(events).file \in File
    BY <2>2
  <2>4. at' \in {"idle", "read", "execute", "hung"} /\ file' \in File /\ quiet' \in BOOLEAN
        /\ dropped' \subseteq File
    <3>1. CASE quiet /\ Head(events).action = "Modified"
      BY <1>4, <2>3, <3>1 DEF HandleFileAction
    <3>2. CASE ~(quiet /\ Head(events).action = "Modified")
      <4>1. /\ UNCHANGED <<at, file>> /\ quiet' = FALSE
            /\ dropped' \subseteq dropped \cup {Head(events).file}
        BY <1>4, <3>2 DEF HandleFileAction, Debounced
      <4> QED  BY <2>3, <4>1
    <3> QED  BY <3>1, <3>2
  <2>5. Bounded'
    BY <2>1 DEF Bounded
  <2> QED  BY <2>1, <2>2, <2>4, <2>5
<1>5. CASE ReadFile
  <2>1. /\ at' = "execute" /\ todo' = Dispatch(file, ReadTransactions(contents[file]))
        /\ read' = IF writing[file] = None
                   THEN [read EXCEPT ![file] = saved[file]] ELSE read
        /\ UNCHANGED <<contents, writing, saved, touches, events, file, quiet, version>>
        /\ UNCHANGED <<dropped, unopened>>
    BY <1>5 DEF ReadFile, userVars, lostVars
  <2>2. todo' \in Seq([node : Node, trans : Token])
    <3> DEFINE c == contents[file]
    <3>1. c \in Contents \cup {Empty}
      OBVIOUS
    <3> HIDE DEF c
    <3>2. Dispatch(file, ReadTransactions(c)) \in Seq([node : Node, trans : Token])
      BY <3>1, JobsType
    <3> QED  BY <2>1, <3>2 DEF c
  <2>3. read' \in [File -> Nat] /\ \A g \in File : read'[g] <= saved'[g]
    BY <2>1
  <2>4. Bounded'
    BY <2>1 DEF Bounded
  <2> QED  BY <2>1, <2>2, <2>3, <2>4
<1>6. CASE ReadFileFails
  <2>1. /\ at' = "execute" /\ todo' = <<>>
        /\ unopened' \subseteq unopened \cup {file}
        /\ UNCHANGED <<contents, writing, saved, touches, events, file, quiet, version, read, dropped>>
    BY <1>6 DEF ReadFileFails, userVars
  <2>2. todo' \in Seq([node : Node, trans : Token])
    BY <2>1
  <2>3. Bounded'
    BY <2>1 DEF Bounded
  <2> QED  BY <2>1, <2>2, <2>3
<1>7. CASE Execute
  <2>1. /\ todo # <<>> /\ todo' = Tail(todo)
        /\ UNCHANGED <<contents, writing, saved, touches, events, at, file, quiet, read>>
        /\ UNCHANGED <<dropped, unopened>>
    BY <1>7 DEF Execute, userVars, lostVars
  <2>2. Head(todo) \in [node : Node, trans : Token] /\ todo' \in Seq([node : Node, trans : Token])
    BY <2>1, HeadTailProperties
  <2>3. version' \in [Node -> Version]
    <3>1. PICK on : ExecuteOn(on, Head(todo).trans)
      BY <1>7 DEF Execute
    <3> QED  BY <2>2, <3>1, ExecuteOnStep
  <2>4. Bounded'
    BY <2>1 DEF Bounded
  <2> QED  BY <2>1, <2>2, <2>3, <2>4
<1>11. CASE Hang
  <2>1. /\ todo # <<>> /\ at' = "hung"
        /\ UNCHANGED <<contents, writing, saved, touches, events, file, todo, quiet, read>>
        /\ UNCHANGED <<dropped, unopened>>
    BY <1>11 DEF Hang, userVars, lostVars
  <2>2. Head(todo) \in [node : Node, trans : Token]
    BY <2>1, HeadTailProperties
  <2>3. version' \in [Node -> Version]
    <3>1. PICK on : ExecuteOn(on, Head(todo).trans)
      BY <1>11 DEF Hang
    <3> QED  BY <2>2, <3>1, ExecuteOnStep
  <2>4. Bounded'
    BY <2>1 DEF Bounded
  <2> QED  BY <2>1, <2>3, <2>4
<1>8. CASE Return
  BY <1>8 DEF Return, userVars, lostVars, Bounded
<1>9. CASE Elapse
  BY <1>9 DEF Elapse, userVars, lostVars, Bounded
<1>10. CASE UNCHANGED filesVars
  BY <1>10 DEF filesVars, userVars, lostVars, Bounded
<1> QED  BY <1>1, <1>2, <1>3, <1>4, <1>5, <1>6, <1>7, <1>8, <1>9, <1>10, <1>11 DEF FilesNext, Watcher

\* Something of a save that f has is left to be reported.
Reported(f) == \E i \in DOMAIN events : events[i] = Modified(f)

\* No step forgets a save.
LEMMA ForgottenNext ==
    ASSUME FilesTypeOK, NoSaveForgotten, [FilesNext]_filesVars
    PROVE  NoSaveForgotten'
<1> SUFFICES ASSUME NEW f \in File, read'[f] < saved'[f], f \notin dropped', f \notin unopened'
             PROVE  Reported(f)' \/ (at' = "read" /\ file' = f) \/ writing'[f] # None
  BY DEF NoSaveForgotten, Awaited, Reported
<1>1. /\ read \in [File -> Nat] /\ saved \in [File -> Nat]
      /\ read[f] \in Nat /\ saved[f] \in Nat
      /\ writing \in [File -> Contents \cup {Empty, None}]
  BY DEF FilesTypeOK
<1>2. read[f] < saved[f] /\ f \notin dropped \cup unopened =>
         Reported(f) \/ (at = "read" /\ file = f) \/ writing[f] # None
  BY DEF NoSaveForgotten, Awaited, Reported
<1>3. CASE UNCHANGED <<read, saved, dropped, unopened, writing, events>>
           /\ (at = "read" => at' = "read" /\ file' = file)
  BY <1>2, <1>3 DEF Reported
<1>4. ASSUME NEW g \in File, NEW c \in Contents, Truncate(g, c)
      PROVE  Reported(f)' \/ (at' = "read" /\ file' = f) \/ writing'[f] # None
  <2>1. /\ writing' = [writing EXCEPT ![g] = c] /\ Changed(g, "Modified")
        /\ UNCHANGED <<saved, at, file, read, dropped, unopened>>
    BY <1>4 DEF Truncate, lostVars
  <2>2. (Reported(f) => Reported(f)') /\ Reported(g)'
    BY <2>1, ChangedStep DEF Reported
  <2>3. CASE f = g
    BY <2>2, <2>3
  <2>4. CASE f # g
    BY <1>1, <1>2, <2>1, <2>2, <2>4
  <2> QED  BY <2>3, <2>4
<1>5. ASSUME NEW g \in File, WriteOut(g)
      PROVE  Reported(f)' \/ (at' = "read" /\ file' = f) \/ writing'[f] # None
  <2>1. /\ writing' = [writing EXCEPT ![g] = None] /\ Changed(g, "Modified")
        /\ saved' = [saved EXCEPT ![g] = @ + 1]
        /\ dropped' = dropped \ {g} /\ unopened' = unopened \ {g}
        /\ UNCHANGED <<at, file, read>>
    BY <1>5 DEF WriteOut
  <2>2. (Reported(f) => Reported(f)') /\ Reported(g)'
    BY <2>1, ChangedStep DEF Reported
  <2>3. CASE f = g
    BY <2>2, <2>3
  <2>4. CASE f # g
    BY <1>1, <1>2, <2>1, <2>2, <2>4
  <2> QED  BY <2>3, <2>4
<1>6. ASSUME NEW g \in File, Touch(g)
      PROVE  Reported(f)' \/ (at' = "read" /\ file' = f) \/ writing'[f] # None
  <2>1. Changed(g, "Other") /\ UNCHANGED <<writing, saved, at, file, read, dropped, unopened>>
    BY <1>6 DEF Touch, lostVars
  <2>2. Reported(f) => Reported(f)'
    BY <2>1, ChangedStep DEF Reported
  <2> QED  BY <1>2, <2>1, <2>2
<1>7. CASE HandleFileAction
  <2> DEFINE e == Head(events)
  <2>1. /\ at = "idle" /\ events # <<>> /\ events' = Tail(events)
        /\ UNCHANGED <<writing, saved, read, unopened>>
    BY <1>7 DEF HandleFileAction, userVars
  <2>2. Reported(f) => e = Modified(f) \/ Reported(f)'
    BY <2>1, TakenStep DEF Reported
  <2>3. e = Modified(f) => e.file = f /\ e.action = "Modified"
    BY DEF Modified
  <2>4. CASE quiet /\ e.action = "Modified"
    <3>1. at' = "read" /\ file' = e.file /\ UNCHANGED dropped
      BY <1>7, <2>4 DEF HandleFileAction
    <3> QED  BY <1>2, <2>1, <2>2, <2>3, <3>1
  <2>5. CASE ~(quiet /\ e.action = "Modified")
    <3>1. dropped' = dropped \cup {g \in {e.file} : e.action = "Modified" /\ ~Awaited(g, events')}
      BY <1>7, <2>5 DEF HandleFileAction, Debounced
    <3>2. f \notin dropped
      BY <3>1
    <3>3. CASE e = Modified(f)
      <4>1. Awaited(f, events')
        BY <2>3, <3>1, <3>3
      <4> QED  BY <2>1, <4>1 DEF Awaited, Reported
    <3>4. CASE e # Modified(f)
      BY <1>2, <2>1, <2>2, <3>2, <3>4
    <3> QED  BY <3>3, <3>4
  <2> QED  BY <2>4, <2>5
<1>8. CASE ReadFile
  <2>1. /\ read' = IF writing[file] = None
                   THEN [read EXCEPT ![file] = saved[file]] ELSE read
        /\ UNCHANGED <<writing, saved, events, file, dropped, unopened>> /\ at = "read"
    BY <1>8 DEF ReadFile, userVars, lostVars
  <2>2. CASE f = file
    <3>1. writing[f] # None
      BY <1>1, <2>1, <2>2
    <3> QED  BY <2>1, <3>1
  <2>3. CASE f # file
    <3>1. read'[f] = read[f]
      BY <1>1, <2>1, <2>3
    <3> QED  BY <1>2, <2>1, <2>3, <3>1 DEF Reported
  <2> QED  BY <2>2, <2>3
<1>9. CASE ReadFileFails
  <2>1. /\ unopened' = IF Awaited(file, events) THEN unopened ELSE unopened \cup {file}
        /\ UNCHANGED <<writing, saved, events, file, read, dropped>> /\ at = "read"
    BY <1>9 DEF ReadFileFails, userVars
  <2>2. CASE f = file
    BY <2>1, <2>2 DEF Awaited, Reported
  <2>3. CASE f # file
    BY <1>2, <2>1, <2>3 DEF Reported
  <2> QED  BY <2>2, <2>3
<1>10. CASE Execute \/ Hang \/ Return \/ Elapse \/ UNCHANGED filesVars
  <2>1. UNCHANGED <<read, saved, dropped, unopened, writing, events>>
    BY <1>10 DEF Execute, Hang, Return, Elapse, userVars, lostVars, filesVars
  <2>2. at = "read" => at' = "read" /\ file' = file
    BY <1>10 DEF Execute, Hang, Return, Elapse, filesVars
  <2> QED  BY <1>3, <2>1, <2>2
<1> QED  BY <1>4, <1>5, <1>6, <1>7, <1>8, <1>9, <1>10 DEF FilesNext, Watcher

\* Unless a file asks for it, no step makes something that changes a version below
\* the core layer, or changes one.
LEMMA OnCoreNext ==
    ASSUME FilesTypeOK, TodoOnCore, WritesOnCoreUnlessAsked, [FilesNext]_filesVars
    PROVE  TodoOnCore' /\ WritesOnCoreUnlessAsked'
<1> SUFFICES ASSUME ~AskedBelow
             PROVE  todo' \in Seq(CoreJob) /\ WritesOnCoreOnly'
  BY DEF TodoOnCore, WritesOnCoreUnlessAsked, AskedBelow
<1>1. todo \in Seq(CoreJob) /\ \A n \in Node \ Core : version[n] = 0
  BY DEF TodoOnCore, WritesOnCoreUnlessAsked, WritesOnCoreOnly
<1>2. CASE UNCHANGED <<todo, version>>
  BY <1>1, <1>2 DEF WritesOnCoreOnly
<1>3. CASE \E f \in File : (\E c \in Contents : Truncate(f, c)) \/ WriteOut(f) \/ Touch(f)
  <2>1. UNCHANGED <<todo, version>>
    BY <1>3 DEF Truncate, WriteOut, Touch
  <2> QED  BY <1>2, <2>1
<1>4. CASE HandleFileAction \/ Return \/ Elapse \/ UNCHANGED filesVars
  <2>1. UNCHANGED <<todo, version>>
    BY <1>4 DEF HandleFileAction, Return, Elapse, filesVars
  <2> QED  BY <1>2, <2>1
<1>5. CASE ReadFile
  <2> DEFINE c == contents[file]
  <2>1. c \in Contents \cup {Empty} /\ file \in File
    BY DEF FilesTypeOK
  <2>2. todo' = Dispatch(file, ReadTransactions(c)) /\ UNCHANGED version
    BY <1>5 DEF ReadFile
  <2> HIDE DEF c
  <2>3. todo' \in Seq(CoreJob)
    BY <2>1, <2>2, JobsType
  <2> QED  BY <1>1, <2>2, <2>3 DEF WritesOnCoreOnly
<1>6. CASE Execute
  <2> DEFINE n == Head(todo).node
             t == Head(todo).trans
             on == IF n \in Core THEN Core ELSE {n}
  <2>1. /\ todo # <<>> /\ todo' = Tail(todo)
        /\ version' = [m \in Node |-> IF m \in on THEN ExecuteTransaction(t, version[m])
                                                  ELSE version[m]]
    BY <1>6 DEF Execute, ExecuteOn
  <2>2. Head(todo) \in CoreJob /\ todo' \in Seq(CoreJob)
    BY <1>1, <2>1, HeadTailProperties
  <2>3. t \in Token /\ (n \in Core \/ t \in Harmless)
    BY <2>2 DEF CoreJob
  <2>4. ASSUME NEW m \in Node \ Core
        PROVE  version'[m] = 0
    <3>1. version[m] = 0 /\ version[m] \in Version
      BY <1>1 DEF FilesTypeOK
    <3>2. m \in on => n \notin Core
      OBVIOUS
    <3> HIDE DEF n, t, on
    <3>3. t \in Harmless => ExecuteTransaction(t, version[m]) = version[m]
      BY <2>3, <3>1, ExecuteToken
    <3>4. m \in on => ExecuteTransaction(t, version[m]) = version[m]
      BY <2>3, <3>2, <3>3
    <3> QED  BY <2>1, <3>1, <3>4
  <2> QED  BY <2>2, <2>4 DEF WritesOnCoreOnly
<1>7. CASE ReadFileFails
  <2>1. todo' = <<>> /\ UNCHANGED version
    BY <1>7 DEF ReadFileFails
  <2>2. todo' \in Seq(CoreJob)
    BY <2>1
  <2> QED  BY <1>1, <2>1, <2>2 DEF WritesOnCoreOnly
<1>8. CASE Hang
  <2>1. UNCHANGED todo
    BY <1>8 DEF Hang
  <2>2. PICK on \in {{}, Core} : ExecuteOn(on, Head(todo).trans)
    BY <1>8 DEF Hang
  <2>3. \A n \in Node \ Core : version'[n] = version[n]
    BY <2>2 DEF ExecuteOn
  <2> QED  BY <1>1, <2>1, <2>3 DEF WritesOnCoreOnly
<1> QED  BY <1>3, <1>4, <1>5, <1>6, <1>7, <1>8 DEF FilesNext, Watcher

-----------------------------------------------------------------------------
(* The invariant *)

\* The invariant holds at the start.
LEMMA InvInit == FilesInit => FilesInv
<1> SUFFICES ASSUME FilesInit PROVE FilesInv
  OBVIOUS
<1>1. 0 \in Version /\ File # {} /\ \A f \in File : MaxSaves[f] \in Nat
  BY FilesAssumption, IntHalfAssumption DEF Version
<1>2. FilesTypeOK
  <2>1. contents \in [File -> Contents \cup {Empty}]
        /\ writing \in [File -> Contents \cup {Empty, None}]
    BY DEF FilesInit
  <2>2. /\ saved \in [File -> Nat] /\ read \in [File -> Nat]
        /\ \A f \in File : read[f] <= saved[f] /\ saved[f] <= MaxSaves[f]
    BY <1>1 DEF FilesInit
  <2>3. touches \in 0 .. MaxTouches /\ file \in File
    BY <1>1, FilesAssumption DEF FilesInit
  <2>4. events = <<>> /\ todo = <<>>
    BY DEF FilesInit
  <2>5. /\ events \in Seq([file : File, action : {"Modified", "Other"}])
        /\ todo \in Seq([node : Node, trans : Token])
    BY <2>4
  <2>6. version \in [Node -> Version]
    BY <1>1 DEF FilesInit
  <2>7. /\ at \in {"idle", "read", "execute", "hung"} /\ quiet \in BOOLEAN
        /\ dropped \subseteq File /\ unopened \subseteq File
    BY DEF FilesInit
  <2> QED  BY <2>1, <2>2, <2>3, <2>5, <2>6, <2>7 DEF FilesTypeOK
<1>3. Bounded /\ NoSaveForgotten
  BY DEF FilesInit, Bounded, NoSaveForgotten
<1>4. TodoOnCore
  <2>1. todo = <<>>
    BY DEF FilesInit
  <2>2. todo \in Seq(CoreJob)
    BY <2>1
  <2> QED  BY <2>2 DEF TodoOnCore
<1>5. WritesOnCoreUnlessAsked
  BY DEF FilesInit, WritesOnCoreUnlessAsked, WritesOnCoreOnly
<1> QED  BY <1>2, <1>3, <1>4, <1>5 DEF FilesInv

\* The invariant holds always.
LEMMA InvAlways == FilesSpec => []FilesInv
<1>1. FilesInv /\ [FilesNext]_filesVars => FilesInv'
  BY TypeNext, ForgottenNext, OnCoreNext DEF FilesInv
<1> QED  BY InvInit, <1>1, PTL DEF FilesSpec

\* Every variable keeps its type (FileEvents.FilesTypeOK).
THEOREM FilesTypeCorrect == FilesSpec => []FilesTypeOK
<1>1. FilesInv => FilesTypeOK
  BY DEF FilesInv
<1> QED  BY InvAlways, <1>1, PTL

\* What was saved, not dropped by the debounce and not lost to a file that did not
\* open is still to be reported, written or read, however saves, other changes,
\* callbacks and a write that hangs interleave (FileEvents.NoSaveForgotten).
THEOREM SavesNotForgotten == FilesSpec => []NoSaveForgotten
<1>1. FilesInv => NoSaveForgotten
  BY DEF FilesInv
<1> QED  BY InvAlways, <1>1, PTL

\* The versions below the core layer are not changed unless some file with the
\* header of a lower layer holds a write.
THEOREM WritesStayOnCore == FilesSpec => []WritesOnCoreUnlessAsked
<1>1. FilesInv => WritesOnCoreUnlessAsked
  BY DEF FilesInv
<1> QED  BY InvAlways, <1>1, PTL
=============================================================================
