---------------------------- MODULE LayersProofs ----------------------------
(***************************************************************************)
(* Theorems about Layers, for any topology in which no layer-two node has  *)
(* two parents, any writes and any number of checkpoints.                  *)
(***************************************************************************)
EXTENDS Layers, SequenceTheorems, TLAPS

CONSTANT M      \* the most a write adds, where writes only add

\* Every write adds a number up to M, and the writes that the bounds allow do not
\* carry a value beyond an int.
OnlyAdds ==
    /\ M \in Nat /\ UPDATE_COUNT \in Nat \ {0}
    /\ \A t \in Writes : t.type = "SUM" /\ t.value \in 0 .. M
    /\ (MaxCheckpoints * UPDATE_COUNT) * M + MaxBelow * M < IntHalf

\* The value of the k-th of the checkpoints cp, of the initial one for 0.
Val(cp, k) == IF k = 0 THEN 0 ELSE cp[k]

\* Version v can be at place k: from the core it is the checkpoint there, and where
\* writes only add it has that one's value at least if a write below has changed it.
Fits(cp, v, k) ==
    /\ v.from = "core" => v.value = Val(cp, k)
    /\ v.from = "below" /\ OnlyAdds => Val(cp, k) <= v.value

\* The versions in sequence A fit the checkpoints of cp at the places P, which rise
\* and lie between lo and hi.
Ladder(cp, A, P, lo, hi) ==
    /\ A \in Seq(HeldVersion) /\ P \in Seq(Nat) /\ Len(P) = Len(A)
    /\ \A i \in 1 .. Len(A) : P[i] \in lo .. hi /\ Fits(cp, A[i], P[i])
    /\ \A i, j \in 1 .. Len(A) : i <= j => P[i] <= P[j]

\* The store below its own nodes: what one of them has sent is a beginning of the
\* checkpoints.
Store ==
    /\ value \in Version
    /\ checkpoints \in Seq(Version) /\ Len(checkpoints) <= MaxCheckpoints
    /\ stream \in [Node -> Seq(Version)]
    /\ \A n \in Node :
         /\ Len(stream[n]) <= Len(checkpoints)
         /\ \A i \in 1 .. Len(stream[n]) : stream[n][i] = checkpoints[i]

\* A layer-one node rests on the last checkpoint it has handled.
Held ==
    \A b \in LayerOne :
        /\ taken[b] <= Len(stream[Parent[b]])
        /\ Fits(checkpoints, version[b], taken[b])

\* Child c rests on the checkpoint at p, what is in its stream is at q, and what b
\* may still send to it is at s.
Flow(b, c, p, q, s) ==
    /\ p <= s /\ s <= taken[b]
    /\ Fits(checkpoints, version[c], p)
    /\ Ladder(checkpoints, downlink[b][c], q, p, s)
    /\ c \in unsent[b] => Fits(checkpoints, sending[b], s)

Flows ==
    \A b \in LayerOne : \A c \in Children[b] :
        \E p \in Nat, q \in Seq(Nat), s \in Nat : Flow(b, c, p, q, s)

\* The writes the store has executed.
Written == Len(checkpoints) * UPDATE_COUNT + uncounted

\* What the writes to the core can add up to.
Room == (MaxCheckpoints * UPDATE_COUNT) * M

\* With writes that only add, the value is what so many additions can make of it,
\* and no checkpoint is above a later one or above the value.
Rising ==
    /\ uncounted \in 0 .. UPDATE_COUNT - 1
    /\ value \in 0 .. Written * M
    /\ value <= Room
    /\ \A i \in 0 .. Len(checkpoints) : Val(checkpoints, i) <= value
    /\ \A i, j \in 0 .. Len(checkpoints) :
         i <= j => Val(checkpoints, i) <= Val(checkpoints, j)

\* And what those below the core can add to that.
Small == 0 .. Room + below * M

\* No version below the core is more, and a write that is being executed makes its
\* node's version no smaller, unless a SET comes between.
Bounded ==
    /\ \A n \in LayerOne \cup LayerTwo : version[n].value \in Small
    /\ \A b \in LayerOne :
         /\ sending[b].value \in Small
         /\ \A c \in LayerTwo : \A i \in 1 .. Len(downlink[b][c]) :
              downlink[b][c][i].value \in Small
    /\ writer.value \in Small
    /\ writer.node # None /\ ~writer.overtaken =>
         version[writer.node].value <= writer.value

LayersInv ==
    /\ LayersTypeOK /\ Store /\ Held /\ Flows
    /\ OnlyAdds => Rising /\ Bounded

-----------------------------------------------------------------------------
(* Ladders *)

\* The bounds of a ladder may be moved apart.
LEMMA LadderWiden ==
    ASSUME NEW cp, NEW A, NEW P, NEW lo \in Nat, NEW hi \in Nat, NEW hj \in Nat,
           hi <= hj, Ladder(cp, A, P, lo, hi)
    PROVE  Ladder(cp, A, P, lo, hj)
BY DEF Ladder

\* What is on the top is added.
LEMMA LadderAppend ==
    ASSUME NEW cp, NEW A, NEW P, NEW lo \in Nat, NEW hi \in Nat, NEW v \in HeldVersion,
           lo <= hi, Fits(cp, v, hi), Ladder(cp, A, P, lo, hi)
    PROVE  Ladder(cp, Append(A, v), Append(P, hi), lo, hi)
<1> DEFINE B == Append(A, v)
           Q == Append(P, hi)
           n == Len(A)
<1>1. /\ A \in Seq(HeldVersion) /\ P \in Seq(Nat) /\ Len(P) = n /\ n \in Nat
      /\ \A i \in 1 .. n : P[i] \in lo .. hi /\ Fits(cp, A[i], P[i])
      /\ \A i, j \in 1 .. n : i <= j => P[i] <= P[j]
  BY DEF Ladder
<1>2. /\ B \in Seq(HeldVersion) /\ Q \in Seq(Nat)
      /\ Len(B) = n + 1 /\ Len(Q) = n + 1
  BY <1>1
<1>3. /\ \A k \in 1 .. n : B[k] = A[k] /\ Q[k] = P[k]
      /\ B[n + 1] = v /\ Q[n + 1] = hi
  BY <1>1, AppendProperties
<1> SUFFICES Ladder(cp, B, Q, lo, hi)
  OBVIOUS
<1> HIDE DEF B, Q, n
<1>4. ASSUME NEW i \in 1 .. n + 1
      PROVE  i = n + 1 \/ i \in 1 .. n
  BY <1>1
<1>5. ASSUME NEW i \in 1 .. n + 1
      PROVE  Q[i] \in lo .. hi /\ Fits(cp, B[i], Q[i])
  <2>1. CASE i = n + 1
    <3>1. B[i] = v /\ Q[i] = hi /\ hi \in lo .. hi
      BY <1>3, <2>1
    <3> QED  BY <3>1
  <2>2. CASE i \in 1 .. n
    BY <1>1, <1>3, <2>2
  <2> QED  BY <1>4, <2>1, <2>2
<1>6. ASSUME NEW i \in 1 .. n + 1, NEW j \in 1 .. n + 1, i <= j
      PROVE  Q[i] <= Q[j]
  <2>1. CASE j = n + 1
    BY <1>3, <1>5, <2>1
  <2>2. CASE j # n + 1
    <3>1. i \in 1 .. n /\ j \in 1 .. n
      BY <1>1, <1>6, <2>2
    <3> QED  BY <1>1, <1>3, <1>6, <3>1
  <2> QED  BY <2>1, <2>2
<1> QED  BY <1>2, <1>5, <1>6 DEF Ladder

\* The lowest is taken away.
LEMMA LadderTail ==
    ASSUME NEW cp, NEW A, NEW P, NEW lo \in Nat, NEW hi \in Nat,
           A # <<>>, Ladder(cp, A, P, lo, hi)
    PROVE  /\ P[1] \in Nat /\ P[1] \in lo .. hi /\ Fits(cp, Head(A), P[1])
           /\ Ladder(cp, Tail(A), Tail(P), P[1], hi)
<1> Len(A) \in Nat
  BY DEF Ladder
<1>1. /\ A \in Seq(HeldVersion) /\ P \in Seq(Nat) /\ Len(P) = Len(A)
      /\ \A i \in 1 .. Len(A) : P[i] \in lo .. hi /\ Fits(cp, A[i], P[i])
      /\ \A i, j \in 1 .. Len(A) : i <= j => P[i] <= P[j]
  BY DEF Ladder
<1>2. Len(A) >= 1 /\ P # <<>> /\ Head(A) = A[1]
  BY <1>1
<1>3. /\ Tail(A) \in Seq(HeldVersion) /\ Tail(P) \in Seq(Nat)
      /\ Len(Tail(A)) = Len(A) - 1 /\ Len(Tail(P)) = Len(A) - 1
  BY <1>1, <1>2
<1>4. ASSUME NEW i \in 1 .. Len(A) - 1
      PROVE  Tail(A)[i] = A[i + 1] /\ Tail(P)[i] = P[i + 1] /\ i + 1 \in 1 .. Len(A)
  BY <1>1, <1>2
<1>5. P[1] \in Nat /\ P[1] \in lo .. hi /\ Fits(cp, A[1], P[1])
  BY <1>1, <1>2
<1>6. ASSUME NEW i \in 1 .. Len(A) - 1
      PROVE  Tail(P)[i] \in P[1] .. hi /\ Fits(cp, Tail(A)[i], Tail(P)[i])
  <2>1. /\ P[i + 1] \in lo .. hi /\ Fits(cp, A[i + 1], P[i + 1])
        /\ P[1] <= P[i + 1]
    BY <1>1, <1>2, <1>4
  <2>2. Tail(A)[i] = A[i + 1] /\ Tail(P)[i] = P[i + 1]
    BY <1>4
  <2>3. P[i + 1] \in P[1] .. hi
    BY <1>5, <2>1
  <2> QED  BY <2>1, <2>2, <2>3
<1>7. ASSUME NEW i \in 1 .. Len(A) - 1, NEW j \in 1 .. Len(A) - 1, i <= j
      PROVE  Tail(P)[i] <= Tail(P)[j]
  BY <1>1, <1>4, <1>7
<1> QED  BY <1>2, <1>3, <1>5, <1>6, <1>7 DEF Ladder

\* One ladder on another.
LEMMA LadderJoin ==
    ASSUME NEW cp, NEW A, NEW P, NEW B, NEW Q,
           NEW lo \in Nat, NEW mid \in Nat, NEW hi \in Nat, lo <= mid, mid <= hi,
           Ladder(cp, A, P, lo, mid), Ladder(cp, B, Q, mid, hi)
    PROVE  Ladder(cp, A \o B, P \o Q, lo, hi)
<1> DEFINE C == A \o B
           R == P \o Q
           n == Len(A)
           k == Len(B)
<1>1. /\ A \in Seq(HeldVersion) /\ P \in Seq(Nat) /\ Len(P) = n /\ n \in Nat
      /\ \A i \in 1 .. n : P[i] \in lo .. mid /\ Fits(cp, A[i], P[i])
      /\ \A i, j \in 1 .. n : i <= j => P[i] <= P[j]
  BY DEF Ladder
<1>2. /\ B \in Seq(HeldVersion) /\ Q \in Seq(Nat) /\ Len(Q) = k /\ k \in Nat
      /\ \A i \in 1 .. k : Q[i] \in mid .. hi /\ Fits(cp, B[i], Q[i])
      /\ \A i, j \in 1 .. k : i <= j => Q[i] <= Q[j]
  BY DEF Ladder
<1>3. /\ C \in Seq(HeldVersion) /\ R \in Seq(Nat)
      /\ Len(C) = n + k /\ Len(R) = n + k
      /\ \A i \in 1 .. n + k :
           /\ C[i] = IF i <= n THEN A[i] ELSE B[i - n]
           /\ R[i] = IF i <= n THEN P[i] ELSE Q[i - n]
  <2>1. /\ C \in Seq(HeldVersion) /\ Len(C) = n + k
        /\ \A i \in 1 .. n + k : C[i] = IF i <= n THEN A[i] ELSE B[i - n]
    <3> A \in Seq(HeldVersion) /\ B \in Seq(HeldVersion)
      BY <1>1, <1>2
    <3> QED  BY ConcatProperties, Zenon
  <2>2. /\ R \in Seq(Nat) /\ Len(R) = Len(P) + Len(Q)
        /\ \A i \in 1 .. Len(P) + Len(Q) :
             R[i] = IF i <= Len(P) THEN P[i] ELSE Q[i - Len(P)]
    <3> P \in Seq(Nat) /\ Q \in Seq(Nat)
      BY <1>1, <1>2
    <3> QED  BY ConcatProperties, Zenon
  <2>3. Len(P) = n /\ Len(Q) = k
    BY <1>1, <1>2
  <2> HIDE DEF C, R, n, k
  <2> QED  BY <2>1, <2>2, <2>3
<1> SUFFICES Ladder(cp, C, R, lo, hi)
  OBVIOUS
<1> HIDE DEF C, R, n, k
<1>4. ASSUME NEW i \in 1 .. n + k, i <= n
      PROVE  i \in 1 .. n /\ C[i] = A[i] /\ R[i] = P[i]
  BY <1>1, <1>3, <1>4
<1>5. ASSUME NEW i \in 1 .. n + k, i > n
      PROVE  i - n \in 1 .. k /\ C[i] = B[i - n] /\ R[i] = Q[i - n]
  <2>1. i - n \in 1 .. k /\ ~(i <= n)
    BY <1>1, <1>2, <1>5
  <2> QED  BY <1>3, <2>1
<1>6. ASSUME NEW i \in 1 .. n + k
      PROVE  /\ R[i] \in lo .. hi /\ Fits(cp, C[i], R[i])
             /\ i <= n => R[i] <= mid
             /\ i > n => R[i] >= mid
  <2>1. CASE i <= n
    <3>1. /\ i \in 1 .. n /\ C[i] = A[i] /\ R[i] = P[i]
      BY <1>4, <2>1
    <3>2. P[i] \in lo .. mid /\ Fits(cp, A[i], P[i])
      BY <1>1, <3>1
    <3> QED  BY <1>1, <2>1, <3>1, <3>2
  <2>2. CASE i > n
    <3>1. i - n \in 1 .. k /\ C[i] = B[i - n] /\ R[i] = Q[i - n]
      BY <1>5, <2>2
    <3>2. Q[i - n] \in mid .. hi /\ Fits(cp, B[i - n], Q[i - n])
      BY <1>2, <3>1
    <3> QED  BY <1>1, <2>2, <3>1, <3>2
  <2> QED  BY <1>1, <2>1, <2>2
<1>7. ASSUME NEW i \in 1 .. n + k, NEW j \in 1 .. n + k, i <= j
      PROVE  R[i] <= R[j]
  <2>1. CASE j <= n
    <3>1. i <= n
      BY <1>1, <1>7, <2>1
    <3>2. i \in 1 .. n /\ j \in 1 .. n /\ R[i] = P[i] /\ R[j] = P[j]
      BY <1>4, <2>1, <3>1
    <3> QED  BY <1>1, <1>7, <3>2
  <2>2. CASE i > n
    <3>1. j > n
      BY <1>1, <1>7, <2>2
    <3>2. /\ i - n \in 1 .. k /\ j - n \in 1 .. k
          /\ R[i] = Q[i - n] /\ R[j] = Q[j - n]
      BY <1>5, <2>2, <3>1
    <3>3. i - n <= j - n
      BY <1>1, <1>7
    <3> QED  BY <1>2, <3>2, <3>3
  <2>3. CASE i <= n /\ j > n
    <3>1. R[i] <= mid /\ R[j] >= mid /\ R[i] \in Int /\ R[j] \in Int
      BY <1>6, <2>3
    <3> QED  BY <3>1
  <2>4. j <= n \/ i > n \/ (i <= n /\ j > n)
    BY <1>1
  <2> QED  BY <2>1, <2>2, <2>3, <2>4
<1> QED  BY <1>3, <1>6, <1>7 DEF Ladder

\* More checkpoints do not matter to what is below them.
LEMMA LadderLonger ==
    ASSUME NEW cp, NEW cq, NEW A, NEW P, NEW lo \in Nat, NEW hi \in Nat,
           \A k \in 0 .. hi : Val(cq, k) = Val(cp, k),
           Ladder(cp, A, P, lo, hi)
    PROVE  Ladder(cq, A, P, lo, hi)
<1>1. \A k \in lo .. hi : k \in 0 .. hi
  OBVIOUS
<1>2. \A k \in 0 .. hi : \A v : Fits(cp, v, k) => Fits(cq, v, k)
  BY DEF Fits
<1> QED  BY <1>1, <1>2 DEF Ladder

-----------------------------------------------------------------------------
(* The steps *)

\* A write, or a SET, leaves a version.
LEMMA ExecuteVersion ==
    ASSUME NEW t, t.type \in WriteType, t.value \in Version, NEW v \in Version
    PROVE  ExecuteTransaction(t, v) \in Version
<1>1. IntHalf \in Nat /\ IntHalf > 0
  BY IntHalfAssumption
<1>2. t.value \in Int /\ v \in Int
  BY <1>1 DEF Version
<1>3. ASSUME NEW x \in Int PROVE Wrap(x) \in Version
  <2>1. (x + IntHalf) % (2 * IntHalf) \in 0 .. (2 * IntHalf - 1)
    BY <1>1
  <2> QED  BY <1>1, <2>1 DEF Wrap, Version
<1>4. CASE t.type = "SUM"
  <2>1. ExecuteTransaction(t, v) = Wrap(v + t.value)
    BY <1>4 DEF ExecuteTransaction
  <2> QED  BY <1>2, <1>3, <2>1
<1>5. CASE t.type = "SUBSTRACT"
  <2>1. ExecuteTransaction(t, v) = Wrap(v - t.value)
    BY <1>5 DEF ExecuteTransaction
  <2> QED  BY <1>2, <1>3, <2>1
<1>6. CASE t.type = "MULTIPLY"
  <2>1. ExecuteTransaction(t, v) = Wrap(v * t.value)
    BY <1>6 DEF ExecuteTransaction
  <2>2. v * t.value \in Int
    BY <1>2
  <2> QED  BY <1>3, <2>1, <2>2
<1>7. CASE t.type = "SET"
  BY <1>7 DEF ExecuteTransaction
<1> QED  BY <1>4, <1>5, <1>6, <1>7 DEF WriteType

\* Any step below the core leaves the store alone, and a place keeps its value.
LEMMA StoreSame ==
    ASSUME Store, UNCHANGED storeVars
    PROVE  Store'
BY DEF Store, storeVars

\* The core adds to what it has: what was a checkpoint stays one.
LEMMA CoreStep ==
    ASSUME Store, Core
    PROVE  /\ Store'
           /\ Len(checkpoints) <= Len(checkpoints')
           /\ \A k \in 0 .. Len(checkpoints) : Val(checkpoints', k) = Val(checkpoints, k)
           /\ \A n \in Node : Len(stream[n]) <= Len(stream'[n])
           /\ layerVars' = layerVars
<1>1. /\ checkpoints \in Seq(Version) /\ Len(checkpoints) \in Nat
      /\ stream \in [Node -> Seq(Version)] /\ layerVars' = layerVars
      /\ \A n \in Node : Len(stream[n]) \in Nat
  BY DEF Store, Core
<1>2. ASSUME NEW t \in Writes, Write(t), Len(checkpoints) < MaxCheckpoints
      PROVE  /\ Store'
             /\ Len(checkpoints) <= Len(checkpoints')
             /\ \A k \in 0 .. Len(checkpoints) : Val(checkpoints', k) = Val(checkpoints, k)
             /\ \A n \in Node : Len(stream[n]) <= Len(stream'[n])
  <2>1. value' \in Version /\ stream' = stream
    BY <1>2, LayersAssumption, ExecuteVersion DEF Write, Store
  <2>2. checkpoints' = checkpoints \/ checkpoints' = Append(checkpoints, value')
    BY <1>2 DEF Write
  <2>3. CASE checkpoints' = checkpoints
    BY <1>1, <2>1, <2>3 DEF Store
  <2>4. CASE checkpoints' = Append(checkpoints, value')
    <3>1. /\ checkpoints' \in Seq(Version) /\ Len(checkpoints') = Len(checkpoints) + 1
          /\ \A i \in 1 .. Len(checkpoints) : checkpoints'[i] = checkpoints[i]
      BY <1>1, <2>1, <2>4, AppendProperties
    <3>2. Len(checkpoints') <= MaxCheckpoints
      BY <1>1, <1>2, <3>1, LayersAssumption
    <3>3. \A n \in Node : /\ Len(stream[n]) <= Len(checkpoints')
                          /\ \A i \in 1 .. Len(stream[n]) : stream[n][i] = checkpoints'[i]
      <4>1. SUFFICES ASSUME NEW n \in Node
                     PROVE  /\ Len(stream[n]) <= Len(checkpoints')
                            /\ \A i \in 1 .. Len(stream[n]) : stream[n][i] = checkpoints'[i]
        OBVIOUS
      <4>2. /\ Len(stream[n]) <= Len(checkpoints)
            /\ \A i \in 1 .. Len(stream[n]) : stream[n][i] = checkpoints[i]
        BY DEF Store
      <4>3. \A i \in 1 .. Len(stream[n]) : i \in 1 .. Len(checkpoints)
        BY <1>1, <4>2
      <4> QED  BY <1>1, <3>1, <4>2, <4>3
    <3>4. \A k \in 0 .. Len(checkpoints) : Val(checkpoints', k) = Val(checkpoints, k)
      BY <1>1, <3>1 DEF Val
    <3> QED  BY <1>1, <2>1, <3>1, <3>2, <3>3, <3>4 DEF Store
  <2> QED  BY <2>2, <2>3, <2>4
<1>3. ASSUME NEW n \in Node, Forward(n)
      PROVE  /\ Store'
             /\ Len(checkpoints) <= Len(checkpoints')
             /\ \A k \in 0 .. Len(checkpoints) : Val(checkpoints', k) = Val(checkpoints, k)
             /\ \A m \in Node : Len(stream[m]) <= Len(stream'[m])
  <2>1. /\ Len(stream[n]) <= Len(checkpoints)
        /\ \A i \in 1 .. Len(stream[n]) : stream[n][i] = checkpoints[i]
    BY DEF Store
  <2>2. Len(stream[n]) # Len(checkpoints)
    <3>1. SUFFICES ASSUME Len(stream[n]) = Len(checkpoints) PROVE stream[n] = checkpoints
      BY <1>3 DEF Forward
    <3> stream[n] \in Seq(Version) /\ checkpoints \in Seq(Version)
      BY <1>1
    <3> QED  BY <2>1, <3>1, SeqEqual, Zenon
  <2> DEFINE v == checkpoints[Len(stream[n]) + 1]
  <2>3. Len(stream[n]) + 1 \in 1 .. Len(checkpoints) /\ v \in Version
    BY <1>1, <2>1, <2>2
  <2>4. /\ stream' = [stream EXCEPT ![n] = Append(stream[n], v)]
        /\ checkpoints' = checkpoints /\ value' = value
    BY <1>3 DEF Forward
  <2> HIDE DEF v
  <2>5. /\ Append(stream[n], v) \in Seq(Version)
        /\ Len(Append(stream[n], v)) = Len(stream[n]) + 1
        /\ \A i \in 1 .. Len(stream[n]) : Append(stream[n], v)[i] = stream[n][i]
        /\ Append(stream[n], v)[Len(stream[n]) + 1] = v
    BY <1>1, <2>3, AppendProperties
  <2> DEFINE s == Append(stream[n], v)
  <2>6. \A i \in 1 .. Len(s) : s[i] = checkpoints[i]
    <3>1. \A i \in 1 .. Len(s) : i = Len(stream[n]) + 1 \/ i \in 1 .. Len(stream[n])
      BY <1>1, <2>5
    <3> QED  BY <2>1, <2>5, <3>1 DEF v
  <2>7. Len(s) <= Len(checkpoints) /\ Len(stream[n]) <= Len(s)
    BY <1>1, <2>3, <2>5
  <2> HIDE DEF s
  <2>8. stream' = [stream EXCEPT ![n] = s] /\ s \in Seq(Version)
    BY <2>4, <2>5 DEF s
  <2>9. ASSUME NEW m \in Node
        PROVE  /\ Len(stream'[m]) <= Len(checkpoints)
               /\ \A i \in 1 .. Len(stream'[m]) : stream'[m][i] = checkpoints[i]
               /\ Len(stream[m]) <= Len(stream'[m])
    <3>1. CASE m = n
      BY <1>1, <2>6, <2>7, <2>8, <3>1
    <3>2. CASE m # n
      <4>1. stream'[m] = stream[m]
        BY <1>1, <2>8, <3>2
      <4> QED  BY <1>1, <4>1 DEF Store
    <3> QED  BY <3>1, <3>2
  <2>10. stream' \in [Node -> Seq(Version)]
    BY <1>1, <2>8
  <2> QED  BY <1>1, <2>4, <2>9, <2>10 DEF Store
<1> QED  BY <1>1, <1>2, <1>3 DEF Core

\* The places of a layer-one node are numbers of checkpoints.
LEMMA PlaceBounds ==
    ASSUME LayersTypeOK, Store, Held, NEW b \in LayerOne
    PROVE  /\ Parent[b] \in Node /\ Children[b] \subseteq LayerTwo
           /\ stream[Parent[b]] \in Seq(Version) /\ Len(stream[Parent[b]]) \in Nat
           /\ Len(stream[Parent[b]]) <= Len(checkpoints) /\ Len(checkpoints) \in Nat
           /\ taken[b] \in Nat /\ taken[b] <= Len(checkpoints)
           /\ Len(checkpoints) <= MaxCheckpoints
<1>1. Parent[b] \in Node /\ Children[b] \subseteq LayerTwo /\ MaxCheckpoints \in Nat
  BY LayersAssumption
<1>2. /\ stream[Parent[b]] \in Seq(Version) /\ checkpoints \in Seq(Version)
      /\ Len(stream[Parent[b]]) <= Len(checkpoints)
      /\ Len(checkpoints) <= MaxCheckpoints
  BY <1>1 DEF Store
<1>3. taken[b] \in Nat /\ taken[b] <= Len(stream[Parent[b]])
  BY <1>1 DEF LayersTypeOK, Held
<1>4. Len(stream[Parent[b]]) \in Nat /\ Len(checkpoints) \in Nat
  BY <1>2
<1> QED  BY <1>1, <1>2, <1>3, <1>4

\* What is at a place is a number.
LEMMA ValInt ==
    ASSUME Store, NEW k \in 0 .. Len(checkpoints)
    PROVE  Val(checkpoints, k) \in Int
<1>1. checkpoints \in Seq(Version) /\ Len(checkpoints) \in Nat
  BY DEF Store
<1>2. Version \subseteq Int
  BY IntHalfAssumption DEF Version
<1>3. CASE k # 0
  <2>1. k \in 1 .. Len(checkpoints)
    BY <1>1, <1>3
  <2>2. checkpoints[k] \in Version
    BY <1>1, <2>1, ElementOfSeq
  <2> QED  BY <1>2, <1>3, <2>2 DEF Val
<1> QED  BY <1>3 DEF Val

\* What SetVersion does with a version.
LEMMA SetVersionStep ==
    ASSUME LayersTypeOK, NEW n \in LayerOne \cup LayerTwo, NEW v \in HeldVersion,
           SetVersion(n, v)
    PROVE  /\ version' = [version EXCEPT ![n] = v]
           /\ writer' = [writer EXCEPT !.overtaken = writer.overtaken \/ writer.node = n]
           /\ below' = below
<1>1. ExecuteTransaction([type |-> "SET", value |-> v.value], version[n].value) = v.value
  BY DEF ExecuteTransaction
<1>2. [v EXCEPT !.value = v.value] = v
  BY DEF HeldVersion
<1> QED  BY <1>1, <1>2 DEF SetVersion

\* What HandleSetOne does: the node has the next checkpoint.
LEMMA HandleSetOneStep ==
    ASSUME LayersTypeOK, Store, Held, NEW b \in LayerOne, HandleSetOne(b)
    PROVE  /\ taken' = [taken EXCEPT ![b] = taken[b] + 1]
           /\ taken[b] + 1 <= Len(stream[Parent[b]])
           /\ taken[b] + 1 \in 0 .. MaxCheckpoints
           /\ version' = [version EXCEPT ![b] = FromCore(Val(checkpoints, taken[b] + 1))]
           /\ Val(checkpoints, taken[b] + 1) \in Version
           /\ FromCore(Val(checkpoints, taken[b] + 1)) \in HeldVersion
           /\ writer' = [writer EXCEPT !.overtaken = writer.overtaken \/ writer.node = b]
           /\ UNCHANGED <<storeVars, downlink, threadVars, m_Running, below>>
<1> DEFINE k == taken[b] + 1
<1>1. k \in 1 .. Len(stream[Parent[b]]) /\ k \in 0 .. MaxCheckpoints
  BY PlaceBounds, LayersAssumption DEF HandleSetOne
<1>2. stream[Parent[b]][k] = checkpoints[k] /\ stream[Parent[b]][k] \in Version
  BY <1>1, PlaceBounds, ElementOfSeq DEF Store
<1>3. Val(checkpoints, k) = stream[Parent[b]][k]
  BY <1>1, <1>2 DEF Val
<1>4. FromCore(Val(checkpoints, k)) \in HeldVersion
  BY <1>2, <1>3 DEF FromCore, HeldVersion
<1>5. SetVersion(b, FromCore(Val(checkpoints, k)))
  BY <1>3 DEF HandleSetOne
<1>6. /\ taken' = [taken EXCEPT ![b] = k]
      /\ UNCHANGED <<storeVars, downlink, threadVars, m_Running>>
  BY DEF HandleSetOne
<1>7. k <= Len(stream[Parent[b]])
  BY <1>1, PlaceBounds
<1> HIDE DEF k
<1>8. /\ version' = [version EXCEPT ![b] = FromCore(Val(checkpoints, k))]
      /\ writer' = [writer EXCEPT !.overtaken = writer.overtaken \/ writer.node = b]
      /\ below' = below
  BY <1>4, <1>5, SetVersionStep
<1> QED  BY <1>1, <1>2, <1>3, <1>4, <1>6, <1>7, <1>8 DEF k

\* What HandleSetTwo does: the child has what was next in its stream.
LEMMA HandleSetTwoStep ==
    ASSUME LayersTypeOK, NEW b \in LayerOne, NEW c \in Children[b], HandleSetTwo(b, c)
    PROVE  /\ c \in LayerTwo /\ downlink[b][c] \in Seq(HeldVersion)
           /\ downlink[b][c] # <<>> /\ Head(downlink[b][c]) \in HeldVersion
           /\ downlink' = [downlink EXCEPT ![b][c] = Tail(downlink[b][c])]
           /\ version' = [version EXCEPT ![c] = Head(downlink[b][c])]
           /\ writer' = [writer EXCEPT !.overtaken = writer.overtaken \/ writer.node = c]
           /\ UNCHANGED <<storeVars, taken, threadVars, m_Running, below>>
<1>1. c \in LayerTwo
  BY LayersAssumption
<1>2. downlink[b][c] \in Seq(HeldVersion)
  BY <1>1 DEF LayersTypeOK
<1>3. downlink[b][c] # <<>> /\ SetVersion(c, Head(downlink[b][c]))
  BY DEF HandleSetTwo
<1>4. Head(downlink[b][c]) \in HeldVersion
  BY <1>2, <1>3, HeadTailProperties
<1>5. /\ version' = [version EXCEPT ![c] = Head(downlink[b][c])]
      /\ writer' = [writer EXCEPT !.overtaken = writer.overtaken \/ writer.node = c]
      /\ below' = below
  BY <1>1, <1>3, <1>4, SetVersionStep
<1> QED  BY <1>1, <1>2, <1>3, <1>4, <1>5 DEF HandleSetTwo

\* What StoreBelow does: only the version of the writer's node changes.
LEMMA StoreBelowStep ==
    ASSUME LayersTypeOK, StoreBelow
    PROVE  /\ writer.node \in LayerOne \cup LayerTwo
           /\ version'[writer.node].value = writer.value
           /\ version'[writer.node].from \in {"below", "raced"}
           /\ version'[writer.node].from = "below" =>
                ~writer.overtaken /\ version[writer.node].from # "raced"
           /\ version' \in [LayerOne \cup LayerTwo -> HeldVersion]
           /\ \A n \in LayerOne \cup LayerTwo : n # writer.node => version'[n] = version[n]
           /\ writer' = Idle
           /\ UNCHANGED <<storeVars, taken, downlink, threadVars, m_Running, below>>
<1> DEFINE n == writer.node
           v == [value |-> writer.value,
                 from |-> IF writer.overtaken \/ version[n].from = "raced"
                          THEN "raced" ELSE "below"]
<1>1. n \in LayerOne \cup LayerTwo /\ writer.value \in Version
  BY DEF StoreBelow, LayersTypeOK
<1>2. v \in HeldVersion
  BY <1>1 DEF HeldVersion
<1>3. /\ version' = [version EXCEPT ![n] = v] /\ writer' = Idle
      /\ UNCHANGED <<storeVars, taken, downlink, threadVars, m_Running, below>>
  BY DEF StoreBelow
<1>4. version \in [LayerOne \cup LayerTwo -> HeldVersion]
  BY DEF LayersTypeOK
<1>5. version'[n] = v
  BY <1>1, <1>3, <1>4
<1>6. /\ version' \in [LayerOne \cup LayerTwo -> HeldVersion]
      /\ \A m \in LayerOne \cup LayerTwo : m # n => version'[m] = version[m]
  <2> HIDE DEF n, v
  <2> QED  BY <1>1, <1>2, <1>3, <1>4
<1> QED  BY <1>1, <1>3, <1>5, <1>6

\* A version that has been written below still fits the place that it rests on.
LEMMA StoreBelowFits ==
    ASSUME LayersInv, StoreBelow, NEW n \in LayerOne \cup LayerTwo,
           NEW k \in 0 .. Len(checkpoints), Fits(checkpoints, version[n], k)
    PROVE  Fits(checkpoints, version'[n], k)
<1>1. CASE n # writer.node
  BY <1>1, StoreBelowStep DEF LayersInv
<1>2. CASE n = writer.node
  <2>1. /\ version'[n].value = writer.value /\ version'[n].from \in {"below", "raced"}
        /\ version'[n].from = "below" => ~writer.overtaken /\ version[n].from # "raced"
    BY <1>2, StoreBelowStep DEF LayersInv
  <2>2. SUFFICES ASSUME version'[n].from = "below", OnlyAdds
                 PROVE  Val(checkpoints, k) <= version'[n].value
    BY <2>1 DEF Fits
  <2>3. version[n].value <= writer.value
    BY <1>2, <2>1, <2>2 DEF LayersInv, Bounded, StoreBelow
  <2>4. version[n].from \in {"core", "below"} /\ version[n].value \in Int
        /\ writer.value \in Int
    BY <2>1, <2>2, IntHalfAssumption DEF LayersInv, LayersTypeOK, HeldVersion, Version
  <2>5. Val(checkpoints, k) \in Int
    BY ValInt DEF LayersInv
  <2>6. Val(checkpoints, k) <= version[n].value
    BY <2>2, <2>4, <2>5 DEF Fits
  <2> QED  BY <2>1, <2>3, <2>4, <2>5, <2>6
<1> QED  BY <1>1, <1>2

\* Every variable keeps its type.
LEMMA TypeNext ==
    ASSUME LayersTypeOK, Store, Held, [LayersNext]_layersVars
    PROVE  LayersTypeOK'
<1>1. CASE Core
  BY <1>1, CoreStep DEF LayersTypeOK, layerVars, threadVars, writerVars
<1>2. ASSUME NEW b \in LayerOne, TestRunning(b) PROVE LayersTypeOK'
  <2>1. version[b] \in HeldVersion /\ Children[b] \subseteq LayerTwo
    BY LayersAssumption DEF LayersTypeOK
  <2> QED  BY <1>2, <2>1 DEF TestRunning, LayersTypeOK, RunState, writerVars
<1>3. ASSUME NEW b \in LayerOne, NEW c \in Children[b], SendSet(b, c) PROVE LayersTypeOK'
  <2>1. c \in LayerTwo /\ sending[b] \in HeldVersion
    BY LayersAssumption DEF LayersTypeOK
  <2>2. Append(downlink[b][c], sending[b]) \in Seq(HeldVersion)
    BY <2>1 DEF LayersTypeOK
  <2>3. downlink' \in [LayerOne -> [LayerTwo -> Seq(HeldVersion)]]
    BY <1>3, <2>1, <2>2 DEF SendSet, LayersTypeOK
  <2> QED  BY <1>3, <2>3 DEF SendSet, LayersTypeOK, RunState, writerVars
<1>4. ASSUME NEW b \in LayerOne, CheckRunning(b) \/ Sleep(b) \/ Timeout(b) \/ Shutdown(b)
      PROVE  LayersTypeOK'
  BY <1>4 DEF CheckRunning, Sleep, Timeout, Shutdown, LayersTypeOK, RunState, writerVars
<1>5. ASSUME NEW b \in LayerOne, HandleSetOne(b) PROVE LayersTypeOK'
  <2>1. /\ taken' = [taken EXCEPT ![b] = taken[b] + 1]
        /\ taken[b] + 1 \in 0 .. MaxCheckpoints
        /\ UNCHANGED <<downlink, run, sending, unsent, m_Running, below>>
    BY <1>5, HandleSetOneStep DEF threadVars
  <2>2. version' \in [LayerOne \cup LayerTwo -> HeldVersion]
    BY <1>5, HandleSetOneStep DEF LayersTypeOK
  <2>3. writer' \in [node : LayerOne \cup LayerTwo \cup {None},
                     value : Version, overtaken : BOOLEAN]
    BY <1>5, HandleSetOneStep DEF LayersTypeOK
  <2> QED  BY <2>1, <2>2, <2>3 DEF LayersTypeOK
<1>6. ASSUME NEW b \in LayerOne, NEW c \in Children[b], HandleSetTwo(b, c)
      PROVE  LayersTypeOK'
  <2>1. Head(downlink[b][c]) \in HeldVersion /\ Tail(downlink[b][c]) \in Seq(HeldVersion)
    BY <1>6, HandleSetTwoStep, HeadTailProperties
  <2>2. /\ c \in LayerTwo
        /\ downlink' = [downlink EXCEPT ![b][c] = Tail(downlink[b][c])]
        /\ version' = [version EXCEPT ![c] = Head(downlink[b][c])]
        /\ UNCHANGED <<taken, run, sending, unsent, m_Running, below>>
    BY <1>6, HandleSetTwoStep DEF threadVars
  <2>3. downlink' \in [LayerOne -> [LayerTwo -> Seq(HeldVersion)]]
    BY <2>1, <2>2 DEF LayersTypeOK
  <2>4. version' \in [LayerOne \cup LayerTwo -> HeldVersion]
    BY <2>1, <2>2 DEF LayersTypeOK
  <2>5. writer' \in [node : LayerOne \cup LayerTwo \cup {None},
                     value : Version, overtaken : BOOLEAN]
    BY <1>6, HandleSetTwoStep DEF LayersTypeOK
  <2> QED  BY <2>2, <2>3, <2>4, <2>5 DEF LayersTypeOK
<1>7. ASSUME NEW n \in LayerOne \cup LayerTwo, NEW t \in Writes, LoadBelow(n, t)
      PROVE  LayersTypeOK'
  <2>1. ExecuteTransaction(t, version[n].value) \in Version
    BY LayersAssumption, ExecuteVersion DEF LayersTypeOK, HeldVersion
  <2>2. below' \in 0 .. MaxBelow
    BY <1>7, LayersAssumption DEF LoadBelow, LayersTypeOK
  <2> QED  BY <1>7, <2>1, <2>2 DEF LoadBelow, LayersTypeOK, threadVars
<1>8. CASE StoreBelow
  <2>1. 0 \in Version
    BY IntHalfAssumption DEF Version
  <2>2. writer' = Idle /\ version' \in [LayerOne \cup LayerTwo -> HeldVersion]
        /\ UNCHANGED <<taken, downlink, run, sending, unsent, m_Running, below>>
    BY <1>8, StoreBelowStep DEF threadVars
  <2>3. Idle \in [node : LayerOne \cup LayerTwo \cup {None},
                 value : Version, overtaken : BOOLEAN]
    BY <2>1 DEF Idle
  <2> QED  BY <2>2, <2>3 DEF LayersTypeOK
<1>9. CASE UNCHANGED layersVars
  BY <1>9 DEF layersVars, layerVars, threadVars, writerVars, LayersTypeOK
<1> QED  BY <1>1, <1>2, <1>3, <1>4, <1>5, <1>6, <1>7, <1>8, <1>9 DEF LayersNext, Run

\* A step that is no step of the core leaves the store alone.
LEMMA StoreStep ==
    ASSUME Store, [LayersNext]_layersVars
    PROVE  Store'
<1>1. CASE Core
  BY <1>1, CoreStep
<1>2. CASE UNCHANGED storeVars
  BY <1>2, StoreSame
<1>3. Core \/ UNCHANGED storeVars
  BY DEF LayersNext, Run, TestRunning, SendSet, CheckRunning, Sleep, Timeout, Shutdown,
         HandleSetOne, HandleSetTwo, LoadBelow, StoreBelow, layersVars
<1> QED  BY <1>1, <1>2, <1>3

\* A layer-one node's version changes with what it has handled.
LEMMA HeldNext ==
    ASSUME LayersInv, [LayersNext]_layersVars
    PROVE  Held'
<1> LayersTypeOK /\ Store /\ Held
  BY DEF LayersInv
<1>0. ASSUME UNCHANGED <<checkpoints, stream, version, taken>> PROVE Held'
  BY <1>0 DEF Held
<1>1. CASE Core
  <2>1. ASSUME NEW b \in LayerOne
        PROVE  /\ taken'[b] <= Len(stream'[Parent[b]])
               /\ Fits(checkpoints', version'[b], taken'[b])
    <3>1. taken'[b] = taken[b] /\ version'[b] = version[b]
      BY <1>1, CoreStep DEF layerVars
    <3>2. Store' /\ Len(stream[Parent[b]]) <= Len(stream'[Parent[b]])
      BY <1>1, CoreStep, PlaceBounds
    <3>3. stream'[Parent[b]] \in Seq(Version)
      BY <3>2, PlaceBounds DEF Store
    <3>4. Len(stream'[Parent[b]]) \in Nat
      BY <3>3
    <3>5. taken[b] <= Len(stream[Parent[b]])
      BY DEF Held
    <3>6. taken[b] <= Len(stream'[Parent[b]])
      BY <3>2, <3>4, <3>5, PlaceBounds
    <3>7. taken[b] \in 0 .. Len(checkpoints)
      BY PlaceBounds
    <3>8. Val(checkpoints', taken[b]) = Val(checkpoints, taken[b])
      BY <1>1, <3>7, CoreStep
    <3> QED  BY <3>1, <3>6, <3>8 DEF Held, Fits
  <2> QED  BY <2>1 DEF Held
<1>2. ASSUME NEW b \in LayerOne,
             \/ TestRunning(b) \/ CheckRunning(b) \/ Sleep(b) \/ Timeout(b) \/ Shutdown(b)
             \/ \E c \in Children[b] : SendSet(b, c)
      PROVE  Held'
  <2>1. UNCHANGED <<checkpoints, stream, version, taken>>
    BY <1>2 DEF TestRunning, CheckRunning, Sleep, Timeout, Shutdown, SendSet, storeVars
  <2> QED  BY <1>0, <2>1
<1>3. ASSUME NEW b \in LayerOne, HandleSetOne(b) PROVE Held'
  <2>1. /\ UNCHANGED <<checkpoints, stream>>
        /\ taken' = [taken EXCEPT ![b] = taken[b] + 1]
        /\ taken[b] + 1 <= Len(stream[Parent[b]])
        /\ version' = [version EXCEPT ![b] = FromCore(Val(checkpoints, taken[b] + 1))]
    BY <1>3, HandleSetOneStep DEF storeVars
  <2>2. Fits(checkpoints, FromCore(Val(checkpoints, taken[b] + 1)), taken[b] + 1)
    BY DEF Fits, FromCore
  <2> QED  BY <2>1, <2>2 DEF Held, LayersTypeOK
<1>4. ASSUME NEW b \in LayerOne, NEW c \in Children[b], HandleSetTwo(b, c) PROVE Held'
  <2>1. \A d \in LayerOne : version'[d] = version[d]
    BY <1>4, HandleSetTwoStep, LayersAssumption DEF LayersTypeOK
  <2>2. UNCHANGED <<checkpoints, stream, taken>>
    BY <1>4, HandleSetTwoStep DEF storeVars
  <2> QED  BY <2>1, <2>2 DEF Held
<1>5. ASSUME NEW n \in LayerOne \cup LayerTwo, NEW t \in Writes, LoadBelow(n, t)
      PROVE  Held'
  <2>1. UNCHANGED <<checkpoints, stream, version, taken>>
    BY <1>5 DEF LoadBelow, storeVars
  <2> QED  BY <1>0, <2>1
<1>6. CASE StoreBelow
  <2>1. UNCHANGED <<checkpoints, stream, taken>>
    BY <1>6, StoreBelowStep DEF storeVars
  <2>2. ASSUME NEW b \in LayerOne PROVE Fits(checkpoints, version'[b], taken[b])
    <3>1. taken[b] \in 0 .. Len(checkpoints)
      BY PlaceBounds
    <3>2. Fits(checkpoints, version[b], taken[b])
      BY DEF Held
    <3> QED  BY <1>6, <3>1, <3>2, StoreBelowFits
  <2> QED  BY <2>1, <2>2 DEF Held
<1>7. CASE UNCHANGED layersVars
  BY <1>0, <1>7 DEF layersVars, layerVars, storeVars
<1> QED  BY <1>1, <1>2, <1>3, <1>4, <1>5, <1>6, <1>7 DEF LayersNext, Run

\* Nothing of b's side, nor of c's, has changed.
LEMMA FlowSame ==
    ASSUME NEW b \in LayerOne, NEW c \in Children[b],
           NEW p \in Nat, NEW q \in Seq(Nat), NEW s \in Nat, Flow(b, c, p, q, s),
           checkpoints' = checkpoints, taken'[b] = taken[b], version'[c] = version[c],
           downlink'[b][c] = downlink[b][c],
           c \in unsent'[b] => c \in unsent[b] /\ sending'[b] = sending[b]
    PROVE  Flow(b, c, p, q, s)'
BY DEF Flow

\* What flows from a layer-one node to a child goes on rising, whatever thread
\* makes the step.
LEMMA FlowNext ==
    ASSUME LayersInv, [LayersNext]_layersVars, NEW b \in LayerOne, NEW c \in Children[b]
    PROVE  \E p \in Nat, q \in Seq(Nat), s \in Nat : Flow(b, c, p, q, s)'
<1>0. LayersTypeOK /\ Store /\ Held
  BY DEF LayersInv
<1>1. PICK p \in Nat, q \in Seq(Nat), s \in Nat : Flow(b, c, p, q, s)
  BY DEF LayersInv, Flows
<1>2. /\ p <= s /\ s <= taken[b] /\ taken[b] \in Nat
      /\ taken[b] <= Len(checkpoints) /\ Len(checkpoints) \in Nat
      /\ Fits(checkpoints, version[c], p)
      /\ Ladder(checkpoints, downlink[b][c], q, p, s)
      /\ c \in unsent[b] => Fits(checkpoints, sending[b], s)
  BY <1>0, <1>1, PlaceBounds DEF Flow
<1>3. c \in LayerTwo /\ c \notin LayerOne
  BY LayersAssumption
<1>4. ASSUME /\ checkpoints' = checkpoints /\ taken'[b] = taken[b] /\ version'[c] = version[c]
             /\ downlink'[b][c] = downlink[b][c]
             /\ c \in unsent'[b] => c \in unsent[b] /\ sending'[b] = sending[b]
      PROVE  Flow(b, c, p, q, s)'
  BY <1>1, <1>4, FlowSame
<1>5. CASE Core
  <2>1. /\ UNCHANGED <<taken, version, downlink, unsent, sending>>
        /\ \A k \in 0 .. Len(checkpoints) : Val(checkpoints', k) = Val(checkpoints, k)
    BY <1>0, <1>5, CoreStep DEF layerVars, threadVars
  <2>2. \A k \in 0 .. s : Val(checkpoints', k) = Val(checkpoints, k)
    <3>1. \A k \in 0 .. s : k \in 0 .. Len(checkpoints)
      BY <1>2
    <3> QED  BY <2>1, <3>1
  <2>3. Ladder(checkpoints', downlink[b][c], q, p, s)
    BY <1>2, <2>2, LadderLonger
  <2>4. p \in 0 .. s /\ s \in 0 .. s
    BY <1>2
  <2>5. Val(checkpoints', p) = Val(checkpoints, p) /\ Val(checkpoints', s) = Val(checkpoints, s)
    BY <2>2, <2>4
  <2>6. Flow(b, c, p, q, s)'
    BY <1>2, <2>1, <2>3, <2>5 DEF Flow, Fits
  <2> QED  BY <2>6
<1>6. ASSUME NEW d \in LayerOne, TestRunning(d)
      PROVE  \E i \in Nat, j \in Seq(Nat), k \in Nat : Flow(b, c, i, j, k)'
  <2>1. UNCHANGED <<checkpoints, taken, version, downlink>>
    BY <1>6 DEF TestRunning, storeVars
  <2>2. CASE d = b /\ m_Running[b]
    <3>1. sending'[b] = version[b]
      BY <1>0, <1>6, <2>2 DEF TestRunning, LayersTypeOK
    <3>2. Fits(checkpoints, sending'[b], taken[b])
      BY <1>0, <3>1 DEF Held
    <3>3. Ladder(checkpoints, downlink[b][c], q, p, taken[b])
      BY <1>2, LadderWiden
    <3>4. Flow(b, c, p, q, taken[b])'
      BY <1>2, <2>1, <3>2, <3>3 DEF Flow
    <3> QED  BY <1>2, <2>1, <3>4
  <2>3. CASE ~(d = b /\ m_Running[b])
    <3>1. unsent'[b] = unsent[b] /\ sending'[b] = sending[b]
      BY <1>0, <1>6, <2>3 DEF TestRunning, LayersTypeOK
    <3> QED  BY <1>4, <2>1, <3>1
  <2> QED  BY <2>2, <2>3
<1>7. ASSUME NEW d \in LayerOne, NEW e \in Children[d], SendSet(d, e)
      PROVE  \E i \in Nat, j \in Seq(Nat), k \in Nat : Flow(b, c, i, j, k)'
  <2>1. /\ UNCHANGED <<checkpoints, taken, version, sending>>
        /\ e \in unsent[d]
        /\ downlink' = [downlink EXCEPT ![d][e] = Append(@, sending[d])]
        /\ unsent' = [unsent EXCEPT ![d] = @ \ {e}]
    BY <1>7 DEF SendSet, storeVars
  <2>2. e \in LayerTwo
    BY LayersAssumption
  <2>3. CASE d = b /\ e = c
    <3>1. /\ downlink'[b][c] = Append(downlink[b][c], sending[b])
          /\ c \notin unsent'[b]
      BY <1>0, <1>3, <2>1, <2>3 DEF LayersTypeOK
    <3>2. sending[b] \in HeldVersion /\ Fits(checkpoints, sending[b], s)
      BY <1>0, <1>2, <2>1, <2>3 DEF LayersTypeOK
    <3>3. Ladder(checkpoints, Append(downlink[b][c], sending[b]), Append(q, s), p, s)
      BY <1>2, <3>2, LadderAppend
    <3>4. Flow(b, c, p, Append(q, s), s)'
      BY <1>2, <2>1, <3>1, <3>3 DEF Flow
    <3>5. Append(q, s) \in Seq(Nat)
      BY AppendProperties
    <3> QED  BY <3>4, <3>5
  <2>4. CASE ~(d = b /\ e = c)
    <3>1. downlink'[b][c] = downlink[b][c] /\ (c \in unsent'[b] => c \in unsent[b])
      BY <1>0, <1>3, <2>1, <2>2, <2>4 DEF LayersTypeOK
    <3> QED  BY <1>4, <2>1, <3>1
  <2> QED  BY <2>3, <2>4
<1>8. ASSUME NEW d \in LayerOne, CheckRunning(d) \/ Sleep(d) \/ Timeout(d) \/ Shutdown(d)
      PROVE  \E i \in Nat, j \in Seq(Nat), k \in Nat : Flow(b, c, i, j, k)'
  <2>1. UNCHANGED <<checkpoints, taken, version, downlink, unsent, sending>>
    BY <1>8 DEF CheckRunning, Sleep, Timeout, Shutdown, storeVars
  <2> QED  BY <1>4, <2>1
<1>9. ASSUME NEW d \in LayerOne, HandleSetOne(d)
      PROVE  \E i \in Nat, j \in Seq(Nat), k \in Nat : Flow(b, c, i, j, k)'
  <2>1. /\ UNCHANGED <<checkpoints, downlink, unsent, sending>>
        /\ taken' = [taken EXCEPT ![d] = taken[d] + 1]
        /\ version' = [version EXCEPT ![d] = FromCore(Val(checkpoints, taken[d] + 1))]
    BY <1>0, <1>9, HandleSetOneStep DEF storeVars, threadVars
  <2>2. version'[c] = version[c]
    BY <1>0, <1>3, <2>1 DEF LayersTypeOK
  <2>3. taken'[b] \in {taken[b], taken[b] + 1}
    BY <1>0, <2>1 DEF LayersTypeOK
  <2>4. s <= taken'[b]
    BY <1>2, <2>3
  <2>5. Flow(b, c, p, q, s)'
    BY <1>2, <2>1, <2>2, <2>4 DEF Flow
  <2> QED  BY <2>5
<1>10. ASSUME NEW d \in LayerOne, NEW e \in Children[d], HandleSetTwo(d, e)
       PROVE  \E i \in Nat, j \in Seq(Nat), k \in Nat : Flow(b, c, i, j, k)'
  <2>1. /\ e \in LayerTwo /\ downlink[d][e] # <<>>
        /\ UNCHANGED <<checkpoints, taken, unsent, sending>>
        /\ downlink' = [downlink EXCEPT ![d][e] = Tail(downlink[d][e])]
        /\ version' = [version EXCEPT ![e] = Head(downlink[d][e])]
    BY <1>0, <1>10, HandleSetTwoStep DEF storeVars, threadVars
  <2>2. CASE d = b /\ e = c
    <3>1. /\ downlink'[b][c] = Tail(downlink[b][c])
          /\ version'[c] = Head(downlink[b][c])
      BY <1>0, <1>3, <2>1, <2>2 DEF LayersTypeOK
    <3>2. /\ q[1] \in Nat /\ q[1] \in p .. s
          /\ Fits(checkpoints, Head(downlink[b][c]), q[1])
          /\ Ladder(checkpoints, Tail(downlink[b][c]), Tail(q), q[1], s)
      BY <1>2, <2>1, <2>2, LadderTail
    <3>3. Flow(b, c, q[1], Tail(q), s)'
      BY <1>2, <2>1, <3>1, <3>2 DEF Flow
    <3>4. Tail(q) \in Seq(Nat)
      BY <3>2 DEF Ladder
    <3> QED  BY <3>2, <3>3, <3>4
  <2>3. CASE ~(d = b /\ e = c)
    <3>1. e # c
      BY <2>3, LayersAssumption
    <3>2. downlink'[b][c] = downlink[b][c] /\ version'[c] = version[c]
      BY <1>0, <1>3, <2>1, <3>1 DEF LayersTypeOK
    <3> QED  BY <1>4, <2>1, <3>2
  <2> QED  BY <2>2, <2>3
<1>11. ASSUME NEW n \in LayerOne \cup LayerTwo, NEW t \in Writes, LoadBelow(n, t)
       PROVE  \E i \in Nat, j \in Seq(Nat), k \in Nat : Flow(b, c, i, j, k)'
  <2>1. UNCHANGED <<checkpoints, taken, version, downlink, unsent, sending>>
    BY <1>11 DEF LoadBelow, storeVars, threadVars
  <2> QED  BY <1>4, <2>1
<1>12. CASE StoreBelow
  <2>1. UNCHANGED <<checkpoints, taken, downlink, unsent, sending>>
    BY <1>0, <1>12, StoreBelowStep DEF storeVars, threadVars
  <2>2. p \in 0 .. Len(checkpoints)
    BY <1>2
  <2>3. Fits(checkpoints, version'[c], p)
    BY <1>2, <1>3, <1>12, <2>2, StoreBelowFits
  <2>4. Flow(b, c, p, q, s)'
    BY <1>2, <2>1, <2>3 DEF Flow
  <2> QED  BY <2>4
<1>13. CASE UNCHANGED layersVars
  BY <1>4, <1>13 DEF layersVars, layerVars, storeVars, threadVars
<1> QED  BY <1>5, <1>6, <1>7, <1>8, <1>9, <1>10, <1>11, <1>12, <1>13 DEF LayersNext, Run

-----------------------------------------------------------------------------
(* Writes that only add *)

\* A store that still has a checkpoint to make has room for one more write.
LEMMA RoomToAdd ==
    ASSUME NEW L \in Nat, NEW K \in Nat, NEW U \in Nat \ {0}, NEW u \in 0 .. U - 1,
           NEW m \in Nat, L < K
    PROVE  /\ L * U + u \in Nat
           /\ (L * U + u + 1) * m <= (K * U) * m
           /\ (L * U + u + 1) * m = (L * U + u) * m + m
           /\ (L + 1) * U = L * U + U
<1>1. /\ L * U \in Nat /\ K * U \in Nat
      /\ (L + 1) * U = L * U + U
  OBVIOUS
<1>2. (L + 1) * U <= K * U
  <2>1. K = L + 1 + (K - L - 1) /\ K - L - 1 \in Nat
    OBVIOUS
  <2> DEFINE d == K - L - 1
  <2>2. K * U = (L + 1) * U + d * U /\ d * U \in Nat
    BY <2>1
  <2> QED  BY <1>1, <2>2
<1>3. L * U + u + 1 <= K * U
  BY <1>1, <1>2
<1> DEFINE a == L * U + u + 1
           b == K * U
<1>4. a \in Nat /\ b \in Nat /\ a <= b
  BY <1>1, <1>3
<1>5. a * m <= b * m
  <2> HIDE DEF a, b
  <2>1. b - a \in Nat
    BY <1>4
  <2>2. b * m = a * m + (b - a) * m /\ (b - a) * m \in Nat
    BY <1>4, <2>1
  <2> QED  BY <1>4, <2>2
<1> DEFINE z == L * U + u
<1>8. z \in Nat /\ a = z + 1
  BY <1>1
<1>9. (z + 1) * m = z * m + m
  <2> HIDE DEF z
  <2> QED  BY <1>8
<1> QED  BY <1>1, <1>5, <1>8, <1>9

\* An int that is not wrapped.
LEMMA WrapSmall ==
    ASSUME NEW x \in Nat, x < IntHalf
    PROVE  Wrap(x) = x
BY IntHalfAssumption DEF Wrap

\* The writes to the core leave room for those below.
LEMMA RoomSmall ==
    ASSUME OnlyAdds
    PROVE  Room \in Nat /\ Room < IntHalf
<1>1. /\ MaxCheckpoints \in Nat /\ MaxBelow \in Nat /\ UPDATE_COUNT \in Nat /\ M \in Nat
      /\ IntHalf \in Nat
  BY LayersAssumption, IntHalfAssumption DEF OnlyAdds
<1>2. MaxCheckpoints * UPDATE_COUNT \in Nat
  BY <1>1
<1>3. Room \in Nat /\ MaxBelow * M \in Nat
  BY <1>1, <1>2 DEF Room
<1>4. Room + MaxBelow * M < IntHalf
  BY DEF OnlyAdds, Room
<1> QED  BY <1>1, <1>3, <1>4

\* A write makes the value no smaller.
LEMMA RisingWrite ==
    ASSUME OnlyAdds, Store, Rising, Len(checkpoints) < MaxCheckpoints,
           NEW t \in Writes, Write(t)
    PROVE  Rising'
<1> DEFINE L == Len(checkpoints)
           N == Written * M
<1>1. /\ M \in Nat /\ UPDATE_COUNT \in Nat \ {0} /\ t.type = "SUM" /\ t.value \in 0 .. M
      /\ Room \in Nat /\ Room < IntHalf
  BY RoomSmall DEF OnlyAdds
<1>2. /\ L \in Nat /\ checkpoints \in Seq(Version)
      /\ MaxCheckpoints \in Nat /\ IntHalf \in Nat /\ L < MaxCheckpoints
  BY LayersAssumption, IntHalfAssumption DEF Store
<1>3. /\ uncounted \in 0 .. UPDATE_COUNT - 1
      /\ \A i \in 0 .. L : Val(checkpoints, i) <= value
      /\ \A i, j \in 0 .. L : i <= j => Val(checkpoints, i) <= Val(checkpoints, j)
  BY DEF Rising
<1>4. /\ Written \in Nat /\ (Written + 1) * M <= Room
      /\ (Written + 1) * M = N + M
      /\ (L + 1) * UPDATE_COUNT = L * UPDATE_COUNT + UPDATE_COUNT
  <2> HIDE DEF L
  <2>1. Written = L * UPDATE_COUNT + uncounted
    BY DEF Written, L
  <2> QED  BY <1>1, <1>2, <1>3, <2>1, RoomToAdd DEF Room
<1>5. N \in Nat /\ value \in 0 .. N
  BY <1>1, <1>4 DEF Rising
<1> HIDE DEF N
<1>6. value + t.value \in Nat /\ value + t.value <= N + M /\ value + t.value < IntHalf
  <2>1. N + M < IntHalf
    BY <1>1, <1>2, <1>4, <1>5
  <2> QED  BY <1>1, <1>2, <1>5, <2>1
<1>7. value' = value + t.value
  <2>1. value' = Wrap(value + t.value)
    BY <1>1 DEF Write, ExecuteTransaction
  <2> QED  BY <1>6, <2>1, WrapSmall
<1>8. /\ value' \in Nat /\ value <= value' /\ value' <= (Written + 1) * M
      /\ value' <= Room
  BY <1>1, <1>4, <1>5, <1>6, <1>7
<1>9. CASE uncounted + 1 = UPDATE_COUNT
  <2>1. uncounted' = 0 /\ checkpoints' = Append(checkpoints, value')
    BY <1>9 DEF Write
  <2>2. /\ Len(checkpoints') = L + 1
        /\ \A i \in 1 .. L : checkpoints'[i] = checkpoints[i]
        /\ checkpoints'[L + 1] = value'
    <3>1. value' \in Version
      BY <1>2, <1>6, <1>7 DEF Version
    <3> QED  BY <1>2, <2>1, <3>1, AppendProperties
  <2>3. Written' = Written + 1
    <3>1. Written' = (L + 1) * UPDATE_COUNT + 0
      BY <2>1, <2>2 DEF Written
    <3>2. Written = L * UPDATE_COUNT + uncounted
      BY DEF Written
    <3>3. L * UPDATE_COUNT \in Nat /\ UPDATE_COUNT \in Nat /\ uncounted \in Nat
      BY <1>1, <1>2, <1>3
    <3> DEFINE lu == L * UPDATE_COUNT
    <3>4. (L + 1) * UPDATE_COUNT = lu + UPDATE_COUNT /\ lu \in Nat
      BY <1>4, <3>3
    <3> HIDE DEF lu, L
    <3>5. Written' = lu + UPDATE_COUNT /\ Written = lu + uncounted
      BY <1>1, <3>1, <3>2, <3>4 DEF lu
    <3> QED  BY <1>9, <3>3, <3>4, <3>5
  <2>4. /\ Val(checkpoints', L + 1) = value'
        /\ \A i \in 0 .. L : Val(checkpoints', i) = Val(checkpoints, i)
    BY <1>2, <2>2 DEF Val
  <2>5. \A i \in 0 .. L : Val(checkpoints, i) \in Int
    BY ValInt
  <2> HIDE DEF L
  <2>6. \A i \in 0 .. L + 1 : i = L + 1 \/ i \in 0 .. L
    BY <1>2
  <2>7. ASSUME NEW i \in 0 .. L + 1 PROVE Val(checkpoints', i) <= value'
    BY <1>3, <1>5, <1>8, <2>4, <2>5, <2>6
  <2>8. ASSUME NEW i \in 0 .. L + 1, NEW j \in 0 .. L + 1, i <= j
        PROVE  Val(checkpoints', i) <= Val(checkpoints', j)
    <3>1. CASE j = L + 1
      BY <2>4, <2>7, <3>1
    <3>2. CASE j # L + 1
      <4>1. i \in 0 .. L /\ j \in 0 .. L
        BY <1>2, <2>8, <3>2
      <4> QED  BY <1>3, <2>4, <2>8, <4>1
    <3> QED  BY <3>1, <3>2
  <2>9. value' \in 0 .. Written' * M
    BY <1>8, <2>3
  <2>10. uncounted' \in 0 .. UPDATE_COUNT - 1
    BY <1>1, <2>1
  <2> QED  BY <1>8, <2>2, <2>7, <2>8, <2>9, <2>10 DEF Rising, Room
<1>10. CASE uncounted + 1 # UPDATE_COUNT
  <2>1. uncounted' = uncounted + 1 /\ checkpoints' = checkpoints
    BY <1>10 DEF Write
  <2>2. Written' = Written + 1
    <3>1. L * UPDATE_COUNT \in Nat /\ uncounted \in Nat
      BY <1>1, <1>2, <1>3
    <3> QED  BY <2>1, <3>1 DEF Written
  <2>3. \A i \in 0 .. L : Val(checkpoints, i) \in Int
    BY ValInt
  <2>4. \A i \in 0 .. L : Val(checkpoints, i) <= value'
    BY <1>3, <1>5, <1>8, <2>3
  <2>5. uncounted' \in 0 .. UPDATE_COUNT - 1
    BY <1>1, <1>3, <1>10, <2>1
  <2> QED  BY <1>3, <1>8, <2>1, <2>2, <2>4, <2>5 DEF Rising, Room
<1> QED  BY <1>9, <1>10

\* The value goes on rising.
LEMMA RisingNext ==
    ASSUME OnlyAdds, Store, Rising, [LayersNext]_layersVars
    PROVE  Rising'
<1>1. ASSUME UNCHANGED <<value, uncounted, checkpoints>> PROVE Rising'
  BY <1>1 DEF Rising, Written, Room
<1>2. CASE Core
  BY <1>1, <1>2, RisingWrite DEF Core, Forward
<1>3. CASE UNCHANGED storeVars
  BY <1>1, <1>3 DEF storeVars
<1>4. Core \/ UNCHANGED storeVars
  BY DEF LayersNext, Run, TestRunning, SendSet, CheckRunning, Sleep, Timeout, Shutdown,
         HandleSetOne, HandleSetTwo, LoadBelow, StoreBelow, layersVars
<1> QED  BY <1>2, <1>3, <1>4

\* A write below starts from what is small and leaves it small, and no smaller.
LEMMA BoundedLoad ==
    ASSUME OnlyAdds, LayersTypeOK, Bounded,
           NEW n \in LayerOne \cup LayerTwo, NEW t \in Writes, LoadBelow(n, t)
    PROVE  /\ \A x \in Small : x \in Small'
           /\ writer'.value \in Small' /\ version[n].value <= writer'.value
           /\ writer'.node = n
<1> DEFINE v == version[n].value
           R == Room + below * M
<1>1. /\ M \in Nat /\ t.type = "SUM" /\ t.value \in 0 .. M /\ Room \in Nat
      /\ below \in Nat /\ below' = below + 1
  BY RoomSmall, LayersAssumption DEF OnlyAdds, LoadBelow, LayersTypeOK
<1>2. R \in Nat /\ Room' + below' * M = R + M
  <2>1. (below + 1) * M = below * M + M /\ below * M \in Nat
    BY <1>1
  <2> QED  BY <1>1, <2>1 DEF Room
<1>3. R + M < IntHalf
  <2>1. below' <= MaxBelow /\ MaxBelow \in Nat
    BY <1>1, LayersAssumption DEF LoadBelow, LayersTypeOK
  <2>2. R + M <= Room + MaxBelow * M
    <3>1. MaxBelow - below' \in Nat
      BY <1>1, <2>1
    <3>2. MaxBelow * M = below' * M + (MaxBelow - below') * M
          /\ (MaxBelow - below') * M \in Nat /\ below' * M \in Nat
      BY <1>1, <2>1, <3>1
    <3>3. Room' = Room
      BY DEF Room
    <3> HIDE DEF R
    <3> QED  BY <1>1, <1>2, <3>2, <3>3
  <2>3. Room + MaxBelow * M < IntHalf /\ MaxBelow * M \in Nat
    BY <1>1, <2>1 DEF OnlyAdds, Room
  <2> HIDE DEF R
  <2> QED  BY <1>1, <1>2, <2>2, <2>3, IntHalfAssumption
<1>4. Small = 0 .. R /\ Small' = 0 .. R + M
  BY <1>2 DEF Small
<1>5. v \in 0 .. R
  BY <1>4 DEF Bounded
<1>6. writer'.value = Wrap(v + t.value) /\ writer'.node = n
  BY <1>1 DEF LoadBelow, ExecuteTransaction
<1> HIDE DEF v, R
<1>7. v + t.value \in Nat /\ v + t.value < IntHalf /\ v + t.value <= R + M
  BY <1>1, <1>2, <1>3, <1>5, IntHalfAssumption
<1>8. writer'.value = v + t.value
  BY <1>6, <1>7, WrapSmall
<1> QED  BY <1>1, <1>2, <1>4, <1>5, <1>6, <1>7, <1>8 DEF v

\* A checkpoint is small.
LEMMA CheckpointSmall ==
    ASSUME OnlyAdds, LayersTypeOK, Store, Rising, NEW k \in 0 .. Len(checkpoints)
    PROVE  Val(checkpoints, k) \in Small
<1>1. Len(checkpoints) \in Nat /\ 0 <= k
  BY DEF Store
<1>2. Val(checkpoints, 0) <= Val(checkpoints, k) /\ Val(checkpoints, k) <= value
  BY <1>1 DEF Rising
<1>3. Val(checkpoints, 0) = 0 /\ Val(checkpoints, k) \in Int
  BY ValInt DEF Val
<1>4. Room \in Nat /\ below * M \in Nat /\ value <= Room /\ value \in Int
  BY RoomSmall, IntHalfAssumption, LayersAssumption
     DEF Rising, Store, Version, OnlyAdds, LayersTypeOK
<1> QED  BY <1>2, <1>3, <1>4 DEF Small

\* No step brings a version below the core out of bounds.
LEMMA BoundedNext ==
    ASSUME LayersInv, OnlyAdds, [LayersNext]_layersVars
    PROVE  Bounded'
<1>0. LayersTypeOK /\ Store /\ Held /\ Rising /\ Bounded
  BY DEF LayersInv
<1>1. ASSUME UNCHANGED <<version, downlink, sending, writer, below>> PROVE Bounded'
  BY <1>0, <1>1 DEF Bounded, Small, Room
<1>2. ASSUME below' = below PROVE Small' = Small
  BY <1>2 DEF Small, Room
<1>3. CASE Core
  BY <1>1, <1>3 DEF Core, layerVars, threadVars, writerVars
<1>4. ASSUME NEW b \in LayerOne, TestRunning(b) PROVE Bounded'
  <2>1. UNCHANGED <<version, downlink, writer, below>>
    BY <1>4 DEF TestRunning, writerVars
  <2>2. \A d \in LayerOne : sending'[d] = sending[d] \/ sending'[d] = version[d]
    BY <1>0, <1>4 DEF TestRunning, LayersTypeOK
  <2>3. \A d \in LayerOne : sending'[d].value \in Small
    BY <1>0, <2>2 DEF Bounded
  <2> QED  BY <1>0, <1>2, <2>1, <2>3 DEF Bounded
<1>5. ASSUME NEW b \in LayerOne, NEW c \in Children[b], SendSet(b, c) PROVE Bounded'
  <2>1. UNCHANGED <<version, sending, writer, below>>
        /\ downlink' = [downlink EXCEPT ![b][c] = Append(downlink[b][c], sending[b])]
    BY <1>5 DEF SendSet, writerVars
  <2>2. c \in LayerTwo /\ downlink[b][c] \in Seq(HeldVersion) /\ sending[b] \in HeldVersion
    BY <1>0, LayersAssumption DEF LayersTypeOK
  <2> DEFINE A == downlink[b][c]
             B == Append(A, sending[b])
  <2>3. ASSUME NEW i \in 1 .. Len(B) PROVE B[i].value \in Small
    <3>1. Len(B) = Len(A) + 1 /\ Len(A) \in Nat
      BY <2>2
    <3>2. CASE i = Len(A) + 1
      <4>1. B[i] = sending[b]
        BY <2>2, <3>2
      <4> QED  BY <1>0, <4>1 DEF Bounded
    <3>3. CASE i # Len(A) + 1
      <4>1. i \in 1 .. Len(A) /\ B[i] = A[i]
        BY <2>2, <3>1, <3>3
      <4> QED  BY <1>0, <2>2, <4>1 DEF Bounded
    <3> QED  BY <3>2, <3>3
  <2>4. \A d \in LayerOne : \A e \in LayerTwo :
          downlink'[d][e] = downlink[d][e] \/ downlink'[d][e] = B
    BY <1>0, <2>1, <2>2 DEF LayersTypeOK
  <2> HIDE DEF B
  <2>5. \A d \in LayerOne : \A e \in LayerTwo : \A i \in 1 .. Len(downlink'[d][e]) :
          downlink'[d][e][i].value \in Small
    BY <1>0, <2>3, <2>4 DEF Bounded
  <2> QED  BY <1>0, <1>2, <2>1, <2>5 DEF Bounded
<1>6. ASSUME NEW b \in LayerOne, CheckRunning(b) \/ Sleep(b) \/ Timeout(b) \/ Shutdown(b)
      PROVE  Bounded'
  BY <1>1, <1>6 DEF CheckRunning, Sleep, Timeout, Shutdown, writerVars
<1>7. ASSUME NEW n \in LayerOne \cup LayerTwo, NEW v \in HeldVersion, v.value \in Small,
             version' = [version EXCEPT ![n] = v],
             writer' = [writer EXCEPT !.overtaken = writer.overtaken \/ writer.node = n]
      PROVE  /\ \A m \in LayerOne \cup LayerTwo : version'[m].value \in Small
             /\ writer'.value \in Small
             /\ writer'.node # None /\ ~writer'.overtaken =>
                  version'[writer'.node].value <= writer'.value
  <2>1. /\ writer'.value = writer.value /\ writer'.node = writer.node
        /\ ~writer'.overtaken => ~writer.overtaken /\ writer.node # n
    BY <1>0, <1>7 DEF LayersTypeOK
  <2>2. \A m \in LayerOne \cup LayerTwo :
          version'[m] = version[m] \/ (m = n /\ version'[m] = v)
    BY <1>0, <1>7 DEF LayersTypeOK
  <2>3. \A m \in LayerOne \cup LayerTwo : version'[m].value \in Small
    BY <1>0, <1>7, <2>2 DEF Bounded
  <2>4. ASSUME writer'.node # None, ~writer'.overtaken
        PROVE  version'[writer'.node].value <= writer'.value
    <3>1. writer.node \in LayerOne \cup LayerTwo
      BY <1>0, <2>1, <2>4 DEF LayersTypeOK
    <3>2. version'[writer.node] = version[writer.node]
      BY <2>1, <2>2, <2>4, <3>1
    <3> QED  BY <1>0, <2>1, <2>4, <3>2 DEF Bounded
  <2> QED  BY <1>0, <2>1, <2>3, <2>4 DEF Bounded
<1>8. ASSUME NEW b \in LayerOne, HandleSetOne(b) PROVE Bounded'
  <2> DEFINE k == taken[b] + 1
  <2>1. /\ k <= Len(stream[Parent[b]]) /\ FromCore(Val(checkpoints, k)) \in HeldVersion
        /\ version' = [version EXCEPT ![b] = FromCore(Val(checkpoints, k))]
        /\ writer' = [writer EXCEPT !.overtaken = writer.overtaken \/ writer.node = b]
        /\ UNCHANGED <<downlink, sending, below>>
    BY <1>0, <1>8, HandleSetOneStep DEF threadVars
  <2>2. k \in 0 .. Len(checkpoints)
    BY <1>0, <2>1, PlaceBounds
  <2>3. FromCore(Val(checkpoints, k)).value \in Small
    BY <1>0, <2>2, CheckpointSmall DEF FromCore
  <2> HIDE DEF k
  <2>4. /\ \A m \in LayerOne \cup LayerTwo : version'[m].value \in Small
        /\ writer'.value \in Small
        /\ writer'.node # None /\ ~writer'.overtaken =>
             version'[writer'.node].value <= writer'.value
    BY <1>7, <2>1, <2>3
  <2> QED  BY <1>0, <1>2, <2>1, <2>4 DEF Bounded
<1>9. ASSUME NEW b \in LayerOne, NEW c \in Children[b], HandleSetTwo(b, c) PROVE Bounded'
  <2> DEFINE A == downlink[b][c]
  <2>1. /\ c \in LayerTwo /\ A \in Seq(HeldVersion) /\ A # <<>> /\ Head(A) \in HeldVersion
        /\ downlink' = [downlink EXCEPT ![b][c] = Tail(A)]
        /\ version' = [version EXCEPT ![c] = Head(A)]
        /\ writer' = [writer EXCEPT !.overtaken = writer.overtaken \/ writer.node = c]
        /\ UNCHANGED <<sending, below>>
    BY <1>0, <1>9, HandleSetTwoStep DEF threadVars
  <2>2. \A i \in 1 .. Len(A) : A[i].value \in Small
    BY <1>0, <2>1 DEF Bounded
  <2>3. \A d \in LayerOne : \A e \in LayerTwo :
          downlink'[d][e] = downlink[d][e] \/ downlink'[d][e] = Tail(A)
    BY <1>0, <2>1 DEF LayersTypeOK
  <2> HIDE DEF A
  <2>4. Head(A).value \in Small
    <3>1. 1 \in 1 .. Len(A) /\ Head(A) = A[1]
      BY <2>1
    <3> QED  BY <2>2, <3>1
  <2>5. \A i \in 1 .. Len(Tail(A)) : Tail(A)[i].value \in Small
    <3>1. /\ Len(Tail(A)) = Len(A) - 1 /\ Len(A) \in Nat
          /\ \A i \in 1 .. Len(Tail(A)) : Tail(A)[i] = A[i + 1]
      BY <2>1
    <3>2. \A i \in 1 .. Len(Tail(A)) : i + 1 \in 1 .. Len(A)
      BY <3>1
    <3> QED  BY <2>2, <3>1, <3>2
  <2>6. \A d \in LayerOne : \A e \in LayerTwo : \A i \in 1 .. Len(downlink'[d][e]) :
          downlink'[d][e][i].value \in Small
    BY <1>0, <2>3, <2>5 DEF Bounded
  <2>7. /\ \A m \in LayerOne \cup LayerTwo : version'[m].value \in Small
        /\ writer'.value \in Small
        /\ writer'.node # None /\ ~writer'.overtaken =>
             version'[writer'.node].value <= writer'.value
    BY <1>7, <2>1, <2>4
  <2> QED  BY <1>0, <1>2, <2>1, <2>6, <2>7 DEF Bounded
<1>10. ASSUME NEW n \in LayerOne \cup LayerTwo, NEW t \in Writes, LoadBelow(n, t)
       PROVE  Bounded'
  <2>1. UNCHANGED <<version, downlink, sending>>
    BY <1>10 DEF LoadBelow, threadVars
  <2>2. /\ \A x \in Small : x \in Small'
        /\ writer'.value \in Small' /\ version[n].value <= writer'.value
        /\ writer'.node = n
    BY <1>0, <1>10, BoundedLoad
  <2> QED  BY <1>0, <2>1, <2>2 DEF Bounded
<1>11. CASE StoreBelow
  <2>1. /\ writer' = Idle /\ UNCHANGED <<downlink, sending, below>>
        /\ \A n \in LayerOne \cup LayerTwo :
             version'[n].value = writer.value \/ version'[n] = version[n]
    BY <1>0, <1>11, StoreBelowStep DEF threadVars
  <2>2. 0 \in Small
    <3>1. 0 \in 0 .. Len(checkpoints) /\ Val(checkpoints, 0) = 0
      BY <1>0 DEF Store, Val
    <3> QED  BY <1>0, <3>1, CheckpointSmall
  <2> QED  BY <1>0, <1>2, <2>1, <2>2 DEF Bounded, Idle
<1>12. CASE UNCHANGED layersVars
  BY <1>1, <1>12 DEF layersVars, layerVars, threadVars, writerVars
<1> QED  BY <1>3, <1>4, <1>5, <1>6, <1>8, <1>9, <1>10, <1>11, <1>12 DEF LayersNext, Run

-----------------------------------------------------------------------------
(* The theorems *)

\* The layers start at the initial version, below a store that has no checkpoints.
LEMMA InvInit == LayersInit => LayersInv
<1> SUFFICES ASSUME LayersInit PROVE LayersInv
  OBVIOUS
<1>0. 0 \in Version /\ FromCore(0) \in HeldVersion
  BY IntHalfAssumption DEF Version, FromCore, HeldVersion
<1>1. LayersTypeOK
  BY <1>0, LayersAssumption DEF LayersInit, LayersTypeOK, RunState, Idle
<1>2. Store
  BY <1>0, LayersAssumption DEF LayersInit, StoreInit, Store
<1>3. Held
  BY LayersAssumption DEF LayersInit, StoreInit, Held, Val, Fits, FromCore
<1>4. ASSUME NEW b \in LayerOne, NEW c \in Children[b] PROVE Flow(b, c, 0, <<>>, 0)
  <2>1. c \in LayerTwo
    BY LayersAssumption
  <2>2. Ladder(checkpoints, <<>>, <<>>, 0, 0)
    BY DEF Ladder
  <2>3. version[c] = FromCore(0) /\ taken[b] = 0 /\ downlink[b][c] = <<>> /\ unsent[b] = {}
    BY <2>1 DEF LayersInit
  <2>4. Fits(checkpoints, FromCore(0), 0)
    BY DEF Fits, FromCore, Val
  <2> QED  BY <2>2, <2>3, <2>4 DEF Flow
<1>5. Flows
  <2>1. <<>> \in Seq(Nat) /\ 0 \in Nat
    OBVIOUS
  <2> QED  BY <1>4, <2>1 DEF Flows
<1>6. ASSUME OnlyAdds PROVE Rising /\ Bounded
  <2>1. value = 0 /\ uncounted = 0 /\ checkpoints = <<>> /\ Len(checkpoints) = 0
    BY DEF LayersInit, StoreInit
  <2>2. UPDATE_COUNT \in Nat \ {0} /\ M \in Nat /\ Room \in Nat
    BY <1>6, RoomSmall DEF OnlyAdds
  <2>3. Written * M = 0
    BY <2>1, <2>2 DEF Written
  <2>4. \A i \in 0 .. 0 : Val(checkpoints, i) = 0
    BY DEF Val
  <2>5. Rising
    BY <2>1, <2>2, <2>3, <2>4 DEF Rising
  <2>6. 0 \in Small
    BY <2>2 DEF Small, LayersInit
  <2> QED  BY <2>5, <2>6 DEF Bounded, LayersInit, FromCore, Idle
<1> QED  BY <1>1, <1>2, <1>3, <1>5, <1>6 DEF LayersInv

\* LayersInv is inductive.
LEMMA InvAlways == LayersSpec => []LayersInv
<1>1. LayersInv /\ [LayersNext]_layersVars => LayersInv'
  <2>1. LayersInv /\ [LayersNext]_layersVars => LayersTypeOK' /\ Store' /\ Held'
    BY TypeNext, StoreStep, HeldNext DEF LayersInv
  <2>2. LayersInv /\ [LayersNext]_layersVars => Flows'
    BY FlowNext DEF Flows
  <2>3. LayersInv /\ [LayersNext]_layersVars => (OnlyAdds => Rising /\ Bounded)'
    <3>1. OnlyAdds' = OnlyAdds
      BY DEF OnlyAdds
    <3> QED  BY <3>1, RisingNext, BoundedNext DEF LayersInv
  <2> QED  BY <2>1, <2>2, <2>3 DEF LayersInv
<1> QED  BY <1>1, InvInit, PTL DEF LayersSpec

\* Every variable keeps its type.
THEOREM LayersTypeCorrect == LayersSpec => []LayersTypeOK
<1>1. LayersInv => LayersTypeOK
  BY DEF LayersInv
<1> QED  BY <1>1, InvAlways, PTL

\* The places of a flow and that of its source are those Downhill asks for.
LEMMA InvDownhill == LayersInv => Downhill
<1> SUFFICES ASSUME LayersInv, NEW b \in LayerOne, NEW c \in Children[b]
             PROVE  LET chain == <<version[c]>> \o downlink[b][c]
                             \o (IF c \in unsent[b] THEN <<sending[b]>> ELSE <<>>)
                             \o <<version[b]>>
                    IN  \E place \in [DOMAIN chain -> 0 .. Len(checkpoints)] :
                          /\ \A i \in DOMAIN chain : place[i] \in Places(chain[i])
                          /\ \A i, j \in DOMAIN chain : i < j => place[i] <= place[j]
                          /\ place[Len(chain)] = taken[b]
                          /\ taken[b] <= Len(stream[Parent[b]])
  BY DEF Downhill
<1>0. LayersTypeOK /\ Store /\ Held
  BY DEF LayersInv
<1>1. PICK p \in Nat, q \in Seq(Nat), s \in Nat : Flow(b, c, p, q, s)
  BY DEF LayersInv, Flows
<1> DEFINE t == taken[b]
           S == IF c \in unsent[b] THEN <<sending[b]>> ELSE <<>>
           P == IF c \in unsent[b] THEN <<s>> ELSE <<>>
           upper == <<version[c]>> \o downlink[b][c]
           above == upper \o S
           chain == above \o <<version[b]>>
           places == ((<<p>> \o q) \o P) \o <<t>>
<1>2. /\ p <= s /\ s <= t /\ t \in Nat
      /\ t <= Len(checkpoints) /\ Len(checkpoints) \in Nat
      /\ Fits(checkpoints, version[c], p)
      /\ Ladder(checkpoints, downlink[b][c], q, p, s)
      /\ c \in unsent[b] => Fits(checkpoints, sending[b], s)
      /\ Fits(checkpoints, version[b], t)
      /\ t <= Len(stream[Parent[b]])
  BY <1>0, <1>1, PlaceBounds DEF Flow, Held
<1>3. /\ version[c] \in HeldVersion /\ version[b] \in HeldVersion
      /\ sending[b] \in HeldVersion
  BY <1>0, LayersAssumption DEF LayersTypeOK
<1>4. ASSUME NEW k \in Nat, NEW v \in HeldVersion, Fits(checkpoints, v, k)
      PROVE  Ladder(checkpoints, <<v>>, <<k>>, k, k)
  <2>1. /\ <<v>> \in Seq(HeldVersion) /\ <<k>> \in Seq(Nat) /\ Len(<<v>>) = 1 /\ Len(<<k>>) = 1
        /\ <<v>>[1] = v /\ <<k>>[1] = k
    OBVIOUS
  <2>2. \A i \in 1 .. 1 : i = 1
    OBVIOUS
  <2>3. k \in k .. k /\ k <= k
    OBVIOUS
  <2> QED  BY <1>4, <2>1, <2>2, <2>3 DEF Ladder
<1>5. Ladder(checkpoints, upper, <<p>> \o q, p, s)
  BY <1>2, <1>3, <1>4, LadderJoin
<1>6. Ladder(checkpoints, above, (<<p>> \o q) \o P, p, s)
  <2>1. Ladder(checkpoints, S, P, s, s)
    <3>1. CASE c \in unsent[b]
      BY <1>2, <1>3, <1>4, <3>1
    <3>2. CASE c \notin unsent[b]
      BY <3>2 DEF Ladder
    <3> QED  BY <3>1, <3>2
  <2> HIDE DEF upper, S, P
  <2> QED  BY <1>2, <1>5, <2>1, LadderJoin
<1>7. Ladder(checkpoints, chain, places, p, t)
  <2>1. Ladder(checkpoints, <<version[b]>>, <<t>>, t, t)
    BY <1>2, <1>3, <1>4
  <2> HIDE DEF above, P
  <2>2. Ladder(checkpoints, above, (<<p>> \o q) \o P, p, t)
    BY <1>2, <1>6, LadderWiden
  <2> HIDE DEF t
  <2>3. p <= t
    BY <1>2
  <2> QED  BY <1>2, <2>1, <2>2, <2>3, LadderJoin
<1>8. Len(chain) = Len(above) + 1 /\ Len(chain) \in Nat /\ places[Len(chain)] = t
  <2> DEFINE R == (<<p>> \o q) \o P
  <2>1. /\ above \in Seq(HeldVersion) /\ R \in Seq(Nat) /\ Len(R) = Len(above)
    BY <1>6 DEF Ladder
  <2> HIDE DEF above, R
  <2>2. Len(above \o <<version[b]>>) = Len(above) + 1 /\ Len(above) \in Nat
    BY <1>3, <2>1
  <2>3. (R \o <<t>>)[Len(R) + 1] = t
    BY <1>2, <2>1
  <2> QED  BY <2>1, <2>2, <2>3 DEF R
<1> HIDE DEF chain, places
<1>9. /\ places \in [DOMAIN chain -> 0 .. Len(checkpoints)]
      /\ DOMAIN chain = 1 .. Len(chain)
      /\ \A i \in DOMAIN chain : places[i] \in Places(chain[i])
      /\ \A i, j \in DOMAIN chain : i < j => places[i] <= places[j]
  <2>1. /\ chain \in Seq(HeldVersion) /\ places \in Seq(Nat) /\ Len(places) = Len(chain)
        /\ \A i \in 1 .. Len(chain) : places[i] \in p .. t
                                      /\ Fits(checkpoints, chain[i], places[i])
        /\ \A i, j \in 1 .. Len(chain) : i <= j => places[i] <= places[j]
    BY <1>7 DEF Ladder
  <2>2. DOMAIN chain = 1 .. Len(chain) /\ DOMAIN places = 1 .. Len(chain)
    BY <2>1
  <2>3. \A i \in 1 .. Len(chain) : places[i] \in 0 .. Len(checkpoints)
    <3>1. \A k \in p .. t : k \in 0 .. Len(checkpoints)
      BY <1>2
    <3> QED  BY <2>1, <3>1
  <2>4. places \in [1 .. Len(chain) -> 0 .. Len(checkpoints)]
    BY <2>1, <2>2, <2>3
  <2>5. \A i \in 1 .. Len(chain) : places[i] \in Places(chain[i])
    BY <2>1, <2>3 DEF Places, Val, Fits
  <2>6. \A i, j \in 1 .. Len(chain) : i < j => i <= j
    BY <1>8
  <2> QED  BY <2>1, <2>2, <2>4, <2>5, <2>6
<1> QED  BY <1>2, <1>8, <1>9 DEF chain

\* From the core layer down, what came from the core is never newer than what is
\* above it, for any tree of nodes, whatever the writes do to the value and whatever
\* writes a file has had executed below the core, while Run sends what it has read
\* before HandleMsg sets the version (LayerOneNode.cpp:24, 39).
THEOREM AlwaysDownhill == LayersSpec => []Downhill
BY InvDownhill, InvAlways, PTL

\* With writes that only add, a step gives a node a smaller version only where it
\* replaces or makes what a write below the core has changed.
LEMMA StepUp ==
    ASSUME OnlyAdds, LayersInv, [LayersNext]_layersVars,
           NEW n \in LayerOne \cup LayerTwo,
           version[n].from = "core", version'[n].from # "raced"
    PROVE  version'[n].value >= version[n].value
<1>0. LayersTypeOK /\ Store /\ Held /\ Rising /\ Bounded
  BY DEF LayersInv
<1>1. version[n] \in HeldVersion /\ version[n].value \in Int
  BY <1>0, IntHalfAssumption DEF LayersTypeOK, HeldVersion, Version
<1>2. \A i, j \in 0 .. Len(checkpoints) :
        i <= j => Val(checkpoints, i) <= Val(checkpoints, j)
  BY <1>0 DEF Rising
<1>3. ASSUME version'[n] = version[n] PROVE version'[n].value >= version[n].value
  BY <1>1, <1>3
<1>4. ASSUME NEW b \in LayerOne, HandleSetOne(b)
      PROVE  version'[n].value >= version[n].value
  <2>1. /\ version' = [version EXCEPT ![b] = FromCore(Val(checkpoints, taken[b] + 1))]
        /\ taken[b] + 1 <= Len(stream[Parent[b]])
    BY <1>0, <1>4, HandleSetOneStep
  <2>2. taken[b] \in 0 .. Len(checkpoints) /\ taken[b] + 1 \in 0 .. Len(checkpoints)
        /\ taken[b] <= taken[b] + 1
    BY <1>0, <2>1, PlaceBounds
  <2>3. Val(checkpoints, taken[b]) <= Val(checkpoints, taken[b] + 1)
    BY <1>2, <2>2
  <2>4. CASE n = b
    <3>1. version[b].value = Val(checkpoints, taken[b])
      BY <1>0, <2>4 DEF Held, Fits
    <3>2. version'[b].value = Val(checkpoints, taken[b] + 1)
      BY <1>0, <2>1 DEF LayersTypeOK, FromCore
    <3>3. Val(checkpoints, taken[b] + 1) \in Int
      BY <1>0, <2>2, ValInt
    <3> QED  BY <1>1, <2>3, <2>4, <3>1, <3>2, <3>3
  <2>5. CASE n # b
    BY <1>0, <1>3, <2>1, <2>5 DEF LayersTypeOK
  <2> QED  BY <2>4, <2>5
<1>5. ASSUME NEW b \in LayerOne, NEW c \in Children[b], HandleSetTwo(b, c)
      PROVE  version'[n].value >= version[n].value
  <2>1. PICK p \in Nat, q \in Seq(Nat), s \in Nat : Flow(b, c, p, q, s)
    BY DEF LayersInv, Flows
  <2>2. /\ Fits(checkpoints, version[c], p) /\ p <= s /\ s <= taken[b]
        /\ Ladder(checkpoints, downlink[b][c], q, p, s)
    BY <2>1 DEF Flow
  <2>3. /\ c \in LayerTwo /\ downlink[b][c] # <<>> /\ Head(downlink[b][c]) \in HeldVersion
        /\ version' = [version EXCEPT ![c] = Head(downlink[b][c])]
    BY <1>0, <1>5, HandleSetTwoStep
  <2>4. q[1] \in p .. s /\ Fits(checkpoints, Head(downlink[b][c]), q[1])
    BY <2>2, <2>3, LadderTail
  <2>5. p \in 0 .. Len(checkpoints) /\ q[1] \in 0 .. Len(checkpoints) /\ p <= q[1]
    BY <1>0, <2>2, <2>4, PlaceBounds
  <2>6. Val(checkpoints, p) <= Val(checkpoints, q[1])
    BY <1>2, <2>5
  <2>7. CASE n = c
    <3>1. version'[c] = Head(downlink[b][c])
      BY <1>0, <2>3 DEF LayersTypeOK
    <3>2. version[c].value = Val(checkpoints, p)
      BY <2>2, <2>7 DEF Fits
    <3>3. Val(checkpoints, q[1]) \in Int /\ version'[c].value \in Int
          /\ version'[c].from \in {"core", "below"}
      BY <1>0, <2>3, <2>5, <2>7, <3>1, ValInt, IntHalfAssumption DEF HeldVersion, Version
    <3>4. Val(checkpoints, q[1]) <= version'[c].value
      BY <2>4, <3>1, <3>3 DEF Fits
    <3> QED  BY <1>1, <2>6, <2>7, <3>2, <3>3, <3>4
  <2>8. CASE n # c
    BY <1>0, <1>3, <2>3, <2>8 DEF LayersTypeOK
  <2> QED  BY <2>7, <2>8
<1>6. CASE StoreBelow
  <2>1. CASE n = writer.node
    <3>1. version'[n].value = writer.value /\ ~writer.overtaken
      BY <1>0, <1>6, <2>1, StoreBelowStep
    <3>2. version[n].value <= writer.value /\ writer.value \in Int
      BY <1>0, <1>6, <2>1, <3>1, IntHalfAssumption
         DEF Bounded, StoreBelow, LayersTypeOK, Version
    <3> QED  BY <1>1, <3>1, <3>2
  <2>2. CASE n # writer.node
    BY <1>0, <1>3, <1>6, <2>2, StoreBelowStep
  <2> QED  BY <2>1, <2>2
<1>7. version' = version \/ StoreBelow \/ \E b \in LayerOne :
        HandleSetOne(b) \/ \E c \in Children[b] : HandleSetTwo(b, c)
  BY DEF LayersNext, Core, Run, TestRunning, SendSet, CheckRunning, Sleep, Timeout,
         Shutdown, LoadBelow, layerVars, layersVars
<1> QED  BY <1>3, <1>4, <1>5, <1>6, <1>7

\* With writes that only add, no node below the core goes back to a smaller version,
\* whatever Run reads while HandleMsg sets the version (LayerOneNode.cpp:24, 39), but
\* where a write that a file had executed below the core is replaced by a SET or has
\* overtaken one.
THEOREM NeverGoesBack == ASSUME OnlyAdds PROVE LayersSpec => NeverBack
<1> DEFINE Up == \A n \in LayerOne \cup LayerTwo :
                   \/ version'[n].value >= version[n].value
                   \/ version[n].from # "core"
                   \/ version'[n].from = "raced"
<1>1. LayersInv /\ [LayersNext]_layersVars => [Up]_layersVars
  BY StepUp
<1>2. LayersSpec => [][Up]_layersVars
  BY <1>1, InvAlways, PTL DEF LayersSpec
<1> QED  BY <1>2 DEF NeverBack
=============================================================================
