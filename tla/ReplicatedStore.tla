-------------------------- MODULE ReplicatedStore --------------------------
(***************************************************************************)
(* What the core layer promises: its nodes are one store.  A write changes *)
(* one value at one instant; every UPDATE_COUNT writes the value becomes   *)
(* the next checkpoint; every node passes the same checkpoints, in the     *)
(* same order and all of them before the next write, to the layer below.   *)
(***************************************************************************)
EXTENDS Transaction, Sequences

CONSTANTS Node, UPDATE_COUNT, Writes

VARIABLES
    value,          \* the value of the store
    uncounted,      \* writes since the last checkpoint
    checkpoints,    \* the value after every UPDATE_COUNT writes
    stream          \* stream[n]: what node n has sent to the layer below

storeVars == <<value, uncounted, checkpoints, stream>>

StoreInit ==
    /\ value = 0
    /\ uncounted = 0
    /\ checkpoints = <<>>
    /\ stream = [n \in Node |-> <<>>]

Write(t) ==
    /\ \A n \in Node : stream[n] = checkpoints
    /\ value' = ExecuteTransaction(t, value)
    /\ IF uncounted + 1 = UPDATE_COUNT
       THEN /\ uncounted' = 0
            /\ checkpoints' = Append(checkpoints, value')
       ELSE /\ uncounted' = uncounted + 1
            /\ UNCHANGED checkpoints
    /\ UNCHANGED stream

Forward(n) ==
    /\ stream[n] # checkpoints
    /\ stream' = [stream EXCEPT ![n] = Append(@, checkpoints[Len(@) + 1])]
    /\ UNCHANGED <<value, uncounted, checkpoints>>

StoreNext ==
    \/ \E t \in Writes : Write(t)
    \/ \E n \in Node : Forward(n)

StoreSpec == StoreInit /\ [][StoreNext]_storeVars
=============================================================================
