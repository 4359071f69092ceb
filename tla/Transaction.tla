---------------------------- MODULE Transaction ----------------------------
(***************************************************************************)
(* The replicated value and the operations on it: class Transaction in     *)
(* src/src/transactions, applied by Node::ExecuteTransaction.              *)
(***************************************************************************)
EXTENDS Integers

CONSTANT IntHalf    \* 2^(w-1) for ints of w bits; 2^31 in the program

ASSUME IntHalfAssumption == IntHalf \in Nat \ {0}

Version == -IntHalf .. IntHalf - 1

\* Mutant: the result is wider than an int.
WrapNever(x) == x

\* An int result on the build's target, two's complement: signed overflow is
\* undefined in C++ and wraps with the compiler the project supports.
Wrap(x) == ((x + IntHalf) % (2 * IntHalf)) - IntHalf

\* The types of the transactions that change the value.
WriteType == {"SUM", "SUBSTRACT", "MULTIPLY", "SET"}

\* Node::ExecuteTransaction: the version after t has been executed on v.
ExecuteTransaction(t, v) ==
    CASE t.type = "SUM"       -> Wrap(v + t.value)
      [] t.type = "SUBSTRACT" -> Wrap(v - t.value)
      [] t.type = "MULTIPLY"  -> Wrap(v * t.value)
      [] t.type = "SET"       -> t.value
      [] OTHER                -> v
=============================================================================
