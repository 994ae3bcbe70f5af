------------------------------- MODULE MCJitTree -------------------------------
(***************************************************************************)
(* Instances of JitTree for TLC.  The shapes are a row, a column and a     *)
(* square: a row has an empty column in front, a row of the square is a    *)
(* view with gaps, and the elements of the host data (1, then 0) tell an   *)
(* index that is off by one, transposed or turned round from the right one.*)
(***************************************************************************)
EXTENDS JitTree

RowColumnSquare == {<<1, 2>>, <<2, 1>>, <<2, 2>>}

Span         == [begin |-> 1, end |-> 1, step |-> 0]
LastSeq      == [begin |-> 1, end |-> 1, step |-> 1]
BackwardsSeq == [begin |-> 1, end |-> 0, step |-> -1]
AllSeqs == {Span, LastSeq, BackwardsSeq}

\* One step forward in the first dimension and backward in the second
BothWays == {<<1, -1>>}

RowSquare == {<<1, 2>>, <<2, 2>>}
OneSeq == {Span, LastSeq}
NoShifts == {}

(***************************************************************************)
(* A program that makes a row of a square, a view with gaps, and combines  *)
(* it with other rows by sums and selects of different arrays, operands in *)
(* ascending order.  Its behaviours are behaviours of JitTree.             *)
(***************************************************************************)
LastHandle == CHOOSE h \in Handles : \A g \in Handles : g <= h

RowThenCombine ==
    call = NoCall =>
        \/ calls = 0 /\ createHostDataArray(LastHandle, <<2, 2>>)
        \/ calls = 1 /\ index(LastHandle, <<LastSeq, Span>>)
        \/ /\ calls > 1
           /\ call'.op \in {"nary", "select"}
           /\ \A i, j \in 1 .. Len(call'.ins) : i < j => call'.ins[i] < call'.ins[j]

CombiningSpec == Init /\ [][Next /\ RowThenCombine]_vars

(***************************************************************************)
(* A program that adds an array of one constant to itself three times and  *)
(* reshapes the sum, which is one node of a constant and three of sums     *)
(* before and eight and seven after.                                       *)
(***************************************************************************)
DoubleThenReshape ==
    call = NoCall =>
        \/ calls = 0 /\ createValueArray(LastHandle, <<1, 2>>)
        \/ calls \in 1 .. 3 /\ binaryOp(LastHandle, LastHandle)
        \/ calls = 4 /\ moddimOp(LastHandle, <<2, 1>>)

DoublingSpec == Init /\ [][Next /\ DoubleThenReshape]_vars

================================================================================
