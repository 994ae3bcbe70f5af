-------------------------------- MODULE JitTree --------------------------------
(***************************************************************************)
(* The expression trees of the GPU backends (the cuda backend's code; hip, *)
(* opencl and oneapi differ in names): lazy arrays, the heuristics that    *)
(* bound a tree, the kernel that evaluates one or several trees, and the   *)
(* operations that reshape, shift and index arrays around it.              *)
(*                                                                         *)
(* One client thread on one device, whose stream runs kernels in the order *)
(* they are launched.  Nodes are objects of a heap, because the code       *)
(* shares them between trees and changes some of them; a node lives as     *)
(* long as an array, another node or the call in progress refers to it.    *)
(* Element values are numbers modulo M; the sum stands for every binary    *)
(* operation, and the choice by a condition for select.                    *)
(***************************************************************************)
EXTENDS Integers, Sequences, SequencesExt, FiniteSetsExt

CONSTANTS
    Handles,          \* the arrays of the program
    NodeIds, BufIds,  \* addresses of nodes and of buffers, numbers from 1
    AF_MAX_DIMS, M,
    Shapes,           \* dimensions of the arrays a program makes
    Seqs,             \* the af_seq a program indexes with
    ShiftAmounts,     \* arguments of af_shift
    MaxJitSize, HeightCheckLimit,
    ParamBytes, PointerBytes, UintBytes, ScalarBytes, PaddingBytes, KernelLimit,
    MaxBytes, MaxBuffers,  \* max_bytes and max_buffers of the memory manager
    MaxCalls,         \* API calls a program makes (bound)
    ShareRowShifts    \* a shift of an array with an empty column, such as a
                      \* row, may be used before it is evaluated

Dims == 1 .. AF_MAX_DIMS
None == 0

elements(dims) ==
    LET p[k \in 0 .. AF_MAX_DIMS] == IF k = 0 THEN 1 ELSE p[k - 1] * dims[k] IN p[AF_MAX_DIMS]

calcStrides(dims) ==
    LET s[k \in Dims] == IF k = 1 THEN 1 ELSE s[k - 1] * dims[k - 1] IN [k \in Dims |-> s[k]]

ASSUME JitAssumption ==
    /\ IsFiniteSet(NodeIds) /\ NodeIds = 1 .. Cardinality(NodeIds)
    /\ IsFiniteSet(BufIds) /\ BufIds = 1 .. Cardinality(BufIds) /\ Handles \subseteq BufIds
    /\ M \in Nat \ {0} /\ AF_MAX_DIMS \in Nat \ {0}
    /\ {MaxJitSize, ParamBytes, UintBytes, ScalarBytes, PaddingBytes, KernelLimit} \subseteq Nat
    /\ ScalarBytes <= ParamBytes
    /\ \A s \in Shapes : s \in [Dims -> Nat \ {0}]
    /\ ShareRowShifts \in BOOLEAN
    /\ ShiftAmounts \subseteq [Dims -> Int]
    /\ Seqs \subseteq [begin : Int, end : Int, step : Int]

\* Trees of unary and binary operations too low for the parameters to be
\* counted fit, and so does an operation on evaluated arrays.  A tree of
\* selects of the same height has more leaves.
ASSUME UncheckedTreesFit ==
    /\ (2 ^ (HeightCheckLimit - 1) + 1) * ParamBytes + 4 * UintBytes <= KernelLimit
    /\ 4 * ParamBytes + 4 * UintBytes + PaddingBytes < KernelLimit

VARIABLES
    arr,    \* handle -> Array<T>
    node,   \* the heap of nodes
    data,   \* the buffers in use: their elements
    call,   \* the API call in progress
    calls,  \* API calls made
    val     \* handle -> what a program expects in the array (history)

vars == <<arr, node, data, call, calls, val>>

NoArray == [dims |-> <<>>, strides |-> <<>>, off |-> 0, buf |-> None, node |-> None, data_dims |-> <<>>]
NoNode == [kind |-> "free"]
NoCall == [op |-> "none", ins |-> <<>>, arg |-> <<>>, todo |-> <<>>, node |-> None]

Live(h) == arr[h] # NoArray
isReady(a) == a.node = None

ndims(dims) == Max({1} \cup {k \in Dims : dims[k] # 1})

\* ArrayInfo::isLinear
isLinear(a) ==
    IF ndims(a.dims) = 1 THEN a.strides[1] = 1
    ELSE \A k \in 1 .. ndims(a.dims) : a.strides[k] = calcStrides(a.dims)[k]

Dot(id, strides) ==
    LET s[k \in 0 .. AF_MAX_DIMS] == IF k = 0 THEN 0 ELSE s[k - 1] + id[k] * strides[k] IN s[AF_MAX_DIMS]
\* The index of element j in column-major order, both from 0
Unravel(j, dims) == [k \in Dims |-> (j \div calcStrides(dims)[k]) % dims[k]]
Permute(p, s) == [k \in Dims |-> s[p[k]]]
Identity == [k \in Dims |-> k]

\* An array of n elements, one for each index 0 .. n - 1
Fill(n, Element(_)) == [j \in 1 .. n |-> Element(j - 1)]

\* The elements of an evaluated array, or of a view, in column-major order
Read(D, a) ==
    Fill(elements(a.dims), LAMBDA j : D[a.buf][1 + a.off + Dot(Unravel(j, a.dims), a.strides)])

-----------------------------------------------------------------------------
(***************************************************************************)
(* Trees                                                                   *)
(***************************************************************************)
Children(N, n) == IF N[n].kind = "nary" THEN N[n].children ELSE <<>>

Tree(N, root) ==
    LET T[n \in NodeIds] == {n} \cup UNION {T[c] : c \in ToSet(Children(N, n))} IN T[root]

getHeight(N, n) == IF N[n].kind = "nary" THEN N[n].height ELSE 0

\* Who keeps nodes and buffers alive: arrays, the call in progress, and the
\* node of a shift its buffer node.
Kept(A, N, root) ==
    LET roots == ({A[h].node : h \in Handles} \cup {root}) \ {None}
        nodes == UNION {Tree(N, n) : n \in roots}
    IN nodes \cup {N[n].in : n \in {m \in nodes : N[m].kind = "shift"}}

\* The new state of arrays, nodes and buffers, without what nobody refers to
Settle(A, N, D, root) ==
    LET kept == Kept(A, N, root)
        used == {A[h].buf : h \in Handles} \cup {N[n].buf : n \in {m \in kept : N[m].kind = "buffer"}}
    IN /\ arr' = A
       /\ node' = [n \in NodeIds |-> IF n \in kept THEN N[n] ELSE NoNode]
       /\ data' = [b \in BufIds |-> IF b \in used THEN D[b] ELSE <<>>]

FreeNodes == {n \in NodeIds : node[n] = NoNode}
FreeBufs == {b \in BufIds : data[b] = <<>>}
\* The numbers in S, from the lowest up
Ascending(S) ==
    [i \in 1 .. Cardinality(S) |-> CHOOSE n \in S : Cardinality({m \in S : m <= n}) = i]
FreshNodes == Ascending(FreeNodes)
FreshBufs == Ascending(FreeBufs)

ReadyArray(dims, b) ==
    [dims |-> dims, strides |-> calcStrides(dims), off |-> 0, buf |-> b, node |-> None, data_dims |-> dims]
createNodeArray(dims, n) ==
    [dims |-> dims, strides |-> calcStrides(dims), off |-> 0, buf |-> None, node |-> n, data_dims |-> dims]

ScalarNode(v) == [kind |-> "scalar", value |-> v]
BufferNode(a) == [kind |-> "buffer", buf |-> a.buf, off |-> a.off, dims |-> a.dims, strides |-> a.strides,
                  linear |-> isLinear(a), bytes |-> elements(a.dims)]
ShiftNode(n, shifts) == [kind |-> "shift", in |-> n, shifts |-> shifts]
NaryNode(N, children) ==
    [kind |-> "nary", children |-> children,
     height |-> 1 + Max({getHeight(N, c) : c \in ToSet(children)})]

\* getNode of each operand: its own node, or a new node for its buffer
GetNodes(ins) ==
    LET fresh == FreshNodes IN [i \in 1 .. Len(ins) |-> IF isReady(arr[ins[i]]) THEN fresh[i] ELSE arr[ins[i]].node]
WithBufferNodes(ins) ==
    LET fresh == FreshNodes
        made == {i \in 1 .. Len(ins) : isReady(arr[ins[i]])}
    IN [n \in NodeIds |-> IF \E i \in made : fresh[i] = n
                          THEN BufferNode(arr[ins[CHOOSE i \in made : fresh[i] = n]]) ELSE node[n]]

-----------------------------------------------------------------------------
(***************************************************************************)
(* The kernel of one or several trees                                      *)
(***************************************************************************)

\* Node::isLinear: the node may be read with the index of the output element
NodeIsLinear_IgnoresStrides(r, dims) == r.kind # "shift" /\ (r.kind = "buffer" => r.dims = dims)
NodeIsLinear(r, dims) == r.kind # "shift" /\ (r.kind = "buffer" => r.linear /\ r.dims = dims)

\* compressArray: dimensions of length 1 go behind the others.
compressArray(dims) ==
    Ascending({k \in Dims : dims[k] # 1}) \o Ascending({k \in Dims : dims[k] = 1})

\* emptyColumnsFound
EmptyColumns(dims) ==
    ndims(dims) > Min({AF_MAX_DIMS} \cup {k \in Dims : dims[k] = 1})

\* removeEmptyDimensions works on clones of the nodes.  The clone of a shift
\* node shares the buffer node of the original.
PermuteBuffer(p, r) == [r EXCEPT !.dims = Permute(p, @), !.strides = Permute(p, @)]
removeEmptyDimensions(N, p, nodes) ==
    [n \in NodeIds |->
        IF \E m \in nodes : N[m].kind = "shift" /\ N[m].in = n THEN PermuteBuffer(p, N[n]) ELSE N[n]]

circular_mod(a, b) == IF a < b THEN a ELSE a - b

\* The code of generateBufferOffsets and generateShiftNodeOffsets: a dimension
\* that is shorter than the output's is read at 0.
ReadBuffer(D, r, id) ==
    D[r.buf][1 + r.off + Dot([k \in Dims |-> IF id[k] < r.dims[k] THEN id[k] ELSE 0], r.strides)]
ReadShift(D, r, shifts, id) ==
    ReadBuffer(D, r, [k \in Dims |-> circular_mod(id[k] + shifts[k], r.dims[k])])

Operation(args) ==
    CASE Len(args) = 1 -> args[1]
      [] Len(args) = 2 -> (args[1] + args[2]) % M
      [] Len(args) = 3 -> IF args[1] # 0 THEN args[2] ELSE args[3]

\* What the kernel computes for node n at output element j with index id, from
\* what it has in v for the children
KernelStep(N, D, is_linear, p, j, id, v, n) ==
    LET r == N[n] IN
    CASE r.kind = "scalar" -> r.value
      [] r.kind = "buffer" -> IF is_linear THEN D[r.buf][1 + r.off + j]
                              ELSE ReadBuffer(D, PermuteBuffer(p, r), id)
      [] r.kind = "shift"  -> ReadShift(D, N[r.in], Permute(p, r.shifts), id)
      [] r.kind = "nary"   -> Operation([i \in 1 .. Len(r.children) |-> v[r.children[i]]])
KernelValue(N, D, is_linear, p, root, j, id) ==
    LET v[n \in NodeIds] == KernelStep(N, D, is_linear, p, j, id, v, n) IN v[root]

\* evalNodes: the outputs for the trees of roots, and the heap afterwards
evalNodes(N, D, roots, dims) ==
    LET nodes == UNION {Tree(N, r) : r \in roots}
        is_linear == \A n \in nodes : NodeIsLinear(N[n], dims)
        p == IF ~ is_linear /\ EmptyColumns(dims) THEN compressArray(dims) ELSE Identity
        after == IF p = Identity THEN N ELSE removeEmptyDimensions(N, p, nodes)
    IN [nodes |-> after,
        out |-> [r \in roots |->
                   Fill(elements(dims), LAMBDA j :
                        KernelValue(after, D, is_linear, p, r, j, Permute(p, Unravel(j, dims))))]]

\* The elements array a has, or would have if it were evaluated now
Contents(a) ==
    IF isReady(a) THEN Read(data, a) ELSE evalNodes(node, data, {a.node}, a.dims).out[a.node]

-----------------------------------------------------------------------------
(***************************************************************************)
(* passesJitHeuristics                                                     *)
(***************************************************************************)
BuffersInUse == BufIds \ FreeBufs
lock_bytes == SumFunction([b \in BuffersInUse |-> Len(data[b])])

MemoryPressure == lock_bytes > MaxBytes \/ Cardinality(BuffersInUse) > MaxBuffers

jitTreeExceedsMemoryPressure(bytes) ==
    IF 4 * lock_bytes > MaxBytes THEN 2 * bytes > lock_bytes ELSE 10 * bytes > MaxBytes

\* Over the trees of all roots, a node of two trees twice
SumOverTrees_First(N, roots, size) == SumFunctionOnSet(size, Tree(N, roots[1]))
SumOverTrees(N, roots, size) ==
    SumFunction([i \in 1 .. Len(roots) |-> SumFunctionOnSet(size, Tree(N, roots[i]))])

\* A shift node counts as nothing: it is no buffer, and its getParamBytes is 0.
ParamSize(N) == [n \in NodeIds |-> CASE N[n].kind = "buffer" -> ParamBytes
                                     [] N[n].kind = "scalar" -> ScalarBytes
                                     [] OTHER -> 0]
BufferSize(N) == [n \in NodeIds |-> IF N[n].kind = "buffer" THEN N[n].bytes ELSE 0]

\* The size of the kernel's parameters is tested before the memory, and both
\* only for high trees or under memory pressure.
passesJitHeuristics(N, roots) ==
    LET counted == \/ \E i \in 1 .. Len(roots) : getHeight(N, roots[i]) + 1 >= HeightCheckLimit
                   \/ MemoryPressure
        base_param_size == ParamBytes * Len(roots) + 4 * UintBytes
        max_param_size == KernelLimit - base_param_size - PaddingBytes
    IN IF \E i \in 1 .. Len(roots) : getHeight(N, roots[i]) > MaxJitSize THEN "TreeHeight"
       ELSE IF counted /\ SumOverTrees(N, roots, ParamSize(N)) >= max_param_size THEN "KernelParameterSize"
       ELSE IF counted /\ jitTreeExceedsMemoryPressure(SumOverTrees(N, roots, BufferSize(N)))
       THEN "MemoryPressure" ELSE "Pass"

-----------------------------------------------------------------------------
(***************************************************************************)
(* API calls that return at once                                           *)
(***************************************************************************)
\* There are enough nodes and buffers for a call (bounds of the model).
Room(nodes, bufs) == Cardinality(FreeNodes) >= nodes /\ Cardinality(FreeBufs) >= bufs

Replace(h, a, v) == val' = [val EXCEPT ![h] = v] /\ Settle([arr EXCEPT ![h] = a], node, data, None)

\* The elements of host data: all different from a shifted or reversed copy
HostData(n) == Fill(n, LAMBDA j : IF j = 0 THEN 1 % M ELSE 0)

createHostDataArray(h, dims) ==
    /\ Room(0, 1)
    /\ LET D == [data EXCEPT ![FreshBufs[1]] = HostData(elements(dims))]
       IN Settle([arr EXCEPT ![h] = ReadyArray(dims, FreshBufs[1])], node, D, None)
    /\ val' = [val EXCEPT ![h] = HostData(elements(dims))]
    /\ UNCHANGED call

createValueArray(h, dims) ==
    /\ Room(1, 0)
    /\ Settle([arr EXCEPT ![h] = createNodeArray(dims, FreshNodes[1])],
              [node EXCEPT ![FreshNodes[1]] = ScalarNode(1 % M)], data, None)
    /\ val' = [val EXCEPT ![h] = Fill(elements(dims), LAMBDA j : 1 % M)]
    /\ UNCHANGED call

\* af_retain_array: the handles share the node, or the buffer
retainHandle(out, in) ==
    /\ Live(in) /\ out # in
    /\ Replace(out, arr[in], val[in])
    /\ UNCHANGED call

release(h) ==
    /\ Live(h)
    /\ Replace(h, NoArray, <<>>)
    /\ UNCHANGED call

\* Arrays of hs that are not ready are evaluated by one kernel.
Evaluate(hs) ==
    LET pending == {h \in hs : ~ isReady(arr[h])}
        e == evalNodes(node, data, {arr[h].node : h \in pending}, arr[CHOOSE h \in hs : TRUE].dims)
        ps == SetToSeq(pending)
        buf == [i \in 1 .. Len(ps) |-> FreshBufs[i]]
    IN [arr |-> [h \in Handles |-> IF h \in pending
                   THEN ReadyArray(arr[h].dims, buf[CHOOSE i \in 1 .. Len(ps) : ps[i] = h])
                   ELSE arr[h]],
        node |-> e.nodes,
        data |-> [b \in BufIds |-> IF \E i \in 1 .. Len(ps) : buf[i] = b
                   THEN e.out[arr[ps[CHOOSE i \in 1 .. Len(ps) : buf[i] = b]].node] ELSE data[b]]]

\* af_eval and af_eval_multiple of different arrays of one shape
evalMultiple(hs) ==
    /\ Room(0, Cardinality(hs))
    /\ \A g, h \in hs : Live(g) /\ arr[g].dims = arr[h].dims
    /\ \E h \in hs : ~ isReady(arr[h])
    /\ LET e == Evaluate(hs) IN Settle(e.arr, e.node, e.data, None)
    /\ UNCHANGED <<call, val>>

\* copyArray: a new buffer; what was not evaluated stays so.
copyArray(out, in) ==
    /\ Live(in) /\ Room(0, 1)
    /\ LET a == arr[in]
           N == IF isReady(a) THEN node ELSE evalNodes(node, data, {a.node}, a.dims).nodes
       IN Settle([arr EXCEPT ![out] = ReadyArray(a.dims, FreshBufs[1])], N,
                 [data EXCEPT ![FreshBufs[1]] = Contents(a)], None)
    /\ val' = [val EXCEPT ![out] = val[in]]
    /\ UNCHANGED call

\* modDims of an evaluated array: the buffer is shared, unless it has gaps.
modDims(h, dims) ==
    /\ Live(h) /\ isReady(arr[h]) /\ Room(0, 1)
    /\ elements(arr[h].dims) = elements(dims) /\ arr[h].dims # dims
    /\ \/ /\ isLinear(arr[h])
          /\ Settle([arr EXCEPT ![h] = [@ EXCEPT !.dims = dims, !.data_dims = dims,
                                                 !.strides = calcStrides(dims)]],
                    node, data, None)
       \/ /\ ~ isLinear(arr[h])
          /\ Settle([arr EXCEPT ![h] = ReadyArray(dims, FreshBufs[1])], node,
                    [data EXCEPT ![FreshBufs[1]] = Contents(arr[h])], None)
    /\ UNCHANGED <<call, val>>

-----------------------------------------------------------------------------
(***************************************************************************)
(* API calls that may evaluate their operands                              *)
(***************************************************************************)
\* The result takes the place of the first operand, as in a = a + b; a program
\* that goes on with the operand retains it first.
Begin(op, ins, arg, todo) ==
    /\ \A i \in 1 .. Len(ins) : Live(ins[i])
    /\ Room(Len(ins) + 1, Cardinality(Handles) + 2)
    /\ call' = [op |-> op, ins |-> ins, arg |-> arg, todo |-> todo, node |-> None]
    /\ UNCHANGED <<arr, node, data, val>>

SameDims(ins) == \A i \in 1 .. Len(ins) : Live(ins[i]) /\ arr[ins[i]].dims = arr[ins[1]].dims

\* common::tile of dimensions of length 1: a unary node with more elements
tile(in, dims) ==
    /\ Live(in) /\ arr[in].dims # dims
    /\ \A k \in Dims : arr[in].dims[k] \in {1, dims[k]}
    /\ Begin("nary", <<in>>, dims, <<>>)
binaryOp(l, r) == SameDims(<<l, r>>) /\ Begin("nary", <<l, r>>, arr[l].dims, <<>>)
select(c, a, b) == SameDims(<<c, a, b>>) /\ Begin("select", <<c, a, b>>, arr[c].dims, <<>>)
shift(in, sdims) == Begin("shift", <<in>>, sdims, <<in>>)
index(in, seqs) == Begin("index", <<in>>, seqs, <<in>>)

\* What copyModdims copies: a node once for every path to it.  The copies are
\* numbered: the root is 0, and child i of copy c is kMaxChildren * c + i.
kMaxChildren == 3
Copies(N, root) ==
    LET level[k \in 0 .. getHeight(N, root)] ==
          IF k = 0 THEN {<<0, root>>}
          ELSE UNION {{<<kMaxChildren * e[1] + i, Children(N, e[2])[i]>> : i \in 1 .. Len(Children(N, e[2]))} :
                      e \in level[k - 1]}
    IN UNION {level[k] : k \in 0 .. getHeight(N, root)}

\* moddimOp evaluates a tree that has a node which is not linear.
moddimOp(in, dims) ==
    /\ Live(in) /\ ~ isReady(arr[in])
    /\ elements(arr[in].dims) = elements(dims) /\ arr[in].dims # dims
    /\ Room(1 + Cardinality(Copies(node, arr[in].node)), 0)
    /\ Begin("moddims", <<in>>, dims,
             IF \A n \in Tree(node, arr[in].node) : NodeIsLinear(node[n], arr[in].dims) THEN <<>> ELSE <<in>>)

\* The next operand to evaluate, if it is not ready
EvalOperand ==
    /\ call.todo # <<>>
    /\ call' = [call EXCEPT !.todo = Tail(@)]
    /\ LET h == Head(call.todo)
           e == Evaluate({h})
       IN IF isReady(arr[h]) THEN UNCHANGED <<arr, node, data>>
          ELSE Settle(e.arr, e.node, e.data, call.node)
    /\ UNCHANGED val

Executing(op) == call.op = op /\ call.todo = <<>> /\ call.node = None

\* What the program does after a call that made array out: it goes on, or
\* evaluates the shift of a row at once, which is what keeps the nodes that
\* removeEmptyDimensions shares between clones out of reach.
NextCall(out, evaluate) ==
    IF evaluate THEN [NoCall EXCEPT !.op = "eval", !.todo = <<out>>] ELSE NoCall

Finish(a, N, D, v) ==
    /\ Settle([arr EXCEPT ![Head(call.ins)] = a], N, D, None)
    /\ val' = [val EXCEPT ![Head(call.ins)] = v]

FinishEval == Executing("eval") /\ call' = NoCall /\ UNCHANGED <<arr, node, data, val>>

\* The operand createNaryNode evaluates: the first of the tallest
Tallest_First(N, nodes) == 1
Tallest(N, nodes) ==
    LET top == Max({getHeight(N, nodes[i]) : i \in 1 .. Len(nodes)})
    IN Min({i \in 1 .. Len(nodes) : getHeight(N, nodes[i]) = top})

\* The operand createSelectNode evaluates
SelectVictim(N, nodes) ==
    LET height(i) == getHeight(N, nodes[i])
    IN IF height(2) > Max({height(3), height(1)}) THEN 2
       ELSE IF height(3) > height(1) THEN 3 ELSE 1

OperationOn(ins, dims) ==
    Fill(elements(dims), LAMBDA j :
         Operation([i \in 1 .. Len(ins) |->
            LET d == arr[ins[i]].dims IN
            val[ins[i]][1 + Dot([k \in Dims |-> IF d[k] = 1 THEN 0 ELSE Unravel(j, dims)[k]], calcStrides(d))]]))

\* createNaryNode.  Under memory pressure the operands are evaluated, but the
\* node that is returned was built on their trees.
createNaryNode ==
    /\ Executing("nary")
    /\ LET nodes == GetNodes(call.ins)
           ptr == FreshNodes[Len(call.ins) + 1]
           N == WithBufferNodes(call.ins)
           N1 == [N EXCEPT ![ptr] = NaryNode(N, nodes)]
           result == passesJitHeuristics(N, nodes)
       IN \/ /\ result = "Pass"
             /\ Finish(createNodeArray(call.arg, ptr), N1, data, OperationOn(call.ins, call.arg))
             /\ call' = NoCall
          \/ /\ result \in {"TreeHeight", "KernelParameterSize"}
             /\ call' = [call EXCEPT !.todo = <<call.ins[Tallest(N, nodes)]>>]
             /\ UNCHANGED <<arr, node, data, val>>
          \/ /\ result = "MemoryPressure"
             /\ call' = [call EXCEPT !.todo = call.ins, !.node = ptr]
             /\ Settle(arr, N1, data, ptr)
             /\ UNCHANGED val

ReturnOldNode ==
    /\ call.op = "nary" /\ call.todo = <<>> /\ call.node # None
    /\ Finish(createNodeArray(call.arg, call.node), node, data, OperationOn(call.ins, call.arg))
    /\ call' = NoCall

createSelectNode ==
    /\ Executing("select")
    /\ LET nodes == GetNodes(call.ins)
           ptr == FreshNodes[4]
           N == WithBufferNodes(call.ins)
           N1 == [N EXCEPT ![ptr] = NaryNode(N, nodes)]
       IN \/ /\ passesJitHeuristics(N1, <<ptr>>) = "Pass"
             /\ Finish(createNodeArray(call.arg, ptr), N1, data, OperationOn(call.ins, call.arg))
             /\ call' = NoCall
          \/ /\ passesJitHeuristics(N1, <<ptr>>) # "Pass"
             /\ call' = [call EXCEPT !.todo = <<call.ins[SelectVictim(N, nodes)]>>]
             /\ UNCHANGED <<arr, node, data, val>>

\* The remainder of C++ has the sign of its left operand.
Rem(a, b) == IF a >= 0 THEN a % b ELSE - ((- a) % b)
Shifts_Signed(sdims, dims) == [k \in Dims |-> - Rem(sdims[k], dims[k])]
Shifts(sdims, dims) ==
    [k \in Dims |-> - Rem(sdims[k], dims[k]) + dims[k] * (IF sdims[k] > 0 THEN 1 ELSE 0)]

Shifted(v, dims, sdims) ==
    Fill(elements(dims), LAMBDA j :
         v[1 + Dot([k \in Dims |-> (Unravel(j, dims)[k] - sdims[k]) % dims[k]], calcStrides(dims))])

createShiftNode ==
    /\ Executing("shift")
    /\ LET in == call.ins[1]
           N == WithBufferNodes(<<in>>)
           dims == arr[in].dims
           s == FreshNodes[2]
       IN /\ Finish(createNodeArray(dims, s),
                    [N EXCEPT ![s] = ShiftNode(FreshNodes[1], Shifts(call.arg, dims))],
                    data, Shifted(val[in], dims, call.arg))
          /\ call' = NextCall(Head(call.ins), EmptyColumns(dims) /\ ~ ShareRowShifts)

\* moddimOp on a tree that is linear, or on the buffer it was evaluated to
copyModdims(N, root, dims, fresh) ==
    LET copies == Copies(N, root)
        Id(c) == fresh[Cardinality({e \in copies : e[1] <= c})]
        Clone(e) ==
          LET r == N[e[2]] IN
          CASE r.kind = "nary" ->
                 [r EXCEPT !.children = [i \in 1 .. Len(@) |-> Id(kMaxChildren * e[1] + i)]]
            [] r.kind = "buffer" -> [r EXCEPT !.dims = dims, !.strides = calcStrides(dims)]
            [] OTHER -> r
    IN [root |-> Id(0),
        nodes |-> [n \in NodeIds |-> IF \E e \in copies : Id(e[1]) = n
                                     THEN Clone(CHOOSE e \in copies : Id(e[1]) = n) ELSE N[n]]]

createModdimNode ==
    /\ Executing("moddims")
    /\ LET in == call.ins[1]
           N == WithBufferNodes(<<in>>)
           fresh == SubSeq(FreshNodes, 2, Len(FreshNodes))
           c == copyModdims(N, GetNodes(<<in>>)[1], call.arg, fresh)
       IN Finish(createNodeArray(call.arg, c.root), c.nodes, data, val[in])
    /\ call' = NoCall

\* af_seq: begin, end and step; {1, 1, 0} is the whole dimension.
isSpan(s) == s = [begin |-> 1, end |-> 1, step |-> 0]
calcDim(s, len) ==
    CASE isSpan(s)  -> len
      [] s.step > 0 -> 1 + (s.end - s.begin) \div s.step
      [] s.step < 0 -> 1 + (s.begin - s.end) \div (- s.step)
      [] OTHER      -> -1   \* the largest size_t, converted to dim_t
toDims(seqs, dims) == [k \in Dims |-> calcDim(seqs[k], dims[k])]
toOffset(seqs) == [k \in Dims |-> IF seqs[k].step # 0 THEN seqs[k].begin ELSE 0]
toStride(seqs, dims) == [k \in Dims |-> calcStrides(dims)[k] * (IF seqs[k].step # 0 THEN seqs[k].step ELSE 1)]

Indexed(v, dims, seqs) ==
    LET odims == toDims(seqs, dims)
        Along(k, i) == IF isSpan(seqs[k]) THEN i ELSE seqs[k].begin + i * seqs[k].step
    IN Fill(elements(odims), LAMBDA j :
            v[1 + Dot([k \in Dims |-> Along(k, Unravel(j, odims)[k])], calcStrides(dims))])

\* createSubArray: a view of the parent's buffer; of a copy if the parent has
\* gaps, and copied if it runs backwards or leaves out elements of a column.
createSubArray ==
    /\ Executing("index")
    /\ LET in == arr[call.ins[1]]
           seqs == call.arg
           b1 == FreshBufs[1]
           b2 == FreshBufs[2]
           parent == IF isLinear(in) THEN in ELSE ReadyArray(in.dims, b1)
           D1 == IF isLinear(in) THEN data ELSE [data EXCEPT ![b1] = Read(data, in)]
           view == [dims |-> toDims(seqs, parent.dims), strides |-> toStride(seqs, parent.data_dims),
                    off |-> parent.off + Dot(toOffset(seqs), parent.strides),
                    buf |-> parent.buf, node |-> None, data_dims |-> parent.data_dims]
           v == Indexed(val[call.ins[1]], in.dims, seqs)
       IN \/ /\ view.strides[1] = 1 /\ \A k \in Dims : view.strides[k] >= 0
             /\ Finish(view, node, D1, v)
          \/ /\ view.strides[1] # 1 \/ \E k \in Dims : view.strides[k] < 0
             /\ Finish(ReadyArray(view.dims, b2), node, [D1 EXCEPT ![b2] = Read(D1, view)], v)
    /\ call' = NoCall

-----------------------------------------------------------------------------
\* The program has filled its arrays from host data.
Init ==
    /\ \E dims \in Shapes :
         /\ arr = [h \in Handles |-> ReadyArray(dims, h)]
         /\ val = [h \in Handles |-> HostData(elements(dims))]
    /\ data = [b \in BufIds |-> IF b \in Handles THEN val[b] ELSE <<>>]
    /\ node = [n \in NodeIds |-> NoNode]
    /\ call = NoCall /\ calls = 0

\* The client calls when its last call has returned; in a call the code goes on.
Call ==
    \/ \E h \in Handles, s \in Shapes :
         createHostDataArray(h, s) \/ createValueArray(h, s) \/ modDims(h, s) \/ moddimOp(h, s) \/ tile(h, s)
    \/ \E hs \in SUBSET Handles \ {{}} : evalMultiple(hs)
    \/ \E h \in Handles :
         \/ release(h)
         \/ \E g \in Handles : retainHandle(g, h) \/ copyArray(g, h) \/ binaryOp(h, g)
         \/ \E g, k \in Handles : select(h, g, k)
         \/ \E a \in ShiftAmounts : shift(h, a)
         \* toDims does not refuse a dimension of -1, but no program wants it.
         \/ \E seqs \in [Dims -> Seqs] :
              /\ Live(h)
              /\ \A k \in Dims : isSpan(seqs[k]) \/ {seqs[k].begin, seqs[k].end} \subseteq 0 .. arr[h].dims[k] - 1
              /\ toDims(seqs, arr[h].dims) \in Shapes
              /\ index(h, seqs)

Step ==
    \/ EvalOperand \/ FinishEval
    \/ createNaryNode \/ ReturnOldNode \/ createSelectNode
    \/ createShiftNode \/ createModdimNode \/ createSubArray

Running == Step /\ UNCHANGED calls

Next ==
    \/ call = NoCall /\ calls < MaxCalls /\ calls' = calls + 1 /\ Call
    \/ Running

Spec == Init /\ [][Next]_vars

-----------------------------------------------------------------------------
(***************************************************************************)
(* Properties                                                              *)
(***************************************************************************)
Ops == {"none", "eval", "nary", "select", "shift", "moddims", "index"}

\* Type correctness; a shift is between 0 and the dimension ("assert(shifts[i]
\* >= 0 && shifts[i] <= oDims[i])").
TypeOK ==
    /\ \A h \in Handles : Live(h) =>
         /\ arr[h].dims \in Shapes /\ arr[h].off \in Nat
         /\ arr[h].strides \in [Dims -> Nat]
         /\ IF isReady(arr[h]) THEN arr[h].buf \in BuffersInUse
            ELSE arr[h].buf = None /\ node[arr[h].node] # NoNode
    /\ \A n \in NodeIds :
         CASE node[n].kind = "buffer" -> node[n].buf \in BuffersInUse /\ node[n].dims \in [Dims -> Nat \ {0}]
           [] node[n].kind = "shift" -> /\ node[node[n].in].kind = "buffer"
                                        /\ \A k \in Dims : node[n].shifts[k] >= 0
           [] node[n].kind = "nary" -> \A c \in ToSet(node[n].children) : node[c] # NoNode
           [] OTHER -> node[n] = NoNode \/ node[n].value \in 0 .. M - 1
    /\ data \in [BufIds -> Seq(0 .. M - 1)]
    /\ call.op \in Ops /\ call.todo \in Seq(Handles)

\* However arrays share nodes and buffers, whatever was evaluated first,
\* alone or with others, with a linear kernel or with a strided one: an array
\* has the elements of the operations that made it.
ValueSemantics ==
    \A h \in Handles : Live(h) => Contents(arr[h]) = val[h]

\* The parameters of the kernel that evaluates one array: a Param for every
\* buffer, or the pointer alone if all are read with the index of the output,
\* its scalars, the Param of the output and four integers
KernelParams(a) ==
    LET nodes == Tree(node, a.node)
        is_linear == \A n \in nodes : NodeIsLinear(node[n], a.dims)
        buffers == {node[n] : n \in {m \in nodes : node[m].kind = "buffer"}}
        scalars == {n \in nodes : node[n].kind = "scalar"}
    IN Cardinality(buffers) * (IF is_linear THEN PointerBytes ELSE ParamBytes)
         + Cardinality(scalars) * ScalarBytes + ParamBytes + 4 * UintBytes

\* No array is left with a tree whose kernel exceeds the parameters of the
\* platform (passesJitHeuristics "will return true if the newly created node
\* will generate a valid kernel").  Shift nodes are left out, as they are in
\* the code.
KernelParamsFit ==
    \A h \in Handles : Live(h) /\ ~ isReady(arr[h]) => KernelParams(arr[h]) <= KernelLimit

\* createNaryNode and createSelectNode try again after they have evaluated an
\* operand.  Every retry evaluates one that was not, so that they return; but
\* for a select of arrays and constants that is refused for the memory it
\* takes, which evaluates its condition again and again.
RetriesEvaluate ==
    (call.op \in {"nary", "select"} /\ call.node = None /\ call.todo # <<>>) =>
        \/ ~ isReady(arr[Head(call.todo)])
        \/ /\ call.op = "select"
           /\ \A h \in ToSet(call.ins) : isReady(arr[h]) \/ getHeight(node, arr[h].node) = 0

=============================================================================
