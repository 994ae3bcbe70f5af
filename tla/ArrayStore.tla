------------------------------ MODULE ArrayStore ------------------------------
(***************************************************************************)
(* Arrays of the cpu backend as one client thread uses them: handles that  *)
(* share buffers, lazy JIT expressions, copy on write, and the worker      *)
(* thread that runs the queued kernels behind the client's back.           *)
(*                                                                         *)
(* An array is one-dimensional.  It is either ready, a view of a buffer,   *)
(* or an unevaluated expression: a sum of buffer views and scalars.  The   *)
(* sum stands for every JIT operation; it is taken modulo M so that values *)
(* stay finite.                                                            *)
(*                                                                         *)
(* A call of the client is a list `todo` of the steps that the code takes  *)
(* one after the other; the worker runs between any two of them.           *)
(***************************************************************************)
EXTENDS Integers, Sequences, FiniteSets, SequencesExt

CONSTANTS
    Handles,      \* the af_array handles of the client
    Tmp,          \* the local Array<T> of an assignment
    Bufs,         \* device buffers
    NoBuf,
    M,            \* values are 0 .. M-1
    Size,         \* elements of an array that is not a sub-array
    HostData,     \* the contents the client passes in
    ScalarData,   \* the values it fills arrays with
    Masks,        \* the conditions of af_replace: the elements that stay
    MaxHeight,    \* bound: the client combines no higher expressions
    SyncEvery,    \* enqueue() waits for the queue at this count, 25 in the code
    Pressures,    \* outcomes of getMemoryPressure() >= threshold
    CallBufs,     \* buffers left when a call starts: running out is MemoryManager's
    DeviceWrites, \* the client calls af_write_array with afDevice
    CAssigns      \* the client calls af_assign_seq with an out of its own

ASSUME StoreAssumption ==
    /\ M \in Nat \ {0} /\ Size \in Nat \ {0} /\ MaxHeight \in Nat
    /\ SyncEvery \in Nat \ {0} /\ CallBufs \in Nat
    /\ Pressures \subseteq BOOLEAN
    /\ HostData \subseteq [0 .. Size - 1 -> 0 .. M - 1]
    /\ ScalarData \subseteq 0 .. M - 1
    /\ Masks \subseteq SUBSET (0 .. Size - 1)
    /\ NoBuf \notin Bufs /\ Tmp \notin Handles
    /\ DeviceWrites \in BOOLEAN /\ CAssigns \in BOOLEAN

VARIABLES
    arr,    \* handle -> Array<T>
    mem,    \* buffer -> contents
    queue,  \* the kernels that have been enqueued and have not run
    count,  \* queue::count
    todo,   \* the steps left of the client's call
    val,    \* what each array must hold: the client's view (history variable)
    seen    \* every read so far returned what val says (history variable)

vars == <<arr, mem, queue, count, todo, val, seen>>

Values == 0 .. M - 1
Cells == 0 .. Size - 1

(***************************************************************************)
(* Array<T>: data, offset, elements, owner and the JIT node.  An array     *)
(* without terms is ready; one with len = 0 is an empty handle.            *)
(***************************************************************************)
NoArray == [buf |-> NoBuf, off |-> 0, len |-> 0, owner |-> TRUE,
            terms |-> <<>>, height |-> 0]

Scalar(v) == [buf |-> NoBuf, off |-> 0, val |-> v]
BufferNode(b, o) == [buf |-> b, off |-> o, val |-> 0]

Names == Handles \cup {Tmp}
Live(h) == arr[h].len > 0
Ready(h) == arr[h].terms = <<>>
Empty(h) == ~ Live(h)

GetNode(h) ==
    IF Ready(h) THEN <<BufferNode(arr[h].buf, arr[h].off)>> ELSE arr[h].terms

Mentions(terms, b) == \E i \in DOMAIN terms : terms[i].buf = b

(***************************************************************************)
(* shared_ptr counts.  Arrays and the buffer nodes of expressions own a    *)
(* buffer, also from inside an evaluation that waits in the queue.  The    *)
(* Params of the other kernels do not.                                     *)
(***************************************************************************)
HeldByQueue(b) == \E i \in DOMAIN queue : queue[i].owns /\ Mentions(queue[i].terms, b)
HeldByArray(h, b) == arr[h].buf = b \/ Mentions(arr[h].terms, b)

FreeBufs == {b \in Bufs : ~ HeldByQueue(b) /\ \A h \in Names : ~ HeldByArray(h, b)}

SharedWithArrays(h) == Ready(h) /\ \E g \in Names \ {h} : HeldByArray(g, arr[h].buf)

\* useCount() > 1 seen by a handle that counts itself
Shared(h) == SharedWithArrays(h) \/ (Ready(h) /\ HeldByQueue(arr[h].buf))

(***************************************************************************)
(* What a kernel computes.                                                 *)
(***************************************************************************)
At(m, t, i) == IF t.buf = NoBuf THEN t.val ELSE m[t.buf][t.off + i]
Calc(m, terms, i) == FoldLeft(LAMBDA sum, t : (sum + At(m, t, i)) % M, 0, terms)

RunTask(m, task) ==
    [m EXCEPT ![task.dst] =
        [c \in Cells |-> IF (c - task.off) \in task.cells
                         THEN Calc(m, task.terms, c - task.off) ELSE @[c]]]

Drained == FoldLeft(RunTask, mem, queue)

Data(m, h) == [i \in 0 .. arr[h].len - 1 |->
                 IF Ready(h) THEN m[arr[h].buf][arr[h].off + i]
                 ELSE Calc(m, arr[h].terms, i)]

-----------------------------------------------------------------------------
(***************************************************************************)
(* Steps.  `Do' runs the step at the head of the list.                     *)
(***************************************************************************)
Do(op) == todo # <<>> /\ Head(todo).op = op
Cur == Head(todo)
Skip == /\ todo' = Tail(todo)
        /\ UNCHANGED <<arr, mem, queue, count>>

On(op, h) == [op |-> op, x |-> h]
SyncStep == [op |-> "sync"]

\* queue::enqueue, with the steps that follow it
Enqueue_NoSync(task, next) ==
    /\ queue' = Append(queue, task)
    /\ count' = IF count + 1 >= SyncEvery THEN 0 ELSE count + 1
    /\ todo' = next
Enqueue(task, next) ==
    /\ queue' = Append(queue, task)
    /\ count' = count + 1
    /\ \E pressure \in Pressures :
         todo' = (IF pressure \/ count + 1 >= SyncEvery THEN <<SyncStep>> ELSE <<>>) \o next

\* queue::sync
Sync ==
    /\ Do("sync")
    /\ queue = <<>>
    /\ count' = 0
    /\ todo' = Tail(todo)
    /\ UNCHANGED <<arr, mem, queue, val, seen>>

\* evalMultiple on one array; the queued task keeps the nodes alive
Evaluate(h, b) ==
    /\ arr' = [arr EXCEPT ![h].buf = b, ![h].terms = <<>>, ![h].height = 0]
    /\ Enqueue([dst |-> b, off |-> 0, cells |-> 0 .. arr[h].len - 1,
                terms |-> arr[h].terms, owns |-> TRUE], Tail(todo))

Eval ==
    /\ Do("eval")
    /\ \/ Ready(Cur.x) /\ Skip
       \/ ~ Ready(Cur.x) /\ (\E b \in FreeBufs : Evaluate(Cur.x, b)) /\ UNCHANGED mem
    /\ UNCHANGED <<val, seen>>

\* copyArray of a ready array h into the handle g, which may be h itself
CopyInto(h, g) ==
    \E b \in FreeBufs :
        /\ arr' = [arr EXCEPT ![g] = [NoArray EXCEPT !.buf = b, !.len = arr[h].len]]
        /\ Enqueue([dst |-> b, off |-> 0, cells |-> 0 .. arr[h].len - 1,
                    terms |-> GetNode(h), owns |-> FALSE], Tail(todo))
        /\ UNCHANGED mem

Copy ==
    /\ Do("copy")
    /\ CopyInto(Cur.x, Cur.y)
    /\ UNCHANGED <<val, seen>>

CopyWhen(condition) ==
    /\ \/ condition /\ CopyInto(Cur.x, Cur.x)
       \/ ~ condition /\ Skip
    /\ UNCHANGED <<val, seen>>

\* af_assign_*: af_get_data_ref_count > 1;  getCopyOnWriteArray: useCount() > 1
WriteNeedsCopy_ByOwner(h) == ~ arr[h].owner
WriteNeedsCopy(h) == Shared(h)
CopyOnWrite == Do("cow") /\ CopyWhen(WriteNeedsCopy(Cur.x))

\* writeHostDataArray, writeDeviceDataArray
OverwriteNeedsCopy(h) == ~ arr[h].owner
CopyNotOwned == Do("own") /\ CopyWhen(OverwriteNeedsCopy(Cur.x))

\* Array<T>::device()
DeviceNeedsCopy(h) == ~ arr[h].owner \/ arr[h].off # 0 \/ Shared(h)
CopyForDevice == Do("device") /\ CopyWhen(DeviceNeedsCopy(Cur.x))

\* copyArray(dst, in) and select: only raw pointers go into the queue
Write ==
    /\ Do("write")
    /\ Enqueue([dst |-> arr[Cur.x].buf, off |-> arr[Cur.x].off + Cur.off,
                cells |-> Cur.cells, terms |-> GetNode(Cur.y), owns |-> FALSE],
               Tail(todo))
    /\ UNCHANGED <<arr, mem, val, seen>>

\* The host writes all elements of an array; nothing is enqueued.
HostCopy ==
    /\ Do("memcpy")
    /\ LET a == arr[Cur.x] IN
         mem' = [mem EXCEPT ![a.buf] =
                   [c \in Cells |-> IF c - a.off \in 0 .. a.len - 1
                                    THEN Cur.data[c - a.off] ELSE @[c]]]
    /\ todo' = Tail(todo)
    /\ UNCHANGED <<arr, queue, count, val, seen>>

HostRead ==
    /\ Do("read")
    /\ seen' = (seen /\ Data(mem, Cur.x) = val[Cur.x])
    /\ Skip
    /\ UNCHANGED val

\* createSubArray: a view of a ready parent
SubArray_DataOffset ==
    /\ Do("sub")
    /\ LET p == arr[Cur.x] IN
         arr' = [arr EXCEPT ![Cur.y] = [NoArray EXCEPT !.buf = p.buf, !.off = 2 * p.off + Cur.off,
                                                       !.len = Cur.len, !.owner = FALSE]]
    /\ todo' = Tail(todo)
    /\ UNCHANGED <<mem, queue, count, val, seen>>
SubArray ==
    /\ Do("sub")
    /\ LET p == arr[Cur.x] IN
         arr' = [arr EXCEPT ![Cur.y] = [NoArray EXCEPT !.buf = p.buf, !.off = p.off + Cur.off,
                                                       !.len = Cur.len, !.owner = FALSE]]
    /\ todo' = Tail(todo)
    /\ UNCHANGED <<mem, queue, count, val, seen>>

\* createBinaryNode and unaryOp of the cpu backend: a node over the children's
\* nodes.  The children are not evaluated, however high the tree is.
TallestOf(children) == Max({arr[children[i]].height : i \in DOMAIN children})

Node ==
    /\ Do("node")
    /\ arr' = [arr EXCEPT ![Cur.y] =
           [NoArray EXCEPT !.len = arr[Cur.children[1]].len,
                           !.terms = FlattenSeq([i \in DOMAIN Cur.children |-> GetNode(Cur.children[i])]),
                           !.height = TallestOf(Cur.children) + 1]]
    /\ todo' = Tail(todo)
    /\ UNCHANGED <<mem, queue, count, val, seen>>

\* modDims in assign: another view of a ready array, or a clone of the nodes
ModDims ==
    /\ Do("moddims")
    /\ arr' = [arr EXCEPT ![Cur.y] = arr[Cur.x]]
    /\ todo' = Tail(todo)
    /\ UNCHANGED <<mem, queue, count, val, seen>>

\* constant() of an element-wise assignment
Constant ==
    /\ Do("constant")
    /\ arr' = [arr EXCEPT ![Cur.y] = [NoArray EXCEPT !.len = Cur.len, !.terms = <<Scalar(Cur.v)>>]]
    /\ todo' = Tail(todo)
    /\ UNCHANGED <<mem, queue, count, val, seen>>

Drop_Forgotten ==
    /\ Do("drop")
    /\ todo' = Tail(todo)
    /\ UNCHANGED <<arr, mem, queue, count, val, seen>>
Drop ==
    /\ Do("drop")
    /\ arr' = [arr EXCEPT ![Cur.x] = NoArray]
    /\ todo' = Tail(todo)
    /\ UNCHANGED <<mem, queue, count, val, seen>>

\* The worker thread of the async_queue runs the oldest kernel, and the
\* shared_ptrs it holds go with it.
Worker ==
    /\ queue # <<>>
    /\ mem' = RunTask(mem, Head(queue))
    /\ queue' = Tail(queue)
    /\ UNCHANGED <<arr, count, todo, val, seen>>

-----------------------------------------------------------------------------
(***************************************************************************)
(* Calls of the client.                                                    *)
(***************************************************************************)
Begin(steps) == todo = <<>> /\ todo' = steps

Room == Cardinality(FreeBufs) >= CallBufs

Calls(steps, newVal) ==
    /\ Room
    /\ Begin(steps)
    /\ val' = newVal
    /\ UNCHANGED <<arr, mem, queue, count, seen>>

All(h) == 0 .. arr[h].len - 1

\* af_create_array: memory for the array, then wait, then copy
CreateArray_NoSync(h, data) ==
    /\ Empty(h) /\ Room
    /\ \E b \in FreeBufs :
         arr' = [arr EXCEPT ![h] = [NoArray EXCEPT !.buf = b, !.len = Size]]
    /\ Begin(<<[op |-> "memcpy", x |-> h, data |-> data]>>)
    /\ val' = [val EXCEPT ![h] = data]
    /\ UNCHANGED <<mem, queue, count, seen>>
CreateArray(h, data) ==
    /\ Empty(h) /\ Room
    /\ \E b \in FreeBufs :
         arr' = [arr EXCEPT ![h] = [NoArray EXCEPT !.buf = b, !.len = Size]]
    /\ Begin(<<SyncStep, [op |-> "memcpy", x |-> h, data |-> data]>>)
    /\ val' = [val EXCEPT ![h] = data]
    /\ UNCHANGED <<mem, queue, count, seen>>

\* af_constant
CreateValue(h, v) ==
    /\ Empty(h)
    /\ Begin(<<>>)
    /\ arr' = [arr EXCEPT ![h] = [NoArray EXCEPT !.len = Size, !.terms = <<Scalar(v)>>]]
    /\ val' = [val EXCEPT ![h] = [c \in Cells |-> v]]
    /\ UNCHANGED <<mem, queue, count, seen>>

\* af_retain_array
Retain(h, g) ==
    /\ Live(h) /\ Empty(g)
    /\ Begin(<<>>)
    /\ arr' = [arr EXCEPT ![g] = arr[h]]
    /\ val' = [val EXCEPT ![g] = val[h]]
    /\ UNCHANGED <<mem, queue, count, seen>>

\* af_release_array
Release(h) ==
    /\ Live(h)
    /\ Begin(<<>>)
    /\ arr' = [arr EXCEPT ![h] = NoArray]
    /\ val' = [val EXCEPT ![h] = <<>>]
    /\ UNCHANGED <<mem, queue, count, seen>>

\* af_copy_array
CopyArray(h, g) ==
    /\ Live(h) /\ Empty(g)
    /\ Calls(<<On("eval", h), [op |-> "copy", x |-> h, y |-> g]>>, [val EXCEPT ![g] = val[h]])

\* af_index with one sequence: the elements from i on, n of them
Index(h, i, n, g) ==
    /\ Live(h) /\ Empty(g) /\ i + n <= arr[h].len
    /\ Calls(<<On("eval", h), [op |-> "sub", x |-> h, off |-> i, len |-> n, y |-> g]>>,
             [val EXCEPT ![g] = [c \in 0 .. n - 1 |-> val[h][i + c]]])

\* af_add and every other JIT operation of two arrays
Add(h, k, g) ==
    /\ Live(h) /\ Live(k) /\ Empty(g) /\ arr[h].len = arr[k].len
    /\ arr[h].height < MaxHeight /\ arr[k].height < MaxHeight
    /\ Calls(<<[op |-> "node", children |-> <<h, k>>, y |-> g]>>,
             [val EXCEPT ![g] = [c \in All(h) |-> (val[h][c] + val[k][c]) % M]])

\* af_eval
EvalCall(h) ==
    /\ Live(h)
    /\ Calls(<<On("eval", h)>>, val)

\* The right-hand side of an assignment, reshaped (or tiled) into Tmp, its
\* copy into the elements from i on, and the end of Tmp
AssignSteps(h, i, rhs) ==
    << On("eval", h),
       IF arr[rhs].len = 1 THEN [op |-> "node", children |-> <<rhs>>, y |-> Tmp]
                           ELSE [op |-> "moddims", x |-> rhs, y |-> Tmp],
       On("eval", Tmp),
       [op |-> "write", x |-> h, off |-> i, cells |-> All(rhs), y |-> Tmp],
       On("drop", Tmp) >>

Overwritten(old, i, new) ==
    [c \in DOMAIN old |-> IF c - i \in DOMAIN new THEN new[c - i] ELSE old[c]]

\* array_proxy::operator= : the result of af_assign_seq replaces the array.
\* An array is not assigned to itself element by element.
Assign(h, i, rhs) ==
    /\ Live(h) /\ Live(rhs) /\ i + arr[rhs].len <= arr[h].len
    /\ Calls(<<On("cow", h)>> \o (IF h = rhs THEN <<>> ELSE AssignSteps(h, i, rhs)),
             [val EXCEPT ![h] = Overwritten(val[h], i, val[rhs])])

\* array_proxy::operator= of a number, on one element
AssignValue(h, i, v) ==
    /\ Live(h) /\ i < arr[h].len
    /\ Calls(<<On("cow", h), On("eval", h),
               [op |-> "constant", len |-> 1, v |-> v, y |-> Tmp], On("eval", Tmp),
               [op |-> "write", x |-> h, off |-> i, cells |-> {0}, y |-> Tmp],
               On("drop", Tmp)>>,
             [val EXCEPT ![h][i] = v])

\* af_assign_seq with an out that is not lhs: a copy, or a second handle
AssignSeq(h, i, rhs, out) ==
    /\ CAssigns
    /\ Live(h) /\ Live(rhs) /\ Empty(out) /\ i + arr[rhs].len <= arr[h].len
    /\ Calls(<<[op |-> IF Shared(h) THEN "copy" ELSE "moddims", x |-> h, y |-> out]>>
               \o (IF h = rhs THEN <<>> ELSE AssignSteps(out, i, rhs)),
             [val EXCEPT ![out] = Overwritten(val[h], i, val[rhs])])

\* af_replace: the elements where the condition is false come from b
Replace(h, mask, b) ==
    /\ Live(h) /\ Live(b) /\ arr[h].len = arr[b].len
    /\ mask \subseteq All(h)
    /\ Calls(<<On("cow", h), On("eval", h), On("eval", b),
               [op |-> "write", x |-> h, off |-> 0, cells |-> All(h) \ mask, y |-> b]>>,
             [val EXCEPT ![h] = [c \in All(h) |-> IF c \in mask THEN val[h][c] ELSE val[b][c]]])

\* af_write_array from host memory.  "This does NOT result in a copy on
\* write": the client calls it on arrays that share nothing.
WriteArray(h, data) ==
    /\ Live(h) /\ arr[h].len = Size
    /\ ~ SharedWithArrays(h) \/ ~ arr[h].owner
    /\ Calls(<<On("own", h), On("eval", h), SyncStep,
               [op |-> "memcpy", x |-> h, data |-> data]>>,
             [val EXCEPT ![h] = data])

\* af_write_array from device memory: neither eval() nor sync()
WriteDevice(h, data) ==
    /\ DeviceWrites
    /\ Live(h) /\ arr[h].len = Size
    /\ ~ SharedWithArrays(h) \/ ~ arr[h].owner
    /\ Calls(<<On("own", h), On("eval", h),
               [op |-> "memcpy", x |-> h, data |-> data]>>,
             [val EXCEPT ![h] = data])

\* af_get_device_ptr of an evaluated array, and the user's write through it
DevicePtr(h, data) ==
    /\ Live(h) /\ arr[h].len = Size /\ Ready(h)
    /\ Calls(<<On("device", h), SyncStep, On("eval", h),
               [op |-> "memcpy", x |-> h, data |-> data]>>,
             [val EXCEPT ![h] = data])

\* af_get_data_ptr, af_get_scalar
GetData_NoSync(h) ==
    /\ Live(h)
    /\ Calls(<<On("eval", h), On("read", h)>>, val)
GetData(h) ==
    /\ Live(h)
    /\ Calls(<<On("eval", h), SyncStep, On("read", h)>>, val)

\* af_sync
SyncCall == Calls(<<SyncStep>>, val)

Client ==
    \/ \E h \in Handles :
         \/ \E d \in HostData : \/ CreateArray(h, d) \/ WriteArray(h, d)
                                \/ WriteDevice(h, d) \/ DevicePtr(h, d)
         \/ \E v \in ScalarData :
              CreateValue(h, v) \/ \E i \in Cells : AssignValue(h, i, v)
         \/ Release(h) \/ EvalCall(h) \/ GetData(h)
    \/ \E h, g \in Handles :
         \/ Retain(h, g) \/ CopyArray(h, g)
         \/ \E i \in Cells : Assign(h, i, g)
         \/ \E i \in Cells, n \in 1 .. Size : Index(h, i, n, g)
         \/ \E mask \in Masks : Replace(h, mask, g)
    \/ \E h, k, g \in Handles :
         \/ Add(h, k, g)
         \/ \E i \in Cells : AssignSeq(h, i, k, g)
    \/ SyncCall

Steps == \/ Sync \/ Eval \/ Copy \/ CopyOnWrite \/ CopyNotOwned \/ CopyForDevice
         \/ Write \/ HostCopy \/ HostRead \/ SubArray \/ Node \/ ModDims \/ Constant \/ Drop

Init ==
    /\ arr = [h \in Names |-> NoArray]
    /\ mem = [b \in Bufs |-> [c \in Cells |-> 0]]
    /\ queue = <<>>
    /\ count = 0
    /\ todo = <<>>
    /\ val = [h \in Names |-> <<>>]
    /\ seen = TRUE

Next == Client \/ Steps \/ Worker

Spec == Init /\ [][Next]_vars

(***************************************************************************)
(* The client's thread runs inside a call and the worker runs while there  *)
(* are kernels; nobody has to make another call.                           *)
(***************************************************************************)
FairSpec == Spec /\ WF_vars(Steps) /\ WF_vars(Worker)
-----------------------------------------------------------------------------
(***************************************************************************)
(* Properties                                                              *)
(***************************************************************************)
TermsOK(terms) == \A i \in DOMAIN terms :
    /\ terms[i].buf \in Bufs \cup {NoBuf}
    /\ terms[i].off \in Cells
    /\ terms[i].val \in Values

\* Type correctness: every array is a view inside its buffer or an expression
\* of such views, and the worker is given no null pointer (Array<T>::get()).
TypeOK ==
    /\ \A h \in Names :
         /\ arr[h].off \in Nat /\ arr[h].off + arr[h].len <= Size
         /\ arr[h].owner \in BOOLEAN /\ arr[h].height \in 0 .. MaxHeight + 1
         /\ TermsOK(arr[h].terms)
         /\ arr[h].buf \in Bufs <=> Live(h) /\ Ready(h)
    /\ mem \in [Bufs -> [Cells -> Values]]
    /\ \A i \in DOMAIN queue :
         /\ queue[i].dst \in Bufs
         /\ \A c \in queue[i].cells : queue[i].off + c \in Cells
         /\ TermsOK(queue[i].terms)
    /\ count \in 0 .. SyncEvery
    /\ seen \in BOOLEAN

\* Between two calls every array holds the value the client gave it, whatever
\* is shared, unevaluated or still queued: "any changes to the original array
\* will not propagate to the references" (copy on write, docs/pages/indexing.md).
ValueSemantics ==
    todo = <<>> => \A h \in Handles : Live(h) => Data(Drained, h) = val[h]

\* What af_get_data_ptr copies out is the value of the array at the time of
\* the call, not what a kernel in the queue has yet to write (copyData).
ReadsAreCurrent == seen

\* "Ensure the memory being written to isnt used anywhere else": when the host
\* writes into a buffer, no queued kernel reads or writes that buffer.
HostWritesAlone ==
    [][HostCopy => \A i \in DOMAIN queue :
         LET b == arr[Cur.x].buf IN
           queue[i].dst # b /\ ~ Mentions(queue[i].terms, b)]_vars

\* The queue never holds more kernels than the count at which enqueue waits.
QueueBounded == Len(queue) <= SyncEvery

\* Once the client has released every array, every buffer goes back to the
\* memory manager: no temporary and no queued kernel keeps one for ever.
BuffersComeBack ==
    (todo = <<>> /\ \A h \in Handles : Empty(h))
        ~> (FreeBufs = Bufs \/ \E h \in Handles : Live(h))

=============================================================================
