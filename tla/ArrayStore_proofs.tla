-------------------------- MODULE ArrayStore_proofs --------------------------
(***************************************************************************)
(* What ArrayStore does for any handles, buffers, sizes and values.        *)
(*                                                                         *)
(* The kernels in the queue are abstracted by what they leave: Drained.  A *)
(* step of the client that enqueues a kernel changes Drained as if the     *)
(* kernel had run, and a step of the worker does not change it.  So the    *)
(* proof is about arr, Drained and val alone; the queue matters only where *)
(* the host touches memory itself, and there it is empty.                  *)
(*                                                                         *)
(* The invariant says of every rest of a call (`todo') what holds of the   *)
(* array that the call is about, and that the other arrays have their      *)
(* values.                                                                 *)
(***************************************************************************)
EXTENDS ArrayStore, FiniteSetTheorems, SequenceTheorems,
        WellFoundedInduction, TLAPS

-----------------------------------------------------------------------------
(***************************************************************************)
(* The invariant.                                                          *)
(***************************************************************************)

\* The calls that break value semantics by contract or by defect: af_assign_seq
\* into an out of the client's own and af_write_array from device memory.
Plain == ~ CAssigns /\ ~ DeviceWrites

Memories == [Bufs -> [Cells -> Values]]
Terms == [buf : Bufs \cup {NoBuf}, off : Cells, val : Values]

\* Elements 0 .. n-1 of the term are inside its buffer.
Fits(t, n) == t.buf \in Bufs => t.off + n <= Size

Arrays == [buf : Bufs \cup {NoBuf}, off : Nat, len : 0 .. Size, owner : BOOLEAN,
           terms : Seq(Terms), height : 0 .. MaxHeight + 1]

\* Empty, a view inside a buffer, or an expression of views long enough
ArrayOK(a) ==
    /\ a \in Arrays
    /\ a.len = 0 => a = NoArray
    /\ a.len > 0 /\ a.terms = <<>> => a.buf \in Bufs /\ a.off + a.len <= Size
    /\ a.terms # <<>> => a.buf = NoBuf /\ a.off = 0
    /\ \A i \in DOMAIN a.terms : Fits(a.terms[i], a.len)

TaskOK(k) ==
    /\ k.dst \in Bufs /\ k.off \in Nat /\ k.cells \subseteq Cells
    /\ k.terms \in Seq(Terms) /\ k.owns \in BOOLEAN
    /\ \A c \in k.cells :
         /\ k.off + c \in Cells
         /\ \A i \in DOMAIN k.terms :
              k.terms[i].buf \in Bufs => k.terms[i].off + c \in Cells

Tasks == {k \in [dst : Bufs, off : Nat, cells : SUBSET Cells,
                 terms : Seq(Terms), owns : BOOLEAN] : TaskOK(k)}

TypeInv ==
    /\ DOMAIN arr = Names /\ arr = [h \in DOMAIN arr |-> arr[h]]
    /\ \A h \in Names : ArrayOK(arr[h])
    /\ \A h \in Handles : arr[h].height <= MaxHeight
    /\ mem \in Memories
    /\ queue \in Seq(Tasks)
    /\ seen \in BOOLEAN
    /\ DOMAIN val = Names /\ val = [h \in DOMAIN val |-> val[h]]

\* The kernels in the queue have been counted, and the wait comes next.
CountInv ==
    /\ count \in Nat /\ Len(queue) <= count /\ count <= SyncEvery
    /\ count = SyncEvery => todo # <<>> /\ Head(todo) = SyncStep

\* What the worker will have left when it has run every kernel
DrainInv == Plain => Drained \in Memories /\ seen

-----------------------------------------------------------------------------
(* The rests of a call, each with what holds before its first step.        *)

\* What h holds once the worker has run every kernel
Content(h) == Data(Drained, h)

Holds(h) == Live(h) => Content(h) = val[h]
AllHold == \A g \in Handles : Holds(g)
OthersHold(h) == \A g \in Handles \ {h} : Holds(g)
Alone(h) == ~ SharedWithArrays(h)

\* The elements of h that the call still has to write come from w.
Pending(h, i, cells, w) ==
    val[h] = [c \in All(h) |-> IF c - i \in cells THEN w[c - i]
                               ELSE Content(h)[c]]

CopyStep(h, g) == [op |-> "copy", x |-> h, y |-> g]
SubStep(h, i, n, g) == [op |-> "sub", x |-> h, off |-> i, len |-> n, y |-> g]
NodeStep(children, g) == [op |-> "node", children |-> children, y |-> g]
ModDimsStep(h, g) == [op |-> "moddims", x |-> h, y |-> g]
ConstantStep(v) == [op |-> "constant", len |-> 1, v |-> v, y |-> Tmp]
WriteStep(h, i, cells, y) == [op |-> "write", x |-> h, off |-> i, cells |-> cells, y |-> y]
HostStep(h, d) == [op |-> "memcpy", x |-> h, data |-> d]

Idle(t) == t = <<>> /\ Empty(Tmp) /\ (Plain => AllHold)

Evaluating(t, h) ==
    /\ t = <<On("eval", h)>> \/ t = <<On("cow", h)>>
    /\ Live(h) /\ Empty(Tmp) /\ (Plain => AllHold)
Evals(t) == \E h \in Handles : Evaluating(t, h)

Copying(t, h, g) ==
    /\ \/ t = <<On("eval", h), CopyStep(h, g)>>
       \/ t = <<CopyStep(h, g)>> /\ Ready(h)
    /\ Live(h) /\ Empty(g) /\ Empty(Tmp)
    /\ Plain => AllHold /\ val[g] = val[h]
Copies(t) == \E h, g \in Handles : Copying(t, h, g)

Part(w, i, n) == [c \in 0 .. n - 1 |-> w[i + c]]
Indexing(t, h, g, i, n) ==
    /\ \/ t = <<On("eval", h), SubStep(h, i, n, g)>>
       \/ t = <<SubStep(h, i, n, g)>> /\ Ready(h)
    /\ Live(h) /\ Empty(g) /\ Empty(Tmp) /\ i + n <= arr[h].len
    /\ Plain => AllHold /\ val[g] = Part(val[h], i, n)
Indexes(t) == \E h, g \in Handles, i \in Cells, n \in 1 .. Size : Indexing(t, h, g, i, n)

Total(v, w, n) == [c \in 0 .. n - 1 |-> (v[c] + w[c]) % M]
Adding(t, h, k, g) ==
    /\ t = <<NodeStep(<<h, k>>, g)>>
    /\ Live(h) /\ Live(k) /\ Empty(g) /\ Empty(Tmp) /\ arr[h].len = arr[k].len
    /\ arr[h].height < MaxHeight /\ arr[k].height < MaxHeight
    /\ Plain => AllHold /\ val[g] = Total(val[h], val[k], arr[h].len)
Adds(t) == \E h, k, g \in Handles : Adding(t, h, k, g)

Reading(t, h) ==
    /\ \/ t = <<On("eval", h), SyncStep, On("read", h)>>
       \/ t = <<SyncStep, On("read", h)>> /\ Ready(h)
       \/ t = <<On("read", h)>> /\ Ready(h) /\ queue = <<>>
    /\ Live(h) /\ Empty(Tmp) /\ (Plain => AllHold)
Reads(t) == \E h \in Handles : Reading(t, h)

\* The step k makes Tmp, with n elements, from another array than h.
Sources == {NodeStep(<<r>>, Tmp) : r \in Handles} \cup {ModDimsStep(r, Tmp) : r \in Handles}
               \cup {ConstantStep(v) : v \in ScalarData}
SourceArray(k) == IF k.op = "node" THEN k.children[1] ELSE k.x
SourceOK(k, h, n) ==
    IF k.op = "constant" THEN n = 1
    ELSE /\ SourceArray(k) # h /\ Live(SourceArray(k)) /\ arr[SourceArray(k)].len = n
         /\ k.op = "node" => n = 1
SourceData(k) == IF k.op = "constant" THEN [c \in {0} |-> k.v] ELSE Content(SourceArray(k))

WriteTmp(h, i, n) == WriteStep(h, i, 0 .. n - 1, Tmp)

AssigningOut(t, h, g, s, i, n, k) ==
    /\ \/ t = <<[op |-> s, x |-> h, y |-> g]>>
       \/ /\ t = <<[op |-> s, x |-> h, y |-> g], On("eval", g), k, On("eval", Tmp),
                   WriteTmp(g, i, n), On("drop", Tmp)>>
          /\ SourceOK(k, g, n) /\ i + n <= arr[h].len
    /\ CAssigns /\ Live(h) /\ Empty(g) /\ Empty(Tmp)
    /\ s = "copy" => Ready(h)
AssignsOut(t) == \E h, g \in Handles, s \in {"copy", "moddims"}, i \in Cells, n \in 1 .. Size,
                    k \in Sources : AssigningOut(t, h, g, s, i, n, k)

Assigning(t, h, i, n, k) ==
    /\ \/ t = <<On("cow", h), On("eval", h), k, On("eval", Tmp),
                WriteTmp(h, i, n), On("drop", Tmp)>>
       \/ /\ t = <<On("eval", h), k, On("eval", Tmp), WriteTmp(h, i, n), On("drop", Tmp)>>
          /\ Plain => Alone(h)
       \/ /\ t = <<k, On("eval", Tmp), WriteTmp(h, i, n), On("drop", Tmp)>>
          /\ Ready(h) /\ (Plain => Alone(h))
    /\ Live(h) /\ Empty(Tmp) /\ SourceOK(k, h, n) /\ i + n <= arr[h].len
    /\ Plain => OthersHold(h) /\ Pending(h, i, 0 .. n - 1, SourceData(k))
Assigns(t) == \E h \in Handles, i \in Cells, n \in 1 .. Size, k \in Sources : Assigning(t, h, i, n, k)

Storing(t, h, i, n) ==
    /\ \/ t = <<On("eval", Tmp), WriteTmp(h, i, n), On("drop", Tmp)>>
       \/ t = <<WriteTmp(h, i, n), On("drop", Tmp)>> /\ Ready(Tmp)
    /\ Live(h) /\ Ready(h) /\ Live(Tmp) /\ arr[Tmp].len = n /\ i + n <= arr[h].len
    /\ Plain => Alone(h) /\ OthersHold(h) /\ Pending(h, i, 0 .. n - 1, Content(Tmp))
Stores(t) == \E h \in Handles, i \in Cells, n \in 1 .. Size : Storing(t, h, i, n)

Drops(t) == t = <<On("drop", Tmp)>> /\ (Plain => AllHold)

Replacing(t, h, b, cells) ==
    /\ \/ t = <<On("cow", h), On("eval", h), On("eval", b), WriteStep(h, 0, cells, b)>>
       \/ t = <<On("eval", h), On("eval", b), WriteStep(h, 0, cells, b)>> /\ (Plain => Alone(h))
       \/ t = <<On("eval", b), WriteStep(h, 0, cells, b)>> /\ Ready(h) /\ (Plain => Alone(h))
       \/ t = <<WriteStep(h, 0, cells, b)>> /\ Ready(h) /\ Ready(b) /\ (Plain => Alone(h))
    /\ Live(h) /\ Live(b) /\ arr[h].len = arr[b].len /\ Empty(Tmp) /\ cells \subseteq All(h)
    /\ Plain => OthersHold(h) /\ Pending(h, 0, cells, Content(b))
Replaces(t) == \E h, b \in Handles, cells \in SUBSET Cells : Replacing(t, h, b, cells)

\* The calls that end in a write of the host's.  Nothing shares the array when
\* it comes, and no kernel is waiting.
Overwriting(t, h, d) ==
    /\ \/ /\ \/ t = <<On("own", h), On("eval", h), SyncStep, HostStep(h, d)>>
             \/ t = <<On("own", h), On("eval", h), HostStep(h, d)>> /\ DeviceWrites
          /\ Alone(h) \/ ~ arr[h].owner
       \/ /\ \/ t = <<On("eval", h), SyncStep, HostStep(h, d)>>
             \/ t = <<SyncStep, HostStep(h, d)>> /\ Ready(h)
             \/ t = <<On("eval", h), HostStep(h, d)>>
                  /\ (~ DeviceWrites => Ready(h) /\ queue = <<>>)
             \/ t = <<HostStep(h, d)>> /\ Ready(h) /\ (~ DeviceWrites => queue = <<>>)
             \/ t = <<SyncStep, On("eval", h), HostStep(h, d)>> /\ Ready(h)
          /\ Alone(h)
       \/ t = <<On("device", h), SyncStep, On("eval", h), HostStep(h, d)>> /\ Ready(h)
    /\ Live(h) /\ arr[h].len = Size /\ Empty(Tmp)
    /\ Plain => OthersHold(h) /\ val[h] = d
Overwrites(t) == \E h \in Handles, d \in HostData : Overwriting(t, h, d)

Rest(t) ==
    \/ Idle(t) \/ Evals(t) \/ Copies(t) \/ Indexes(t) \/ Adds(t) \/ Reads(t)
    \/ AssignsOut(t) \/ Assigns(t) \/ Stores(t) \/ Drops(t)
    \/ Replaces(t) \/ Overwrites(t)

CallInv ==
    \/ Rest(todo)
    \/ todo # <<>> /\ Head(todo) = SyncStep /\ Rest(Tail(todo))

Inv == TypeInv /\ CountInv /\ DrainInv /\ CallInv

-----------------------------------------------------------------------------
(***************************************************************************)
(* The two folds of the model: kernels over a memory, terms over a sum.    *)
(***************************************************************************)

\* Every nonempty set of naturals has a least element.
LEMMA LeastNat ==
    ASSUME NEW T, T \subseteq Nat, T # {}
    PROVE  \E n \in T : \A m \in T : n <= m
<1> DEFINE Below == {ss \in Nat \X Nat : ss[1] < ss[2]}
<1>1. IsWellFoundedOn(Below, Nat)
    BY NatLessThanWellFounded DEF OpToRel
<1>2. PICK n \in T : \A m \in T : ~ (<<m, n>> \in Below)
    <2> HIDE DEF Below
    <2> QED BY <1>1, WFMin
<1>3. ASSUME NEW m \in T PROVE n <= m
    <2>1. <<m, n>> \in Nat \X Nat /\ ~ (<<m, n>> \in Below)
        BY <1>2
    <2>2. ~ (m < n)
        BY <2>1
    <2> QED
        BY <2>2
<1> QED
    BY <1>3

\* A claim about the numbers up to n holds when no first number breaks it.
LEMMA UpTo ==
    ASSUME NEW n \in Nat, NEW Good, 0 \in Good,
           \A j \in 0 .. n - 1 : j \in Good => j + 1 \in Good
    PROVE  \A j \in 0 .. n : j \in Good
<1> DEFINE Bad == {j \in 0 .. n : j \notin Good}
<1> SUFFICES ASSUME Bad # {} PROVE FALSE
    OBVIOUS
<1>1. PICK j \in Bad : \A m \in Bad : j <= m
    <2>1. Bad \subseteq Nat
        OBVIOUS
    <2> HIDE DEF Bad
    <2> QED BY <2>1, LeastNat
<1>2. j \in 0 .. n /\ j \notin Good /\ j # 0
    OBVIOUS
<1>3. j - 1 \in 0 .. n - 1 /\ j - 1 \notin Bad
    <2> HIDE DEF Bad
    <2> QED BY <1>1, <1>2
<1>4. j - 1 \in Good
    BY <1>3
<1>5. (j - 1) + 1 \in Good
    BY <1>3, <1>4
<1> QED
    BY <1>2, <1>5

\* A nonempty set of positions has a largest one.
LEMMA MaxIsIn ==
    ASSUME NEW n \in Nat, NEW s \in SUBSET (1 .. n), s # {}
    PROVE  Max(s) \in s
<1> DEFINE Gaps == {n - x : x \in s}
<1>1. Gaps \subseteq Nat /\ Gaps # {}
    <2>1. PICK x \in s : TRUE
        OBVIOUS
    <2>2. n - x \in Gaps
        OBVIOUS
    <2>3. \A y \in s : y \in 1 .. n
        OBVIOUS
    <2>4. \A y \in 1 .. n : n - y \in Nat
        OBVIOUS
    <2> QED
        BY <2>2, <2>3, <2>4
<1>2. PICK d \in Gaps : \A e \in Gaps : d <= e
    <2> HIDE DEF Gaps
    <2> QED BY <1>1, LeastNat
<1>3. PICK x \in s : d = n - x
    BY <1>2
<1>4. \A y \in s : x >= y
    <2> SUFFICES ASSUME NEW y \in s PROVE x >= y
        OBVIOUS
    <2>1. n - y \in Gaps
        OBVIOUS
    <2>2. n - x <= n - y
        <3> HIDE DEF Gaps
        <3> QED BY <1>2, <1>3, <2>1
    <2>3. x \in 1 .. n /\ y \in 1 .. n
        OBVIOUS
    <2> HIDE DEF Gaps
    <2> QED
        BY <2>2, <2>3
<1> QED
    BY <1>4 DEF Max

LEMMA MaxOfInterval == ASSUME NEW n \in Nat \ {0} PROVE Max(1 .. n) = n
BY DEF Max

\* One step of a fold: of Drained when f is <<"run">>, of Calc when it is
\* <<"sum", m, i>>.
FoldStep(f, acc, x) ==
    IF f[1] = "run" THEN RunTask(acc, x) ELSE (acc + At(f[2], x, f[3])) % M

FoldBody(f, base, q, g, s) ==
    IF s = {} THEN base ELSE FoldStep(f, g[s \ {Max(s)}], q[Max(s)])

IsFold(f, base, q, n, g) ==
    g = [s \in SUBSET (1 .. n) |-> FoldBody(f, base, q, g, s)]

\* The function that a fold of the library chooses exists.
LEMMA FoldExists ==
    ASSUME NEW f, NEW base, NEW q, NEW n \in Nat
    PROVE  \E g : IsFold(f, base, q, n, g)
<1> DEFINE S == 1 .. n
           Sub(j) == {s \in SUBSET S : Cardinality(s) <= j}
           To(j, g) == g = [s \in Sub(j) |-> FoldBody(f, base, q, g, s)]
           Good == {j \in Nat : \E g : To(j, g)}
<1>1. /\ IsFiniteSet(S) /\ Cardinality(S) = n
      /\ \A s \in SUBSET S : IsFiniteSet(s) /\ Cardinality(s) \in Nat
    <2>1. IsFiniteSet(S) /\ Cardinality(S) = n
        BY FS_Interval
    <2> QED
        BY <2>1, FS_Subset, FS_CardinalityType
<1>2. 0 \in Good
    <2> DEFINE g == [s \in Sub(0) |-> base]
    <2>1. \A s \in Sub(0) : s = {}
        BY <1>1, FS_EmptySet
    <2>2. \A s \in Sub(0) : FoldBody(f, base, q, g, s) = base
        BY <2>1 DEF FoldBody
    <2>3. To(0, g)
        BY <2>2
    <2> QED
        BY <2>3
<1>3. ASSUME NEW j \in Nat, j \in Good
      PROVE  j + 1 \in Good
    <2>1. PICK g : To(j, g)
        BY <1>3
    <2> DEFINE h == [s \in Sub(j + 1) |-> FoldBody(f, base, q, g, s)]
    <2>2. ASSUME NEW s \in Sub(j + 1)
          PROVE  FoldBody(f, base, q, h, s) = FoldBody(f, base, q, g, s)
        <3>1. CASE s = {}
            BY <3>1 DEF FoldBody
        <3>2. CASE s # {}
            <4> DEFINE r == s \ {Max(s)}
            <4>1. Max(s) \in s
                BY <3>2, MaxIsIn
            <4>2. Cardinality(r) = Cardinality(s) - 1
                BY <1>1, <4>1, FS_RemoveElement
            <4>3. r \in Sub(j) /\ r \in Sub(j + 1)
                <5> HIDE DEF S
                <5> QED BY <1>1, <4>2
            <4>4. h[r] = FoldBody(f, base, q, g, r)
                <5> HIDE DEF r
                <5> QED BY <4>3
            <4>5. g[r] = FoldBody(f, base, q, g, r)
                <5> HIDE DEF Sub, r
                <5> QED BY <2>1, <4>3
            <4> QED
                BY <4>4, <4>5 DEF FoldBody
        <3> QED
            BY <3>1, <3>2
    <2>3. To(j + 1, h)
        BY <2>2
    <2> HIDE DEF To, h
    <2> QED
        BY <2>3
<1>4. \A j \in 0 .. n : j \in Good
    <2> HIDE DEF Good
    <2> QED BY <1>2, <1>3, UpTo
<1>5. PICK g : To(n, g)
    BY <1>4
<1>6. Sub(n) = SUBSET S
    BY <1>1, FS_Subset
<1> QED
    BY <1>5, <1>6 DEF IsFold

\* What it is after the first j elements
FoldTo(f, base, q, j) ==
    LET g == CHOOSE g : IsFold(f, base, q, j, g) IN g[1 .. j]

\* The fold of a beginning depends on that beginning only.
LEMMA FoldUnique ==
    ASSUME NEW f, NEW base, NEW q, NEW n \in Nat, NEW g, IsFold(f, base, q, n, g),
           NEW p, NEW k \in Nat, NEW h, IsFold(f, base, p, k, h),
           NEW l \in Nat, l <= n, l <= k, \A j \in 1 .. l : q[j] = p[j]
    PROVE  g[1 .. l] = h[1 .. l]
<1> DEFINE Good == {j \in 0 .. l : g[1 .. j] = h[1 .. j]}
<1>1. 0 \in Good
    <2>1. 1 .. 0 = {} /\ {} \in SUBSET (1 .. n) /\ {} \in SUBSET (1 .. k)
        OBVIOUS
    <2>2. g[{}] = base /\ h[{}] = base
        BY <2>1 DEF IsFold, FoldBody
    <2> QED
        BY <2>1, <2>2
<1>2. ASSUME NEW j \in 0 .. l - 1, j \in Good
      PROVE  j + 1 \in Good
    <2> DEFINE s == 1 .. j + 1
    <2>1. s # {} /\ s \in SUBSET (1 .. n) /\ s \in SUBSET (1 .. k) /\ j + 1 \in 1 .. l
        OBVIOUS
    <2>2. Max(s) = j + 1 /\ s \ {j + 1} = 1 .. j
        BY MaxOfInterval
    <2> HIDE DEF s
    <2>3. g[s] = FoldStep(f, g[1 .. j], q[j + 1])
        <3>1. g = [r \in SUBSET (1 .. n) |-> FoldBody(f, base, q, g, r)]
            BY Zenon DEF IsFold
        <3>2. g[s] = FoldBody(f, base, q, g, s)
            BY <2>1, <3>1
        <3> QED
            BY <2>1, <2>2, <3>2 DEF FoldBody
    <2>4. h[s] = FoldStep(f, h[1 .. j], p[j + 1])
        <3>1. h = [r \in SUBSET (1 .. k) |-> FoldBody(f, base, p, h, r)]
            BY Zenon DEF IsFold
        <3>2. h[s] = FoldBody(f, base, p, h, s)
            BY <2>1, <3>1
        <3> QED
            BY <2>1, <2>2, <3>2 DEF FoldBody
    <2>5. g[1 .. j] = h[1 .. j] /\ q[j + 1] = p[j + 1]
        BY <1>2, <2>1
    <2> QED
        BY <2>1, <2>3, <2>4, <2>5 DEF s
<1>3. \A j \in 0 .. l : j \in Good
    <2> HIDE DEF Good
    <2> QED BY <1>1, <1>2, UpTo
<1> QED
    BY <1>3

\* Any such function gives the fold of each prefix, of another list as well.
LEMMA FoldToIs ==
    ASSUME NEW f, NEW base, NEW q, NEW n \in Nat, NEW g, IsFold(f, base, q, n, g),
           NEW p, NEW j \in Nat, j <= n, \A k \in 1 .. j : q[k] = p[k]
    PROVE  FoldTo(f, base, p, j) = g[1 .. j]
<1> DEFINE h == CHOOSE h : IsFold(f, base, p, j, h)
<1>1. IsFold(f, base, p, j, h)
    BY FoldExists
<1>2. FoldTo(f, base, p, j) = h[1 .. j]
    BY DEF FoldTo
<1> HIDE DEF h
<1> QED
    BY <1>1, <1>2, FoldUnique

LEMMA FoldToNothing ==
    ASSUME NEW f, NEW base, NEW q
    PROVE  FoldTo(f, base, q, 0) = base
<1>1. PICK g : IsFold(f, base, q, 0, g)
    BY FoldExists
<1>2. FoldTo(f, base, q, 0) = g[1 .. 0]
    BY <1>1, FoldToIs
<1>3. 1 .. 0 = {} /\ {} \in SUBSET (1 .. 0)
    OBVIOUS
<1>4. g[{}] = base
    BY <1>1, <1>3 DEF IsFold, FoldBody
<1> QED
    BY <1>2, <1>3, <1>4

\* The fold of one element more is one step more.
LEMMA FoldToNext ==
    ASSUME NEW f, NEW base, NEW q, NEW j \in Nat
    PROVE  FoldTo(f, base, q, j + 1) = FoldStep(f, FoldTo(f, base, q, j), q[j + 1])
<1> DEFINE s == 1 .. j + 1
<1>1. PICK g : IsFold(f, base, q, j + 1, g)
    BY FoldExists
<1>2. FoldTo(f, base, q, j + 1) = g[s] /\ FoldTo(f, base, q, j) = g[1 .. j]
    BY <1>1, FoldToIs
<1>3. s # {} /\ s \in SUBSET (1 .. j + 1) /\ Max(s) = j + 1 /\ s \ {j + 1} = 1 .. j
    BY MaxOfInterval
<1> HIDE DEF s
<1>4. g[s] = FoldStep(f, g[1 .. j], q[j + 1])
    BY <1>1, <1>3 DEF IsFold, FoldBody
<1> QED
    BY <1>2, <1>4

\* The fold of a prefix does not look behind it.
LEMMA FoldToSame ==
    ASSUME NEW f, NEW base, NEW q, NEW p, NEW j \in Nat, \A k \in 1 .. j : q[k] = p[k]
    PROVE  FoldTo(f, base, q, j) = FoldTo(f, base, p, j)
<1>1. PICK g : IsFold(f, base, q, j, g)
    BY FoldExists
<1> QED
    BY <1>1, FoldToIs

-----------------------------------------------------------------------------
(* Drained: the kernels one after the other.                               *)

Drain(m, q) == FoldLeft(RunTask, m, q)

\* FoldLeft over the queue is the fold by prefixes.
LEMMA DrainIsFold ==
    ASSUME NEW m, NEW T, NEW q \in Seq(T)
    PROVE  Drain(m, q) = FoldTo(<<"run">>, m, q, Len(q))
<1> DEFINE n == Len(q)
           Is(g) == g = [s \in SUBSET (1 .. n) |->
                           IF s = {} THEN m
                           ELSE RunTask(g[s \ {Max(s)}], q[Max(s)])]
           it == CHOOSE g : Is(g)
<1>1. DOMAIN q = 1 .. n /\ n \in Nat
    OBVIOUS
<1>2. Drain(m, q) = it[1 .. n]
    BY <1>1 DEF Drain, FoldLeft, MapThenFoldSet
<1>3. \A g : Is(g) <=> IsFold(<<"run">>, m, q, n, g)
    <2>1. <<"run">>[1] = "run"
        OBVIOUS
    <2> QED
        BY <2>1 DEF IsFold, FoldBody, FoldStep
<1>4. IsFold(<<"run">>, m, q, n, it)
    <2> HIDE DEF Is
    <2>1. \E g : Is(g)
        BY <1>1, <1>3, FoldExists
    <2> QED
        BY <1>3, <2>1
<1> HIDE DEF it, n
<1> QED
    BY <1>1, <1>2, <1>4, FoldToIs DEF n

LEMMA DrainEmpty == ASSUME NEW m PROVE Drain(m, <<>>) = m
<1> DEFINE q == <<>>
<1>1. q \in Seq({}) /\ Len(q) = 0
    OBVIOUS
<1> HIDE DEF q
<1>2. Drain(m, q) = FoldTo(<<"run">>, m, q, Len(q))
    BY <1>1, DrainIsFold
<1>3. FoldTo(<<"run">>, m, q, 0) = m
    BY FoldToNothing
<1> QED
    BY <1>1, <1>2, <1>3 DEF q

\* To enqueue a kernel is, for Drained, to run it.
LEMMA DrainAppend ==
    ASSUME NEW m, NEW T, NEW q \in Seq(T), NEW k \in T
    PROVE  Drain(m, Append(q, k)) = RunTask(Drain(m, q), k)
<1> DEFINE f == <<"run">>
           p == Append(q, k)
           n == Len(q)
<1>1. /\ p \in Seq(T) /\ n \in Nat /\ Len(p) = n + 1 /\ p[n + 1] = k
      /\ \A j \in 1 .. n : q[j] = p[j]
    OBVIOUS
<1>2. f[1] = "run"
    OBVIOUS
<1>3. Drain(m, p) = FoldTo(f, m, p, n + 1) /\ Drain(m, q) = FoldTo(f, m, q, n)
    BY <1>1, DrainIsFold
<1> HIDE DEF p, n, f
<1>4. FoldTo(f, m, q, n) = FoldTo(f, m, p, n)
    BY <1>1, FoldToSame
<1>5. FoldTo(f, m, p, n + 1) = FoldStep(f, FoldTo(f, m, p, n), k)
    BY <1>1, FoldToNext
<1> QED
    BY <1>2, <1>3, <1>4, <1>5 DEF FoldStep, p

\* To run the oldest kernel does not change what the worker will leave.
LEMMA DrainTail ==
    ASSUME NEW m, NEW T, NEW q \in Seq(T), q # <<>>
    PROVE  Drain(RunTask(m, Head(q)), Tail(q)) = Drain(m, q)
<1> DEFINE f == <<"run">>
           r == RunTask(m, Head(q))
           p == Tail(q)
           n == Len(p)
           Good == {j \in 0 .. n : FoldTo(f, r, p, j) = FoldTo(f, m, q, j + 1)}
<1>1. /\ p \in Seq(T) /\ n \in Nat /\ Len(q) = n + 1 /\ q[1] = Head(q)
      /\ \A j \in 1 .. n : p[j] = q[j + 1]
    OBVIOUS
<1>2. f[1] = "run"
    OBVIOUS
<1>3. Drain(r, p) = FoldTo(f, r, p, n) /\ Drain(m, q) = FoldTo(f, m, q, n + 1)
    BY <1>1, DrainIsFold
<1> HIDE DEF p, n, f
<1>4. 0 \in Good
    <2>1. FoldTo(f, m, q, 0 + 1) = FoldStep(f, FoldTo(f, m, q, 0), q[0 + 1])
        BY FoldToNext
    <2>2. FoldStep(f, FoldTo(f, m, q, 0), q[0 + 1]) = r
        <3>1. FoldTo(f, m, q, 0) = m
            BY FoldToNothing
        <3> QED
            BY <1>1, <1>2, <3>1 DEF FoldStep
    <2>3. FoldTo(f, r, p, 0) = r
        BY FoldToNothing
    <2> QED
        BY <1>1, <2>1, <2>2, <2>3
<1>5. ASSUME NEW j \in 0 .. n - 1, j \in Good
      PROVE  j + 1 \in Good
    <2>1. j \in Nat /\ j + 1 \in Nat /\ j + 1 \in 0 .. n /\ p[j + 1] = q[(j + 1) + 1]
        BY <1>1
    <2>2. FoldTo(f, r, p, j + 1) = FoldStep(f, FoldTo(f, r, p, j), p[j + 1])
        BY <2>1, FoldToNext
    <2>3. FoldTo(f, m, q, (j + 1) + 1) = FoldStep(f, FoldTo(f, m, q, j + 1), q[(j + 1) + 1])
        BY <2>1, FoldToNext
    <2> QED
        BY <1>5, <2>1, <2>2, <2>3
<1>6. \A j \in 0 .. n : j \in Good
    <2> HIDE DEF Good
    <2> QED BY <1>1, <1>4, <1>5, UpTo
<1>7. n \in Good
    <2> HIDE DEF Good
    <2> QED BY <1>1, <1>6
<1> QED
    BY <1>3, <1>7 DEF p

-----------------------------------------------------------------------------
(* Calc: the sum of the terms modulo M.                                    *)

\* FoldLeft over the terms is the fold by prefixes.
LEMMA CalcIsFold ==
    ASSUME NEW m, NEW i, NEW T, NEW q \in Seq(T)
    PROVE  Calc(m, q, i) = FoldTo(<<"sum", m, i>>, 0, q, Len(q))
<1> DEFINE n == Len(q)
           f == <<"sum", m, i>>
           Is(g) == g = [s \in SUBSET (1 .. n) |->
                           IF s = {} THEN 0
                           ELSE (g[s \ {Max(s)}] + At(m, q[Max(s)], i)) % M]
           it == CHOOSE g : Is(g)
<1>1. DOMAIN q = 1 .. n /\ n \in Nat
    OBVIOUS
<1>2. Calc(m, q, i) = it[1 .. n]
    BY <1>1 DEF Calc, FoldLeft, MapThenFoldSet
<1>3. \A g : Is(g) <=> IsFold(f, 0, q, n, g)
    <2>1. f[1] # "run" /\ f[2] = m /\ f[3] = i
        OBVIOUS
    <2> HIDE DEF f
    <2> QED
        BY <2>1 DEF IsFold, FoldBody, FoldStep
<1> HIDE DEF f
<1>4. IsFold(f, 0, q, n, it)
    <2> HIDE DEF Is
    <2>1. \E g : Is(g)
        BY <1>1, <1>3, FoldExists
    <2> QED
        BY <1>3, <2>1
<1> HIDE DEF it, n
<1>5. Calc(m, q, i) = FoldTo(f, 0, q, n)
    BY <1>1, <1>2, <1>4, FoldToIs
<1> QED
    BY <1>5 DEF n, f

\* The sums after the first 0, 1, .. n terms
Sums(m, q, i, n, F) ==
    /\ F[0] = 0
    /\ \A j \in 0 .. n - 1 : F[j + 1] = (F[j] + At(m, q[j + 1], i)) % M

\* The sum of the terms is the last of the partial sums.
LEMMA CalcSteps ==
    ASSUME NEW m, NEW i, NEW T, NEW q \in Seq(T)
    PROVE  \E F : Calc(m, q, i) = F[Len(q)] /\ Sums(m, q, i, Len(q), F)
<1> DEFINE f == <<"sum", m, i>>
           n == Len(q)
           F == [j \in 0 .. n |-> FoldTo(f, 0, q, j)]
<1>1. n \in Nat /\ F[n] = FoldTo(f, 0, q, n) /\ F[0] = 0
    BY FoldToNothing
<1>2. Calc(m, q, i) = FoldTo(f, 0, q, n)
    BY CalcIsFold
<1>3. f[1] # "run" /\ f[2] = m /\ f[3] = i
    OBVIOUS
<1> HIDE DEF f
<1>4. ASSUME NEW j \in 0 .. n - 1
      PROVE  F[j + 1] = (F[j] + At(m, q[j + 1], i)) % M
    <2>1. F[j + 1] = FoldTo(f, 0, q, j + 1) /\ F[j] = FoldTo(f, 0, q, j)
        BY <1>1
    <2>2. FoldTo(f, 0, q, j + 1) = FoldStep(f, FoldTo(f, 0, q, j), q[j + 1])
        BY <1>1, FoldToNext
    <2> QED
        BY <1>3, <2>1, <2>2 DEF FoldStep
<1>5. Sums(m, q, i, n, F)
    BY <1>1, <1>4 DEF Sums
<1> HIDE DEF F
<1> QED
    BY <1>1, <1>2, <1>5

\* Of two numbers below M
LEMMA SumModulo ==
    ASSUME NEW a \in Values, NEW b \in Values
    PROVE  /\ (a + b) % M = IF a + b < M THEN a + b ELSE a + b - M
           /\ (a + b) % M \in Values
<1>1. M \in Nat \ {0} /\ a \in 0 .. M - 1 /\ b \in 0 .. M - 1
    BY StoreAssumption DEF Values
<1>2. CASE a + b < M
    <2>1. (a + b) % M = a + b
        BY <1>1, <1>2
    <2> QED
        BY <1>1, <1>2, <2>1 DEF Values
<1>3. CASE ~ (a + b < M)
    <2>1. (a + b) % M = a + b - M
        BY <1>1, <1>3
    <2> QED
        BY <1>1, <1>3, <2>1 DEF Values
<1> QED
    BY <1>2, <1>3

LEMMA SumModuloTwice ==
    ASSUME NEW a \in Values, NEW g \in Values, NEW t \in Values,
           NEW u, u = (a + g) % M, NEW v, v = (g + t) % M
    PROVE  (u + t) % M = (a + v) % M
<1>1. u \in Values /\ v \in Values
    BY SumModulo
<1>2. PICK x : x = (u + t) % M
    OBVIOUS
<1>3. PICK y : y = (a + v) % M
    OBVIOUS
<1>4. /\ u = IF a + g < M THEN a + g ELSE a + g - M
      /\ v = IF g + t < M THEN g + t ELSE g + t - M
      /\ x = IF u + t < M THEN u + t ELSE u + t - M
      /\ y = IF a + v < M THEN a + v ELSE a + v - M
    BY <1>1, <1>2, <1>3, SumModulo
<1>5. /\ M \in Nat \ {0} /\ a \in 0 .. M - 1 /\ g \in 0 .. M - 1 /\ t \in 0 .. M - 1
      /\ u \in 0 .. M - 1 /\ v \in 0 .. M - 1
    BY <1>1, StoreAssumption DEF Values
<1>6. x = y
    BY <1>4, <1>5
<1> QED
    BY <1>2, <1>3, <1>6

LEMMA ZeroIsValue == 0 \in Values
BY StoreAssumption DEF Values

\* A sum of values is a value.
LEMMA CalcType ==
    ASSUME NEW m, NEW i, NEW T, NEW q \in Seq(T), \A j \in DOMAIN q : At(m, q[j], i) \in Values
    PROVE  Calc(m, q, i) \in Values
<1>1. PICK F : Calc(m, q, i) = F[Len(q)] /\ Sums(m, q, i, Len(q), F)
    BY CalcSteps
<1> DEFINE Good == {j \in 0 .. Len(q) : F[j] \in Values}
<1>2. 0 \in Good
    BY <1>1, ZeroIsValue DEF Sums
<1>3. ASSUME NEW j \in 0 .. Len(q) - 1, j \in Good
      PROVE  j + 1 \in Good
    <2>1. j + 1 \in DOMAIN q /\ j + 1 \in 0 .. Len(q) /\ F[j] \in Values
        BY <1>3
    <2>2. At(m, q[j + 1], i) \in Values
        BY <2>1
    <2> QED
        BY <1>1, <2>1, <2>2, SumModulo DEF Sums
<1>4. \A j \in 0 .. Len(q) : j \in Good
    <2> HIDE DEF Good
    <2> QED BY <1>2, <1>3, UpTo, SMTT(30)
<1> QED
    BY <1>1, <1>4

\* Terms with the same elements have the same sum.
LEMMA CalcSame ==
    ASSUME NEW m, NEW l, NEW i, NEW T, NEW q \in Seq(T),
           \A j \in DOMAIN q : At(m, q[j], i) = At(l, q[j], i)
    PROVE  Calc(m, q, i) = Calc(l, q, i)
<1>1. PICK F : Calc(m, q, i) = F[Len(q)] /\ Sums(m, q, i, Len(q), F)
    BY CalcSteps
<1>2. PICK G : Calc(l, q, i) = G[Len(q)] /\ Sums(l, q, i, Len(q), G)
    BY CalcSteps
<1> DEFINE Good == {j \in 0 .. Len(q) : F[j] = G[j]}
<1>3. 0 \in Good
    BY <1>1, <1>2 DEF Sums
<1>4. ASSUME NEW j \in 0 .. Len(q) - 1, j \in Good
      PROVE  j + 1 \in Good
    <2>1. j + 1 \in DOMAIN q /\ j + 1 \in 0 .. Len(q) /\ F[j] = G[j]
        BY <1>4
    <2> QED
        BY <1>1, <1>2, <2>1 DEF Sums
<1>5. \A j \in 0 .. Len(q) : j \in Good
    <2> HIDE DEF Good
    <2> QED BY <1>3, <1>4, UpTo, SMTT(30)
<1> QED
    BY <1>1, <1>2, <1>5

\* The value of one term is its element.
LEMMA CalcOne ==
    ASSUME NEW m, NEW i, NEW t, At(m, t, i) \in Values
    PROVE  Calc(m, <<t>>, i) = At(m, t, i)
<1> DEFINE q == <<t>>
<1>1. q \in Seq({t}) /\ Len(q) = 1 /\ q[1] = t
    OBVIOUS
<1> HIDE DEF q
<1>2. PICK F : Calc(m, q, i) = F[1] /\ Sums(m, q, i, 1, F)
    BY <1>1, CalcSteps
<1>3. F[1] = (0 + At(m, t, i)) % M
    <2>1. 0 \in 0 .. 1 - 1 /\ 0 + 1 = 1
        OBVIOUS
    <2>2. F[0 + 1] = (F[0] + At(m, q[0 + 1], i)) % M
        BY <1>2, <2>1 DEF Sums
    <2> QED
        BY <1>1, <1>2, <2>1, <2>2 DEF Sums
<1>4. (0 + At(m, t, i)) % M = At(m, t, i)
    <2>1. At(m, t, i) \in 0 .. M - 1
        BY DEF Values
    <2>2. 0 + At(m, t, i) = At(m, t, i) /\ At(m, t, i) < M
        BY <2>1, StoreAssumption
    <2> QED
        BY <2>2, ZeroIsValue, SumModulo
<1> QED
    BY <1>2, <1>3, <1>4 DEF q

\* A JIT node over two children computes the sum of what they compute.
LEMMA CalcTwo ==
    ASSUME NEW m, NEW i, NEW T, NEW p \in Seq(T), NEW q \in Seq(T),
           \A j \in DOMAIN p : At(m, p[j], i) \in Values,
           \A j \in DOMAIN q : At(m, q[j], i) \in Values
    PROVE  Calc(m, p \o q, i) = (Calc(m, p, i) + Calc(m, q, i)) % M
<1> DEFINE pq == p \o q
           n == Len(p)
           k == Len(q)
<1>1. /\ pq \in Seq(T) /\ n \in Nat /\ k \in Nat /\ Len(pq) = n + k
      /\ \A j \in 1 .. n : pq[j] = p[j]
      /\ \A j \in 1 .. k : pq[n + j] = q[j]
    OBVIOUS
<1> HIDE DEF pq
<1>2. PICK F : Calc(m, p, i) = F[n] /\ Sums(m, p, i, n, F)
    BY CalcSteps
<1>3. PICK G : Calc(m, q, i) = G[k] /\ Sums(m, q, i, k, G)
    BY CalcSteps
<1>4. PICK H : Calc(m, pq, i) = H[n + k] /\ Sums(m, pq, i, n + k, H)
    BY <1>1, CalcSteps
<1> DEFINE Good == {j \in 0 .. n : F[j] = H[j]}
<1>5. H[n] = F[n]
    <2>1. 0 \in Good
        BY <1>1, <1>2, <1>4 DEF Sums
    <2>2. ASSUME NEW j \in 0 .. n - 1, j \in Good
          PROVE  j + 1 \in Good
        <3>1. j + 1 \in 1 .. n /\ j + 1 \in 0 .. n /\ F[j] = H[j] /\ j \in 0 .. (n + k) - 1
            BY <1>1, <2>2
        <3> HIDE DEF n, k
        <3> QED
            BY <1>1, <1>2, <1>4, <3>1 DEF Sums
    <2>3. \A j \in 0 .. n : j \in Good
        <3> HIDE DEF Good
        <3> QED BY <1>1, <2>1, <2>2, UpTo
    <2> QED
        BY <1>1, <2>3, SMTT(30)
<1>6. F[n] \in Values
    BY <1>2, CalcType
<1> DEFINE a == F[n]
           Sum == {j \in 0 .. k : G[j] \in Values /\ H[n + j] = (a + G[j]) % M}
<1>7. 0 \in Sum
    <2>1. a \in 0 .. M - 1 /\ M \in Nat \ {0}
        BY <1>6, StoreAssumption DEF Values
    <2>2. (a + 0) % M = a
        BY <1>6, <2>1, ZeroIsValue, SumModulo
    <2>3. n + 0 = n /\ 0 \in 0 .. k
        BY <1>1
    <2> HIDE DEF n, a
    <2> QED
        BY <1>3, <1>5, <2>2, <2>3, ZeroIsValue DEF a, Sums
<1>8. ASSUME NEW j \in 0 .. k - 1, j \in Sum
      PROVE  j + 1 \in Sum
    <2> DEFINE t == At(m, q[j + 1], i)
    <2>1. /\ j + 1 \in DOMAIN q /\ j + 1 \in 0 .. k /\ j + 1 \in 1 .. k
          /\ n + j \in 0 .. (n + k) - 1 /\ n + (j + 1) = (n + j) + 1
        BY <1>1
    <2>2. t \in Values /\ G[j] \in Values /\ H[n + j] = (a + G[j]) % M
        BY <1>8, <2>1
    <2>3. pq[(n + j) + 1] = q[j + 1]
        BY <1>1, <2>1
    <2> HIDE DEF n, k
    <2>4. PICK u : u = (a + G[j]) % M
        OBVIOUS
    <2>5. H[n + (j + 1)] = (u + t) % M
        BY <1>4, <2>1, <2>2, <2>3, <2>4 DEF Sums
    <2>6. G[j + 1] = (G[j] + t) % M /\ G[j + 1] \in Values
        BY <1>3, <2>2, SumModulo DEF Sums
    <2>7. (u + t) % M = (a + G[j + 1]) % M
        <3>1. a \in Values /\ t \in Values
            BY <1>6, <2>2
        <3> HIDE DEF t, a
        <3> QED
            BY <2>2, <2>4, <2>6, <3>1, SumModuloTwice
    <2>8. H[n + (j + 1)] = (a + G[j + 1]) % M
        BY <2>5, <2>7
    <2> HIDE DEF a
    <2> QED
        BY <2>1, <2>6, <2>8
<1>9. \A j \in 0 .. k : j \in Sum
    <2> HIDE DEF Sum
    <2> QED BY <1>1, <1>7, <1>8, UpTo
<1>10. H[n + k] = (a + G[k]) % M
    <2>1. k \in Sum
        <3> HIDE DEF Sum
        <3> QED BY <1>1, <1>9
    <2> HIDE DEF n, k, a
    <2> QED
        BY <2>1
<1> QED
    BY <1>2, <1>3, <1>4, <1>10 DEF pq

-----------------------------------------------------------------------------
(***************************************************************************)
(* Arrays, their nodes and their data.                                     *)
(***************************************************************************)

\* The state functions of the model, of an array and a memory
DataOf(a, m) == [i \in 0 .. a.len - 1 |->
                   IF a.terms = <<>> THEN m[a.buf][a.off + i] ELSE Calc(m, a.terms, i)]
NodeOf(a) == IF a.terms = <<>> THEN <<BufferNode(a.buf, a.off)>> ELSE a.terms
Owns(a, b) == a.buf = b \/ Mentions(a.terms, b)

LEMMA ArrayForms ==
    ASSUME NEW h
    PROVE  /\ \A m : Data(m, h) = DataOf(arr[h], m)
           /\ GetNode(h) = NodeOf(arr[h])
           /\ \A b : HeldByArray(h, b) <=> Owns(arr[h], b)
BY DEF Data, DataOf, GetNode, NodeOf, HeldByArray, Owns, Ready

\* All of n elements
FitAll(ts, n) == ts \in Seq(Terms) /\ \A j \in DOMAIN ts : Fits(ts[j], n)

LEMMA AtType ==
    ASSUME NEW m \in Memories, NEW n \in 0 .. Size, NEW t \in Terms, Fits(t, n),
           NEW i \in 0 .. n - 1
    PROVE  At(m, t, i) \in Values
<1>1. /\ Size \in Nat /\ t.buf \in Bufs \cup {NoBuf} /\ t.val \in Values /\ t.off \in 0 .. Size - 1
    BY StoreAssumption DEF Terms, Cells
<1>2. CASE t.buf = NoBuf
    BY <1>1, <1>2 DEF At
<1>3. CASE t.buf # NoBuf
    <2>1. t.buf \in Bufs /\ t.off + n <= Size
        BY <1>1, <1>3 DEF Fits
    <2>2. t.off + i \in Cells
        BY <1>1, <2>1 DEF Cells
    <2> QED
        BY <1>3, <2>1, <2>2 DEF At, Memories
<1> QED
    BY <1>2, <1>3

\* Terms that fit read inside their buffers.
LEMMA TermsData ==
    ASSUME NEW m \in Memories, NEW n \in 0 .. Size, NEW ts, FitAll(ts, n), NEW i \in 0 .. n - 1
    PROVE  /\ \A j \in DOMAIN ts : At(m, ts[j], i) \in Values
           /\ Calc(m, ts, i) \in Values
<1>1. ASSUME NEW j \in DOMAIN ts
      PROVE  At(m, ts[j], i) \in Values
    <2>1. ts[j] \in Terms /\ Fits(ts[j], n)
        BY DEF FitAll
    <2> QED
        BY <2>1, AtType
<1>2. ts \in Seq(Terms)
    BY DEF FitAll
<1> QED
    BY <1>1, <1>2, CalcType

\* The nodes of an array fit it, and mention the buffers it owns alone.
LEMMA NodeFits ==
    ASSUME NEW a, ArrayOK(a), a.len > 0
    PROVE  /\ FitAll(NodeOf(a), a.len) /\ NodeOf(a) # <<>> /\ a.len \in 0 .. Size
           /\ \A b \in Bufs : Mentions(NodeOf(a), b) => Owns(a, b)
<1>1. a \in Arrays /\ a.len \in 0 .. Size /\ Size \in Nat /\ a.off \in Nat /\ a.terms \in Seq(Terms)
    BY StoreAssumption DEF ArrayOK, Arrays
<1>2. CASE a.terms = <<>>
    <2> DEFINE t == BufferNode(a.buf, a.off)
    <2>1. a.buf \in Bufs /\ a.off + a.len <= Size
        BY <1>2 DEF ArrayOK
    <2>2. a.off \in Cells
        BY <1>1, <2>1 DEF Cells
    <2>3. t.buf = a.buf /\ t.off = a.off /\ t \in Terms
        BY <2>1, <2>2, ZeroIsValue DEF BufferNode, Terms
    <2> HIDE DEF t
    <2>4. NodeOf(a) = <<t>>
        BY <1>2 DEF NodeOf, t
    <2>5. <<t>> \in Seq(Terms) /\ DOMAIN <<t>> = {1} /\ <<t>>[1] = t /\ <<t>> # <<>>
        BY <2>3
    <2>6. Fits(t, a.len)
        BY <2>1, <2>3 DEF Fits
    <2>7. FitAll(<<t>>, a.len)
        BY <2>5, <2>6 DEF FitAll
    <2>8. \A b : Mentions(<<t>>, b) => a.buf = b
        BY <2>3, <2>5 DEF Mentions
    <2> QED
        BY <1>1, <2>4, <2>5, <2>7, <2>8 DEF Owns
<1>3. CASE a.terms # <<>>
    <2>1. NodeOf(a) = a.terms
        BY <1>3 DEF NodeOf
    <2>2. FitAll(a.terms, a.len)
        BY <1>1 DEF FitAll, ArrayOK
    <2> QED
        BY <1>1, <1>3, <2>1, <2>2 DEF Owns
<1> QED
    BY <1>2, <1>3

\* A view computes its elements as the node over it does.
LEMMA NodeData ==
    ASSUME NEW m \in Memories, NEW a, ArrayOK(a), a.len > 0, NEW i \in 0 .. a.len - 1
    PROVE  DataOf(a, m)[i] = Calc(m, NodeOf(a), i) /\ Calc(m, NodeOf(a), i) \in Values
<1>1. Calc(m, NodeOf(a), i) \in Values /\ \A j \in DOMAIN NodeOf(a) : At(m, NodeOf(a)[j], i) \in Values
    BY NodeFits, TermsData
<1>2. CASE a.terms = <<>>
    <2> DEFINE t == BufferNode(a.buf, a.off)
    <2>1. NodeOf(a) = <<t>> /\ a.buf # NoBuf
        BY <1>2, StoreAssumption DEF NodeOf, ArrayOK
    <2>2. t.buf = a.buf /\ t.off = a.off
        BY DEF BufferNode
    <2> HIDE DEF t
    <2>3. At(m, t, i) = m[a.buf][a.off + i]
        BY <2>1, <2>2 DEF At
    <2>4. 1 \in DOMAIN <<t>> /\ <<t>>[1] = t
        OBVIOUS
    <2>5. At(m, t, i) \in Values
        BY <1>1, <2>1, <2>4
    <2>6. Calc(m, <<t>>, i) = At(m, t, i)
        BY <2>5, CalcOne
    <2> QED
        BY <1>1, <1>2, <2>1, <2>3, <2>6 DEF DataOf
<1>3. CASE a.terms # <<>>
    BY <1>1, <1>3 DEF DataOf, NodeOf
<1> QED
    BY <1>2, <1>3

LEMMA DataType ==
    ASSUME NEW m \in Memories, NEW a, ArrayOK(a), a.len > 0
    PROVE  DataOf(a, m) \in [0 .. a.len - 1 -> Values]
<1>1. \A i \in 0 .. a.len - 1 : DataOf(a, m)[i] \in Values
    BY NodeData
<1> QED
    BY <1>1 DEF DataOf

\* A sum depends on the buffers its terms mention alone.
LEMMA CalcFrame ==
    ASSUME NEW m, NEW l, NEW ts \in Seq(Terms),
           \A b \in Bufs : Mentions(ts, b) => m[b] = l[b], NEW i
    PROVE  Calc(m, ts, i) = Calc(l, ts, i)
<1>1. ASSUME NEW j \in DOMAIN ts
      PROVE  At(m, ts[j], i) = At(l, ts[j], i)
    <2>1. ts[j].buf \in Bufs \cup {NoBuf}
        <3>1. ts[j] \in Terms
            OBVIOUS
        <3> QED
            BY <3>1 DEF Terms
    <2>2. CASE ts[j].buf = NoBuf
        BY <2>2 DEF At
    <2>3. CASE ts[j].buf # NoBuf
        <3>1. Mentions(ts, ts[j].buf)
            BY DEF Mentions
        <3>2. m[ts[j].buf] = l[ts[j].buf]
            BY <2>1, <2>3, <3>1
        <3> QED
            BY <2>3, <3>2 DEF At
    <2> QED
        BY <2>2, <2>3
<1> QED
    BY <1>1, CalcSame

\* The data of an array is in the buffers it owns.
LEMMA DataFrame ==
    ASSUME NEW m, NEW l, NEW a, ArrayOK(a),
           \A b \in Bufs : Owns(a, b) => m[b] = l[b]
    PROVE  DataOf(a, m) = DataOf(a, l)
<1>1. a.terms \in Seq(Terms) /\ a.len \in 0 .. Size /\ Size \in Nat
    BY StoreAssumption DEF ArrayOK, Arrays
<1>2. ASSUME NEW i \in 0 .. a.len - 1
      PROVE  /\ a.terms = <<>> => m[a.buf][a.off + i] = l[a.buf][a.off + i]
             /\ a.terms # <<>> => Calc(m, a.terms, i) = Calc(l, a.terms, i)
    <2>1. CASE a.terms = <<>>
        <3>1. a.buf \in Bufs
            BY <1>1, <2>1 DEF ArrayOK
        <3>2. m[a.buf] = l[a.buf]
            BY <3>1 DEF Owns
        <3> QED
            BY <2>1, <3>2
    <2>2. CASE a.terms # <<>>
        <3>1. \A b \in Bufs : Mentions(a.terms, b) => m[b] = l[b]
            BY DEF Owns
        <3>2. Calc(m, a.terms, i) = Calc(l, a.terms, i)
            BY <1>1, <3>1, CalcFrame, SMTT(60)
        <3> QED
            BY <2>2, <3>2
    <2> QED
        BY <2>1, <2>2
<1> QED
    BY <1>2 DEF DataOf

-----------------------------------------------------------------------------
(* What a kernel writes.                                                   *)

\* A kernel writes its cells of its destination and nothing else.
LEMMA RunTaskAt ==
    ASSUME NEW m \in Memories, NEW k, k.dst \in Bufs
    PROVE  /\ RunTask(m, k)[k.dst] = [c \in Cells |->
                  IF (c - k.off) \in k.cells THEN Calc(m, k.terms, c - k.off) ELSE m[k.dst][c]]
           /\ \A b \in Bufs \ {k.dst} : RunTask(m, k)[b] = m[b]
BY DEF RunTask, Memories

\* A kernel leaves values in every buffer.
LEMMA RunTaskType ==
    ASSUME NEW m \in Memories, NEW k \in Tasks
    PROVE  RunTask(m, k) \in Memories
<1>1. /\ TaskOK(k) /\ k.dst \in Bufs /\ k.cells \subseteq Cells /\ k.terms \in Seq(Terms)
    BY DEF Tasks, TaskOK
<1>2. ASSUME NEW c \in Cells, (c - k.off) \in k.cells
      PROVE  Calc(m, k.terms, c - k.off) \in Values
    <2> DEFINE i == c - k.off
    <2>1. \A j \in DOMAIN k.terms : k.terms[j] \in Terms
        BY <1>1
    <2>2. \A j \in DOMAIN k.terms : k.terms[j].buf \in Bufs => k.terms[j].off + i \in Cells
        BY <1>1, <1>2 DEF TaskOK
    <2> HIDE DEF i
    <2>3. ASSUME NEW j \in DOMAIN k.terms
          PROVE  At(m, k.terms[j], i) \in Values
        BY <2>1, <2>2 DEF At, Terms, Memories
    <2>4. Calc(m, k.terms, i) \in Values
        BY <1>1, <2>3, CalcType
    <2> QED
        BY <2>4 DEF i
<1>3. RunTask(m, k)[k.dst] \in [Cells -> Values]
    <2>1. m[k.dst] \in [Cells -> Values]
        BY <1>1 DEF Memories
    <2>2. RunTask(m, k)[k.dst] = [c \in Cells |->
               IF (c - k.off) \in k.cells THEN Calc(m, k.terms, c - k.off) ELSE m[k.dst][c]]
        BY <1>1, RunTaskAt
    <2> QED
        BY <1>2, <2>1, <2>2
<1> QED
    BY <1>1, <1>3 DEF RunTask, Memories

-----------------------------------------------------------------------------
(***************************************************************************)
(* What the steps of a call do to the arrays and to their contents.        *)
(***************************************************************************)

LEMMA ContentForms ==
    ASSUME NEW h
    PROVE  /\ Content(h) = DataOf(arr[h], Drained)
           /\ Content(h)' = DataOf(arr'[h], Drained')
<1>1. Content(h) = DataOf(arr[h], Drained)
    BY DEF Content, Data, DataOf, Ready
<1>2. Content(h)' = DataOf(arr'[h], Drained')
    BY DEF Content, Data, DataOf, Ready
<1> QED
    BY <1>1, <1>2

IsList(r) == r \in Seq({r[j] : j \in DOMAIN r})

\* The call is at the step s, and r is what follows.
Doing(s, r) == todo # <<>> /\ Head(todo) = s /\ Tail(todo) = r /\ IsList(r)

\* r is next, perhaps after the wait of enqueue.
Continues(r) == todo' = r \/ todo' = <<SyncStep>> \o r

\* A step that leaves a rest, perhaps behind a wait, keeps CallInv.
LEMMA CallContinues ==
    ASSUME NEW r, IsList(r), Continues(r), Rest(r)'
    PROVE  CallInv'
<1>1. CASE todo' = r
    BY <1>1 DEF CallInv
<1>2. CASE todo' = <<SyncStep>> \o r
    <2> DEFINE T == {r[j] : j \in DOMAIN r}
    <2>1. r \in Seq(T)
        BY DEF IsList
    <2> HIDE DEF T
    <2>2. <<SyncStep>> \o r # <<>> /\ Head(<<SyncStep>> \o r) = SyncStep /\ Tail(<<SyncStep>> \o r) = r
        BY <2>1
    <2> QED
        BY <1>2, <2>2 DEF CallInv
<1> QED
    BY <1>1, <1>2 DEF Continues

\* A step that enqueues a kernel changes Drained as the kernel does.
LEMMA EnqueueEffect ==
    ASSUME queue \in Seq(Tasks), NEW k \in Tasks, NEW r, IsList(r), Enqueue(k, r), mem' = mem
    PROVE  /\ queue' \in Seq(Tasks)
           /\ Drained' = RunTask(Drained, k)
           /\ Drained \in Memories => Drained' \in Memories
           /\ Continues(r)
<1>1. queue' = Append(queue, k)
    BY DEF Enqueue
<1>2. Drained' = Drain(mem, Append(queue, k)) /\ Drained = Drain(mem, queue)
    BY <1>1 DEF Drained, Drain
<1>3. Drained' = RunTask(Drained, k)
    BY <1>2, DrainAppend
<1>4. Drained \in Memories => RunTask(Drained, k) \in Memories
    BY RunTaskType
<1>5. queue' \in Seq(Tasks)
    BY <1>1
<1>6. Continues(r)
    <2>1. PICK pressure \in Pressures :
              todo' = (IF pressure \/ count + 1 >= SyncEvery THEN <<SyncStep>> ELSE <<>>) \o r
        BY DEF Enqueue
    <2>2. <<>> \o r = r
        BY DEF IsList
    <2> QED
        BY <2>1, <2>2 DEF Continues
<1> QED
    BY <1>3, <1>4, <1>5, <1>6

-----------------------------------------------------------------------------
(* A buffer of its own for an array: evaluation and copy.                  *)

FreshView(b, n, o) == [buf |-> b, off |-> 0, len |-> n, owner |-> o, terms |-> <<>>, height |-> 0]

MaterialTask(a, b, o) == [dst |-> b, off |-> 0, cells |-> 0 .. a.len - 1,
                          terms |-> NodeOf(a), owns |-> o]

LEMMA FreshViewOK ==
    ASSUME NEW b \in Bufs, NEW n \in 1 .. Size, NEW o \in BOOLEAN
    PROVE  ArrayOK(FreshView(b, n, o))
<1> DEFINE a == FreshView(b, n, o)
<1>1. /\ a.buf = b /\ a.off = 0 /\ a.len = n /\ a.owner = o /\ a.terms = <<>> /\ a.height = 0
    BY DEF FreshView
<1>2. Size \in Nat /\ MaxHeight \in Nat
    BY StoreAssumption
<1>3. <<>> \in Seq(Terms) /\ DOMAIN <<>> = {}
    OBVIOUS
<1>4. a \in Arrays
    BY <1>2, <1>3 DEF FreshView, Arrays
<1> HIDE DEF a
<1>5. a.len > 0 /\ a.off + a.len <= Size
    BY <1>1, <1>2
<1>6. \A i \in DOMAIN a.terms : Fits(a.terms[i], a.len)
    BY <1>1, <1>3
<1> QED
    BY <1>1, <1>4, <1>5, <1>6 DEF ArrayOK, a

LEMMA MaterialTaskOK ==
    ASSUME NEW a, ArrayOK(a), a.len > 0, NEW b \in Bufs, NEW o \in BOOLEAN
    PROVE  MaterialTask(a, b, o) \in Tasks
<1> DEFINE k == MaterialTask(a, b, o)
<1>1. k.dst = b /\ k.off = 0 /\ k.cells = 0 .. a.len - 1 /\ k.terms = NodeOf(a) /\ k.owns = o
    BY DEF MaterialTask
<1>2. Size \in Nat /\ a.len \in 0 .. Size /\ FitAll(NodeOf(a), a.len)
    BY NodeFits, StoreAssumption
<1>3. 0 .. a.len - 1 \subseteq Cells
    BY <1>2 DEF Cells
<1>4. k \in [dst : Bufs, off : Nat, cells : SUBSET Cells, terms : Seq(Terms), owns : BOOLEAN]
    BY <1>2, <1>3 DEF MaterialTask, FitAll
<1> HIDE DEF k
<1>5. ASSUME NEW c \in 0 .. a.len - 1, NEW j \in DOMAIN NodeOf(a), NodeOf(a)[j].buf \in Bufs
      PROVE  NodeOf(a)[j].off + c \in Cells
    <2>1. NodeOf(a)[j] \in Terms /\ Fits(NodeOf(a)[j], a.len)
        BY <1>2 DEF FitAll
    <2>2. NodeOf(a)[j].off \in Cells /\ NodeOf(a)[j].off + a.len <= Size
        BY <1>5, <2>1 DEF Fits, Terms
    <2> QED
        BY <1>2, <2>2 DEF Cells
<1>6. TaskOK(k)
    BY <1>1, <1>2, <1>3, <1>5 DEF TaskOK, FitAll, Cells
<1> QED
    BY <1>4, <1>6 DEF Tasks, k

LEMMA MaterialData ==
    ASSUME NEW m \in Memories, NEW a, ArrayOK(a), a.len > 0, NEW b \in Bufs,
           NEW o \in BOOLEAN, NEW p
    PROVE  DataOf(FreshView(b, a.len, p), RunTask(m, MaterialTask(a, b, o))) = DataOf(a, m)
<1> DEFINE k == MaterialTask(a, b, o)
           v == FreshView(b, a.len, p)
           l == RunTask(m, k)
<1>1. k.dst = b /\ k.off = 0 /\ k.cells = 0 .. a.len - 1 /\ k.terms = NodeOf(a)
    BY DEF MaterialTask
<1>2. v.buf = b /\ v.off = 0 /\ v.len = a.len /\ v.terms = <<>>
    BY DEF FreshView
<1>3. Size \in Nat /\ a.len \in 0 .. Size
    BY NodeFits, StoreAssumption
<1> HIDE DEF k, v
<1>4. l[b] = [c \in Cells |-> IF (c - 0) \in 0 .. a.len - 1 THEN Calc(m, NodeOf(a), c - 0) ELSE m[b][c]]
    <2>1. l[k.dst] = [c \in Cells |-> IF (c - k.off) \in k.cells
                                      THEN Calc(m, k.terms, c - k.off) ELSE m[k.dst][c]]
        BY <1>1, RunTaskAt
    <2> HIDE DEF l
    <2> QED
        BY <1>1, <2>1
<1> HIDE DEF l
<1>5. ASSUME NEW i \in 0 .. a.len - 1
      PROVE  l[b][0 + i] = DataOf(a, m)[i]
    <2>1. i \in Cells /\ i - 0 = i /\ 0 + i = i
        BY <1>3 DEF Cells
    <2>2. l[b][i] = Calc(m, NodeOf(a), i)
        BY <1>4, <2>1
    <2> QED
        BY <2>1, <2>2, NodeData
<1>6. DataOf(v, l) = [i \in 0 .. a.len - 1 |-> l[b][0 + i]]
    BY <1>2 DEF DataOf
<1>7. DataOf(a, m) = [i \in 0 .. a.len - 1 |-> DataOf(a, m)[i]]
    BY DEF DataOf
<1> QED
    BY <1>5, <1>6, <1>7 DEF v, l, k

\* A new buffer with the elements of an array disturbs no other array.
LEMMA MaterialEffect ==
    ASSUME TypeInv, DrainInv, NEW h \in Names, Live(h), NEW g \in Names, NEW b \in FreeBufs,
           NEW o \in BOOLEAN, NEW p \in BOOLEAN, NEW r, IsList(r),
           arr' = [arr EXCEPT ![g] = FreshView(b, arr[h].len, o)],
           Enqueue(MaterialTask(arr[h], b, p), r), UNCHANGED <<mem, val, seen>>
    PROVE  /\ TypeInv' /\ DrainInv' /\ Continues(r)
           /\ arr'[g] = FreshView(b, arr[h].len, o) /\ Alone(g)'
           /\ Plain => Content(g)' = Content(h)
           /\ \A f \in Names \ {g} :
                /\ arr'[f] = arr[f] /\ (Alone(f) => Alone(f)')
                /\ Plain => Content(f)' = Content(f)
<1> DEFINE k == MaterialTask(arr[h], b, p)
           v == FreshView(b, arr[h].len, o)
<1>1. PICK a : a = arr[h]
    OBVIOUS
<1>2. /\ b \in Bufs /\ ArrayOK(a) /\ a.len > 0 /\ a.len \in 1 .. Size
      /\ \A f \in Names : ~ Owns(arr[f], b)
    <2>1. b \in Bufs /\ \A f \in Names : ~ Owns(arr[f], b)
        BY DEF FreeBufs, HeldByArray, Owns
    <2>2. ArrayOK(a) /\ a.len > 0
        BY <1>1 DEF TypeInv, Live, ArrayOK, Arrays
    <2> QED
        BY <2>1, <2>2, NodeFits, StoreAssumption
<1>3. k \in Tasks
    BY <1>1, <1>2, MaterialTaskOK
<1>4. /\ queue' \in Seq(Tasks) /\ Drained' = RunTask(Drained, k)
      /\ Drained \in Memories => Drained' \in Memories
      /\ Continues(r)
    BY <1>3, EnqueueEffect DEF TypeInv
<1>5. /\ DOMAIN arr' = Names /\ arr' = [f \in DOMAIN arr' |-> arr'[f]]
      /\ arr'[g] = v /\ \A f \in Names \ {g} : arr'[f] = arr[f]
    BY DEF TypeInv
<1>6. ArrayOK(v) /\ v.height = 0 /\ v.buf = b /\ v.terms = <<>>
    BY <1>1, <1>2, FreshViewOK DEF FreshView
<1> HIDE DEF v
<1>7. TypeInv'
    <2>1. \A f \in Names : ArrayOK(arr'[f])
        BY <1>5, <1>6 DEF TypeInv
    <2>2. \A f \in Handles : arr'[f].height <= MaxHeight
        BY <1>5, <1>6, StoreAssumption DEF TypeInv, Names
    <2> QED
        BY <1>4, <1>5, <2>1, <2>2 DEF TypeInv
<1>8. DrainInv'
    BY <1>4 DEF DrainInv
<1>9. Alone(g)'
    <2> SUFFICES ASSUME NEW f \in Names \ {g} PROVE ~ Owns(arr'[f], arr'[g].buf)
        BY DEF Alone, SharedWithArrays, HeldByArray, Owns
    <2> QED
        BY <1>2, <1>5, <1>6
<1>10. ASSUME Plain PROVE Content(g)' = Content(h)
    <2>1. Drained \in Memories
        BY <1>10 DEF DrainInv
    <2>2. DataOf(FreshView(b, a.len, o), RunTask(Drained, MaterialTask(a, b, p))) = DataOf(a, Drained)
        BY <1>2, <2>1, MaterialData
    <2> QED
        BY <1>1, <1>4, <1>5, <2>2, ContentForms DEF v
<1>11. ASSUME NEW f \in Names \ {g}, Alone(f) PROVE Alone(f)'
    <2>1. arr'[f] = arr[f]
        BY <1>5
    <2> SUFFICES ASSUME arr[f].terms = <<>>, NEW e \in Names \ {f}, Owns(arr'[e], arr[f].buf)
                 PROVE  FALSE
        BY <2>1 DEF Alone, SharedWithArrays, HeldByArray, Owns, Ready
    <2>2. \A d \in Names \ {f} : ~ Owns(arr[d], arr[f].buf)
        BY <1>11 DEF Alone, SharedWithArrays, HeldByArray, Owns, Ready
    <2>3. e = g
        BY <1>5, <2>2
    <2>4. b = arr[f].buf
        BY <1>5, <1>6, <2>3 DEF Owns, Mentions
    <2>5. Owns(arr[f], b)
        BY <2>4 DEF Owns
    <2> QED
        BY <1>2, <2>5
<1>12. ASSUME Plain, NEW f \in Names \ {g} PROVE Content(f)' = Content(f)
    <2>1. Drained \in Memories
        BY <1>12 DEF DrainInv
    <2>2. k.dst = b
        BY DEF MaterialTask
    <2>3. \A c \in Bufs : Owns(arr[f], c) => RunTask(Drained, k)[c] = Drained[c]
        <3> HIDE DEF k
        <3>1. \A c \in Bufs \ {k.dst} : RunTask(Drained, k)[c] = Drained[c]
            BY <1>2, <2>1, <2>2, RunTaskAt
        <3> QED
            BY <1>2, <2>2, <3>1
    <2>4. ArrayOK(arr[f])
        BY DEF TypeInv
    <2>5. DataOf(arr[f], RunTask(Drained, k)) = DataOf(arr[f], Drained)
        BY <2>3, <2>4, DataFrame
    <2> QED
        BY <1>4, <1>5, <2>5, ContentForms
<1> QED
    BY <1>4, <1>5, <1>7, <1>8, <1>9, <1>10, <1>11, <1>12 DEF v

-----------------------------------------------------------------------------
(* The steps that leave every content as it is.                            *)

Preserves ==
    /\ val' = val
    /\ \A g \in Names :
         /\ arr'[g].len = arr[g].len
         /\ Ready(g) => Ready(g)'
         /\ Alone(g) => Alone(g)'
         /\ Plain /\ Live(g) => Content(g)' = Content(g)

\* A step with nothing to do.
LEMMA SkipEffect ==
    ASSUME TypeInv, DrainInv, NEW r, Tail(todo) = r, Skip, UNCHANGED <<val, seen>>
    PROVE  TypeInv' /\ DrainInv' /\ Preserves /\ todo' = r /\ UNCHANGED <<arr, mem, queue, val>>
<1>1. todo' = r /\ UNCHANGED <<arr, mem, queue, count, val, seen>>
    BY DEF Skip
<1>2. Drained' = Drained
    BY <1>1 DEF Drained
<1>3. TypeInv' /\ DrainInv'
    BY <1>1, <1>2 DEF TypeInv, DrainInv
<1>4. \A g : Content(g)' = Content(g)
    BY <1>1, <1>2, ContentForms
<1>5. \A g : /\ Ready(g)' <=> Ready(g)
             /\ Alone(g)' <=> Alone(g)
    BY <1>1 DEF Ready, Alone, SharedWithArrays, HeldByArray
<1> QED
    BY <1>1, <1>3, <1>4, <1>5 DEF Preserves

\* A new buffer for h itself, with the contents of h
LEMMA RenewEffect ==
    ASSUME TypeInv, DrainInv, NEW h \in Names, Live(h), NEW b \in FreeBufs,
           NEW o \in BOOLEAN, NEW p \in BOOLEAN, NEW r, IsList(r),
           arr' = [arr EXCEPT ![h] = FreshView(b, arr[h].len, o)],
           Enqueue(MaterialTask(arr[h], b, p), r), UNCHANGED <<mem, val, seen>>
    PROVE  TypeInv' /\ DrainInv' /\ Preserves /\ Ready(h)' /\ Alone(h)' /\ Continues(r)
<1>1. /\ TypeInv' /\ DrainInv' /\ Continues(r)
      /\ arr'[h] = FreshView(b, arr[h].len, o) /\ Alone(h)'
      /\ Plain => Content(h)' = Content(h)
      /\ \A f \in Names \ {h} :
           /\ arr'[f] = arr[f] /\ (Alone(f) => Alone(f)')
           /\ Plain => Content(f)' = Content(f)
    BY MaterialEffect, ZenonT(30)
<1>2. arr'[h].len = arr[h].len /\ Ready(h)'
    BY <1>1 DEF FreshView, Ready
<1>3. ASSUME NEW g \in Names
      PROVE  /\ arr'[g].len = arr[g].len
             /\ Ready(g) => Ready(g)'
             /\ Alone(g) => Alone(g)'
             /\ Plain /\ Live(g) => Content(g)' = Content(g)
    <2>1. CASE g = h
        BY <1>1, <1>2, <2>1
    <2>2. CASE g # h
        BY <1>1, <2>2 DEF Ready
    <2> QED
        BY <2>1, <2>2
<1> QED
    BY <1>1, <1>2, <1>3 DEF Preserves

LEMMA FreshViewIs ==
    ASSUME NEW b, NEW n, NEW o,
           NEW e \in [buf : {b}, off : {0}, len : {n}, owner : {o}, terms : {<<>>}, height : {0}]
    PROVE  e = FreshView(b, n, o)
BY DEF FreshView

\* eval() leaves a ready array with the same content.
LEMMA EvalEffect ==
    ASSUME TypeInv, DrainInv, NEW h \in Names, Live(h), NEW r, Doing(On("eval", h), r), Eval
    PROVE  /\ TypeInv' /\ DrainInv' /\ Preserves /\ Ready(h)' /\ Continues(r)
           /\ Ready(h) => queue' = queue
<1>1. Cur.x = h /\ Tail(todo) = r /\ IsList(r) /\ UNCHANGED <<val, seen>>
    BY DEF Doing, On, Cur, Eval
<1>2. CASE Ready(h)
    <2>1. Skip
        BY <1>1, <1>2 DEF Eval
    <2> QED
        BY <1>1, <1>2, <2>1, SkipEffect DEF Continues, Ready
<1>3. CASE ~ Ready(h)
    <2>1. PICK b \in FreeBufs : Evaluate(h, b)
        BY <1>1, <1>3 DEF Eval
    <2>2. UNCHANGED mem
        BY <1>1, <1>3 DEF Eval
    <2>3. PICK a : a = arr[h]
        OBVIOUS
    <2>4. /\ a \in Arrays /\ a.terms # <<>> /\ a.off = 0 /\ a.owner \in BOOLEAN
        BY <1>3, <2>3 DEF TypeInv, ArrayOK, Arrays, Ready
    <2>5. MaterialTask(a, b, TRUE)
              = [dst |-> b, off |-> 0, cells |-> 0 .. a.len - 1, terms |-> a.terms, owns |-> TRUE]
        BY <2>4 DEF MaterialTask, NodeOf
    <2>6. Enqueue(MaterialTask(arr[h], b, TRUE), r)
        BY <1>1, <2>1, <2>3, <2>5 DEF Evaluate
    <2>7. arr' = [arr EXCEPT ![h] = FreshView(b, arr[h].len, a.owner)]
        <3>1. arr' = [arr EXCEPT ![h].buf = b, ![h].terms = <<>>, ![h].height = 0]
            BY <2>1 DEF Evaluate
        <3>2. arr' = [arr EXCEPT ![h] = [a EXCEPT !.buf = b, !.terms = <<>>, !.height = 0]]
            BY <2>3, <3>1 DEF TypeInv
        <3>3. [a EXCEPT !.buf = b, !.terms = <<>>, !.height = 0] = FreshView(b, a.len, a.owner)
            <4>1. PICK e : e = [a EXCEPT !.buf = b, !.terms = <<>>, !.height = 0]
                OBVIOUS
            <4>2. e \in [buf : {b}, off : {0}, len : {a.len}, owner : {a.owner},
                         terms : {<<>>}, height : {0}]
                BY <2>4, <4>1 DEF Arrays
            <4> QED
                BY <4>1, <4>2, FreshViewIs, ZenonT(30)
        <3> QED
            BY <2>3, <3>2, <3>3
    <2> QED
        BY <1>1, <1>3, <2>2, <2>4, <2>6, <2>7, RenewEffect
<1> QED
    BY <1>2, <1>3

LEMMA CopyIntoIs ==
    ASSUME TypeInv, NEW h \in Names, NEW g \in Names, CopyInto(h, g), NEW r, Tail(todo) = r
    PROVE  \E b \in FreeBufs :
               /\ arr' = [arr EXCEPT ![g] = FreshView(b, arr[h].len, TRUE)]
               /\ Enqueue(MaterialTask(arr[h], b, FALSE), r)
               /\ UNCHANGED mem
<1>1. PICK b \in FreeBufs :
          /\ arr' = [arr EXCEPT ![g] = [NoArray EXCEPT !.buf = b, !.len = arr[h].len]]
          /\ Enqueue([dst |-> b, off |-> 0, cells |-> 0 .. arr[h].len - 1,
                      terms |-> GetNode(h), owns |-> FALSE], Tail(todo))
          /\ UNCHANGED mem
    BY DEF CopyInto
<1>2. [NoArray EXCEPT !.buf = b, !.len = arr[h].len] = FreshView(b, arr[h].len, TRUE)
    <2>1. PICK e : e = [NoArray EXCEPT !.buf = b, !.len = arr[h].len]
        OBVIOUS
    <2>2. e \in [buf : {b}, off : {0}, len : {arr[h].len}, owner : {TRUE},
                 terms : {<<>>}, height : {0}]
        BY <2>1 DEF NoArray
    <2> QED
        BY <2>1, <2>2, FreshViewIs, ZenonT(30)
<1>3. MaterialTask(arr[h], b, FALSE)
          = [dst |-> b, off |-> 0, cells |-> 0 .. arr[h].len - 1, terms |-> GetNode(h), owns |-> FALSE]
    BY ArrayForms DEF MaterialTask
<1> QED
    BY <1>1, <1>2, <1>3

\* cow, own and device: a copy unless nothing shares the buffer
LEMMA CopyWhenEffect ==
    ASSUME TypeInv, DrainInv, NEW h \in Names, Live(h), NEW s, NEW r, Doing(s, r),
           CopyInto(h, h) \/ (Skip /\ Alone(h)), UNCHANGED <<val, seen>>
    PROVE  TypeInv' /\ DrainInv' /\ Preserves /\ Alone(h)' /\ Continues(r)
<1>1. Tail(todo) = r /\ IsList(r)
    BY DEF Doing
<1>2. CASE Skip /\ Alone(h)
    <2>1. TypeInv' /\ DrainInv' /\ Preserves /\ todo' = r
        BY <1>1, <1>2, SkipEffect
    <2> QED
        BY <1>2, <2>1 DEF Preserves, Continues
<1>3. CASE CopyInto(h, h)
    <2>1. PICK b \in FreeBufs :
              /\ arr' = [arr EXCEPT ![h] = FreshView(b, arr[h].len, TRUE)]
              /\ Enqueue(MaterialTask(arr[h], b, FALSE), r)
              /\ UNCHANGED mem
        BY <1>1, <1>3, CopyIntoIs
    <2> QED
        BY <1>1, <2>1, RenewEffect
<1> QED
    BY <1>2, <1>3

\* copyArray leaves an array of its own with the content of the other.
LEMMA CopyEffect ==
    ASSUME TypeInv, DrainInv, NEW h \in Names, Live(h), NEW g \in Names \ {h}, NEW r,
           Doing(CopyStep(h, g), r), Copy
    PROVE  /\ TypeInv' /\ DrainInv' /\ Continues(r) /\ val' = val
           /\ Ready(g)' /\ arr'[g].len = arr[h].len /\ Alone(g)'
           /\ Plain => Content(g)' = Content(h)
           /\ \A f \in Names \ {g} :
                arr'[f] = arr[f] /\ (Plain => Content(f)' = Content(f))
<1>1. Cur.x = h /\ Cur.y = g /\ Tail(todo) = r /\ IsList(r) /\ UNCHANGED <<val, seen>>
    BY DEF Doing, CopyStep, Cur, Copy
<1>2. CopyInto(h, g)
    BY <1>1 DEF Copy
<1>3. PICK b \in FreeBufs :
          /\ arr' = [arr EXCEPT ![g] = FreshView(b, arr[h].len, TRUE)]
          /\ Enqueue(MaterialTask(arr[h], b, FALSE), r)
          /\ UNCHANGED mem
    BY <1>1, <1>2, CopyIntoIs
<1>4. /\ TypeInv' /\ DrainInv' /\ Continues(r)
      /\ arr'[g] = FreshView(b, arr[h].len, TRUE) /\ Alone(g)'
      /\ Plain => Content(g)' = Content(h)
      /\ \A f \in Names \ {g} :
           /\ arr'[f] = arr[f] /\ (Alone(f) => Alone(f)')
           /\ Plain => Content(f)' = Content(f)
    <2>1. g \in Names
        OBVIOUS
    <2>2. UNCHANGED <<mem, val, seen>>
        BY <1>1, <1>3
    <2>3. TRUE \in BOOLEAN /\ FALSE \in BOOLEAN /\ IsList(r)
        BY <1>1
    <2> QED
        BY <1>3, <2>1, <2>2, <2>3, MaterialEffect
<1>5. Ready(g)' /\ arr'[g].len = arr[h].len
    BY <1>4 DEF FreshView, Ready
<1> QED
    BY <1>1, <1>4, <1>5

-----------------------------------------------------------------------------
(* A kernel that writes into an array.                                     *)

\* A copy into an array changes its cells, and no array that shares nothing.
LEMMA WriteEffect ==
    ASSUME TypeInv, DrainInv, NEW x \in Names, Live(x), Ready(x), NEW y \in Names, Live(y),
           NEW i \in Nat, NEW cells, cells \subseteq 0 .. arr[y].len - 1,
           \A c \in cells : i + c < arr[x].len,
           NEW r, Doing(WriteStep(x, i, cells, y), r), Write
    PROVE  /\ TypeInv' /\ DrainInv' /\ Continues(r) /\ UNCHANGED <<arr, val>>
           /\ Plain /\ Alone(x) => \A f \in Names \ {x} : Content(f)' = Content(f)
           /\ Plain => Content(x)' = [c \in All(x) |-> IF c - i \in cells
                                         THEN Content(y)[c - i] ELSE Content(x)[c]]
<1> DEFINE k == [dst |-> arr[x].buf, off |-> arr[x].off + i, cells |-> cells,
                 terms |-> GetNode(y), owns |-> FALSE]
<1>1. /\ Cur.x = x /\ Cur.y = y /\ Cur.off = i /\ Cur.cells = cells
      /\ Tail(todo) = r /\ IsList(r)
    BY DEF Doing, WriteStep, Cur
<1>2. Enqueue(k, r) /\ UNCHANGED <<arr, mem, val, seen>>
    BY <1>1 DEF Write
<1>3. PICK a : a = arr[x]
    OBVIOUS
<1>4. PICK e : e = arr[y]
    OBVIOUS
<1>5. /\ ArrayOK(a) /\ a.terms = <<>> /\ a.len > 0 /\ a.buf \in Bufs /\ a.off \in Nat
      /\ a.off + a.len <= Size /\ Size \in Nat /\ a.len \in 0 .. Size
    <2>1. ArrayOK(a) /\ a.terms = <<>> /\ a.len > 0 /\ a.len \in 0 .. Size
        BY <1>3 DEF TypeInv, Live, Ready, ArrayOK, Arrays
    <2> QED
        BY <2>1, StoreAssumption DEF ArrayOK, Arrays
<1>6. ArrayOK(e) /\ e.len > 0 /\ e.len \in 0 .. Size /\ FitAll(NodeOf(e), e.len)
    <2>1. ArrayOK(e) /\ e.len > 0
        BY <1>4 DEF TypeInv, Live, ArrayOK, Arrays
    <2> QED
        BY <2>1, NodeFits
<1>7. k.dst = a.buf /\ k.off = a.off + i /\ k.cells = cells /\ k.terms = NodeOf(e) /\ k.owns = FALSE
    BY <1>3, <1>4, ArrayForms
<1>8. k \in Tasks
    <2>1. cells \subseteq Cells
        BY <1>4, <1>5, <1>6 DEF Cells
    <2>2. k \in [dst : Bufs, off : Nat, cells : SUBSET Cells, terms : Seq(Terms), owns : BOOLEAN]
        BY <1>3, <1>4, <1>5, <1>6, <2>1, ArrayForms DEF FitAll
    <2> HIDE DEF k
    <2>3. ASSUME NEW c \in cells
          PROVE  k.off + c \in Cells
        <3>1. c \in Nat /\ i + c < a.len
            BY <1>3, <1>4, <1>6
        <3> QED
            BY <1>5, <1>7, <3>1 DEF Cells
    <2>4. ASSUME NEW c \in cells, NEW j \in DOMAIN NodeOf(e), NodeOf(e)[j].buf \in Bufs
          PROVE  NodeOf(e)[j].off + c \in Cells
        <3>1. NodeOf(e)[j] \in Terms /\ Fits(NodeOf(e)[j], e.len)
            BY <1>6 DEF FitAll
        <3>2. NodeOf(e)[j].off \in Cells /\ NodeOf(e)[j].off + e.len <= Size
            BY <2>4, <3>1 DEF Fits, Terms
        <3>3. c \in 0 .. e.len - 1
            BY <1>4
        <3> QED
            BY <1>5, <1>6, <3>2, <3>3, SMTT(30) DEF Cells
    <2>5. TaskOK(k)
        <3>1. k.dst \in Bufs /\ k.off \in Nat /\ k.owns \in BOOLEAN
            BY <2>2
        <3>2. k.terms \in Seq(Terms) /\ k.terms = NodeOf(e)
            BY <1>6, <1>7 DEF FitAll
        <3> QED
            BY <1>7, <2>1, <2>3, <2>4, <3>1, <3>2 DEF TaskOK
    <2> QED
        BY <2>2, <2>5 DEF Tasks
<1> HIDE DEF k
<1>9. /\ queue' \in Seq(Tasks) /\ Drained' = RunTask(Drained, k)
      /\ Drained \in Memories => Drained' \in Memories
      /\ Continues(r)
    BY <1>1, <1>2, <1>8, EnqueueEffect DEF TypeInv
<1>10. TypeInv' /\ DrainInv'
    BY <1>2, <1>9 DEF TypeInv, DrainInv
<1>11. ASSUME Plain, Alone(x), NEW f \in Names \ {x}
       PROVE  Content(f)' = Content(f)
    <2>1. Drained \in Memories
        BY <1>11 DEF DrainInv
    <2>2. ~ Owns(arr[f], a.buf)
        BY <1>3, <1>11 DEF Alone, SharedWithArrays, HeldByArray, Owns
    <2>3. \A b \in Bufs \ {k.dst} : RunTask(Drained, k)[b] = Drained[b]
        BY <1>5, <1>7, <2>1, RunTaskAt
    <2>4. ArrayOK(arr[f]) /\ \A b \in Bufs : Owns(arr[f], b) => RunTask(Drained, k)[b] = Drained[b]
        BY <1>7, <2>2, <2>3 DEF TypeInv
    <2>5. DataOf(arr[f], RunTask(Drained, k)) = DataOf(arr[f], Drained)
        BY <2>4, DataFrame
    <2> QED
        BY <1>2, <1>9, <2>5, ContentForms
<1>12. ASSUME Plain
       PROVE  Content(x)' = [c \in All(x) |-> IF c - i \in cells
                                THEN Content(y)[c - i] ELSE Content(x)[c]]
    <2> DEFINE l == RunTask(Drained, k)
    <2>1. Drained \in Memories
        BY <1>12 DEF DrainInv
    <2>2. l[a.buf] = [c \in Cells |-> IF (c - (a.off + i)) \in cells
                          THEN Calc(Drained, NodeOf(e), c - (a.off + i)) ELSE Drained[a.buf][c]]
        <3>1. l[k.dst] = [c \in Cells |-> IF (c - k.off) \in k.cells
                              THEN Calc(Drained, k.terms, c - k.off) ELSE Drained[k.dst][c]]
            BY <1>5, <1>7, <2>1, RunTaskAt
        <3> HIDE DEF l
        <3> QED
            BY <1>7, <3>1
    <2>3. DataOf(a, l) = [c \in 0 .. a.len - 1 |-> l[a.buf][a.off + c]]
        BY <1>5 DEF DataOf
    <2>4. DataOf(a, Drained) = [c \in 0 .. a.len - 1 |-> Drained[a.buf][a.off + c]]
        BY <1>5 DEF DataOf
    <2> HIDE DEF l
    <2>5. ASSUME NEW c \in 0 .. a.len - 1
          PROVE  l[a.buf][a.off + c] = IF c - i \in cells THEN DataOf(e, Drained)[c - i]
                                       ELSE DataOf(a, Drained)[c]
        <3>1. a.off + c \in Cells /\ (a.off + c) - (a.off + i) = c - i
            BY <1>5, SMTT(30) DEF Cells
        <3>2. l[a.buf][a.off + c] = IF c - i \in cells THEN Calc(Drained, NodeOf(e), c - i)
                                    ELSE Drained[a.buf][a.off + c]
            BY <2>2, <3>1
        <3>3. c - i \in cells => Calc(Drained, NodeOf(e), c - i) = DataOf(e, Drained)[c - i]
            BY <1>4, <1>6, <2>1, NodeData
        <3> QED
            BY <2>4, <3>2, <3>3
    <2>6. DataOf(a, l) = [c \in 0 .. a.len - 1 |-> IF c - i \in cells
                             THEN DataOf(e, Drained)[c - i] ELSE DataOf(a, Drained)[c]]
        BY <2>3, <2>5
    <2>7. Content(x)' = DataOf(a, l) /\ Content(x) = DataOf(a, Drained) /\ Content(y) = DataOf(e, Drained)
        BY <1>2, <1>3, <1>4, <1>9, ContentForms DEF l
    <2>8. All(x) = 0 .. a.len - 1
        BY <1>3 DEF All
    <2> QED
        BY <2>6, <2>7, <2>8
<1> QED
    BY <1>2, <1>9, <1>10, <1>11, <1>12

\* The host writes all of an array while no kernel waits.
LEMMA HostCopyEffect ==
    ASSUME TypeInv, DrainInv, NEW x \in Names, Live(x), Ready(x), arr[x].len = Size, Alone(x),
           Plain => queue = <<>>, NEW d \in HostData, NEW r, Doing(HostStep(x, d), r), HostCopy
    PROVE  /\ TypeInv' /\ DrainInv' /\ todo' = r /\ UNCHANGED <<arr, val, queue>>
           /\ Plain => \A f \in Names \ {x} : Content(f)' = Content(f)
           /\ Plain => Content(x)' = d
<1>1. Cur.x = x /\ Cur.data = d /\ Tail(todo) = r
    BY DEF Doing, HostStep, Cur
<1>2. PICK a : a = arr[x]
    OBVIOUS
<1>3. /\ a.terms = <<>> /\ a.len = Size /\ a.buf \in Bufs /\ a.off = 0 /\ Size \in Nat
      /\ d \in [0 .. Size - 1 -> Values]
    <2>1. ArrayOK(a) /\ a.terms = <<>> /\ a.len > 0 /\ a.len = Size /\ Size \in Nat
        BY <1>2, StoreAssumption DEF TypeInv, Live, Ready
    <2>2. a.buf \in Bufs /\ a.off \in Nat /\ a.off + Size <= Size
        BY <2>1 DEF ArrayOK, Arrays
    <2>3. a.off = 0
        BY <2>1, <2>2
    <2> QED
        BY <2>1, <2>2, <2>3, StoreAssumption DEF Values
<1>4. /\ todo' = r /\ UNCHANGED <<arr, queue, val, seen>>
      /\ mem' = [mem EXCEPT ![a.buf] = [c \in Cells |-> IF c - a.off \in 0 .. a.len - 1
                                                       THEN d[c - a.off] ELSE mem[a.buf][c]]]
    BY <1>1, <1>2 DEF HostCopy, TypeInv, Memories
<1>5. mem' = [mem EXCEPT ![a.buf] = d]
    <2>1. [c \in Cells |-> IF c - a.off \in 0 .. a.len - 1 THEN d[c - a.off] ELSE mem[a.buf][c]]
              = [c \in Cells |-> d[c]]
        BY <1>3 DEF Cells
    <2>2. [c \in Cells |-> d[c]] = d
        BY <1>3 DEF Cells
    <2> QED
        BY <1>4, <2>1, <2>2
<1>6. mem \in Memories /\ d \in [Cells -> Values]
    BY <1>3 DEF TypeInv, Cells
<1>7. mem' \in Memories /\ mem'[a.buf] = d /\ \A b \in Bufs \ {a.buf} : mem'[b] = mem[b]
    BY <1>3, <1>5, <1>6 DEF Memories
<1>8. TypeInv'
    BY <1>4, <1>7 DEF TypeInv
<1>9. ASSUME Plain PROVE Drained' = mem' /\ Drained = mem
    <2>1. queue = <<>> /\ queue' = <<>>
        BY <1>4, <1>9
    <2>2. Drained = Drain(mem, <<>>) /\ Drained' = Drain(mem', <<>>)
        BY <2>1 DEF Drained, Drain
    <2> QED
        BY <2>2, DrainEmpty
<1>10. DrainInv'
    BY <1>4, <1>7, <1>9 DEF DrainInv
<1>11. ASSUME Plain PROVE Content(x)' = d
    <2>1. Content(x)' = DataOf(a, mem')
        BY <1>2, <1>4, <1>9, <1>11, ContentForms
    <2>2. DataOf(a, mem') = [c \in 0 .. Size - 1 |-> d[0 + c]]
        BY <1>3, <1>7 DEF DataOf
    <2>3. [c \in 0 .. Size - 1 |-> d[0 + c]] = d
        BY <1>3
    <2> QED
        BY <2>1, <2>2, <2>3
<1>12. ASSUME Plain, NEW f \in Names \ {x} PROVE Content(f)' = Content(f)
    <2>1. ~ Owns(arr[f], a.buf)
        BY <1>2 DEF Alone, SharedWithArrays, HeldByArray, Owns
    <2>2. ArrayOK(arr[f]) /\ \A b \in Bufs : Owns(arr[f], b) => mem'[b] = mem[b]
        BY <1>7, <2>1 DEF TypeInv
    <2>3. DataOf(arr[f], mem') = DataOf(arr[f], mem)
        BY <2>2, DataFrame
    <2> QED
        BY <1>4, <1>9, <1>12, <2>3, ContentForms
<1> QED
    BY <1>4, <1>8, <1>10, <1>11, <1>12

-----------------------------------------------------------------------------
(* Another array for a handle or for Tmp; the memory stays.                *)

Sets(y, new) ==
    /\ ArrayOK(new) /\ (y \in Handles => new.height <= MaxHeight)
    /\ arr' = [arr EXCEPT ![y] = new]
    /\ UNCHANGED <<mem, queue, seen>>
    /\ DOMAIN val' = Names /\ val' = [h \in DOMAIN val' |-> val'[h]]

\* A step that builds an array without a kernel leaves the others alone.
LEMMA SetEffect ==
    ASSUME TypeInv, DrainInv, NEW y \in Names, NEW new, Sets(y, new)
    PROVE  /\ TypeInv' /\ DrainInv'
           /\ arr'[y] = new /\ Content(y)' = DataOf(new, Drained)
           /\ \A f \in Names \ {y} :
                /\ arr'[f] = arr[f] /\ Content(f)' = Content(f)
                /\ Alone(f) /\ ~ Owns(new, arr[f].buf) => Alone(f)'
<1>1. /\ DOMAIN arr' = Names /\ arr' = [f \in DOMAIN arr' |-> arr'[f]]
      /\ arr'[y] = new /\ \A f \in Names \ {y} : arr'[f] = arr[f]
    BY DEF TypeInv, Sets
<1>2. Drained' = Drained
    BY DEF Drained, Sets
<1>3. TypeInv'
    <2>1. \A f \in Names : ArrayOK(arr'[f])
        BY <1>1 DEF TypeInv, Sets
    <2>2. \A f \in Handles : arr'[f].height <= MaxHeight
        BY <1>1 DEF TypeInv, Names, Sets
    <2> QED
        BY <1>1, <2>1, <2>2 DEF TypeInv, Sets
<1>4. DrainInv'
    BY <1>2 DEF DrainInv, Sets
<1>5. Content(y)' = DataOf(new, Drained) /\ \A f \in Names \ {y} : Content(f)' = Content(f)
    BY <1>1, <1>2, ContentForms
<1>6. ASSUME NEW f \in Names \ {y}, Alone(f), ~ Owns(new, arr[f].buf)
      PROVE  Alone(f)'
    <2>1. arr'[f] = arr[f]
        BY <1>1
    <2> SUFFICES ASSUME arr[f].terms = <<>>, NEW e \in Names \ {f}, Owns(arr'[e], arr[f].buf)
                 PROVE  FALSE
        BY <2>1 DEF Alone, SharedWithArrays, HeldByArray, Owns, Ready
    <2>2. \A d \in Names \ {f} : ~ Owns(arr[d], arr[f].buf)
        BY <1>6 DEF Alone, SharedWithArrays, HeldByArray, Owns, Ready
    <2> QED
        BY <1>1, <1>6, <2>2
<1> QED
    BY <1>1, <1>3, <1>4, <1>5, <1>6

-----------------------------------------------------------------------------
(* The worker, and the client's wait for it.                               *)

Stays ==
    /\ UNCHANGED <<arr, val>>
    /\ queue = <<>> => queue' = <<>>
    /\ Plain => \A g : Content(g)' = Content(g)

\* The worker changes no content.
LEMMA WorkerEffect ==
    ASSUME TypeInv, DrainInv, Worker
    PROVE  TypeInv' /\ DrainInv' /\ Stays
<1>1. /\ queue # <<>> /\ mem' = RunTask(mem, Head(queue)) /\ queue' = Tail(queue)
      /\ UNCHANGED <<arr, count, todo, val, seen>>
    BY DEF Worker
<1>2. queue \in Seq(Tasks) /\ Head(queue) \in Tasks /\ Tail(queue) \in Seq(Tasks)
    BY <1>1 DEF TypeInv
<1>3. mem' \in Memories
    BY <1>1, <1>2, RunTaskType DEF TypeInv
<1>4. TypeInv'
    BY <1>1, <1>2, <1>3 DEF TypeInv
<1>5. Drained' = Drained
    <2>1. Drained' = Drain(RunTask(mem, Head(queue)), Tail(queue)) /\ Drained = Drain(mem, queue)
        BY <1>1 DEF Drained, Drain
    <2> QED
        BY <1>1, <1>2, <2>1, DrainTail
<1>6. DrainInv'
    BY <1>1, <1>5 DEF DrainInv
<1>7. \A g : Content(g)' = Content(g)
    BY <1>1, <1>5, ContentForms
<1> QED
    BY <1>1, <1>4, <1>6, <1>7 DEF Stays

\* sync() changes no content and leaves an empty queue.
LEMMA SyncEffect ==
    ASSUME TypeInv, DrainInv, Sync
    PROVE  TypeInv' /\ DrainInv' /\ Stays /\ queue' = <<>> /\ todo' = Tail(todo)
<1>1. queue = <<>> /\ todo' = Tail(todo) /\ UNCHANGED <<arr, mem, queue, val, seen>>
    BY DEF Sync
<1>2. Drained' = Drained
    BY <1>1 DEF Drained
<1>3. \A g : Content(g)' = Content(g)
    BY <1>1, <1>2, ContentForms
<1>4. TypeInv' /\ DrainInv'
    BY <1>1, <1>2 DEF TypeInv, DrainInv
<1> QED
    BY <1>1, <1>3, <1>4 DEF Stays

-----------------------------------------------------------------------------
(***************************************************************************)
(* The step that a call is at.                                             *)
(***************************************************************************)

LEMMA List1 == ASSUME NEW a, todo = <<a>> PROVE Doing(a, <<>>)
BY DEF Doing, IsList

LEMMA List2 == ASSUME NEW a, NEW b, todo = <<a, b>> PROVE Doing(a, <<b>>)
BY DEF Doing, IsList

LEMMA List3 == ASSUME NEW a, NEW b, NEW c, todo = <<a, b, c>> PROVE Doing(a, <<b, c>>)
BY DEF Doing, IsList

LEMMA List4 ==
    ASSUME NEW a, NEW b, NEW c, NEW d, todo = <<a, b, c, d>>
    PROVE  Doing(a, <<b, c, d>>)
BY DEF Doing, IsList

LEMMA List5 ==
    ASSUME NEW a, NEW b, NEW c, NEW d, NEW e, todo = <<a, b, c, d, e>>
    PROVE  Doing(a, <<b, c, d, e>>)
BY DEF Doing, IsList

LEMMA List6 ==
    ASSUME NEW a, NEW b, NEW c, NEW d, NEW e, NEW f, todo = <<a, b, c, d, e, f>>
    PROVE  Doing(a, <<b, c, d, e, f>>)
BY DEF Doing, IsList

\* The step that runs is the one at the head.
LEMMA StepAt ==
    ASSUME NEW s, Head(todo) = s, Steps
    PROVE  /\ s.op = "sync" => Sync
           /\ s.op = "eval" => Eval
           /\ s.op = "copy" => Copy
           /\ s.op = "cow" => CopyOnWrite
           /\ s.op = "own" => CopyNotOwned
           /\ s.op = "device" => CopyForDevice
           /\ s.op = "write" => Write
           /\ s.op = "memcpy" => HostCopy
           /\ s.op = "read" => HostRead
           /\ s.op = "sub" => SubArray
           /\ s.op = "node" => Node
           /\ s.op = "moddims" => ModDims
           /\ s.op = "constant" => Constant
           /\ s.op = "drop" => Drop
<1>1. Head(todo).op = s.op
    OBVIOUS
<1>2. /\ Sync => s.op = "sync"
      /\ Eval => s.op = "eval"
      /\ Copy => s.op = "copy"
      /\ CopyOnWrite => s.op = "cow"
      /\ CopyNotOwned => s.op = "own"
      /\ CopyForDevice => s.op = "device"
      /\ Write => s.op = "write"
      /\ HostCopy => s.op = "memcpy"
      /\ HostRead => s.op = "read"
      /\ SubArray => s.op = "sub"
      /\ Node => s.op = "node"
      /\ ModDims => s.op = "moddims"
      /\ Constant => s.op = "constant"
      /\ Drop => s.op = "drop"
    BY <1>1 DEF Do, Sync, Eval, Copy, CopyOnWrite, CopyNotOwned, CopyForDevice, Write,
                HostCopy, HostRead, SubArray, Node, ModDims, Constant, Drop
<1> QED
    BY <1>2 DEF Steps

LEMMA StepOf ==
    ASSUME NEW s, NEW r, Doing(s, r), Steps
    PROVE  /\ s.op = "sync" => Sync
           /\ s.op = "eval" => Eval
           /\ s.op = "copy" => Copy
           /\ s.op = "cow" => CopyOnWrite
           /\ s.op = "own" => CopyNotOwned
           /\ s.op = "device" => CopyForDevice
           /\ s.op = "write" => Write
           /\ s.op = "memcpy" => HostCopy
           /\ s.op = "read" => HostRead
           /\ s.op = "sub" => SubArray
           /\ s.op = "node" => Node
           /\ s.op = "moddims" => ModDims
           /\ s.op = "constant" => Constant
           /\ s.op = "drop" => Drop
BY StepAt DEF Doing

-----------------------------------------------------------------------------
(* A step of the worker, or the wait, changes nothing that a call needs.   *)

LEMMA StaysForms ==
    ASSUME Stays
    PROVE  /\ \A h : /\ Live(h)' <=> Live(h)
                     /\ Empty(h)' <=> Empty(h)
                     /\ Ready(h)' <=> Ready(h)
                     /\ Alone(h)' <=> Alone(h)
                     /\ arr'[h] = arr[h] /\ val'[h] = val[h]
                     /\ Plain /\ Holds(h) => Holds(h)'
                     /\ Plain /\ OthersHold(h) => OthersHold(h)'
                     /\ All(h)' = All(h)
           /\ Plain /\ AllHold => AllHold'
           /\ Plain => \A h : Content(h)' = Content(h)
           /\ Plain => \A h, i, cells, w : Pending(h, i, cells, w) => Pending(h, i, cells, w)'
<1>1. /\ arr' = arr /\ val' = val /\ (Plain => \A g : Content(g)' = Content(g))
    BY DEF Stays
<1>2. ASSUME NEW h
      PROVE  /\ Live(h)' <=> Live(h)
             /\ Empty(h)' <=> Empty(h)
             /\ Ready(h)' <=> Ready(h)
             /\ Alone(h)' <=> Alone(h)
             /\ All(h)' = All(h)
    BY <1>1 DEF Live, Empty, Ready, Alone, SharedWithArrays, HeldByArray, All
<1>3. ASSUME Plain, NEW h, Holds(h) PROVE Holds(h)'
    BY <1>1, <1>2, <1>3 DEF Holds
<1>4. ASSUME Plain, NEW h, OthersHold(h) PROVE OthersHold(h)'
    BY <1>3, <1>4 DEF OthersHold
<1>5. ASSUME Plain, AllHold PROVE AllHold'
    BY <1>3, <1>5 DEF AllHold
<1>6. ASSUME Plain, NEW h, NEW i, NEW cells, NEW w, Pending(h, i, cells, w)
      PROVE  Pending(h, i, cells, w)'
    BY <1>1, <1>2, <1>6 DEF Pending
<1> QED
    BY <1>1, <1>2, <1>3, <1>4, <1>5, <1>6

\* Every rest of a call survives a step that changes no content.
LEMMA RestStays ==
    ASSUME Stays, NEW t, Rest(t)
    PROVE  Rest(t)'
<1>1. Idle(t) => Idle(t)'
    BY StaysForms DEF Idle
<1>2. ASSUME Evals(t) PROVE Evals(t)'
    <2>1. PICK h \in Handles : Evaluating(t, h)
        BY <1>2 DEF Evals
    <2>2. Evaluating(t, h)'
        BY <2>1, StaysForms DEF Evaluating
    <2> QED
        BY <2>2 DEF Evals
<1>3. ASSUME Copies(t) PROVE Copies(t)'
    <2>1. PICK h \in Handles, g \in Handles : Copying(t, h, g)
        BY <1>3 DEF Copies
    <2>2. Copying(t, h, g)'
        BY <2>1, StaysForms DEF Copying
    <2> QED
        BY <2>2 DEF Copies
<1>4. ASSUME Indexes(t) PROVE Indexes(t)'
    <2>1. PICK h \in Handles, g \in Handles, i \in Cells, n \in 1 .. Size : Indexing(t, h, g, i, n)
        BY <1>4 DEF Indexes
    <2>2. Indexing(t, h, g, i, n)'
        BY <2>1, StaysForms DEF Indexing
    <2> QED
        BY <2>2 DEF Indexes
<1>5. ASSUME Adds(t) PROVE Adds(t)'
    <2>1. PICK h \in Handles, k \in Handles, g \in Handles : Adding(t, h, k, g)
        BY <1>5 DEF Adds
    <2>2. Adding(t, h, k, g)'
        BY <2>1, StaysForms DEF Adding
    <2> QED
        BY <2>2 DEF Adds
<1>6. ASSUME Reads(t) PROVE Reads(t)'
    <2>1. PICK h \in Handles : Reading(t, h)
        BY <1>6 DEF Reads
    <2>2. Reading(t, h)'
        BY <2>1, StaysForms DEF Reading, Stays
    <2> QED
        BY <2>2 DEF Reads
<1>7. ASSUME AssignsOut(t) PROVE AssignsOut(t)'
    <2>1. PICK h \in Handles, g \in Handles, s \in {"copy", "moddims"}, i \in Cells,
                  n \in 1 .. Size, k \in Sources : AssigningOut(t, h, g, s, i, n, k)
        BY <1>7 DEF AssignsOut
    <2>2. AssigningOut(t, h, g, s, i, n, k)'
        BY <2>1, StaysForms DEF AssigningOut, SourceOK
    <2> QED
        BY <2>2 DEF AssignsOut
<1>8. ASSUME Assigns(t) PROVE Assigns(t)'
    <2>1. PICK h \in Handles, i \in Cells, n \in 1 .. Size, k \in Sources : Assigning(t, h, i, n, k)
        BY <1>8 DEF Assigns
    <2>2. Assigning(t, h, i, n, k)'
        BY <2>1, StaysForms DEF Assigning, SourceOK, SourceData
    <2> QED
        BY <2>2 DEF Assigns
<1>9. ASSUME Stores(t) PROVE Stores(t)'
    <2>1. PICK h \in Handles, i \in Cells, n \in 1 .. Size : Storing(t, h, i, n)
        BY <1>9 DEF Stores
    <2>2. Storing(t, h, i, n)'
        BY <2>1, StaysForms DEF Storing
    <2> QED
        BY <2>2 DEF Stores
<1>10. Drops(t) => Drops(t)'
    BY StaysForms DEF Drops
<1>11. ASSUME Replaces(t) PROVE Replaces(t)'
    <2>1. PICK h \in Handles, b \in Handles, cells \in SUBSET Cells : Replacing(t, h, b, cells)
        BY <1>11 DEF Replaces
    <2>2. Replacing(t, h, b, cells)'
        BY <2>1, StaysForms DEF Replacing
    <2> QED
        BY <2>2 DEF Replaces
<1>12. ASSUME Overwrites(t) PROVE Overwrites(t)'
    <2>1. PICK h \in Handles, d \in HostData : Overwriting(t, h, d)
        BY <1>12 DEF Overwrites
    <2>2. Overwriting(t, h, d)'
        BY <2>1, StaysForms DEF Overwriting, Stays
    <2> QED
        BY <2>2 DEF Overwrites
<1> QED
    BY <1>1, <1>2, <1>3, <1>4, <1>5, <1>6, <1>7, <1>8, <1>9, <1>10, <1>11, <1>12 DEF Rest

-----------------------------------------------------------------------------
(***************************************************************************)
(* The steps of each call.                                                 *)
(***************************************************************************)

LEMMA NamesAre == Handles \subseteq Names /\ Tmp \in Names /\ Tmp \notin Handles
BY StoreAssumption DEF Names

LEMMA PreservesForms ==
    ASSUME Preserves
    PROVE  /\ \A h \in Names :
                /\ Live(h)' <=> Live(h)
                /\ Empty(h)' <=> Empty(h)
                /\ Ready(h) => Ready(h)'
                /\ Alone(h) => Alone(h)'
                /\ arr'[h].len = arr[h].len /\ val'[h] = val[h]
                /\ All(h)' = All(h)
                /\ Plain /\ OthersHold(h) => OthersHold(h)'
                /\ Plain /\ Live(h) => Content(h)' = Content(h)
                /\ Plain /\ Live(h) => \A i, cells, w : Pending(h, i, cells, w) => Pending(h, i, cells, w)'
           /\ Plain /\ AllHold => AllHold'
<1>1. /\ val' = val
      /\ \A g \in Names :
           /\ arr'[g].len = arr[g].len
           /\ Ready(g) => Ready(g)'
           /\ Alone(g) => Alone(g)'
           /\ Plain /\ Live(g) => Content(g)' = Content(g)
    BY DEF Preserves
<1>2. ASSUME NEW h \in Names
      PROVE  /\ Live(h)' <=> Live(h)
             /\ Empty(h)' <=> Empty(h)
             /\ All(h)' = All(h)
    BY <1>1 DEF Live, Empty, All
<1>3. ASSUME Plain, NEW h \in Handles, Holds(h) PROVE Holds(h)'
    BY <1>1, <1>2, <1>3, NamesAre DEF Holds
<1>4. ASSUME Plain, NEW h \in Names, OthersHold(h) PROVE OthersHold(h)'
    BY <1>3, <1>4 DEF OthersHold
<1>5. ASSUME Plain, AllHold PROVE AllHold'
    BY <1>3, <1>5 DEF AllHold
<1>6. ASSUME Plain, NEW h \in Names, Live(h), NEW i, NEW cells, NEW w, Pending(h, i, cells, w)
      PROVE  Pending(h, i, cells, w)'
    BY <1>1, <1>2, <1>6 DEF Pending
<1> QED
    BY <1>1, <1>2, <1>4, <1>5, <1>6

\* After copy on write nothing shares the array.
LEMMA CowEffect ==
    ASSUME TypeInv, DrainInv, NEW h \in Names, Live(h), NEW r, Doing(On("cow", h), r), Steps
    PROVE  TypeInv' /\ DrainInv' /\ Preserves /\ Alone(h)' /\ Continues(r)
<1>1. On("cow", h).op = "cow" /\ On("cow", h).x = h
    BY DEF On
<1>2. CopyOnWrite /\ Cur.x = h
    BY <1>1, StepOf DEF Doing, Cur
<1>3. CopyInto(h, h) \/ (Skip /\ Alone(h))
    BY <1>2 DEF CopyOnWrite, CopyWhen, WriteNeedsCopy, Shared, Alone
<1>4. UNCHANGED <<val, seen>>
    BY <1>2 DEF CopyOnWrite, CopyWhen
<1> QED
    BY <1>3, <1>4, CopyWhenEffect

LEMMA EvalStepEffect ==
    ASSUME TypeInv, DrainInv, NEW h \in Names, Live(h), NEW r, Doing(On("eval", h), r), Steps
    PROVE  /\ TypeInv' /\ DrainInv' /\ Preserves /\ Ready(h)' /\ Continues(r)
           /\ Ready(h) => queue' = queue
<1>1. On("eval", h).op = "eval"
    BY DEF On
<1>2. Eval
    BY <1>1, StepOf
<1> QED
    BY <1>2, EvalEffect

LEMMA EvaluatingStep ==
    ASSUME TypeInv, DrainInv, Evals(todo), Steps
    PROVE  TypeInv' /\ DrainInv' /\ CallInv'
<1>1. PICK h \in Handles : Evaluating(todo, h)
    BY DEF Evals
<1>2. h \in Names /\ Live(h) /\ Empty(Tmp) /\ (Plain => AllHold)
    BY <1>1, NamesAre DEF Evaluating
<1>3. TypeInv' /\ DrainInv' /\ Preserves /\ Continues(<<>>)
    <2>1. CASE todo = <<On("eval", h)>>
        BY <1>2, <2>1, List1, EvalStepEffect
    <2>2. CASE todo = <<On("cow", h)>>
        BY <1>2, <2>2, List1, CowEffect
    <2> QED
        BY <1>1, <2>1, <2>2 DEF Evaluating
<1>4. Idle(<<>>)'
    BY <1>2, <1>3, PreservesForms, NamesAre DEF Idle
<1>5. IsList(<<>>) /\ Rest(<<>>)'
    BY <1>4 DEF IsList, Rest
<1> QED
    BY <1>3, <1>5, CallContinues

LEMMA CopyingStep ==
    ASSUME TypeInv, DrainInv, Copies(todo), Steps
    PROVE  TypeInv' /\ DrainInv' /\ CallInv'
<1>1. PICK h \in Handles, g \in Handles : Copying(todo, h, g)
    BY DEF Copies
<1>2. /\ h \in Names /\ g \in Names /\ g # h /\ Live(h) /\ Empty(g) /\ Empty(Tmp)
      /\ Plain => AllHold /\ val[g] = val[h]
    BY <1>1, NamesAre DEF Copying, Empty
<1>3. CASE todo = <<On("eval", h), CopyStep(h, g)>>
    <2>1. Doing(On("eval", h), <<CopyStep(h, g)>>)
        BY <1>3, List2
    <2>2. TypeInv' /\ DrainInv' /\ Preserves /\ Ready(h)' /\ Continues(<<CopyStep(h, g)>>)
        BY <1>2, <2>1, EvalStepEffect
    <2>3. Copying(<<CopyStep(h, g)>>, h, g)'
        BY <1>2, <2>2, PreservesForms, NamesAre DEF Copying
    <2>4. Rest(<<CopyStep(h, g)>>)'
        BY <2>3 DEF Rest, Copies
    <2> QED
        BY <2>1, <2>2, <2>4, CallContinues DEF Doing
<1>4. CASE todo = <<CopyStep(h, g)>> /\ Ready(h)
    <2>1. Doing(CopyStep(h, g), <<>>)
        BY <1>4, List1
    <2>2. Copy
        BY <2>1, StepOf DEF CopyStep
    <2>3. /\ TypeInv' /\ DrainInv' /\ Continues(<<>>) /\ val' = val
          /\ Ready(g)' /\ arr'[g].len = arr[h].len /\ Alone(g)'
          /\ Plain => Content(g)' = Content(h)
          /\ \A f \in Names \ {g} :
               arr'[f] = arr[f] /\ (Plain => Content(f)' = Content(f))
        BY <1>2, <2>1, <2>2, CopyEffect
    <2>4. Empty(Tmp)'
        BY <1>2, <2>3, NamesAre DEF Empty, Live
    <2>5. ASSUME Plain PROVE AllHold'
        <3> SUFFICES ASSUME NEW f \in Handles PROVE Holds(f)'
            BY DEF AllHold
        <3>1. CASE f = g
            <4>1. Content(g)' = Content(h) /\ Content(h) = val[h] /\ val'[g] = val[h]
                BY <1>2, <2>3, <2>5 DEF AllHold, Holds
            <4> QED
                BY <3>1, <4>1 DEF Holds
        <3>2. CASE f # g
            <4>1. Content(f)' = Content(f) /\ arr'[f] = arr[f] /\ Holds(f)
                BY <1>2, <2>3, <2>5, <3>2, NamesAre DEF AllHold
            <4> QED
                BY <2>3, <4>1 DEF Holds, Live
        <3> QED
            BY <3>1, <3>2
    <2>6. Rest(<<>>)'
        BY <2>4, <2>5 DEF Rest, Idle
    <2> QED
        BY <2>1, <2>3, <2>6, CallContinues DEF Doing
<1> QED
    BY <1>1, <1>3, <1>4 DEF Copying

-----------------------------------------------------------------------------
(***************************************************************************)
(* Arrays that a call makes: views and expressions.                        *)
(***************************************************************************)

\* The nodes of one child.
LEMMA FlattenOne == ASSUME NEW p PROVE FlattenSeq(<<p>>) = p
<1> DEFINE s == <<p>>
           Is(f) == f = [i \in 1 .. 1 |-> IF i = 1 THEN s[i] ELSE f[i - 1] \o s[i]]
           it == CHOOSE f : Is(f)
           F == [i \in 1 .. 1 |-> p]
<1>1. Len(s) = 1 /\ s[1] = p
    OBVIOUS
<1>2. FlattenSeq(s) = it[1]
    BY <1>1 DEF FlattenSeq
<1>3. Is(F)
    BY <1>1
<1>4. Is(it)
    <2> HIDE DEF Is
    <2> QED
        BY <1>3
<1>5. it[1] = p
    <2> HIDE DEF s, it
    <2> QED
        BY <1>1, <1>4
<1> QED
    BY <1>2, <1>5

LEMMA FlattenTwo == ASSUME NEW p, NEW q PROVE FlattenSeq(<<p, q>>) = p \o q
<1> DEFINE s == <<p, q>>
           Is(f) == f = [i \in 1 .. 2 |-> IF i = 1 THEN s[i] ELSE f[i - 1] \o s[i]]
           it == CHOOSE f : Is(f)
           F == [i \in 1 .. 2 |-> IF i = 1 THEN p ELSE p \o q]
<1>1. Len(s) = 2 /\ s[1] = p /\ s[2] = q
    OBVIOUS
<1>2. FlattenSeq(s) = it[2]
    BY <1>1 DEF FlattenSeq
<1>3. Is(F)
    <2>1. \A i \in 1 .. 2 : i = 1 \/ i = 2
        OBVIOUS
    <2>2. F[1] = p /\ F[2] = p \o q
        OBVIOUS
    <2> HIDE DEF s
    <2>3. \A i \in 1 .. 2 : F[i] = IF i = 1 THEN s[i] ELSE F[i - 1] \o s[i]
        BY <1>1, <2>1, <2>2
    <2> QED
        BY <2>3
<1>4. Is(it)
    <2> HIDE DEF Is, F
    <2> QED
        BY <1>3
<1>5. it[2] = p \o q
    <2> HIDE DEF s, it
    <2>1. it[1] = p
        BY <1>1, <1>4
    <2>2. it[2] = it[1] \o s[2]
        <3>1. 2 \in 1 .. 2 /\ 2 # 1 /\ 2 - 1 = 1
            OBVIOUS
        <3>2. it[2] = it[2 - 1] \o s[2]
            BY <1>4, <3>1
        <3> QED
            BY <3>1, <3>2
    <2> QED
        BY <1>1, <2>1, <2>2
<1> QED
    BY <1>2, <1>5

LEMMA MaxOfTwo == ASSUME NEW a \in Nat, NEW b \in Nat PROVE Max({a, b}) \in {a, b}
<1>1. \E x \in {a, b} : \A y \in {a, b} : x >= y
    OBVIOUS
<1> QED
    BY <1>1 DEF Max

\* An array that is not evaluated
Lazy(n, ts, height) == [buf |-> NoBuf, off |-> 0, len |-> n, owner |-> TRUE,
                        terms |-> ts, height |-> height]

\* An expression of fitting terms is an array.
LEMMA LazyOK ==
    ASSUME NEW n \in 1 .. Size, NEW ts, FitAll(ts, n), ts # <<>>, NEW height \in 0 .. MaxHeight + 1
    PROVE  /\ ArrayOK(Lazy(n, ts, height)) /\ Lazy(n, ts, height).len = n
           /\ \A b \in Bufs : Owns(Lazy(n, ts, height), b) => Mentions(ts, b)
           /\ \A m : DataOf(Lazy(n, ts, height), m) = [i \in 0 .. n - 1 |-> Calc(m, ts, i)]
<1> DEFINE a == Lazy(n, ts, height)
<1>1. /\ a.buf = NoBuf /\ a.off = 0 /\ a.len = n /\ a.owner = TRUE /\ a.terms = ts
      /\ a.height = height
    BY DEF Lazy
<1>2. Size \in Nat /\ MaxHeight \in Nat /\ NoBuf \notin Bufs
    BY StoreAssumption
<1>3. a \in Arrays
    BY <1>2 DEF Lazy, Arrays, FitAll
<1> HIDE DEF a
<1>4. ArrayOK(a)
    BY <1>1, <1>2, <1>3 DEF ArrayOK, FitAll
<1>5. \A b \in Bufs : Owns(a, b) => Mentions(ts, b)
    BY <1>1, <1>2 DEF Owns
<1>6. \A m : DataOf(a, m) = [i \in 0 .. n - 1 |-> Calc(m, ts, i)]
    BY <1>1 DEF DataOf
<1> QED
    BY <1>1, <1>4, <1>5, <1>6 DEF a

LEMMA LazyIs ==
    ASSUME NEW n, NEW ts, NEW height,
           NEW e \in [buf : {NoBuf}, off : {0}, len : {n}, owner : {TRUE}, terms : {ts}, height : {height}]
    PROVE  e = Lazy(n, ts, height)
BY DEF Lazy

LEMMA ScalarLazy ==
    ASSUME NEW n \in 1 .. Size, NEW v \in ScalarData
    PROVE  /\ ArrayOK(Lazy(n, <<Scalar(v)>>, 0)) /\ Lazy(n, <<Scalar(v)>>, 0).len = n
           /\ Lazy(n, <<Scalar(v)>>, 0).height = 0
           /\ \A b \in Bufs : ~ Owns(Lazy(n, <<Scalar(v)>>, 0), b)
           /\ \A m : DataOf(Lazy(n, <<Scalar(v)>>, 0), m) = [i \in 0 .. n - 1 |-> v]
<1> DEFINE t == Scalar(v)
<1>1. Size \in Nat /\ MaxHeight \in Nat /\ NoBuf \notin Bufs /\ v \in Values
    BY StoreAssumption DEF Values
<1>2. t.buf = NoBuf /\ t.val = v /\ t \in Terms
    BY <1>1 DEF Scalar, Terms, Cells
<1> HIDE DEF t
<1>3. <<t>> \in Seq(Terms) /\ DOMAIN <<t>> = {1} /\ <<t>>[1] = t /\ <<t>> # <<>>
    BY <1>2
<1>4. FitAll(<<t>>, n)
    BY <1>1, <1>2, <1>3 DEF FitAll, Fits
<1>5. \A b \in Bufs : ~ Mentions(<<t>>, b)
    BY <1>1, <1>2, <1>3 DEF Mentions
<1>6. \A m, i : Calc(m, <<t>>, i) = v
    <2> TAKE m, i
    <2>1. At(m, t, i) = v
        BY <1>2 DEF At
    <2> QED
        BY <1>1, <2>1, CalcOne
<1>7. 0 \in 0 .. MaxHeight + 1
    BY <1>1
<1>8. /\ ArrayOK(Lazy(n, <<t>>, 0)) /\ Lazy(n, <<t>>, 0).len = n
      /\ \A b \in Bufs : Owns(Lazy(n, <<t>>, 0), b) => Mentions(<<t>>, b)
      /\ \A m : DataOf(Lazy(n, <<t>>, 0), m) = [i \in 0 .. n - 1 |-> Calc(m, <<t>>, i)]
    BY <1>3, <1>4, <1>7, LazyOK
<1>9. Lazy(n, <<t>>, 0).height = 0
    BY DEF Lazy
<1> QED
    BY <1>5, <1>6, <1>8, <1>9 DEF t

\* What a node over two arrays computes
LEMMA TwoTerms ==
    ASSUME NEW a, NEW e, ArrayOK(a), ArrayOK(e), a.len > 0, e.len = a.len
    PROVE  /\ FitAll(NodeOf(a) \o NodeOf(e), a.len) /\ NodeOf(a) \o NodeOf(e) # <<>>
           /\ \A m \in Memories :
                [i \in 0 .. a.len - 1 |-> Calc(m, NodeOf(a) \o NodeOf(e), i)]
                    = Total(DataOf(a, m), DataOf(e, m), a.len)
<1> DEFINE p == NodeOf(a)
           q == NodeOf(e)
<1>1. /\ FitAll(p, a.len) /\ p # <<>> /\ a.len \in 0 .. Size /\ FitAll(q, a.len)
      /\ \A m \in Memories, i \in 0 .. a.len - 1 :
           DataOf(a, m)[i] = Calc(m, p, i) /\ DataOf(e, m)[i] = Calc(m, q, i)
    BY NodeFits, NodeData
<1> HIDE DEF p, q
<1>2. p \in Seq(Terms) /\ q \in Seq(Terms)
    BY <1>1 DEF FitAll
<1>3. /\ p \o q \in Seq(Terms) /\ p \o q # <<>>
      /\ \A j \in DOMAIN (p \o q) :
           (\E k \in DOMAIN p : (p \o q)[j] = p[k]) \/ (\E k \in DOMAIN q : (p \o q)[j] = q[k])
    <2>1. /\ Len(p) \in Nat /\ Len(q) \in Nat /\ DOMAIN p = 1 .. Len(p) /\ DOMAIN q = 1 .. Len(q)
          /\ DOMAIN (p \o q) = 1 .. Len(p) + Len(q)
        BY <1>2
    <2>2. ASSUME NEW j \in 1 .. Len(p) + Len(q)
          PROVE  (\E k \in DOMAIN p : (p \o q)[j] = p[k]) \/ (\E k \in DOMAIN q : (p \o q)[j] = q[k])
        <3>1. CASE j <= Len(p)
            BY <1>2, <2>1, <3>1
        <3>2. CASE j > Len(p)
            <4>1. j - Len(p) \in DOMAIN q /\ (p \o q)[j] = q[j - Len(p)]
                BY <1>2, <2>1, <3>2
            <4> QED
                BY <4>1
        <3> QED
            BY <2>1, <3>1, <3>2
    <2> QED
        BY <1>1, <1>2, <2>1, <2>2
<1>4. FitAll(p \o q, a.len)
    BY <1>1, <1>3 DEF FitAll
<1>5. ASSUME NEW m \in Memories, NEW i \in 0 .. a.len - 1
      PROVE  Calc(m, p \o q, i) = (DataOf(a, m)[i] + DataOf(e, m)[i]) % M
    <2>1. /\ \A j \in DOMAIN p : At(m, p[j], i) \in Values
          /\ \A j \in DOMAIN q : At(m, q[j], i) \in Values
        BY <1>1, TermsData
    <2>2. Calc(m, p \o q, i) = (Calc(m, p, i) + Calc(m, q, i)) % M
        BY <1>2, <2>1, CalcTwo
    <2> QED
        BY <1>1, <2>2
<1>6. \A m \in Memories : [i \in 0 .. a.len - 1 |-> Calc(m, p \o q, i)]
          = Total(DataOf(a, m), DataOf(e, m), a.len)
    BY <1>5 DEF Total
<1> QED
    BY <1>3, <1>4, <1>6 DEF p, q

\* createBinaryNode
LEMMA NodeEffect ==
    ASSUME TypeInv, DrainInv, NEW h \in Handles, NEW k \in Handles, NEW g \in Handles,
           Live(h), Live(k), arr[h].len = arr[k].len,
           arr[h].height < MaxHeight, arr[k].height < MaxHeight,
           NEW r, Doing(NodeStep(<<h, k>>, g), r), Node
    PROVE  /\ TypeInv' /\ DrainInv' /\ todo' = r /\ val' = val
           /\ arr'[g].len = arr[h].len
           /\ Plain => Content(g)' = Total(Content(h), Content(k), arr[h].len)
           /\ \A f \in Names \ {g} : arr'[f] = arr[f] /\ Content(f)' = Content(f)
<1>1. PICK a : a = arr[h]
    OBVIOUS
<1>2. PICK e : e = arr[k]
    OBVIOUS
<1>3. /\ h \in Names /\ k \in Names /\ g \in Names /\ MaxHeight \in Nat /\ Size \in Nat
      /\ ArrayOK(a) /\ ArrayOK(e) /\ a.len > 0 /\ e.len = a.len /\ a.len \in 1 .. Size
      /\ a.height \in Nat /\ e.height \in Nat /\ a.height < MaxHeight /\ e.height < MaxHeight
    <2>1. h \in Names /\ k \in Names /\ g \in Names /\ MaxHeight \in Nat /\ Size \in Nat
        BY NamesAre, StoreAssumption
    <2>2. ArrayOK(a) /\ ArrayOK(e) /\ a.len > 0 /\ e.len = a.len
        BY <1>1, <1>2, <2>1 DEF TypeInv, Live
    <2> QED
        BY <1>1, <1>2, <2>1, <2>2, SMTT(30) DEF ArrayOK, Arrays
<1>4. Cur.children = <<h, k>> /\ Cur.y = g /\ Tail(todo) = r
    BY DEF Doing, NodeStep, Cur
<1>5. todo' = r /\ UNCHANGED <<mem, queue, count, val, seen>>
    BY <1>4 DEF Node
<1>6. FlattenSeq([i \in DOMAIN <<h, k>> |-> GetNode(<<h, k>>[i])]) = NodeOf(a) \o NodeOf(e)
    <2>1. [i \in DOMAIN <<h, k>> |-> GetNode(<<h, k>>[i])] = <<GetNode(h), GetNode(k)>>
        OBVIOUS
    <2> QED
        BY <1>1, <1>2, <2>1, FlattenTwo, ArrayForms
<1>7. PICK n \in Nat : n = TallestOf(<<h, k>>) + 1 /\ n <= MaxHeight
    <2>1. {arr[<<h, k>>[i]].height : i \in DOMAIN <<h, k>>} = {a.height, e.height}
        BY <1>1, <1>2
    <2>2. TallestOf(<<h, k>>) \in {a.height, e.height}
        BY <1>3, <2>1, MaxOfTwo DEF TallestOf
    <2> QED
        BY <1>3, <2>2
<1> DEFINE ts == NodeOf(a) \o NodeOf(e)
           new == Lazy(a.len, ts, n)
<1>8. arr' = [arr EXCEPT ![g] = new]
    <2>1. PICK x : x = [NoArray EXCEPT !.len = a.len, !.terms = ts, !.height = n]
        OBVIOUS
    <2>2. arr' = [arr EXCEPT ![g] = x]
        <3>1. <<h, k>>[1] = h
            OBVIOUS
        <3> QED
            BY <1>1, <1>4, <1>6, <1>7, <2>1, <3>1 DEF Node
    <2>3. x \in [buf : {NoBuf}, off : {0}, len : {a.len}, owner : {TRUE}, terms : {ts}, height : {n}]
        BY <2>1 DEF NoArray
    <2> QED
        BY <2>2, <2>3, LazyIs
<1>9. /\ FitAll(ts, a.len) /\ ts # <<>>
      /\ \A m \in Memories : [i \in 0 .. a.len - 1 |-> Calc(m, ts, i)]
             = Total(DataOf(a, m), DataOf(e, m), a.len)
    BY <1>3, TwoTerms
<1> HIDE DEF ts
<1>10. /\ ArrayOK(new) /\ new.len = a.len
       /\ \A m : DataOf(new, m) = [i \in 0 .. a.len - 1 |-> Calc(m, ts, i)]
    BY <1>3, <1>7, <1>9, LazyOK
<1>11. new.height <= MaxHeight
    BY <1>7 DEF Lazy
<1>12. PICK w : w = new
    OBVIOUS
<1> HIDE DEF new
<1>13. /\ TypeInv' /\ DrainInv'
       /\ arr'[g] = w /\ Content(g)' = DataOf(w, Drained)
       /\ \A f \in Names \ {g} : arr'[f] = arr[f] /\ Content(f)' = Content(f)
    <2>1. Sets(g, w)
        BY <1>5, <1>8, <1>10, <1>11, <1>12 DEF Sets, TypeInv
    <2> QED
        BY <1>3, <2>1, SetEffect
<1>14. ASSUME Plain PROVE Content(g)' = Total(Content(h), Content(k), arr[h].len)
    <2>1. Drained \in Memories
        BY <1>14 DEF DrainInv
    <2>2. Content(h) = DataOf(a, Drained) /\ Content(k) = DataOf(e, Drained)
        BY <1>1, <1>2, ContentForms
    <2> QED
        BY <1>1, <1>9, <1>10, <1>12, <1>13, <2>1, <2>2
<1> QED
    BY <1>1, <1>5, <1>10, <1>12, <1>13, <1>14

\* unaryOp, modDims and constant, for the right-hand side of an assignment
LEMMA SourceForms ==
    ASSUME NEW k \in Sources
    PROVE  \/ \E q \in Handles : k = NodeStep(<<q>>, Tmp) /\ SourceArray(k) = q /\ k.op = "node"
           \/ \E q \in Handles : k = ModDimsStep(q, Tmp) /\ SourceArray(k) = q /\ k.op = "moddims"
           \/ \E v \in ScalarData : k = ConstantStep(v) /\ k.v = v /\ k.op = "constant"
<1>1. ASSUME NEW q \in Handles, k = NodeStep(<<q>>, Tmp) PROVE SourceArray(k) = q /\ k.op = "node"
    <2>1. k.op = "node" /\ k.children = <<q>>
        BY <1>1 DEF NodeStep
    <2> QED
        BY <2>1 DEF SourceArray
<1>2. ASSUME NEW q \in Handles, k = ModDimsStep(q, Tmp) PROVE SourceArray(k) = q /\ k.op = "moddims"
    <2>1. k.op = "moddims" /\ k.x = q
        BY <1>2 DEF ModDimsStep
    <2> QED
        BY <2>1 DEF SourceArray
<1>3. ASSUME NEW v \in ScalarData, k = ConstantStep(v) PROVE k.v = v /\ k.op = "constant"
    BY <1>3 DEF ConstantStep
<1>4. \/ \E q \in Handles : k = NodeStep(<<q>>, Tmp)
      \/ \E q \in Handles : k = ModDimsStep(q, Tmp)
      \/ \E v \in ScalarData : k = ConstantStep(v)
    BY DEF Sources
<1> QED
    BY <1>1, <1>2, <1>3, <1>4

\* The array that the source makes
LEMMA SourceMakes ==
    ASSUME TypeInv, DrainInv, NEW h \in Handles, NEW n \in 1 .. Size, NEW k \in Sources,
           SourceOK(k, h, n), NEW r, Doing(k, r), Steps
    PROVE  /\ todo' = r /\ UNCHANGED <<mem, queue, val, seen>>
           /\ \E new : /\ ArrayOK(new) /\ new.len = n /\ arr' = [arr EXCEPT ![Tmp] = new]
                       /\ Plain => DataOf(new, Drained) = SourceData(k)
                       /\ \A b \in Bufs : Owns(new, b) => \E q \in Handles \ {h} : Owns(arr[q], b)
<1>1. Head(todo) = k /\ Cur = k /\ Tail(todo) = r
    BY DEF Doing, Cur
<1>2. ASSUME NEW q \in Handles, SourceArray(k) = q, k.op # "constant"
      PROVE  q \in Handles \ {h} /\ ArrayOK(arr[q]) /\ arr[q].len = n /\ arr[q].len > 0
    <2>1. q # h /\ Live(q) /\ arr[q].len = n
        BY <1>2 DEF SourceOK
    <2> QED
        BY <2>1, NamesAre DEF TypeInv, Live
<1>3. CASE \E q \in Handles : k = NodeStep(<<q>>, Tmp) /\ SourceArray(k) = q /\ k.op = "node"
    <2>1. PICK q \in Handles : k = NodeStep(<<q>>, Tmp) /\ SourceArray(k) = q /\ k.op = "node"
        BY <1>3
    <2>2. PICK a : a = arr[q]
        OBVIOUS
    <2>3. q \in Handles \ {h} /\ ArrayOK(a) /\ a.len = n /\ a.len > 0
        BY <1>2, <2>1, <2>2
    <2>4. Node
        BY <2>1, StepOf
    <2>5. Cur.children = <<q>> /\ Cur.y = Tmp
        BY <1>1, <2>1 DEF NodeStep
    <2>6. FlattenSeq([i \in DOMAIN <<q>> |-> GetNode(<<q>>[i])]) = NodeOf(a)
        <3>1. [i \in DOMAIN <<q>> |-> GetNode(<<q>>[i])] = <<GetNode(q)>>
            OBVIOUS
        <3> QED
            BY <2>2, <3>1, FlattenOne, ArrayForms
    <2>7. a.height \in 0 .. MaxHeight /\ MaxHeight \in Nat
        <3>1. a \in Arrays /\ a.height <= MaxHeight /\ MaxHeight \in Nat
            BY <2>2, <2>3, StoreAssumption DEF ArrayOK, TypeInv
        <3> QED
            BY <3>1 DEF Arrays
    <2>8. TallestOf(<<q>>) + 1 = a.height + 1
        <3>1. {arr[<<q>>[i]].height : i \in DOMAIN <<q>>} = {a.height, a.height}
            BY <2>2
        <3> QED
            BY <2>7, <3>1, MaxOfTwo DEF TallestOf
    <2> DEFINE new == Lazy(n, NodeOf(a), a.height + 1)
    <2>9. arr' = [arr EXCEPT ![Tmp] = new]
        <3>1. PICK x : x = [NoArray EXCEPT !.len = n, !.terms = NodeOf(a), !.height = a.height + 1]
            OBVIOUS
        <3>2. arr' = [arr EXCEPT ![Tmp] = x]
            <4>1. <<q>>[1] = q
                OBVIOUS
            <4> QED
                BY <2>2, <2>3, <2>4, <2>5, <2>6, <2>8, <3>1, <4>1 DEF Node
        <3>3. x \in [buf : {NoBuf}, off : {0}, len : {n}, owner : {TRUE}, terms : {NodeOf(a)},
                     height : {a.height + 1}]
            BY <3>1 DEF NoArray
        <3> QED
            BY <3>2, <3>3, LazyIs, ZenonT(30)
    <2>10. /\ FitAll(NodeOf(a), n) /\ NodeOf(a) # <<>>
           /\ \A b \in Bufs : Mentions(NodeOf(a), b) => Owns(a, b)
        BY <2>3, NodeFits
    <2>11. /\ ArrayOK(new) /\ new.len = n
           /\ \A b \in Bufs : Owns(new, b) => Mentions(NodeOf(a), b)
           /\ \A m : DataOf(new, m) = [i \in 0 .. n - 1 |-> Calc(m, NodeOf(a), i)]
        BY <2>7, <2>10, LazyOK
    <2> HIDE DEF new
    <2>12. ASSUME Plain PROVE DataOf(new, Drained) = SourceData(k)
        <3>1. Drained \in Memories
            BY <2>12 DEF DrainInv
        <3>2. SourceData(k) = DataOf(a, Drained)
            BY <2>1, <2>2, ContentForms DEF SourceData
        <3>3. \A i \in 0 .. n - 1 : DataOf(a, Drained)[i] = Calc(Drained, NodeOf(a), i)
            BY <2>3, <3>1, NodeData
        <3>4. DataOf(a, Drained) = [i \in 0 .. n - 1 |-> DataOf(a, Drained)[i]]
            BY <2>3 DEF DataOf
        <3> QED
            BY <2>11, <3>2, <3>3, <3>4
    <2>13. todo' = r /\ UNCHANGED <<mem, queue, val, seen>>
        BY <1>1, <2>4 DEF Node
    <2> QED
        BY <2>2, <2>3, <2>9, <2>10, <2>11, <2>12, <2>13
<1>4. CASE \E q \in Handles : k = ModDimsStep(q, Tmp) /\ SourceArray(k) = q /\ k.op = "moddims"
    <2>1. PICK q \in Handles : k = ModDimsStep(q, Tmp) /\ SourceArray(k) = q /\ k.op = "moddims"
        BY <1>4
    <2>2. q \in Handles \ {h} /\ ArrayOK(arr[q]) /\ arr[q].len = n
        BY <1>2, <2>1
    <2>3. ModDims
        BY <2>1, StepOf
    <2>4. Cur.x = q /\ Cur.y = Tmp
        BY <1>1, <2>1 DEF ModDimsStep
    <2>5. todo' = r /\ UNCHANGED <<mem, queue, val, seen>> /\ arr' = [arr EXCEPT ![Tmp] = arr[q]]
        BY <1>1, <2>3, <2>4 DEF ModDims
    <2>6. DataOf(arr[q], Drained) = SourceData(k)
        BY <2>1, ContentForms DEF SourceData
    <2> QED
        BY <2>2, <2>5, <2>6
<1>5. CASE \E v \in ScalarData : k = ConstantStep(v) /\ k.v = v /\ k.op = "constant"
    <2>1. PICK v \in ScalarData : k = ConstantStep(v) /\ k.v = v /\ k.op = "constant"
        BY <1>5
    <2>2. n = 1
        BY <2>1 DEF SourceOK
    <2>3. Constant
        BY <2>1, StepOf
    <2>4. Cur.len = 1 /\ Cur.v = v /\ Cur.y = Tmp
        BY <1>1, <2>1 DEF ConstantStep
    <2> DEFINE new == Lazy(1, <<Scalar(v)>>, 0)
    <2>5. arr' = [arr EXCEPT ![Tmp] = new]
        <3>1. PICK x : x = [NoArray EXCEPT !.len = 1, !.terms = <<Scalar(v)>>]
            OBVIOUS
        <3>2. arr' = [arr EXCEPT ![Tmp] = x]
            BY <2>3, <2>4, <3>1 DEF Constant
        <3>3. x \in [buf : {NoBuf}, off : {0}, len : {1}, owner : {TRUE}, terms : {<<Scalar(v)>>},
                     height : {0}]
            BY <3>1 DEF NoArray
        <3> QED
            BY <3>2, <3>3, LazyIs
    <2>6. /\ ArrayOK(new) /\ new.len = n
          /\ \A b \in Bufs : ~ Owns(new, b)
          /\ \A m : DataOf(new, m) = [i \in 0 .. 1 - 1 |-> v]
        BY <2>2, ScalarLazy
    <2> HIDE DEF new
    <2>7. DataOf(new, Drained) = SourceData(k)
        <3>1. SourceData(k) = [c \in {0} |-> v] /\ 0 .. 1 - 1 = {0}
            BY <2>1 DEF SourceData
        <3> QED
            BY <2>6, <3>1
    <2>8. todo' = r /\ UNCHANGED <<mem, queue, val, seen>>
        BY <1>1, <2>3 DEF Constant
    <2> QED
        BY <2>5, <2>6, <2>7, <2>8
<1> QED
    BY <1>3, <1>4, <1>5, SourceForms

\* The right-hand side is made in Tmp, and the array to be written stays alone.
LEMMA SourceEffect ==
    ASSUME TypeInv, DrainInv, NEW h \in Handles, NEW n \in 1 .. Size, NEW k \in Sources,
           SourceOK(k, h, n), Live(h), Ready(h), NEW r, Doing(k, r), Steps
    PROVE  /\ TypeInv' /\ DrainInv' /\ todo' = r /\ val' = val
           /\ arr'[Tmp].len = n /\ (Plain => Content(Tmp)' = SourceData(k))
           /\ \A f \in Handles : arr'[f] = arr[f] /\ Content(f)' = Content(f)
           /\ Alone(h) => Alone(h)'
<1>1. todo' = r /\ UNCHANGED <<mem, queue, val, seen>>
    BY SourceMakes
<1>2. PICK new : /\ ArrayOK(new) /\ new.len = n /\ arr' = [arr EXCEPT ![Tmp] = new]
                 /\ Plain => DataOf(new, Drained) = SourceData(k)
                 /\ \A b \in Bufs : Owns(new, b) => \E q \in Handles \ {h} : Owns(arr[q], b)
    BY SourceMakes
<1>3. Sets(Tmp, new)
    BY <1>1, <1>2, NamesAre DEF Sets, TypeInv
<1>4. /\ TypeInv' /\ DrainInv'
      /\ arr'[Tmp] = new /\ Content(Tmp)' = DataOf(new, Drained)
      /\ \A f \in Names \ {Tmp} :
           /\ arr'[f] = arr[f] /\ Content(f)' = Content(f)
           /\ Alone(f) /\ ~ Owns(new, arr[f].buf) => Alone(f)'
    BY <1>3, NamesAre, SetEffect
<1>5. ASSUME Alone(h) PROVE Alone(h)'
    <2>1. arr[h].buf \in Bufs
        BY NamesAre DEF TypeInv, ArrayOK, Live, Ready
    <2>2. \A q \in Handles \ {h} : ~ Owns(arr[q], arr[h].buf)
        BY <1>5, NamesAre DEF Alone, SharedWithArrays, HeldByArray, Owns
    <2>3. ~ Owns(new, arr[h].buf)
        BY <1>2, <2>1, <2>2
    <2> QED
        BY <1>4, <1>5, <2>3, NamesAre
<1> QED
    BY <1>1, <1>2, <1>4, <1>5, NamesAre

\* createSubArray
SubView(b, o, n) == [buf |-> b, off |-> o, len |-> n, owner |-> FALSE, terms |-> <<>>, height |-> 0]

LEMMA SubViewIs ==
    ASSUME NEW b, NEW o, NEW n,
           NEW e \in [buf : {b}, off : {o}, len : {n}, owner : {FALSE}, terms : {<<>>}, height : {0}]
    PROVE  e = SubView(b, o, n)
BY DEF SubView

LEMMA SubViewOK ==
    ASSUME NEW p, ArrayOK(p), p.terms = <<>>, p.len > 0, NEW i \in Nat, NEW n \in 1 .. Size,
           i + n <= p.len
    PROVE  /\ ArrayOK(SubView(p.buf, p.off + i, n))
           /\ SubView(p.buf, p.off + i, n).len = n /\ SubView(p.buf, p.off + i, n).height = 0
           /\ \A m : DataOf(SubView(p.buf, p.off + i, n), m) = Part(DataOf(p, m), i, n)
<1> DEFINE a == SubView(p.buf, p.off + i, n)
<1>1. /\ a.buf = p.buf /\ a.off = p.off + i /\ a.len = n /\ a.owner = FALSE /\ a.terms = <<>>
      /\ a.height = 0
    BY DEF SubView
<1>2. /\ Size \in Nat /\ MaxHeight \in Nat /\ p.off \in Nat /\ p.len \in 0 .. Size
      /\ p.buf \in Bufs /\ p.off + p.len <= Size
    BY StoreAssumption DEF ArrayOK, Arrays
<1>3. p.off + i \in Nat /\ (p.off + i) + n <= Size
    BY <1>2
<1>4. <<>> \in Seq(Terms) /\ DOMAIN <<>> = {}
    OBVIOUS
<1>5. a \in Arrays
    BY <1>2, <1>3, <1>4 DEF SubView, Arrays
<1> HIDE DEF a
<1>6. ArrayOK(a)
    BY <1>1, <1>2, <1>3, <1>4, <1>5 DEF ArrayOK
<1>7. \A m : DataOf(a, m) = Part(DataOf(p, m), i, n)
    <2> TAKE m
    <2>1. ASSUME NEW c \in 0 .. n - 1
          PROVE  m[a.buf][a.off + c] = DataOf(p, m)[i + c]
        <3>1. i + c \in 0 .. p.len - 1 /\ a.off + c = p.off + (i + c)
            BY <1>1, <1>2, SMTT(30)
        <3>2. DataOf(p, m)[i + c] = m[p.buf][p.off + (i + c)]
            BY <3>1 DEF DataOf
        <3> QED
            BY <1>1, <3>1, <3>2
    <2>2. DataOf(a, m) = [c \in 0 .. n - 1 |-> m[a.buf][a.off + c]]
        BY <1>1 DEF DataOf
    <2> QED
        BY <2>1, <2>2 DEF Part
<1> QED
    BY <1>1, <1>6, <1>7 DEF a

\* A call ends with one array of the client changed.
LEMMA GivenChanges ==
    ASSUME NEW g \in Handles, Empty(Tmp),
           \A f \in Names \ {g} : /\ arr'[f] = arr[f] /\ val'[f] = val[f]
                                  /\ Plain => Content(f)' = Content(f),
           Plain => OthersHold(g),
           Plain /\ Live(g)' => Content(g)' = val'[g]
    PROVE  Idle(<<>>)'
<1>1. Empty(Tmp)'
    BY NamesAre DEF Empty, Live
<1>2. ASSUME Plain, NEW f \in Handles PROVE Holds(f)'
    <2>1. CASE f = g
        BY <1>2, <2>1 DEF Holds
    <2>2. CASE f # g
        BY <1>2, <2>2, NamesAre DEF OthersHold, Holds, Live
    <2> QED
        BY <2>1, <2>2
<1> QED
    BY <1>1, <1>2 DEF Idle, AllHold

\* The last step of a call, when one array changes and takes its value.
LEMMA OneChanges ==
    ASSUME NEW g \in Handles, val' = val, Empty(Tmp),
           \A f \in Names \ {g} : arr'[f] = arr[f] /\ (Plain => Content(f)' = Content(f)),
           Plain => OthersHold(g) /\ Content(g)' = val[g]
    PROVE  Idle(<<>>)'
BY GivenChanges

\* The last step of a call.
LEMMA IdleContinues ==
    ASSUME Continues(<<>>), Idle(<<>>)'
    PROVE  CallInv'
<1>1. IsList(<<>>) /\ Rest(<<>>)'
    BY DEF IsList, Rest
<1> QED
    BY <1>1, CallContinues

LEMMA IndexingStep ==
    ASSUME TypeInv, DrainInv, Indexes(todo), Steps
    PROVE  TypeInv' /\ DrainInv' /\ CallInv'
<1>1. PICK h \in Handles, g \in Handles, i \in Cells, n \in 1 .. Size : Indexing(todo, h, g, i, n)
    BY DEF Indexes
<1>2. /\ h \in Names /\ g \in Names /\ g # h /\ Live(h) /\ Empty(g) /\ Empty(Tmp)
      /\ i + n <= arr[h].len
      /\ Plain => AllHold /\ val[g] = Part(val[h], i, n)
    BY <1>1, NamesAre DEF Indexing, Empty
<1>3. CASE todo = <<On("eval", h), SubStep(h, i, n, g)>>
    <2>1. Doing(On("eval", h), <<SubStep(h, i, n, g)>>)
        BY <1>3, List2
    <2>2. TypeInv' /\ DrainInv' /\ Preserves /\ Ready(h)' /\ Continues(<<SubStep(h, i, n, g)>>)
        BY <1>2, <2>1, EvalStepEffect
    <2>3. Indexing(<<SubStep(h, i, n, g)>>, h, g, i, n)'
        BY <1>2, <2>2, PreservesForms, NamesAre DEF Indexing
    <2>4. Rest(<<SubStep(h, i, n, g)>>)'
        BY <2>3 DEF Rest, Indexes
    <2> QED
        BY <2>1, <2>2, <2>4, CallContinues DEF Doing
<1>4. CASE todo = <<SubStep(h, i, n, g)>> /\ Ready(h)
    <2>1. Doing(SubStep(h, i, n, g), <<>>)
        BY <1>4, List1
    <2>2. SubArray
        BY <2>1, StepOf DEF SubStep
    <2>3. Cur.x = h /\ Cur.off = i /\ Cur.len = n /\ Cur.y = g /\ Tail(todo) = <<>>
        BY <2>1 DEF Doing, SubStep, Cur
    <2>4. PICK p : p = arr[h]
        OBVIOUS
    <2>5. /\ ArrayOK(p) /\ p.terms = <<>> /\ p.len > 0 /\ i \in Nat /\ i + n <= p.len
        BY <1>2, <1>4, <2>4, StoreAssumption DEF TypeInv, Live, Ready, Cells
    <2>6. PICK new : new = SubView(p.buf, p.off + i, n)
        OBVIOUS
    <2>7. /\ ArrayOK(new) /\ new.len = n /\ new.height = 0
          /\ \A m : DataOf(new, m) = Part(DataOf(p, m), i, n)
        BY <2>5, <2>6, SubViewOK
    <2>8. arr' = [arr EXCEPT ![g] = new]
        <3>1. PICK e : e = [NoArray EXCEPT !.buf = p.buf, !.off = p.off + i, !.len = n, !.owner = FALSE]
            OBVIOUS
        <3>2. arr' = [arr EXCEPT ![g] = e]
            BY <2>2, <2>3, <2>4, <3>1 DEF SubArray
        <3>3. e \in [buf : {p.buf}, off : {p.off + i}, len : {n}, owner : {FALSE},
                     terms : {<<>>}, height : {0}]
            BY <3>1 DEF NoArray
        <3> QED
            BY <2>6, <3>2, <3>3, SubViewIs
    <2>9. todo' = <<>> /\ UNCHANGED <<mem, queue, val, seen>>
        BY <2>2, <2>3 DEF SubArray
    <2>10. Sets(g, new)
        BY <2>7, <2>8, <2>9, StoreAssumption DEF Sets, TypeInv
    <2>11. /\ TypeInv' /\ DrainInv'
           /\ arr'[g] = new /\ Content(g)' = DataOf(new, Drained)
           /\ \A f \in Names \ {g} : arr'[f] = arr[f] /\ Content(f)' = Content(f)
        BY <1>2, <2>10, SetEffect
    <2>12. ASSUME Plain PROVE OthersHold(g) /\ Content(g)' = val[g]
        <3>1. Content(h) = val[h] /\ OthersHold(g)
            BY <1>2, <2>12 DEF AllHold, OthersHold, Holds
        <3>2. Content(h) = DataOf(p, Drained)
            BY <2>4, ContentForms
        <3> QED
            BY <1>2, <2>7, <2>11, <2>12, <3>1, <3>2
    <2>13. Idle(<<>>)'
        BY <1>2, <2>9, <2>11, <2>12, OneChanges
    <2> QED
        BY <2>9, <2>11, <2>13, IdleContinues DEF Continues
<1> QED
    BY <1>1, <1>3, <1>4 DEF Indexing

LEMMA AddingStep ==
    ASSUME TypeInv, DrainInv, Adds(todo), Steps
    PROVE  TypeInv' /\ DrainInv' /\ CallInv'
<1>1. PICK h \in Handles, k \in Handles, g \in Handles : Adding(todo, h, k, g)
    BY DEF Adds
<1>2. /\ todo = <<NodeStep(<<h, k>>, g)>>
      /\ Live(h) /\ Live(k) /\ Empty(g) /\ Empty(Tmp) /\ arr[h].len = arr[k].len
      /\ arr[h].height < MaxHeight /\ arr[k].height < MaxHeight
      /\ Plain => AllHold /\ val[g] = Total(val[h], val[k], arr[h].len)
    BY <1>1 DEF Adding
<1>3. Doing(NodeStep(<<h, k>>, g), <<>>)
    BY <1>2, List1
<1>4. Node
    BY <1>3, StepOf DEF NodeStep
<1>5. /\ TypeInv' /\ DrainInv' /\ todo' = <<>> /\ val' = val
      /\ Plain => Content(g)' = Total(Content(h), Content(k), arr[h].len)
      /\ \A f \in Names \ {g} : arr'[f] = arr[f] /\ Content(f)' = Content(f)
    BY <1>2, <1>3, <1>4, NodeEffect
<1>6. ASSUME Plain PROVE OthersHold(g) /\ Content(g)' = val[g]
    BY <1>2, <1>5, <1>6 DEF AllHold, OthersHold, Holds
<1>7. Idle(<<>>)'
    BY <1>2, <1>5, <1>6, OneChanges
<1> QED
    BY <1>5, <1>7, IdleContinues DEF Continues

LEMMA ReadingStep ==
    ASSUME TypeInv, DrainInv, Reads(todo), Steps
    PROVE  TypeInv' /\ DrainInv' /\ CallInv'
<1>1. PICK h \in Handles : Reading(todo, h)
    BY DEF Reads
<1>2. h \in Names /\ Live(h) /\ Empty(Tmp) /\ (Plain => AllHold)
    BY <1>1, NamesAre DEF Reading
<1>3. CASE todo = <<On("eval", h), SyncStep, On("read", h)>>
    <2> DEFINE r == <<SyncStep, On("read", h)>>
    <2>1. Doing(On("eval", h), r)
        BY <1>3, List3
    <2>2. TypeInv' /\ DrainInv' /\ Preserves /\ Ready(h)' /\ Continues(r)
        BY <1>2, <2>1, EvalStepEffect
    <2>3. Reading(r, h)'
        BY <1>2, <2>2, PreservesForms, NamesAre DEF Reading
    <2>4. Rest(r)'
        BY <2>3 DEF Rest, Reads
    <2> QED
        BY <2>1, <2>2, <2>4, CallContinues DEF Doing
<1>4. CASE todo = <<SyncStep, On("read", h)>> /\ Ready(h)
    <2> DEFINE r == <<On("read", h)>>
    <2>1. Doing(SyncStep, r)
        BY <1>4, List2
    <2>2. Sync
        BY <2>1, StepOf DEF SyncStep
    <2>3. TypeInv' /\ DrainInv' /\ Stays /\ queue' = <<>> /\ todo' = r
        BY <2>1, <2>2, SyncEffect DEF Doing
    <2>4. Reading(r, h)'
        BY <1>2, <1>4, <2>3, StaysForms DEF Reading
    <2>5. Rest(r)'
        BY <2>4 DEF Rest, Reads
    <2> QED
        BY <2>3, <2>5 DEF CallInv
<1>5. CASE todo = <<On("read", h)>> /\ Ready(h) /\ queue = <<>>
    <2>1. Doing(On("read", h), <<>>)
        BY <1>5, List1
    <2>2. HostRead
        BY <2>1, StepOf DEF On
    <2>3. /\ Cur.x = h /\ todo' = <<>> /\ UNCHANGED <<arr, mem, queue, count, val>>
          /\ seen' = (seen /\ Data(mem, h) = val[h])
        BY <2>1, <2>2 DEF Doing, Cur, HostRead, Skip, On
    <2>4. Drained = mem /\ Drained' = Drained
        <3>1. Drained = Drain(mem, <<>>) /\ Drained' = Drained
            BY <1>5, <2>3 DEF Drained, Drain
        <3> QED
            BY <3>1, DrainEmpty
    <2>5. TypeInv'
        BY <2>3 DEF TypeInv
    <2>6. ASSUME Plain PROVE seen' = seen
        <3>1. Content(h) = val[h] /\ Content(h) = Data(mem, h)
            BY <1>2, <2>4, <2>6 DEF AllHold, Holds, Content
        <3>2. seen \in BOOLEAN
            BY DEF TypeInv
        <3> QED
            BY <2>3, <3>1, <3>2
    <2>7. DrainInv'
        BY <2>4, <2>6 DEF DrainInv
    <2>8. Stays
        BY <2>3, <2>4, ContentForms DEF Stays
    <2>9. Idle(<<>>)'
        BY <1>2, <2>8, StaysForms DEF Idle
    <2> QED
        BY <2>3, <2>5, <2>7, <2>9, IdleContinues DEF Continues
<1> QED
    BY <1>1, <1>3, <1>4, <1>5 DEF Reading

\* What the rest of an assignment needs survives a step that preserves.
LEMMA SourcePreserved ==
    ASSUME TypeInv, Preserves, NEW k \in Sources, NEW h, NEW n, SourceOK(k, h, n)
    PROVE  SourceOK(k, h, n)' /\ (Plain => SourceData(k)' = SourceData(k))
<1>1. CASE k.op = "constant"
    BY <1>1 DEF SourceOK, SourceData
<1>2. CASE k.op # "constant"
    <2>1. PICK q \in Handles : q = SourceArray(k)
        BY <1>2, SourceForms
    <2>2. q \in Names /\ q # h /\ Live(q) /\ arr[q].len = n /\ (k.op = "node" => n = 1)
        BY <1>2, <2>1, NamesAre DEF SourceOK
    <2>3. Live(q)' /\ arr'[q].len = n /\ (Plain => Content(q)' = Content(q))
        BY <2>2, PreservesForms
    <2> QED
        BY <1>2, <2>1, <2>2, <2>3 DEF SourceOK, SourceData
<1> QED
    BY <1>1, <1>2

\* What is still to be written survives a step that changes no content.
LEMMA PendingPreserved ==
    ASSUME TypeInv, Preserves, Plain, NEW h \in Names, Live(h), NEW i, NEW cells, NEW w,
           Pending(h, i, cells, w)
    PROVE  val'[h] = [c \in All(h)' |-> IF c - i \in cells THEN w[c - i] ELSE Content(h)'[c]]
BY PreservesForms DEF Pending

\* One array changes and takes its value: then all hold.
LEMMA OneHolds ==
    ASSUME Plain, NEW g \in Handles, val' = val, OthersHold(g), Content(g)' = val[g],
           \A f \in Handles \ {g} : arr'[f] = arr[f] /\ Content(f)' = Content(f)
    PROVE  AllHold'
<1> SUFFICES ASSUME NEW f \in Handles PROVE Holds(f)'
    BY DEF AllHold
<1>1. CASE f = g
    BY <1>1 DEF Holds
<1>2. CASE f # g
    BY <1>2 DEF OthersHold, Holds, Live
<1> QED
    BY <1>1, <1>2

LEMMA AssigningStep ==
    ASSUME TypeInv, DrainInv, Assigns(todo), Steps
    PROVE  TypeInv' /\ DrainInv' /\ CallInv'
<1>1. PICK h \in Handles, i \in Cells, n \in 1 .. Size, k \in Sources : Assigning(todo, h, i, n, k)
    BY DEF Assigns
<1>2. /\ h \in Names /\ Live(h) /\ Empty(Tmp) /\ SourceOK(k, h, n) /\ i + n <= arr[h].len
      /\ Plain => OthersHold(h) /\ Pending(h, i, 0 .. n - 1, SourceData(k))
    BY <1>1, NamesAre DEF Assigning
<1> DEFINE s == <<k, On("eval", Tmp), WriteTmp(h, i, n), On("drop", Tmp)>>
           r == <<On("eval", h), k, On("eval", Tmp), WriteTmp(h, i, n), On("drop", Tmp)>>
<1>3. ASSUME TypeInv', DrainInv', Preserves
      PROVE  /\ Live(h)' /\ Empty(Tmp)' /\ SourceOK(k, h, n)' /\ i + n <= arr'[h].len
             /\ Plain => OthersHold(h)' /\ Pending(h, i, 0 .. n - 1, SourceData(k))'
    <2>1. /\ Live(h)' /\ Empty(Tmp)' /\ arr'[h].len = arr[h].len
          /\ Plain => OthersHold(h)'
        BY <1>2, <1>3, PreservesForms, NamesAre
    <2>2. SourceOK(k, h, n)' /\ (Plain => SourceData(k)' = SourceData(k))
        BY <1>2, <1>3, SourcePreserved
    <2>3. ASSUME Plain PROVE Pending(h, i, 0 .. n - 1, SourceData(k))'
        <3>1. PICK w : w = SourceData(k)
            OBVIOUS
        <3>2. val'[h] = [c \in All(h)' |-> IF c - i \in 0 .. n - 1 THEN w[c - i] ELSE Content(h)'[c]]
            <4>1. Pending(h, i, 0 .. n - 1, w)
                BY <1>2, <2>3, <3>1
            <4> QED
                BY <1>2, <1>3, <2>3, <4>1, PendingPreserved
        <3> QED
            BY <2>2, <2>3, <3>1, <3>2 DEF Pending
    <2> QED
        BY <1>2, <2>1, <2>2, <2>3
<1>4. CASE todo = <<On("cow", h), On("eval", h), k, On("eval", Tmp), WriteTmp(h, i, n), On("drop", Tmp)>>
    <2>1. Doing(On("cow", h), r)
        BY <1>4, List6
    <2>2. TypeInv' /\ DrainInv' /\ Preserves /\ Alone(h)' /\ Continues(r)
        BY <1>2, <2>1, CowEffect
    <2>3. Assigning(r, h, i, n, k)'
        BY <1>3, <2>2 DEF Assigning
    <2>4. Rest(r)'
        BY <2>3 DEF Rest, Assigns
    <2> QED
        BY <2>1, <2>2, <2>4, CallContinues DEF Doing
<1>5. CASE todo = r /\ (Plain => Alone(h))
    <2>1. Doing(On("eval", h), s)
        BY <1>5, List5
    <2>2. TypeInv' /\ DrainInv' /\ Preserves /\ Ready(h)' /\ Continues(s)
        BY <1>2, <2>1, EvalStepEffect
    <2>3. Plain => Alone(h)'
        BY <1>2, <1>5, <2>2, PreservesForms
    <2>4. Assigning(s, h, i, n, k)'
        BY <1>3, <2>2, <2>3 DEF Assigning
    <2>5. Rest(s)'
        BY <2>4 DEF Rest, Assigns
    <2> QED
        BY <2>1, <2>2, <2>5, CallContinues DEF Doing
<1>6. CASE todo = s /\ Ready(h) /\ (Plain => Alone(h))
    <2> DEFINE t == <<On("eval", Tmp), WriteTmp(h, i, n), On("drop", Tmp)>>
    <2>1. Doing(k, t)
        BY <1>6, List4
    <2>2. /\ TypeInv' /\ DrainInv' /\ todo' = t /\ val' = val
          /\ arr'[Tmp].len = n /\ (Plain => Content(Tmp)' = SourceData(k))
          /\ \A f \in Handles : arr'[f] = arr[f] /\ Content(f)' = Content(f)
          /\ Alone(h) => Alone(h)'
        BY <1>2, <1>6, <2>1, SourceEffect
    <2>3. Live(h)' /\ Ready(h)' /\ Live(Tmp)' /\ i + n <= arr'[h].len
        BY <1>2, <1>6, <2>2, StoreAssumption DEF Live, Ready
    <2>4. ASSUME Plain
          PROVE  Alone(h)' /\ OthersHold(h)' /\ Pending(h, i, 0 .. n - 1, Content(Tmp))'
        <3>1. OthersHold(h)'
            BY <1>2, <2>2, <2>4 DEF OthersHold, Holds, Live
        <3>2. Pending(h, i, 0 .. n - 1, Content(Tmp))'
            BY <1>2, <2>2, <2>4 DEF Pending, All
        <3> QED
            BY <1>6, <2>2, <2>4, <3>1, <3>2
    <2>5. Storing(t, h, i, n)'
        BY <2>2, <2>3, <2>4 DEF Storing
    <2>6. Rest(t)'
        BY <2>5 DEF Rest, Stores
    <2> QED
        BY <2>2, <2>6 DEF CallInv
<1> QED
    BY <1>1, <1>4, <1>5, <1>6 DEF Assigning

LEMMA StoringStep ==
    ASSUME TypeInv, DrainInv, Stores(todo), Steps
    PROVE  TypeInv' /\ DrainInv' /\ CallInv'
<1>1. PICK h \in Handles, i \in Cells, n \in 1 .. Size : Storing(todo, h, i, n)
    BY DEF Stores
<1>2. /\ h \in Names /\ h # Tmp /\ Tmp \in Names /\ Live(h) /\ Ready(h) /\ Live(Tmp)
      /\ arr[Tmp].len = n /\ i + n <= arr[h].len
      /\ Plain => Alone(h) /\ OthersHold(h) /\ Pending(h, i, 0 .. n - 1, Content(Tmp))
    BY <1>1, NamesAre DEF Storing
<1> DEFINE s == <<WriteTmp(h, i, n), On("drop", Tmp)>>
           r == <<On("drop", Tmp)>>
<1>3. CASE todo = <<On("eval", Tmp), WriteTmp(h, i, n), On("drop", Tmp)>>
    <2>1. Doing(On("eval", Tmp), s)
        BY <1>3, List3
    <2>2. TypeInv' /\ DrainInv' /\ Preserves /\ Ready(Tmp)' /\ Continues(s)
        BY <1>2, <2>1, EvalStepEffect
    <2>3. Live(h)' /\ Ready(h)' /\ Live(Tmp)' /\ arr'[Tmp].len = n /\ i + n <= arr'[h].len
        BY <1>2, <2>2, PreservesForms
    <2>4. ASSUME Plain
          PROVE  Alone(h)' /\ OthersHold(h)' /\ Pending(h, i, 0 .. n - 1, Content(Tmp))'
        <3>1. Alone(h)' /\ OthersHold(h)' /\ Content(Tmp)' = Content(Tmp)
            BY <1>2, <2>2, <2>4, PreservesForms
        <3>2. PICK w : w = Content(Tmp)
            OBVIOUS
        <3>3. val'[h] = [c \in All(h)' |-> IF c - i \in 0 .. n - 1 THEN w[c - i] ELSE Content(h)'[c]]
            <4>1. Pending(h, i, 0 .. n - 1, w)
                BY <1>2, <2>4, <3>2
            <4> QED
                BY <1>2, <2>2, <2>4, <4>1, PendingPreserved
        <3> QED
            BY <3>1, <3>2, <3>3 DEF Pending
    <2>5. Storing(s, h, i, n)'
        BY <2>2, <2>3, <2>4 DEF Storing
    <2>6. Rest(s)'
        BY <2>5 DEF Rest, Stores
    <2> QED
        BY <2>1, <2>2, <2>6, CallContinues DEF Doing
<1>4. CASE todo = s /\ Ready(Tmp)
    <2>1. Doing(WriteTmp(h, i, n), r)
        BY <1>4, List2
    <2>2. Doing(WriteStep(h, i, 0 .. n - 1, Tmp), r)
        BY <2>1 DEF WriteTmp
    <2>3. Write
        BY <2>2, StepOf DEF WriteStep
    <2>4. i \in Nat /\ \A c \in 0 .. n - 1 : i + c < arr[h].len
        <3>1. i \in Nat /\ Size \in Nat /\ arr[h].len \in Nat
            BY <1>2, StoreAssumption DEF Cells, TypeInv, ArrayOK, Arrays
        <3> QED
            BY <1>2, <3>1
    <2>5. /\ TypeInv' /\ DrainInv' /\ Continues(r) /\ UNCHANGED <<arr, val>>
          /\ Plain /\ Alone(h) => \A f \in Names \ {h} : Content(f)' = Content(f)
          /\ Plain => Content(h)' = [c \in All(h) |-> IF c - i \in 0 .. n - 1
                                        THEN Content(Tmp)[c - i] ELSE Content(h)[c]]
        BY <1>2, <2>2, <2>3, <2>4, WriteEffect
    <2>6. ASSUME Plain PROVE AllHold'
        <3>1. Content(h)' = val[h]
            BY <1>2, <2>5, <2>6 DEF Pending
        <3> QED
            BY <1>2, <2>5, <2>6, <3>1, OneHolds, NamesAre
    <2>7. Rest(r)'
        BY <2>6 DEF Rest, Drops
    <2> QED
        BY <2>1, <2>5, <2>7, CallContinues DEF Doing
<1> QED
    BY <1>1, <1>3, <1>4 DEF Storing

LEMMA NoArrayOK == ArrayOK(NoArray) /\ NoArray.height = 0 /\ NoArray.len = 0
<1> DEFINE a == NoArray
<1>1. a.buf = NoBuf /\ a.off = 0 /\ a.len = 0 /\ a.owner = TRUE /\ a.terms = <<>> /\ a.height = 0
    BY DEF NoArray
<1>2. <<>> \in Seq(Terms) /\ DOMAIN <<>> = {} /\ Size \in Nat /\ MaxHeight \in Nat
    BY StoreAssumption
<1>3. a \in Arrays
    BY <1>2 DEF NoArray, Arrays
<1> HIDE DEF a
<1>4. ArrayOK(a)
    BY <1>1, <1>2, <1>3 DEF ArrayOK, a
<1> QED
    BY <1>1, <1>4 DEF a

LEMMA DroppingStep ==
    ASSUME TypeInv, DrainInv, Drops(todo), Steps
    PROVE  TypeInv' /\ DrainInv' /\ CallInv'
<1>1. Doing(On("drop", Tmp), <<>>) /\ (Plain => AllHold)
    BY List1 DEF Drops
<1>2. Drop
    BY <1>1, StepOf DEF On
<1>3. Cur.x = Tmp /\ Tail(todo) = <<>>
    BY <1>1 DEF Doing, Cur, On
<1>4. todo' = <<>> /\ UNCHANGED <<mem, queue, val, seen>> /\ arr' = [arr EXCEPT ![Tmp] = NoArray]
    BY <1>2, <1>3 DEF Drop
<1>5. Sets(Tmp, NoArray)
    BY <1>4, NoArrayOK, NamesAre DEF Sets, TypeInv
<1>6. /\ TypeInv' /\ DrainInv' /\ arr'[Tmp] = NoArray
      /\ \A f \in Names \ {Tmp} : arr'[f] = arr[f] /\ Content(f)' = Content(f)
    BY <1>5, NamesAre, SetEffect
<1>7. Empty(Tmp)'
    BY <1>6, NoArrayOK DEF Empty, Live
<1>8. ASSUME Plain PROVE AllHold'
    BY <1>1, <1>4, <1>6, <1>8, NamesAre DEF AllHold, Holds, Live
<1> QED
    BY <1>4, <1>6, <1>7, <1>8, IdleContinues DEF Idle, Continues

\* af_assign_seq into an out of the client's own: values do not hold here.
LEMMA AssigningOutStep ==
    ASSUME TypeInv, DrainInv, AssignsOut(todo), Steps
    PROVE  TypeInv' /\ DrainInv' /\ CallInv'
<1>1. PICK h \in Handles, g \in Handles, s \in {"copy", "moddims"}, i \in Cells, n \in 1 .. Size,
           k \in Sources : AssigningOut(todo, h, g, s, i, n, k)
    BY DEF AssignsOut
<1>2. /\ h \in Names /\ g \in Names /\ g # h /\ g # Tmp /\ Tmp \in Names
      /\ ~ Plain /\ Live(h) /\ Empty(g) /\ Empty(Tmp)
    BY <1>1, NamesAre DEF AssigningOut, Plain, Empty
<1> DEFINE first == [op |-> s, x |-> h, y |-> g]
           rest == <<On("eval", g), k, On("eval", Tmp), WriteTmp(g, i, n), On("drop", Tmp)>>
<1>3. \/ todo = <<first>>
      \/ todo = <<first, On("eval", g), k, On("eval", Tmp), WriteTmp(g, i, n), On("drop", Tmp)>>
         /\ SourceOK(k, g, n) /\ i + n <= arr[h].len
    BY <1>1 DEF AssigningOut
<1>4. PICK r : /\ Doing(first, r)
               /\ \/ r = <<>>
                  \/ r = rest /\ SourceOK(k, g, n) /\ i + n <= arr[h].len
    BY <1>3, List1, List6
<1>5. IsList(r)
    BY <1>4 DEF Doing
<1>6. /\ TypeInv' /\ DrainInv' /\ Continues(r)
      /\ arr'[g].len = arr[h].len
      /\ \A f \in Names \ {g} : arr'[f] = arr[f]
    <2>1. CASE s = "copy"
        <3>1. first = CopyStep(h, g) /\ first.op = "copy"
            BY <2>1 DEF CopyStep
        <3>2. Copy /\ Doing(CopyStep(h, g), r)
            BY <1>4, <3>1, StepOf
        <3>3. g \in Names \ {h}
            BY <1>2
        <3> QED
            BY <1>2, <3>2, <3>3, CopyEffect
    <2>2. CASE s = "moddims"
        <3>1. first = ModDimsStep(h, g) /\ first.op = "moddims" /\ first.x = h /\ first.y = g
            BY <2>2 DEF ModDimsStep
        <3>2. ModDims /\ Cur = first /\ Tail(todo) = r
            BY <1>4, <3>1, StepOf DEF Doing, Cur
        <3>3. todo' = r /\ UNCHANGED <<mem, queue, val, seen>> /\ arr' = [arr EXCEPT ![g] = arr[h]]
            BY <3>1, <3>2 DEF ModDims
        <3>4. PICK new : new = arr[h]
            OBVIOUS
        <3>5. Sets(g, new)
            BY <1>2, <3>3, <3>4 DEF Sets, TypeInv
        <3>6. TypeInv' /\ DrainInv' /\ arr'[g] = new /\ \A f \in Names \ {g} : arr'[f] = arr[f]
            BY <1>2, <3>5, SetEffect
        <3> QED
            BY <3>3, <3>4, <3>6 DEF Continues
    <2> QED
        BY <2>1, <2>2
<1>7. Empty(Tmp)' /\ Live(g)'
    BY <1>2, <1>6 DEF Empty, Live
<1>8. CASE r = <<>>
    <2>1. Idle(<<>>)'
        BY <1>2, <1>7 DEF Idle
    <2> QED
        BY <1>6, <1>8, <2>1, IdleContinues
<1>9. CASE r = rest /\ SourceOK(k, g, n) /\ i + n <= arr[h].len
    <2>1. SourceOK(k, g, n)'
        <3>1. CASE k.op = "constant"
            BY <1>9, <3>1 DEF SourceOK
        <3>2. CASE k.op # "constant"
            <4>1. PICK q \in Handles : q = SourceArray(k)
                BY <3>2, SourceForms
            <4>2. arr'[q] = arr[q]
                BY <1>6, <1>9, <3>2, <4>1, NamesAre DEF SourceOK
            <4> QED
                BY <1>9, <3>2, <4>1, <4>2 DEF SourceOK, Live
        <3> QED
            BY <3>1, <3>2
    <2>2. i + n <= arr'[g].len
        BY <1>6, <1>9
    <2>3. Assigning(rest, g, i, n, k)'
        BY <1>2, <1>7, <2>1, <2>2 DEF Assigning
    <2>4. Rest(rest)'
        BY <2>3 DEF Rest, Assigns
    <2> QED
        BY <1>5, <1>6, <1>9, <2>4, CallContinues
<1> QED
    BY <1>4, <1>8, <1>9

LEMMA ReplacingStep ==
    ASSUME TypeInv, DrainInv, Replaces(todo), Steps
    PROVE  TypeInv' /\ DrainInv' /\ CallInv'
<1>1. PICK h \in Handles, b \in Handles, cells \in SUBSET Cells : Replacing(todo, h, b, cells)
    BY DEF Replaces
<1>2. /\ h \in Names /\ b \in Names /\ Live(h) /\ Live(b) /\ arr[h].len = arr[b].len
      /\ Empty(Tmp) /\ cells \subseteq All(h)
      /\ Plain => OthersHold(h) /\ Pending(h, 0, cells, Content(b))
    BY <1>1, NamesAre DEF Replacing
<1> DEFINE r1 == <<WriteStep(h, 0, cells, b)>>
           r2 == <<On("eval", b), WriteStep(h, 0, cells, b)>>
           r3 == <<On("eval", h), On("eval", b), WriteStep(h, 0, cells, b)>>
<1>3. ASSUME TypeInv', DrainInv', Preserves
      PROVE  /\ Live(h)' /\ Live(b)' /\ arr'[h].len = arr'[b].len
             /\ Empty(Tmp)' /\ cells \subseteq All(h)'
             /\ Plain => OthersHold(h)' /\ Pending(h, 0, cells, Content(b))'
    <2>1. /\ Live(h)' /\ Live(b)' /\ Empty(Tmp)' /\ arr'[h].len = arr'[b].len
          /\ All(h)' = All(h) /\ (Plain => OthersHold(h)')
        BY <1>2, <1>3, PreservesForms, NamesAre
    <2>2. ASSUME Plain PROVE Pending(h, 0, cells, Content(b))'
        <3>1. PICK w : w = Content(b)
            OBVIOUS
        <3>2. val'[h] = [c \in All(h)' |-> IF c - 0 \in cells THEN w[c - 0] ELSE Content(h)'[c]]
            <4>1. Pending(h, 0, cells, w)
                BY <1>2, <2>2, <3>1
            <4> QED
                BY <1>2, <1>3, <2>2, <4>1, PendingPreserved
        <3>3. Content(b)' = Content(b)
            BY <1>2, <1>3, <2>2, PreservesForms
        <3> QED
            BY <3>1, <3>2, <3>3 DEF Pending
    <2> QED
        BY <1>2, <2>1, <2>2
<1>4. CASE todo = <<On("cow", h), On("eval", h), On("eval", b), WriteStep(h, 0, cells, b)>>
    <2>1. Doing(On("cow", h), r3)
        BY <1>4, List4
    <2>2. TypeInv' /\ DrainInv' /\ Preserves /\ Alone(h)' /\ Continues(r3)
        BY <1>2, <2>1, CowEffect
    <2>3. Replacing(r3, h, b, cells)'
        BY <1>3, <2>2 DEF Replacing
    <2>4. Rest(r3)'
        BY <2>3 DEF Rest, Replaces
    <2> QED
        BY <2>1, <2>2, <2>4, CallContinues DEF Doing
<1>5. CASE todo = r3 /\ (Plain => Alone(h))
    <2>1. Doing(On("eval", h), r2)
        BY <1>5, List3
    <2>2. TypeInv' /\ DrainInv' /\ Preserves /\ Ready(h)' /\ Continues(r2)
        BY <1>2, <2>1, EvalStepEffect
    <2>3. Plain => Alone(h)'
        BY <1>2, <1>5, <2>2, PreservesForms
    <2>4. Replacing(r2, h, b, cells)'
        BY <1>3, <2>2, <2>3 DEF Replacing
    <2>5. Rest(r2)'
        BY <2>4 DEF Rest, Replaces
    <2> QED
        BY <2>1, <2>2, <2>5, CallContinues DEF Doing
<1>6. CASE todo = r2 /\ Ready(h) /\ (Plain => Alone(h))
    <2>1. Doing(On("eval", b), r1)
        BY <1>6, List2
    <2>2. TypeInv' /\ DrainInv' /\ Preserves /\ Ready(b)' /\ Continues(r1)
        BY <1>2, <2>1, EvalStepEffect
    <2>3. Ready(h)' /\ (Plain => Alone(h)')
        BY <1>2, <1>6, <2>2, PreservesForms
    <2>4. Replacing(r1, h, b, cells)'
        BY <1>3, <2>2, <2>3 DEF Replacing
    <2>5. Rest(r1)'
        BY <2>4 DEF Rest, Replaces
    <2> QED
        BY <2>1, <2>2, <2>5, CallContinues DEF Doing
<1>7. CASE todo = r1 /\ Ready(h) /\ Ready(b) /\ (Plain => Alone(h))
    <2>1. PICK i \in Nat : i = 0
        OBVIOUS
    <2>2. Doing(WriteStep(h, i, cells, b), <<>>)
        BY <1>7, <2>1, List1
    <2>3. Write
        BY <2>2, StepOf DEF WriteStep
    <2>4. cells \subseteq 0 .. arr[b].len - 1 /\ \A c \in cells : i + c < arr[h].len
        <3>1. arr[h].len \in Nat
            BY <1>2 DEF TypeInv, ArrayOK, Arrays
        <3> QED
            BY <1>2, <2>1, <3>1 DEF All
    <2>5. /\ TypeInv' /\ DrainInv' /\ Continues(<<>>) /\ UNCHANGED <<arr, val>>
          /\ Plain /\ Alone(h) => \A f \in Names \ {h} : Content(f)' = Content(f)
          /\ Plain => Content(h)' = [c \in All(h) |-> IF c - i \in cells
                                        THEN Content(b)[c - i] ELSE Content(h)[c]]
        BY <1>2, <1>7, <2>2, <2>3, <2>4, WriteEffect
    <2>6. ASSUME Plain
          PROVE  /\ OthersHold(h) /\ Content(h)' = val[h]
                 /\ \A f \in Names \ {h} : Content(f)' = Content(f)
        BY <1>2, <1>7, <2>1, <2>5, <2>6 DEF Pending
    <2>7. \A f \in Names \ {h} : arr'[f] = arr[f] /\ (Plain => Content(f)' = Content(f))
        BY <2>5, <2>6
    <2>8. Idle(<<>>)'
        BY <1>2, <2>5, <2>6, <2>7, OneChanges
    <2> QED
        BY <2>5, <2>8, IdleContinues
<1> QED
    BY <1>1, <1>4, <1>5, <1>6, <1>7 DEF Replacing

LEMMA OverwritingStep ==
    ASSUME TypeInv, DrainInv, Overwrites(todo), Steps
    PROVE  TypeInv' /\ DrainInv' /\ CallInv'
<1>1. PICK h \in Handles, d \in HostData : Overwriting(todo, h, d)
    BY DEF Overwrites
<1>2. /\ h \in Names /\ Live(h) /\ arr[h].len = Size /\ Empty(Tmp)
      /\ Plain => OthersHold(h) /\ val[h] = d
    BY <1>1, NamesAre DEF Overwriting
<1> DEFINE r1 == <<HostStep(h, d)>>
           r2 == <<SyncStep, HostStep(h, d)>>
           r3 == <<On("eval", h), HostStep(h, d)>>
           r4 == <<On("eval", h), SyncStep, HostStep(h, d)>>
           r5 == <<SyncStep, On("eval", h), HostStep(h, d)>>
<1>3. ASSUME NEW r, Overwriting(r, h, d)' PROVE Rest(r)'
    BY <1>3 DEF Rest, Overwrites
<1>4. ASSUME Preserves
      PROVE  /\ Live(h)' /\ arr'[h].len = Size /\ Empty(Tmp)'
             /\ Plain => OthersHold(h)' /\ val'[h] = d
             /\ (Alone(h) => Alone(h)') /\ (Ready(h) => Ready(h)')
    BY <1>2, <1>4, PreservesForms, NamesAre
<1>5. ASSUME Stays
      PROVE  /\ Live(h)' /\ arr'[h].len = Size /\ Empty(Tmp)'
             /\ Plain => OthersHold(h)' /\ val'[h] = d
             /\ (Alone(h) => Alone(h)') /\ (Ready(h) => Ready(h)')
    BY <1>2, <1>5, StaysForms
<1>6. ASSUME NEW r, Doing(On("own", h), r), Alone(h) \/ ~ arr[h].owner
      PROVE  TypeInv' /\ DrainInv' /\ Preserves /\ Alone(h)' /\ Continues(r)
    <2>1. CopyNotOwned /\ Cur.x = h
        BY <1>6, StepOf DEF Doing, On, Cur
    <2>2. CopyInto(h, h) \/ (Skip /\ Alone(h))
        BY <1>6, <2>1 DEF CopyNotOwned, CopyWhen, OverwriteNeedsCopy
    <2>3. UNCHANGED <<val, seen>>
        BY <2>1 DEF CopyNotOwned, CopyWhen
    <2> QED
        BY <1>2, <1>6, <2>2, <2>3, CopyWhenEffect
<1>7. ASSUME NEW r, Doing(On("device", h), r)
      PROVE  TypeInv' /\ DrainInv' /\ Preserves /\ Alone(h)' /\ Continues(r)
    <2>1. CopyForDevice /\ Cur.x = h
        BY <1>7, StepOf DEF Doing, On, Cur
    <2>2. CopyInto(h, h) \/ (Skip /\ Alone(h))
        BY <2>1 DEF CopyForDevice, CopyWhen, DeviceNeedsCopy, Shared, Alone
    <2>3. UNCHANGED <<val, seen>>
        BY <2>1 DEF CopyForDevice, CopyWhen
    <2> QED
        BY <1>2, <1>7, <2>2, <2>3, CopyWhenEffect
<1>8. CASE todo = <<On("own", h), On("eval", h), SyncStep, HostStep(h, d)>>
           /\ (Alone(h) \/ ~ arr[h].owner)
    <2>1. Doing(On("own", h), r4)
        BY <1>8, List4
    <2>2. TypeInv' /\ DrainInv' /\ Preserves /\ Alone(h)' /\ Continues(r4)
        BY <1>6, <1>8, <2>1
    <2>3. Overwriting(r4, h, d)'
        BY <1>4, <2>2 DEF Overwriting
    <2> QED
        BY <1>3, <2>1, <2>2, <2>3, CallContinues DEF Doing
<1>9. CASE todo = <<On("own", h), On("eval", h), HostStep(h, d)>> /\ DeviceWrites
           /\ (Alone(h) \/ ~ arr[h].owner)
    <2>1. Doing(On("own", h), r3)
        BY <1>9, List3
    <2>2. TypeInv' /\ DrainInv' /\ Preserves /\ Alone(h)' /\ Continues(r3)
        BY <1>6, <1>9, <2>1
    <2>3. Overwriting(r3, h, d)'
        BY <1>4, <1>9, <2>2 DEF Overwriting
    <2> QED
        BY <1>3, <2>1, <2>2, <2>3, CallContinues DEF Doing
<1>10. CASE todo = r4 /\ Alone(h)
    <2>1. Doing(On("eval", h), r2)
        BY <1>10, List3
    <2>2. TypeInv' /\ DrainInv' /\ Preserves /\ Ready(h)' /\ Continues(r2)
        BY <1>2, <2>1, EvalStepEffect
    <2>3. Overwriting(r2, h, d)'
        BY <1>4, <1>10, <2>2 DEF Overwriting
    <2> QED
        BY <1>3, <2>1, <2>2, <2>3, CallContinues DEF Doing
<1>11. CASE todo = r2 /\ Ready(h) /\ Alone(h)
    <2>1. Doing(SyncStep, r1)
        BY <1>11, List2
    <2>2. Sync
        BY <2>1, StepOf DEF SyncStep
    <2>3. TypeInv' /\ DrainInv' /\ Stays /\ queue' = <<>> /\ todo' = r1
        BY <2>1, <2>2, SyncEffect DEF Doing
    <2>4. Overwriting(r1, h, d)'
        BY <1>5, <1>11, <2>3 DEF Overwriting
    <2> QED
        BY <1>3, <2>3, <2>4 DEF CallInv
<1>12. CASE todo = r3 /\ (~ DeviceWrites => Ready(h) /\ queue = <<>>) /\ Alone(h)
    <2>1. Doing(On("eval", h), r1)
        BY <1>12, List2
    <2>2. /\ TypeInv' /\ DrainInv' /\ Preserves /\ Ready(h)' /\ Continues(r1)
          /\ Ready(h) => queue' = queue
        BY <1>2, <2>1, EvalStepEffect
    <2>3. Overwriting(r1, h, d)'
        BY <1>4, <1>12, <2>2 DEF Overwriting
    <2> QED
        BY <1>3, <2>1, <2>2, <2>3, CallContinues DEF Doing
<1>13. CASE todo = r1 /\ Ready(h) /\ (~ DeviceWrites => queue = <<>>) /\ Alone(h)
    <2>1. Doing(HostStep(h, d), <<>>)
        BY <1>13, List1
    <2>2. HostCopy
        BY <2>1, StepOf DEF HostStep
    <2>3. /\ TypeInv' /\ DrainInv' /\ todo' = <<>> /\ UNCHANGED <<arr, val, queue>>
          /\ Plain => \A f \in Names \ {h} : Content(f)' = Content(f)
          /\ Plain => Content(h)' = d
        <3>1. Plain => queue = <<>>
            BY <1>13 DEF Plain
        <3> QED
            BY <1>2, <1>13, <2>1, <2>2, <3>1, HostCopyEffect
    <2>4. Idle(<<>>)'
        BY <1>2, <2>3, OneChanges
    <2> QED
        BY <2>3, <2>4, IdleContinues DEF Continues
<1>14. CASE todo = r5 /\ Ready(h) /\ Alone(h)
    <2>1. Doing(SyncStep, r3)
        BY <1>14, List3
    <2>2. Sync
        BY <2>1, StepOf DEF SyncStep
    <2>3. TypeInv' /\ DrainInv' /\ Stays /\ queue' = <<>> /\ todo' = r3
        BY <2>1, <2>2, SyncEffect DEF Doing
    <2>4. Overwriting(r3, h, d)'
        BY <1>5, <1>14, <2>3 DEF Overwriting
    <2> QED
        BY <1>3, <2>3, <2>4 DEF CallInv
<1>15. CASE todo = <<On("device", h), SyncStep, On("eval", h), HostStep(h, d)>> /\ Ready(h)
    <2>1. Doing(On("device", h), r5)
        BY <1>15, List4
    <2>2. TypeInv' /\ DrainInv' /\ Preserves /\ Alone(h)' /\ Continues(r5)
        BY <1>7, <2>1
    <2>3. Overwriting(r5, h, d)'
        BY <1>4, <1>15, <2>2 DEF Overwriting
    <2> QED
        BY <1>3, <2>1, <2>2, <2>3, CallContinues DEF Doing
<1> QED
    BY <1>1, <1>8, <1>9, <1>10, <1>11, <1>12, <1>13, <1>14, <1>15 DEF Overwriting

-----------------------------------------------------------------------------
(***************************************************************************)
(* Every step of a call, and the worker, keep the invariant.               *)
(***************************************************************************)

\* Between two calls, nothing is left of the last one.
LEMMA IdleIs ==
    ASSUME Rest(<<>>)
    PROVE  Idle(<<>>)
<1>1. ~ Evals(<<>>) /\ ~ Copies(<<>>) /\ ~ Indexes(<<>>)
    BY DEF Evals, Evaluating, Copies, Copying, Indexes, Indexing
<1>2. ~ Adds(<<>>) /\ ~ Reads(<<>>) /\ ~ AssignsOut(<<>>)
    BY DEF Adds, Adding, Reads, Reading, AssignsOut, AssigningOut
<1>3. ~ Assigns(<<>>) /\ ~ Stores(<<>>) /\ ~ Drops(<<>>)
    BY DEF Assigns, Assigning, Stores, Storing, Drops
<1>4. ~ Replaces(<<>>)
    BY DEF Replaces, Replacing
<1>5. ~ Overwrites(<<>>)
    BY DEF Overwrites, Overwriting
<1> QED
    BY <1>1, <1>2, <1>3, <1>4, <1>5 DEF Rest

LEMMA StepsPreserve ==
    ASSUME TypeInv, DrainInv, CallInv, Steps
    PROVE  TypeInv' /\ DrainInv' /\ CallInv'
<1>1. todo # <<>>
    BY DEF Steps, Do, Sync, Eval, Copy, CopyOnWrite, CopyNotOwned, CopyForDevice, Write,
           HostCopy, HostRead, SubArray, Node, ModDims, Constant, Drop
<1>2. CASE Rest(todo)
    <2>1. ~ Idle(todo)
        BY <1>1 DEF Idle
    <2> QED
        BY <1>2, <2>1, EvaluatingStep, CopyingStep, IndexingStep, AddingStep, ReadingStep,
           AssigningOutStep, AssigningStep, StoringStep, DroppingStep, ReplacingStep,
           OverwritingStep DEF Rest
<1>3. CASE Head(todo) = SyncStep /\ Rest(Tail(todo))
    <2>1. PICK t : t = Tail(todo)
        OBVIOUS
    <2>2. Sync
        <3>1. PICK s : s = Head(todo) /\ s = SyncStep
            BY <1>3
        <3>2. s.op = "sync"
            BY <3>1 DEF SyncStep
        <3> QED
            BY <3>1, <3>2, StepAt
    <2>3. TypeInv' /\ DrainInv' /\ Stays /\ todo' = t
        BY <2>1, <2>2, SyncEffect
    <2>4. Rest(t)'
        BY <1>3, <2>1, <2>3, RestStays
    <2> QED
        BY <2>3, <2>4 DEF CallInv
<1> QED
    BY <1>2, <1>3 DEF CallInv

LEMMA WorkerPreserves ==
    ASSUME TypeInv, DrainInv, CallInv, Worker
    PROVE  TypeInv' /\ DrainInv' /\ CallInv'
<1>1. TypeInv' /\ DrainInv' /\ Stays /\ todo' = todo
    BY WorkerEffect DEF Worker
<1>2. PICK t : t = todo
    OBVIOUS
<1>3. CASE Rest(todo)
    <2>1. Rest(t)'
        BY <1>1, <1>2, <1>3, RestStays
    <2> QED
        BY <1>1, <1>2, <2>1 DEF CallInv
<1>4. CASE todo # <<>> /\ Head(todo) = SyncStep /\ Rest(Tail(todo))
    <2>1. PICK u : u = Tail(t)
        OBVIOUS
    <2>2. Rest(u)'
        BY <1>1, <1>2, <1>4, <2>1, RestStays
    <2> QED
        BY <1>1, <1>2, <1>4, <2>1, <2>2 DEF CallInv
<1> QED
    BY <1>3, <1>4 DEF CallInv

-----------------------------------------------------------------------------
(***************************************************************************)
(* The start of a call.                                                    *)
(***************************************************************************)

\* No array and no memory changes, only what the client expects.
Starts ==
    /\ todo = <<>> /\ arr' = arr /\ UNCHANGED <<mem, queue, seen>>
    /\ DOMAIN val' = Names /\ val' = [f \in DOMAIN val' |-> val'[f]]

\* A call that starts changes no array.
LEMMA StartEffect ==
    ASSUME TypeInv, DrainInv, CallInv, Starts
    PROVE  /\ TypeInv' /\ DrainInv' /\ Empty(Tmp) /\ (Plain => AllHold)
           /\ \A h : /\ arr'[h] = arr[h] /\ Content(h)' = Content(h) /\ All(h)' = All(h)
                     /\ Live(h)' <=> Live(h)
                     /\ Empty(h)' <=> Empty(h)
                     /\ Ready(h)' <=> Ready(h)
                     /\ Alone(h)' <=> Alone(h)
<1>1. todo = <<>> /\ arr' = arr /\ UNCHANGED <<mem, queue, seen>>
    BY DEF Starts
<1>2. Drained' = Drained
    BY <1>1 DEF Drained
<1>3. TypeInv' /\ DrainInv'
    BY <1>1, <1>2 DEF TypeInv, DrainInv, Starts
<1>4. Empty(Tmp) /\ (Plain => AllHold)
    <2>1. Rest(<<>>)
        BY <1>1 DEF CallInv
    <2> QED
        BY <2>1, IdleIs DEF Idle
<1>5. \A h : Content(h)' = Content(h)
    BY <1>1, <1>2, ContentForms
<1>6. ASSUME NEW h
      PROVE  /\ arr'[h] = arr[h] /\ All(h)' = All(h)
             /\ Live(h)' <=> Live(h)
             /\ Empty(h)' <=> Empty(h)
             /\ Ready(h)' <=> Ready(h)
             /\ Alone(h)' <=> Alone(h)
    BY <1>1 DEF Live, Empty, Ready, Alone, SharedWithArrays, HeldByArray, All
<1> QED
    BY <1>3, <1>4, <1>5, <1>6

\* A call that leaves the values alone
LEMMA SameEffect ==
    ASSUME TypeInv, DrainInv, CallInv, NEW steps, Calls(steps, val)
    PROVE  /\ TypeInv' /\ DrainInv' /\ todo' = steps /\ Starts /\ Empty(Tmp)'
           /\ Plain => AllHold'
<1>1. Starts /\ todo' = steps /\ val' = val
    BY DEF Starts, Calls, Begin, TypeInv
<1>2. /\ TypeInv' /\ DrainInv' /\ Empty(Tmp) /\ (Plain => AllHold)
      /\ \A h : /\ Content(h)' = Content(h)
                /\ Live(h)' <=> Live(h)
                /\ Empty(h)' <=> Empty(h)
    BY <1>1, StartEffect
<1>3. ASSUME Plain PROVE AllHold'
    BY <1>1, <1>2, <1>3 DEF AllHold, Holds
<1> QED
    BY <1>1, <1>2, <1>3

\* A call that gives h the value w
LEMMA GivesEffect ==
    ASSUME TypeInv, DrainInv, CallInv, NEW h \in Handles, NEW w, NEW steps,
           Calls(steps, [val EXCEPT ![h] = w])
    PROVE  /\ TypeInv' /\ DrainInv' /\ todo' = steps /\ Starts /\ Empty(Tmp)'
           /\ val'[h] = w /\ \A f \in Names \ {h} : val'[f] = val[f]
           /\ Plain => AllHold /\ OthersHold(h)'
           /\ Plain /\ Empty(h) => AllHold'
<1>1. todo = <<>> /\ todo' = steps /\ val' = [val EXCEPT ![h] = w] /\ UNCHANGED <<arr, mem, queue, seen>>
    BY DEF Calls, Begin
<1>2. /\ DOMAIN val' = Names /\ val' = [f \in DOMAIN val' |-> val'[f]]
      /\ val'[h] = w /\ \A f \in Names \ {h} : val'[f] = val[f]
    BY <1>1, NamesAre DEF TypeInv
<1>3. Starts
    BY <1>1, <1>2 DEF Starts
<1>4. /\ TypeInv' /\ DrainInv' /\ Empty(Tmp) /\ (Plain => AllHold)
      /\ \A f : /\ Content(f)' = Content(f)
                /\ Live(f)' <=> Live(f)
                /\ Empty(f)' <=> Empty(f)
    BY <1>3, StartEffect
<1>5. ASSUME Plain, NEW f \in Handles \ {h} PROVE Holds(f)'
    BY <1>2, <1>4, <1>5, NamesAre DEF AllHold, Holds
<1>6. ASSUME Plain PROVE OthersHold(h)'
    BY <1>5, <1>6 DEF OthersHold
<1>7. ASSUME Plain, Empty(h) PROVE AllHold'
    BY <1>4, <1>5, <1>7 DEF AllHold, Holds, Empty
<1> QED
    BY <1>1, <1>2, <1>3, <1>4, <1>6, <1>7

\* A call starts with the rest that is the whole of it.
LEMMA CallStarts ==
    ASSUME NEW t, todo' = t, Rest(t)'
    PROVE  CallInv'
BY DEF CallInv

LEMMA CopyArrayStarts ==
    ASSUME TypeInv, DrainInv, CallInv, NEW h \in Handles, NEW g \in Handles, CopyArray(h, g)
    PROVE  TypeInv' /\ DrainInv' /\ CallInv'
<1> DEFINE t == <<On("eval", h), CopyStep(h, g)>>
<1>1. Live(h) /\ Empty(g) /\ h # g /\ Calls(t, [val EXCEPT ![g] = val[h]])
    BY DEF CopyArray, CopyStep, Empty
<1>2. /\ TypeInv' /\ DrainInv' /\ todo' = t /\ Starts /\ Empty(Tmp)'
      /\ val'[g] = val[h] /\ \A f \in Names \ {g} : val'[f] = val[f]
      /\ Plain => AllHold'
    <2>1. PICK w : w = val[h]
        OBVIOUS
    <2> QED
        BY <1>1, <2>1, GivesEffect
<1>3. Live(h)' /\ Empty(g)'
    BY <1>1, <1>2, StartEffect
<1>4. val'[g] = val'[h]
    BY <1>1, <1>2, NamesAre
<1>5. Copying(t, h, g)'
    BY <1>2, <1>3, <1>4 DEF Copying
<1>6. Rest(t)'
    BY <1>5 DEF Rest, Copies
<1> QED
    BY <1>2, <1>6, CallStarts

LEMMA IndexStarts ==
    ASSUME TypeInv, DrainInv, CallInv, NEW h \in Handles, NEW g \in Handles, NEW i \in Cells,
           NEW n \in 1 .. Size, Index(h, i, n, g)
    PROVE  TypeInv' /\ DrainInv' /\ CallInv'
<1> DEFINE t == <<On("eval", h), SubStep(h, i, n, g)>>
<1>1. PICK w : w = Part(val[h], i, n)
    OBVIOUS
<1>2. Live(h) /\ Empty(g) /\ h # g /\ i + n <= arr[h].len /\ Calls(t, [val EXCEPT ![g] = w])
    BY <1>1 DEF Index, SubStep, Part, Empty
<1>3. /\ TypeInv' /\ DrainInv' /\ todo' = t /\ Starts /\ Empty(Tmp)'
      /\ val'[g] = w /\ \A f \in Names \ {g} : val'[f] = val[f]
      /\ Plain => AllHold'
    BY <1>2, GivesEffect
<1>4. Live(h)' /\ Empty(g)' /\ i + n <= arr'[h].len
    BY <1>2, <1>3, StartEffect
<1>5. val'[h] = val[h] /\ val'[g] = Part(val'[h], i, n)
    BY <1>1, <1>2, <1>3, NamesAre
<1>6. Indexing(t, h, g, i, n)'
    BY <1>3, <1>4, <1>5 DEF Indexing
<1>7. Rest(t)'
    BY <1>6 DEF Rest, Indexes
<1> QED
    BY <1>3, <1>7, CallStarts

LEMMA AddStarts ==
    ASSUME TypeInv, DrainInv, CallInv, NEW h \in Handles, NEW k \in Handles, NEW g \in Handles,
           Add(h, k, g)
    PROVE  TypeInv' /\ DrainInv' /\ CallInv'
<1> DEFINE t == <<NodeStep(<<h, k>>, g)>>
<1>1. PICK w : w = Total(val[h], val[k], arr[h].len)
    OBVIOUS
<1>2. /\ Live(h) /\ Live(k) /\ Empty(g) /\ h # g /\ k # g /\ arr[h].len = arr[k].len
      /\ arr[h].height < MaxHeight /\ arr[k].height < MaxHeight
      /\ Calls(t, [val EXCEPT ![g] = w])
    BY <1>1 DEF Add, NodeStep, Total, All, Empty
<1>3. /\ TypeInv' /\ DrainInv' /\ todo' = t /\ Starts /\ Empty(Tmp)'
      /\ val'[g] = w /\ \A f \in Names \ {g} : val'[f] = val[f]
      /\ Plain => AllHold'
    BY <1>2, GivesEffect
<1>4. arr' = arr /\ Live(h)' /\ Live(k)' /\ Empty(g)'
    BY <1>2, <1>3, StartEffect DEF Starts
<1>5. val'[h] = val[h] /\ val'[k] = val[k] /\ val'[g] = Total(val'[h], val'[k], arr'[h].len)
    BY <1>1, <1>2, <1>3, <1>4, NamesAre
<1>6. Adding(t, h, k, g)'
    BY <1>2, <1>3, <1>4, <1>5 DEF Adding
<1>7. Rest(t)'
    BY <1>6 DEF Rest, Adds
<1> QED
    BY <1>3, <1>7, CallStarts

LEMMA EvalCallStarts ==
    ASSUME TypeInv, DrainInv, CallInv, NEW h \in Handles, EvalCall(h)
    PROVE  TypeInv' /\ DrainInv' /\ CallInv'
<1> DEFINE t == <<On("eval", h)>>
<1>1. Live(h) /\ Calls(t, val)
    BY DEF EvalCall
<1>2. /\ TypeInv' /\ DrainInv' /\ todo' = t /\ Starts /\ Empty(Tmp)' /\ (Plain => AllHold')
    BY <1>1, SameEffect
<1>3. Evaluating(t, h)'
    BY <1>1, <1>2, StartEffect DEF Evaluating
<1>4. Rest(t)'
    BY <1>3 DEF Rest, Evals
<1> QED
    BY <1>2, <1>4, CallStarts

LEMMA GetDataStarts ==
    ASSUME TypeInv, DrainInv, CallInv, NEW h \in Handles, GetData(h)
    PROVE  TypeInv' /\ DrainInv' /\ CallInv'
<1> DEFINE t == <<On("eval", h), SyncStep, On("read", h)>>
<1>1. Live(h) /\ Calls(t, val)
    BY DEF GetData
<1>2. /\ TypeInv' /\ DrainInv' /\ todo' = t /\ Starts /\ Empty(Tmp)' /\ (Plain => AllHold')
    BY <1>1, SameEffect
<1>3. Reading(t, h)'
    BY <1>1, <1>2, StartEffect DEF Reading
<1>4. Rest(t)'
    BY <1>3 DEF Rest, Reads
<1> QED
    BY <1>2, <1>4, CallStarts

LEMMA SyncCallStarts ==
    ASSUME TypeInv, DrainInv, CallInv, SyncCall
    PROVE  TypeInv' /\ DrainInv' /\ CallInv'
<1>1. /\ TypeInv' /\ DrainInv' /\ todo' = <<SyncStep>> /\ Empty(Tmp)' /\ (Plain => AllHold')
    BY SameEffect DEF SyncCall
<1>2. Rest(<<>>)'
    BY <1>1 DEF Rest, Idle
<1>3. <<SyncStep>> # <<>> /\ Head(<<SyncStep>>) = SyncStep /\ Tail(<<SyncStep>>) = <<>>
    OBVIOUS
<1> QED
    BY <1>1, <1>2, <1>3 DEF CallInv

\* The call's right-hand side as a source of Tmp
SourceOf(rhs) == IF arr[rhs].len = 1 THEN NodeStep(<<rhs>>, Tmp) ELSE ModDimsStep(rhs, Tmp)

LEMMA SourceOfOK ==
    ASSUME TypeInv, NEW h, NEW rhs \in Handles, Live(rhs), rhs # h
    PROVE  /\ SourceOf(rhs) \in Sources
           /\ SourceOK(SourceOf(rhs), h, arr[rhs].len)
           /\ SourceData(SourceOf(rhs)) = Content(rhs)
<1>1. CASE arr[rhs].len = 1
    <2>1. PICK k : k = NodeStep(<<rhs>>, Tmp)
        OBVIOUS
    <2>2. k \in Sources
        BY <2>1 DEF Sources
    <2>3. k.op = "node" /\ k.children = <<rhs>>
        BY <2>1 DEF NodeStep
    <2>4. SourceArray(k) = rhs
        BY <2>3 DEF SourceArray
    <2>5. SourceOK(k, h, arr[rhs].len) /\ SourceData(k) = Content(rhs)
        BY <1>1, <2>3, <2>4 DEF SourceOK, SourceData
    <2> QED
        BY <1>1, <2>1, <2>2, <2>5 DEF SourceOf
<1>2. CASE arr[rhs].len # 1
    <2>1. PICK k : k = ModDimsStep(rhs, Tmp)
        OBVIOUS
    <2>2. k \in Sources
        BY <2>1 DEF Sources
    <2>3. k.op = "moddims" /\ k.x = rhs
        BY <2>1 DEF ModDimsStep
    <2>4. SourceArray(k) = rhs
        BY <2>3 DEF SourceArray
    <2>5. SourceOK(k, h, arr[rhs].len) /\ SourceData(k) = Content(rhs)
        BY <2>3, <2>4 DEF SourceOK, SourceData
    <2> QED
        BY <1>2, <2>1, <2>2, <2>5 DEF SourceOf
<1> QED
    BY <1>1, <1>2

LEMMA LenOf ==
    ASSUME TypeInv, NEW h \in Handles, Live(h)
    PROVE  arr[h].len \in 1 .. Size /\ Size \in Nat /\ DOMAIN Content(h) = 0 .. arr[h].len - 1
           /\ Content(h) = [c \in 0 .. arr[h].len - 1 |-> Content(h)[c]]
<1>1. arr[h].len \in 0 .. Size /\ Size \in Nat /\ arr[h].len > 0
    BY NamesAre, StoreAssumption DEF TypeInv, ArrayOK, Arrays, Live
<1>2. Content(h) = DataOf(arr[h], Drained)
    BY ContentForms
<1> QED
    BY <1>1, <1>2 DEF DataOf

\* A concatenation is the list with the elements of both.
LEMMA Joins ==
    ASSUME NEW T, NEW p \in Seq(T), NEW q \in Seq(T), NEW r \in Seq(T),
           Len(r) = Len(p) + Len(q), \A j \in 1 .. Len(p) : r[j] = p[j],
           \A j \in 1 .. Len(q) : r[Len(p) + j] = q[j]
    PROVE  p \o q = r
<1>1. PICK s : s = p \o q
    OBVIOUS
<1>2. /\ s \in Seq(T) /\ Len(s) = Len(p) + Len(q)
      /\ \A j \in 1 .. Len(p) + Len(q) :
           s[j] = IF j <= Len(p) THEN p[j] ELSE q[j - Len(p)]
    BY <1>1, ConcatProperties
<1>3. PICK n \in Nat, k \in Nat : n = Len(p) /\ k = Len(q)
    OBVIOUS
<1>4. ASSUME NEW j \in 1 .. n + k PROVE s[j] = r[j]
    <2>1. CASE j <= n
        BY <1>2, <1>3, <2>1
    <2>2. CASE j > n
        <3>1. j - n \in 1 .. k /\ n + (j - n) = j
            BY <2>2
        <3>2. r[n + (j - n)] = q[j - n]
            BY <1>3, <3>1
        <3> QED
            BY <1>2, <1>3, <2>2, <3>1, <3>2
    <2> QED
        BY <2>1, <2>2
<1> QED
    BY <1>1, <1>2, <1>3, <1>4

LEMMA Prepend ==
    ASSUME NEW a, NEW b, NEW c, NEW d, NEW e, NEW f
    PROVE  <<a>> \o <<b, c, d, e, f>> = <<a, b, c, d, e, f>>
<1> DEFINE T == {a, b, c, d, e, f}
           p == <<a>>
           q == <<b, c, d, e, f>>
           r == <<a, b, c, d, e, f>>
<1>1. p \in Seq(T) /\ q \in Seq(T) /\ r \in Seq(T) /\ Len(p) = 1 /\ Len(q) = 5 /\ Len(r) = 6
    OBVIOUS
<1>2. p[1] = r[1] /\ q[1] = r[2] /\ q[2] = r[3] /\ q[3] = r[4] /\ q[4] = r[5] /\ q[5] = r[6]
    OBVIOUS
<1> HIDE DEF p, q, r, T
<1>3. Len(r) = Len(p) + Len(q)
    BY <1>1
<1>4. \A j \in 1 .. Len(p) : r[j] = p[j]
    BY <1>1, <1>2
<1>5. ASSUME NEW j \in 1 .. Len(q) PROVE r[Len(p) + j] = q[j]
    <2>1. j = 1 \/ j = 2 \/ j = 3 \/ j = 4 \/ j = 5
        BY <1>1
    <2> QED
        BY <1>1, <1>2, <2>1
<1>6. p \o q = r
    BY <1>1, <1>3, <1>4, <1>5, Joins
<1> QED
    BY <1>6 DEF p, q, r

LEMMA AssignStepsAre ==
    ASSUME NEW h, NEW i, NEW rhs, NEW n, n = arr[rhs].len, NEW k, k = SourceOf(rhs)
    PROVE  AssignSteps(h, i, rhs) = <<On("eval", h), k, On("eval", Tmp),
                                      WriteTmp(h, i, n), On("drop", Tmp)>>
<1>1. PICK x : x = WriteTmp(h, i, n)
    OBVIOUS
<1>2. k = IF arr[rhs].len = 1 THEN [op |-> "node", children |-> <<rhs>>, y |-> Tmp]
                              ELSE [op |-> "moddims", x |-> rhs, y |-> Tmp]
    BY DEF SourceOf, NodeStep, ModDimsStep
<1>3. x = [op |-> "write", x |-> h, off |-> i, cells |-> All(rhs), y |-> Tmp]
    BY <1>1 DEF WriteTmp, WriteStep, All
<1> QED
    BY <1>1, <1>2, <1>3 DEF AssignSteps

LEMMA AssignStarts ==
    ASSUME TypeInv, DrainInv, CallInv, NEW h \in Handles, NEW rhs \in Handles, NEW i \in Cells,
           Assign(h, i, rhs)
    PROVE  TypeInv' /\ DrainInv' /\ CallInv'
<1>1. PICK w : w = Overwritten(val[h], i, val[rhs])
    OBVIOUS
<1>2. /\ Live(h) /\ Live(rhs) /\ i + arr[rhs].len <= arr[h].len /\ i \in Nat
      /\ Calls(<<On("cow", h)>> \o (IF h = rhs THEN <<>> ELSE AssignSteps(h, i, rhs)),
               [val EXCEPT ![h] = w])
    BY <1>1, StoreAssumption DEF Assign, Cells
<1>3. PICK t : t = <<On("cow", h)>> \o (IF h = rhs THEN <<>> ELSE AssignSteps(h, i, rhs))
    OBVIOUS
<1>4. /\ TypeInv' /\ DrainInv' /\ todo' = t /\ Starts /\ Empty(Tmp)'
      /\ val'[h] = w /\ \A f \in Names \ {h} : val'[f] = val[f]
      /\ Plain => AllHold /\ OthersHold(h)'
    BY <1>2, <1>3, GivesEffect
<1>5. /\ arr' = arr /\ Live(h)' /\ Live(rhs)'
      /\ \A f : Content(f)' = Content(f) /\ All(f)' = All(f)
    BY <1>2, <1>4, StartEffect DEF Starts
<1>6. ASSUME Plain
      PROVE  /\ val[h] = Content(h) /\ val[rhs] = Content(rhs)
             /\ DOMAIN val[h] = All(h) /\ DOMAIN val[rhs] = All(rhs)
             /\ val[h] = [c \in All(h) |-> val[h][c]]
    BY <1>2, <1>4, <1>6, LenOf DEF AllHold, Holds, All
<1>7. CASE h = rhs
    <2>1. i = 0
        BY <1>2, <1>7, LenOf
    <2>2. t = <<On("cow", h)>>
        BY <1>3, <1>7
    <2>3. ASSUME Plain PROVE AllHold'
        <3>1. \A c \in All(h) : c - i = c
            BY <2>1, <1>2, LenOf DEF All
        <3>2. w = [c \in All(h) |-> val[h][c]]
            BY <1>1, <1>6, <1>7, <2>3, <3>1 DEF Overwritten
        <3>3. Holds(h)'
            BY <1>4, <1>5, <1>6, <2>3, <3>2 DEF Holds
        <3> QED
            BY <1>4, <2>3, <3>3 DEF AllHold, OthersHold
    <2>4. Evaluating(t, h)'
        BY <1>4, <1>5, <2>2, <2>3 DEF Evaluating
    <2>5. Rest(t)'
        BY <2>4 DEF Rest, Evals
    <2> QED
        BY <1>4, <2>5, CallStarts
<1>8. CASE h # rhs
    <2>1. PICK n \in 1 .. Size : n = arr[rhs].len
        BY <1>2, LenOf
    <2>2. PICK k \in Sources : k = SourceOf(rhs)
        BY <1>2, <1>8, SourceOfOK
    <2>3. SourceOK(k, h, n) /\ SourceData(k) = Content(rhs)
        BY <1>2, <1>8, <2>1, <2>2, SourceOfOK
    <2>4. t = <<On("cow", h), On("eval", h), k, On("eval", Tmp), WriteTmp(h, i, n), On("drop", Tmp)>>
        <3>1. AssignSteps(h, i, rhs) = <<On("eval", h), k, On("eval", Tmp), WriteTmp(h, i, n), On("drop", Tmp)>>
            BY <2>1, <2>2, AssignStepsAre
        <3> QED
            BY <1>3, <1>8, <3>1, Prepend
    <2>5. SourceOK(k, h, n)' /\ SourceData(k)' = SourceData(k)
        BY <1>5, <2>3 DEF SourceOK, SourceData, Live
    <2>6. ASSUME Plain PROVE Pending(h, i, 0 .. n - 1, SourceData(k))'
        <3>1. All(rhs) = 0 .. n - 1
            BY <2>1 DEF All
        <3>2. w = [c \in All(h) |-> IF c - i \in 0 .. n - 1 THEN Content(rhs)[c - i] ELSE Content(h)[c]]
            BY <1>1, <1>6, <2>6, <3>1 DEF Overwritten
        <3> QED
            BY <1>4, <1>5, <2>3, <2>5, <3>2 DEF Pending
    <2>7. Assigning(t, h, i, n, k)'
        BY <1>2, <1>4, <1>5, <2>1, <2>4, <2>5, <2>6 DEF Assigning
    <2>8. Rest(t)'
        BY <2>7 DEF Rest, Assigns
    <2> QED
        BY <1>4, <2>8, CallStarts
<1> QED
    BY <1>7, <1>8

LEMMA AssignValueStarts ==
    ASSUME TypeInv, DrainInv, CallInv, NEW h \in Handles, NEW i \in Cells, NEW v \in ScalarData,
           AssignValue(h, i, v)
    PROVE  TypeInv' /\ DrainInv' /\ CallInv'
<1>1. PICK w : w = [val[h] EXCEPT ![i] = v]
    OBVIOUS
<1>2. PICK n \in 1 .. Size : n = 1
    BY StoreAssumption
<1>3. PICK k \in Sources : k = ConstantStep(v)
    BY DEF Sources
<1> DEFINE t == <<On("cow", h), On("eval", h), k, On("eval", Tmp), WriteTmp(h, i, n), On("drop", Tmp)>>
<1>4. Live(h) /\ i < arr[h].len /\ i \in Nat /\ Calls(t, [val EXCEPT ![h] = w])
    <2>1. 0 .. n - 1 = {0}
        BY <1>2
    <2>2. [val EXCEPT ![h][i] = v] = [val EXCEPT ![h] = w]
        BY <1>1
    <2>3. i \in Nat
        BY StoreAssumption DEF Cells
    <2> QED
        BY <1>3, <2>1, <2>2, <2>3 DEF AssignValue, ConstantStep, WriteTmp, WriteStep
<1>5. /\ TypeInv' /\ DrainInv' /\ todo' = t /\ Starts /\ Empty(Tmp)'
      /\ val'[h] = w
      /\ Plain => AllHold /\ OthersHold(h)'
    BY <1>4, GivesEffect
<1>6. /\ arr' = arr /\ Live(h)' /\ \A f : Content(f)' = Content(f) /\ All(f)' = All(f)
    BY <1>4, <1>5, StartEffect DEF Starts
<1>7. k.op = "constant" /\ k.v = v
    BY <1>3 DEF ConstantStep
<1>8. SourceOK(k, h, n)' /\ SourceData(k)' = [c \in {0} |-> v]
    BY <1>2, <1>7 DEF SourceOK, SourceData
<1>9. i + n <= arr'[h].len
    BY <1>2, <1>4, <1>6, LenOf
<1>10. ASSUME Plain PROVE Pending(h, i, 0 .. n - 1, SourceData(k))'
    <2>1. val[h] = Content(h) /\ Content(h) = [c \in All(h) |-> Content(h)[c]]
        BY <1>4, <1>5, <1>10, LenOf DEF AllHold, Holds, All
    <2>2. PICK x : x = Content(h)
        OBVIOUS
    <2>3. w = [c \in All(h) |-> IF c = i THEN v ELSE x[c]]
        BY <1>1, <2>1, <2>2
    <2>4. \A c \in All(h) : (c - i \in 0 .. n - 1) <=> c = i
        BY <1>2, <1>4, LenOf DEF All
    <2>5. \A c \in All(h) : c = i => c - i = 0
        BY <1>4
    <2>6. w = [c \in All(h) |-> IF c - i \in 0 .. n - 1 THEN [e \in {0} |-> v][c - i] ELSE x[c]]
        BY <2>3, <2>4, <2>5
    <2> QED
        BY <1>5, <1>6, <1>8, <2>2, <2>6 DEF Pending
<1>11. Assigning(t, h, i, n, k)'
    BY <1>5, <1>6, <1>8, <1>9, <1>10 DEF Assigning
<1>12. Rest(t)'
    BY <1>11 DEF Rest, Assigns
<1> QED
    BY <1>5, <1>12, CallStarts

LEMMA AssignSeqStarts ==
    ASSUME TypeInv, DrainInv, CallInv, NEW h \in Handles, NEW rhs \in Handles, NEW g \in Handles,
           NEW i \in Cells, AssignSeq(h, i, rhs, g)
    PROVE  TypeInv' /\ DrainInv' /\ CallInv'
<1>1. PICK w : w = Overwritten(val[h], i, val[rhs])
    OBVIOUS
<1>2. PICK s \in {"copy", "moddims"} : s = IF Shared(h) THEN "copy" ELSE "moddims"
    OBVIOUS
<1> DEFINE first == [op |-> s, x |-> h, y |-> g]
<1>3. PICK t : t = <<first>> \o (IF h = rhs THEN <<>> ELSE AssignSteps(g, i, rhs))
    OBVIOUS
<1>4. /\ CAssigns /\ Live(h) /\ Live(rhs) /\ Empty(g) /\ rhs # g
      /\ i + arr[rhs].len <= arr[h].len /\ Calls(t, [val EXCEPT ![g] = w])
    BY <1>1, <1>2, <1>3 DEF AssignSeq, Empty
<1>5. /\ TypeInv' /\ DrainInv' /\ todo' = t /\ Starts /\ Empty(Tmp)'
    BY <1>4, GivesEffect
<1>6. /\ arr' = arr /\ Live(h)' /\ Live(rhs)' /\ Empty(g)' /\ (Ready(h)' <=> Ready(h))
    BY <1>4, <1>5, StartEffect DEF Starts
<1>7. s = "copy" => Ready(h)
    BY <1>2 DEF Shared, SharedWithArrays
<1>8. PICK n \in 1 .. Size : n = arr[rhs].len
    BY <1>4, LenOf
<1>9. PICK k \in Sources : k = SourceOf(rhs)
    BY <1>4, SourceOfOK
<1>10. SourceOK(k, g, n)
    BY <1>4, <1>8, <1>9, SourceOfOK
<1>11. SourceOK(k, g, n)'
    BY <1>6, <1>10 DEF SourceOK, Live
<1>12. AssigningOut(t, h, g, s, i, n, k)'
    <2>1. CASE h = rhs
        <3>1. t = <<first>>
            BY <1>3, <2>1
        <3> QED
            BY <1>4, <1>5, <1>6, <1>7, <3>1 DEF AssigningOut
    <2>2. CASE h # rhs
        <3>1. AssignSteps(g, i, rhs) = <<On("eval", g), k, On("eval", Tmp), WriteTmp(g, i, n), On("drop", Tmp)>>
            BY <1>8, <1>9, AssignStepsAre
        <3>2. t = <<first, On("eval", g), k, On("eval", Tmp), WriteTmp(g, i, n), On("drop", Tmp)>>
            BY <1>3, <2>2, <3>1, Prepend
        <3> QED
            BY <1>4, <1>5, <1>6, <1>7, <1>8, <1>11, <3>2 DEF AssigningOut
    <2> QED
        BY <2>1, <2>2
<1>13. Rest(t)'
    BY <1>12 DEF Rest, AssignsOut
<1> QED
    BY <1>5, <1>13, CallStarts

LEMMA ReplaceStarts ==
    ASSUME TypeInv, DrainInv, CallInv, NEW h \in Handles, NEW b \in Handles, NEW mask,
           Replace(h, mask, b)
    PROVE  TypeInv' /\ DrainInv' /\ CallInv'
<1>1. PICK w : w = [c \in All(h) |-> IF c \in mask THEN val[h][c] ELSE val[b][c]]
    OBVIOUS
<1>2. Live(h) /\ Live(b) /\ arr[h].len = arr[b].len
    BY DEF Replace
<1>3. PICK cells \in SUBSET Cells : cells = All(h) \ mask
    <2>1. All(h) \ mask \in SUBSET Cells
        BY <1>2, LenOf DEF All, Cells
    <2> QED
        BY <2>1
<1> DEFINE t == <<On("cow", h), On("eval", h), On("eval", b), WriteStep(h, 0, cells, b)>>
<1>4. Calls(t, [val EXCEPT ![h] = w])
    BY <1>1, <1>3 DEF Replace, WriteStep
<1>5. /\ TypeInv' /\ DrainInv' /\ todo' = t /\ Starts /\ Empty(Tmp)'
      /\ val'[h] = w
      /\ Plain => AllHold /\ OthersHold(h)'
    BY <1>4, GivesEffect
<1>6. /\ arr' = arr /\ Live(h)' /\ Live(b)' /\ \A f : Content(f)' = Content(f) /\ All(f)' = All(f)
    BY <1>2, <1>5, StartEffect DEF Starts
<1>7. ASSUME Plain PROVE Pending(h, 0, cells, Content(b))'
    <2>1. val[h] = Content(h) /\ val[b] = Content(b)
        BY <1>2, <1>5, <1>7 DEF AllHold, Holds
    <2>2. \A c \in All(h) : c - 0 = c /\ (c \in cells <=> c \notin mask)
        BY <1>3 DEF All
    <2>3. w = [c \in All(h) |-> IF c - 0 \in cells THEN Content(b)[c - 0] ELSE Content(h)[c]]
        BY <1>1, <2>1, <2>2
    <2> QED
        BY <1>5, <1>6, <2>3 DEF Pending
<1>8. Replacing(t, h, b, cells)'
    BY <1>2, <1>3, <1>5, <1>6, <1>7 DEF Replacing
<1>9. Rest(t)'
    BY <1>8 DEF Rest, Replaces
<1> QED
    BY <1>5, <1>9, CallStarts

\* The calls of the host's own writes
LEMMA OverwriteStarts ==
    ASSUME TypeInv, DrainInv, CallInv, NEW h \in Handles, NEW d \in HostData, NEW steps,
           Live(h), arr[h].len = Size, Calls(steps, [val EXCEPT ![h] = d]),
           \/ /\ steps = <<On("own", h), On("eval", h), SyncStep, HostStep(h, d)>>
              /\ Alone(h) \/ ~ arr[h].owner
           \/ /\ steps = <<On("own", h), On("eval", h), HostStep(h, d)>> /\ DeviceWrites
              /\ Alone(h) \/ ~ arr[h].owner
           \/ steps = <<On("device", h), SyncStep, On("eval", h), HostStep(h, d)>> /\ Ready(h)
    PROVE  TypeInv' /\ DrainInv' /\ CallInv'
<1>1. /\ TypeInv' /\ DrainInv' /\ todo' = steps /\ Starts /\ Empty(Tmp)'
      /\ val'[h] = d
      /\ Plain => OthersHold(h)'
    BY GivesEffect
<1>2. /\ Live(h)' /\ arr' = arr /\ (Ready(h)' <=> Ready(h)) /\ (Alone(h)' <=> Alone(h))
    BY <1>1, StartEffect DEF Starts
<1>3. Overwriting(steps, h, d)'
    BY <1>1, <1>2 DEF Overwriting
<1>4. Rest(steps)'
    BY <1>3 DEF Rest, Overwrites
<1> QED
    BY <1>1, <1>4, CallStarts

LEMMA WriteArrayStarts ==
    ASSUME TypeInv, DrainInv, CallInv, NEW h \in Handles, NEW d \in HostData, WriteArray(h, d)
    PROVE  TypeInv' /\ DrainInv' /\ CallInv'
<1>1. PICK t : t = <<On("own", h), On("eval", h), SyncStep, HostStep(h, d)>>
    OBVIOUS
<1>2. /\ Live(h) /\ arr[h].len = Size /\ (Alone(h) \/ ~ arr[h].owner)
      /\ Calls(t, [val EXCEPT ![h] = d])
    BY <1>1 DEF WriteArray, Alone, HostStep
<1> QED
    BY <1>1, <1>2, OverwriteStarts

LEMMA WriteDeviceStarts ==
    ASSUME TypeInv, DrainInv, CallInv, NEW h \in Handles, NEW d \in HostData, WriteDevice(h, d)
    PROVE  TypeInv' /\ DrainInv' /\ CallInv'
<1>1. PICK t : t = <<On("own", h), On("eval", h), HostStep(h, d)>>
    OBVIOUS
<1>2. /\ Live(h) /\ arr[h].len = Size /\ (Alone(h) \/ ~ arr[h].owner) /\ DeviceWrites
      /\ Calls(t, [val EXCEPT ![h] = d])
    BY <1>1 DEF WriteDevice, Alone, HostStep
<1> QED
    BY <1>1, <1>2, OverwriteStarts

LEMMA DevicePtrStarts ==
    ASSUME TypeInv, DrainInv, CallInv, NEW h \in Handles, NEW d \in HostData, DevicePtr(h, d)
    PROVE  TypeInv' /\ DrainInv' /\ CallInv'
<1>1. PICK t : t = <<On("device", h), SyncStep, On("eval", h), HostStep(h, d)>>
    OBVIOUS
<1>2. Live(h) /\ arr[h].len = Size /\ Ready(h) /\ Calls(t, [val EXCEPT ![h] = d])
    BY <1>1 DEF DevicePtr, HostStep
<1> QED
    BY <1>1, <1>2, OverwriteStarts

-----------------------------------------------------------------------------
(* The calls that make or drop an array at once.                           *)

\* A call of one step gives a handle an array and a value.
LEMMA MakesEffect ==
    ASSUME TypeInv, DrainInv, CallInv, todo = <<>>, NEW h \in Handles, NEW new, NEW w,
           ArrayOK(new), new.height <= MaxHeight, arr' = [arr EXCEPT ![h] = new],
           val' = [val EXCEPT ![h] = w], UNCHANGED <<mem, queue, seen>>
    PROVE  /\ TypeInv' /\ DrainInv' /\ Empty(Tmp) /\ Empty(Tmp)'
           /\ arr'[h] = new /\ Content(h)' = DataOf(new, Drained) /\ val'[h] = w
           /\ \A f \in Names \ {h} : /\ arr'[f] = arr[f] /\ val'[f] = val[f]
                                     /\ Content(f)' = Content(f)
           /\ Plain => AllHold /\ OthersHold(h) /\ OthersHold(h)'
<1>1. /\ DOMAIN val' = Names /\ val' = [f \in DOMAIN val' |-> val'[f]]
      /\ val'[h] = w /\ \A f \in Names \ {h} : val'[f] = val[f]
    BY NamesAre DEF TypeInv
<1>2. Sets(h, new)
    BY <1>1 DEF Sets
<1>3. /\ TypeInv' /\ DrainInv'
      /\ arr'[h] = new /\ Content(h)' = DataOf(new, Drained)
      /\ \A f \in Names \ {h} : arr'[f] = arr[f] /\ Content(f)' = Content(f)
    BY <1>2, NamesAre, SetEffect
<1>4. Rest(<<>>)
    BY DEF CallInv
<1>5. Empty(Tmp) /\ (Plain => AllHold)
    BY <1>4, IdleIs DEF Idle
<1>6. Empty(Tmp)'
    BY <1>3, <1>5, NamesAre DEF Empty, Live
<1>7. ASSUME Plain PROVE OthersHold(h) /\ OthersHold(h)'
    BY <1>1, <1>3, <1>5, <1>7, NamesAre DEF AllHold, OthersHold, Holds, Live
<1> QED
    BY <1>1, <1>3, <1>5, <1>6, <1>7

LEMMA MakesStarts ==
    ASSUME TypeInv, DrainInv, CallInv, todo = <<>>, todo' = <<>>, NEW h \in Handles, NEW new, NEW w,
           ArrayOK(new), new.height <= MaxHeight, arr' = [arr EXCEPT ![h] = new],
           val' = [val EXCEPT ![h] = w], UNCHANGED <<mem, queue, seen>>,
           Plain /\ new.len > 0 => DataOf(new, Drained) = w
    PROVE  TypeInv' /\ DrainInv' /\ CallInv'
<1>1. /\ TypeInv' /\ DrainInv' /\ Empty(Tmp)
      /\ arr'[h] = new /\ Content(h)' = DataOf(new, Drained) /\ val'[h] = w
      /\ \A f \in Names \ {h} : /\ arr'[f] = arr[f] /\ val'[f] = val[f]
                                /\ Content(f)' = Content(f)
      /\ Plain => OthersHold(h)
    BY MakesEffect, ZenonT(30)
<1>2. Idle(<<>>)'
    BY <1>1, GivenChanges DEF Live
<1> QED
    BY <1>1, <1>2, IdleContinues DEF Continues

LEMMA CreateArrayStarts ==
    ASSUME TypeInv, DrainInv, CallInv, NEW h \in Handles, NEW d \in HostData, CreateArray(h, d)
    PROVE  TypeInv' /\ DrainInv' /\ CallInv'
<1>1. PICK b \in FreeBufs : arr' = [arr EXCEPT ![h] = [NoArray EXCEPT !.buf = b, !.len = Size]]
    BY DEF CreateArray
<1>2. PICK new : new = FreshView(b, Size, TRUE)
    OBVIOUS
<1>3. b \in Bufs /\ Size \in 1 .. Size /\ \A f \in Names : ~ HeldByArray(f, b)
    BY StoreAssumption DEF FreeBufs
<1>4. /\ ArrayOK(new) /\ new.buf = b /\ new.len = Size /\ new.terms = <<>> /\ new.height = 0
    BY <1>2, <1>3, FreshViewOK DEF FreshView
<1>5. arr' = [arr EXCEPT ![h] = new]
    <2>1. PICK e : e = [NoArray EXCEPT !.buf = b, !.len = Size]
        OBVIOUS
    <2>2. e \in [buf : {b}, off : {0}, len : {Size}, owner : {TRUE}, terms : {<<>>}, height : {0}]
        BY <2>1 DEF NoArray
    <2>3. e = new
        BY <1>2, <2>2, FreshViewIs
    <2> QED
        BY <1>1, <2>1, <2>3
<1>6. /\ todo = <<>> /\ todo' = <<SyncStep, HostStep(h, d)>>
      /\ val' = [val EXCEPT ![h] = d] /\ UNCHANGED <<mem, queue, seen>>
    BY DEF CreateArray, Begin, HostStep
<1>7. /\ TypeInv' /\ DrainInv' /\ Empty(Tmp)'
      /\ arr'[h] = new /\ val'[h] = d
      /\ \A f \in Names \ {h} : arr'[f] = arr[f]
      /\ Plain => OthersHold(h)'
    <2>1. new.height <= MaxHeight
        BY <1>4, StoreAssumption
    <2> QED
        <3>1. ArrayOK(new) /\ todo = <<>> /\ UNCHANGED <<mem, queue, seen>>
            BY <1>4, <1>6
        <3>2. arr' = [arr EXCEPT ![h] = new] /\ val' = [val EXCEPT ![h] = d]
            BY <1>5, <1>6
        <3>3. /\ TypeInv' /\ DrainInv' /\ Empty(Tmp) /\ Empty(Tmp)'
              /\ arr'[h] = new /\ Content(h)' = DataOf(new, Drained) /\ val'[h] = d
              /\ \A f \in Names \ {h} : /\ arr'[f] = arr[f] /\ val'[f] = val[f]
                                        /\ Content(f)' = Content(f)
              /\ Plain => AllHold /\ OthersHold(h) /\ OthersHold(h)'
            BY <2>1, <3>1, <3>2, MakesEffect, Zenon
        <3> QED
            BY <3>3
<1>8. Live(h)' /\ Ready(h)' /\ arr'[h].len = Size
    BY <1>3, <1>4, <1>7 DEF Live, Ready
<1>9. Alone(h)'
    <2> SUFFICES ASSUME NEW f \in Names \ {h} PROVE ~ HeldByArray(f, arr[h].buf)'
        BY DEF Alone, SharedWithArrays
    <2> QED
        BY <1>3, <1>4, <1>7 DEF HeldByArray
<1>10. PICK t : t = <<SyncStep, HostStep(h, d)>>
    OBVIOUS
<1>11. Overwriting(t, h, d)'
    BY <1>7, <1>8, <1>9, <1>10 DEF Overwriting
<1>12. Rest(t)'
    BY <1>11 DEF Rest, Overwrites
<1> QED
    BY <1>6, <1>7, <1>10, <1>12, CallStarts

LEMMA CreateValueStarts ==
    ASSUME TypeInv, DrainInv, CallInv, NEW h \in Handles, NEW v \in ScalarData, CreateValue(h, v)
    PROVE  TypeInv' /\ DrainInv' /\ CallInv'
<1>1. PICK n \in 1 .. Size : n = Size
    BY StoreAssumption
<1>2. PICK new : new = Lazy(n, <<Scalar(v)>>, 0)
    OBVIOUS
<1>3. /\ ArrayOK(new) /\ new.height = 0
      /\ \A m : DataOf(new, m) = [i \in 0 .. n - 1 |-> v]
    BY <1>2, ScalarLazy, ZenonT(30)
<1>4. arr' = [arr EXCEPT ![h] = new]
    <2>1. PICK e : e = [NoArray EXCEPT !.len = n, !.terms = <<Scalar(v)>>]
        OBVIOUS
    <2>2. e \in [buf : {NoBuf}, off : {0}, len : {n}, owner : {TRUE}, terms : {<<Scalar(v)>>}, height : {0}]
        BY <2>1 DEF NoArray
    <2>3. arr' = [arr EXCEPT ![h] = e]
        BY <1>1, <2>1 DEF CreateValue
    <2> QED
        BY <1>2, <2>2, <2>3, LazyIs
<1>5. PICK w : w = [c \in Cells |-> v]
    OBVIOUS
<1>6. /\ todo = <<>> /\ todo' = <<>> /\ val' = [val EXCEPT ![h] = w] /\ UNCHANGED <<mem, queue, seen>>
    BY <1>5 DEF CreateValue, Begin
<1>7. DataOf(new, Drained) = w
    BY <1>1, <1>3, <1>5 DEF Cells
<1>8. new.height <= MaxHeight
    BY <1>3, StoreAssumption
<1> QED
    BY <1>3, <1>4, <1>6, <1>7, <1>8, MakesStarts

LEMMA RetainStarts ==
    ASSUME TypeInv, DrainInv, CallInv, NEW h \in Handles, NEW g \in Handles, Retain(h, g)
    PROVE  TypeInv' /\ DrainInv' /\ CallInv'
<1>1. PICK new : new = arr[h]
    OBVIOUS
<1>2. PICK w : w = val[h]
    OBVIOUS
<1>3. ArrayOK(new) /\ new.height <= MaxHeight /\ Live(h)
    BY <1>1, NamesAre DEF TypeInv, Retain
<1>4. /\ todo = <<>> /\ todo' = <<>> /\ arr' = [arr EXCEPT ![g] = new]
      /\ val' = [val EXCEPT ![g] = w] /\ UNCHANGED <<mem, queue, seen>>
    BY <1>1, <1>2 DEF Retain, Begin
<1>5. ASSUME Plain PROVE DataOf(new, Drained) = w
    <2>1. Rest(<<>>)
        BY <1>4 DEF CallInv
    <2>2. Content(h) = val[h]
        BY <1>3, <1>5, <2>1, IdleIs DEF Idle, AllHold, Holds
    <2> QED
        BY <1>1, <1>2, <2>2, ContentForms
<1> QED
    BY <1>3, <1>4, <1>5, MakesStarts

LEMMA ReleaseStarts ==
    ASSUME TypeInv, DrainInv, CallInv, NEW h \in Handles, Release(h)
    PROVE  TypeInv' /\ DrainInv' /\ CallInv'
<1>1. PICK new : new = NoArray
    OBVIOUS
<1>2. ArrayOK(new) /\ new.height <= MaxHeight /\ ~ (new.len > 0)
    BY <1>1, NoArrayOK, StoreAssumption
<1>3. /\ todo = <<>> /\ todo' = <<>> /\ arr' = [arr EXCEPT ![h] = new]
      /\ val' = [val EXCEPT ![h] = <<>>] /\ UNCHANGED <<mem, queue, seen>>
    BY <1>1 DEF Release, Begin
<1> QED
    BY <1>2, <1>3, MakesStarts

LEMMA ClientPreserves ==
    ASSUME TypeInv, DrainInv, CallInv, Client
    PROVE  TypeInv' /\ DrainInv' /\ CallInv'
<1>1. ASSUME NEW h \in Handles, NEW d \in HostData,
             \/ CreateArray(h, d) \/ WriteArray(h, d) \/ WriteDevice(h, d) \/ DevicePtr(h, d)
      PROVE  TypeInv' /\ DrainInv' /\ CallInv'
    BY <1>1, CreateArrayStarts, WriteArrayStarts, WriteDeviceStarts, DevicePtrStarts
<1>2. ASSUME NEW h \in Handles, NEW v \in ScalarData,
             CreateValue(h, v) \/ \E i \in Cells : AssignValue(h, i, v)
      PROVE  TypeInv' /\ DrainInv' /\ CallInv'
    BY <1>2, CreateValueStarts, AssignValueStarts
<1>3. ASSUME NEW h \in Handles, Release(h) \/ EvalCall(h) \/ GetData(h)
      PROVE  TypeInv' /\ DrainInv' /\ CallInv'
    BY <1>3, ReleaseStarts, EvalCallStarts, GetDataStarts
<1>4. ASSUME NEW h \in Handles, NEW g \in Handles,
             \/ Retain(h, g) \/ CopyArray(h, g)
             \/ \E i \in Cells : Assign(h, i, g)
             \/ \E i \in Cells, n \in 1 .. Size : Index(h, i, n, g)
             \/ \E mask \in Masks : Replace(h, mask, g)
      PROVE  TypeInv' /\ DrainInv' /\ CallInv'
    BY <1>4, RetainStarts, CopyArrayStarts, AssignStarts, IndexStarts, ReplaceStarts
<1>5. ASSUME NEW h \in Handles, NEW k \in Handles, NEW g \in Handles,
             Add(h, k, g) \/ \E i \in Cells : AssignSeq(h, i, k, g)
      PROVE  TypeInv' /\ DrainInv' /\ CallInv'
    BY <1>5, AddStarts, AssignSeqStarts
<1>6. ASSUME SyncCall PROVE TypeInv' /\ DrainInv' /\ CallInv'
    BY <1>6, SyncCallStarts
<1> QED
    BY <1>1, <1>2, <1>3, <1>4, <1>5, <1>6 DEF Client

-----------------------------------------------------------------------------
(***************************************************************************)
(* The steps that a call can be at, and the count of the kernels.          *)
(***************************************************************************)

\* The host writes only in the calls that end in its write.
LEMMA RestHead ==
    ASSUME Rest(todo), todo # <<>>
    PROVE  /\ IsList(Tail(todo))
           /\ Head(todo).op = "memcpy" /\ ~ DeviceWrites => queue = <<>>
<1> DEFINE Fine == /\ IsList(Tail(todo))
                   /\ Head(todo).op = "memcpy" /\ ~ DeviceWrites => queue = <<>>
<1>1. ASSUME NEW s, NEW r, Doing(s, r), s.op # "memcpy" PROVE Fine
    BY <1>1 DEF Doing
<1> HIDE DEF Fine
<1> SUFFICES Fine
    BY DEF Fine
<1>2. ASSUME NEW s, NEW h, NEW r, Doing(On(s, h), r), s # "memcpy" PROVE Fine
    <2>1. PICK a : a = On(s, h)
        OBVIOUS
    <2>2. a.op = s
        BY <2>1 DEF On
    <2> QED
        BY <1>1, <1>2, <2>1, <2>2
<1>3. ASSUME NEW r, Doing(SyncStep, r) PROVE Fine
    <2>1. PICK a : a = SyncStep
        OBVIOUS
    <2>2. a.op = "sync"
        BY <2>1 DEF SyncStep
    <2> QED
        BY <1>1, <1>3, <2>1, <2>2
<1>4. ASSUME NEW h, NEW g, NEW r, Doing(CopyStep(h, g), r) PROVE Fine
    <2>1. PICK a : a = CopyStep(h, g)
        OBVIOUS
    <2>2. a.op = "copy"
        BY <2>1 DEF CopyStep
    <2> QED
        BY <1>1, <1>4, <2>1, <2>2
<1>5. ASSUME NEW h, NEW i, NEW n, NEW g, NEW r, Doing(SubStep(h, i, n, g), r) PROVE Fine
    <2>1. PICK a : a = SubStep(h, i, n, g)
        OBVIOUS
    <2>2. a.op = "sub"
        BY <2>1 DEF SubStep
    <2> QED
        BY <1>1, <1>5, <2>1, <2>2
<1>6. ASSUME NEW c, NEW g, NEW r, Doing(NodeStep(c, g), r) PROVE Fine
    <2>1. PICK a : a = NodeStep(c, g)
        OBVIOUS
    <2>2. a.op = "node"
        BY <2>1 DEF NodeStep
    <2> QED
        BY <1>1, <1>6, <2>1, <2>2
<1>7. ASSUME NEW h, NEW i, NEW c, NEW y, NEW r, Doing(WriteStep(h, i, c, y), r) PROVE Fine
    <2>1. PICK a : a = WriteStep(h, i, c, y)
        OBVIOUS
    <2>2. a.op = "write"
        BY <2>1 DEF WriteStep
    <2> QED
        BY <1>1, <1>7, <2>1, <2>2
<1>8. CASE Idle(todo)
    BY <1>8 DEF Idle
<1>9. CASE Evals(todo)
    <2>1. PICK h \in Handles : Evaluating(todo, h)
        BY <1>9 DEF Evals
    <2>2. todo = <<On("eval", h)>> \/ todo = <<On("cow", h)>>
        BY <2>1 DEF Evaluating
    <2>3. Doing(On("eval", h), <<>>) \/ Doing(On("cow", h), <<>>)
        BY <2>2, List1
    <2> QED
        BY <1>2, <2>3
<1>10. CASE Copies(todo)
    <2>1. PICK h \in Handles, g \in Handles : Copying(todo, h, g)
        BY <1>10 DEF Copies
    <2>2. todo = <<On("eval", h), CopyStep(h, g)>> \/ todo = <<CopyStep(h, g)>>
        BY <2>1 DEF Copying
    <2>3. Doing(On("eval", h), <<CopyStep(h, g)>>) \/ Doing(CopyStep(h, g), <<>>)
        BY <2>2, List1, List2
    <2> QED
        BY <1>2, <1>4, <2>3
<1>11. CASE Indexes(todo)
    <2>1. PICK h \in Handles, g \in Handles, i \in Cells, n \in 1 .. Size : Indexing(todo, h, g, i, n)
        BY <1>11 DEF Indexes
    <2>2. todo = <<On("eval", h), SubStep(h, i, n, g)>> \/ todo = <<SubStep(h, i, n, g)>>
        BY <2>1 DEF Indexing
    <2>3. Doing(On("eval", h), <<SubStep(h, i, n, g)>>) \/ Doing(SubStep(h, i, n, g), <<>>)
        BY <2>2, List1, List2
    <2> QED
        BY <1>2, <1>5, <2>3
<1>12. CASE Adds(todo)
    <2>1. PICK h \in Handles, k \in Handles, g \in Handles : Adding(todo, h, k, g)
        BY <1>12 DEF Adds
    <2>2. PICK c : c = <<h, k>>
        OBVIOUS
    <2>3. todo = <<NodeStep(c, g)>>
        BY <2>1, <2>2 DEF Adding
    <2>4. Doing(NodeStep(c, g), <<>>)
        BY <2>3, List1
    <2> QED
        BY <1>6, <2>4
<1>13. CASE Reads(todo)
    <2>1. PICK h \in Handles : Reading(todo, h)
        BY <1>13 DEF Reads
    <2>2. \/ todo = <<On("eval", h), SyncStep, On("read", h)>>
          \/ todo = <<SyncStep, On("read", h)>>
          \/ todo = <<On("read", h)>>
        BY <2>1 DEF Reading
    <2>3. \/ Doing(On("eval", h), <<SyncStep, On("read", h)>>)
          \/ Doing(SyncStep, <<On("read", h)>>)
          \/ Doing(On("read", h), <<>>)
        BY <2>2, List1, List2, List3
    <2> QED
        BY <1>2, <1>3, <2>3
<1>14. CASE AssignsOut(todo)
    <2>1. PICK h \in Handles, g \in Handles, s \in {"copy", "moddims"}, i \in Cells, n \in 1 .. Size,
               k \in Sources : AssigningOut(todo, h, g, s, i, n, k)
        BY <1>14 DEF AssignsOut
    <2>2. PICK a : a = [op |-> s, x |-> h, y |-> g]
        OBVIOUS
    <2>3. a.op # "memcpy"
        BY <2>2
    <2>4. \/ todo = <<a>>
          \/ todo = <<a, On("eval", g), k, On("eval", Tmp), WriteTmp(g, i, n), On("drop", Tmp)>>
        BY <2>1, <2>2 DEF AssigningOut
    <2>5. \/ Doing(a, <<>>)
          \/ Doing(a, <<On("eval", g), k, On("eval", Tmp), WriteTmp(g, i, n), On("drop", Tmp)>>)
        BY <2>4, List1, List6
    <2> QED
        BY <1>1, <2>3, <2>5
<1>15. CASE Assigns(todo)
    <2>1. PICK h \in Handles, i \in Cells, n \in 1 .. Size, k \in Sources : Assigning(todo, h, i, n, k)
        BY <1>15 DEF Assigns
    <2>2. k.op # "memcpy"
        BY SourceForms
    <2>3. \/ todo = <<On("cow", h), On("eval", h), k, On("eval", Tmp), WriteTmp(h, i, n), On("drop", Tmp)>>
          \/ todo = <<On("eval", h), k, On("eval", Tmp), WriteTmp(h, i, n), On("drop", Tmp)>>
          \/ todo = <<k, On("eval", Tmp), WriteTmp(h, i, n), On("drop", Tmp)>>
        BY <2>1 DEF Assigning
    <2>4. \/ Doing(On("cow", h), <<On("eval", h), k, On("eval", Tmp), WriteTmp(h, i, n), On("drop", Tmp)>>)
          \/ Doing(On("eval", h), <<k, On("eval", Tmp), WriteTmp(h, i, n), On("drop", Tmp)>>)
          \/ Doing(k, <<On("eval", Tmp), WriteTmp(h, i, n), On("drop", Tmp)>>)
        BY <2>3, List4, List5, List6
    <2> QED
        BY <1>1, <1>2, <2>2, <2>4
<1>16. CASE Stores(todo)
    <2>1. PICK h \in Handles, i \in Cells, n \in 1 .. Size : Storing(todo, h, i, n)
        BY <1>16 DEF Stores
    <2>2. \/ todo = <<On("eval", Tmp), WriteTmp(h, i, n), On("drop", Tmp)>>
          \/ todo = <<WriteTmp(h, i, n), On("drop", Tmp)>>
        BY <2>1 DEF Storing
    <2>3. \/ Doing(On("eval", Tmp), <<WriteTmp(h, i, n), On("drop", Tmp)>>)
          \/ Doing(WriteTmp(h, i, n), <<On("drop", Tmp)>>)
        BY <2>2, List2, List3
    <2> QED
        BY <1>2, <1>7, <2>3 DEF WriteTmp
<1>17. CASE Drops(todo)
    <2>1. Doing(On("drop", Tmp), <<>>)
        BY <1>17, List1 DEF Drops
    <2> QED
        BY <1>2, <2>1
<1>18. CASE Replaces(todo)
    <2>1. PICK h \in Handles, b \in Handles, cells \in SUBSET Cells : Replacing(todo, h, b, cells)
        BY <1>18 DEF Replaces
    <2> DEFINE W == WriteStep(h, 0, cells, b)
    <2>2. \/ todo = <<On("cow", h), On("eval", h), On("eval", b), W>>
          \/ todo = <<On("eval", h), On("eval", b), W>>
          \/ todo = <<On("eval", b), W>>
          \/ todo = <<W>>
        BY <2>1 DEF Replacing
    <2>3. \/ Doing(On("cow", h), <<On("eval", h), On("eval", b), W>>)
          \/ Doing(On("eval", h), <<On("eval", b), W>>)
          \/ Doing(On("eval", b), <<W>>)
          \/ Doing(W, <<>>)
        BY <2>2, List1, List2, List3, List4
    <2> QED
        BY <1>2, <1>7, <2>3
<1>19. CASE Overwrites(todo)
    <2>1. PICK h \in Handles, d \in HostData : Overwriting(todo, h, d)
        BY <1>19 DEF Overwrites
    <2> DEFINE W == HostStep(h, d)
    <2>2. CASE todo = <<W>> /\ (~ DeviceWrites => queue = <<>>)
        <3>1. Doing(W, <<>>)
            BY <2>2, List1
        <3> QED
            BY <2>2, <3>1 DEF Fine, Doing
    <2>3. CASE \/ todo = <<On("own", h), On("eval", h), SyncStep, W>>
               \/ todo = <<On("own", h), On("eval", h), W>>
               \/ todo = <<On("eval", h), SyncStep, W>>
               \/ todo = <<SyncStep, W>>
               \/ todo = <<On("eval", h), W>>
               \/ todo = <<SyncStep, On("eval", h), W>>
               \/ todo = <<On("device", h), SyncStep, On("eval", h), W>>
        <3> HIDE DEF W
        <3>1. \/ Doing(On("own", h), <<On("eval", h), SyncStep, W>>)
              \/ Doing(On("own", h), <<On("eval", h), W>>)
              \/ Doing(On("eval", h), <<SyncStep, W>>)
              \/ Doing(SyncStep, <<W>>)
              \/ Doing(On("eval", h), <<W>>)
              \/ Doing(SyncStep, <<On("eval", h), W>>)
              \/ Doing(On("device", h), <<SyncStep, On("eval", h), W>>)
            BY <2>3, List2, List3, List4
        <3> QED
            BY <1>2, <1>3, <3>1
    <2> QED
        BY <2>1, <2>2, <2>3 DEF Overwriting
<1> QED
    BY <1>8, <1>9, <1>10, <1>11, <1>12, <1>13, <1>14, <1>15, <1>16, <1>17, <1>18, <1>19 DEF Rest

\* A kernel that fills the queue is followed by the wait.
LEMMA EnqueueCount ==
    ASSUME queue \in Seq(Tasks), CountInv, count < SyncEvery, NEW k, NEW r, IsList(r), Enqueue(k, r)
    PROVE  CountInv'
<1>1. queue' = Append(queue, k) /\ count' = count + 1 /\ count \in Nat /\ Len(queue) <= count
    BY DEF Enqueue, CountInv
<1>2. Len(queue') = Len(queue) + 1 /\ Len(queue) \in Nat
    BY <1>1
<1>3. SyncEvery \in Nat
    BY StoreAssumption
<1>4. ASSUME count' = SyncEvery PROVE todo' # <<>> /\ Head(todo') = SyncStep
    <2>1. todo' = <<SyncStep>> \o r
        BY <1>1, <1>3, <1>4 DEF Enqueue
    <2> DEFINE T == {r[j] : j \in DOMAIN r}
    <2>2. r \in Seq(T)
        BY DEF IsList
    <2> HIDE DEF T
    <2>3. <<SyncStep>> \o r # <<>> /\ Head(<<SyncStep>> \o r) = SyncStep
        BY <2>2
    <2> QED
        BY <2>1, <2>3
<1> QED
    BY <1>1, <1>2, <1>3, <1>4 DEF CountInv

LEMMA StepsCount ==
    ASSUME TypeInv, CountInv, CallInv, Steps
    PROVE  CountInv'
<1>1. CASE Sync
    BY <1>1, StoreAssumption DEF Sync, CountInv
<1>2. CASE ~ Sync
    <2>1. todo # <<>> /\ Head(todo).op # "sync"
        BY <1>2 DEF Steps, Do, Eval, Copy, CopyOnWrite, CopyNotOwned, CopyForDevice, Write,
                    HostCopy, HostRead, SubArray, Node, ModDims, Constant, Drop
    <2>2. Head(todo) # SyncStep
        BY <2>1 DEF SyncStep
    <2>3. IsList(Tail(todo))
        BY <2>1, <2>2, RestHead DEF CallInv
    <2>4. count < SyncEvery
        BY <2>2, StoreAssumption DEF CountInv
    <2>5. (\E k : Enqueue(k, Tail(todo))) \/ UNCHANGED <<queue, count>>
        <3>1. ASSUME NEW h, NEW g, CopyInto(h, g) PROVE \E k : Enqueue(k, Tail(todo))
            BY <3>1 DEF CopyInto
        <3>2. Eval => (\E k : Enqueue(k, Tail(todo))) \/ UNCHANGED <<queue, count>>
            BY DEF Eval, Evaluate, Skip
        <3>3. Copy => \E k : Enqueue(k, Tail(todo))
            BY <3>1 DEF Copy
        <3>4. CopyOnWrite \/ CopyNotOwned \/ CopyForDevice
                  => (\E k : Enqueue(k, Tail(todo))) \/ UNCHANGED <<queue, count>>
            BY <3>1 DEF CopyOnWrite, CopyNotOwned, CopyForDevice, CopyWhen, Skip
        <3>5. Write => \E k : Enqueue(k, Tail(todo))
            BY DEF Write
        <3>6. HostCopy \/ HostRead \/ SubArray \/ Node \/ ModDims \/ Constant \/ Drop
                  => UNCHANGED <<queue, count>>
            BY DEF HostCopy, HostRead, Skip, SubArray, Node, ModDims, Constant, Drop
        <3> QED
            BY <1>2, <3>2, <3>3, <3>4, <3>5, <3>6 DEF Steps
    <2>6. CASE \E k : Enqueue(k, Tail(todo))
        BY <2>3, <2>4, <2>6, EnqueueCount DEF TypeInv
    <2>7. CASE UNCHANGED <<queue, count>>
        BY <2>4, <2>7, StoreAssumption DEF CountInv
    <2> QED
        BY <2>5, <2>6, <2>7
<1> QED
    BY <1>1, <1>2

LEMMA WorkerCount ==
    ASSUME TypeInv, CountInv, Worker
    PROVE  CountInv'
<1>1. queue # <<>> /\ queue \in Seq(Tasks) /\ queue' = Tail(queue) /\ count' = count /\ todo' = todo
    BY DEF Worker, TypeInv
<1>2. Len(queue') = Len(queue) - 1 /\ Len(queue) \in Nat
    BY <1>1
<1> QED
    BY <1>1, <1>2, StoreAssumption DEF CountInv

LEMMA ClientCount ==
    ASSUME CountInv, Client
    PROVE  CountInv'
<1> DEFINE Begins == todo = <<>> /\ queue' = queue /\ count' = count
<1>1. ASSUME NEW steps, NEW w, Calls(steps, w) PROVE Begins
    BY <1>1 DEF Calls, Begin
<1> HIDE DEF Begins
<1>2. ASSUME NEW h \in Handles, NEW d \in HostData,
             \/ CreateArray(h, d) \/ WriteArray(h, d) \/ WriteDevice(h, d) \/ DevicePtr(h, d)
      PROVE  Begins
    <2>1. CASE CreateArray(h, d)
        BY <2>1 DEF CreateArray, Begin, Begins
    <2> QED
        BY <1>1, <1>2, <2>1 DEF WriteArray, WriteDevice, DevicePtr
<1>3. ASSUME NEW h \in Handles, NEW v \in ScalarData,
             CreateValue(h, v) \/ \E i \in Cells : AssignValue(h, i, v)
      PROVE  Begins
    <2>1. CASE CreateValue(h, v)
        BY <2>1 DEF CreateValue, Begin, Begins
    <2> QED
        BY <1>1, <1>3, <2>1 DEF AssignValue
<1>4. ASSUME NEW h \in Handles, Release(h) \/ EvalCall(h) \/ GetData(h) PROVE Begins
    <2>1. CASE Release(h)
        BY <2>1 DEF Release, Begin, Begins
    <2> QED
        BY <1>1, <1>4, <2>1 DEF EvalCall, GetData
<1>5. ASSUME NEW h \in Handles, NEW g \in Handles,
             \/ Retain(h, g) \/ CopyArray(h, g)
             \/ \E i \in Cells : Assign(h, i, g)
             \/ \E i \in Cells, n \in 1 .. Size : Index(h, i, n, g)
             \/ \E mask \in Masks : Replace(h, mask, g)
      PROVE  Begins
    <2>1. CASE Retain(h, g)
        BY <2>1 DEF Retain, Begin, Begins
    <2> QED
        BY <1>1, <1>5, <2>1 DEF CopyArray, Assign, Index, Replace
<1>6. ASSUME NEW h \in Handles, NEW k \in Handles, NEW g \in Handles,
             Add(h, k, g) \/ \E i \in Cells : AssignSeq(h, i, k, g)
      PROVE  Begins
    BY <1>1, <1>6 DEF Add, AssignSeq
<1>7. ASSUME SyncCall PROVE Begins
    BY <1>1, <1>7 DEF SyncCall
<1>8. Begins
    BY <1>2, <1>3, <1>4, <1>5, <1>6, <1>7 DEF Client
<1> QED
    BY <1>8, StoreAssumption DEF Begins, CountInv

-----------------------------------------------------------------------------
(***************************************************************************)
(* The invariant holds of every behaviour.                                 *)
(***************************************************************************)

\* The invariant holds at the start.
LEMMA InitHolds ==
    ASSUME Init
    PROVE  Inv
<1>1. todo = <<>> /\ queue = <<>> /\ count = 0 /\ seen = TRUE
    BY DEF Init
<1>2. PICK new : new = NoArray
    OBVIOUS
<1>3. ArrayOK(new) /\ ~ (new.len > 0) /\ new.height = 0
    <2>1. new.height = 0
        BY <1>2 DEF NoArray
    <2> QED
        BY <1>2, <2>1, NoArrayOK
<1>4. DOMAIN arr = Names /\ \A h \in Names : arr[h] = new
    BY <1>2 DEF Init
<1>5. mem \in Memories
    BY StoreAssumption DEF Init, Memories, Cells, Values
<1>6. TypeInv
    <2>1. arr = [h \in DOMAIN arr |-> arr[h]] /\ val = [h \in DOMAIN val |-> val[h]] /\ DOMAIN val = Names
        BY DEF Init
    <2>2. queue \in Seq(Tasks)
        BY <1>1
    <2>3. Handles \subseteq Names /\ MaxHeight \in Nat
        BY StoreAssumption DEF Names
    <2> QED
        BY <1>1, <1>3, <1>4, <1>5, <2>1, <2>2, <2>3 DEF TypeInv
<1>7. CountInv
    BY <1>1, StoreAssumption DEF CountInv
<1>8. Drained = mem
    BY <1>1, DrainEmpty DEF Drained, Drain
<1>9. \A h \in Names : Empty(h)
    BY <1>3, <1>4 DEF Empty, Live
<1>10. Idle(todo)
    BY <1>1, <1>9 DEF Idle, AllHold, Holds, Names, Empty
<1> QED
    BY <1>1, <1>5, <1>6, <1>7, <1>8, <1>10 DEF Inv, DrainInv, CallInv, Rest

LEMMA StutterHolds ==
    ASSUME Inv, UNCHANGED vars
    PROVE  Inv'
<1>1. UNCHANGED <<arr, mem, queue, count, todo, val, seen>>
    BY DEF vars
<1>2. Drained' = Drained
    BY <1>1 DEF Drained
<1>3. \A g : Content(g)' = Content(g)
    BY <1>1, <1>2, ContentForms
<1>4. Stays
    BY <1>1, <1>3 DEF Stays
<1>5. TypeInv' /\ CountInv' /\ DrainInv'
    BY <1>1, <1>2 DEF Inv, TypeInv, CountInv, DrainInv
<1>6. PICK t : t = todo
    OBVIOUS
<1>7. PICK u : u = Tail(t)
    OBVIOUS
<1>8. (Rest(t) => Rest(t)') /\ (Rest(u) => Rest(u)')
    BY <1>4, RestStays
<1>9. CallInv'
    BY <1>1, <1>6, <1>7, <1>8 DEF Inv, CallInv
<1> QED
    BY <1>5, <1>9 DEF Inv

\* Every step keeps the invariant.
LEMMA NextHolds ==
    ASSUME Inv, Next
    PROVE  Inv'
<1>1. CASE Client
    BY <1>1, ClientPreserves, ClientCount DEF Inv
<1>2. CASE Steps
    BY <1>2, StepsPreserve, StepsCount DEF Inv
<1>3. CASE Worker
    BY <1>3, WorkerPreserves, WorkerCount DEF Inv
<1> QED
    BY <1>1, <1>2, <1>3 DEF Next

\* The inductive invariant holds in every reachable state.
THEOREM InvHolds == Spec => []Inv
<1>1. Init => Inv
    BY InitHolds
<1>2. Inv /\ [Next]_vars => Inv'
    BY StutterHolds, NextHolds
<1> QED
    BY <1>1, <1>2, PTL DEF Spec

-----------------------------------------------------------------------------
(***************************************************************************)
(* What follows from it.                                                   *)
(***************************************************************************)

\* The type invariant of the runs follows.
LEMMA TypeInvOK ==
    ASSUME TypeInv, CountInv
    PROVE  TypeOK
<1>1. ASSUME NEW t \in Seq(Terms) PROVE TermsOK(t)
    <2>1. \A i \in DOMAIN t : t[i] \in Terms
        BY <1>1
    <2> QED
        BY <2>1 DEF Terms, TermsOK
<1>2. ASSUME NEW h \in Names
      PROVE  /\ arr[h].off \in Nat /\ arr[h].off + arr[h].len <= Size
             /\ arr[h].owner \in BOOLEAN /\ arr[h].height \in 0 .. MaxHeight + 1
             /\ TermsOK(arr[h].terms)
             /\ arr[h].buf \in Bufs <=> Live(h) /\ Ready(h)
    <2>1. PICK a : a = arr[h]
        OBVIOUS
    <2>2. ArrayOK(a)
        BY <2>1 DEF TypeInv
    <2>3. /\ a.off \in Nat /\ a.len \in 0 .. Size /\ a.owner \in BOOLEAN
          /\ a.height \in 0 .. MaxHeight + 1 /\ a.terms \in Seq(Terms)
        BY <2>2 DEF ArrayOK, Arrays
    <2>4. a.len = 0 => a.off = 0 /\ a.buf = NoBuf /\ a.terms = <<>>
        BY <2>2 DEF ArrayOK, NoArray
    <2>5. a.len # 0 => a.len > 0
        BY <2>3, StoreAssumption
    <2>6. a.off + a.len <= Size
        BY <2>2, <2>3, <2>4, <2>5, StoreAssumption DEF ArrayOK
    <2>7. a.buf \in Bufs <=> a.len > 0 /\ a.terms = <<>>
        BY <2>2, <2>3, <2>4, <2>5, StoreAssumption DEF ArrayOK
    <2> QED
        BY <1>1, <2>1, <2>3, <2>6, <2>7 DEF Live, Ready
<1>3. ASSUME NEW i \in DOMAIN queue
      PROVE  /\ queue[i].dst \in Bufs
             /\ \A c \in queue[i].cells : queue[i].off + c \in Cells
             /\ TermsOK(queue[i].terms)
    <2>1. queue[i] \in Tasks
        BY DEF TypeInv
    <2>2. TaskOK(queue[i])
        BY <2>1 DEF Tasks
    <2> QED
        BY <1>1, <2>2 DEF TaskOK
<1>4. mem \in [Bufs -> [Cells -> Values]] /\ count \in 0 .. SyncEvery /\ seen \in BOOLEAN
    BY StoreAssumption DEF TypeInv, CountInv, Memories
<1> QED
    BY <1>2, <1>3, <1>4 DEF TypeOK

\* Type correctness, for any client: every array is a view inside its buffer
\* or an expression of such views, and the worker is given no null pointer.
THEOREM TypeCorrect == Spec => []TypeOK
<1>1. Inv => TypeOK
    BY TypeInvOK DEF Inv
<1> QED
    BY <1>1, InvHolds, PTL

\* Whatever the memory pressure, the queue holds no more kernels than the
\* count at which enqueue waits: the wait it puts before the rest of the call
\* comes before any other kernel.
THEOREM QueueBoundedHolds == Spec => []QueueBounded
<1>1. Inv => QueueBounded
    <2> SUFFICES ASSUME Inv PROVE QueueBounded
        OBVIOUS
    <2>1. Len(queue) \in Nat
        BY DEF Inv, TypeInv
    <2> QED
        BY <2>1, StoreAssumption DEF Inv, CountInv, QueueBounded
<1> QED
    BY <1>1, InvHolds, PTL

\* Unless the client calls af_assign_seq with an out of its own or writes from
\* device memory, every array holds between two calls the value that the
\* client gave it, whatever is shared, unevaluated or still queued.
THEOREM ValueSemanticsHolds ==
    ASSUME Plain
    PROVE  Spec => []ValueSemantics
<1>1. Inv => ValueSemantics
    <2> SUFFICES ASSUME Inv, todo = <<>> PROVE \A h \in Handles : Live(h) => Data(Drained, h) = val[h]
        BY DEF ValueSemantics
    <2>1. Rest(<<>>)
        BY DEF Inv, CallInv
    <2> QED
        BY <2>1, IdleIs DEF Idle, AllHold, Holds, Content
<1> QED
    BY <1>1, InvHolds, PTL

\* Under the same condition, what af_get_data_ptr copies out is the value of
\* the array at the time of the call.
THEOREM ReadsAreCurrentHolds ==
    ASSUME Plain
    PROVE  Spec => []ReadsAreCurrent
<1>1. Inv => ReadsAreCurrent
    BY DEF Inv, DrainInv, ReadsAreCurrent
<1> QED
    BY <1>1, InvHolds, PTL

\* Unless the client writes from device memory, no kernel is queued when the
\* host writes into a buffer.
THEOREM HostWritesAloneHolds ==
    ASSUME ~ DeviceWrites
    PROVE  Spec => HostWritesAlone
<1>1. ASSUME Inv, HostCopy PROVE queue = <<>>
    <2>1. todo # <<>> /\ Head(todo).op = "memcpy"
        BY <1>1 DEF HostCopy, Do
    <2>2. Head(todo) # SyncStep
        BY <2>1 DEF SyncStep
    <2> QED
        BY <1>1, <2>1, <2>2, RestHead DEF Inv, CallInv
<1>2. Inv /\ [Next]_vars =>
        [HostCopy => \A i \in DOMAIN queue :
            LET b == arr[Cur.x].buf IN
              queue[i].dst # b /\ ~ Mentions(queue[i].terms, b)]_vars
    BY <1>1
<1> QED
    BY <1>2, InvHolds, PTL DEF Spec, HostWritesAlone

=============================================================================
