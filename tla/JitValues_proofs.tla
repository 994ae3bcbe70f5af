---------------------------- MODULE JitValues_proofs ----------------------------
(***************************************************************************)
(* The values of arrays: what the nodes of a tree have at each index of    *)
(* the output, whichever kernel computes them, and whatever shares the     *)
(* nodes and the buffers.  JitTree_proofs shows that there is an element   *)
(* to read; here it is the right one, if nobody uses the shift of an array *)
(* with an empty column before it is evaluated (~ ShareRowShifts).         *)
(*                                                                         *)
(* ValInv is the invariant.  An array shows its value when its buffer has  *)
(* it, or when its tree computes it; a call in progress keeps that for the *)
(* arrays it has still to evaluate, and for those it has not touched.      *)
(***************************************************************************)
EXTENDS JitTree_proofs

\* The indices of a shape
Box(d) == {id \in [Dims -> Nat] : \A k \in Dims : id[k] < d[k]}

\* The value of node n at index id, as a strided kernel computes it before any
\* dimension was removed
ValueAt(N, D, n, id) == KernelValue(N, D, FALSE, Identity, n, 0, id)

\* An array of shape e is read along one of shape d, with the dimensions of
\* length 1 repeated.
Narrow(e, d) == \A k \in Dims : e[k] \in {1, d[k]}
\* No dimension of length 1 comes before another.
Leading(d) == \A k, l \in Dims : k < l /\ d[l] # 1 => d[k] # 1
\* The elements follow each other.
Contiguous(r) == \A k \in Dims : r.dims[k] # 1 => r.strides[k] = calcStrides(r.dims)[k]

\* The buffers of a tree fit an output of shape d.
TreeReads(N, n, d) ==
    \A m \in Tree(N, n) :
       /\ N[m].kind = "buffer" => Narrow(N[m].dims, d) /\ (N[m].linear => Contiguous(N[m]))
       /\ N[m].kind = "shift" => Narrow(N[N[m].in].dims, d)
\* removeEmptyDimensions changes nothing of what the shifts of the tree read.
ShiftsLead(N, n) == \A m \in Tree(N, n) : N[m].kind = "shift" => Leading(N[N[m].in].dims)

\* The tree of n has value v[1 + j] for output element j.
Shows(N, D, n, d, v) ==
    /\ TreeReads(N, n, d)
    /\ \A id \in Box(d) : ValueAt(N, D, n, id) = v[1 + Dot(id, calcStrides(d))]

\* A list of n elements
Listing(s, n) == s = [j \in 1 .. n |-> s[j]]
\* The elements of a buffer at the indices of a, or of a view
Holds(a, D, v) ==
    \A id \in Box(a.dims) : D[a.buf][1 + a.off + Dot(id, a.strides)] = v[1 + Dot(id, calcStrides(a.dims))]
\* A shape that is nowhere longer than another
Within(d, e) == \A k \in Dims : d[k] <= e[k]
\* An array with the elements v, in a buffer or in a tree
ArrayShows(a, N, D, v) ==
    /\ Listing(v, elements(a.dims))
    /\ isReady(a) => Holds(a, D, v) /\ Within(a.dims, a.data_dims)
    /\ ~ isReady(a) => Shows(N, D, a.node, a.dims, v)
\* Arrays A with the values V; those in W are to be evaluated before any other.
ArraysShow(A, N, D, V, W) ==
    \A h \in Handles : A[h] # NoArray =>
       /\ ArrayShows(A[h], N, D, V[h])
       /\ isReady(A[h]) \/ h \in W \/ ShiftsLead(N, A[h].node)

\* The shift of a row is evaluated before it is shared.
AboutToEval == {h \in Handles : call.op = "eval" /\ call.todo = <<h>>}
\* The node built before an evaluation has the value of the operation.
CallShows ==
    /\ call.node # None => /\ Shows(node, data, call.node, call.arg, OperationOn(call.ins, call.arg))
                           /\ ShiftsLead(node, call.node)
    /\ call.op \in {"nary", "select"} => \A i \in 1 .. Len(call.ins) : Narrow(arr[call.ins[i]].dims, call.arg)
\* The invariant behind ValueSemantics: all arrays, and the node of the call in
\* progress, show their values.
ValInv ==
    /\ val = [h \in Handles |-> val[h]]
    /\ ArraysShow(arr, node, data, val, AboutToEval)
    /\ CallShows

(***************************************************************************)
(* Indices and positions: Dot and Unravel are inverse to each other.       *)
(***************************************************************************)

\* The digits of a number: its remainder by p * d from that by p
LEMMA NextDigit ==
    ASSUME NEW p \in Nat \ {0}, NEW d \in Nat \ {0}, NEW j \in Nat
    PROVE  j % (p * d) = (j % p) + ((j \div p) % d) * p
<1> DEFINE q == j \div p
           r == j % p
           q2 == q \div d
           r2 == q % d
<1>1. r \in 0 .. p - 1 /\ q \in Int /\ j = p * q + r
  BY Division
<1> HIDE DEF q, r
<1>2. r2 \in 0 .. d - 1 /\ q2 \in Int /\ q = d * q2 + r2
  BY <1>1, Division
<1> HIDE DEF q2, r2
<1>3. p * d \in Nat \ {0} /\ p * r2 \in Nat /\ p * r2 <= p * d - p
  <2>1. \A x, y \in Nat \ {0} : x * y \in Nat \ {0}
    OBVIOUS
  <2>2. \A x, y \in Nat : x * y \in Nat
    OBVIOUS
  <2>3. p * d - p * r2 = p * (d - r2)
    BY <1>2
  <2>4. d - r2 >= 1 => p * (d - r2) >= p
    <3>1. \A x \in Nat \ {0}, y \in Nat \ {0} : x * y >= x
      OBVIOUS
    <3>2. d - r2 \in Nat \ {0}
      BY <1>2
    <3> QED BY <3>1, <3>2
  <2>5. d - r2 >= 1 /\ r2 \in Nat
    BY <1>2
  <2>6. p * d \in Nat \ {0} /\ p * r2 \in Nat
    BY <2>1, <2>2, <2>5
  <2> QED BY <2>3, <2>4, <2>5, <2>6
<1>4. p * r2 + r \in 0 .. (p * d) - 1
  BY <1>1, <1>3
<1>5. j = (p * d) * q2 + (p * r2 + r)
  <2>1. p * q = p * (d * q2) + p * r2
    BY <1>1, <1>2
  <2>2. p * (d * q2) = (p * d) * q2
    BY <1>1, <1>2
  <2>3. (p * d) * q2 \in Int
    BY <1>2, <1>3
  <2> DEFINE x == p * q
             y == (p * d) * q2
             z == p * r2
  <2>4. x = y + z /\ j = x + r /\ y \in Int /\ z \in Nat /\ r \in Int
    BY <1>1, <1>3, <2>1, <2>2, <2>3
  <2> HIDE DEF x, y, z
  <2>5. j = y + (z + r)
    BY <2>4
  <2> QED BY <2>5 DEF y, z
<1>6. j % (p * d) = p * r2 + r
  <2> DEFINE m == p * d
             z == p * r2 + r
  <2>1. m \in Nat \ {0} /\ z \in 0 .. m - 1 /\ j = m * q2 + z /\ j \in Int /\ q2 \in Int
    BY <1>2, <1>3, <1>4, <1>5
  <2> HIDE DEF m, z
  <2>2. j % m = z
    BY <2>1, ModUnique
  <2> QED BY <2>2 DEF m, z
<1>7. p * r2 = r2 * p
  BY <1>2
<1> QED BY <1>1, <1>3, <1>6, <1>7 DEF q, r, r2

\* The position of the index of element j is j.
LEMMA DotUnravel ==
    ASSUME NEW d \in DimVec, NEW j \in Nat, j < elements(d)
    PROVE  Dot(Unravel(j, d), calcStrides(d)) = j
<1> USE DimsFacts
<1> DEFINE cs == calcStrides(d)
           id == Unravel(j, d)
<1>1. PICK p : /\ IsProduct(d, p) /\ elements(d) = p[AF_MAX_DIMS]
               /\ cs = [k \in Dims |-> p[k - 1]]
  BY Products
<1>2. cs \in [Dims -> Int] /\ id \in [Dims -> Int]
  <2>1. cs \in DimVec /\ id \in [Dims -> Nat]
    BY ShapeFacts, UnravelInBox
  <2> HIDE DEF cs, id
  <2> QED BY <2>1 DEF DimVec
<1>3. PICK s : PartialSums(Terms(id, cs), s) /\ Dot(id, cs) = s[AF_MAX_DIMS]
  BY <1>2, Dots
<1>4. ASSUME NEW k \in Dims, s[k - 1] = j % p[k - 1] PROVE s[k] = j % p[k]
  <2>1. p[k - 1] \in Nat \ {0} /\ d[k] \in Nat \ {0} /\ p[k] = p[k - 1] * d[k]
    BY <1>1 DEF IsProduct, DimVec
  <2>2. s[k] = s[k - 1] + id[k] * cs[k]
    BY <1>3 DEF PartialSums, Terms
  <2>3. cs[k] = p[k - 1]
    BY <1>1
  <2>4. id[k] = (j \div p[k - 1]) % d[k]
    BY <2>3 DEF Unravel
  <2>5. j % (p[k - 1] * d[k]) = (j % p[k - 1]) + ((j \div p[k - 1]) % d[k]) * p[k - 1]
    BY <2>1, NextDigit
  <2> HIDE DEF cs, id
  <2> QED BY <1>4, <2>1, <2>2, <2>3, <2>4, <2>5
<1>5. \A k \in 0 .. AF_MAX_DIMS : s[k] = j % p[k]
  <2> DEFINE T == {k \in 0 .. AF_MAX_DIMS : s[k] = j % p[k]}
             f == [k \in 0 .. AF_MAX_DIMS |-> k]
  <2>1. f[0] \in T
    <3>1. s[0] = 0 /\ p[0] = 1
      BY <1>1, <1>3 DEF PartialSums, IsProduct
    <3>2. j % 1 = 0
      OBVIOUS
    <3> QED BY <3>1, <3>2
  <2>2. \A k \in 1 .. AF_MAX_DIMS : f[k - 1] \in T => f[k] \in T
    BY <1>4
  <2>3. \A k \in 0 .. AF_MAX_DIMS : f[k] = k
    OBVIOUS
  <2> HIDE DEF T, f
  <2>4. \A k \in 0 .. AF_MAX_DIMS : f[k] \in T
    BY <2>1, <2>2, RecursionKeeps
  <2> QED BY <2>3, <2>4 DEF T
<1>6. s[AF_MAX_DIMS] = j % elements(d)
  BY <1>1, <1>5
<1>7. j % elements(d) = j
  BY ShapeFacts
<1> QED BY <1>3, <1>6, <1>7

\* Two indices of a box have two positions.
LEMMA DotInjective ==
    ASSUME NEW d \in DimVec, NEW a \in Box(d), NEW b \in Box(d),
           Dot(a, calcStrides(d)) = Dot(b, calcStrides(d))
    PROVE  a = b
<1> USE DimsFacts
<1> DEFINE cs == calcStrides(d)
           n == AF_MAX_DIMS
<1>1. PICK p : /\ IsProduct(d, p) /\ elements(d) = p[n]
               /\ cs = [k \in Dims |-> p[k - 1]]
  BY Products
<1>2. cs \in [Dims -> Int] /\ a \in [Dims -> Int] /\ b \in [Dims -> Int]
  <2>1. cs \in DimVec /\ a \in [Dims -> Nat] /\ b \in [Dims -> Nat]
    BY ShapeFacts DEF Box
  <2> HIDE DEF cs
  <2> QED BY <2>1 DEF DimVec
<1>3. PICK s : PartialSums(Terms(a, cs), s) /\ Dot(a, cs) = s[n]
  BY <1>2, Dots
<1>4. PICK t : PartialSums(Terms(b, cs), t) /\ Dot(b, cs) = t[n]
  BY <1>2, Dots
<1>5. \A k \in Dims : /\ p[k - 1] \in Nat \ {0} /\ p[k] = p[k - 1] * d[k] /\ d[k] \in Nat \ {0}
                      /\ s[k] = s[k - 1] + a[k] * p[k - 1] /\ t[k] = t[k - 1] + b[k] * p[k - 1]
                      /\ a[k] \in 0 .. d[k] - 1 /\ b[k] \in 0 .. d[k] - 1
  <2> SUFFICES ASSUME NEW k \in Dims
               PROVE  /\ p[k - 1] \in Nat \ {0} /\ p[k] = p[k - 1] * d[k] /\ d[k] \in Nat \ {0}
                      /\ s[k] = s[k - 1] + a[k] * p[k - 1] /\ t[k] = t[k - 1] + b[k] * p[k - 1]
                      /\ a[k] \in 0 .. d[k] - 1 /\ b[k] \in 0 .. d[k] - 1
    OBVIOUS
  <2>1. p[k - 1] \in Nat \ {0} /\ p[k] = p[k - 1] * d[k] /\ d[k] \in Nat \ {0} /\ cs[k] = p[k - 1]
    BY <1>1 DEF IsProduct, DimVec
  <2>2. s[k] = s[k - 1] + a[k] * cs[k] /\ t[k] = t[k - 1] + b[k] * cs[k]
    BY <1>3, <1>4 DEF PartialSums, Terms
  <2>3. a[k] \in 0 .. d[k] - 1 /\ b[k] \in 0 .. d[k] - 1
    BY <2>1, SMTT(30) DEF Box
  <2> QED BY <2>1, <2>2, <2>3
<1>6. \A k \in 0 .. n : s[k] \in 0 .. p[k] - 1 /\ t[k] \in 0 .. p[k] - 1
  <2> DEFINE T == {k \in 0 .. n : s[k] \in 0 .. p[k] - 1 /\ t[k] \in 0 .. p[k] - 1}
             f == [k \in 0 .. n |-> k]
  <2>1. f[0] \in T
    BY <1>1, <1>3, <1>4 DEF PartialSums, IsProduct
  <2>2. ASSUME NEW k \in 1 .. n, s[k - 1] \in 0 .. p[k - 1] - 1 /\ t[k - 1] \in 0 .. p[k - 1] - 1
        PROVE  s[k] \in 0 .. p[k] - 1 /\ t[k] \in 0 .. p[k] - 1
    <3>1. \A q, e \in Nat \ {0} : \A x \in 0 .. e - 1 : \A y \in 0 .. q - 1 : y + x * q \in 0 .. (q * e) - 1
      <4> SUFFICES ASSUME NEW q \in Nat \ {0}, NEW e \in Nat \ {0}, NEW x \in 0 .. e - 1, NEW y \in 0 .. q - 1
                   PROVE  y + x * q \in 0 .. (q * e) - 1
        OBVIOUS
      <4>1. x * q \in Nat /\ q * e \in Nat
        <5>1. \A u, w \in Nat : u * w \in Nat
          OBVIOUS
        <5> QED BY <5>1
      <4>2. q * e - x * q = q * (e - x)
        OBVIOUS
      <4>3. q * (e - x) >= q
        <5>1. \A u, w \in Nat \ {0} : u * w >= u
          OBVIOUS
        <5>2. e - x \in Nat \ {0}
          OBVIOUS
        <5> QED BY <5>1, <5>2
      <4> QED BY <4>1, <4>2, <4>3
    <3>2. k \in Dims
      OBVIOUS
    <3> DEFINE q == p[k - 1]
               e == d[k]
    <3>3. /\ q \in Nat \ {0} /\ e \in Nat \ {0} /\ p[k] = q * e
          /\ s[k] = s[k - 1] + a[k] * q /\ t[k] = t[k - 1] + b[k] * q
          /\ a[k] \in 0 .. e - 1 /\ b[k] \in 0 .. e - 1
          /\ s[k - 1] \in 0 .. q - 1 /\ t[k - 1] \in 0 .. q - 1
      BY <1>5, <2>2, <3>2
    <3> HIDE DEF q, e
    <3>4. s[k - 1] + a[k] * q \in 0 .. (q * e) - 1 /\ t[k - 1] + b[k] * q \in 0 .. (q * e) - 1
      BY <3>1, <3>3
    <3> QED BY <3>3, <3>4
  <2>3. \A k \in 1 .. n : f[k - 1] \in T => f[k] \in T
    BY <2>2
  <2>4. \A k \in 0 .. n : f[k] = k
    OBVIOUS
  <2> HIDE DEF T, f
  <2>5. \A k \in 0 .. n : f[k] \in T
    BY <2>1, <2>3, RecursionKeeps
  <2> QED BY <2>4, <2>5 DEF T
<1>7. \A k \in 0 .. n : s[k] = t[k]
  <2> DEFINE Bad == {k \in 0 .. n : s[k] # t[k]}
  <2> SUFFICES ASSUME Bad # {} PROVE FALSE
    OBVIOUS
  <2>1. PICK k \in Bad : \A i \in Bad : i <= k
    <3>1. IsFiniteSet(0 .. n) /\ Bad \subseteq 0 .. n
      BY FS_Interval
    <3>2. IsFiniteSet(Bad) /\ Bad \subseteq Nat
      BY <3>1, FS_Subset
    <3> HIDE DEF Bad
    <3> QED BY <3>2, LargestNat
  <2>0. s[n] = t[n]
    BY <1>3, <1>4
  <2>2. k \in 0 .. n - 1 /\ k + 1 \in Dims /\ (k + 1) - 1 = k
    <3>1. k \in 0 .. n /\ k # n
      BY <2>0
    <3> QED BY <3>1
  <2>3. s[k + 1] = t[k + 1]
    BY <2>1, <2>2
  <2>4. /\ s[k] + a[k + 1] * p[k] = t[k] + b[k + 1] * p[k] /\ p[k] \in Nat \ {0}
        /\ a[k + 1] \in Int /\ b[k + 1] \in Int
    BY <1>5, <2>2, <2>3
  <2>5. s[k] \in 0 .. p[k] - 1 /\ t[k] \in 0 .. p[k] - 1
    BY <1>6, <2>2
  <2>6. s[k] - t[k] = p[k] * (b[k + 1] - a[k + 1])
    <3> DEFINE m == a[k + 1] * p[k]
               l == b[k + 1] * p[k]
    <3>1. \A x, y \in Int : x * y \in Int
      OBVIOUS
    <3>2. \A x, y, q \in Int : y * q - x * q = q * (y - x)
      OBVIOUS
    <3>3. s[k] \in Int /\ t[k] \in Int /\ p[k] \in Int
      BY <2>4, <2>5
    <3>4. m \in Int /\ l \in Int /\ s[k] + m = t[k] + l
      BY <2>4, <3>1, <3>3
    <3>5. l - m = p[k] * (b[k + 1] - a[k + 1])
      BY ONLY <2>4, <3>2, <3>3
    <3> HIDE DEF m, l
    <3>6. s[k] - t[k] = l - m
      BY ONLY <3>3, <3>4
    <3> QED BY ONLY <3>5, <3>6
  <2> DEFINE x == s[k] - t[k]
             q == b[k + 1] - a[k + 1]
  <2>7. x = 0
    <3>0. x = p[k] * q
      BY <2>6
    <3>1. x \in Int /\ q \in Int /\ x < p[k] /\ x > - p[k]
      <4>1. \A m \in Nat \ {0} : \A y, z \in 0 .. m - 1 : y - z \in Int /\ y - z < m /\ y - z > - m
        OBVIOUS
      <4>2. q \in Int
        BY <2>4
      <4> QED BY <2>4, <2>5, <4>1, <4>2
    <3> HIDE DEF x, q
    <3> QED BY <2>4, <3>0, <3>1, MultipleOfSmall
  <2> QED BY <2>1, <2>5, <2>7
<1>8. \A k \in Dims : a[k] = b[k]
  <2> SUFFICES ASSUME NEW k \in Dims PROVE a[k] = b[k]
    OBVIOUS
  <2>1. s[k] = t[k] /\ s[k - 1] = t[k - 1] /\ s[k - 1] \in Int
    BY <1>6, <1>7
  <2>2. a[k] * p[k - 1] = b[k] * p[k - 1] /\ p[k - 1] \in Nat \ {0} /\ a[k] \in Int /\ b[k] \in Int
    <3> DEFINE x == a[k] * p[k - 1]
               y == b[k] * p[k - 1]
               u == s[k - 1]
    <3>1. p[k - 1] \in Nat \ {0} /\ a[k] \in Int /\ b[k] \in Int /\ u + x = u + y
      BY <1>5, <2>1
    <3>0. \A m, q \in Int : m * q \in Int
      OBVIOUS
    <3>2. x \in Int /\ y \in Int /\ u \in Int
      BY <2>1, <3>0, <3>1, SMTT(30)
    <3> HIDE DEF x, y, u
    <3>3. x = y
      BY ONLY <3>1, <3>2
    <3> QED BY <3>1, <3>3 DEF x, y
  <2>3. \A x, y \in Int : \A q \in Nat \ {0} : x * q = y * q => x = y
    OBVIOUS
  <2> QED BY <2>2, <2>3
<1> QED BY <1>8 DEF Box

\* The index of the position of an index is that index.
LEMMA Positions ==
    ASSUME NEW d \in DimVec
    PROVE  /\ \A id \in Box(d) : /\ Dot(id, calcStrides(d)) \in 0 .. elements(d) - 1
                                 /\ Unravel(Dot(id, calcStrides(d)), d) = id
           /\ \A j \in 0 .. elements(d) - 1 : /\ Unravel(j, d) \in Box(d)
                                              /\ Dot(Unravel(j, d), calcStrides(d)) = j
<1>1. calcStrides(d) \in Strides /\ elements(d) \in Nat \ {0}
  BY ShapeFacts DEF DimVec, Strides
<1>2. ASSUME NEW j \in 0 .. elements(d) - 1
      PROVE  Unravel(j, d) \in Box(d) /\ Dot(Unravel(j, d), calcStrides(d)) = j
  BY <1>1, UnravelInBox, DotUnravel DEF Box
<1>3. ASSUME NEW id \in Box(d)
      PROVE  Dot(id, calcStrides(d)) \in 0 .. elements(d) - 1
  <2>1. id \in [Dims -> Nat] /\ \A k \in Dims : id[k] < d[k]
    BY DEF Box
  <2>2. Dot(id, calcStrides(d)) \in Nat /\ Dot(id, calcStrides(d)) <= Extent(d, calcStrides(d))
    BY <1>1, <2>1, DotInBox
  <2>3. Extent(d, calcStrides(d)) = elements(d) - 1
    BY <1>1, ExtentOfContiguous
  <2> QED BY <1>1, <2>2, <2>3
<1>4. ASSUME NEW id \in Box(d)
      PROVE  Unravel(Dot(id, calcStrides(d)), d) = id
  BY <1>2, <1>3, DotInjective
<1> QED BY <1>2, <1>3, <1>4

\* Products that are equal along every dimension give equal positions.
LEMMA DotSame ==
    ASSUME NEW a \in [Dims -> Int], NEW b \in [Dims -> Int],
           NEW s \in [Dims -> Int], NEW t \in [Dims -> Int],
           \A k \in Dims : a[k] * s[k] = b[k] * t[k]
    PROVE  Dot(a, s) = Dot(b, t)
<1> DEFINE zero == [k \in Dims |-> 0]
<1>1. zero \in [Dims -> Int] /\ Dot(zero, zero) = 0
  BY DotType
<1>2. \A k \in Dims : zero[k] * zero[k] = 0
  OBVIOUS
<1>3. \A k \in Dims : a[k] * s[k] \in Int /\ b[k] * t[k] \in Int
  <2>1. \A x, y \in Int : x * y \in Int
    OBVIOUS
  <2> QED BY <2>1
<1> HIDE DEF zero
<1>4. \A k \in Dims : a[k] * s[k] + zero[k] * zero[k] <= b[k] * t[k]
  BY <1>2, <1>3
<1>5. \A k \in Dims : b[k] * t[k] + zero[k] * zero[k] <= a[k] * s[k]
  BY <1>2, <1>3
<1>6. Dot(a, s) + Dot(zero, zero) <= Dot(b, t)
  BY <1>1, <1>4, DotsAtMost
<1>7. Dot(b, t) + Dot(zero, zero) <= Dot(a, s)
  BY <1>1, <1>5, DotsAtMost
<1> DEFINE x == Dot(a, s)
           y == Dot(b, t)
<1>8. x \in Int /\ y \in Int
  BY DotType
<1>9. x + 0 <= y /\ y + 0 <= x
  BY <1>1, <1>6, <1>7
<1> HIDE DEF x, y
<1>10. x = y
  BY <1>8, <1>9
<1> QED BY <1>10 DEF x, y

\* Two products that add up to a third along every dimension
LEMMA DotsAdd ==
    ASSUME NEW a \in [Dims -> Int], NEW b \in [Dims -> Int],
           NEW c \in [Dims -> Int], NEW d \in [Dims -> Int],
           NEW e \in [Dims -> Int], NEW f \in [Dims -> Int],
           \A k \in Dims : a[k] * b[k] + c[k] * d[k] = e[k] * f[k]
    PROVE  Dot(a, b) + Dot(c, d) = Dot(e, f)
<1> DEFINE m == [k \in Dims |-> - c[k]]
<1>1. m \in [Dims -> Int] /\ \A k \in Dims : m[k] = - c[k]
  OBVIOUS
<1> HIDE DEF m
<1>2. /\ \A x, y \in Int : x * y \in Int
      /\ \A x, y \in Int : (- x) * y = - (x * y)
  OBVIOUS
<1>3. \A k \in Dims : /\ a[k] * b[k] \in Int /\ c[k] * d[k] \in Int /\ e[k] * f[k] \in Int
                      /\ m[k] * d[k] = - (c[k] * d[k])
  BY <1>1, <1>2
<1>4. \A k \in Dims : a[k] * b[k] + c[k] * d[k] <= e[k] * f[k]
  BY <1>3
<1>5. \A k \in Dims : e[k] * f[k] + m[k] * d[k] <= a[k] * b[k]
  BY <1>3
<1>6. \A k \in Dims : 0 <= m[k] * d[k] + c[k] * d[k]
  BY <1>3
<1>7. Dot(a, b) + Dot(c, d) <= Dot(e, f)
  BY <1>4, DotsAtMost
<1>8. Dot(e, f) + Dot(m, d) <= Dot(a, b)
  BY <1>1, <1>5, DotsAtMost
<1>9. 0 <= Dot(m, d) + Dot(c, d)
  BY <1>1, <1>6, DotsNotNegative
<1> DEFINE w == Dot(a, b)
           x == Dot(c, d)
           y == Dot(e, f)
           z == Dot(m, d)
<1>10. w \in Int /\ x \in Int /\ y \in Int /\ z \in Int
  BY <1>1, DotType
<1>11. w + x <= y /\ y + z <= w /\ 0 <= z + x
  BY <1>7, <1>8, <1>9
<1> HIDE DEF w, x, y, z
<1>12. w + x = y
  BY <1>10, <1>11
<1> QED BY <1>12 DEF w, x, y

\* Nothing is permuted by the identity.
LEMMA PermuteIdentity ==
    /\ \A s : (s = [k \in Dims |-> s[k]]) => Permute(Identity, s) = s
    /\ \A r \in BufferNodes : PermuteBuffer(Identity, r) = r
<1>1. ASSUME NEW s, s = [k \in Dims |-> s[k]] PROVE Permute(Identity, s) = s
  BY <1>1 DEF Permute, Identity
<1>2. ASSUME NEW r \in BufferNodes PROVE PermuteBuffer(Identity, r) = r
  <2>1. r.dims \in [Dims -> Nat \ {0}] /\ r.strides \in [Dims -> Nat]
    BY DEF BufferNodes, DimVec, Strides
  <2>2. Permute(Identity, r.dims) = r.dims /\ Permute(Identity, r.strides) = r.strides
    BY <1>1, <2>1
  <2>3. PermuteBuffer(Identity, r) = [r EXCEPT !.dims = r.dims, !.strides = r.strides]
    BY <2>2 DEF PermuteBuffer
  <2> QED BY <2>3 DEF BufferNodes
<1> QED BY <1>1, <1>2

\* The lowest numbers of a set that has all of them are listed in their places.
LEMMA AscendingPrefix ==
    ASSUME NEW S, S \subseteq Nat \ {0}, IsFiniteSet(S), NEW k \in Nat \ {0}, 1 .. k \subseteq S
    PROVE  k \in 1 .. Cardinality(S) /\ Ascending(S)[k] = k
<1>1. UpTo(S, k) = 1 .. k
  <2>1. \A m \in S : m \in Nat \ {0}
    OBVIOUS
  <2>2. \A m \in UpTo(S, k) : m \in 1 .. k
    BY <2>1 DEF UpTo
  <2>3. \A m \in 1 .. k : m \in S /\ m <= k
    OBVIOUS
  <2>4. \A m \in 1 .. k : m \in UpTo(S, k)
    BY <2>3 DEF UpTo
  <2> QED BY <2>2, <2>4
<1>2. IsFiniteSet(1 .. k) /\ Cardinality(1 .. k) = k
  BY FS_Interval
<1>3. Cardinality(1 .. k) <= Cardinality(S) /\ Cardinality(S) \in Nat
  BY FS_Subset, FS_CardinalityType
<1>4. k \in 1 .. Cardinality(S)
  BY <1>2, <1>3
<1> DEFINE x == Ascending(S)[k]
<1>5. x \in S /\ Cardinality(UpTo(S, x)) = k
  BY <1>4, AscendingIn
<1> HIDE DEF x
<1>6. x \in Nat \ {0}
  BY <1>5
<1>7. IsFiniteSet(UpTo(S, x))
  BY FS_Subset DEF UpTo
<1>8. ~ (k < x)
  <2> SUFFICES ASSUME k < x PROVE FALSE
    OBVIOUS
  <2>1. 1 .. k \subseteq UpTo(S, x) /\ x \in UpTo(S, x) /\ x \notin 1 .. k
    BY <1>5, <1>6 DEF UpTo
  <2>2. Cardinality((1 .. k) \cup {x}) = k + 1
    BY <1>2, <2>1, FS_AddElement
  <2>3. Cardinality((1 .. k) \cup {x}) <= Cardinality(UpTo(S, x))
    BY <1>7, <2>1, FS_Subset
  <2> QED BY <1>5, <2>2, <2>3
<1>9. ~ (x < k)
  <2> SUFFICES ASSUME x < k PROVE FALSE
    OBVIOUS
  <2>1. UpTo(S, x) \subseteq 1 .. x
    <3> SUFFICES ASSUME NEW m \in UpTo(S, x) PROVE m \in 1 .. x
      OBVIOUS
    <3>1. m \in Nat \ {0} /\ m <= x
      BY DEF UpTo
    <3> QED BY <1>6, <3>1
  <2>2. IsFiniteSet(1 .. x) /\ Cardinality(1 .. x) = x
    BY <1>6, FS_Interval
  <2>3. Cardinality(UpTo(S, x)) <= x
    <3> DEFINE U == UpTo(S, x)
               I == 1 .. x
    <3>1. IsFiniteSet(I) /\ U \in SUBSET I
      BY <2>1, <2>2
    <3> HIDE DEF U, I
    <3>2. Cardinality(U) <= Cardinality(I)
      BY ONLY <3>1, FS_Subset
    <3> QED BY <2>2, <3>2 DEF U, I
  <2> QED BY <1>5, <1>6, <2>3
<1>10. x = k
  BY <1>6, <1>8, <1>9
<1> QED BY <1>4, <1>10 DEF x

\* The order that compressArray finds for an output changes nothing of a shape
\* that is read along it and has its dimensions of length 1 behind the others.
LEMMA CompressFixes ==
    ASSUME NEW d \in DimVec, NEW e \in DimVec, Narrow(e, d), Leading(e)
    PROVE  /\ \A k \in Dims : e[k] # 1 => compressArray(d)[k] = k
           /\ \A k \in Dims : e[k] = 1 => e[compressArray(d)[k]] = 1
           /\ Permute(compressArray(d), e) = e
<1> DEFINE p == compressArray(d)
           A == {k \in Dims : d[k] # 1}
           B == {k \in Dims : d[k] = 1}
           a == Ascending(A)
           b == Ascending(B)
<1>1. IsFiniteSet(Dims) /\ Dims \subseteq Nat \ {0} /\ Dims = 1 .. AF_MAX_DIMS /\ AF_MAX_DIMS \in Nat
  BY DimsFacts, FS_Interval
<1>2. p = a \o b /\ A \subseteq Nat \ {0} /\ IsFiniteSet(A) /\ IsFiniteSet(B)
  BY <1>1, FS_Subset DEF compressArray
<1>3. a = [i \in 1 .. Cardinality(A) |-> a[i]] /\ b = [i \in 1 .. Cardinality(B) |-> b[i]]
  <2> HIDE DEF A, B
  <2> QED BY SMTT(30) DEF Ascending
<1>4. Cardinality(A) \in Nat /\ Cardinality(B) \in Nat
  BY <1>2, FS_CardinalityType
<1>5. ASSUME NEW k \in Dims, e[k] # 1 PROVE p[k] = k
  <2>1. \A l \in 1 .. k : l \in Dims /\ e[l] # 1
    BY <1>1, <1>5 DEF Leading
  <2>2. \A l \in 1 .. k : l \in A
    BY <2>1 DEF Narrow
  <2>3. 1 .. k \subseteq A /\ k \in Nat \ {0}
    BY <1>1, <2>2
  <2> HIDE DEF A, B, p
  <2>4. k \in 1 .. Cardinality(A) /\ a[k] = k
    BY <1>2, <2>3, AscendingPrefix
  <2> HIDE DEF a, b
  <2> DEFINE m == Cardinality(A)
             n == Cardinality(B)
  <2>5. a \in Seq({a[i] : i \in 1 .. m}) /\ b \in Seq({b[i] : i \in 1 .. n}) /\ Len(a) = m /\ Len(b) = n
    <3>1. m \in Nat /\ n \in Nat /\ a = [i \in 1 .. m |-> a[i]] /\ b = [i \in 1 .. n |-> b[i]]
      BY <1>3, <1>4
    <3> HIDE DEF m, n
    <3> DEFINE S == {a[i] : i \in 1 .. m}
               T == {b[i] : i \in 1 .. n}
    <3>2. (\A i \in 1 .. m : a[i] \in S) /\ (\A i \in 1 .. n : b[i] \in T)
      OBVIOUS
    <3> HIDE DEF S, T
    <3>3. a \in [1 .. m -> S] /\ b \in [1 .. n -> T]
      BY <3>1, <3>2
    <3>4. a \in Seq(S) /\ b \in Seq(T) /\ Len(a) = m /\ Len(b) = n
      BY <3>1, <3>3
    <3> QED BY <3>4 DEF S, T
  <2>6. (a \o b)[k] = a[k]
    <3>1. Len(a) \in Nat /\ Len(b) \in Nat /\ k \in 1 .. Len(a)
      BY <1>4, <2>4, <2>5
    <3> QED BY <2>5, <3>1
  <2> QED BY <1>2, <2>4, <2>6
<1>6. Renaming(p)
  BY CompressRenames
<1>7. ASSUME NEW k \in Dims, e[k] = 1 PROVE e[p[k]] = 1
  <2> SUFFICES ASSUME e[p[k]] # 1 PROVE FALSE
    OBVIOUS
  <2> HIDE DEF p
  <2>1. p[k] \in Dims
    BY <1>6 DEF Renaming
  <2>2. p[p[k]] = p[k]
    BY <1>5, <2>1
  <2>3. p[k] = k
    BY <1>6, <2>1, <2>2 DEF Renaming
  <2> QED BY <1>7, <2>3
<1>8. \A k \in Dims : e[p[k]] = e[k]
  BY <1>5, <1>7
<1>9. Permute(p, e) = e
  BY <1>8 DEF Permute, DimVec
<1> QED BY <1>5, <1>7, <1>9

\* Without empty columns, the dimensions of length 1 come last.
LEMMA NoEmptyLeads ==
    ASSUME NEW d \in DimVec, ~ EmptyColumns(d)
    PROVE  Leading(d)
<1> DEFINE S == {1} \cup {k \in Dims : d[k] # 1}
           T == {AF_MAX_DIMS} \cup {k \in Dims : d[k] = 1}
<1>1. IsFiniteSet(Dims) /\ Dims \subseteq Nat /\ 1 \in Dims /\ AF_MAX_DIMS \in Dims
  BY DimsFacts, FS_Interval
<1>2. ndims(d) = Max(S) /\ S \subseteq Nat /\ S # {} /\ IsFiniteSet(S)
  <2>1. S \subseteq Dims
    BY <1>1
  <2> QED BY <1>1, <2>1, FS_Subset DEF ndims
<1>3. Max(S) \in S /\ \A k \in S : k <= Max(S)
  <2> HIDE DEF S
  <2> QED BY <1>2, MaxOfHeights
<1>4. T \subseteq Nat /\ T # {}
  BY <1>1
<1>5. Min(T) \in T /\ \A k \in T : Min(T) <= k
  <2> HIDE DEF T
  <2>1. \E n \in T : \A m \in T : n <= m
    BY <1>4, LeastNat
  <2> QED BY <2>1 DEF Min
<1>6. ~ (Max(S) > Min(T))
  BY <1>2 DEF EmptyColumns
<1>7. Max(S) \in Nat /\ Min(T) \in Nat
  BY <1>2, <1>3, <1>4, <1>5
<1>8. \A k \in Dims : (d[k] # 1 => k <= Max(S)) /\ (d[k] = 1 => Min(T) <= k)
  BY <1>3, <1>5
<1> DEFINE x == Max(S)
           y == Min(T)
<1>9. x \in Nat /\ y \in Nat /\ ~ (x > y) /\ \A k \in Dims : (d[k] # 1 => k <= x) /\ (d[k] = 1 => y <= k)
  BY <1>6, <1>7, <1>8
<1> HIDE DEF x, y
<1>10. ASSUME NEW k \in Dims, NEW l \in Dims, k < l, d[l] # 1, d[k] = 1 PROVE FALSE
  <2>1. k \in Nat /\ l \in Nat /\ l <= x /\ y <= k
    BY <1>1, <1>9, <1>10
  <2> QED BY <1>9, <1>10, <2>1
<1> QED BY <1>10 DEF Leading

\* The elements of a linear array follow each other.
LEMMA LinearContiguous ==
    ASSUME NEW a, a.dims \in DimVec, a.strides \in Strides, isLinear(a)
    PROVE  Contiguous(a)
<1> DEFINE long == {k \in Dims : a.dims[k] # 1}
           S == {1} \cup long
           n == ndims(a.dims)
<1>1. n = Max(S) /\ S \subseteq Nat /\ S # {} /\ S \in SUBSET Dims
  BY DimsFacts DEF ndims
<1>2. IsFiniteSet(S)
  <2>1. IsFiniteSet(Dims)
    BY DimsFacts, FS_Interval
  <2> HIDE DEF S
  <2> QED BY <1>1, <2>1, FS_Subset
<1>3. n \in S /\ \A k \in S : k <= n
  <2> HIDE DEF S
  <2> QED BY <1>1, <1>2, MaxOfHeights
<1>4. n \in Nat /\ \A k \in long : k \in 1 .. n /\ k \in Dims
  BY <1>1, <1>3, DimsFacts
<1> HIDE DEF n, S
<1>5. ASSUME NEW k \in long PROVE a.strides[k] = calcStrides(a.dims)[k]
  <2>1. CASE n = 1
    BY <1>4, <2>1, ShapeFacts DEF isLinear, n
  <2>2. CASE n # 1
    BY <1>4, <2>2 DEF isLinear, n
  <2> QED BY <2>1, <2>2
<1> QED BY <1>5 DEF Contiguous

\* An index of a contiguous box is at its position.
LEMMA ContiguousDot ==
    ASSUME NEW r, r.dims \in DimVec, r.strides \in Strides, Contiguous(r), NEW id \in Box(r.dims)
    PROVE  Dot(id, r.strides) = Dot(id, calcStrides(r.dims))
<1>1. calcStrides(r.dims) \in [Dims -> Int] /\ r.strides \in [Dims -> Int] /\ id \in [Dims -> Int]
  BY ShapeFacts DEF DimVec, Strides, Box
<1>2. ASSUME NEW k \in Dims PROVE id[k] * r.strides[k] = id[k] * calcStrides(r.dims)[k]
  <2>1. CASE r.dims[k] # 1
    BY <2>1 DEF Contiguous
  <2>2. CASE r.dims[k] = 1
    <3>1. id[k] = 0
      BY <2>2 DEF Box
    <3>2. \A x \in Int : 0 * x = 0
      OBVIOUS
    <3> QED BY <1>1, <3>1, <3>2
  <2> QED BY <2>1, <2>2
<1> QED BY <1>1, <1>2, DotSame

(***************************************************************************)
(* Kernels that compute the same values.                                   *)
(***************************************************************************)

\* Two kernels agree on pairs of nodes whose leaves agree.
LEMMA KernelsAgree ==
    ASSUME NEW N, HeapOK(N), NEW D, NEW lin, NEW p, NEW j, NEW id,
           NEW N2, HeapOK(N2), NEW D2, NEW lin2, NEW p2, NEW j2, NEW id2,
           NEW S \in SUBSET (NodeIds \X NodeIds),
           \A m, n \in NodeIds : <<m, n>> \in S =>
              \/ \A v, w : KernelStep(N, D, lin, p, j, id, v, m) = KernelStep(N2, D2, lin2, p2, j2, id2, w, n)
              \/ /\ N[m].kind = "nary" /\ N2[n].kind = "nary"
                 /\ Len(N2[n].children) = Len(N[m].children)
                 /\ \A i \in 1 .. Len(N[m].children) : <<N[m].children[i], N2[n].children[i]>> \in S
    PROVE  \A m, n \in NodeIds : <<m, n>> \in S =>
              KernelValue(N, D, lin, p, m, j, id) = KernelValue(N2, D2, lin2, p2, n, j2, id2)
<1>1. PICK v : /\ \A n \in NodeIds : v[n] = KernelStep(N, D, lin, p, j, id, v, n)
               /\ \A n \in NodeIds : KernelValue(N, D, lin, p, n, j, id) = v[n]
  BY KernelUnfold
<1>2. PICK w : /\ \A n \in NodeIds : w[n] = KernelStep(N2, D2, lin2, p2, j2, id2, w, n)
               /\ \A n \in NodeIds : KernelValue(N2, D2, lin2, p2, n, j2, id2) = w[n]
  BY KernelUnfold
<1> DEFINE Bad == {m \in NodeIds : \E n \in NodeIds : <<m, n>> \in S /\ v[m] # w[n]}
<1>3. Bad = {}
  <2> SUFFICES ASSUME Bad # {} PROVE FALSE
    OBVIOUS
  <2>1. PICK m \in Bad : \A c \in ToSet(Children(N, m)) : c \notin Bad
    <3>1. Bad \subseteq NodeIds
      OBVIOUS
    <3> HIDE DEF Bad
    <3> QED BY <3>1, LowestNode
  <2>2. PICK n \in NodeIds : m \in NodeIds /\ <<m, n>> \in S /\ v[m] # w[n]
    BY <2>1
  <2>3. \A c \in ToSet(Children(N, m)) : \A x \in NodeIds : c \in NodeIds /\ <<c, x>> \in S => v[c] = w[x]
    BY <2>1
  <2> HIDE DEF Bad
  <2>4. CASE \A f, g : KernelStep(N, D, lin, p, j, id, f, m) = KernelStep(N2, D2, lin2, p2, j2, id2, g, n)
    BY <1>1, <1>2, <2>2, <2>4
  <2>5. CASE /\ N[m].kind = "nary" /\ N2[n].kind = "nary"
             /\ Len(N2[n].children) = Len(N[m].children)
             /\ \A i \in 1 .. Len(N[m].children) : <<N[m].children[i], N2[n].children[i]>> \in S
    <3> DEFINE a == N[m].children
               b == N2[n].children
    <3>1. N[m] \in NaryNodes /\ N2[n] \in NaryNodes
      BY <2>2, <2>5, NodeKinds DEF HeapOK
    <3>2. a \in [1 .. Len(a) -> NodeIds] /\ b \in [1 .. Len(b) -> NodeIds]
      BY <3>1, NaryParts
    <3>3. Children(N, m) = a
      BY <2>5 DEF Children
    <3>4. \A i \in 1 .. Len(a) : a[i] \in ToSet(Children(N, m)) /\ a[i] \in NodeIds /\ b[i] \in NodeIds
      BY <2>5, <3>2, <3>3 DEF ToSet
    <3>5. \A i \in 1 .. Len(a) : v[a[i]] = w[b[i]]
      BY <2>3, <2>5, <3>4
    <3>6. /\ KernelStep(N, D, lin, p, j, id, v, m) = Operation([i \in 1 .. Len(a) |-> v[a[i]]])
          /\ KernelStep(N2, D2, lin2, p2, j2, id2, w, n) = Operation([i \in 1 .. Len(b) |-> w[b[i]]])
      BY <2>5 DEF KernelStep
    <3>7. [i \in 1 .. Len(a) |-> v[a[i]]] = [i \in 1 .. Len(b) |-> w[b[i]]]
      BY <2>5, <3>5
    <3> HIDE DEF a, b
    <3> QED BY <1>1, <1>2, <2>2, <3>6, <3>7
  <2> QED BY <2>2, <2>4, <2>5
<1> QED BY <1>1, <1>2, <1>3, ZenonT(30)

\* Two kernels agree on the nodes of a tree whose leaves agree.
LEMMA SameTreeAgree ==
    ASSUME NEW N, HeapOK(N), NEW D, NEW lin, NEW p, NEW j, NEW id,
           NEW N2, HeapOK(N2), NEW D2, NEW lin2, NEW p2, NEW j2, NEW id2,
           NEW T \in SUBSET NodeIds, Closed(N, T), \A n \in T : N2[n] = N[n],
           \A n \in T : N[n].kind # "nary" =>
              \A v, w : KernelStep(N, D, lin, p, j, id, v, n) = KernelStep(N2, D2, lin2, p2, j2, id2, w, n)
    PROVE  \A n \in T : KernelValue(N, D, lin, p, n, j, id) = KernelValue(N2, D2, lin2, p2, n, j2, id2)
<1> DEFINE S == {<<n, n>> : n \in T}
<1>1. S \in SUBSET (NodeIds \X NodeIds) /\ \A m, n \in NodeIds : <<m, n>> \in S <=> m = n /\ n \in T
  OBVIOUS
<1> HIDE DEF S
<1>2. ASSUME NEW n \in T, N[n].kind = "nary"
      PROVE  \A i \in 1 .. Len(N[n].children) : <<N[n].children[i], N2[n].children[i]>> \in S
  <2>1. N[n] \in NaryNodes /\ Children(N, n) = N[n].children
    BY <1>2, NodeKinds DEF HeapOK, Children
  <2>2. \A i \in 1 .. Len(N[n].children) : N[n].children[i] \in ToSet(Children(N, n))
    BY <2>1, NaryParts DEF ToSet
  <2>3. \A i \in 1 .. Len(N[n].children) : N[n].children[i] \in T
    BY <2>2 DEF Closed
  <2> QED BY <1>1, <2>3
<1>3. \A m, n \in NodeIds : <<m, n>> \in S =>
         \/ \A v, w : KernelStep(N, D, lin, p, j, id, v, m) = KernelStep(N2, D2, lin2, p2, j2, id2, w, n)
         \/ /\ N[m].kind = "nary" /\ N2[n].kind = "nary"
            /\ Len(N2[n].children) = Len(N[m].children)
            /\ \A i \in 1 .. Len(N[m].children) : <<N[m].children[i], N2[n].children[i]>> \in S
  BY <1>1, <1>2
<1>4. \A m, n \in NodeIds : <<m, n>> \in S =>
         KernelValue(N, D, lin, p, m, j, id) = KernelValue(N2, D2, lin2, p2, n, j2, id2)
  BY <1>1, <1>3, KernelsAgree
<1> QED BY <1>1, <1>4

\* What ValueAt computes for a node from what it has in v for the children
StepAt(N, D, id, v, n) == KernelStep(N, D, FALSE, Identity, 0, id, v, n)

\* Agreement on pairs of nodes of two heaps, or of one, at two indices
LEMMA PairsAgree ==
    ASSUME NEW N, HeapOK(N), NEW D, NEW id, NEW N2, HeapOK(N2), NEW D2, NEW id2,
           NEW S \in SUBSET (NodeIds \X NodeIds),
           \A m, n \in NodeIds : <<m, n>> \in S =>
              \/ \A v, w : StepAt(N, D, id, v, m) = StepAt(N2, D2, id2, w, n)
              \/ /\ N[m].kind = "nary" /\ N2[n].kind = "nary"
                 /\ Len(N2[n].children) = Len(N[m].children)
                 /\ \A i \in 1 .. Len(N[m].children) : <<N[m].children[i], N2[n].children[i]>> \in S
    PROVE  \A m, n \in NodeIds : <<m, n>> \in S => ValueAt(N, D, m, id) = ValueAt(N2, D2, n, id2)
<1> DEFINE strided == FALSE
           Step1(v, m) == KernelStep(N, D, strided, Identity, 0, id, v, m)
           Step2(w, n) == KernelStep(N2, D2, strided, Identity, 0, id2, w, n)
<1>1. /\ \A v, m : StepAt(N, D, id, v, m) = Step1(v, m)
      /\ \A w, n : StepAt(N2, D2, id2, w, n) = Step2(w, n)
  BY DEF StepAt
<1>2. /\ \A m : ValueAt(N, D, m, id) = KernelValue(N, D, strided, Identity, m, 0, id)
      /\ \A n : ValueAt(N2, D2, n, id2) = KernelValue(N2, D2, strided, Identity, n, 0, id2)
  BY DEF ValueAt
<1> HIDE DEF strided
<1>3. \A m, n \in NodeIds : <<m, n>> \in S =>
              \/ \A v, w : Step1(v, m) = Step2(w, n)
              \/ /\ N[m].kind = "nary" /\ N2[n].kind = "nary"
                 /\ Len(N2[n].children) = Len(N[m].children)
                 /\ \A i \in 1 .. Len(N[m].children) : <<N[m].children[i], N2[n].children[i]>> \in S
  <2> HIDE DEF Step1, Step2
  <2> SUFFICES ASSUME NEW m \in NodeIds, NEW n \in NodeIds, <<m, n>> \in S,
                      \A v, w : StepAt(N, D, id, v, m) = StepAt(N2, D2, id2, w, n),
                      NEW v, NEW w
               PROVE  Step1(v, m) = Step2(w, n)
    OBVIOUS
  <2>1. StepAt(N, D, id, v, m) = Step1(v, m) /\ StepAt(N2, D2, id2, w, n) = Step2(w, n)
    BY <1>1
  <2> QED BY <2>1
<1>4. \A m, n \in NodeIds : <<m, n>> \in S =>
         KernelValue(N, D, strided, Identity, m, 0, id) = KernelValue(N2, D2, strided, Identity, n, 0, id2)
  BY <1>3, KernelsAgree
<1> QED BY <1>2, <1>4

\* Agreement on the nodes of a tree that is in two heaps, or at two indices
LEMMA TreeAgrees ==
    ASSUME NEW N, HeapOK(N), NEW D, NEW id, NEW N2, HeapOK(N2), NEW D2, NEW id2,
           NEW T \in SUBSET NodeIds, Closed(N, T), \A n \in T : N2[n] = N[n],
           \A n \in T : N[n].kind # "nary" =>
              \A v, w : StepAt(N, D, id, v, n) = StepAt(N2, D2, id2, w, n)
    PROVE  \A n \in T : ValueAt(N, D, n, id) = ValueAt(N2, D2, n, id2)
<1> DEFINE strided == FALSE
           Step1(v, m) == KernelStep(N, D, strided, Identity, 0, id, v, m)
           Step2(w, n) == KernelStep(N2, D2, strided, Identity, 0, id2, w, n)
<1>1. /\ \A v, m : StepAt(N, D, id, v, m) = Step1(v, m)
      /\ \A w, n : StepAt(N2, D2, id2, w, n) = Step2(w, n)
  BY DEF StepAt
<1>2. /\ \A m : ValueAt(N, D, m, id) = KernelValue(N, D, strided, Identity, m, 0, id)
      /\ \A n : ValueAt(N2, D2, n, id2) = KernelValue(N2, D2, strided, Identity, n, 0, id2)
  BY DEF ValueAt
<1> HIDE DEF strided
<1>3. ASSUME NEW n \in T, N[n].kind # "nary", NEW v, NEW w
      PROVE  Step1(v, n) = Step2(w, n)
  <2> HIDE DEF Step1, Step2
  <2>1. StepAt(N, D, id, v, n) = Step1(v, n) /\ StepAt(N2, D2, id2, w, n) = Step2(w, n)
    BY <1>1
  <2> QED BY <1>3, <2>1
<1>4. \A n \in T : KernelValue(N, D, strided, Identity, n, 0, id) = KernelValue(N2, D2, strided, Identity, n, 0, id2)
  BY <1>3, SameTreeAgree
<1> QED BY <1>2, <1>4

\* What the leaves of a heap that fits have at an index
LEMMA LeafStep ==
    ASSUME NEW N, HeapOK(N), NEW D, HeapFits(N, D), NEW n \in NodeIds, NEW id, NEW v
    PROVE  /\ N[n].kind = "scalar" => StepAt(N, D, id, v, n) = N[n].value
           /\ N[n].kind = "buffer" => StepAt(N, D, id, v, n) = ReadBuffer(D, N[n], id)
           /\ N[n].kind = "shift" => StepAt(N, D, id, v, n) = ReadShift(D, N[N[n].in], N[n].shifts, id)
<1>1. NodeFits(N, D, n)
  BY DEF HeapFits
<1>2. N[n].kind = "buffer" => PermuteBuffer(Identity, N[n]) = N[n]
  BY <1>1, PermuteIdentity DEF NodeFits
<1>3. N[n].kind = "shift" => Permute(Identity, N[n].shifts) = N[n].shifts
  <2> SUFFICES ASSUME N[n].kind = "shift" PROVE Permute(Identity, N[n].shifts) = N[n].shifts
    OBVIOUS
  <2>1. N[n].shifts \in [Dims -> Nat]
    BY <1>1 DEF NodeFits, ShiftNodes, Strides
  <2> QED BY <2>1, PermuteIdentity
<1> QED BY <1>2, <1>3 DEF StepAt, KernelStep

\* ValueAt satisfies its recursion.
LEMMA ValueUnfold ==
    ASSUME NEW N, HeapOK(N), NEW D, NEW id
    PROVE  \E v : \A n \in NodeIds : /\ ValueAt(N, D, n, id) = v[n]
                                     /\ v[n] = StepAt(N, D, id, v, n)
<1> DEFINE strided == FALSE
<1>1. \A v, m : StepAt(N, D, id, v, m) = KernelStep(N, D, strided, Identity, 0, id, v, m)
  BY DEF StepAt
<1>2. \A m : ValueAt(N, D, m, id) = KernelValue(N, D, strided, Identity, m, 0, id)
  BY DEF ValueAt
<1> HIDE DEF strided
<1>3. PICK v : /\ \A m \in NodeIds : v[m] = KernelStep(N, D, strided, Identity, 0, id, v, m)
               /\ \A m \in NodeIds : KernelValue(N, D, strided, Identity, m, 0, id) = v[m]
  BY KernelUnfold
<1> QED BY <1>1, <1>2, <1>3

\* The value of a leaf at an index
LEMMA LeafValue ==
    ASSUME NEW N, HeapOK(N), NEW D, HeapFits(N, D), NEW n \in NodeIds, NEW id
    PROVE  /\ N[n].kind = "scalar" => ValueAt(N, D, n, id) = N[n].value
           /\ N[n].kind = "buffer" => ValueAt(N, D, n, id) = ReadBuffer(D, N[n], id)
           /\ N[n].kind = "shift" => ValueAt(N, D, n, id) = ReadShift(D, N[N[n].in], N[n].shifts, id)
<1>1. PICK v : \A m \in NodeIds : ValueAt(N, D, m, id) = v[m] /\ v[m] = StepAt(N, D, id, v, m)
  BY ValueUnfold
<1>2. ValueAt(N, D, n, id) = StepAt(N, D, id, v, n)
  BY <1>1
<1> QED BY <1>2, LeafStep

\* The value of an operation at an index
LEMMA NaryValue ==
    ASSUME NEW N, HeapOK(N), NEW D, NEW n \in NodeIds, NEW id, N[n].kind = "nary"
    PROVE  ValueAt(N, D, n, id) =
                  Operation([i \in 1 .. Len(N[n].children) |-> ValueAt(N, D, N[n].children[i], id)])
<1>1. PICK v : \A m \in NodeIds : ValueAt(N, D, m, id) = v[m] /\ v[m] = StepAt(N, D, id, v, m)
  BY ValueUnfold
<1> DEFINE a == N[n].children
           f == [i \in 1 .. Len(a) |-> v[a[i]]]
           g == [i \in 1 .. Len(a) |-> ValueAt(N, D, a[i], id)]
<1>2. N[n] \in NaryNodes
  BY NodeKinds DEF HeapOK
<1>3. a \in [1 .. Len(a) -> NodeIds]
  BY <1>2, NaryParts
<1>4. StepAt(N, D, id, v, n) = Operation(f)
  BY DEF StepAt, KernelStep
<1>5. f = g
  BY <1>1, <1>3
<1> HIDE DEF f, g
<1>6. ValueAt(N, D, n, id) = Operation(g)
  BY <1>1, <1>4, <1>5
<1> QED BY <1>6 DEF g

\* The tree of a leaf, and of an operation
LEMMA TreeParts ==
    ASSUME NEW N, HeapOK(N), NEW n \in NodeIds
    PROVE  /\ N[n].kind # "nary" => Tree(N, n) = {n}
           /\ N[n].kind = "nary" => /\ Len(N[n].children) \in 1 .. kMaxChildren
                                    /\ N[n].children \in [1 .. Len(N[n].children) -> NodeIds]
                                    /\ \A i \in 1 .. Len(N[n].children) : Tree(N, N[n].children[i]) \subseteq Tree(N, n)
                                    /\ \A m \in Tree(N, n) : m = n \/ \E i \in 1 .. Len(N[n].children) :
                                                                        m \in Tree(N, N[n].children[i])
<1>1. Tree(N, n) = {n} \cup UNION {Tree(N, c) : c \in ToSet(Children(N, n))}
  BY TreeUnfold
<1>2. ASSUME N[n].kind # "nary" PROVE Tree(N, n) = {n}
  <2>1. ToSet(Children(N, n)) = {}
    BY <1>2 DEF Children, ToSet
  <2> QED BY <1>1, <2>1
<1>3. ASSUME N[n].kind = "nary"
      PROVE  /\ Len(N[n].children) \in 1 .. kMaxChildren
             /\ N[n].children \in [1 .. Len(N[n].children) -> NodeIds]
             /\ ToSet(Children(N, n)) = {N[n].children[i] : i \in 1 .. Len(N[n].children)}
  <2>1. N[n] \in NaryNodes /\ Children(N, n) = N[n].children
    BY <1>3, NodeKinds DEF HeapOK, Children
  <2>2. Len(N[n].children) \in 1 .. kMaxChildren /\ N[n].children \in [1 .. Len(N[n].children) -> NodeIds]
    BY <2>1, NaryParts
  <2> QED BY <2>1, <2>2 DEF ToSet
<1> QED BY <1>1, <1>2, <1>3

\* The same nodes make the same tree.
LEMMA SameTree ==
    ASSUME NEW N, HeapOK(N), NEW N2, HeapOK(N2), NEW n \in NodeIds, N[n] # NoNode,
           \A m \in Tree(N, n) : N2[m] = N[m]
    PROVE  Tree(N2, n) = Tree(N, n)
<1>1. n \in Tree(N, n) /\ Tree(N, n) \subseteq NodeIds /\ Closed(N, Tree(N, n))
  BY TreeClosed
<1>2. \A m \in Tree(N, n) : Children(N2, m) = Children(N, m)
  BY DEF Children
<1>3. Closed(N2, Tree(N, n))
  BY <1>1, <1>2 DEF Closed
<1>4. Tree(N2, n) \subseteq Tree(N, n)
  BY <1>1, <1>3, TreeWithin
<1>5. N2[n] # NoNode
  BY <1>1
<1>6. n \in Tree(N2, n) /\ Tree(N2, n) \subseteq NodeIds /\ Closed(N2, Tree(N2, n))
  BY <1>5, TreeClosed
<1>7. Closed(N, Tree(N2, n))
  BY <1>2, <1>4, <1>6 DEF Closed
<1>8. Tree(N, n) \subseteq Tree(N2, n)
  BY <1>6, <1>7, TreeWithin
<1> QED BY <1>4, <1>8

\* A tree shows the same in another heap that has its nodes, and in which its
\* leaves read the same.
ReadsAlike(N, D, N2, D2, n) ==
    \A m \in Tree(N, n) :
       /\ N2[m] = N[m]
       /\ N[m].kind = "buffer" => D2[N[m].buf] = D[N[m].buf]
       /\ N[m].kind = "shift" =>
            /\ N2[N[m].in].dims = N[N[m].in].dims
            /\ \A id \in [Dims -> Nat] : ReadShift(D2, N2[N[m].in], N[m].shifts, id)
                                           = ReadShift(D, N[N[m].in], N[m].shifts, id)
\* Its tree, its values and its shifts stay.
LEMMA ShowsKept ==
    ASSUME NEW N, HeapOK(N), NEW D, HeapFits(N, D), NEW N2, HeapOK(N2), NEW D2, HeapFits(N2, D2),
           NEW n \in NodeIds, N[n] # NoNode, ReadsAlike(N, D, N2, D2, n)
    PROVE  /\ Tree(N2, n) = Tree(N, n)
           /\ \A d, v : Shows(N, D, n, d, v) => Shows(N2, D2, n, d, v)
           /\ ShiftsLead(N, n) => ShiftsLead(N2, n)
<1>1. n \in Tree(N, n) /\ Tree(N, n) \in SUBSET NodeIds /\ Closed(N, Tree(N, n))
  BY TreeClosed
<1>2. \A m \in Tree(N, n) : N2[m] = N[m]
  BY DEF ReadsAlike
<1>3. Tree(N2, n) = Tree(N, n)
  BY <1>2, SameTree
<1>4. ASSUME NEW id \in [Dims -> Nat] PROVE ValueAt(N2, D2, n, id) = ValueAt(N, D, n, id)
  <2>1. ASSUME NEW m \in Tree(N, n), N[m].kind # "nary", NEW v, NEW w
        PROVE  StepAt(N, D, id, v, m) = StepAt(N2, D2, id, w, m)
    <3>1. m \in NodeIds /\ N[m] # NoNode /\ N2[m] = N[m]
      BY <1>1, <1>2, TreeClosed
    <3>2. N[m].kind \in {"scalar", "buffer", "shift"}
      BY <2>1, <3>1, NodeKinds DEF HeapOK
    <3>3. CASE N[m].kind = "scalar"
      BY <3>1, <3>3, LeafStep
    <3>4. CASE N[m].kind = "buffer"
      <4>1. ReadBuffer(D2, N[m], id) = ReadBuffer(D, N[m], id)
        BY <3>4 DEF ReadsAlike, ReadBuffer
      <4> QED BY <3>1, <3>4, <4>1, LeafStep
    <3>5. CASE N[m].kind = "shift"
      <4>1. ReadShift(D2, N2[N[m].in], N[m].shifts, id) = ReadShift(D, N[N[m].in], N[m].shifts, id)
        BY <3>5 DEF ReadsAlike
      <4> QED BY <3>1, <3>5, <4>1, LeafStep
    <3> QED BY <3>2, <3>3, <3>4, <3>5
  <2>2. \A m \in Tree(N, n) : ValueAt(N, D, m, id) = ValueAt(N2, D2, m, id)
    BY <1>1, <1>2, <2>1, TreeAgrees
  <2> QED BY <1>1, <2>2
<1>5. ASSUME NEW d, NEW v, Shows(N, D, n, d, v) PROVE Shows(N2, D2, n, d, v)
  <2>1. TreeReads(N2, n, d)
    BY <1>3, <1>5 DEF Shows, TreeReads, ReadsAlike
  <2>2. \A id \in Box(d) : ValueAt(N2, D2, n, id) = v[1 + Dot(id, calcStrides(d))]
    BY <1>4, <1>5 DEF Shows, Box
  <2> QED BY <2>1, <2>2 DEF Shows
<1>6. ShiftsLead(N, n) => ShiftsLead(N2, n)
  BY <1>3 DEF ShiftsLead, ReadsAlike
<1> QED BY <1>3, <1>5, <1>6

(***************************************************************************)
(* What an evaluation gives, and what it leaves to others.                 *)
(***************************************************************************)

\* The index at which generateBufferOffsets reads a buffer of shape d
Clip(id, d) == [k \in Dims |-> IF id[k] < d[k] THEN id[k] ELSE 0]
\* The index that generateShiftNodeOffsets makes of it
Rotate(id, shifts, d) == [k \in Dims |-> circular_mod(id[k] + shifts[k], d[k])]

\* Both are indices; a clipped one is in the box.
LEMMA Clipped ==
    ASSUME NEW d \in DimVec, NEW id \in [Dims -> Nat]
    PROVE  /\ Clip(id, d) \in Box(d) /\ Clip(id, d) \in [Dims -> Nat]
           /\ \A k \in Dims : d[k] = 1 => Clip(id, d)[k] = 0
           /\ id \in Box(d) => Clip(id, d) = id
           /\ \A shifts \in Strides : Rotate(id, shifts, d) \in [Dims -> Nat]
<1>1. \A k \in Dims : d[k] \in Nat \ {0} /\ id[k] \in Nat
  BY DEF DimVec
<1>2. ASSUME NEW k \in Dims PROVE Clip(id, d)[k] \in Nat /\ Clip(id, d)[k] < d[k] /\ (d[k] = 1 => Clip(id, d)[k] = 0)
  <2>1. Clip(id, d)[k] = IF id[k] < d[k] THEN id[k] ELSE 0
    BY DEF Clip
  <2> QED BY <1>1, <2>1
<1>3. Clip(id, d) = [k \in Dims |-> Clip(id, d)[k]]
  BY DEF Clip
<1>4. Clip(id, d) \in [Dims -> Nat] /\ Clip(id, d) \in Box(d)
  BY <1>2, <1>3 DEF Box
<1>5. id \in Box(d) => Clip(id, d) = id
  BY <1>1 DEF Box, Clip
<1>6. ASSUME NEW shifts \in Strides, NEW k \in Dims PROVE circular_mod(id[k] + shifts[k], d[k]) \in Nat
  <2>1. shifts[k] \in Nat
    BY DEF Strides
  <2> QED BY <1>1, <2>1 DEF circular_mod
<1> QED BY <1>2, <1>4, <1>5, <1>6 DEF Rotate

\* The kernel's reads by these indices
LEMMA ReadsByIndex ==
    ASSUME NEW D, NEW r, NEW id, NEW shifts
    PROVE  /\ ReadBuffer(D, r, id) = D[r.buf][1 + r.off + Dot(Clip(id, r.dims), r.strides)]
           /\ ReadShift(D, r, shifts, id) = ReadBuffer(D, r, Rotate(id, shifts, r.dims))
BY DEF ReadBuffer, ReadShift, Clip, Rotate

\* The parts of a permuted buffer
LEMMA PermutedParts ==
    ASSUME NEW r \in BufferNodes, NEW p
    PROVE  LET q == PermuteBuffer(p, r) IN
           /\ q.dims = Permute(p, r.dims) /\ q.strides = Permute(p, r.strides)
           /\ q.buf = r.buf /\ q.off = r.off
BY DEF PermuteBuffer, BufferNodes

\* A buffer whose dimensions were renamed is read at the renamed index.
LEMMA ReadPermuted ==
    ASSUME NEW D, NEW r \in BufferNodes, NEW p, Renaming(p), NEW id \in [Dims -> Nat]
    PROVE  /\ ReadBuffer(D, PermuteBuffer(p, r), Permute(p, id)) = ReadBuffer(D, r, id)
           /\ \A shifts \in Strides :
                ReadShift(D, PermuteBuffer(p, r), Permute(p, shifts), Permute(p, id)) = ReadShift(D, r, shifts, id)
<1> DEFINE q == PermuteBuffer(p, r)
<1>1. /\ q.dims = Permute(p, r.dims) /\ q.strides = Permute(p, r.strides)
      /\ q.buf = r.buf /\ q.off = r.off
  BY PermutedParts
<1> HIDE DEF q
<1>2. r.dims \in DimVec /\ r.strides \in [Dims -> Nat]
  BY DEF BufferNodes, Strides
<1>3. \A k \in Dims : p[k] \in Dims
  BY DEF Renaming
<1>4. ASSUME NEW x \in [Dims -> Nat]
      PROVE  ReadBuffer(D, q, Permute(p, x)) = ReadBuffer(D, r, x)
  <2> DEFINE c == Clip(x, r.dims)
  <2>1. c \in [Dims -> Nat]
    BY <1>2, Clipped
  <2>2. Clip(Permute(p, x), q.dims) = Permute(p, c)
    BY <1>1, <1>3 DEF Clip, Permute
  <2> HIDE DEF c
  <2>3. Dot(Permute(p, c), Permute(p, r.strides)) = Dot(c, r.strides)
    BY <1>2, <2>1, DotRenamed
  <2>4. ReadBuffer(D, q, Permute(p, x)) = D[q.buf][1 + q.off + Dot(Permute(p, c), q.strides)]
    <3> DEFINE y == Permute(p, x)
    <3> HIDE DEF y
    <3>1. ReadBuffer(D, q, y) = D[q.buf][1 + q.off + Dot(Clip(y, q.dims), q.strides)]
      BY ONLY ReadsByIndex
    <3> QED BY ONLY <2>2, <3>1 DEF y
  <2>5. ReadBuffer(D, r, x) = D[r.buf][1 + r.off + Dot(c, r.strides)]
    BY ReadsByIndex DEF c
  <2> QED BY <1>1, <2>3, <2>4, <2>5
<1>5. ASSUME NEW shifts \in Strides
      PROVE  ReadShift(D, q, Permute(p, shifts), Permute(p, id)) = ReadShift(D, r, shifts, id)
  <2> DEFINE x == Rotate(id, shifts, r.dims)
  <2>1. x \in [Dims -> Nat]
    BY <1>2, Clipped
  <2>2. Rotate(Permute(p, id), Permute(p, shifts), q.dims) = Permute(p, x)
    BY <1>1, <1>3 DEF Rotate, Permute
  <2> HIDE DEF x
  <2>3. ReadShift(D, q, Permute(p, shifts), Permute(p, id)) = ReadBuffer(D, q, Permute(p, x))
    BY <2>2, ReadsByIndex
  <2>4. ReadShift(D, r, shifts, id) = ReadBuffer(D, r, x)
    BY ReadsByIndex DEF x
  <2> QED BY <1>4, <2>1, <2>3, <2>4
<1> QED BY <1>4, <1>5 DEF q

\* removeEmptyDimensions leaves a buffer that a shift reads as it was, if its
\* dimensions of length 1 come last.
LEMMA FixedShift ==
    ASSUME NEW D, NEW r \in BufferNodes, NEW d \in DimVec, Narrow(r.dims, d), Leading(r.dims)
    PROVE  LET q == PermuteBuffer(compressArray(d), r)
           IN  /\ q.dims = r.dims
               /\ \A shifts \in Strides : \A id \in [Dims -> Nat] :
                     ReadShift(D, q, shifts, id) = ReadShift(D, r, shifts, id)
<1> DEFINE p == compressArray(d)
           q == PermuteBuffer(p, r)
<1>1. r.dims \in DimVec /\ r.strides \in Strides
  BY DEF BufferNodes
<1>2. Renaming(p)
  BY CompressRenames
<1>3. \A k \in Dims : r.dims[k] # 1 => p[k] = k
  BY <1>1, CompressFixes
<1>4. Permute(p, r.dims) = r.dims
  BY <1>1, CompressFixes
<1> HIDE DEF p
<1>5. /\ q.dims = r.dims /\ q.strides = Permute(p, r.strides)
      /\ q.buf = r.buf /\ q.off = r.off
  BY <1>4, PermutedParts
<1> HIDE DEF q
<1>6. q.strides \in Strides /\ \A k \in Dims : q.strides[k] = r.strides[p[k]]
  BY <1>1, <1>2, <1>5, PermuteType DEF Permute
<1>7. ASSUME NEW x \in [Dims -> Nat] PROVE ReadBuffer(D, q, x) = ReadBuffer(D, r, x)
  <2> DEFINE c == Clip(x, r.dims)
  <2>1. c \in [Dims -> Nat] /\ \A k \in Dims : r.dims[k] = 1 => c[k] = 0
    BY <1>1, Clipped
  <2>2. ReadBuffer(D, q, x) = D[q.buf][1 + q.off + Dot(c, q.strides)]
    BY <1>5, ReadsByIndex
  <2>3. ReadBuffer(D, r, x) = D[r.buf][1 + r.off + Dot(c, r.strides)]
    BY ReadsByIndex
  <2> HIDE DEF c
  <2>4. ASSUME NEW k \in Dims PROVE c[k] * q.strides[k] = c[k] * r.strides[k]
    <3>1. CASE r.dims[k] # 1
      BY <1>3, <1>6, <3>1
    <3>2. CASE r.dims[k] = 1
      <4>1. c[k] = 0 /\ q.strides[k] \in Nat /\ r.strides[k] \in Nat
        BY <1>1, <1>6, <2>1, <3>2 DEF Strides
      <4>2. \A y \in Nat : 0 * y = 0
        OBVIOUS
      <4> QED BY <4>1, <4>2
    <3> QED BY <3>1, <3>2
  <2>5. c \in [Dims -> Int] /\ q.strides \in [Dims -> Int] /\ r.strides \in [Dims -> Int]
    BY <1>1, <1>6, <2>1 DEF Strides
  <2>6. Dot(c, q.strides) = Dot(c, r.strides)
    BY <2>4, <2>5, DotSame
  <2> QED BY <1>5, <2>2, <2>3, <2>6
<1>8. ASSUME NEW shifts \in Strides, NEW id \in [Dims -> Nat]
      PROVE  ReadShift(D, q, shifts, id) = ReadShift(D, r, shifts, id)
  <2>1. Rotate(id, shifts, r.dims) \in [Dims -> Nat]
    BY <1>1, Clipped
  <2> QED BY <1>5, <1>7, <2>1, ReadsByIndex
<1> QED BY <1>5, <1>8 DEF p, q

\* What an evaluation makes of the nodes: the heap, the order of the dimensions,
\* and the kernel that runs
EvalOf(N, D, roots, dims, nodes, lin, p, after) ==
    /\ nodes = UNION {Tree(N, r) : r \in roots}
    /\ lin = (\A n \in nodes : NodeIsLinear(N[n], dims))
    /\ p = (IF ~ lin /\ EmptyColumns(dims) THEN compressArray(dims) ELSE Identity)
    /\ after = evalNodes(N, D, roots, dims).nodes
\* What the evaluation gives, by the elements of the output
EvalGives(N, D, roots, dims, nodes, lin, p, after) ==
    /\ nodes \in SUBSET NodeIds /\ Closed(N, nodes) /\ \A n \in nodes : N[n] # NoNode
    /\ nodes \cap ShiftInputs(N) = {} /\ roots \subseteq nodes
    /\ Renaming(p) /\ HeapOK(after) /\ HeapFits(after, D)
    /\ \A n \in NodeIds : n \notin ShiftInputs(N) => after[n] = N[n]
    /\ \A n \in NodeIds : after[n] = IF \E m \in nodes : N[m].kind = "shift" /\ N[m].in = n
                                     THEN PermuteBuffer(p, N[n]) ELSE N[n]
    /\ \A r \in roots : Listing(evalNodes(N, D, roots, dims).out[r], elements(dims))
    /\ \A r \in roots : \A j \in 1 .. elements(dims) : evalNodes(N, D, roots, dims).out[r][j] =
         KernelValue(after, D, lin, p, r, j - 1, Permute(p, Unravel(j - 1, dims)))

\* It keeps the heap, and each element of an output is that of the kernel at the
\* permuted index.
LEMMA EvalParts ==
    ASSUME NEW N, NEW D, NEW roots, NEW dims, EvalGiven(N, D, roots, dims),
           NEW nodes, NEW lin, NEW p, NEW after, EvalOf(N, D, roots, dims, nodes, lin, p, after)
    PROVE  EvalGives(N, D, roots, dims, nodes, lin, p, after)
<1>0. /\ HeapOK(N) /\ D \in Buffers /\ HeapFits(N, D) /\ roots \in SUBSET NodeIds
      /\ \A n \in roots : N[n] # NoNode /\ n \notin ShiftInputs(N)
      /\ dims \in DimVec
  BY DEF EvalGiven
<1>1. /\ nodes \in SUBSET NodeIds /\ Closed(N, nodes) /\ \A n \in nodes : N[n] # NoNode
      /\ nodes \cap ShiftInputs(N) = {} /\ roots \subseteq nodes
  <2>1. \A r \in roots : /\ r \in Tree(N, r) /\ Tree(N, r) \subseteq NodeIds
                         /\ \A m \in Tree(N, r) : N[m] # NoNode
                         /\ Closed(N, Tree(N, r))
    BY <1>0, TreeClosed
  <2>2. \A r \in roots : Tree(N, r) \subseteq NodeIds \ ShiftInputs(N)
    BY <1>0, NotShifted
  <2>3. nodes = UNION {Tree(N, r) : r \in roots}
    BY DEF EvalOf
  <2>4. Closed(N, nodes)
    BY <2>1, <2>3 DEF Closed
  <2> QED BY <2>1, <2>2, <2>3, <2>4
<1>2. Renaming(p)
  BY CompressRenames DEF EvalOf
<1>3. /\ after = IF p = Identity THEN N ELSE removeEmptyDimensions(N, p, nodes)
      /\ evalNodes(N, D, roots, dims).out = [r \in roots |-> [j \in 1 .. elements(dims) |->
                KernelValue(after, D, lin, p, r, j - 1, Permute(p, Unravel(j - 1, dims)))]]
  BY DEF EvalOf, evalNodes, Fill
<1>4. HeapFits(after, D) /\ \A n \in NodeIds : n \notin ShiftInputs(N) => after[n] = N[n]
  BY <1>0, <1>1, <1>2, <1>3, PermutedFits
<1>5. HeapOK(after)
  BY <1>0, EvalKeepsHeap DEF EvalOf
<1>6. ASSUME NEW n \in NodeIds
      PROVE  after[n] = IF \E m \in nodes : N[m].kind = "shift" /\ N[m].in = n
                        THEN PermuteBuffer(p, N[n]) ELSE N[n]
  <2>1. CASE p = Identity
    <3>1. ASSUME NEW m \in nodes, N[m].kind = "shift" /\ N[m].in = n PROVE PermuteBuffer(p, N[n]) = N[n]
      <4>1. N[n].kind = "buffer"
        BY <1>0, <1>1, <3>1 DEF HeapOK
      <4>2. N[n] \in BufferNodes
        BY <1>0, <4>1 DEF HeapFits, NodeFits
      <4> QED BY <2>1, <4>2, PermuteIdentity
    <3> QED BY <1>3, <2>1, <3>1
  <2>2. CASE p # Identity
    BY <1>3, <2>2 DEF removeEmptyDimensions
  <2> QED BY <2>1, <2>2
<1>7. ASSUME NEW r \in roots
      PROVE  /\ Listing(evalNodes(N, D, roots, dims).out[r], elements(dims))
             /\ \A j \in 1 .. elements(dims) : evalNodes(N, D, roots, dims).out[r][j] =
                   KernelValue(after, D, lin, p, r, j - 1, Permute(p, Unravel(j - 1, dims)))
  BY <1>3 DEF Listing
<1> QED BY <1>1, <1>2, <1>4, <1>5, <1>6, <1>7 DEF EvalGives

\* What the kernel reads of each tree fits the shape of the output.
TreesRead(N, roots, dims) == \A r \in roots : TreeReads(N, r, dims)

\* Every kernel computes the values of the nodes: the linear one, the strided
\* one, and the one without the empty dimensions.
LEMMA EvalValues ==
    ASSUME NEW N, HeapOK(N), NEW D \in Buffers, HeapFits(N, D), NEW roots \in SUBSET NodeIds,
           \A n \in roots : N[n] # NoNode /\ n \notin ShiftInputs(N), NEW dims \in DimVec,
           TreesRead(N, roots, dims)
    PROVE  \A r \in roots : evalNodes(N, D, roots, dims).out[r] =
                               [j \in 1 .. elements(dims) |-> ValueAt(N, D, r, Unravel(j - 1, dims))]
<1> DEFINE nodes == UNION {Tree(N, r) : r \in roots}
           lin == \A n \in nodes : NodeIsLinear(N[n], dims)
           p == IF ~ lin /\ EmptyColumns(dims) THEN compressArray(dims) ELSE Identity
           after == evalNodes(N, D, roots, dims).nodes
           strided == FALSE
<1>1. EvalOf(N, D, roots, dims, nodes, lin, p, after)
  BY DEF EvalOf
<1>2. /\ \A id, v, m : StepAt(N, D, id, v, m) = KernelStep(N, D, strided, Identity, 0, id, v, m)
      /\ \A id, m : ValueAt(N, D, m, id) = KernelValue(N, D, strided, Identity, m, 0, id)
  BY DEF StepAt, ValueAt
<1> HIDE DEF p, lin, after, strided
<1>3. \A n \in nodes : /\ lin => NodeIsLinear(N[n], dims)
                       /\ N[n].kind = "buffer" /\ N[n].linear => Contiguous(N[n])
  BY DEF lin, TreesRead, TreeReads
<1> HIDE DEF nodes
<1>4. /\ nodes \in SUBSET NodeIds /\ Closed(N, nodes) /\ \A n \in nodes : N[n] # NoNode
      /\ nodes \cap ShiftInputs(N) = {} /\ roots \subseteq nodes
      /\ Renaming(p) /\ HeapOK(after) /\ HeapFits(after, D)
      /\ \A n \in NodeIds : n \notin ShiftInputs(N) => after[n] = N[n]
      /\ \A n \in NodeIds : after[n] = IF \E m \in nodes : N[m].kind = "shift" /\ N[m].in = n
                                       THEN PermuteBuffer(p, N[n]) ELSE N[n]
      /\ \A r \in roots : Listing(evalNodes(N, D, roots, dims).out[r], elements(dims))
      /\ \A r \in roots : \A j \in 1 .. elements(dims) : evalNodes(N, D, roots, dims).out[r][j] =
                KernelValue(after, D, lin, p, r, j - 1, Permute(p, Unravel(j - 1, dims)))
  <2>1. EvalGiven(N, D, roots, dims)
    BY DEF EvalGiven
  <2>2. EvalGives(N, D, roots, dims, nodes, lin, p, after)
    BY <1>1, <2>1, EvalParts
  <2> QED BY <2>2 DEF EvalGives
<1>5. elements(dims) \in Nat
  BY ShapeFacts
<1>6. ASSUME NEW i \in 1 .. elements(dims), NEW r \in roots
      PROVE  KernelValue(after, D, lin, p, r, i - 1, Permute(p, Unravel(i - 1, dims)))
               = ValueAt(N, D, r, Unravel(i - 1, dims))
  <2> DEFINE j == i - 1
             id == Unravel(j, dims)
             pid == Permute(p, id)
  <2>1. j \in 0 .. elements(dims) - 1
    BY <1>5
  <2> HIDE DEF j
  <2>2. id \in Box(dims) /\ Dot(id, calcStrides(dims)) = j
    BY <2>1, Positions
  <2> HIDE DEF id
  <2>3. id \in [Dims -> Nat]
    BY <2>2 DEF Box
  <2> HIDE DEF pid
  <2>4. ASSUME NEW n \in nodes, N[n].kind # "nary", NEW v, NEW w
        PROVE  KernelStep(N, D, strided, Identity, 0, id, v, n) = KernelStep(after, D, lin, p, j, pid, w, n)
    <3>1. n \in NodeIds /\ N[n] # NoNode /\ n \notin ShiftInputs(N) /\ after[n] = N[n] /\ NodeFits(N, D, n)
      BY <1>4 DEF HeapFits
    <3>2. N[n].kind \in {"scalar", "buffer", "shift"}
      BY <2>4, <3>1, NodeKinds DEF HeapOK
    <3>3. CASE N[n].kind = "scalar"
      BY <3>1, <3>3 DEF KernelStep
    <3>4. CASE N[n].kind = "buffer"
      <4> DEFINE q == N[n]
      <4>1. q \in BufferNodes /\ q.strides \in Strides /\ q.dims \in DimVec
        BY <3>1, <3>4 DEF NodeFits, BufferNodes
      <4>2. KernelStep(N, D, strided, Identity, 0, id, v, n) = ReadBuffer(D, q, id)
        <5>1. StepAt(N, D, id, v, n) = ReadBuffer(D, q, id)
          BY <3>1, <3>4, LeafStep
        <5> QED BY <1>2, <5>1
      <4>3. CASE lin
        <5>1. q.linear /\ q.dims = dims /\ Contiguous(q)
          BY <1>3, <3>4, <4>3 DEF NodeIsLinear
        <5>2. ReadBuffer(D, q, id) = D[q.buf][1 + q.off + Dot(id, q.strides)]
          <6>1. Clip(id, q.dims) = id
            BY <2>2, <2>3, <4>1, <5>1, Clipped
          <6>2. ReadBuffer(D, q, id) = D[q.buf][1 + q.off + Dot(Clip(id, q.dims), q.strides)]
            <7> HIDE DEF q
            <7> QED BY ONLY ReadsByIndex
          <6> QED BY ONLY <6>1, <6>2
        <5>3. Dot(id, q.strides) = j
          BY <2>2, <4>1, <5>1, ContiguousDot
        <5>4. KernelStep(after, D, lin, p, j, pid, w, n) = D[q.buf][1 + q.off + j]
          BY <3>1, <3>4, <4>3 DEF KernelStep
        <5> QED BY <4>2, <5>2, <5>3, <5>4
      <4>4. CASE ~ lin
        <5>1. KernelStep(after, D, lin, p, j, pid, w, n) = ReadBuffer(D, PermuteBuffer(p, q), pid)
          BY <3>1, <3>4, <4>4 DEF KernelStep
        <5>2. ReadBuffer(D, PermuteBuffer(p, q), pid) = ReadBuffer(D, q, id)
          <6>1. Renaming(p)
            BY <1>4
          <6> QED BY <2>3, <4>1, <6>1, ReadPermuted DEF pid
        <5> QED BY <4>2, <5>1, <5>2
      <4> QED BY <4>3, <4>4
    <3>5. CASE N[n].kind = "shift"
      <4> DEFINE q == N[N[n].in]
                 s == N[n].shifts
      <4>1. N[n].in \in NodeIds /\ q.kind = "buffer" /\ s \in Strides
        BY <3>1, <3>5 DEF HeapOK, NodeFits, ShiftNodes
      <4>2. q \in BufferNodes /\ after[N[n].in] = PermuteBuffer(p, q)
        BY <1>4, <3>5, <4>1 DEF HeapFits, NodeFits
      <4>3. KernelStep(N, D, strided, Identity, 0, id, v, n) = ReadShift(D, q, s, id)
        <5>1. StepAt(N, D, id, v, n) = ReadShift(D, q, s, id)
          BY <3>1, <3>5, LeafStep
        <5> QED BY <1>2, <5>1
      <4>4. KernelStep(after, D, lin, p, j, pid, w, n) = ReadShift(D, PermuteBuffer(p, q), Permute(p, s), pid)
        BY <3>1, <3>5, <4>2 DEF KernelStep
      <4>5. ReadShift(D, PermuteBuffer(p, q), Permute(p, s), pid) = ReadShift(D, q, s, id)
        BY <1>4, <2>3, <4>1, <4>2, ReadPermuted DEF pid
      <4> QED BY <4>3, <4>4, <4>5
    <3> QED BY <3>2, <3>3, <3>4, <3>5
  <2>5. \A n \in nodes : after[n] = N[n]
    BY <1>4
  <2>6. \A n \in nodes : KernelValue(N, D, strided, Identity, n, 0, id) = KernelValue(after, D, lin, p, n, j, pid)
    BY <1>4, <2>4, <2>5, SameTreeAgree
  <2>7. ValueAt(N, D, r, id) = KernelValue(after, D, lin, p, r, j, pid)
    BY <1>2, <1>4, <2>6
  <2> QED BY <2>7 DEF j, id, pid
<1>7. ASSUME NEW r \in roots
      PROVE  evalNodes(N, D, roots, dims).out[r] =
               [j \in 1 .. elements(dims) |-> ValueAt(N, D, r, Unravel(j - 1, dims))]
  BY <1>4, <1>6 DEF Listing
<1> QED BY <1>7

\* The trees of other arrays read the same after an evaluation, as
\* removeEmptyDimensions leaves what their shifts read.
LEMMA EvalLeaves ==
    ASSUME NEW N, HeapOK(N), NEW D \in Buffers, HeapFits(N, D), NEW roots \in SUBSET NodeIds,
           \A n \in roots : N[n] # NoNode /\ n \notin ShiftInputs(N), NEW dims \in DimVec,
           TreesRead(N, roots, dims)
    PROVE  LET after == evalNodes(N, D, roots, dims).nodes
           IN  /\ HeapOK(after) /\ HeapFits(after, D) /\ ShiftInputs(after) = ShiftInputs(N)
               /\ \A n \in NodeIds : N[n] # NoNode /\ n \notin ShiftInputs(N) /\ ShiftsLead(N, n) =>
                     ReadsAlike(N, D, after, D, n)
<1> DEFINE nodes == UNION {Tree(N, r) : r \in roots}
           lin == \A n \in nodes : NodeIsLinear(N[n], dims)
           p == IF ~ lin /\ EmptyColumns(dims) THEN compressArray(dims) ELSE Identity
           after == evalNodes(N, D, roots, dims).nodes
<1>1. EvalOf(N, D, roots, dims, nodes, lin, p, after)
  BY DEF EvalOf
<1>2. p \in {compressArray(dims), Identity}
  OBVIOUS
<1> HIDE DEF p, lin, after
<1>3. \A n \in nodes : N[n].kind = "shift" => Narrow(N[N[n].in].dims, dims)
  BY DEF TreesRead, TreeReads
<1> HIDE DEF nodes
<1>4. /\ HeapOK(after) /\ HeapFits(after, D) /\ nodes \in SUBSET NodeIds
      /\ \A n \in NodeIds : n \notin ShiftInputs(N) => after[n] = N[n]
      /\ \A n \in NodeIds : after[n] = IF \E m \in nodes : N[m].kind = "shift" /\ N[m].in = n
                                       THEN PermuteBuffer(p, N[n]) ELSE N[n]
  <2>1. EvalGiven(N, D, roots, dims)
    BY DEF EvalGiven
  <2>2. EvalGives(N, D, roots, dims, nodes, lin, p, after)
    BY <1>1, <2>1, EvalParts
  <2> QED BY <2>2 DEF EvalGives
<1>5. ShiftInputs(after) = ShiftInputs(N)
  BY EvalFits DEF after
<1>6. ASSUME NEW n \in NodeIds, N[n] # NoNode, n \notin ShiftInputs(N), ShiftsLead(N, n), NEW m \in Tree(N, n)
      PROVE  /\ after[m] = N[m]
             /\ N[m].kind = "shift" =>
                /\ after[N[m].in].dims = N[N[m].in].dims
                /\ \A id \in [Dims -> Nat] : ReadShift(D, after[N[m].in], N[m].shifts, id)
                                               = ReadShift(D, N[N[m].in], N[m].shifts, id)
  <2>1. m \in NodeIds /\ m \notin ShiftInputs(N)
    <3>1. Tree(N, n) \subseteq NodeIds \ ShiftInputs(N)
      BY <1>6, NotShifted
    <3> QED BY <3>1
  <2>2. after[m] = N[m]
    BY <1>4, <2>1
  <2>3. ASSUME N[m].kind = "shift"
        PROVE  /\ after[N[m].in].dims = N[N[m].in].dims
               /\ \A id \in [Dims -> Nat] : ReadShift(D, after[N[m].in], N[m].shifts, id)
                                              = ReadShift(D, N[N[m].in], N[m].shifts, id)
    <3> DEFINE q == N[N[m].in]
    <3>1. N[m].in \in NodeIds /\ q.kind = "buffer" /\ N[m].shifts \in Strides
      BY <2>1, <2>3 DEF HeapOK, HeapFits, NodeFits, ShiftNodes
    <3>2. q \in BufferNodes
      BY <3>1 DEF HeapFits, NodeFits
    <3>3. Leading(q.dims)
      BY <1>6, <2>3 DEF ShiftsLead
    <3>4. CASE after[N[m].in] = q
      BY <3>4
    <3>5. CASE after[N[m].in] # q
      <4>1. PICK x \in nodes : N[x].kind = "shift" /\ N[x].in = N[m].in
        BY <1>4, <3>1, <3>5
      <4>2. after[N[m].in] = PermuteBuffer(p, q) /\ Narrow(q.dims, dims)
        BY <1>3, <1>4, <3>1, <4>1
      <4>3. p = compressArray(dims)
        <5>1. p # Identity
          BY <3>2, <3>5, <4>2, PermuteIdentity
        <5> QED BY <1>2, <5>1
      <4> QED BY <3>1, <3>2, <3>3, <4>2, <4>3, FixedShift
    <3> QED BY <3>4, <3>5
  <2> QED BY <2>2, <2>3
<1>7. ASSUME NEW n \in NodeIds, N[n] # NoNode, n \notin ShiftInputs(N), ShiftsLead(N, n)
      PROVE  ReadsAlike(N, D, after, D, n)
  BY <1>6, <1>7 DEF ReadsAlike
<1> QED BY <1>4, <1>5, <1>7 DEF after

\* What Settle keeps reads as before: the tree of every array and of the call,
\* and the buffers of arrays.
LEMMA SettleAlike ==
    ASSUME NEW A, NEW N, HeapOK(N), NEW D, Fits(A, N, D), NEW root,
           \A h \in Handles : Ref(N, A[h].node), Ref(N, root), root \notin ShiftInputs(N),
           Settle(A, N, D, root)
    PROVE  /\ arr' = A /\ HeapOK(node') /\ HeapFits(node', data')
           /\ \A h \in Handles : A[h] # NoArray /\ isReady(A[h]) => data'[A[h].buf] = D[A[h].buf]
           /\ \A h \in Handles : A[h].node # None => ReadsAlike(N, D, node', data', A[h].node)
           /\ root # None => ReadsAlike(N, D, node', data', root)
<1> DEFINE roots == ({A[h].node : h \in Handles} \cup {root}) \ {None}
           nodes == UNION {Tree(N, n) : n \in roots}
           kept == nodes \cup {N[n].in : n \in {m \in nodes : N[m].kind = "shift"}}
           used == {A[h].buf : h \in Handles} \cup {N[n].buf : n \in {m \in kept : N[m].kind = "buffer"}}
<1>1. /\ arr' = A /\ node' = [n \in NodeIds |-> IF n \in kept THEN N[n] ELSE NoNode]
      /\ data' = [b \in BufIds |-> IF b \in used THEN D[b] ELSE <<>>]
  BY DEF Settle, Kept
<1>2. HeapOK(node') /\ HeapFits(node', data')
  BY SettleKeeps, SettleFits DEF Fits
<1>3. \A n \in roots : n \in NodeIds /\ N[n] # NoNode
  BY DEF Ref
<1>4. \A n \in roots : \A m \in Tree(N, n) : m \in NodeIds /\ m \in nodes /\ m \in kept
  <2>1. \A n \in roots : Tree(N, n) \subseteq NodeIds
    <3> HIDE DEF roots
    <3> QED BY <1>3, TreeClosed
  <2> QED BY <2>1
<1>5. (\A h \in Handles : A[h].buf \in used) /\ \A n \in kept : N[n].kind = "buffer" => N[n].buf \in used
  OBVIOUS
<1>6. \A m \in nodes : N[m].kind = "shift" => N[m].in \in kept
  OBVIOUS
<1>7. \A h \in Handles : A[h].node # None => A[h].node \in roots
  OBVIOUS
<1>8. root # None => root \in roots
  OBVIOUS
<1> HIDE DEF roots, nodes, kept, used
<1>9. /\ \A n \in NodeIds : n \in kept => node'[n] = N[n]
      /\ \A b \in BufIds : b \in used => data'[b] = D[b]
  BY <1>1
<1>10. ASSUME NEW h \in Handles, A[h] # NoArray, isReady(A[h]) PROVE data'[A[h].buf] = D[A[h].buf]
  <2>1. A[h].buf \in BufIds
    BY <1>10 DEF Fits, ArrayFits
  <2> QED BY <1>5, <1>9, <2>1
<1>11. \A n \in NodeIds : N[n].kind = "buffer" /\ n \in kept => data'[N[n].buf] = D[N[n].buf]
  <2>1. \A n \in NodeIds : N[n].kind = "buffer" => N[n].buf \in BufIds
    BY DEF Fits, HeapFits, NodeFits, BufferNodes
  <2> QED BY <1>5, <1>9, <2>1
<1>12. ASSUME NEW n \in roots PROVE ReadsAlike(N, D, node', data', n)
  <2> SUFFICES ASSUME NEW m \in Tree(N, n)
               PROVE  /\ node'[m] = N[m]
                      /\ N[m].kind = "buffer" => data'[N[m].buf] = D[N[m].buf]
                      /\ N[m].kind = "shift" =>
                           /\ node'[N[m].in].dims = N[N[m].in].dims
                           /\ \A id \in [Dims -> Nat] : ReadShift(data', node'[N[m].in], N[m].shifts, id)
                                                          = ReadShift(D, N[N[m].in], N[m].shifts, id)
    BY DEF ReadsAlike
  <2>1. m \in NodeIds /\ m \in nodes /\ m \in kept
    BY <1>4
  <2>2. ASSUME N[m].kind = "shift"
        PROVE  /\ node'[N[m].in].dims = N[N[m].in].dims
               /\ \A id \in [Dims -> Nat] : ReadShift(data', node'[N[m].in], N[m].shifts, id)
                                              = ReadShift(D, N[N[m].in], N[m].shifts, id)
    <3>1. N[m].in \in NodeIds /\ N[N[m].in].kind = "buffer"
      BY <2>1, <2>2 DEF HeapOK
    <3>2. node'[N[m].in] = N[N[m].in] /\ data'[N[N[m].in].buf] = D[N[N[m].in].buf]
      BY <1>6, <1>9, <1>11, <2>1, <2>2, <3>1
    <3> QED BY <3>2 DEF ReadShift, ReadBuffer
  <2> QED BY <1>9, <1>11, <2>1, <2>2
<1> QED BY <1>1, <1>2, <1>7, <1>8, <1>10, <1>12

\* What arrays and the call show, they show after Settle.
LEMMA SettleShows ==
    ASSUME NEW A, NEW N, HeapOK(N), NEW D, Fits(A, N, D), NEW root,
           \A h \in Handles : Ref(N, A[h].node), Ref(N, root), root \notin ShiftInputs(N),
           Settle(A, N, D, root)
    PROVE  /\ arr' = A
           /\ \A h \in Handles : A[h] # NoArray =>
                /\ \A v : ArrayShows(A[h], N, D, v) => ArrayShows(A[h], node', data', v)
                /\ ~ isReady(A[h]) /\ ShiftsLead(N, A[h].node) => ShiftsLead(node', A[h].node)
           /\ root # None => /\ \A d, v : Shows(N, D, root, d, v) => Shows(node', data', root, d, v)
                             /\ ShiftsLead(N, root) => ShiftsLead(node', root)
<1>1. /\ arr' = A /\ HeapOK(node') /\ HeapFits(node', data')
      /\ \A h \in Handles : A[h] # NoArray /\ isReady(A[h]) => data'[A[h].buf] = D[A[h].buf]
      /\ \A h \in Handles : A[h].node # None => ReadsAlike(N, D, node', data', A[h].node)
      /\ root # None => ReadsAlike(N, D, node', data', root)
  BY SettleAlike
<1>2. HeapFits(N, D)
  BY DEF Fits
<1>3. ASSUME NEW n, n # None, Ref(N, n), ReadsAlike(N, D, node', data', n)
      PROVE  /\ \A d, v : Shows(N, D, n, d, v) => Shows(node', data', n, d, v)
             /\ ShiftsLead(N, n) => ShiftsLead(node', n)
  BY <1>1, <1>2, <1>3, ShowsKept DEF Ref
<1>4. ASSUME NEW h \in Handles, A[h] # NoArray
      PROVE  /\ \A v : ArrayShows(A[h], N, D, v) => ArrayShows(A[h], node', data', v)
             /\ ~ isReady(A[h]) /\ ShiftsLead(N, A[h].node) => ShiftsLead(node', A[h].node)
  <2>1. CASE isReady(A[h])
    <3>1. data'[A[h].buf] = D[A[h].buf]
      BY <1>1, <1>4, <2>1
    <3> QED BY <2>1, <3>1 DEF ArrayShows, Holds
  <2>2. CASE ~ isReady(A[h])
    <3>1. A[h].node # None
      BY <2>2 DEF isReady
    <3>2. /\ \A d, v : Shows(N, D, A[h].node, d, v) => Shows(node', data', A[h].node, d, v)
          /\ ShiftsLead(N, A[h].node) => ShiftsLead(node', A[h].node)
      BY <1>1, <1>3, <3>1
    <3> QED BY <2>2, <3>2 DEF ArrayShows
  <2> QED BY <2>1, <2>2
<1> QED BY <1>1, <1>3, <1>4

(***************************************************************************)
(* Arrays that show their values.                                          *)
(***************************************************************************)

\* Lists of one length with the same elements
LEMMA SameListing ==
    ASSUME NEW n, NEW s, Listing(s, n), NEW t, Listing(t, n), \A j \in 1 .. n : s[j] = t[j]
    PROVE  s = t
BY DEF Listing

\* Element j of an array is the one at the j-th index of its box.
LEMMA ElementAt ==
    ASSUME NEW d \in DimVec, NEW j \in 1 .. elements(d)
    PROVE  /\ Unravel(j - 1, d) \in Box(d)
           /\ 1 + Dot(Unravel(j - 1, d), calcStrides(d)) = j
<1>1. elements(d) \in Nat
  BY ShapeFacts
<1> DEFINE i == j - 1
<1>2. i \in 0 .. elements(d) - 1 /\ 1 + i = j
  BY <1>1
<1> HIDE DEF i
<1>3. Unravel(i, d) \in Box(d) /\ Dot(Unravel(i, d), calcStrides(d)) = i
  BY <1>2, Positions
<1> QED BY <1>2, <1>3 DEF i

\* Read copies what the buffer holds.
LEMMA ReadHeld ==
    ASSUME NEW D, NEW a, a.dims \in DimVec, NEW v, Listing(v, elements(a.dims)), Holds(a, D, v)
    PROVE  Read(D, a) = v
<1> DEFINE n == elements(a.dims)
           r == Read(D, a)
<1>1. r = [j \in 1 .. n |-> D[a.buf][1 + a.off + Dot(Unravel(j - 1, a.dims), a.strides)]]
  BY DEF Read, Fill
<1> HIDE DEF r
<1>2. ASSUME NEW j \in 1 .. n PROVE r[j] = v[j]
  <2>1. Unravel(j - 1, a.dims) \in Box(a.dims) /\ 1 + Dot(Unravel(j - 1, a.dims), calcStrides(a.dims)) = j
    BY ElementAt
  <2> QED BY <1>1, <2>1 DEF Holds
<1>3. Listing(r, n)
  BY <1>1 DEF Listing
<1> HIDE DEF n
<1>4. r = v
  BY <1>2, <1>3, SameListing DEF n
<1> QED BY <1>4 DEF r

\* The kernel computes what the tree shows.
LEMMA EvalShows ==
    ASSUME NEW N, NEW D, NEW roots, NEW dims, EvalGiven(N, D, roots, dims), TreesRead(N, roots, dims),
           NEW r \in roots, NEW v, Listing(v, elements(dims)), Shows(N, D, r, dims, v)
    PROVE  evalNodes(N, D, roots, dims).out[r] = v
<1> DEFINE n == elements(dims)
           o == evalNodes(N, D, roots, dims).out[r]
<1>1. o = [j \in 1 .. n |-> ValueAt(N, D, r, Unravel(j - 1, dims))]
  BY EvalValues DEF EvalGiven
<1> HIDE DEF o
<1>2. ASSUME NEW j \in 1 .. n PROVE o[j] = v[j]
  <2>1. Unravel(j - 1, dims) \in Box(dims) /\ 1 + Dot(Unravel(j - 1, dims), calcStrides(dims)) = j
    BY ElementAt DEF EvalGiven
  <2> QED BY <1>1, <2>1 DEF Shows
<1>3. Listing(o, n)
  BY <1>1 DEF Listing
<1> HIDE DEF n
<1>4. o = v
  BY <1>2, <1>3, SameListing DEF n
<1> QED BY <1>4 DEF o

\* An array has the value that it shows.
LEMMA ContentsShown ==
    ASSUME HeapOK(node), data \in Buffers, HeapFits(node, data), NEW a, ArrayFits(a, node, data),
           Ref(node, a.node), NEW v, ArrayShows(a, node, data, v)
    PROVE  Contents(a) = v
<1>1. a.dims \in DimVec
  BY JitAssumption DEF ArrayFits, Arrays, DimVec
<1>2. CASE isReady(a)
  BY <1>1, <1>2, ReadHeld DEF Contents, ArrayShows
<1>3. CASE ~ isReady(a)
  <2>1. a.node \in NodeIds /\ node[a.node] # NoNode /\ a.node \notin ShiftInputs(node)
    BY <1>3 DEF Ref, isReady, ArrayFits
  <2>2. EvalGiven(node, data, {a.node}, a.dims)
    BY <1>1, <2>1 DEF EvalGiven
  <2>3. Listing(v, elements(a.dims)) /\ Shows(node, data, a.node, a.dims, v)
    BY <1>3 DEF ArrayShows
  <2>4. TreesRead(node, {a.node}, a.dims)
    BY <2>3 DEF TreesRead, Shows
  <2>5. evalNodes(node, data, {a.node}, a.dims).out[a.node] = v
    BY <2>2, <2>3, <2>4, EvalShows
  <2> QED BY <1>3, <2>5 DEF Contents
<1> QED BY <1>2, <1>3

\* A contiguous array of its own buffer
LEMMA OwnBuffer ==
    ASSUME NEW dims \in DimVec, NEW b, NEW N, NEW D, NEW v, Listing(v, elements(dims)), D[b] = v
    PROVE  ArrayShows(ReadyArray(dims, b), N, D, v)
<1> DEFINE a == ReadyArray(dims, b)
<1>1. a.dims = dims /\ a.strides = calcStrides(dims) /\ a.off = 0 /\ a.buf = b /\ a.data_dims = dims /\ isReady(a)
  BY DEF ReadyArray, isReady
<1> HIDE DEF a
<1>2. ASSUME NEW id \in Box(dims) PROVE 1 + 0 + Dot(id, calcStrides(dims)) = 1 + Dot(id, calcStrides(dims))
  <2>1. Dot(id, calcStrides(dims)) \in 0 .. elements(dims) - 1 /\ elements(dims) \in Nat
    BY Positions, ShapeFacts
  <2> QED BY <2>1
<1>3. Holds(a, D, v)
  BY <1>1, <1>2 DEF Holds
<1>4. Within(a.dims, a.data_dims)
  BY <1>1 DEF Within, DimVec
<1> QED BY <1>1, <1>3, <1>4 DEF ArrayShows, a

(***************************************************************************)
(* Steps that add nodes and buffers, or replace an array.                  *)
(***************************************************************************)

\* A buffer that a node reads has elements.
LEMMA BufferHeld ==
    ASSUME NEW D \in Buffers, NEW r \in BufferNodes, InBuffer(D, r)
    PROVE  D[r.buf] # <<>> /\ r.buf \in BufIds
<1>1. r.buf \in BufIds /\ r.off \in Nat /\ r.dims \in DimVec /\ r.strides \in Strides
  BY DEF BufferNodes
<1>2. Extent(r.dims, r.strides) \in Nat
  BY <1>1, ExtentType
<1>3. Len(D[r.buf]) # 0
  BY <1>1, <1>2, SMTT(30) DEF InBuffer
<1> QED BY <1>1, <1>3

\* So has one of an array.
LEMMA ArrayHeld ==
    ASSUME NEW D \in Buffers, NEW a, NEW N, ArrayFits(a, N, D), isReady(a)
    PROVE  D[a.buf] # <<>> /\ a.buf \in BufIds
<1>1. a.buf \in BufIds /\ a.off \in Nat /\ a.dims \in DimVec /\ a.strides \in Strides /\ InBuffer(D, a)
  BY JitAssumption DEF ArrayFits, Arrays, DimVec
<1>2. Extent(a.dims, a.strides) \in Nat
  BY <1>1, ExtentType
<1>3. Len(D[a.buf]) # 0
  BY <1>1, <1>2, SMTT(30) DEF InBuffer
<1> QED BY <1>1, <1>3

\* The trees there were read the same.
LEMMA ExtendedAlike ==
    ASSUME NEW N, HeapOK(N), NEW D \in Buffers, HeapFits(N, D), NEW N2, NEW D2, Extended(N, D, N2, D2),
           NEW n \in NodeIds, N[n] # NoNode
    PROVE  ReadsAlike(N, D, N2, D2, n)
<1>1. \A m \in NodeIds : N[m].kind = "buffer" => D2[N[m].buf] = D[N[m].buf]
  <2> SUFFICES ASSUME NEW m \in NodeIds, N[m].kind = "buffer" PROVE D2[N[m].buf] = D[N[m].buf]
    OBVIOUS
  <2>1. N[m] \in BufferNodes /\ InBuffer(D, N[m])
    BY DEF HeapFits, NodeFits
  <2> QED BY <2>1, BufferHeld DEF Extended
<1> SUFFICES ASSUME NEW m \in Tree(N, n)
             PROVE  /\ N2[m] = N[m]
                    /\ N[m].kind = "buffer" => D2[N[m].buf] = D[N[m].buf]
                    /\ N[m].kind = "shift" =>
                         /\ N2[N[m].in].dims = N[N[m].in].dims
                         /\ \A id \in [Dims -> Nat] : ReadShift(D2, N2[N[m].in], N[m].shifts, id)
                                                        = ReadShift(D, N[N[m].in], N[m].shifts, id)
  BY DEF ReadsAlike
<1>2. m \in NodeIds /\ N[m] # NoNode
  BY TreeClosed
<1>3. ASSUME N[m].kind = "shift"
      PROVE  N2[N[m].in] = N[N[m].in] /\ D2[N[N[m].in].buf] = D[N[N[m].in].buf]
  <2>1. N[m].in \in NodeIds /\ N[N[m].in].kind = "buffer"
    BY <1>2, <1>3 DEF HeapOK
  <2>2. N[N[m].in] # NoNode
    BY <2>1, NodeKinds DEF HeapOK
  <2> QED BY <1>1, <2>1, <2>2 DEF Extended
<1> QED BY <1>1, <1>2, <1>3 DEF Extended, ReadShift, ReadBuffer

\* The arrays there were show what they showed.
LEMMA ExtendedArrays ==
    ASSUME NEW A, NEW N, HeapOK(N), NEW D, Fits(A, N, D), \A h \in Handles : Ref(N, A[h].node),
           NEW N2, HeapOK(N2), NEW D2, HeapFits(N2, D2), Extended(N, D, N2, D2),
           NEW V, NEW W, ArraysShow(A, N, D, V, W)
    PROVE  ArraysShow(A, N2, D2, V, W)
<1> SUFFICES ASSUME NEW h \in Handles, A[h] # NoArray
             PROVE  /\ ArrayShows(A[h], N2, D2, V[h])
                    /\ isReady(A[h]) \/ h \in W \/ ShiftsLead(N2, A[h].node)
  BY DEF ArraysShow
<1>1. /\ ArrayShows(A[h], N, D, V[h]) /\ (isReady(A[h]) \/ h \in W \/ ShiftsLead(N, A[h].node))
      /\ D \in Buffers /\ HeapFits(N, D) /\ ArrayFits(A[h], N, D)
  BY DEF ArraysShow, Fits
<1>2. CASE isReady(A[h])
  <2>1. D[A[h].buf] # <<>> /\ A[h].buf \in BufIds
    BY <1>1, <1>2, ArrayHeld
  <2>2. D2[A[h].buf] = D[A[h].buf]
    BY <2>1 DEF Extended
  <2> QED BY <1>1, <1>2, <2>2 DEF ArrayShows, Holds
<1>3. CASE ~ isReady(A[h])
  <2>1. A[h].node \in NodeIds /\ N[A[h].node] # NoNode
    BY <1>3 DEF isReady, Ref
  <2>2. ReadsAlike(N, D, N2, D2, A[h].node)
    BY <1>1, <2>1, ExtendedAlike
  <2>3. /\ \A d, v : Shows(N, D, A[h].node, d, v) => Shows(N2, D2, A[h].node, d, v)
        /\ ShiftsLead(N, A[h].node) => ShiftsLead(N2, A[h].node)
    BY <1>1, <2>1, <2>2, ShowsKept
  <2> QED BY <1>1, <1>3, <2>3 DEF ArrayShows
<1> QED BY <1>2, <1>3

\* One array is replaced by one that shows its value.
LEMMA PutShows ==
    ASSUME HeapInv, NEW N, HeapOK(N), \A n \in NodeIds : node[n] # NoNode => N[n] # NoNode,
           NEW D, Fits(arr, N, D), NEW h \in Handles, NEW a, Ref(N, a.node),
           a = NoArray \/ ArrayFits(a, N, D),
           Settle([arr EXCEPT ![h] = a], N, D, None),
           val = [g \in Handles |-> val[g]], NEW v, val' = [val EXCEPT ![h] = v],
           ArraysShow(arr, N, D, val, {}), NEW W,
           a # NoArray => ArrayShows(a, N, D, v) /\ (isReady(a) \/ h \in W \/ ShiftsLead(N, a.node))
    PROVE  val' = [g \in Handles |-> val'[g]] /\ ArraysShow(arr', node', data', val', W)
<1> DEFINE A == [arr EXCEPT ![h] = a]
<1>1. \A g \in Handles : A[g] = IF g = h THEN a ELSE arr[g]
  BY DEF HeapInv
<1>2. \A g \in Handles : Ref(N, A[g].node)
  BY <1>1 DEF HeapInv, ArrNodesOK, Ref
<1>3. Fits(A, N, D)
  BY <1>1 DEF Fits
<1>4. Ref(N, None) /\ None \notin ShiftInputs(N)
  BY ShiftsReadBuffers DEF Ref
<1>5. Settle(A, N, D, None)
  OBVIOUS
<1>6. val' = [g \in Handles |-> val'[g]] /\ \A g \in Handles : val'[g] = IF g = h THEN v ELSE val[g]
  OBVIOUS
<1>7. ArraysShow(A, N, D, val', W)
  BY <1>1, <1>6 DEF ArraysShow
<1> HIDE DEF A
<1>8. /\ arr' = A
      /\ \A g \in Handles : A[g] # NoArray =>
           /\ \A x : ArrayShows(A[g], N, D, x) => ArrayShows(A[g], node', data', x)
           /\ ~ isReady(A[g]) /\ ShiftsLead(N, A[g].node) => ShiftsLead(node', A[g].node)
  BY <1>2, <1>3, <1>4, <1>5, SettleShows
<1>9. ArraysShow(arr', node', data', val', W)
  BY <1>7, <1>8 DEF ArraysShow
<1> QED BY <1>6, <1>9

(***************************************************************************)
(* Evaluation of arrays.                                                   *)
(***************************************************************************)

\* What an evaluation leaves of other trees
LEMMA EvaluateOthers ==
    ASSUME HeapOK(node), data \in Buffers, HeapFits(node, data), NEW hs, EvaluateGives(hs),
           TreesRead(node, RootsOf(hs), ShapeOf(hs)),
           NEW n \in NodeIds, node[n] # NoNode, n \notin ShiftInputs(node), ShiftsLead(node, n)
    PROVE  LET e == Evaluate(hs)
           IN  /\ \A d, v : Shows(node, data, n, d, v) => Shows(e.node, e.data, n, d, v)
               /\ ShiftsLead(e.node, n)
<1> DEFINE e == Evaluate(hs)
           N == e.node
           D == e.data
<1>1. /\ N = EvalOn(hs).nodes /\ EvalGiven(node, data, RootsOf(hs), ShapeOf(hs))
      /\ HeapOK(N) /\ HeapFits(N, data) /\ D \in Buffers
      /\ \A b \in BufIds : data[b] # <<>> => D[b] = data[b]
      /\ Fits(e.arr, N, D) /\ \A m \in NodeIds : node[m] = NoNode <=> N[m] = NoNode
  BY DEF EvaluateGives
<1>2. HeapFits(N, D)
  BY <1>1 DEF Fits
<1> HIDE DEF N, D
<1>3. ReadsAlike(node, data, N, data, n)
  BY <1>1, EvalLeaves DEF EvalGiven, EvalOn
<1>4. /\ \A d, v : Shows(node, data, n, d, v) => Shows(N, data, n, d, v)
      /\ ShiftsLead(node, n) => ShiftsLead(N, n)
  BY <1>1, <1>3, ShowsKept
<1>5. Extended(N, data, N, D)
  BY <1>1 DEF Extended
<1>6. N[n] # NoNode
  BY <1>1
<1>7. ReadsAlike(N, data, N, D, n)
  BY <1>1, <1>5, <1>6, ExtendedAlike
<1>8. /\ \A d, v : Shows(N, data, n, d, v) => Shows(N, D, n, d, v)
      /\ ShiftsLead(N, n) => ShiftsLead(N, n)
  BY <1>1, <1>2, <1>6, <1>7, ShowsKept
<1> QED BY <1>4, <1>8 DEF N, D

\* Every array shows its value after an evaluation: those that were evaluated,
\* and those that share their nodes.
LEMMA EvaluateShows ==
    ASSUME HeapInv, Fits(arr, node, data), NEW hs \in SUBSET Handles,
           \A g, h \in hs : arr[g].dims = arr[h].dims,
           Pending(hs) # {}, Cardinality(Pending(hs)) <= Cardinality(FreeBufs),
           NEW root, Ref(node, root), root \notin ShiftInputs(node),
           root # None => ShiftsLead(node, root),
           NEW V, NEW W \in SUBSET hs, ArraysShow(arr, node, data, V, W),
           LET e == Evaluate(hs) IN Settle(e.arr, e.node, e.data, root)
    PROVE  /\ ArraysShow(arr', node', data', V, {})
           /\ root # None => /\ \A d, v : Shows(node, data, root, d, v) => Shows(node', data', root, d, v)
                             /\ ShiftsLead(node', root)
<1> DEFINE e == Evaluate(hs)
           dims == ShapeOf(hs)
           roots == RootsOf(hs)
<1>1. HeapOK(node) /\ data \in Buffers /\ HeapFits(node, data)
  BY DEF HeapInv, Fits
<1>2. EvaluateGives(hs)
  BY EvaluateMakes
<1>3. /\ EvalGiven(node, data, roots, dims) /\ \A h \in hs : arr[h].dims = dims
      /\ \A h \in Handles : h \notin Pending(hs) => e.arr[h] = arr[h]
      /\ \A h \in Pending(hs) : \E b \in BufIds : /\ e.arr[h] = ReadyArray(dims, b)
                                                  /\ e.data[b] = EvalOn(hs).out[arr[h].node]
      /\ \A b \in BufIds : data[b] # <<>> => e.data[b] = data[b]
      /\ Fits(e.arr, e.node, e.data) /\ \A h \in Handles : Ref(e.node, e.arr[h].node)
      /\ HeapOK(e.node) /\ ShiftInputs(e.node) = ShiftInputs(node)
      /\ \A n \in NodeIds : node[n] = NoNode <=> e.node[n] = NoNode
  BY <1>2 DEF EvaluateGives
<1>4. \A h \in Pending(hs) : h \in Handles /\ h \in hs /\ ~ isReady(arr[h]) /\ arr[h] # NoArray /\ arr[h].node \in roots
  BY DEF Pending, RootsOf, isReady, NoArray
<1>5. dims \in DimVec
  BY <1>3 DEF EvalGiven
<1> HIDE DEF e, dims, roots
<1>6. \A h \in Pending(hs) : Listing(V[h], elements(dims)) /\ Shows(node, data, arr[h].node, dims, V[h])
  BY <1>3, <1>4 DEF ArraysShow, ArrayShows
<1>7. TreesRead(node, roots, dims)
  <2>1. \A r \in roots : \E h \in Pending(hs) : r = arr[h].node
    BY DEF roots, RootsOf
  <2> QED BY <1>6, <2>1 DEF TreesRead, Shows
<1>8. ASSUME NEW n \in NodeIds, node[n] # NoNode, n \notin ShiftInputs(node), ShiftsLead(node, n)
      PROVE  /\ \A d, v : Shows(node, data, n, d, v) => Shows(e.node, e.data, n, d, v)
             /\ ShiftsLead(e.node, n)
  BY <1>1, <1>2, <1>7, <1>8, EvaluateOthers DEF roots, dims, e
<1>9. ASSUME NEW h \in Pending(hs) PROVE ArrayShows(e.arr[h], e.node, e.data, V[h]) /\ isReady(e.arr[h])
  <2>1. EvalOn(hs).out[arr[h].node] = V[h]
    <3>1. evalNodes(node, data, roots, dims).out[arr[h].node] = V[h]
      BY <1>3, <1>4, <1>6, <1>7, EvalShows
    <3> QED BY <3>1 DEF EvalOn, roots, dims
  <2>2. PICK b \in BufIds : e.arr[h] = ReadyArray(dims, b) /\ e.data[b] = V[h]
    BY <1>3, <2>1
  <2>3. Listing(V[h], elements(dims))
    BY <1>6
  <2>4. ArrayShows(ReadyArray(dims, b), e.node, e.data, V[h])
    BY <1>5, <2>2, <2>3, OwnBuffer
  <2> QED BY <2>2, <2>4 DEF isReady, ReadyArray
<1>10. ASSUME NEW h \in Handles, h \notin Pending(hs), arr[h] # NoArray
       PROVE  /\ ArrayShows(e.arr[h], e.node, e.data, V[h])
              /\ isReady(e.arr[h]) \/ ShiftsLead(e.node, e.arr[h].node)
  <2>1. e.arr[h] = arr[h] /\ ArrayShows(arr[h], node, data, V[h]) /\ ArrayFits(arr[h], node, data)
    BY <1>3, <1>10 DEF ArraysShow, Fits
  <2>2. CASE isReady(arr[h])
    <3>1. data[arr[h].buf] # <<>> /\ arr[h].buf \in BufIds
      BY <1>1, <2>1, <2>2, ArrayHeld
    <3>2. e.data[arr[h].buf] = data[arr[h].buf]
      BY <1>3, <3>1
    <3> QED BY <2>1, <2>2, <3>2 DEF ArrayShows, Holds
  <2>3. CASE ~ isReady(arr[h])
    <3>1. arr[h].node \in NodeIds /\ node[arr[h].node] # NoNode /\ arr[h].node \notin ShiftInputs(node)
      BY <2>1, <2>3 DEF HeapInv, ArrNodesOK, Ref, isReady, ArrayFits
    <3>2. h \notin hs
      BY <1>10, <2>3 DEF Pending
    <3>3. ShiftsLead(node, arr[h].node)
      BY <1>10, <2>3, <3>2 DEF ArraysShow
    <3>4. /\ Shows(node, data, arr[h].node, arr[h].dims, V[h]) => Shows(e.node, e.data, arr[h].node, arr[h].dims, V[h])
          /\ ShiftsLead(e.node, arr[h].node)
      BY <1>8, <3>1, <3>3
    <3> QED BY <2>1, <2>3, <3>4 DEF ArrayShows
  <2> QED BY <2>2, <2>3
<1>11. ArraysShow(e.arr, e.node, e.data, V, {})
  <2> SUFFICES ASSUME NEW h \in Handles, e.arr[h] # NoArray
               PROVE  /\ ArrayShows(e.arr[h], e.node, e.data, V[h])
                      /\ isReady(e.arr[h]) \/ h \in {} \/ ShiftsLead(e.node, e.arr[h].node)
    BY DEF ArraysShow
  <2>1. CASE h \in Pending(hs)
    BY <1>9, <2>1
  <2>2. CASE h \notin Pending(hs)
    <3>1. arr[h] # NoArray
      BY <1>3, <2>2
    <3> QED BY <1>10, <2>2, <3>1
  <2> QED BY <2>1, <2>2
<1>12. Ref(e.node, root) /\ root \notin ShiftInputs(e.node)
  BY <1>3 DEF Ref
<1>13. Settle(e.arr, e.node, e.data, root)
  BY DEF e
<1>14. /\ arr' = e.arr
       /\ \A h \in Handles : e.arr[h] # NoArray =>
            /\ \A v : ArrayShows(e.arr[h], e.node, e.data, v) => ArrayShows(e.arr[h], node', data', v)
            /\ ~ isReady(e.arr[h]) /\ ShiftsLead(e.node, e.arr[h].node) => ShiftsLead(node', e.arr[h].node)
       /\ root # None => /\ \A d, v : Shows(e.node, e.data, root, d, v) => Shows(node', data', root, d, v)
                         /\ ShiftsLead(e.node, root) => ShiftsLead(node', root)
  BY <1>3, <1>12, <1>13, SettleShows
<1>15. ArraysShow(arr', node', data', V, {})
  BY <1>11, <1>14 DEF ArraysShow
<1>16. root # None => /\ \A d, v : Shows(node, data, root, d, v) => Shows(e.node, e.data, root, d, v)
                      /\ ShiftsLead(e.node, root)
  BY <1>8 DEF Ref
<1> QED BY <1>14, <1>15, <1>16

(***************************************************************************)
(* Operations on trees.                                                    *)
(***************************************************************************)

\* The node of an evaluated array reads its elements.
LEMMA BufferShows ==
    ASSUME NEW N, HeapOK(N), NEW D \in Buffers, HeapFits(N, D), NEW n \in NodeIds,
           NEW a, ArrayFits(a, N, D), isReady(a), N[n] = BufferNode(a), NEW v, ArrayShows(a, N, D, v)
    PROVE  Shows(N, D, n, a.dims, v) /\ ShiftsLead(N, n)
<1> DEFINE r == BufferNode(a)
<1>1. /\ r.kind = "buffer" /\ r.dims = a.dims /\ r.strides = a.strides /\ r.buf = a.buf /\ r.off = a.off
      /\ r.linear = isLinear(a)
  BY DEF BufferNode
<1> HIDE DEF r
<1>2. N[n] = r
  BY DEF r
<1>3. a.dims \in DimVec /\ a.strides \in Strides
  BY JitAssumption DEF ArrayFits, Arrays, DimVec
<1>4. Tree(N, n) = {n}
  BY <1>1, <1>2, TreeParts
<1>5. r.linear => Contiguous(r)
  <2>1. isLinear(a) => Contiguous(a)
    BY <1>3, LinearContiguous
  <2> QED BY <1>1, <2>1 DEF Contiguous
<1>6. TreeReads(N, n, a.dims) /\ ShiftsLead(N, n)
  BY <1>1, <1>2, <1>4, <1>5 DEF TreeReads, ShiftsLead, Narrow
<1>7. ASSUME NEW id \in Box(a.dims) PROVE ValueAt(N, D, n, id) = v[1 + Dot(id, calcStrides(a.dims))]
  <2>1. id \in [Dims -> Nat]
    BY DEF Box
  <2>2. Clip(id, r.dims) = id
    BY <1>1, <1>3, <2>1, Clipped
  <2>3. ValueAt(N, D, n, id) = ReadBuffer(D, r, id)
    BY <1>1, <1>2, LeafValue
  <2>4. ReadBuffer(D, r, id) = D[a.buf][1 + a.off + Dot(id, a.strides)]
    <3>1. ReadBuffer(D, r, id) = D[r.buf][1 + r.off + Dot(Clip(id, r.dims), r.strides)]
      BY ReadsByIndex
    <3> QED BY <1>1, <2>2, <3>1
  <2> QED BY <2>3, <2>4 DEF ArrayShows, Holds
<1> QED BY <1>6, <1>7 DEF Shows

\* The index of an element that is repeated along the dimensions of length 1
Lowered(id, d) == [k \in Dims |-> IF d[k] = 1 THEN 0 ELSE id[k]]
\* The tree of n repeats the elements v of shape d along shape e.
Repeats(N, D, n, d, e, v) ==
    /\ TreeReads(N, n, e)
    /\ \A id \in Box(e) : ValueAt(N, D, n, id) = v[1 + Dot(Lowered(id, d), calcStrides(d))]

\* A lowered index is read alike by what is as narrow.
LEMMA LoweredReads ==
    ASSUME NEW d \in DimVec, NEW e \in DimVec, Narrow(d, e), NEW id \in Box(e)
    PROVE  /\ Lowered(id, d) \in Box(d)
           /\ \A r \in DimVec : Narrow(r, d) =>
                /\ Clip(Lowered(id, d), r) = Clip(id, r)
                /\ \A shifts \in Strides : Clip(Rotate(Lowered(id, d), shifts, r), r) = Clip(Rotate(id, shifts, r), r)
<1>1. id \in [Dims -> Nat] /\ \A k \in Dims : id[k] < e[k] /\ d[k] \in Nat \ {0} /\ e[k] \in Nat \ {0} /\ d[k] \in {1, e[k]}
  BY DEF Box, DimVec, Narrow
<1>2. \A k \in Dims : Lowered(id, d)[k] = IF d[k] = 1 THEN 0 ELSE id[k]
  BY DEF Lowered
<1>3. Lowered(id, d) = [k \in Dims |-> Lowered(id, d)[k]]
  BY DEF Lowered
<1>4. \A k \in Dims : Lowered(id, d)[k] \in Nat /\ Lowered(id, d)[k] < d[k]
  BY <1>1, <1>2
<1> DEFINE x == Lowered(id, d)
<1> HIDE DEF x
<1>5. \A k \in Dims : x[k] = (IF d[k] = 1 THEN 0 ELSE id[k]) /\ x[k] \in Nat
  BY <1>2, <1>4 DEF x
<1>6. ASSUME NEW r \in DimVec, Narrow(r, d)
      PROVE  /\ Clip(x, r) = Clip(id, r)
             /\ \A shifts \in Strides : Clip(Rotate(x, shifts, r), r) = Clip(Rotate(id, shifts, r), r)
  <2>1. \A k \in Dims : r[k] \in Nat \ {0} /\ r[k] \in {1, d[k]}
    BY <1>6 DEF DimVec, Narrow
  <2>2. \A k \in Dims : (IF x[k] < r[k] THEN x[k] ELSE 0) = (IF id[k] < r[k] THEN id[k] ELSE 0)
    <3> SUFFICES ASSUME NEW k \in Dims PROVE (IF x[k] < r[k] THEN x[k] ELSE 0) = (IF id[k] < r[k] THEN id[k] ELSE 0)
      OBVIOUS
    <3>1. CASE d[k] = 1
      BY <1>1, <1>5, <2>1, <3>1
    <3>2. CASE d[k] # 1
      BY <1>5, <3>2
    <3> QED BY <3>1, <3>2
  <2>3. Clip(x, r) = Clip(id, r)
    BY <2>2 DEF Clip
  <2>4. ASSUME NEW shifts \in Strides PROVE Clip(Rotate(x, shifts, r), r) = Clip(Rotate(id, shifts, r), r)
    <3> DEFINE y == Rotate(x, shifts, r)
               z == Rotate(id, shifts, r)
    <3>1. y \in [Dims -> Nat] /\ z \in [Dims -> Nat]
      <4>1. x \in [Dims -> Nat]
        BY <1>3, <1>4 DEF x
      <4> QED BY <1>1, <4>1, Clipped
    <3>2. \A k \in Dims : d[k] # 1 => y[k] = z[k]
      BY <1>5 DEF Rotate
    <3> HIDE DEF y, z
    <3>3. \A k \in Dims : (IF y[k] < r[k] THEN y[k] ELSE 0) = (IF z[k] < r[k] THEN z[k] ELSE 0)
      <4> SUFFICES ASSUME NEW k \in Dims PROVE (IF y[k] < r[k] THEN y[k] ELSE 0) = (IF z[k] < r[k] THEN z[k] ELSE 0)
        OBVIOUS
      <4>1. CASE d[k] = 1
        <5>1. r[k] = 1 /\ y[k] \in Nat /\ z[k] \in Nat
          BY <2>1, <3>1, <4>1
        <5> QED BY <5>1
      <4>2. CASE d[k] # 1
        BY <3>2, <4>2
      <4> QED BY <4>1, <4>2
    <3>4. Clip(y, r) = Clip(z, r)
      BY <3>3 DEF Clip
    <3> QED BY <3>4 DEF y, z
  <2> QED BY <2>3, <2>4
<1> QED BY <1>3, <1>4, <1>6 DEF x, Box

\* A tree of a narrower shape repeats its elements: generateBufferOffsets reads a
\* shorter dimension at 0.
LEMMA ShowsRepeated ==
    ASSUME NEW N, HeapOK(N), NEW D \in Buffers, HeapFits(N, D), NEW n \in NodeIds, N[n] # NoNode,
           n \notin ShiftInputs(N), NEW d \in DimVec, NEW e \in DimVec, Narrow(d, e),
           NEW v, Shows(N, D, n, d, v)
    PROVE  Repeats(N, D, n, d, e, v)
<1>1. n \in Tree(N, n) /\ Tree(N, n) \in SUBSET NodeIds /\ Closed(N, Tree(N, n))
  BY TreeClosed
<1>2. TreeReads(N, n, d)
  BY DEF Shows
<1>3. \A r : Narrow(r, d) => Narrow(r, e)
  BY DEF Narrow
<1>4. TreeReads(N, n, e)
  BY <1>2, <1>3 DEF TreeReads
<1>5. ASSUME NEW id \in Box(e) PROVE ValueAt(N, D, n, id) = v[1 + Dot(Lowered(id, d), calcStrides(d))]
  <2> DEFINE x == Lowered(id, d)
  <2>1. /\ x \in Box(d)
        /\ \A r \in DimVec : Narrow(r, d) =>
             /\ Clip(x, r) = Clip(id, r)
             /\ \A shifts \in Strides : Clip(Rotate(x, shifts, r), r) = Clip(Rotate(id, shifts, r), r)
    BY LoweredReads
  <2> HIDE DEF x
  <2>2. ASSUME NEW m \in Tree(N, n), N[m].kind # "nary", NEW p, NEW q
        PROVE  StepAt(N, D, id, p, m) = StepAt(N, D, x, q, m)
    <3>1. m \in NodeIds /\ N[m] # NoNode
      BY <1>1, TreeClosed
    <3>2. N[m].kind \in {"scalar", "buffer", "shift"}
      BY <2>2, <3>1, NodeKinds DEF HeapOK
    <3>3. CASE N[m].kind = "scalar"
      BY <3>1, <3>3, LeafStep
    <3>4. CASE N[m].kind = "buffer"
      <4> DEFINE r == N[m]
      <4>1. r.dims \in DimVec /\ Narrow(r.dims, d)
        BY <1>2, <3>1, <3>4 DEF TreeReads, HeapFits, NodeFits, BufferNodes
      <4>2. ReadBuffer(D, r, x) = ReadBuffer(D, r, id)
        <5>1. Clip(x, r.dims) = Clip(id, r.dims)
          BY <2>1, <4>1
        <5>2. ReadBuffer(D, r, x) = D[r.buf][1 + r.off + Dot(Clip(x, r.dims), r.strides)]
          BY ReadsByIndex
        <5>3. ReadBuffer(D, r, id) = D[r.buf][1 + r.off + Dot(Clip(id, r.dims), r.strides)]
          BY ReadsByIndex
        <5> QED BY <5>1, <5>2, <5>3
      <4>3. StepAt(N, D, id, p, m) = ReadBuffer(D, r, id)
        BY <3>1, <3>4, LeafStep
      <4>4. StepAt(N, D, x, q, m) = ReadBuffer(D, r, x)
        BY <3>1, <3>4, LeafStep
      <4> QED BY <4>2, <4>3, <4>4
    <3>5. CASE N[m].kind = "shift"
      <4> DEFINE r == N[N[m].in]
                 s == N[m].shifts
      <4>1. N[m].in \in NodeIds /\ r.kind = "buffer" /\ s \in Strides
        BY <3>1, <3>5 DEF HeapOK, HeapFits, NodeFits, ShiftNodes
      <4>2. r.dims \in DimVec /\ Narrow(r.dims, d)
        BY <1>2, <3>5, <4>1 DEF TreeReads, HeapFits, NodeFits, BufferNodes
      <4>3. ReadShift(D, r, s, x) = ReadShift(D, r, s, id)
        <5>1. Clip(Rotate(x, s, r.dims), r.dims) = Clip(Rotate(id, s, r.dims), r.dims)
          BY <2>1, <4>1, <4>2
        <5>2. ReadBuffer(D, r, Rotate(x, s, r.dims)) = ReadBuffer(D, r, Rotate(id, s, r.dims))
          <6> DEFINE y == Rotate(x, s, r.dims)
                     z == Rotate(id, s, r.dims)
          <6> HIDE DEF y, z
          <6>1. ReadBuffer(D, r, y) = D[r.buf][1 + r.off + Dot(Clip(y, r.dims), r.strides)]
            BY ReadsByIndex
          <6>2. ReadBuffer(D, r, z) = D[r.buf][1 + r.off + Dot(Clip(z, r.dims), r.strides)]
            BY ReadsByIndex
          <6>3. Clip(y, r.dims) = Clip(z, r.dims)
            BY <5>1 DEF y, z
          <6>4. ReadBuffer(D, r, y) = ReadBuffer(D, r, z)
            BY <6>1, <6>2, <6>3
          <6> QED BY <6>4 DEF y, z
        <5> QED BY <5>2, ReadsByIndex
      <4>4. StepAt(N, D, id, p, m) = ReadShift(D, r, s, id)
        BY <3>1, <3>5, LeafStep
      <4>5. StepAt(N, D, x, q, m) = ReadShift(D, r, s, x)
        BY <3>1, <3>5, LeafStep
      <4> QED BY <4>3, <4>4, <4>5
    <3> QED BY <3>2, <3>3, <3>4, <3>5
  <2>3. \A m \in Tree(N, n) : ValueAt(N, D, m, id) = ValueAt(N, D, m, x)
    BY <1>1, <2>2, TreeAgrees
  <2>4. ValueAt(N, D, n, x) = v[1 + Dot(x, calcStrides(d))]
    BY <2>1 DEF Shows
  <2> QED BY <1>1, <2>3, <2>4 DEF x
<1> QED BY <1>4, <1>5 DEF Repeats

\* What getNode gives for the operands: the trees that are there, and nodes for
\* the buffers of evaluated arrays
OperandsGive(ins) ==
    LET N == WithBufferNodes(ins)
        nodes == GetNodes(ins)
    IN  /\ Fits(arr, N, data) /\ HeapOK(N) /\ Extended(node, data, N, data)
        /\ Len(nodes) = Len(ins)
        /\ \A i \in 1 .. Len(ins) :
             /\ nodes[i] \in NodeIds \ ShiftInputs(N) /\ N[nodes[i]] # NoNode
             /\ isReady(arr[ins[i]]) => N[nodes[i]] = BufferNode(arr[ins[i]])
             /\ ~ isReady(arr[ins[i]]) => nodes[i] = arr[ins[i]].node

\* There are nodes for them, and nothing else changes.
LEMMA OperandsMade ==
    ASSUME HeapInv, Fits(arr, node, data), NEW ins, Len(ins) \in 1 .. kMaxChildren,
           ins \in [1 .. Len(ins) -> Handles], Len(ins) <= Cardinality(FreeNodes),
           \A i \in 1 .. Len(ins) : Live(ins[i])
    PROVE  OperandsGive(ins)
<1> DEFINE N == WithBufferNodes(ins)
           nodes == GetNodes(ins)
<1>1. /\ Fits(arr, N, data) /\ HeapOK(N)
      /\ \A i \in 1 .. Len(ins) : nodes[i] \in NodeIds \ ShiftInputs(N) /\ N[nodes[i]] # NoNode
      /\ \A n \in NodeIds : node[n] # NoNode => N[n] = node[n]
      /\ \A i \in 1 .. Len(ins) : isReady(arr[ins[i]]) =>
           \E j \in 1 .. Len(ins) : N[nodes[i]] = BufferNode(arr[ins[j]]) /\ FreshNodes[j] = FreshNodes[i]
  BY OperandNodesFit
<1>2. Len(nodes) = Len(ins) /\ \A i \in 1 .. Len(ins) : ~ isReady(arr[ins[i]]) => nodes[i] = arr[ins[i]].node
  <2>1. HeapOK(node) /\ ArrNodesOK
    BY DEF HeapInv
  <2> QED BY <2>1, OperandNodes
<1> HIDE DEF N, nodes
<1>3. ASSUME NEW i \in 1 .. Len(ins), isReady(arr[ins[i]]) PROVE N[nodes[i]] = BufferNode(arr[ins[i]])
  <2>1. PICK j \in 1 .. Len(ins) : N[nodes[i]] = BufferNode(arr[ins[j]]) /\ FreshNodes[j] = FreshNodes[i]
    BY <1>1, <1>3
  <2>2. i \in 1 .. Cardinality(FreeNodes) /\ j \in 1 .. Cardinality(FreeNodes)
    BY FreeCount DEF kMaxChildren
  <2>3. j = i
    BY <2>1, <2>2, FreshNode
  <2> QED BY <2>1, <2>3
<1>4. Extended(node, data, N, data)
  BY <1>1 DEF Extended
<1> QED BY <1>1, <1>2, <1>3, <1>4 DEF OperandsGive, N, nodes

\* A node on top of them
NaryGives(ins) ==
    LET N == WithBufferNodes(ins)
        nodes == GetNodes(ins)
        ptr == FreshNodes[Len(ins) + 1]
        N1 == [N EXCEPT ![ptr] = NaryNode(N, nodes)]
    IN  /\ Fits(arr, N1, data) /\ HeapOK(N1) /\ Extended(node, data, N1, data)
        /\ ptr \in NodeIds \ ShiftInputs(N1) /\ N1[ptr].kind = "nary" /\ N1[ptr].children = nodes
        /\ N1[ptr] # NoNode /\ Len(nodes) = Len(ins)
        /\ \A i \in 1 .. Len(ins) :
             /\ nodes[i] \in NodeIds \ ShiftInputs(N1) /\ N1[nodes[i]] # NoNode
             /\ isReady(arr[ins[i]]) => N1[nodes[i]] = BufferNode(arr[ins[i]])
             /\ ~ isReady(arr[ins[i]]) => nodes[i] = arr[ins[i]].node

\* The new node has the operands as children.
LEMMA NaryMade ==
    ASSUME HeapInv, Fits(arr, node, data), NEW ins, Len(ins) \in 1 .. kMaxChildren,
           ins \in [1 .. Len(ins) -> Handles], Cardinality(FreeNodes) >= Len(ins) + 1,
           \A i \in 1 .. Len(ins) : Live(ins[i])
    PROVE  NaryGives(ins)
<1> DEFINE N == WithBufferNodes(ins)
           nodes == GetNodes(ins)
           ptr == FreshNodes[Len(ins) + 1]
           r == NaryNode(N, nodes)
           N1 == [N EXCEPT ![ptr] = r]
<1>1. Cardinality(FreeNodes) \in Nat /\ Len(ins) \in Nat /\ Len(ins) <= Cardinality(FreeNodes)
  BY FreeCount DEF kMaxChildren
<1>2. /\ Fits(arr, N1, data) /\ HeapOK(N1) /\ ptr \in NodeIds \ ShiftInputs(N1) /\ N1[ptr] # NoNode
  BY NaryFits
<1>3. OperandsGive(ins)
  BY <1>1, OperandsMade
<1>4. /\ HeapOK(N) /\ Extended(node, data, N, data) /\ Len(nodes) = Len(ins)
      /\ \A i \in 1 .. Len(ins) :
           /\ nodes[i] \in NodeIds \ ShiftInputs(N) /\ N[nodes[i]] # NoNode
           /\ isReady(arr[ins[i]]) => N[nodes[i]] = BufferNode(arr[ins[i]])
           /\ ~ isReady(arr[ins[i]]) => nodes[i] = arr[ins[i]].node
  BY <1>3 DEF OperandsGive
<1>5. node[ptr] = NoNode /\ N[ptr] = NoNode
  <2>1. HeapOK(node) /\ ArrNodesOK
    BY DEF HeapInv
  <2>2. \A n \in NodeIds : (\A i \in 1 .. Len(ins) : n # FreshNodes[i]) => N[n] = node[n]
    BY <1>1, <2>1, OperandNodes
  <2>3. Len(ins) + 1 \in 1 .. Cardinality(FreeNodes) /\ 1 .. Len(ins) \subseteq 1 .. Cardinality(FreeNodes)
    BY <1>1
  <2>4. node[ptr] = NoNode /\ \A j \in 1 .. Cardinality(FreeNodes) : FreshNodes[j] = ptr => j = Len(ins) + 1
    BY <2>3, FreshNode
  <2> QED BY <1>1, <1>2, <2>2, <2>3, <2>4
<1>6. r.kind = "nary" /\ r.children = nodes
  BY DEF NaryNode
<1> HIDE DEF N, r, nodes, ptr
<1>7. N1[ptr] = r /\ \A n \in NodeIds : n # ptr => N1[n] = N[n]
  BY <1>2, <1>4 DEF HeapOK
<1> HIDE DEF N1
<1>8. \A i \in 1 .. Len(ins) : nodes[i] \in NodeIds /\ N1[nodes[i]] = N[nodes[i]]
  BY <1>4, <1>5, <1>7
<1>9. \A i \in 1 .. Len(ins) : nodes[i] \notin ShiftInputs(N1)
  <2>1. NodeFits(N1, data, ptr)
    BY <1>2 DEF Fits, HeapFits
  <2> QED BY <1>4, <1>6, <1>7, <2>1 DEF NodeFits
<1>10. Extended(node, data, N1, data)
  BY <1>4, <1>5, <1>7 DEF Extended
<1> QED BY <1>2, <1>4, <1>6, <1>7, <1>8, <1>9, <1>10 DEF NaryGives, N1, N, r, nodes, ptr

\* The elements that an operation has
LEMMA OperationAt ==
    ASSUME NEW ins, NEW e \in DimVec
    PROVE  /\ Listing(OperationOn(ins, e), elements(e))
           /\ \A id \in Box(e) : OperationOn(ins, e)[1 + Dot(id, calcStrides(e))] =
                Operation([i \in 1 .. Len(ins) |->
                   val[ins[i]][1 + Dot(Lowered(id, arr[ins[i]].dims), calcStrides(arr[ins[i]].dims))]])
<1> DEFINE At(id) == Operation([i \in 1 .. Len(ins) |->
                   val[ins[i]][1 + Dot(Lowered(id, arr[ins[i]].dims), calcStrides(arr[ins[i]].dims))]])
           o == OperationOn(ins, e)
           n == elements(e)
<1>1. o = [j \in 1 .. n |-> At(Unravel(j - 1, e))]
  BY DEF OperationOn, Fill, Lowered
<1> HIDE DEF o, At
<1>2. Listing(o, n)
  BY <1>1 DEF Listing
<1>3. ASSUME NEW id \in Box(e) PROVE o[1 + Dot(id, calcStrides(e))] = At(id)
  <2> DEFINE j == Dot(id, calcStrides(e))
  <2>1. j \in 0 .. n - 1 /\ Unravel(j, e) = id /\ n \in Nat
    BY Positions, ShapeFacts
  <2> HIDE DEF j, n
  <2>2. 1 + j \in 1 .. n /\ (1 + j) - 1 = j
    BY <2>1
  <2>3. o[1 + j] = At(Unravel((1 + j) - 1, e))
    BY <1>1, <2>2
  <2> QED BY <2>1, <2>2, <2>3 DEF j
<1> QED BY <1>2, <1>3 DEF o, At

\* A node on top of trees that repeat their elements shows the operation.
LEMMA NaryShows ==
    ASSUME NEW N, HeapOK(N), NEW D, NEW n \in NodeIds, N[n].kind = "nary", NEW e \in DimVec,
           NEW ins, Len(N[n].children) = Len(ins),
           \A i \in 1 .. Len(ins) : /\ Repeats(N, D, N[n].children[i], arr[ins[i]].dims, e, val[ins[i]])
                                    /\ ShiftsLead(N, N[n].children[i])
    PROVE  Shows(N, D, n, e, OperationOn(ins, e)) /\ ShiftsLead(N, n)
<1> DEFINE c == N[n].children
<1>1. \A m \in Tree(N, n) : m = n \/ \E i \in 1 .. Len(ins) : m \in Tree(N, c[i])
  BY TreeParts
<1>2. TreeReads(N, n, e) /\ ShiftsLead(N, n)
  <2>1. \A i \in 1 .. Len(ins) : TreeReads(N, c[i], e)
    BY DEF Repeats
  <2> HIDE DEF c
  <2> QED BY <1>1, <2>1 DEF TreeReads, ShiftsLead, c
<1>3. ASSUME NEW id \in Box(e) PROVE ValueAt(N, D, n, id) = OperationOn(ins, e)[1 + Dot(id, calcStrides(e))]
  <2>1. ValueAt(N, D, n, id) = Operation([i \in 1 .. Len(c) |-> ValueAt(N, D, c[i], id)])
    BY NaryValue
  <2>2. \A i \in 1 .. Len(ins) : ValueAt(N, D, c[i], id) =
           val[ins[i]][1 + Dot(Lowered(id, arr[ins[i]].dims), calcStrides(arr[ins[i]].dims))]
    BY DEF Repeats
  <2> HIDE DEF c
  <2>3. Len(c) = Len(ins)
    BY DEF c
  <2>4. OperationOn(ins, e)[1 + Dot(id, calcStrides(e))] =
                Operation([i \in 1 .. Len(ins) |->
                   val[ins[i]][1 + Dot(Lowered(id, arr[ins[i]].dims), calcStrides(arr[ins[i]].dims))]])
    BY OperationAt
  <2>5. [i \in 1 .. Len(c) |-> ValueAt(N, D, c[i], id)] =
        [i \in 1 .. Len(ins) |->
                   val[ins[i]][1 + Dot(Lowered(id, arr[ins[i]].dims), calcStrides(arr[ins[i]].dims))]]
    BY <2>2, <2>3
  <2> QED BY <2>1, <2>4, <2>5
<1> QED BY <1>2, <1>3 DEF Shows

\* The node of an operand shows the operand.
LEMMA OperandShows ==
    ASSUME HeapInv, Fits(arr, node, data), NEW V, ArraysShow(arr, node, data, V, {}),
           NEW N, HeapOK(N), Fits(arr, N, data), Extended(node, data, N, data),
           NEW h \in Handles, Live(h), NEW n \in NodeIds, N[n] # NoNode,
           isReady(arr[h]) => N[n] = BufferNode(arr[h]), ~ isReady(arr[h]) => n = arr[h].node
    PROVE  Shows(N, data, n, arr[h].dims, V[h]) /\ ShiftsLead(N, n)
<1>1. HeapOK(node) /\ \A g \in Handles : Ref(node, arr[g].node)
  BY DEF HeapInv, ArrNodesOK
<1>2. HeapFits(N, data) /\ data \in Buffers /\ ArrayFits(arr[h], N, data)
  BY DEF Fits, Live
<1>3. ArraysShow(arr, N, data, V, {})
  BY <1>1, <1>2, ExtendedArrays
<1>4. ArrayShows(arr[h], N, data, V[h]) /\ (isReady(arr[h]) \/ ShiftsLead(N, arr[h].node))
  BY <1>3 DEF ArraysShow, Live
<1>5. CASE isReady(arr[h])
  BY <1>2, <1>4, <1>5, BufferShows
<1>6. CASE ~ isReady(arr[h])
  BY <1>4, <1>6 DEF ArrayShows
<1> QED BY <1>5, <1>6

\* The node of an operation shows it.
LEMMA NaryResult ==
    ASSUME HeapInv, Fits(arr, node, data), ArraysShow(arr, node, data, val, {}),
           NEW ins, ins \in [1 .. Len(ins) -> Handles], \A i \in 1 .. Len(ins) : Live(ins[i]), NaryGives(ins),
           NEW e \in DimVec, \A i \in 1 .. Len(ins) : Narrow(arr[ins[i]].dims, e)
    PROVE  LET N == WithBufferNodes(ins)
               ptr == FreshNodes[Len(ins) + 1]
               N1 == [N EXCEPT ![ptr] = NaryNode(N, GetNodes(ins))]
           IN  Shows(N1, data, ptr, e, OperationOn(ins, e)) /\ ShiftsLead(N1, ptr)
<1> DEFINE N == WithBufferNodes(ins)
           nodes == GetNodes(ins)
           ptr == FreshNodes[Len(ins) + 1]
           N1 == [N EXCEPT ![ptr] = NaryNode(N, nodes)]
<1>1. /\ Fits(arr, N1, data) /\ HeapOK(N1) /\ Extended(node, data, N1, data)
      /\ ptr \in NodeIds \ ShiftInputs(N1) /\ N1[ptr].kind = "nary" /\ N1[ptr].children = nodes
      /\ Len(nodes) = Len(ins)
      /\ \A i \in 1 .. Len(ins) :
           /\ nodes[i] \in NodeIds \ ShiftInputs(N1) /\ N1[nodes[i]] # NoNode
           /\ isReady(arr[ins[i]]) => N1[nodes[i]] = BufferNode(arr[ins[i]])
           /\ ~ isReady(arr[ins[i]]) => nodes[i] = arr[ins[i]].node
  BY DEF NaryGives
<1> HIDE DEF N1, N, nodes, ptr
<1>2. HeapFits(N1, data) /\ data \in Buffers
  BY <1>1 DEF Fits
<1>3. ASSUME NEW i \in 1 .. Len(ins)
      PROVE  Repeats(N1, data, nodes[i], arr[ins[i]].dims, e, val[ins[i]]) /\ ShiftsLead(N1, nodes[i])
  <2>1. ins[i] \in Handles /\ Live(ins[i])
    OBVIOUS
  <2>2. Shows(N1, data, nodes[i], arr[ins[i]].dims, val[ins[i]]) /\ ShiftsLead(N1, nodes[i])
    BY <1>1, <2>1, OperandShows
  <2>3. arr[ins[i]].dims \in DimVec /\ Narrow(arr[ins[i]].dims, e)
    BY <2>1, JitAssumption DEF Fits, ArrayFits, Arrays, DimVec, Live
  <2>4. nodes[i] \in NodeIds /\ N1[nodes[i]] # NoNode /\ nodes[i] \notin ShiftInputs(N1)
    BY <1>1
  <2>5. Repeats(N1, data, nodes[i], arr[ins[i]].dims, e, val[ins[i]])
    BY <1>1, <1>2, <2>2, <2>3, <2>4, ShowsRepeated
  <2> QED BY <2>2, <2>5
<1>4. Shows(N1, data, ptr, e, OperationOn(ins, e)) /\ ShiftsLead(N1, ptr)
  BY <1>1, <1>3, NaryShows
<1> QED BY <1>4 DEF N1, N, nodes, ptr

(***************************************************************************)
(* The steps and the values.                                               *)
(***************************************************************************)

\* Between evaluations, every tree may be shared.
LEMMA NoneWaits ==
    ASSUME ValInv, call.op # "eval" \/ call.todo = <<>>
    PROVE  ArraysShow(arr, node, data, val, {})
<1>1. AboutToEval = {}
  <2>1. \A h \in Handles : <<h>> # <<>>
    OBVIOUS
  <2> QED BY <2>1 DEF AboutToEval
<1> QED BY <1>1 DEF ValInv

\* More may wait.
LEMMA MoreWait ==
    ASSUME NEW A, NEW N, NEW D, NEW V, ArraysShow(A, N, D, V, {}), NEW W
    PROVE  ArraysShow(A, N, D, V, W)
BY DEF ArraysShow

\* A call that returned has no node to show.
LEMMA ReturnedShows ==
    ASSUME call' = NoCall \/ \E h \in Handles : call' = [NoCall EXCEPT !.op = "eval", !.todo = <<h>>]
    PROVE  CallShows'
<1>1. CASE call' = NoCall
  <2>1. call'.node = None /\ call'.op = "none"
    BY <1>1 DEF NoCall
  <2> QED BY <2>1 DEF CallShows
<1>2. ASSUME NEW h \in Handles, call' = [NoCall EXCEPT !.op = "eval", !.todo = <<h>>] PROVE CallShows'
  <2>1. call'.node = None /\ call'.op = "eval"
    BY <1>2 DEF NoCall
  <2> QED BY <2>1 DEF CallShows
<1> QED BY <1>1, <1>2

\* The result of a call shows its value.
LEMMA FinishShows ==
    ASSUME HeapInv, Fits(arr, node, data), val = [g \in Handles |-> val[g]],
           ArraysShow(arr, node, data, val, {}), NEW N, HeapOK(N), NEW D, Fits(arr, N, D),
           Extended(node, data, N, D), Head(call.ins) \in Handles, NEW a, Ref(N, a.node), ArrayFits(a, N, D),
           NEW v, Finish(a, N, D, v), NEW W, ArrayShows(a, N, D, v),
           isReady(a) \/ Head(call.ins) \in W \/ ShiftsLead(N, a.node)
    PROVE  val' = [g \in Handles |-> val'[g]] /\ ArraysShow(arr', node', data', val', W)
<1> DEFINE h == Head(call.ins)
<1>1. Settle([arr EXCEPT ![h] = a], N, D, None) /\ val' = [val EXCEPT ![h] = v]
  BY DEF Finish
<1> HIDE DEF h
<1>2. HeapOK(node) /\ \A g \in Handles : Ref(node, arr[g].node)
  BY DEF HeapInv, ArrNodesOK
<1>3. \A n \in NodeIds : node[n] # NoNode => N[n] # NoNode
  BY DEF Extended
<1>4. ArraysShow(arr, N, D, val, {})
  <2>1. HeapFits(N, D)
    BY DEF Fits
  <2> QED BY <1>2, <2>1, ExtendedArrays
<1>5. h \in Handles /\ (isReady(a) \/ h \in W \/ ShiftsLead(N, a.node))
  BY DEF h
<1> QED BY <1>1, <1>3, <1>4, <1>5, PutShows

\* Every array shows its value, and every tree may be shared.
AllShow ==
    /\ val = [h \in Handles |-> val[h]]
    /\ ArraysShow(arr, node, data, val, {})

\* After a call that returned
LEMMA AllShown ==
    ASSUME AllShow', call' = NoCall \/ \E h \in Handles : call' = [NoCall EXCEPT !.op = "eval", !.todo = <<h>>]
    PROVE  ValInv'
<1>1. CallShows'
  BY ReturnedShows
<1>2. ArraysShow(arr', node', data', val', AboutToEval')
  <2>1. ArraysShow(arr', node', data', val', {})
    BY DEF AllShow
  <2> QED BY <2>1, MoreWait
<1> QED BY <1>1, <1>2 DEF ValInv, AllShow

\* One array is replaced by a new buffer with its value.
LEMMA NewBufferShows ==
    ASSUME HeapInv, AllShow, NEW N, HeapOK(N), \A n \in NodeIds : node[n] # NoNode => N[n] # NoNode,
           NEW D, Fits(arr, N, D), ArraysShow(arr, N, D, val, {}),
           NEW h \in Handles, NEW b \in BufIds, D[b] = <<>>,
           NEW dims \in Shapes, NEW v \in Seq(Values), Len(v) = elements(dims),
           Settle([arr EXCEPT ![h] = ReadyArray(dims, b)], N, [D EXCEPT ![b] = v], None),
           val' = [val EXCEPT ![h] = v]
    PROVE  AllShow'
<1> DEFINE D2 == [D EXCEPT ![b] = v]
           a == ReadyArray(dims, b)
<1>1. Fits(arr, N, D2) /\ D2[b] = v /\ \A c \in BufIds : c # b => D2[c] = D[c]
  BY FillBuffer
<1>2. Settle([arr EXCEPT ![h] = a], N, D2, None)
  OBVIOUS
<1> HIDE DEF D2
<1>3. ArrayFits(a, N, D2) /\ isReady(a)
  BY <1>1, ReadyFits
<1>4. Ref(N, a.node)
  BY MadeArrays
<1>5. Listing(v, elements(dims))
  BY DEF Listing
<1>6. ArrayShows(a, N, D2, v)
  <2>1. dims \in DimVec
    BY JitAssumption DEF DimVec
  <2> QED BY <1>1, <1>5, <2>1, OwnBuffer
<1>7. Extended(N, D, N, D2)
  BY <1>1 DEF Extended
<1>8. ArraysShow(arr, N, D2, val, {})
  <2>1. \A g \in Handles : Ref(N, arr[g].node)
    BY DEF HeapInv, ArrNodesOK, Ref
  <2>2. HeapFits(N, D2)
    BY <1>1 DEF Fits
  <2> QED BY <1>7, <2>1, <2>2, ExtendedArrays
<1> HIDE DEF a
<1>9. val' = [g \in Handles |-> val'[g]] /\ ArraysShow(arr', node', data', val', {})
  <2>1. val = [g \in Handles |-> val[g]]
    BY DEF AllShow
  <2> QED BY <1>1, <1>2, <1>3, <1>4, <1>6, <1>8, <2>1, PutShows
<1> QED BY <1>9 DEF AllShow

\* Host data fill a new buffer.
LEMMA createHostDataArrayShows ==
    ASSUME HeapInv, Fits(arr, node, data), AllShow, NEW h \in Handles, NEW dims \in Shapes,
           createHostDataArray(h, dims)
    PROVE  AllShow'
<1> DEFINE b == FreshBufs[1]
           v == HostData(elements(dims))
<1>1. /\ Settle([arr EXCEPT ![h] = ReadyArray(dims, b)], node, [data EXCEPT ![b] = v], None)
      /\ val' = [val EXCEPT ![h] = v]
  BY DEF createHostDataArray
<1>2. b \in BufIds /\ data[b] = <<>>
  BY OneBuffer DEF createHostDataArray
<1>3. v \in Seq(Values) /\ Len(v) = elements(dims)
  <2>1. dims \in DimVec
    BY JitAssumption DEF DimVec
  <2> QED BY <2>1, ShapeFacts, HostDataValues
<1> HIDE DEF b, v
<1>4. HeapOK(node) /\ ArraysShow(arr, node, data, val, {})
  BY DEF HeapInv, AllShow
<1> QED BY <1>1, <1>2, <1>3, <1>4, NewBufferShows

\* A constant has its value at every index.
LEMMA createValueArrayShows ==
    ASSUME HeapInv, Fits(arr, node, data), AllShow, NEW h \in Handles, NEW dims \in Shapes,
           createValueArray(h, dims)
    PROVE  AllShow'
<1> DEFINE n == FreshNodes[1]
           x == 1 % M
           r == ScalarNode(x)
           N == [node EXCEPT ![n] = r]
           a == createNodeArray(dims, n)
           v == Fill(elements(dims), LAMBDA j : x)
<1>1. Settle([arr EXCEPT ![h] = a], N, data, None) /\ val' = [val EXCEPT ![h] = v]
  BY DEF createValueArray
<1>2. n \in NodeIds /\ node[n] = NoNode
  <2>1. Cardinality(FreeNodes) >= 1
    BY DEF createValueArray, Room
  <2>2. 1 \in 1 .. Cardinality(FreeNodes)
    BY <2>1, FreeCount
  <2> QED BY <2>2, FreshNode
<1>3. HeapOK(node) /\ (\A g \in Handles : Ref(node, arr[g].node)) /\ ArraysShow(arr, node, data, val, {})
  BY DEF HeapInv, ArrNodesOK, AllShow
<1>4. r \in ScalarNodes /\ Leaf(r) /\ r.kind = "scalar" /\ r.value = x
  <2>1. x \in Values
    BY JitAssumption DEF Values
  <2> QED BY <2>1 DEF ScalarNode, ScalarNodes, Leaf
<1>5. dims \in DimVec
  BY JitAssumption DEF DimVec
<1>6. Listing(v, elements(dims)) /\ \A j \in 1 .. elements(dims) : v[j] = x
  BY DEF Listing, Fill
<1> HIDE DEF n, r, x, v
<1>7. N = [m \in NodeIds |-> N[m]] /\ N[n] = r /\ \A m \in NodeIds : m # n => N[m] = node[m]
  BY <1>2, <1>3 DEF HeapOK
<1> HIDE DEF N
<1>8. HeapOK(N) /\ \A m \in NodeIds : node[m] # NoNode => N[m] = node[m]
  <2>1. \A m \in NodeIds : \/ N[m] = node[m]
                           \/ node[m] = NoNode /\ Leaf(N[m]) /\ N[m].kind = "scalar"
    BY <1>2, <1>4, <1>7
  <2> QED BY <1>3, <1>7, <2>1, AddLeaves
<1>9. Fits(arr, N, data) /\ HeapFits(N, data)
  <2>1. ASSUME NEW m \in NodeIds, node[m] = NoNode PROVE NodeFits(N, data, m) /\ N[m].kind # "shift"
    <3>1. CASE m = n
      BY <1>4, <1>7, <3>1 DEF NodeFits
    <3>2. CASE m # n
      BY <1>7, <2>1, <3>2 DEF NodeFits, NoNode
    <3> QED BY <3>1, <3>2
  <2>2. Fits(arr, N, data)
    BY <1>3, <1>8, <2>1, AddFits
  <2> QED BY <2>2 DEF Fits
<1>10. ArrayFits(a, N, data) /\ Ref(N, a.node) /\ ~ isReady(a) /\ a.node = n /\ a.dims = dims
  <2>1. n \notin ShiftInputs(N)
    BY <1>4, <1>7, <1>8, ShiftsReadBuffers
  <2>2. N[n] # NoNode
    BY <1>4, <1>7 DEF NoNode
  <2>3. a.node = n /\ a.dims = dims
    BY DEF createNodeArray
  <2>4. n # None
    BY <1>2, NoneIsNoNode
  <2> QED BY <1>2, <2>1, <2>2, <2>3, <2>4, NodeArrayFits DEF Ref, isReady
<1>11. Shows(N, data, n, dims, v) /\ ShiftsLead(N, n)
  <2>1. Tree(N, n) = {n}
    BY <1>2, <1>4, <1>7, <1>8, TreeParts
  <2>2. TreeReads(N, n, dims) /\ ShiftsLead(N, n)
    BY <1>4, <1>7, <2>1 DEF TreeReads, ShiftsLead
  <2>3. ASSUME NEW id \in Box(dims) PROVE ValueAt(N, data, n, id) = v[1 + Dot(id, calcStrides(dims))]
    <3>1. ValueAt(N, data, n, id) = x
      BY <1>2, <1>4, <1>7, <1>8, <1>9, LeafValue
    <3>2. Dot(id, calcStrides(dims)) \in 0 .. elements(dims) - 1 /\ elements(dims) \in Nat
      BY <1>5, Positions, ShapeFacts
    <3> QED BY <1>6, <3>1, <3>2
  <2> QED BY <2>2, <2>3 DEF Shows
<1>12. ArrayShows(a, N, data, v)
  BY <1>6, <1>10, <1>11 DEF ArrayShows
<1>13. ArraysShow(arr, N, data, val, {})
  <2>1. Extended(node, data, N, data) /\ data \in Buffers
    BY <1>8, <1>9 DEF Extended, Fits
  <2> QED BY <1>3, <1>8, <1>9, <2>1, ExtendedArrays
<1>14. \A m \in NodeIds : node[m] # NoNode => N[m] # NoNode
  BY <1>8
<1> HIDE DEF a
<1>15. val' = [g \in Handles |-> val'[g]] /\ ArraysShow(arr', node', data', val', {})
  <2>1. val = [g \in Handles |-> val[g]]
    BY DEF AllShow
  <2> QED BY <1>1, <1>8, <1>9, <1>10, <1>11, <1>12, <1>13, <1>14, <2>1, PutShows
<1> QED BY <1>15 DEF AllShow

\* A retained handle has the value of the first.
LEMMA retainHandleShows ==
    ASSUME HeapInv, Fits(arr, node, data), AllShow, NEW out \in Handles, NEW in \in Handles, retainHandle(out, in)
    PROVE  AllShow'
<1>1. Settle([arr EXCEPT ![out] = arr[in]], node, data, None) /\ val' = [val EXCEPT ![out] = val[in]]
  BY DEF retainHandle, Replace
<1>2. /\ HeapOK(node) /\ Ref(node, arr[in].node) /\ (arr[in] = NoArray \/ ArrayFits(arr[in], node, data))
      /\ val = [g \in Handles |-> val[g]] /\ ArraysShow(arr, node, data, val, {})
  BY DEF HeapInv, ArrNodesOK, Fits, AllShow
<1>3. arr[in] # NoArray => /\ ArrayShows(arr[in], node, data, val[in])
                           /\ isReady(arr[in]) \/ ShiftsLead(node, arr[in].node)
  BY <1>2 DEF ArraysShow
<1>4. val' = [g \in Handles |-> val'[g]] /\ ArraysShow(arr', node', data', val', {})
  BY <1>1, <1>2, <1>3, PutShows
<1> QED BY <1>4 DEF AllShow

\* The other arrays keep their values at a release.
LEMMA releaseShows ==
    ASSUME HeapInv, Fits(arr, node, data), AllShow, NEW h \in Handles, release(h)
    PROVE  AllShow'
<1>1. Settle([arr EXCEPT ![h] = NoArray], node, data, None) /\ val' = [val EXCEPT ![h] = <<>>]
  BY DEF release, Replace
<1>2. /\ HeapOK(node) /\ Ref(node, NoArray.node)
      /\ val = [g \in Handles |-> val[g]] /\ ArraysShow(arr, node, data, val, {})
  BY MadeArrays DEF HeapInv, AllShow
<1>3. val' = [g \in Handles |-> val'[g]] /\ ArraysShow(arr', node', data', val', {})
  BY <1>1, <1>2, PutShows
<1> QED BY <1>3 DEF AllShow

\* Arrays evaluated together have their values.
LEMMA evalMultipleShows ==
    ASSUME HeapInv, Fits(arr, node, data), AllShow, NEW hs \in SUBSET Handles, evalMultiple(hs)
    PROVE  AllShow'
<1>1. /\ \A g, h \in hs : arr[g].dims = arr[h].dims
      /\ LET e == Evaluate(hs) IN Settle(e.arr, e.node, e.data, None)
      /\ val' = val
  BY DEF evalMultiple
<1>2. Pending(hs) # {} /\ Cardinality(Pending(hs)) <= Cardinality(FreeBufs)
  BY PendingFit
<1>3. Ref(node, None) /\ None \notin ShiftInputs(node)
  BY NoRoot
<1>4. ArraysShow(arr, node, data, val, {}) /\ {} \in SUBSET hs
  BY DEF AllShow
<1>5. ArraysShow(arr', node', data', val, {})
  BY <1>1, <1>2, <1>3, <1>4, EvaluateShows
<1> QED BY <1>1, <1>5 DEF AllShow

\* A copy has the value of its source, which keeps its own.
LEMMA copyArrayShows ==
    ASSUME HeapInv, Fits(arr, node, data), AllShow, NEW out \in Handles, NEW in \in Handles, copyArray(out, in)
    PROVE  AllShow'
<1> DEFINE a == arr[in]
           e == evalNodes(node, data, {a.node}, a.dims)
           N == IF isReady(a) THEN node ELSE e.nodes
           b == FreshBufs[1]
           v == Contents(a)
<1>1. /\ Settle([arr EXCEPT ![out] = ReadyArray(a.dims, b)], N, [data EXCEPT ![b] = v], None)
      /\ val' = [val EXCEPT ![out] = val[in]] /\ a # NoArray
  BY DEF copyArray, Live
<1>2. b \in BufIds /\ data[b] = <<>>
  BY OneBuffer DEF copyArray
<1>3. /\ ArrayFits(a, node, data) /\ HeapOK(node) /\ data \in Buffers /\ HeapFits(node, data)
      /\ Ref(node, a.node) /\ ArrayShows(a, node, data, val[in])
      /\ ArraysShow(arr, node, data, val, {})
  BY <1>1 DEF Fits, HeapInv, ArrNodesOK, AllShow, ArraysShow
<1>4. a.dims \in Shapes /\ a.dims \in DimVec
  BY <1>3, JitAssumption DEF ArrayFits, Arrays, DimVec
<1>5. v = val[in]
  BY <1>3, ContentsShown
<1>6. /\ HeapOK(N) /\ (\A n \in NodeIds : node[n] # NoNode => N[n] # NoNode)
      /\ Fits(arr, N, data) /\ v \in Seq(Values) /\ Len(v) = elements(a.dims)
  BY CopySource
<1>7. ArraysShow(arr, N, data, val, {})
  <2>1. CASE isReady(a)
    BY <1>3, <2>1
  <2>2. CASE ~ isReady(a)
    <3>1. N = e.nodes
      BY <2>2
    <3>2. {a.node} \in SUBSET NodeIds /\ \A n \in {a.node} : node[n] # NoNode /\ n \notin ShiftInputs(node)
      BY <1>3, <2>2 DEF Ref, isReady, ArrayFits
    <3>3. TreesRead(node, {a.node}, a.dims)
      BY <1>3, <2>2 DEF ArrayShows, Shows, TreesRead
    <3>4. /\ HeapOK(e.nodes) /\ HeapFits(e.nodes, data)
          /\ \A n \in NodeIds : node[n] # NoNode /\ n \notin ShiftInputs(node) /\ ShiftsLead(node, n) =>
                ReadsAlike(node, data, e.nodes, data, n)
      BY <1>3, <1>4, <3>2, <3>3, EvalLeaves
    <3> HIDE DEF e, a
    <3>5. ASSUME NEW h \in Handles, arr[h] # NoArray
          PROVE  /\ ArrayShows(arr[h], e.nodes, data, val[h])
                 /\ isReady(arr[h]) \/ ShiftsLead(e.nodes, arr[h].node)
      <4>1. ArrayShows(arr[h], node, data, val[h]) /\ (isReady(arr[h]) \/ ShiftsLead(node, arr[h].node))
        BY <1>3, <3>5 DEF ArraysShow
      <4>2. CASE isReady(arr[h])
        BY <4>1, <4>2 DEF ArrayShows
      <4>3. CASE ~ isReady(arr[h])
        <5>1. arr[h].node \in NodeIds /\ node[arr[h].node] # NoNode /\ arr[h].node \notin ShiftInputs(node)
          BY <3>5, <4>3 DEF HeapInv, ArrNodesOK, Ref, isReady, Fits, ArrayFits
        <5>2. ReadsAlike(node, data, e.nodes, data, arr[h].node)
          BY <3>4, <4>1, <4>3, <5>1
        <5>3. /\ \A d, x : Shows(node, data, arr[h].node, d, x) => Shows(e.nodes, data, arr[h].node, d, x)
              /\ ShiftsLead(node, arr[h].node) => ShiftsLead(e.nodes, arr[h].node)
          BY <1>3, <3>4, <5>1, <5>2, ShowsKept
        <5> QED BY <4>1, <4>3, <5>3 DEF ArrayShows
      <4> QED BY <4>2, <4>3
    <3> QED BY <3>1, <3>5 DEF ArraysShow
  <2> QED BY <2>1, <2>2
<1>8. val' = [val EXCEPT ![out] = v]
  BY <1>1, <1>5
<1> HIDE DEF N, v, b, a, e
<1>9. Settle([arr EXCEPT ![out] = ReadyArray(a.dims, b)], N, [data EXCEPT ![b] = v], None)
  BY <1>1
<1> QED BY <1>2, <1>4, <1>6, <1>7, <1>8, <1>9, NewBufferShows, ZenonT(60)

\* A reshaped array has the same elements in column-major order.
LEMMA modDimsShows ==
    ASSUME HeapInv, Fits(arr, node, data), AllShow, NEW h \in Handles, NEW dims \in Shapes, modDims(h, dims)
    PROVE  AllShow'
<1> DEFINE a == arr[h]
           shared == [a EXCEPT !.dims = dims, !.data_dims = dims, !.strides = calcStrides(dims)]
           b == FreshBufs[1]
           v == Read(data, a)
<1>1. ArrayFits(a, node, data) /\ isReady(a) /\ elements(a.dims) = elements(dims) /\ a # NoArray /\ val' = val
  BY DEF Fits, modDims, Live
<1>2. /\ HeapOK(node) /\ data \in Buffers /\ (\A n \in NodeIds : node[n] # NoNode => node[n] # NoNode)
      /\ val = [g \in Handles |-> val[g]] /\ ArraysShow(arr, node, data, val, {})
  BY DEF HeapInv, Fits, AllShow
<1>3. dims \in DimVec /\ a.dims \in DimVec /\ a.strides \in Strides
  BY <1>1, JitAssumption DEF ArrayFits, Arrays, DimVec
<1>4. ArrayShows(a, node, data, val[h]) /\ Listing(val[h], elements(dims)) /\ Holds(a, data, val[h])
  BY <1>1, <1>2 DEF ArraysShow, ArrayShows
<1>5. val' = [val EXCEPT ![h] = val[h]]
  BY <1>1, <1>2
<1>6. CASE isLinear(a)
  <2>1. Settle([arr EXCEPT ![h] = shared], node, data, None) /\ ArrayFits(shared, node, data)
    BY <1>6, SharedBuffer
  <2>2. /\ shared.dims = dims /\ shared.data_dims = dims /\ shared.strides = calcStrides(dims)
        /\ shared.off = a.off /\ shared.buf = a.buf /\ shared.node = a.node
    BY <1>1 DEF ArrayFits, Arrays
  <2> HIDE DEF shared
  <2>3. isReady(shared) /\ Ref(node, shared.node)
    BY <1>1, <2>2 DEF isReady, Ref
  <2>4. ASSUME NEW id \in Box(dims)
        PROVE  data[shared.buf][1 + shared.off + Dot(id, shared.strides)] = val[h][1 + Dot(id, calcStrides(dims))]
    <3> DEFINE j == Dot(id, calcStrides(dims))
    <3>1. j \in 0 .. elements(a.dims) - 1
      BY <1>1, <1>3, Positions
    <3>2. PICK ia \in Box(a.dims) : Dot(ia, calcStrides(a.dims)) = j
      BY <1>3, <3>1, Positions
    <3>3. Dot(ia, a.strides) = j
      BY <1>3, <1>6, <3>2, LinearContiguous, ContiguousDot
    <3>4. data[a.buf][1 + a.off + j] = val[h][1 + j]
      BY <1>4, <3>2, <3>3 DEF Holds
    <3> QED BY <2>2, <3>4
  <2>5. Within(shared.dims, shared.data_dims)
    BY <1>3, <2>2 DEF Within, DimVec
  <2>6. ArrayShows(shared, node, data, val[h])
    BY <1>4, <2>2, <2>3, <2>4, <2>5 DEF ArrayShows, Holds
  <2>7. val' = [g \in Handles |-> val'[g]] /\ ArraysShow(arr', node', data', val', {})
    BY <1>2, <1>5, <2>1, <2>3, <2>6, PutShows
  <2> QED BY <2>7 DEF AllShow
<1>7. CASE ~ isLinear(a)
  <2>1. Settle([arr EXCEPT ![h] = ReadyArray(dims, b)], node, [data EXCEPT ![b] = v], None)
    BY <1>1, <1>7 DEF modDims, Contents
  <2>2. b \in BufIds /\ data[b] = <<>>
    BY OneBuffer DEF modDims
  <2>3. v \in Seq(Values) /\ Len(v) = elements(dims)
    BY <1>1, <1>2, ReadReady
  <2>4. v = val[h]
    <3>1. Listing(val[h], elements(a.dims))
      BY <1>1, <1>4
    <3> QED BY <1>3, <1>4, <3>1, ReadHeld
  <2> HIDE DEF b, v
  <2> QED BY <1>2, <1>5, <2>1, <2>2, <2>3, <2>4, NewBufferShows
<1> QED BY <1>6, <1>7

\* A call begins with operands that repeat along the shape of the result.
LEMMA BegunShows ==
    ASSUME AllShow, NEW op, op # "eval", NEW ins, NEW arg, NEW todo, Begin(op, ins, arg, todo),
           op \in {"nary", "select"} => \A i \in 1 .. Len(ins) : Narrow(arr[ins[i]].dims, arg)
    PROVE  ValInv'
<1>1. /\ call'.op = op /\ call'.ins = ins /\ call'.arg = arg /\ call'.node = None
      /\ arr' = arr /\ node' = node /\ data' = data /\ val' = val
  BY DEF Begin
<1>2. CallShows'
  BY <1>1 DEF CallShows
<1>3. ArraysShow(arr', node', data', val', AboutToEval')
  <2>1. ArraysShow(arr', node', data', val', {})
    BY <1>1 DEF AllShow
  <2> QED BY <2>1, MoreWait
<1> QED BY <1>1, <1>2, <1>3 DEF ValInv, AllShow

\* Arrays of one shape
LEMMA SameShapes ==
    ASSUME NEW d
    PROVE  Narrow(d, d)
BY DEF Narrow

\* Every call of the API keeps the values of the arrays.
LEMMA CallVals ==
    ASSUME HeapInv, Fits(arr, node, data), ValInv, call = NoCall, Call
    PROVE  ValInv'
<1>1. AllShow
  <2>1. call.op # "eval"
    BY DEF NoCall
  <2> QED BY <2>1, NoneWaits DEF AllShow, ValInv
<1>2. ASSUME AllShow', UNCHANGED call PROVE ValInv'
  BY <1>2, AllShown
<1>3. ASSUME NEW h \in Handles, NEW s \in Shapes,
             \/ createHostDataArray(h, s) \/ createValueArray(h, s) \/ modDims(h, s)
             \/ moddimOp(h, s) \/ tile(h, s)
      PROVE  ValInv'
  <2>1. CASE createHostDataArray(h, s)
    <3>1. UNCHANGED call
      BY <2>1 DEF createHostDataArray
    <3> QED BY <1>1, <1>2, <2>1, <3>1, createHostDataArrayShows
  <2>2. CASE createValueArray(h, s)
    <3>1. UNCHANGED call
      BY <2>2 DEF createValueArray
    <3> QED BY <1>1, <1>2, <2>2, <3>1, createValueArrayShows
  <2>3. CASE modDims(h, s)
    <3>1. UNCHANGED call
      BY <2>3 DEF modDims
    <3> QED BY <1>1, <1>2, <2>3, <3>1, modDimsShows
  <2>4. CASE moddimOp(h, s)
    <3>1. PICK todo : Begin("moddims", <<h>>, s, todo)
      BY <2>4 DEF moddimOp
    <3> QED BY <1>1, <3>1, BegunShows
  <2>5. CASE tile(h, s)
    <3>1. Begin("nary", <<h>>, s, <<>>) /\ Narrow(arr[h].dims, s)
      BY <2>5 DEF tile, Narrow
    <3>2. \A i \in 1 .. Len(<<h>>) : <<h>>[i] = h
      OBVIOUS
    <3>3. \A i \in 1 .. Len(<<h>>) : Narrow(arr[<<h>>[i]].dims, s)
      BY <3>1, <3>2
    <3> QED BY <1>1, <3>1, <3>3, BegunShows
  <2> QED BY <1>3, <2>1, <2>2, <2>3, <2>4, <2>5
<1>4. ASSUME NEW hs \in SUBSET Handles \ {{}}, evalMultiple(hs) PROVE ValInv'
  <2>1. UNCHANGED call /\ hs \in SUBSET Handles
    BY <1>4 DEF evalMultiple
  <2> QED BY <1>1, <1>2, <1>4, <2>1, evalMultipleShows
<1>5. ASSUME NEW h \in Handles, release(h) PROVE ValInv'
  <2>1. UNCHANGED call
    BY <1>5 DEF release
  <2> QED BY <1>1, <1>2, <1>5, <2>1, releaseShows
<1>6. ASSUME NEW h \in Handles, NEW g \in Handles,
             retainHandle(g, h) \/ copyArray(g, h) \/ binaryOp(h, g)
      PROVE  ValInv'
  <2>1. CASE retainHandle(g, h)
    <3>1. UNCHANGED call
      BY <2>1 DEF retainHandle
    <3> QED BY <1>1, <1>2, <2>1, <3>1, retainHandleShows
  <2>2. CASE copyArray(g, h)
    <3>1. UNCHANGED call
      BY <2>2 DEF copyArray
    <3> QED BY <1>1, <1>2, <2>2, <3>1, copyArrayShows
  <2>3. CASE binaryOp(h, g)
    <3>1. Begin("nary", <<h, g>>, arr[h].dims, <<>>)
      BY <2>3 DEF binaryOp
    <3>2. \A i \in 1 .. Len(<<h, g>>) : arr[<<h, g>>[i]].dims = arr[h].dims
      <4>1. <<h, g>>[1] = h /\ SameDims(<<h, g>>)
        BY <2>3 DEF binaryOp
      <4> QED BY <4>1 DEF SameDims
    <3>3. \A i \in 1 .. Len(<<h, g>>) : Narrow(arr[<<h, g>>[i]].dims, arr[h].dims)
      BY <3>2, SameShapes
    <3> QED BY <1>1, <3>1, <3>3, BegunShows
  <2> QED BY <1>6, <2>1, <2>2, <2>3
<1>7. ASSUME NEW h \in Handles, NEW g \in Handles, NEW k \in Handles, select(h, g, k) PROVE ValInv'
  <2>1. Begin("select", <<h, g, k>>, arr[h].dims, <<>>)
    BY <1>7 DEF select
  <2>2. \A i \in 1 .. Len(<<h, g, k>>) : arr[<<h, g, k>>[i]].dims = arr[h].dims
    <3>1. <<h, g, k>>[1] = h /\ SameDims(<<h, g, k>>)
      BY <1>7 DEF select
    <3> QED BY <3>1 DEF SameDims
  <2>3. \A i \in 1 .. Len(<<h, g, k>>) : Narrow(arr[<<h, g, k>>[i]].dims, arr[h].dims)
    BY <2>2, SameShapes
  <2> QED BY <1>1, <2>1, <2>3, BegunShows
<1>8. ASSUME NEW h \in Handles, NEW a \in ShiftAmounts, shift(h, a) PROVE ValInv'
  <2>1. Begin("shift", <<h>>, a, <<h>>)
    BY <1>8 DEF shift
  <2> QED BY <1>1, <2>1, BegunShows
<1>9. ASSUME NEW h \in Handles, NEW seqs \in [Dims -> Seqs], index(h, seqs) PROVE ValInv'
  <2>1. Begin("index", <<h>>, seqs, <<h>>)
    BY <1>9 DEF index
  <2> QED BY <1>1, <2>1, BegunShows
<1> QED BY <1>3, <1>4, <1>5, <1>6, <1>7, <1>8, <1>9 DEF Call

\* An operation has the same elements as long as its operands have their shapes.
LEMMA SameOperation ==
    ASSUME NEW ins, NEW e, val' = val, \A i \in 1 .. Len(ins) : arr'[ins[i]].dims = arr[ins[i]].dims
    PROVE  OperationOn(ins, e)' = OperationOn(ins, e)
<1> DEFINE Entry(i, j) == LET d == arr[ins[i]].dims IN
                          val[ins[i]][1 + Dot([k \in Dims |-> IF d[k] = 1 THEN 0 ELSE Unravel(j, e)[k]], calcStrides(d))]
           After(i, j) == LET d == arr'[ins[i]].dims IN
                          val'[ins[i]][1 + Dot([k \in Dims |-> IF d[k] = 1 THEN 0 ELSE Unravel(j, e)[k]], calcStrides(d))]
<1>1. /\ OperationOn(ins, e) = [m \in 1 .. elements(e) |-> Operation([i \in 1 .. Len(ins) |-> Entry(i, m - 1)])]
      /\ OperationOn(ins, e)' = [m \in 1 .. elements(e) |-> Operation([i \in 1 .. Len(ins) |-> After(i, m - 1)])]
  BY DEF OperationOn, Fill
<1>2. \A i \in 1 .. Len(ins) : \A j : Entry(i, j) = After(i, j)
  OBVIOUS
<1> HIDE DEF Entry, After
<1>3. \A m : [i \in 1 .. Len(ins) |-> Entry(i, m - 1)] = [i \in 1 .. Len(ins) |-> After(i, m - 1)]
  BY <1>2
<1> QED BY <1>1, <1>3

\* An evaluation returns.
LEMMA FinishEvalShows ==
    ASSUME TreeInv, GeoInv, ValInv, FinishEval
    PROVE  ValInv'
<1>1. call' = NoCall /\ UNCHANGED <<arr, node, data, val>> /\ call.todo = <<>>
  BY DEF FinishEval, Executing
<1>2. ArraysShow(arr, node, data, val, {})
  BY <1>1, NoneWaits
<1>3. AllShow'
  BY <1>1, <1>2 DEF AllShow, ValInv
<1> QED BY <1>1, <1>3, AllShown

\* An operand is evaluated.
LEMMA EvalOperandShows ==
    ASSUME TreeInv, GeoInv, ValInv, EvalOperand
    PROVE  ValInv'
<1> DEFINE h == Head(call.todo)
<1>1. /\ call.todo \in Seq(Handles) /\ call.todo # <<>> /\ h \in Handles
      /\ call'.op = call.op /\ call'.ins = call.ins /\ call'.arg = call.arg /\ call'.node = call.node
      /\ val' = val /\ call.op \in Ops /\ call.op # "none"
  <2>1. call.todo \in Seq(Handles) /\ call.todo # <<>>
    BY DEF EvalOperand, TreeInv, CallInv, CallShape
  <2>2. call' = [call EXCEPT !.todo = Tail(call.todo)] /\ val' = val
    BY DEF EvalOperand
  <2>3. call = [op |-> call.op, ins |-> call.ins, arg |-> call.arg, todo |-> call.todo, node |-> call.node]
    BY DEF TreeInv, CallInv, CallShape
  <2>4. /\ call'.op = call.op /\ call'.ins = call.ins /\ call'.arg = call.arg /\ call'.node = call.node
    BY <2>2, <2>3
  <2>5. h \in Handles
    BY <2>1
  <2> QED BY <2>1, <2>2, <2>4, <2>5 DEF GeoInv, CallFits, CallKnown
<1>2. AboutToEval \in SUBSET {h}
  BY DEF AboutToEval
<1> HIDE DEF h
<1>3. /\ val = [g \in Handles |-> val[g]] /\ ArraysShow(arr, node, data, val, AboutToEval)
      /\ HeapInv /\ Fits(arr, node, data)
  BY DEF ValInv, TreeInv, GeoInv
<1>4. /\ ArraysShow(arr', node', data', val, {})
      /\ \A g \in Handles : arr'[g].dims = arr[g].dims
      /\ call.node # None => /\ \A d, v : Shows(node, data, call.node, d, v) => Shows(node', data', call.node, d, v)
                             /\ ShiftsLead(node, call.node) => ShiftsLead(node', call.node)
  <2>1. CASE isReady(arr[h])
    <3>1. arr' = arr /\ node' = node /\ data' = data
      BY <2>1 DEF EvalOperand, h
    <3>2. ArraysShow(arr, node, data, val, {})
      BY <1>2, <1>3, <2>1 DEF ArraysShow
    <3> QED BY <3>1, <3>2
  <2>2. CASE ~ isReady(arr[h])
    <3>1. LET e == Evaluate({h}) IN Settle(e.arr, e.node, e.data, call.node)
      BY <2>2 DEF EvalOperand, h
    <3>2. Pending({h}) = {h} /\ {h} \in SUBSET Handles /\ Cardinality({h}) = 1
      BY <1>1, <2>2, FS_Singleton DEF Pending
    <3>3. Ref(node, call.node) /\ call.node \notin ShiftInputs(node)
      <4>1. Ref(node, call.node)
        BY DEF TreeInv, CallInv, CallNodeOK, Ref
      <4> QED BY <1>3, <4>1, NoRoot DEF GeoInv, CallFits, CallArg
    <3>4. \A f, g \in {h} : arr[f].dims = arr[g].dims
      OBVIOUS
    <3>5. Pending({h}) # {} /\ Cardinality(Pending({h})) <= Cardinality(FreeBufs)
      <4>1. Cardinality(FreeBufs) >= 1
        BY <1>1, UnreadyCount, FreeBufCount DEF GeoInv, CallFits, CallKnown, CallBufs, Ops, OperandOps
      <4> QED BY <3>2, <4>1, FreeBufCount
    <3>6. call.node # None => ShiftsLead(node, call.node)
      BY DEF ValInv, CallShows
    <3>7. \A g \in Handles : arr'[g].dims = arr[g].dims
      <4>1. \A g \in Handles : IF g \in Pending({h})
                                THEN isReady(arr'[g]) /\ isLinear(arr'[g]) /\ arr'[g].dims = arr[g].dims
                                     /\ arr'[g] # NoArray
                                ELSE arr'[g] = arr[g]
        BY <1>3, <3>1, <3>2, <3>3, <3>4, <3>5, EvaluateFits
      <4> QED BY <4>1
    <3>8. /\ ArraysShow(arr', node', data', val, {})
          /\ call.node # None => /\ \A d, v : Shows(node, data, call.node, d, v) => Shows(node', data', call.node, d, v)
                                 /\ ShiftsLead(node', call.node)
      BY <1>2, <1>3, <3>1, <3>2, <3>3, <3>4, <3>5, <3>6, EvaluateShows
    <3> QED BY <3>7, <3>8
  <2> QED BY <2>1, <2>2
<1>5. CallShows'
  <2>1. call.node # None => call.op = "nary"
    BY DEF TreeInv, CallInv, CallNodeOK
  <2>2. call.op \in OperandOps => \A i \in 1 .. Len(call.ins) : call.ins[i] \in Handles
    BY OperandFits
  <2>3. call.op \in {"nary", "select"} => \A i \in 1 .. Len(call.ins) : arr'[call.ins[i]].dims = arr[call.ins[i]].dims
    BY <1>4, <2>2 DEF OperandOps
  <2>4. call.node # None => OperationOn(call.ins, call.arg)' = OperationOn(call.ins, call.arg)
    <3>1. ASSUME call.node # None PROVE OperationOn(call.ins, call.arg)' = OperationOn(call.ins, call.arg)
      <4>1. \A i \in 1 .. Len(call.ins) : arr'[call.ins[i]].dims = arr[call.ins[i]].dims
        BY <2>1, <2>3, <3>1
      <4> DEFINE ins == call.ins
                 e == call.arg
      <4>2. call'.ins = ins /\ call'.arg = e
        BY <1>1
      <4> QED BY <1>1, <4>1, <4>2, SameOperation
    <3> QED BY <3>1
  <2> QED BY <1>1, <1>4, <2>1, <2>3, <2>4 DEF CallShows, ValInv
<1>6. ArraysShow(arr', node', data', val', AboutToEval')
  <2>1. ArraysShow(arr', node', data', val', {})
    BY <1>1, <1>4
  <2> QED BY <2>1, MoreWait
<1> QED BY <1>1, <1>3, <1>5, <1>6 DEF ValInv

\* The node built before the evaluation still shows the operation.
LEMMA ReturnOldNodeShows ==
    ASSUME TreeInv, GeoInv, ValInv, ReturnOldNode
    PROVE  ValInv'
<1> DEFINE a == createNodeArray(call.arg, call.node)
           v == OperationOn(call.ins, call.arg)
<1>1. HeapInv /\ HeapOK(node) /\ Head(call.ins) \in Handles
  BY FirstOperand DEF TreeInv, HeapInv, CallInv, ReturnOldNode, OperandOps
<1>2. call.node \in NodeIds /\ node[call.node] # NoNode /\ call.node \notin ShiftInputs(node) /\ call.node # None
  BY DEF ReturnOldNode, TreeInv, CallInv, CallNodeOK, GeoInv, CallFits, CallArg
<1>3. call.arg \in Shapes /\ call.arg \in DimVec /\ Fits(arr, node, data)
  BY JitAssumption DEF ReturnOldNode, GeoInv, CallFits, CallArg, DimVec
<1>4. ArrayFits(a, node, data) /\ Ref(node, a.node)
  BY <1>2, <1>3, NodeArrayFits, MadeArrays DEF Ref
<1>5. Finish(a, node, data, v) /\ call' = NoCall /\ call.op # "eval"
  BY DEF ReturnOldNode
<1>6. /\ val = [g \in Handles |-> val[g]] /\ ArraysShow(arr, node, data, val, {})
      /\ Shows(node, data, call.node, call.arg, v) /\ ShiftsLead(node, call.node)
  BY <1>2, <1>5, NoneWaits DEF ValInv, CallShows
<1>7. a.node = call.node /\ a.dims = call.arg /\ ~ isReady(a)
  BY <1>2 DEF createNodeArray, isReady
<1>8. Listing(v, elements(call.arg))
  BY <1>3, OperationAt
<1> HIDE DEF a, v
<1>9. ArrayShows(a, node, data, v) /\ ShiftsLead(node, a.node)
  BY <1>6, <1>7, <1>8 DEF ArrayShows
<1>10. Extended(node, data, node, data)
  BY DEF Extended
<1>11. val' = [g \in Handles |-> val'[g]] /\ ArraysShow(arr', node', data', val', {})
  BY <1>1, <1>3, <1>4, <1>5, <1>6, <1>9, <1>10, FinishShows
<1> QED BY <1>5, <1>11, AllShown DEF AllShow

\* A call that was refused has its operands still.
LEMMA RefusedShows ==
    ASSUME CallShape, ValInv, call.op \in {"nary", "select"}, call.node = None, NEW todo,
           call' = [call EXCEPT !.todo = todo], UNCHANGED <<arr, node, data, val>>
    PROVE  ValInv'
<1>1. /\ call'.op = call.op /\ call'.ins = call.ins /\ call'.arg = call.arg /\ call'.node = call.node
  BY DEF CallShape
<1>2. CallShows'
  BY <1>1 DEF ValInv, CallShows
<1>3. ArraysShow(arr', node', data', val', AboutToEval')
  <2>1. ArraysShow(arr, node, data, val, {})
    BY NoneWaits
  <2> QED BY <2>1, MoreWait
<1> QED BY <1>2, <1>3 DEF ValInv

\* A call of an operation that returns an array with a new node
LEMMA OperationReturns ==
    ASSUME TreeInv, GeoInv, ValInv, call.op \in {"nary", "select"}, call.todo = <<>>, call.node = None,
           LET ptr == FreshNodes[Len(call.ins) + 1]
               N == WithBufferNodes(call.ins)
               N1 == [N EXCEPT ![ptr] = NaryNode(N, GetNodes(call.ins))]
           IN  Finish(createNodeArray(call.arg, ptr), N1, data, OperationOn(call.ins, call.arg)),
           call' = NoCall
    PROVE  ValInv'
<1> DEFINE ins == call.ins
           N == WithBufferNodes(ins)
           ptr == FreshNodes[Len(ins) + 1]
           N1 == [N EXCEPT ![ptr] = NaryNode(N, GetNodes(ins))]
           a == createNodeArray(call.arg, ptr)
           v == OperationOn(ins, call.arg)
<1>1. HeapInv /\ CallShape /\ CallRoom /\ Fits(arr, node, data) /\ CallFits
  BY DEF TreeInv, CallInv, GeoInv
<1>2. /\ Len(ins) \in 1 .. kMaxChildren /\ ins \in [1 .. Len(ins) -> Handles] /\ Head(ins) \in Handles
      /\ Cardinality(FreeNodes) >= Len(ins) + 1 /\ \A i \in 1 .. Len(ins) : Live(ins[i])
      /\ call.arg \in Shapes /\ call.arg \in DimVec
  BY <1>1, FirstOperand, JitAssumption DEF CallRoom, OperandOps, CallFits, CallBufs, CallArg, DimVec
<1>3. /\ val = [g \in Handles |-> val[g]] /\ ArraysShow(arr, node, data, val, {})
      /\ \A i \in 1 .. Len(ins) : Narrow(arr[ins[i]].dims, call.arg)
  BY NoneWaits DEF ValInv, CallShows
<1>4. Finish(a, N1, data, v)
  OBVIOUS
<1> HIDE DEF ins
<1>5. NaryGives(ins)
  BY <1>1, <1>2, NaryMade
<1>6. Shows(N1, data, ptr, call.arg, v) /\ ShiftsLead(N1, ptr)
  BY <1>1, <1>2, <1>3, <1>5, NaryResult
<1>7. /\ Fits(arr, N1, data) /\ HeapOK(N1) /\ Extended(node, data, N1, data)
      /\ ptr \in NodeIds \ ShiftInputs(N1) /\ N1[ptr] # NoNode
  BY <1>5 DEF NaryGives
<1>8. Listing(v, elements(call.arg))
  BY <1>2, OperationAt
<1> HIDE DEF N, ptr, N1, v
<1>9. ArrayFits(a, N1, data) /\ Ref(N1, a.node) /\ a.node = ptr /\ a.dims = call.arg /\ ~ isReady(a)
  <2>1. a.node = ptr /\ a.dims = call.arg /\ ptr # None
    BY <1>7, NoneIsNoNode DEF createNodeArray
  <2> QED BY <1>2, <1>7, <2>1, NodeArrayFits DEF Ref, isReady
<1> HIDE DEF a
<1>10. ArrayShows(a, N1, data, v) /\ ShiftsLead(N1, a.node)
  BY <1>6, <1>8, <1>9 DEF ArrayShows
<1>11. Head(call.ins) \in Handles
  BY <1>2 DEF ins
<1>12. val' = [g \in Handles |-> val'[g]] /\ ArraysShow(arr', node', data', val', {})
  BY <1>1, <1>3, <1>4, <1>7, <1>9, <1>10, <1>11, FinishShows
<1> QED BY <1>12, AllShown DEF AllShow

\* A new tree shows the operation; so does the one that is kept until its
\* operands are evaluated.
LEMMA createNaryNodeShows ==
    ASSUME TreeInv, GeoInv, ValInv, createNaryNode
    PROVE  ValInv'
<1> DEFINE ins == call.ins
           N == WithBufferNodes(ins)
           nodes == GetNodes(ins)
           ptr == FreshNodes[Len(ins) + 1]
           N1 == [N EXCEPT ![ptr] = NaryNode(N, nodes)]
           v == OperationOn(ins, call.arg)
<1>1. HeapInv /\ CallShape /\ CallRoom /\ Fits(arr, node, data) /\ CallFits
  BY DEF TreeInv, CallInv, GeoInv
<1>2. call.op = "nary" /\ call.todo = <<>> /\ call.node = None
  BY DEF createNaryNode, Executing
<1>3. \/ /\ Finish(createNodeArray(call.arg, ptr), N1, data, v) /\ call' = NoCall
      \/ /\ call' = [call EXCEPT !.todo = <<ins[Tallest(N, nodes)]>>]
         /\ UNCHANGED <<arr, node, data, val>>
      \/ /\ call' = [call EXCEPT !.todo = ins, !.node = ptr]
         /\ Settle(arr, N1, data, ptr) /\ UNCHANGED val
  BY DEF createNaryNode
<1>4. CASE Finish(createNodeArray(call.arg, ptr), N1, data, v) /\ call' = NoCall
  BY <1>2, <1>4, OperationReturns
<1>5. CASE /\ call' = [call EXCEPT !.todo = <<ins[Tallest(N, nodes)]>>]
           /\ UNCHANGED <<arr, node, data, val>>
  BY <1>1, <1>2, <1>5, RefusedShows
<1>6. CASE /\ call' = [call EXCEPT !.todo = ins, !.node = ptr]
           /\ Settle(arr, N1, data, ptr) /\ UNCHANGED val
  <2>1. /\ Len(ins) \in 1 .. kMaxChildren /\ ins \in [1 .. Len(ins) -> Handles]
        /\ Cardinality(FreeNodes) >= Len(ins) + 1 /\ \A i \in 1 .. Len(ins) : Live(ins[i])
        /\ call.arg \in DimVec
    BY <1>1, <1>2, FirstOperand, JitAssumption DEF CallRoom, OperandOps, CallFits, CallBufs, CallArg, DimVec
  <2>2. /\ val = [g \in Handles |-> val[g]] /\ ArraysShow(arr, node, data, val, {})
        /\ \A i \in 1 .. Len(ins) : Narrow(arr[ins[i]].dims, call.arg)
    BY <1>2, NoneWaits DEF ValInv, CallShows
  <2>3. call'.op = "nary" /\ call'.ins = ins /\ call'.arg = call.arg /\ call'.node = ptr
    BY <1>1, <1>2, <1>6 DEF CallShape
  <2> HIDE DEF ins
  <2>4. NaryGives(ins)
    BY <1>1, <2>1, NaryMade
  <2>5. Shows(N1, data, ptr, call.arg, v) /\ ShiftsLead(N1, ptr)
    BY <1>1, <2>1, <2>2, <2>4, NaryResult
  <2>6. /\ Fits(arr, N1, data) /\ HeapOK(N1) /\ Extended(node, data, N1, data)
        /\ ptr \in NodeIds \ ShiftInputs(N1) /\ N1[ptr] # NoNode
    BY <2>4 DEF NaryGives
  <2> HIDE DEF N, nodes, ptr, N1, v
  <2>7. /\ Ref(N1, ptr) /\ ptr # None /\ (\A h \in Handles : Ref(N1, arr[h].node))
        /\ \A h \in Handles : Ref(node, arr[h].node)
    BY <1>1, <2>6, NoneIsNoNode DEF HeapInv, ArrNodesOK, Ref, Extended
  <2>8. /\ arr' = arr
        /\ \A h \in Handles : arr[h] # NoArray =>
             /\ \A x : ArrayShows(arr[h], N1, data, x) => ArrayShows(arr[h], node', data', x)
             /\ ~ isReady(arr[h]) /\ ShiftsLead(N1, arr[h].node) => ShiftsLead(node', arr[h].node)
        /\ \A d, x : Shows(N1, data, ptr, d, x) => Shows(node', data', ptr, d, x)
        /\ ShiftsLead(N1, ptr) => ShiftsLead(node', ptr)
    BY <1>6, <2>6, <2>7, SettleShows
  <2>9. ArraysShow(arr, N1, data, val, {})
    <3>1. HeapOK(node) /\ HeapFits(N1, data)
      BY <1>1, <2>6 DEF HeapInv, Fits
    <3> QED BY <1>1, <2>2, <2>6, <2>7, <3>1, ExtendedArrays
  <2>10. ArraysShow(arr', node', data', val', AboutToEval')
    <3>1. ArraysShow(arr', node', data', val', {})
      BY <1>6, <2>8, <2>9 DEF ArraysShow
    <3> QED BY <3>1, MoreWait
  <2>11. CallShows'
    <3>1. arr' = arr /\ val' = val /\ \A i \in 1 .. Len(ins) : arr'[ins[i]].dims = arr[ins[i]].dims
      BY <1>6, <2>8
    <3>2. OperationOn(call.ins, call.arg)' = v
      <4>1. call'.ins = ins /\ call'.arg = call.arg
        BY <2>3
      <4> DEFINE e == call.arg
      <4>2. OperationOn(ins, e)' = OperationOn(ins, e)
        BY <3>1, <4>1, SameOperation DEF ins
      <4> QED BY <4>1, <4>2 DEF v, ins
    <3> QED BY <2>2, <2>3, <2>5, <2>8, <3>1, <3>2 DEF CallShows
  <2> QED BY <1>6, <2>2, <2>10, <2>11 DEF ValInv
<1> QED BY <1>3, <1>4, <1>5, <1>6

\* A select shows the choice of its operands.
LEMMA createSelectNodeShows ==
    ASSUME TreeInv, GeoInv, ValInv, createSelectNode
    PROVE  ValInv'
<1> DEFINE ins == call.ins
           N == WithBufferNodes(ins)
           nodes == GetNodes(ins)
           ptr == FreshNodes[4]
           N1 == [N EXCEPT ![ptr] = NaryNode(N, nodes)]
           v == OperationOn(ins, call.arg)
<1>1. CallShape
  BY DEF TreeInv, CallInv
<1>2. call.op = "select" /\ call.todo = <<>> /\ call.node = None
  BY DEF createSelectNode, Executing
<1>3. \/ /\ Finish(createNodeArray(call.arg, ptr), N1, data, v) /\ call' = NoCall
      \/ /\ call' = [call EXCEPT !.todo = <<ins[SelectVictim(N, nodes)]>>]
         /\ UNCHANGED <<arr, node, data, val>>
  BY DEF createSelectNode
<1>4. CASE Finish(createNodeArray(call.arg, ptr), N1, data, v) /\ call' = NoCall
  <2>1. Len(ins) = 3
    BY <1>1, <1>2 DEF CallShape, OperandOps, Arity
  <2>2. FreshNodes[Len(ins) + 1] = ptr
    BY <2>1
  <2> QED BY <1>2, <1>4, <2>2, OperationReturns
<1>5. CASE /\ call' = [call EXCEPT !.todo = <<ins[SelectVictim(N, nodes)]>>]
           /\ UNCHANGED <<arr, node, data, val>>
  BY <1>1, <1>2, <1>5, RefusedShows
<1> QED BY <1>3, <1>4, <1>5

\* The elements that a shift has
LEMMA ShiftedAt ==
    ASSUME NEW v, NEW d \in DimVec, NEW sdims \in [Dims -> Int]
    PROVE  /\ Listing(Shifted(v, d, sdims), elements(d))
           /\ \A id \in Box(d) :
                LET back == [k \in Dims |-> (id[k] - sdims[k]) % d[k]]
                IN  /\ back \in Box(d)
                    /\ Shifted(v, d, sdims)[1 + Dot(id, calcStrides(d))] = v[1 + Dot(back, calcStrides(d))]
                    /\ Rotate(id, Shifts(sdims, d), d) = back
<1> DEFINE Back(id) == [k \in Dims |-> (id[k] - sdims[k]) % d[k]]
           At(id) == v[1 + Dot(Back(id), calcStrides(d))]
           o == Shifted(v, d, sdims)
           n == elements(d)
<1>1. o = [j \in 1 .. n |-> At(Unravel(j - 1, d))]
  BY DEF Shifted, Fill
<1> HIDE DEF o, At
<1>2. Listing(o, n)
  BY <1>1 DEF Listing
<1>3. ASSUME NEW id \in Box(d)
      PROVE  Back(id) \in Box(d) /\ o[1 + Dot(id, calcStrides(d))] = At(id) /\ Rotate(id, Shifts(sdims, d), d) = Back(id)
  <2> DEFINE j == Dot(id, calcStrides(d))
  <2>1. j \in 0 .. n - 1 /\ Unravel(j, d) = id /\ n \in Nat
    BY Positions, ShapeFacts
  <2> HIDE DEF j, n
  <2>2. 1 + j \in 1 .. n /\ (1 + j) - 1 = j
    BY <2>1
  <2>3. o[1 + j] = At(Unravel((1 + j) - 1, d))
    BY <1>1, <2>2
  <2>4. ASSUME NEW k \in Dims
        PROVE  /\ circular_mod(id[k] + Shifts(sdims, d)[k], d[k]) = (id[k] - sdims[k]) % d[k]
               /\ (id[k] - sdims[k]) % d[k] \in Nat /\ (id[k] - sdims[k]) % d[k] < d[k]
    <3>1. id[k] \in 0 .. d[k] - 1 /\ d \in [Dims -> Nat \ {0}] /\ d[k] \in Nat \ {0}
      BY DEF Box, DimVec
    <3>2. /\ circular_mod(id[k] + Shifts(sdims, d)[k], d[k]) = (id[k] - sdims[k]) % d[k]
          /\ circular_mod(id[k] + Shifts(sdims, d)[k], d[k]) \in 0 .. d[k] - 1
      BY <3>1, ShiftReadsRotated
    <3> QED BY <3>1, <3>2
  <2>5. Back(id) \in Box(d)
    BY <2>4 DEF Box
  <2>6. Rotate(id, Shifts(sdims, d), d) = Back(id)
    BY <2>4 DEF Rotate
  <2> QED BY <2>1, <2>2, <2>3, <2>5, <2>6 DEF j
<1> QED BY <1>2, <1>3 DEF o, At

\* A shift node shows the shifted elements of the buffer it reads.
LEMMA ShiftShows ==
    ASSUME NEW N, HeapOK(N), NEW D \in Buffers, HeapFits(N, D), NEW s \in NodeIds, N[s].kind = "shift",
           NEW a, ArrayFits(a, N, D), isReady(a), N[N[s].in] = BufferNode(a),
           NEW v, ArrayShows(a, N, D, v), NEW sdims \in [Dims -> Int], N[s].shifts = Shifts(sdims, a.dims)
    PROVE  /\ Shows(N, D, s, a.dims, Shifted(v, a.dims, sdims))
           /\ Leading(a.dims) => ShiftsLead(N, s)
<1> DEFINE d == a.dims
           r == BufferNode(a)
           w == Shifted(v, d, sdims)
<1>1. d \in DimVec /\ r.dims = d /\ r.strides = a.strides /\ r.off = a.off /\ r.buf = a.buf
  BY JitAssumption DEF ArrayFits, Arrays, DimVec, BufferNode
<1>2. Tree(N, s) = {s}
  BY TreeParts
<1>3. TreeReads(N, s, d) /\ (Leading(d) => ShiftsLead(N, s))
  BY <1>1, <1>2, SameShapes DEF TreeReads, ShiftsLead
<1>4. ASSUME NEW id \in Box(d) PROVE ValueAt(N, D, s, id) = w[1 + Dot(id, calcStrides(d))]
  <2> DEFINE back == [k \in Dims |-> (id[k] - sdims[k]) % d[k]]
  <2>1. /\ back \in Box(d) /\ w[1 + Dot(id, calcStrides(d))] = v[1 + Dot(back, calcStrides(d))]
        /\ Rotate(id, Shifts(sdims, d), d) = back
    BY <1>1, ShiftedAt
  <2> HIDE DEF back, w, d, r
  <2>2. ValueAt(N, D, s, id) = ReadShift(D, r, Shifts(sdims, d), id)
    <3>1. ValueAt(N, D, s, id) = ReadShift(D, N[N[s].in], N[s].shifts, id)
      BY LeafValue
    <3> QED BY <3>1 DEF d, r
  <2>3. ReadShift(D, r, Shifts(sdims, d), id) = ReadBuffer(D, r, back)
    <3>1. ReadShift(D, r, Shifts(sdims, d), id) = ReadBuffer(D, r, Rotate(id, Shifts(sdims, d), r.dims))
      BY ReadsByIndex
    <3> QED BY <1>1, <2>1, <3>1
  <2>4. ReadBuffer(D, r, back) = D[r.buf][1 + r.off + Dot(Clip(back, r.dims), r.strides)]
    BY ReadsByIndex
  <2>5. Clip(back, r.dims) = back
    <3>1. back \in [Dims -> Nat]
      BY <2>1 DEF Box
    <3> QED BY <1>1, <2>1, <3>1, Clipped
  <2>6. D[a.buf][1 + a.off + Dot(back, a.strides)] = v[1 + Dot(back, calcStrides(d))]
    BY <2>1 DEF ArrayShows, Holds, d
  <2> QED BY <1>1, <2>1, <2>2, <2>3, <2>4, <2>5, <2>6
<1> QED BY <1>3, <1>4 DEF Shows

\* A shift shows the shifted elements; one of an array with an empty column is
\* evaluated before anything else.
LEMMA createShiftNodeShows ==
    ASSUME ~ ShareRowShifts, TreeInv, GeoInv, ValInv, createShiftNode
    PROVE  ValInv'
<1> DEFINE in == call.ins[1]
           dims == arr[in].dims
           b == FreshNodes[1]
           s == FreshNodes[2]
           r == ShiftNode(b, Shifts(call.arg, dims))
           N2 == [WithBufferNodes(<<in>>) EXCEPT ![s] = r]
           a == createNodeArray(dims, s)
           v == Shifted(val[in], dims, call.arg)
<1>1. HeapInv /\ Fits(arr, node, data)
  BY DEF TreeInv, GeoInv
<1>2. call.op = "shift"
  BY DEF createShiftNode, Executing
<1>3. /\ val = [g \in Handles |-> val[g]] /\ ArraysShow(arr, node, data, val, {})
  BY <1>2, NoneWaits DEF ValInv
<1>4. ShiftGives
  BY ShiftMade
<1>5. /\ Finish(a, N2, data, v)
      /\ call' = NextCall(in, EmptyColumns(dims) /\ ~ ShareRowShifts)
  BY <1>4 DEF createShiftNode, ShiftGives
<1>6. /\ HeapOK(N2) /\ Fits(arr, N2, data) /\ Extended(node, data, N2, data)
      /\ in \in Handles /\ Head(call.ins) = in /\ Live(in) /\ isReady(arr[in])
      /\ ArrayFits(arr[in], node, data) /\ dims \in Shapes /\ dims \in DimVec /\ call.arg \in [Dims -> Int]
      /\ s \in NodeIds \ ShiftInputs(N2) /\ N2[s] = r /\ r \in ShiftNodes /\ r # NoNode
      /\ b \in NodeIds /\ N2[b] = BufferNode(arr[in]) /\ r.shifts = Shifts(call.arg, dims)
      /\ r.kind = "shift" /\ r.in = b
  BY <1>4 DEF ShiftGives
<1> HIDE DEF r, s, b, N2
<1>7. ArrayShows(arr[in], N2, data, val[in])
  <2>1. HeapOK(node) /\ (\A h \in Handles : Ref(node, arr[h].node)) /\ HeapFits(N2, data)
    BY <1>1, <1>6 DEF HeapInv, ArrNodesOK, Fits
  <2>2. ArraysShow(arr, N2, data, val, {})
    BY <1>1, <1>3, <1>6, <2>1, ExtendedArrays
  <2> QED BY <1>6, <2>2 DEF ArraysShow, Live
<1>8. Shows(N2, data, s, dims, v) /\ (Leading(dims) => ShiftsLead(N2, s))
  <2>1. data \in Buffers /\ HeapFits(N2, data) /\ ArrayFits(arr[in], N2, data)
    BY <1>6 DEF Fits, Live
  <2> QED BY <1>6, <1>7, <2>1, ShiftShows
<1>9. ArrayFits(a, N2, data) /\ Ref(N2, a.node) /\ a.node = s /\ a.dims = dims /\ ~ isReady(a)
  <2>1. a.node = s /\ a.dims = dims /\ s # None
    BY <1>6, NoneIsNoNode DEF createNodeArray
  <2> QED BY <1>6, <2>1, NodeArrayFits DEF Ref, isReady
<1>10. Listing(v, elements(dims))
  BY <1>6, ShiftedAt
<1>11. EmptyColumns(dims) \/ ShiftsLead(N2, s)
  BY <1>6, <1>8, NoEmptyLeads
<1>12. EmptyColumns(dims) => in \in AboutToEval'
  <2> SUFFICES ASSUME EmptyColumns(dims) PROVE in \in AboutToEval'
    OBVIOUS
  <2>1. call' = [NoCall EXCEPT !.op = "eval", !.todo = <<in>>]
    BY <1>5 DEF NextCall
  <2>2. call'.op = "eval" /\ call'.todo = <<in>>
    BY <2>1 DEF NoCall
  <2> QED BY <1>6, <2>2 DEF AboutToEval
<1>13. call' = NoCall \/ \E h \in Handles : call' = [NoCall EXCEPT !.op = "eval", !.todo = <<h>>]
  BY <1>5, <1>6 DEF NextCall
<1> HIDE DEF a, v, dims
<1>14. ArrayShows(a, N2, data, v)
  BY <1>8, <1>9, <1>10 DEF ArrayShows
<1>15. val' = [g \in Handles |-> val'[g]] /\ ArraysShow(arr', node', data', val', AboutToEval')
  <2>1. isReady(a) \/ Head(call.ins) \in AboutToEval' \/ ShiftsLead(N2, a.node)
    BY <1>6, <1>9, <1>11, <1>12
  <2> QED BY <1>1, <1>3, <1>5, <1>6, <1>9, <1>14, <2>1, FinishShows
<1>16. CallShows'
  BY <1>13, ReturnedShows
<1> QED BY <1>15, <1>16 DEF ValInv

\* Pairs of a node of a tree and a clone of it with shape dims
ClonesOf(N, root, dims, N2, root2, S) ==
    /\ S \in SUBSET (NodeIds \X NodeIds) /\ <<root, root2>> \in S
    /\ \A m, n \in NodeIds : <<m, n>> \in S =>
         /\ m \in Tree(N, root) /\ N2[n].kind = N[m].kind
         /\ N[m].kind = "scalar" => N2[n].value = N[m].value
         /\ N[m].kind = "buffer" => /\ N2[n].buf = N[m].buf /\ N2[n].off = N[m].off
                                    /\ N2[n].dims = dims /\ N2[n].strides = calcStrides(dims)
         /\ N[m].kind = "nary" => /\ Len(N2[n].children) = Len(N[m].children)
                                  /\ \A i \in 1 .. Len(N[m].children) : <<N[m].children[i], N2[n].children[i]>> \in S

\* A tree of clones shows the elements of the linear tree it was copied from.
LEMMA ClonesShow ==
    ASSUME NEW N, HeapOK(N), NEW D \in Buffers, HeapFits(N, D), NEW root \in NodeIds, N[root] # NoNode,
           NEW idims \in DimVec, LinearTree(N, root, idims),
           NEW dims \in DimVec, elements(dims) = elements(idims),
           NEW v, Shows(N, D, root, idims, v),
           NEW N2, HeapOK(N2), HeapFits(N2, D), NEW root2 \in NodeIds,
           NEW S, ClonesOf(N, root, dims, N2, root2, S)
    PROVE  Shows(N2, D, root2, dims, v) /\ ShiftsLead(N2, root2)
<1>1. S \in SUBSET (NodeIds \X NodeIds) /\ <<root, root2>> \in S
  BY DEF ClonesOf
<1>2. ASSUME NEW m \in NodeIds, NEW n \in NodeIds, <<m, n>> \in S
      PROVE  /\ m \in Tree(N, root) /\ N2[n].kind = N[m].kind
             /\ N[m].kind = "scalar" => N2[n].value = N[m].value
             /\ N[m].kind = "buffer" => /\ N2[n].buf = N[m].buf /\ N2[n].off = N[m].off
                                        /\ N2[n].dims = dims /\ N2[n].strides = calcStrides(dims)
             /\ N[m].kind = "nary" => /\ Len(N2[n].children) = Len(N[m].children)
                                      /\ \A i \in 1 .. Len(N[m].children) : <<N[m].children[i], N2[n].children[i]>> \in S
  BY <1>2 DEF ClonesOf
<1>3. ASSUME NEW m \in Tree(N, root)
      PROVE  /\ m \in NodeIds /\ N[m].kind \in {"scalar", "buffer", "nary"}
             /\ N[m].kind = "buffer" => /\ N[m].dims = idims /\ N[m].strides \in Strides
                                        /\ Contiguous(N[m])
  <2>1. m \in NodeIds /\ N[m] # NoNode
    BY TreeClosed
  <2>2. NodeIsLinear(N[m], idims)
    BY DEF LinearTree
  <2>3. N[m].kind \in {"scalar", "buffer", "nary"}
    BY <2>1, <2>2, NodeKinds DEF HeapOK, NodeIsLinear
  <2>4. N[m].kind = "buffer" => N[m].strides \in Strides
    BY <2>1 DEF HeapFits, NodeFits, BufferNodes
  <2>5. N[m].kind = "buffer" => N[m].linear /\ N[m].dims = idims
    BY <2>2 DEF NodeIsLinear
  <2>6. N[m].kind = "buffer" => Contiguous(N[m])
    BY <2>5 DEF Shows, TreeReads
  <2> QED BY <2>1, <2>3, <2>4, <2>5, <2>6
<1>4. ASSUME NEW n \in Tree(N2, root2)
      PROVE  n \in NodeIds /\ \E m \in NodeIds : <<m, n>> \in S
  <2> DEFINE R == {x \in NodeIds : \E m \in NodeIds : <<m, x>> \in S}
  <2>1. root2 \in R /\ R \in SUBSET NodeIds
    BY <1>1
  <2>2. Closed(N2, R)
    <3> SUFFICES ASSUME NEW x \in R PROVE ToSet(Children(N2, x)) \subseteq R
      BY DEF Closed
    <3>1. PICK m \in NodeIds : <<m, x>> \in S
      OBVIOUS
    <3>2. CASE N2[x].kind = "nary"
      <4>1. Children(N2, x) = N2[x].children /\ Len(N2[x].children) = Len(N[m].children)
        BY <1>2, <3>1, <3>2 DEF Children
      <4>2. \A i \in 1 .. Len(N2[x].children) : N2[x].children[i] \in R
        <5> SUFFICES ASSUME NEW i \in 1 .. Len(N2[x].children) PROVE N2[x].children[i] \in R
          OBVIOUS
        <5>1. <<N[m].children[i], N2[x].children[i]>> \in S
          BY <1>2, <3>1, <3>2, <4>1
        <5>2. N[m].children[i] \in NodeIds /\ N2[x].children[i] \in NodeIds
          BY <1>1, <5>1
        <5> QED BY <5>1, <5>2
      <4> HIDE DEF R
      <4> QED BY <4>1, <4>2 DEF ToSet
    <3>3. CASE N2[x].kind # "nary"
      <4>1. Children(N2, x) = <<>>
        BY <3>3 DEF Children
      <4>2. ToSet(<<>>) = {}
        BY DEF ToSet
      <4> QED BY <4>1, <4>2
    <3> QED BY <3>2, <3>3
  <2> HIDE DEF R
  <2>3. Tree(N2, root2) \subseteq R
    BY <2>1, <2>2, TreeWithin
  <2> QED BY <2>3 DEF R
<1>5. ASSUME NEW n \in Tree(N2, root2)
      PROVE  /\ N2[n].kind # "shift"
             /\ N2[n].kind = "buffer" => N2[n].dims = dims /\ N2[n].strides = calcStrides(dims)
  <2>1. PICK m \in NodeIds : <<m, n>> \in S
    BY <1>4
  <2> QED BY <1>2, <1>3, <1>4, <2>1
<1>6. TreeReads(N2, root2, dims) /\ ShiftsLead(N2, root2)
  <2>1. ShiftsLead(N2, root2)
    BY <1>5 DEF ShiftsLead
  <2>2. \A n \in Tree(N2, root2) : N2[n].kind = "buffer" => Narrow(N2[n].dims, dims) /\ Contiguous(N2[n])
    BY <1>5, SameShapes DEF Contiguous
  <2> QED BY <1>5, <2>1, <2>2 DEF TreeReads
<1>7. ASSUME NEW id \in Box(dims)
      PROVE  ValueAt(N2, D, root2, id) = v[1 + Dot(id, calcStrides(dims))]
  <2> DEFINE j == Dot(id, calcStrides(dims))
             id1 == Unravel(j, idims)
  <2>1. j \in 0 .. elements(dims) - 1
    BY Positions
  <2>2. id1 \in Box(idims) /\ Dot(id1, calcStrides(idims)) = j
    <3> HIDE DEF j
    <3> QED BY <2>1, Positions
  <2>3. id \in [Dims -> Nat] /\ id1 \in [Dims -> Nat]
    BY <2>2 DEF Box
  <2> HIDE DEF id1, j
  <2>4. ASSUME NEW m \in NodeIds, NEW n \in NodeIds, <<m, n>> \in S
        PROVE  \/ \A p, w : StepAt(N, D, id1, p, m) = StepAt(N2, D, id, w, n)
               \/ /\ N[m].kind = "nary" /\ N2[n].kind = "nary"
                  /\ Len(N2[n].children) = Len(N[m].children)
                  /\ \A i \in 1 .. Len(N[m].children) : <<N[m].children[i], N2[n].children[i]>> \in S
    <3>1. m \in Tree(N, root) /\ N[m].kind \in {"scalar", "buffer", "nary"} /\ N2[n].kind = N[m].kind
      BY <1>2, <1>3, <2>4
    <3>2. CASE N[m].kind = "nary"
      BY <1>2, <2>4, <3>1, <3>2
    <3>3. CASE N[m].kind = "scalar"
      <4>1. ASSUME NEW p, NEW w PROVE StepAt(N, D, id1, p, m) = StepAt(N2, D, id, w, n)
        <5>1. StepAt(N, D, id1, p, m) = N[m].value
          BY <3>3, LeafStep
        <5>2. StepAt(N2, D, id, w, n) = N2[n].value
          BY <3>1, <3>3, LeafStep
        <5> QED BY <1>2, <2>4, <3>3, <5>1, <5>2
      <4> QED BY <4>1
    <3>4. CASE N[m].kind = "buffer"
      <4>1. /\ N2[n].buf = N[m].buf /\ N2[n].off = N[m].off
            /\ N2[n].dims = dims /\ N2[n].strides = calcStrides(dims)
        BY <1>2, <2>4, <3>4
      <4>2. N[m].dims = idims /\ N[m].strides \in Strides /\ Contiguous(N[m])
        BY <1>3, <3>1, <3>4
      <4>3. ReadBuffer(D, N[m], id1) = D[N[m].buf][1 + N[m].off + j]
        <5>1. ReadBuffer(D, N[m], id1) = D[N[m].buf][1 + N[m].off + Dot(Clip(id1, N[m].dims), N[m].strides)]
          BY ReadsByIndex
        <5>2. Clip(id1, N[m].dims) = id1
          BY <2>2, <2>3, <4>2, Clipped
        <5>3. Dot(id1, N[m].strides) = Dot(id1, calcStrides(N[m].dims))
          BY <2>2, <4>2, ContiguousDot
        <5> QED BY <2>2, <4>2, <5>1, <5>2, <5>3
      <4>4. ReadBuffer(D, N2[n], id) = D[N2[n].buf][1 + N2[n].off + j]
        <5>1. ReadBuffer(D, N2[n], id) = D[N2[n].buf][1 + N2[n].off + Dot(Clip(id, N2[n].dims), N2[n].strides)]
          BY ReadsByIndex
        <5>2. Clip(id, dims) = id
          BY <2>3, Clipped
        <5> QED BY <4>1, <5>1, <5>2 DEF j
      <4>5. ASSUME NEW p, NEW w PROVE StepAt(N, D, id1, p, m) = StepAt(N2, D, id, w, n)
        <5>1. StepAt(N, D, id1, p, m) = ReadBuffer(D, N[m], id1)
          BY <3>4, LeafStep
        <5>2. StepAt(N2, D, id, w, n) = ReadBuffer(D, N2[n], id)
          BY <3>1, <3>4, LeafStep
        <5> QED BY <4>1, <4>3, <4>4, <5>1, <5>2
      <4> QED BY <4>5
    <3> QED BY <3>1, <3>2, <3>3, <3>4
  <2>5. \A m, n \in NodeIds : <<m, n>> \in S => ValueAt(N, D, m, id1) = ValueAt(N2, D, n, id)
    BY <1>1, <2>4, PairsAgree, SMTT(30)
  <2>6. ValueAt(N, D, root, id1) = v[1 + j]
    BY <2>2 DEF Shows
  <2> QED BY <1>1, <2>5, <2>6 DEF j
<1> QED BY <1>6, <1>7 DEF Shows

\* copyModdims makes such pairs.
LEMMA ClonesMade ==
    ASSUME NEW N, HeapOK(N), NEW D, HeapFits(N, D), NEW root \in NodeIds, N[root] # NoNode,
           NEW dims, NEW fresh,
           \A i \in 1 .. Cardinality(Copies(N, root)) :
              /\ fresh[i] \in NodeIds /\ N[fresh[i]] = NoNode
              /\ \A j \in 1 .. Cardinality(Copies(N, root)) : fresh[i] = fresh[j] => i = j
    PROVE  LET c == copyModdims(N, root, dims, fresh)
           IN  \E S : ClonesOf(N, root, dims, c.nodes, c.root, S)
<1> DEFINE C == Copies(N, root)
           Id(c) == CopyId(C, fresh, c)
           Clone(e) == CloneOf(N, C, dims, fresh, e)
           N2 == copyModdims(N, root, dims, fresh).nodes
           root2 == copyModdims(N, root, dims, fresh).root
           S == {<<e[2], Id(e[1])>> : e \in C}
<1>1. /\ C \subseteq Nat \X NodeIds /\ IsFiniteSet(C) /\ <<0, root>> \in C
      /\ \A e, f \in C : e[1] = f[1] => e = f
      /\ \A e \in C : \A i \in 1 .. Len(Children(N, e[2])) :
             <<kMaxChildren * e[1] + i, Children(N, e[2])[i]>> \in C
  BY CopyFacts
<1>2. /\ \A e \in C : Rank(C, e[1]) \in 1 .. Cardinality(C)
      /\ \A e, f \in C : Rank(C, e[1]) = Rank(C, f[1]) => e = f
  <2> HIDE DEF C
  <2> QED BY <1>1, RankOfCopy
<1>3. /\ \A e \in C : Id(e[1]) \in NodeIds
      /\ \A e, f \in C : Id(e[1]) = Id(f[1]) => e = f
  BY <1>2 DEF CopyId
<1>4. /\ root2 = Id(0)
      /\ N2 = [n \in NodeIds |-> IF \E e \in C : Id(e[1]) = n
                                 THEN Clone(CHOOSE e \in C : Id(e[1]) = n) ELSE N[n]]
  BY CopiedHeap
<1>5. \A e \in C : e[2] \in Tree(N, root)
  BY CopiesInTree
<1> HIDE DEF N2, C, Id, Clone, root2
<1>6. \A e \in C : N2[Id(e[1])] = Clone(e)
  <2> SUFFICES ASSUME NEW e \in C PROVE N2[Id(e[1])] = Clone(e)
    OBVIOUS
  <2>1. (CHOOSE f \in C : Id(f[1]) = Id(e[1])) = e
    BY <1>3
  <2> QED BY <1>3, <1>4, <2>1
<1>7. S \in SUBSET (NodeIds \X NodeIds) /\ <<root, root2>> \in S
  <2> DEFINE z == <<0, root>>
  <2>1. z \in C /\ z[1] = 0 /\ z[2] = root
    BY <1>1
  <2>2. <<z[2], Id(z[1])>> \in S
    BY <2>1
  <2>3. \A e \in C : <<e[2], Id(e[1])>> \in NodeIds \X NodeIds
    BY <1>1, <1>3
  <2> QED BY <1>4, <2>1, <2>2, <2>3
<1>8. ASSUME NEW e \in C
      PROVE  LET m == e[2]
                 n == Id(e[1])
             IN  /\ m \in Tree(N, root) /\ N2[n].kind = N[m].kind
                 /\ N[m].kind = "scalar" => N2[n].value = N[m].value
                 /\ N[m].kind = "buffer" => /\ N2[n].buf = N[m].buf /\ N2[n].off = N[m].off
                                            /\ N2[n].dims = dims /\ N2[n].strides = calcStrides(dims)
                 /\ N[m].kind = "nary" => /\ Len(N2[n].children) = Len(N[m].children)
                                          /\ \A i \in 1 .. Len(N[m].children) : <<N[m].children[i], N2[n].children[i]>> \in S
  <2> DEFINE r == N[e[2]]
             q == N2[Id(e[1])]
  <2>1. e[2] \in NodeIds /\ e[2] \in Tree(N, root) /\ NodeFits(N, D, e[2]) /\ NodeOK(r)
    BY <1>1, <1>5 DEF HeapFits, HeapOK
  <2>2. q = CloneOf(N, C, dims, fresh, e)
    BY <1>6 DEF Clone
  <2>3. CASE r.kind = "buffer"
    <3>1. q = [r EXCEPT !.dims = dims, !.strides = calcStrides(dims)]
      BY <2>2, <2>3 DEF CloneOf
    <3>2. r \in BufferNodes
      BY <2>1, <2>3 DEF NodeFits
    <3> DEFINE s == calcStrides(dims)
    <3> HIDE DEF r, q, s
    <3>4. q = Reshaped(r, dims, s)
      BY <3>1 DEF s, Reshaped
    <3>3. q.kind = "buffer" /\ q.buf = r.buf /\ q.off = r.off /\ q.dims = dims /\ q.strides = s
      BY <3>2, <3>4, ReshapedParts
    <3> QED BY <2>1, <2>3, <3>3 DEF r, q, s
  <2>4. CASE r.kind = "nary"
    <3> DEFINE ch == [i \in 1 .. Len(r.children) |-> Id(kMaxChildren * e[1] + i)]
    <3>1. r \in NaryNodes /\ Children(N, e[2]) = r.children
      BY <2>1, <2>4, NodeKinds DEF Children, NoNode
    <3>2. q = [r EXCEPT !.children = ch]
      BY <2>2, <2>4 DEF CloneOf, Id
    <3>3. Len(r.children) \in Nat
      BY <3>1, NaryParts DEF kMaxChildren
    <3>4. Len(ch) = Len(r.children) /\ \A i \in 1 .. Len(r.children) : ch[i] = Id(kMaxChildren * e[1] + i)
      BY <3>3
    <3>5. \A i \in 1 .. Len(r.children) : <<r.children[i], ch[i]>> \in S
      <4> SUFFICES ASSUME NEW i \in 1 .. Len(r.children) PROVE <<r.children[i], ch[i]>> \in S
        OBVIOUS
      <4> DEFINE g == <<kMaxChildren * e[1] + i, Children(N, e[2])[i]>>
      <4>1. g \in C /\ g[1] = kMaxChildren * e[1] + i /\ g[2] = r.children[i]
        BY <1>1, <3>1
      <4>2. <<g[2], Id(g[1])>> \in S
        BY <4>1
      <4> QED BY <3>4, <4>1, <4>2
    <3> HIDE DEF ch, r, q, S
    <3>6. r = [kind |-> "nary", children |-> r.children, height |-> r.height]
      BY <3>1 DEF NaryNodes
    <3>7. q = [kind |-> "nary", children |-> ch, height |-> r.height]
      BY <3>2, <3>6
    <3>8. q.kind = "nary" /\ q.children = ch
      BY <3>7
    <3> QED BY <2>1, <2>4, <3>4, <3>5, <3>8 DEF r, q
  <2>5. CASE r.kind # "nary" /\ r.kind # "buffer"
    <3>1. q = r
      BY <2>2, <2>5 DEF CloneOf
    <3> QED BY <2>1, <2>5, <3>1
  <2> QED BY <2>3, <2>4, <2>5
<1>9. \A m, n \in NodeIds : <<m, n>> \in S => \E e \in C : m = e[2] /\ n = Id(e[1])
  OBVIOUS
<1> HIDE DEF S
<1>10. \A m, n \in NodeIds : <<m, n>> \in S =>
         /\ m \in Tree(N, root) /\ N2[n].kind = N[m].kind
         /\ N[m].kind = "scalar" => N2[n].value = N[m].value
         /\ N[m].kind = "buffer" => /\ N2[n].buf = N[m].buf /\ N2[n].off = N[m].off
                                    /\ N2[n].dims = dims /\ N2[n].strides = calcStrides(dims)
         /\ N[m].kind = "nary" => /\ Len(N2[n].children) = Len(N[m].children)
                                  /\ \A i \in 1 .. Len(N[m].children) : <<N[m].children[i], N2[n].children[i]>> \in S
  BY <1>8, <1>9
<1>11. ClonesOf(N, root, dims, N2, root2, S)
  BY <1>7, <1>10 DEF ClonesOf
<1> QED BY <1>11 DEF N2, root2

\* A moddims shows the elements of the array, in its new shape.
LEMMA createModdimNodeShows ==
    ASSUME TreeInv, GeoInv, ValInv, createModdimNode
    PROVE  ValInv'
<1> DEFINE in == call.ins[1]
           ins == <<in>>
           N == WithBufferNodes(ins)
           root == GetNodes(ins)[1]
           fresh == SubSeq(FreshNodes, 2, Len(FreshNodes))
           c == copyModdims(N, root, call.arg, fresh)
           a == createNodeArray(call.arg, c.root)
           k == Cardinality(Copies(N, root))
           d == arr[in].dims
<1>1. HeapInv /\ CallShape /\ Fits(arr, node, data) /\ CallFits
  BY DEF TreeInv, CallInv, GeoInv
<1>2. call.op = "moddims" /\ call.todo = <<>> /\ call.node = None /\ call' = NoCall
  BY DEF createModdimNode, Executing
<1>3. /\ in \in Handles /\ Head(call.ins) = in /\ Cardinality(FreeNodes) >= 2
      /\ HeapOK(N) /\ root \in NodeIds /\ N[root] # NoNode
  BY <1>2, OneOperand
<1>4. Live(in) /\ ArrayFits(arr[in], node, data) /\ d \in DimVec
  <2>1. Len(call.ins) = 1
    BY <1>1, <1>2 DEF CallShape, Arity, OperandOps
  <2>2. 1 \in 1 .. Len(call.ins) /\ call.op \in OperandOps
    BY <1>2, <2>1 DEF OperandOps
  <2> QED BY <2>2, OperandFits
<1>5. call.arg \in Shapes /\ call.arg \in DimVec
  BY <1>1, <1>2, JitAssumption DEF CallFits, CallArg, DimVec
<1>6. Len(ins) = 1 /\ ins \in [1 .. Len(ins) -> Handles] /\ ins[1] = in
  BY <1>3, OperandLists
<1>7. /\ Fits(arr, N, data) /\ Extended(node, data, N, data) /\ root \notin ShiftInputs(N)
      /\ isReady(arr[in]) => N[root] = BufferNode(arr[in])
      /\ ~ isReady(arr[in]) => root = arr[in].node
  <2>1. /\ Len(ins) \in 1 .. kMaxChildren /\ Len(ins) <= Cardinality(FreeNodes)
        /\ \A i \in 1 .. Len(ins) : Live(ins[i])
    BY <1>3, <1>4, <1>6, FreeCount DEF kMaxChildren
  <2>2. 1 \in 1 .. Len(ins)
    BY <1>6
  <2> HIDE DEF ins, in
  <2>3. OperandsGive(ins)
    BY <1>1, <1>6, <2>1, OperandsMade, Zenon
  <2> QED BY <1>6, <2>2, <2>3 DEF OperandsGive
<1>8. \A i \in 1 .. k : /\ fresh[i] \in NodeIds /\ N[fresh[i]] = NoNode
                        /\ \A j \in 1 .. k : fresh[i] = fresh[j] => i = j
  BY FreshCopies DEF createModdimNode
<1>9. Finish(a, c.nodes, data, val[in])
  BY DEF createModdimNode
<1>10. N = node \/ isReady(arr[in])
  <2> SUFFICES ASSUME ~ isReady(arr[in]) PROVE N = node
    OBVIOUS
  <2>1. N = [n \in NodeIds |-> node[n]]
    BY <1>6, <2>1 DEF WithBufferNodes
  <2> QED BY <1>1, <2>1 DEF HeapInv, HeapOK
<1> HIDE DEF k, fresh, N, root, in
<1>11. LinearTree(N, root, d) /\ elements(call.arg) = elements(d)
  <2>1. /\ elements(call.arg) = elements(d)
        /\ isReady(arr[in]) => isLinear(arr[in])
        /\ ~ isReady(arr[in]) => LinearTree(node, arr[in].node, d)
    BY <1>1, <1>2 DEF CallFits, CallModdims, in
  <2>2. CASE ~ isReady(arr[in])
    BY <1>7, <1>10, <2>1, <2>2
  <2>3. CASE isReady(arr[in])
    <3>1. N[root].kind = "buffer" /\ N[root].dims = d /\ N[root].linear
      BY <1>1, <1>4, <1>7, <2>1, <2>3, BufferNodeFits DEF Fits
    <3>2. Tree(N, root) = {root}
      BY <1>3, <3>1, TreeParts
    <3> QED BY <2>1, <3>1, <3>2 DEF LinearTree, NodeIsLinear
  <2> QED BY <2>2, <2>3
<1>12. val = [g \in Handles |-> val[g]] /\ ArraysShow(arr, node, data, val, {})
  BY <1>2, NoneWaits DEF ValInv
<1>13. Shows(N, data, root, d, val[in])
  <2> HIDE DEF d
  <2>1. Shows(N, data, root, arr[in].dims, val[in])
    BY <1>1, <1>3, <1>4, <1>7, <1>12, OperandShows
  <2> QED BY <2>1 DEF d
<1>14. Fits(arr, c.nodes, data) /\ c.root \notin ShiftInputs(c.nodes)
  <2>1. \A h \in Handles : Ref(N, arr[h].node)
    <3>1. \A h \in Handles : Ref(node, arr[h].node)
      BY <1>1 DEF HeapInv, ArrNodesOK
    <3> QED BY <1>7, <3>1 DEF Ref, Extended
  <2> QED BY <1>3, <1>5, <1>7, <1>8, <1>11, <2>1, CopyFits DEF k
<1>15. /\ HeapOK(c.nodes) /\ c.root \in NodeIds /\ c.nodes[c.root] # NoNode
       /\ \A n \in NodeIds : N[n] # NoNode => c.nodes[n] = N[n]
  BY <1>3, <1>8, CopyKeepsHeap DEF k
<1>16. HeapFits(N, data) /\ HeapFits(c.nodes, data) /\ data \in Buffers
  BY <1>7, <1>14 DEF Fits
<1>17. PICK S : ClonesOf(N, root, call.arg, c.nodes, c.root, S)
  BY <1>3, <1>8, <1>16, ClonesMade DEF k
<1>21. /\ a.node = c.root /\ a.dims = call.arg /\ Ref(c.nodes, a.node) /\ ~ isReady(a)
       /\ ArrayFits(a, c.nodes, data)
  <2>1. a.node = c.root /\ a.dims = call.arg /\ c.root # None
    BY <1>15, NoneIsNoNode DEF createNodeArray
  <2> QED BY <1>5, <1>14, <1>15, <2>1, NodeArrayFits DEF Ref, isReady
<1> HIDE DEF c, a, d
<1>18. Shows(c.nodes, data, c.root, call.arg, val[in]) /\ ShiftsLead(c.nodes, c.root)
  BY <1>3, <1>4, <1>5, <1>11, <1>13, <1>15, <1>16, <1>17, ClonesShow
<1>19. Extended(node, data, c.nodes, data)
  BY <1>7, <1>15 DEF Extended
<1>20. Listing(val[in], elements(call.arg))
  <2>1. Listing(val[in], elements(d))
    BY <1>3, <1>4, <1>12 DEF ArraysShow, ArrayShows, Live, d
  <2> QED BY <1>11, <2>1
<1>22. ArrayShows(a, c.nodes, data, val[in])
  BY <1>18, <1>20, <1>21 DEF ArrayShows
<1>23. val' = [g \in Handles |-> val'[g]] /\ ArraysShow(arr', node', data', val', {})
  BY <1>1, <1>3, <1>9, <1>12, <1>14, <1>15, <1>18, <1>19, <1>21, <1>22, FinishShows
<1>24. AllShow'
  BY <1>23 DEF AllShow
<1> QED BY <1>2, <1>24, AllShown

\* Larger dimensions have larger strides.
LEMMA StridesGrow ==
    ASSUME NEW d \in DimVec, NEW e \in DimVec, Within(d, e), NEW k \in Dims
    PROVE  calcStrides(d)[k] <= calcStrides(e)[k]
<1> USE DimsFacts
<1>1. PICK p : IsProduct(d, p) /\ calcStrides(d) = [l \in Dims |-> p[l - 1]]
  BY Products
<1>2. PICK q : IsProduct(e, q) /\ calcStrides(e) = [l \in Dims |-> q[l - 1]]
  BY Products
<1> DEFINE g == [l \in 0 .. AF_MAX_DIMS |-> q[l] - p[l]]
<1>3. \A l \in 0 .. AF_MAX_DIMS : p[l] \in Nat /\ q[l] \in Nat /\ g[l] = q[l] - p[l]
  BY <1>1, <1>2 DEF IsProduct
<1> HIDE DEF g
<1>4. g[0] \in Nat
  <2>1. p[0] = 1 /\ q[0] = 1
    BY <1>1, <1>2 DEF IsProduct
  <2> QED BY <1>3, <2>1
<1>5. ASSUME NEW l \in 1 .. AF_MAX_DIMS, g[l - 1] \in Nat PROVE g[l] \in Nat
  <2> DEFINE a == p[l - 1]
             b == q[l - 1]
  <2>1. a \in Nat /\ b \in Nat /\ d[l] \in Nat /\ e[l] \in Nat /\ d[l] <= e[l] /\ a <= b
    <3>1. g[l - 1] = b - a /\ a \in Nat /\ b \in Nat
      BY <1>3
    <3>2. d[l] \in Nat /\ e[l] \in Nat /\ d[l] <= e[l]
      BY DEF DimVec, Within
    <3> QED BY <1>5, <3>1, <3>2
  <2>2. p[l] = a * d[l] /\ q[l] = b * e[l]
    BY <1>1, <1>2 DEF IsProduct
  <2> HIDE DEF a, b
  <2>3. a * d[l] <= b * d[l] /\ b * d[l] <= b * e[l]
    BY <2>1, ProductOrder
  <2>4. p[l] <= q[l]
    <3>1. a * d[l] \in Int /\ b * d[l] \in Int /\ b * e[l] \in Int
      BY <2>1
    <3> QED BY <2>2, <2>3, <3>1
  <2> QED BY <1>3, <2>4
<1>6. g[k - 1] \in Nat
  <2> DEFINE T == Nat
  <2> HIDE DEF T
  <2>1. g[0] \in T /\ \A l \in 1 .. AF_MAX_DIMS : g[l - 1] \in T => g[l] \in T
    BY <1>4, <1>5 DEF T
  <2>2. \A l \in 0 .. AF_MAX_DIMS : g[l] \in T
    BY <2>1, RecursionKeeps
  <2> QED BY <2>2 DEF T
<1>7. p[k - 1] <= q[k - 1]
  BY <1>3, <1>6
<1> QED BY <1>1, <1>2, <1>7

\* A view has no more elements along a dimension than its parent.
LEMMA ViewNarrower ==
    ASSUME NEW d \in DimVec, NEW seqs, SeqsInside(seqs, d)
    PROVE  Within(toDims(seqs, d), d)
<1> SUFFICES ASSUME NEW k \in Dims PROVE toDims(seqs, d)[k] <= d[k]
  BY DEF Within
<1> DEFINE n == toDims(seqs, d)[k]
           i == n - 1
           t == StepOf(seqs[k])
           b == toOffset(seqs)[k]
<1>1. n \in Nat \ {0} /\ d[k] \in Nat \ {0}
  BY JitAssumption DEF SeqsInside, DimVec
<1>2. i \in Nat /\ i < n
  BY <1>1
<1> HIDE DEF i, n
<1>3. b \in 0 .. d[k] - 1 /\ t \in Int \ {0} /\ b + i * t \in 0 .. d[k] - 1
  BY <1>2, ViewIndex DEF n
<1> HIDE DEF b, t
<1>4. i <= d[k] - 1
  <2>1. CASE t > 0
    <3>1. i * 1 <= i * t /\ i * 1 = i /\ i * t \in Int
      <4>1. 1 <= t /\ t \in Int /\ 1 \in Int
        BY <1>3, <2>1
      <4>2. i * 1 <= i * t
        BY <1>2, <4>1, ProductOrder
      <4>3. \A x, y \in Int : x * 1 = x /\ x * y \in Int
        OBVIOUS
      <4> QED BY <1>2, <1>3, <4>2, <4>3
    <3> QED BY <1>1, <1>2, <1>3, <3>1
  <2>2. CASE t < 0
    <3>1. i * 1 <= i * (- t) /\ i * 1 = i /\ i * (- t) = - (i * t) /\ i * t \in Int
      <4>1. 1 <= - t /\ - t \in Int /\ 1 \in Int
        BY <1>3, <2>2
      <4>2. i * 1 <= i * (- t)
        BY <1>2, <4>1, ProductOrder
      <4>3. \A x, y \in Int : x * (- y) = - (x * y) /\ x * 1 = x /\ x * y \in Int
        OBVIOUS
      <4> QED BY <1>2, <1>3, <4>2, <4>3
    <3> QED BY <1>1, <1>2, <1>3, <3>1
  <2> QED BY <1>3, <2>1, <2>2
<1>5. n <= d[k]
  BY <1>1, <1>4 DEF i
<1> QED BY <1>5 DEF n

\* The elements that an indexed array has
LEMMA IndexedAt ==
    ASSUME NEW v, NEW d \in DimVec, NEW seqs, SeqsInside(seqs, d)
    PROVE  LET odims == toDims(seqs, d) IN
           /\ Listing(Indexed(v, d, seqs), elements(odims))
           /\ \A id \in Box(odims) :
                /\ AlongIndex(seqs, id) \in Box(d)
                /\ Indexed(v, d, seqs)[1 + Dot(id, calcStrides(odims))]
                     = v[1 + Dot(AlongIndex(seqs, id), calcStrides(d))]
<1> DEFINE odims == toDims(seqs, d)
           Along(k, i) == IF isSpan(seqs[k]) THEN i ELSE seqs[k].begin + i * seqs[k].step
           At(id) == v[1 + Dot([k \in Dims |-> Along(k, id[k])], calcStrides(d))]
           o == Indexed(v, d, seqs)
           n == elements(odims)
<1>1. o = [j \in 1 .. n |-> At(Unravel(j - 1, odims))]
  BY DEF Indexed, Fill
<1>2. odims \in DimVec
  BY JitAssumption DEF SeqsInside, DimVec
<1> HIDE DEF o, At
<1>3. Listing(o, n)
  BY <1>1 DEF Listing
<1>4. ASSUME NEW id \in Box(odims)
      PROVE  /\ AlongIndex(seqs, id) \in Box(d)
             /\ o[1 + Dot(id, calcStrides(odims))] = v[1 + Dot(AlongIndex(seqs, id), calcStrides(d))]
  <2> DEFINE j == Dot(id, calcStrides(odims))
  <2>1. j \in 0 .. n - 1 /\ Unravel(j, odims) = id /\ n \in Nat
    BY <1>2, Positions, ShapeFacts
  <2> HIDE DEF j, n
  <2>2. 1 + j \in 1 .. n /\ (1 + j) - 1 = j
    BY <2>1
  <2>3. o[1 + j] = At(Unravel((1 + j) - 1, odims))
    BY <1>1, <2>2
  <2>4. ASSUME NEW k \in Dims
        PROVE  /\ AlongIndex(seqs, id)[k] = Along(k, id[k])
               /\ AlongIndex(seqs, id)[k] \in Nat /\ AlongIndex(seqs, id)[k] < d[k]
    <3>1. id[k] \in Nat /\ id[k] < toDims(seqs, d)[k] /\ d[k] \in Nat \ {0}
      BY DEF Box, DimVec
    <3>2. /\ toOffset(seqs)[k] + id[k] * StepOf(seqs[k]) \in 0 .. d[k] - 1
          /\ Along(k, id[k]) = toOffset(seqs)[k] + id[k] * StepOf(seqs[k])
      BY <3>1, ViewIndex
    <3> HIDE DEF Along
    <3>3. AlongIndex(seqs, id)[k] = toOffset(seqs)[k] + id[k] * StepOf(seqs[k])
      BY DEF AlongIndex
    <3> QED BY <3>1, <3>2, <3>3
  <2> HIDE DEF Along
  <2>5. AlongIndex(seqs, id) = [k \in Dims |-> Along(k, id[k])]
    <3>1. AlongIndex(seqs, id) = [k \in Dims |-> AlongIndex(seqs, id)[k]]
      BY DEF AlongIndex
    <3> QED BY <2>4, <3>1
  <2>6. AlongIndex(seqs, id) \in Box(d)
    BY <2>4, <2>5 DEF Box
  <2>7. At(id) = v[1 + Dot(AlongIndex(seqs, id), calcStrides(d))]
    BY <2>5 DEF At
  <2> QED BY <2>1, <2>2, <2>3, <2>6, <2>7 DEF j
<1> QED BY <1>3, <1>4 DEF o

\* A view of a contiguous parent has the elements that the sequences choose.
LEMMA ViewShows ==
    ASSUME NEW N, NEW D, NEW parent, ArrayFits(parent, N, D), isReady(parent), D \in Buffers,
           Contiguous(parent), Within(parent.dims, parent.data_dims),
           NEW v, Holds(parent, D, v),
           NEW seqs, SeqsInside(seqs, parent.dims),
           NEW view, view = [dims |-> toDims(seqs, parent.dims), strides |-> toStride(seqs, parent.data_dims),
                             off |-> parent.off + Dot(toOffset(seqs), parent.strides),
                             buf |-> parent.buf, node |-> None, data_dims |-> parent.data_dims]
    PROVE  /\ Holds(view, D, Indexed(v, parent.dims, seqs)) /\ Within(view.dims, view.data_dims)
           /\ view.dims \in DimVec /\ isReady(view)
           /\ Listing(Indexed(v, parent.dims, seqs), elements(view.dims))
<1> DEFINE d == parent.dims
           s == parent.strides
           dd == parent.data_dims
           odims == toDims(seqs, d)
           vs == toStride(seqs, dd)
           cs == calcStrides(dd)
           off == toOffset(seqs)
           w == Indexed(v, d, seqs)
<1>1. /\ d \in DimVec /\ s \in Strides /\ parent.off \in Nat /\ dd \in DimVec
      /\ \A k \in Dims : d[k] > 1 => cs[k] <= s[k]
  BY JitAssumption DEF ArrayFits, Arrays, DimVec, StridesCover
<1>2. odims \in DimVec
  BY JitAssumption DEF SeqsInside, DimVec
<1>3. /\ view.dims = odims /\ view.strides = vs /\ view.off = parent.off + Dot(off, s)
      /\ view.buf = parent.buf /\ view.node = None /\ view.data_dims = dd
  OBVIOUS
<1>4. SeqsInside(seqs, d) /\ Within(d, dd) /\ cs \in DimVec /\ vs = [k \in Dims |-> cs[k] * StepOf(seqs[k])]
  BY <1>1, ShapeFacts DEF toStride, StepOf
<1>5. ASSUME NEW k \in Dims, d[k] # 1 PROVE s[k] = cs[k]
  <2>1. s[k] = calcStrides(d)[k] /\ calcStrides(d)[k] <= cs[k]
    BY <1>1, <1>4, <1>5, StridesGrow DEF Contiguous
  <2>2. cs[k] <= s[k] /\ cs[k] \in Nat /\ s[k] \in Nat
    BY <1>1, <1>4, <1>5 DEF DimVec, Strides
  <2> QED BY <2>1, <2>2
<1>6. Within(odims, dd)
  <2>1. Within(odims, d)
    BY <1>1, <1>4, ViewNarrower
  <2>2. \A k \in Dims : odims[k] \in Nat /\ d[k] \in Nat /\ dd[k] \in Nat
    BY <1>1, <1>2 DEF DimVec
  <2> QED BY <1>4, <2>1, <2>2 DEF Within
<1>7. /\ Listing(w, elements(odims))
      /\ \A id \in Box(odims) :
           /\ AlongIndex(seqs, id) \in Box(d)
           /\ w[1 + Dot(id, calcStrides(odims))] = v[1 + Dot(AlongIndex(seqs, id), calcStrides(d))]
  <2> HIDE DEF d
  <2>1. d \in DimVec /\ SeqsInside(seqs, d)
    BY <1>1, <1>4
  <2> QED BY ONLY <2>1, IndexedAt, Zenon
<1>8. \A id \in Box(d) : D[parent.buf][1 + parent.off + Dot(id, s)] = v[1 + Dot(id, calcStrides(d))]
  BY DEF Holds
<1> HIDE DEF d, s, dd, odims, vs, cs, off, w
<1>9. ASSUME NEW id \in Box(odims)
      PROVE  D[parent.buf][1 + view.off + Dot(id, vs)] = w[1 + Dot(id, calcStrides(odims))]
  <2> DEFINE x == AlongIndex(seqs, id)
  <2>1. x \in Box(d)
    BY <1>7
  <2>2. ASSUME NEW k \in Dims
        PROVE  /\ off[k] \in Int /\ id[k] \in Int /\ s[k] \in Int /\ cs[k] \in Int
               /\ StepOf(seqs[k]) \in Int
               /\ x[k] = off[k] + id[k] * StepOf(seqs[k])
               /\ d[k] = 1 => off[k] = 0 /\ x[k] = 0
    <3>1. id[k] \in Nat /\ id[k] < toDims(seqs, d)[k]
      BY DEF Box, odims
    <3>2. /\ off[k] \in 0 .. d[k] - 1 /\ StepOf(seqs[k]) \in Int
          /\ off[k] + id[k] * StepOf(seqs[k]) \in 0 .. d[k] - 1
      BY <1>1, <1>4, <3>1, ViewIndex DEF off
    <3>3. x[k] = off[k] + id[k] * StepOf(seqs[k])
      BY DEF AlongIndex, off
    <3>4. s[k] \in Nat /\ cs[k] \in Nat /\ d[k] \in Nat
      BY <1>1, <1>4 DEF DimVec, Strides
    <3> HIDE DEF x
    <3> QED BY <3>1, <3>2, <3>3, <3>4
  <2>3. \A k \in Dims : vs[k] = cs[k] * StepOf(seqs[k]) /\ vs[k] \in Int
    BY <1>4, <2>2
  <2> HIDE DEF x
  <2>4. ASSUME NEW k \in Dims PROVE off[k] * s[k] + id[k] * vs[k] = x[k] * s[k]
    <3> DEFINE t == StepOf(seqs[k])
               m == id[k] * t
    <3>1. /\ off[k] \in Int /\ id[k] \in Int /\ s[k] \in Int /\ cs[k] \in Int /\ t \in Int /\ m \in Int
          /\ x[k] = off[k] + m
      BY <2>2
    <3>2. id[k] * vs[k] = m * cs[k]
      <4>1. vs[k] = cs[k] * t
        BY <2>3
      <4>2. \A a, b, c \in Int : a * (b * c) = (a * c) * b
        OBVIOUS
      <4> QED BY <3>1, <4>1, <4>2
    <3> HIDE DEF m
    <3>3. CASE d[k] = 1
      <4>1. off[k] = 0 /\ m = 0 /\ x[k] = 0
        BY <2>2, <3>1, <3>3
      <4>2. \A a \in Int : 0 * a = 0
        OBVIOUS
      <4> QED BY <3>1, <3>2, <4>1, <4>2
    <3>4. CASE d[k] # 1
      <4>1. s[k] = cs[k]
        BY <1>5, <3>4
      <4>2. \A a, b, c \in Int : a * c + b * c = (a + b) * c
        OBVIOUS
      <4> QED BY <3>1, <3>2, <4>1, <4>2
    <3> QED BY <3>3, <3>4
  <2>5. Dot(off, s) + Dot(id, vs) = Dot(x, s)
    <3>1. off = [k \in Dims |-> off[k]] /\ vs = [k \in Dims |-> vs[k]] /\ x = [k \in Dims |-> x[k]]
      BY <1>4 DEF off, toOffset, x, AlongIndex
    <3>2. off \in [Dims -> Int] /\ vs \in [Dims -> Int] /\ x \in [Dims -> Int]
      <4>1. \A k \in Dims : x[k] \in Int
        BY <2>1 DEF Box
      <4> QED BY <2>2, <2>3, <3>1, <4>1
    <3>3. id \in [Dims -> Int] /\ s \in [Dims -> Int]
      BY <1>1 DEF Box, Strides
    <3>4. \A k \in Dims : off[k] * s[k] + id[k] * vs[k] = x[k] * s[k]
      BY <2>4
    <3> QED BY ONLY <3>2, <3>3, <3>4, DotsAdd
  <2>6. 1 + view.off + Dot(id, vs) = 1 + parent.off + Dot(x, s)
    <3>1. Dot(off, s) \in Int /\ Dot(id, vs) \in Int
      <4>1. off = [k \in Dims |-> off[k]] /\ vs = [k \in Dims |-> vs[k]]
        BY <1>4 DEF off, toOffset
      <4>2. off \in [Dims -> Int] /\ vs \in [Dims -> Int] /\ id \in [Dims -> Int] /\ s \in [Dims -> Int]
        BY <1>1, <2>2, <2>3, <4>1 DEF Box, Strides
      <4> QED BY <4>2, DotType
    <3> QED BY <1>1, <1>3, <2>5, <3>1
  <2>7. D[parent.buf][1 + parent.off + Dot(x, s)] = v[1 + Dot(x, calcStrides(d))]
    BY <1>8, <2>1
  <2> QED BY <1>7, <2>6, <2>7 DEF x
<1>10. Holds(view, D, w)
  BY <1>3, <1>9 DEF Holds
<1> QED BY <1>2, <1>3, <1>6, <1>7, <1>10 DEF isReady, w, odims, d

\* An indexed array has the elements that the sequences choose, whether it is a
\* view or a copy of one.
LEMMA createSubArrayShows ==
    ASSUME TreeInv, GeoInv, ValInv, createSubArray
    PROVE  ValInv'
<1> DEFINE h == call.ins[1]
           in == arr[h]
           seqs == call.arg
           b1 == FreshBufs[1]
           b2 == FreshBufs[2]
           parent == IF isLinear(in) THEN in ELSE ReadyArray(in.dims, b1)
           D1 == IF isLinear(in) THEN data ELSE [data EXCEPT ![b1] = Read(data, in)]
           view == [dims |-> toDims(seqs, parent.dims), strides |-> toStride(seqs, parent.data_dims),
                    off |-> parent.off + Dot(toOffset(seqs), parent.strides),
                    buf |-> parent.buf, node |-> None, data_dims |-> parent.data_dims]
           v == Indexed(val[h], in.dims, seqs)
<1>1. HeapInv /\ HeapOK(node) /\ CallShape /\ Fits(arr, node, data) /\ CallFits /\ data \in Buffers
  BY DEF TreeInv, HeapInv, CallInv, GeoInv, Fits
<1>2. call.op = "index" /\ call.todo = <<>> /\ call.node = None /\ call' = NoCall
  BY DEF createSubArray, Executing
<1>3. /\ ArrayFits(in, node, data) /\ in.dims \in DimVec /\ in.strides \in Strides
      /\ h \in Handles /\ Head(call.ins) = h /\ Live(h) /\ isReady(in) /\ SeqsInside(seqs, in.dims)
  <2>1. Len(call.ins) = 1 /\ call.op \in OperandOps
    BY <1>1, <1>2 DEF CallShape, Arity, OperandOps
  <2>2. 1 \in 1 .. Len(call.ins)
    BY <2>1
  <2>3. ArrayFits(in, node, data) /\ in.dims \in DimVec /\ Live(h)
    BY <2>1, <2>2, OperandFits
  <2>4. isReady(in) /\ SeqsInside(seqs, in.dims)
    BY <1>1, <1>2 DEF CallFits, CallIndex
  <2>5. in.strides \in Strides
    BY <2>3 DEF ArrayFits, Arrays
  <2>6. h \in Handles /\ Head(call.ins) = h
    BY <1>2, OneOperand
  <2> HIDE DEF h, seqs
  <2> QED BY <2>3, <2>4, <2>5, <2>6
<1>4. /\ b1 \in BufIds /\ data[b1] = <<>> /\ b2 \in BufIds /\ data[b2] = <<>> /\ b1 # b2
  BY TwoBuffers DEF createSubArray
<1>5. val = [g \in Handles |-> val[g]] /\ ArraysShow(arr, node, data, val, {})
  BY <1>2, NoneWaits DEF ValInv
<1>6. /\ Listing(val[h], elements(in.dims)) /\ Holds(in, data, val[h]) /\ Within(in.dims, in.data_dims)
  BY <1>3, <1>5 DEF ArraysShow, ArrayShows, Live
<1>7. \/ /\ view.strides[1] = 1 /\ \A k \in Dims : view.strides[k] >= 0
         /\ Finish(view, node, D1, v)
      \/ Finish(ReadyArray(view.dims, b2), node, [D1 EXCEPT ![b2] = Read(D1, view)], v)
  <2> HIDE DEF b1, b2
  <2> QED BY DEF createSubArray, b1, b2
<1>8. /\ Fits(arr, node, D1) /\ D1[b2] = <<>> /\ D1 \in Buffers /\ Extended(node, data, node, D1)
      /\ ArrayFits(parent, node, D1) /\ isReady(parent) /\ parent.dims = in.dims
      /\ Contiguous(parent) /\ Within(parent.dims, parent.data_dims) /\ Holds(parent, D1, val[h])
  <2>1. CASE isLinear(in)
    <3>1. D1 = data /\ parent = in
      BY <2>1
    <3> HIDE DEF in, D1, parent, b1, b2
    <3>2. Contiguous(in)
      BY <1>3, <2>1, LinearContiguous
    <3> QED BY <1>1, <1>3, <1>4, <1>6, <3>1, <3>2 DEF Extended
  <2>2. CASE ~ isLinear(in)
    <3> DEFINE r == Read(data, in)
    <3>1. r \in Seq(Values) /\ Len(r) = elements(in.dims)
      BY <1>1, <1>3, ReadReady
    <3>2. r = val[h]
      BY <1>3, <1>6, ReadHeld
    <3> HIDE DEF r, in, h
    <3>3. /\ Fits(arr, node, [data EXCEPT ![b1] = r]) /\ [data EXCEPT ![b1] = r][b1] = r
          /\ \A c \in BufIds : c # b1 => [data EXCEPT ![b1] = r][c] = data[c]
      BY <1>1, <1>4, <3>1, FillBuffer
    <3>4. D1 = [data EXCEPT ![b1] = r] /\ parent = ReadyArray(in.dims, b1)
      BY <2>2 DEF r
    <3> HIDE DEF D1, parent, b1, b2
    <3>5. /\ Fits(arr, node, D1) /\ D1[b2] = <<>> /\ D1[b1] = val[h] /\ Len(D1[b1]) = elements(in.dims)
          /\ Extended(node, data, node, D1)
      BY <1>4, <3>1, <3>2, <3>3, <3>4 DEF Extended
    <3>6. in.dims \in Shapes
      BY <1>3 DEF ArrayFits, Arrays
    <3>7. ArrayFits(parent, node, D1) /\ isReady(parent)
      BY <1>4, <3>4, <3>5, <3>6, ReadyFits
    <3>8. ArrayShows(parent, node, D1, val[h])
      BY <1>3, <1>6, <3>4, <3>5, OwnBuffer
    <3>9. parent.dims = in.dims /\ Contiguous(parent)
      BY <3>4 DEF ReadyArray, Contiguous
    <3> QED BY <3>5, <3>7, <3>8, <3>9 DEF Fits, ArrayShows
  <2> QED BY <2>1, <2>2
<1> HIDE DEF D1, parent, b1, b2
<1>9. /\ Holds(view, D1, v) /\ Within(view.dims, view.data_dims) /\ view.dims \in DimVec /\ isReady(view)
      /\ Listing(v, elements(view.dims))
      /\ Read(D1, view) \in Seq(Values) /\ Len(Read(D1, view)) = elements(view.dims) /\ view.dims \in Shapes
      /\ (\A k \in Dims : view.strides[k] >= 0) => ArrayFits(view, node, D1)
  <2> HIDE DEF in
  <2>1. SeqsInside(seqs, parent.dims)
    BY <1>3, <1>8
  <2>2. /\ Holds(view, D1, Indexed(val[h], parent.dims, seqs)) /\ Within(view.dims, view.data_dims)
        /\ view.dims \in DimVec /\ isReady(view)
        /\ Listing(Indexed(val[h], parent.dims, seqs), elements(view.dims))
    BY <1>8, <2>1, ViewShows
  <2>3. /\ view.dims \in Shapes /\ Read(D1, view) \in Seq(Values) /\ Len(Read(D1, view)) = elements(view.dims)
        /\ (\A k \in Dims : view.strides[k] >= 0) => ArrayFits(view, node, D1)
    BY <1>8, <2>1, ViewFits
  <2> QED BY <1>8, <2>2, <2>3
<1>10. Read(D1, view) = v
  <2> HIDE DEF view, v
  <2> QED BY <1>9, ReadHeld
<1> HIDE DEF view, v, in, h, seqs
<1>11. val' = [g \in Handles |-> val'[g]] /\ ArraysShow(arr', node', data', val', {})
  <2>1. CASE (\A k \in Dims : view.strides[k] >= 0) /\ Finish(view, node, D1, v)
    <3>1. Ref(node, view.node)
      BY <1>9 DEF Ref, isReady
    <3>2. ArrayShows(view, node, D1, v)
      BY <1>9 DEF ArrayShows
    <3> QED BY <1>1, <1>3, <1>5, <1>8, <1>9, <2>1, <3>1, <3>2, FinishShows
  <2>2. CASE Finish(ReadyArray(view.dims, b2), node, [D1 EXCEPT ![b2] = Read(D1, view)], v)
    <3> DEFINE D2 == [D1 EXCEPT ![b2] = v]
               a == ReadyArray(view.dims, b2)
    <3>1. v \in Seq(Values) /\ Len(v) = elements(view.dims)
      BY <1>9, <1>10
    <3>2. Fits(arr, node, D2) /\ D2[b2] = v /\ \A c \in BufIds : c # b2 => D2[c] = D1[c]
      BY <1>4, <1>8, <3>1, FillBuffer
    <3>3. Finish(a, node, D2, v)
      BY <1>10, <2>2
    <3> HIDE DEF D2
    <3>4. ArrayFits(a, node, D2) /\ isReady(a)
      BY <1>4, <1>9, <3>1, <3>2, ReadyFits
    <3>5. Ref(node, a.node)
      BY MadeArrays
    <3>6. ArrayShows(a, node, D2, v)
      BY <1>9, <3>2, OwnBuffer
    <3>7. Extended(node, data, node, D2)
      BY <1>4, <1>8, <3>2 DEF Extended
    <3> HIDE DEF a
    <3> QED BY <1>1, <1>3, <1>5, <3>2, <3>3, <3>4, <3>5, <3>6, <3>7, FinishShows
  <2> QED BY <1>7, <2>1, <2>2
<1>12. AllShow'
  BY <1>11 DEF AllShow
<1> QED BY <1>2, <1>12, AllShown

\* The program's arrays have the host data.
LEMMA InitValInv == Init => ValInv
<1> SUFFICES ASSUME Init PROVE ValInv
  OBVIOUS
<1>1. PICK dims \in Shapes : /\ arr = [h \in Handles |-> ReadyArray(dims, h)]
                             /\ val = [h \in Handles |-> HostData(elements(dims))]
  BY DEF Init
<1>2. data = [b \in BufIds |-> IF b \in Handles THEN val[b] ELSE <<>>] /\ call = NoCall
  BY DEF Init
<1>3. dims \in DimVec
  BY JitAssumption DEF DimVec
<1> DEFINE v == HostData(elements(dims))
<1>4. Listing(v, elements(dims))
  BY DEF HostData, Fill, Listing
<1> HIDE DEF v
<1>5. ASSUME NEW h \in Handles
      PROVE  arr[h] = ReadyArray(dims, h) /\ isReady(arr[h]) /\ ArrayShows(arr[h], node, data, val[h])
  <2>1. arr[h] = ReadyArray(dims, h) /\ val[h] = v /\ data[h] = v
    BY <1>1, <1>2, JitAssumption DEF v
  <2>2. isReady(arr[h])
    BY <2>1 DEF ReadyArray, isReady
  <2>3. ArrayShows(ReadyArray(dims, h), node, data, v)
    BY <1>3, <1>4, <2>1, OwnBuffer
  <2> QED BY <2>1, <2>2, <2>3
<1>6. ArraysShow(arr, node, data, val, AboutToEval)
  BY <1>5 DEF ArraysShow
<1>7. CallShows
  BY <1>2 DEF CallShows, NoCall
<1>8. val = [h \in Handles |-> val[h]]
  BY <1>1
<1> QED BY <1>6, <1>7, <1>8 DEF ValInv

\* Every step keeps the values of the arrays.
LEMMA StepValInv ==
    ASSUME ~ ShareRowShifts
    PROVE  TreeInv /\ GeoInv /\ ValInv /\ [Next]_vars => ValInv'
<1> SUFFICES ASSUME TreeInv, GeoInv, ValInv, [Next]_vars PROVE ValInv'
  OBVIOUS
<1>1. CASE UNCHANGED vars
  <2>1. arr' = arr /\ node' = node /\ data' = data /\ val' = val /\ call' = call
    BY <1>1 DEF vars
  <2>2. AboutToEval' = AboutToEval
    BY <2>1 DEF AboutToEval
  <2>3. OperationOn(call.ins, call.arg)' = OperationOn(call.ins, call.arg)
    <3> DEFINE ins == call.ins
               e == call.arg
    <3>1. call'.ins = ins /\ call'.arg = e /\ \A i \in 1 .. Len(ins) : arr'[ins[i]].dims = arr[ins[i]].dims
      BY <2>1
    <3> QED BY <2>1, <3>1, SameOperation
  <2>4. CallShows'
    BY <2>1, <2>3 DEF CallShows, ValInv
  <2> QED BY <2>1, <2>2, <2>4 DEF ValInv
<1>2. CASE call = NoCall /\ Call
  BY <1>2, CallVals DEF TreeInv, GeoInv
<1>3. CASE Running
  BY <1>3, EvalOperandShows, FinishEvalShows, createNaryNodeShows, ReturnOldNodeShows, createSelectNodeShows,
     createShiftNodeShows, createModdimNodeShows, createSubArrayShows DEF Running, Step
<1> QED BY <1>1, <1>2, <1>3 DEF Next

\* The arrays have the values they show.
LEMMA ShownValues == TreeInv /\ GeoInv /\ ValInv => ValueSemantics
<1> SUFFICES ASSUME TreeInv, GeoInv, ValInv, NEW h \in Handles, Live(h) PROVE Contents(arr[h]) = val[h]
  BY DEF ValueSemantics
<1>1. /\ HeapOK(node) /\ data \in Buffers /\ HeapFits(node, data) /\ ArrayFits(arr[h], node, data)
      /\ Ref(node, arr[h].node)
  BY DEF TreeInv, HeapInv, ArrNodesOK, GeoInv, Fits, Live
<1>2. ArrayShows(arr[h], node, data, val[h])
  BY DEF ValInv, ArraysShow, Live
<1> QED BY <1>1, <1>2, ContentsShown

\* For any number of arrays, nodes and buffers, any shapes, sequences and shifts,
\* and every limit of the platform: however arrays share nodes and buffers, and
\* whatever was evaluated first, alone or with others, by a linear kernel, a
\* strided one, or one without the empty dimensions, every array has the elements
\* of the operations that made it, if the shift of an array with an empty column is
\* evaluated before it is used.
THEOREM ValueSemanticsHolds ==
    ASSUME ~ ShareRowShifts
    PROVE  Spec => []ValueSemantics
<1>1. Init => TreeInv /\ GeoInv /\ ValInv
  BY InitTreeInv, InitGeoInv, InitValInv
<1>2. (TreeInv /\ GeoInv /\ ValInv) /\ [Next]_vars => (TreeInv /\ GeoInv /\ ValInv)'
  BY StepTreeInv, StepGeoInv, StepValInv
<1>3. TreeInv /\ GeoInv /\ ValInv => ValueSemantics
  BY ShownValues
<1> QED BY <1>1, <1>2, <1>3, PTL DEF Spec

=============================================================================
