----------------------------- MODULE JitTree_proofs -----------------------------
(***************************************************************************)
(* First the arithmetic of shift, for every shape and every argument: the  *)
(* normalised shifts are in range, and the kernel's circular_mod, which    *)
(* subtracts the length at most once, reads the element the rotation       *)
(* names.  % is the modulus of TLA+, never negative; C++'s remainder is    *)
(* Rem of JitTree.                                                         *)
(*                                                                         *)
(* Then the heap of nodes: whatever arrays and the call in progress refer  *)
(* to is there, heights fall from a node to its children, and whoever is   *)
(* asked to be evaluated before a retry is a tree.                         *)
(*                                                                         *)
(* Next the elements: an array, a view and a node of a tree stay inside    *)
(* their buffer, whatever made them, so that every kernel and every copy   *)
(* has an element to read for every index of its output.                   *)
(* JitValues_proofs goes on to what these elements are.                    *)
(***************************************************************************)
EXTENDS JitTree, FiniteSetTheorems, WellFoundedInduction, TLAPS

(***************************************************************************)
(* Least elements.  The induction theorems of the library have an operator *)
(* as a parameter.  These have a set: of the counterexamples to a claim,   *)
(* which has none if it has no least one.                                  *)
(***************************************************************************)

\* The order of the natural numbers
Below == {ss \in Nat \X Nat : ss[1] < ss[2]}

\* It is well-founded.
LEMMA BelowIsWellFounded == IsWellFoundedOn(Below, Nat)
BY NatLessThanWellFounded DEF OpToRel, Below

\* A set of natural numbers has a least one.
LEMMA LeastNat ==
    ASSUME NEW T, T \subseteq Nat, T # {}
    PROVE  \E n \in T : \A m \in T : n <= m
<1>1. PICK n \in T : \A m \in T : ~ (<<m, n>> \in Below)
    BY BelowIsWellFounded, WFMin
<1>2. ASSUME NEW m \in T PROVE n <= m
    <2>1. <<m, n>> \in Nat \X Nat /\ ~ (<<m, n>> \in Below)
        BY <1>1
    <2>2. ~ (m < n)
        BY <2>1 DEF Below
    <2> QED
        BY <2>2
<1> QED
    BY <1>2

\* Of the subsets of a finite set, one that is in Bad and no longer is when it
\* loses an element.
LEMMA LeastSubset ==
    ASSUME NEW S, IsFiniteSet(S), NEW Bad, Bad \subseteq SUBSET S, Bad # {}
    PROVE  \E s \in Bad : \A x \in s : s \ {x} \notin Bad
<1> DEFINE Sizes == {Cardinality(s) : s \in Bad}
<1>1. \A s \in Bad : IsFiniteSet(s) /\ Cardinality(s) \in Nat
    BY FS_Subset, FS_CardinalityType
<1>2. PICK n \in Sizes : \A m \in Sizes : n <= m
    <2>1. Sizes \subseteq Nat /\ Sizes # {}
        BY <1>1
    <2> HIDE DEF Sizes
    <2> QED
        BY <2>1, LeastNat
<1>3. PICK s \in Bad : Cardinality(s) = n
    BY <1>2
<1>4. ASSUME NEW x \in s, s \ {x} \in Bad
      PROVE  FALSE
    <2>1. Cardinality(s \ {x}) = Cardinality(s) - 1
        BY <1>1, FS_RemoveElement
    <2>2. n <= Cardinality(s \ {x})
        BY <1>2, <1>4
    <2> QED
        BY <1>1, <1>3, <2>1, <2>2
<1> QED
    BY <1>4

\* Quotient and remainder of a positive divisor
LEMMA Division ==
    ASSUME NEW a \in Int, NEW d \in Nat \ {0}
    PROVE  /\ a % d \in 0 .. d - 1
           /\ a \div d \in Int
           /\ a = d * (a \div d) + (a % d)
OBVIOUS

\* Two numbers below d that differ by a multiple of d are equal.
LEMMA MultipleOfSmall ==
    ASSUME NEW d \in Nat \ {0}, NEW q \in Int, NEW x \in Int,
           x = d * q, x < d, x > - d
    PROVE  x = 0
<1>1. CASE q >= 1
  <2>1. d * q >= d BY <1>1
  <2> QED BY <2>1
<1>2. CASE q <= -1
  <2>1. d * q <= - d BY <1>2
  <2> QED BY <2>1
<1>3. CASE q = 0
  BY <1>3
<1> QED BY <1>1, <1>2, <1>3

\* The remainder is the only one in its range.
LEMMA ModUnique ==
    ASSUME NEW d \in Nat \ {0}, NEW a \in Int, NEW q \in Int, NEW r \in 0 .. d - 1,
           a = d * q + r
    PROVE  a % d = r
<1> DEFINE m == a % d
           k == a \div d
<1>1. m \in 0 .. d - 1 /\ k \in Int /\ a = d * k + m
  BY Division
<1>2. m - r = d * (q - k)
  BY <1>1
<1> HIDE DEF m, k
<1>3. m - r < d /\ m - r > - d /\ m - r \in Int /\ q - k \in Int
  BY <1>1
<1>4. m - r = 0
  BY <1>2, <1>3, MultipleOfSmall
<1> QED BY <1>1, <1>4 DEF m

\* The shift of one dimension of length d
ShiftOf(s, d) == - Rem(s, d) + d * (IF s > 0 THEN 1 ELSE 0)

\* By the sign of the argument, it is the distance to a multiple of d.
LEMMA ShiftOfRange ==
    ASSUME NEW d \in Nat \ {0}, NEW s \in Int
    PROVE  ShiftOf(s, d) \in 0 .. d /\ \E q \in Int : ShiftOf(s, d) = d * q - s
<1> DEFINE f == ShiftOf(s, d)
<1>1. CASE s > 0
  <2> DEFINE m == s % d
             k == s \div d
  <2>1. m \in 0 .. d - 1 /\ k \in Int /\ s = d * k + m
    BY Division
  <2>2. f = d - m
    BY <1>1, <2>1 DEF Rem, ShiftOf
  <2> HIDE DEF m, k, f
  <2>3. f \in 0 .. d
    BY <2>1, <2>2
  <2>4. k + 1 \in Int /\ f = d * (k + 1) - s
    BY <2>1, <2>2
  <2> QED BY <2>3, <2>4, Zenon DEF f
<1>2. CASE s < 0
  <2> DEFINE t == - s
  <2>1. t \in Int /\ s = - t
    OBVIOUS
  <2>2. f = t % d
    <3>1. t % d \in Int
      BY <2>1, Division
    <3> QED BY <1>2, <3>1 DEF Rem, ShiftOf
  <2> HIDE DEF t
  <2> DEFINE m == t % d
             k == t \div d
  <2>3. m \in 0 .. d - 1 /\ k \in Int /\ t = d * k + m
    BY <2>1, Division
  <2> HIDE DEF m, k, f
  <2>4. f = m
    BY <2>2 DEF m
  <2>5. f \in 0 .. d
    BY <2>3, <2>4
  <2>6. - k \in Int /\ f = d * (- k) - s
    BY <2>1, <2>3, <2>4
  <2> QED BY <2>5, <2>6, Zenon DEF f
<1>3. CASE s = 0
  <2>1. 0 % d = 0
    BY ModUnique, 0 = d * 0 + 0
  <2>2. f = 0
    BY <1>3, <2>1 DEF Rem, ShiftOf
  <2>3. f \in 0 .. d /\ 0 \in Int /\ f = d * 0 - s
    BY <1>3, <2>2
  <2> QED BY <2>3, Zenon
<1> QED BY <1>1, <1>2, <1>3

\* "assert(shifts[i] >= 0 && shifts[i] <= oDims[i])" of shift holds for every
\* argument and every shape.
THEOREM ShiftsInRange ==
    ASSUME NEW dims \in [Dims -> Nat \ {0}], NEW sdims \in [Dims -> Int], NEW k \in Dims
    PROVE  Shifts(sdims, dims)[k] \in 0 .. dims[k]
<1>1. dims[k] \in Nat \ {0} /\ sdims[k] \in Int /\ Shifts(sdims, dims)[k] = ShiftOf(sdims[k], dims[k])
  BY DEF Shifts, ShiftOf
<1> QED BY <1>1, ShiftOfRange

\* The kernel's circular_mod takes one subtraction for the remainder: for every
\* shape and every argument, whatever its sign and however much larger than
\* the dimension, output element i reads input element (i - sdims) mod dims,
\* which is in the buffer.
THEOREM ShiftReadsRotated ==
    ASSUME NEW dims \in [Dims -> Nat \ {0}], NEW sdims \in [Dims -> Int], NEW k \in Dims,
           NEW i \in 0 .. dims[k] - 1
    PROVE  /\ circular_mod(i + Shifts(sdims, dims)[k], dims[k]) = (i - sdims[k]) % dims[k]
           /\ circular_mod(i + Shifts(sdims, dims)[k], dims[k]) \in 0 .. dims[k] - 1
<1> DEFINE d == dims[k]
           f == Shifts(sdims, dims)[k]
           r == circular_mod(i + f, d)
<1>1. d \in Nat \ {0} /\ sdims[k] \in Int /\ i \in 0 .. d - 1
  OBVIOUS
<1>2. f = ShiftOf(sdims[k], d)
  BY DEF Shifts, ShiftOf
<1> HIDE DEF d, f
<1>3. f \in 0 .. d /\ \E q \in Int : f = d * q - sdims[k]
  BY <1>1, <1>2, ShiftOfRange
<1>4. PICK q \in Int : f = d * q - sdims[k]
  BY <1>3
<1>5. CASE i + f < d
  <2>1. r = i + f
    BY <1>5 DEF circular_mod
  <2>2. i - sdims[k] = d * (- q) + r
    BY <1>1, <1>3, <1>4, <2>1
  <2>3. r \in 0 .. d - 1
    BY <1>1, <1>3, <1>5, <2>1
  <2> DEFINE a == i - sdims[k]
  <2> HIDE DEF r
  <2>4. a \in Int /\ - q \in Int
    BY <1>1
  <2> HIDE DEF a
  <2>5. a % d = r
    BY <1>1, <2>2, <2>3, <2>4, ModUnique DEF a
  <2> QED BY <2>3, <2>5 DEF a, d, f, r
<1>6. CASE ~ (i + f < d)
  <2>1. r = i + f - d
    BY <1>1, <1>3, <1>6 DEF circular_mod
  <2>2. i - sdims[k] = d * (1 - q) + r
    BY <1>1, <1>3, <1>4, <2>1
  <2>3. r \in 0 .. d - 1
    BY <1>1, <1>3, <1>6, <2>1
  <2> DEFINE a == i - sdims[k]
  <2> HIDE DEF r
  <2>4. a \in Int /\ 1 - q \in Int
    BY <1>1
  <2> HIDE DEF a
  <2>5. a % d = r
    BY <1>1, <2>2, <2>3, <2>4, ModUnique DEF a
  <2> QED BY <2>3, <2>5 DEF a, d, f, r
<1> QED BY <1>5, <1>6

-----------------------------------------------------------------------------
-----------------------------------------------------------------------------
(***************************************************************************)
(* Free addresses.                                                         *)
(***************************************************************************)

UpTo(S, n) == {m \in S : m <= n}

\* A finite set of numbers has a largest.
LEMMA LargestNat ==
    ASSUME NEW S, S \subseteq Nat, IsFiniteSet(S), S # {}
    PROVE  \E n \in S : \A m \in S : m <= n
<1> DEFINE Bad == {s \in SUBSET S : s # {} /\ ~ \E n \in s : \A m \in s : m <= n}
<1> SUFFICES ASSUME Bad # {} PROVE FALSE
  OBVIOUS
<1>1. PICK s \in Bad : \A x \in s : s \ {x} \notin Bad
  BY LeastSubset
<1>2. PICK x \in s : TRUE
  BY <1>1
<1>3. s \subseteq Nat /\ x \in Nat /\ s \ {x} \in SUBSET S
  BY <1>1, <1>2
<1>4. CASE s \ {x} = {}
  BY <1>1, <1>2, <1>3, <1>4
<1>5. CASE s \ {x} # {}
  <2>1. PICK n \in s \ {x} : \A m \in s \ {x} : m <= n
    BY <1>1, <1>2, <1>3, <1>5
  <2>2. CASE x <= n
    BY <1>1, <2>1, <2>2
  <2>3. CASE n < x
    <3>1. \A m \in s : m <= x
      BY <1>3, <2>1, <2>3
    <3> QED BY <1>1, <1>2, <3>1
  <2> QED BY <1>3, <2>1, <2>2, <2>3
<1> QED BY <1>4, <1>5

\* Every rank is taken by an element of the set.
LEMMA RankTaken ==
    ASSUME NEW S, S \subseteq Nat, IsFiniteSet(S), NEW i \in 1 .. Cardinality(S)
    PROVE  \E n \in S : Cardinality(UpTo(S, n)) = i
<1> DEFINE Bad == {s \in SUBSET S : \E j \in 1 .. Cardinality(s) :
                                      \A n \in s : Cardinality(UpTo(s, n)) # j}
<1> SUFFICES ASSUME Bad # {} PROVE FALSE
  OBVIOUS
<1>1. PICK s \in Bad : \A x \in s : s \ {x} \notin Bad
  BY LeastSubset
<1>2. s \subseteq Nat /\ IsFiniteSet(s) /\ Cardinality(s) \in Nat
  BY <1>1, FS_Subset, FS_CardinalityType
<1>3. PICK j \in 1 .. Cardinality(s) : \A n \in s : Cardinality(UpTo(s, n)) # j
  BY <1>1
<1>4. s # {}
  BY <1>2, <1>3, FS_EmptySet
<1>5. PICK x \in s : \A m \in s : m <= x
  BY <1>2, <1>4, LargestNat
<1> DEFINE r == s \ {x}
<1>6. Cardinality(r) = Cardinality(s) - 1
  BY <1>2, <1>5, FS_RemoveElement
<1>7. UpTo(s, x) = s
  BY <1>2, <1>5 DEF UpTo
<1>8. j \in 1 .. Cardinality(r)
  BY <1>2, <1>3, <1>5, <1>6, <1>7
<1>9. PICK n \in r : Cardinality(UpTo(r, n)) = j
  BY <1>1, <1>5, <1>8, SMTT(30)
<1>10. UpTo(r, n) = UpTo(s, n)
  <2>1. ~ (x <= n)
    BY <1>2, <1>5, <1>9
  <2> QED BY <2>1 DEF UpTo
<1> QED BY <1>3, <1>9, <1>10

\* Ascending lists elements of the set, the one of rank i at i.
LEMMA AscendingIn ==
    ASSUME NEW S, S \subseteq Nat, IsFiniteSet(S), NEW i \in 1 .. Cardinality(S)
    PROVE  Ascending(S)[i] \in S /\ Cardinality(UpTo(S, Ascending(S)[i])) = i
<1>1. Ascending(S)[i] = CHOOSE n \in S : Cardinality(UpTo(S, n)) = i
  BY DEF Ascending, UpTo
<1>2. \E n \in S : Cardinality(UpTo(S, n)) = i
  BY RankTaken
<1> QED BY <1>1, <1>2

\* A fresh node is an unused address, and fresh nodes differ.
LEMMA FreshNode ==
    ASSUME NEW i \in 1 .. Cardinality(FreeNodes)
    PROVE  /\ FreshNodes[i] \in NodeIds /\ node[FreshNodes[i]] = NoNode
           /\ \A j \in 1 .. Cardinality(FreeNodes) : FreshNodes[j] = FreshNodes[i] => j = i
<1>1. FreeNodes \subseteq NodeIds /\ FreeNodes \in SUBSET NodeIds
  BY DEF FreeNodes
<1>2. FreeNodes \subseteq Nat /\ IsFiniteSet(FreeNodes)
  <2>1. NodeIds \subseteq Nat
    BY JitAssumption, FS_CardinalityType
  <2> QED BY <1>1, <2>1, JitAssumption, FS_Subset
<1>3. \A j \in 1 .. Cardinality(FreeNodes) :
         FreshNodes[j] \in FreeNodes /\ Cardinality(UpTo(FreeNodes, FreshNodes[j])) = j
  BY <1>2, AscendingIn DEF FreshNodes
<1>4. FreshNodes[i] \in FreeNodes
  BY <1>3
<1>5. \A j \in 1 .. Cardinality(FreeNodes) : FreshNodes[j] = FreshNodes[i] => j = i
  BY <1>3
<1> QED BY <1>4, <1>5 DEF FreeNodes

-----------------------------------------------------------------------------
(***************************************************************************)
(* Heaps of nodes.                                                         *)
(***************************************************************************)
Leaf(r) == "kind" \in DOMAIN r /\ r.kind \in {"scalar", "buffer", "shift"}
NaryNodes == [kind : {"nary"}, children : UNION {[1 .. k -> NodeIds] : k \in 1 .. kMaxChildren},
              height : Nat \ {0}]
NodeOK(r) == r = NoNode \/ Leaf(r) \/ r \in NaryNodes

\* The children of a node are there, and lower; a shift has a buffer.
HeapOK(N) ==
    /\ N = [n \in NodeIds |-> N[n]]
    /\ \A n \in NodeIds : NodeOK(N[n])
    /\ \A n \in NodeIds : N[n].kind = "shift" =>
          N[n].in \in NodeIds /\ N[N[n].in].kind = "buffer"
    /\ \A n \in NodeIds : N[n].kind = "nary" => \A i \in 1 .. Len(N[n].children) :
          /\ N[N[n].children[i]] # NoNode
          /\ getHeight(N, N[n].children[i]) < N[n].height

\* A node is of one kind, and one that has operands is an NaryNode.
LEMMA NodeKinds ==
    ASSUME NEW r, NodeOK(r)
    PROVE  /\ r.kind \in {"free", "scalar", "buffer", "shift", "nary"}
           /\ r.kind = "free" <=> r = NoNode
           /\ r.kind = "nary" => r \in NaryNodes
           /\ r \in NaryNodes => r.kind = "nary"
BY DEF NodeOK, Leaf, NaryNodes, NoNode

\* The height and the children of a node that has operands
LEMMA NaryParts ==
    ASSUME NEW r \in NaryNodes
    PROVE  /\ r.height \in Nat \ {0} /\ Len(r.children) \in 1 .. kMaxChildren
           /\ r.children \in [1 .. Len(r.children) -> NodeIds]
<1>1. r.height \in Nat \ {0}
  BY DEF NaryNodes
<1>2. PICK k \in 1 .. kMaxChildren : r.children \in [1 .. k -> NodeIds]
  BY DEF NaryNodes
<1>3. r.children \in Seq(NodeIds) /\ DOMAIN r.children = 1 .. k
  BY <1>2 DEF kMaxChildren
<1>4. Len(r.children) = k
  BY <1>3, <1>2 DEF kMaxChildren
<1> QED BY <1>1, <1>2, <1>4

\* Children are nodes that are there, and lower than their parent.
LEMMA ChildrenOf ==
    ASSUME NEW N, HeapOK(N), NEW n \in NodeIds
    PROVE  /\ Len(Children(N, n)) \in 0 .. kMaxChildren
           /\ Children(N, n) \in [1 .. Len(Children(N, n)) -> NodeIds]
           /\ \A i \in 1 .. Len(Children(N, n)) :
                 /\ N[Children(N, n)[i]] # NoNode
                 /\ getHeight(N, Children(N, n)[i]) < getHeight(N, n)
           /\ getHeight(N, n) \in Nat
           /\ getHeight(N, n) = 0 => Children(N, n) = <<>>
<1>1. CASE N[n].kind = "nary"
  <2>1. N[n] \in NaryNodes
    BY <1>1, NodeKinds DEF HeapOK
  <2>2. Children(N, n) = N[n].children /\ getHeight(N, n) = N[n].height
    BY <1>1 DEF Children, getHeight
  <2> QED BY <1>1, <2>1, <2>2, NaryParts DEF HeapOK, kMaxChildren
<1>2. CASE N[n].kind # "nary"
  <2>1. Children(N, n) = <<>> /\ getHeight(N, n) = 0
    BY <1>2 DEF Children, getHeight
  <2> QED BY <2>1 DEF kMaxChildren
<1> QED BY <1>1, <1>2

\* The same of the set of children
LEMMA BelowOf ==
    ASSUME NEW N, HeapOK(N), NEW n \in NodeIds
    PROVE  /\ ToSet(Children(N, n)) \subseteq NodeIds
           /\ \A c \in ToSet(Children(N, n)) :
                 N[c] # NoNode /\ getHeight(N, c) \in Nat /\ getHeight(N, c) < getHeight(N, n)
           /\ getHeight(N, n) \in Nat
           /\ getHeight(N, n) = 0 => ToSet(Children(N, n)) = {}
<1>1. /\ Children(N, n) \in [1 .. Len(Children(N, n)) -> NodeIds]
      /\ Len(Children(N, n)) \in Nat
  BY ChildrenOf DEF kMaxChildren
<1>2. ToSet(Children(N, n)) = {Children(N, n)[i] : i \in 1 .. Len(Children(N, n))}
  BY <1>1 DEF ToSet
<1>3. ToSet(Children(N, n)) \subseteq NodeIds
  BY <1>1, <1>2
<1> QED BY <1>1, <1>2, <1>3, ChildrenOf

-----------------------------------------------------------------------------
(***************************************************************************)
(* Trees.                                                                  *)
(***************************************************************************)
TreeStep(N, T, n) == {n} \cup UNION {T[c] : c \in ToSet(Children(N, n))}

Closed(N, S) == \A x \in S : ToSet(Children(N, x)) \subseteq S

\* What every closed set that has n has, too
Reach(N) == [n \in NodeIds |->
    {m \in NodeIds : \A S \in SUBSET NodeIds : n \in S /\ Closed(N, S) => m \in S}]

\* What is reached from a node is the node and what is reached from its children.
LEMMA ReachIsTree ==
    ASSUME NEW N, HeapOK(N)
    PROVE  Reach(N) = [n \in NodeIds |-> TreeStep(N, Reach(N), n)]
<1> DEFINE R == Reach(N)
<1>1. \A n \in NodeIds : ToSet(Children(N, n)) \subseteq NodeIds
  BY BelowOf
<1>2. \A n \in NodeIds : n \in R[n] /\ R[n] \subseteq NodeIds
  BY DEF Reach
<1>3. ASSUME NEW n \in NodeIds, NEW c \in ToSet(Children(N, n)), NEW m \in R[c]
      PROVE  m \in R[n]
  <2>1. c \in NodeIds /\ m \in NodeIds
    BY <1>1, <1>2, <1>3
  <2>2. \A S \in SUBSET NodeIds : c \in S /\ Closed(N, S) => m \in S
    BY <1>3, <2>1 DEF Reach
  <2>3. \A S \in SUBSET NodeIds : n \in S /\ Closed(N, S) => c \in S
    BY DEF Closed
  <2> QED BY <2>1, <2>2, <2>3 DEF Reach
<1>4. ASSUME NEW n \in NodeIds, NEW x \in R[n], NEW y \in ToSet(Children(N, x))
      PROVE  y \in R[n]
  <2>1. x \in NodeIds /\ y \in NodeIds
    BY <1>1, <1>2
  <2>2. \A S \in SUBSET NodeIds : n \in S /\ Closed(N, S) => x \in S
    BY <2>1 DEF Reach
  <2>3. \A S \in SUBSET NodeIds : n \in S /\ Closed(N, S) => y \in S
    BY <2>2 DEF Closed
  <2> QED BY <2>1, <2>3 DEF Reach
<1>5. ASSUME NEW n \in NodeIds PROVE R[n] = TreeStep(N, R, n)
  <2> DEFINE S == TreeStep(N, R, n)
  <2>1. S \subseteq R[n]
    BY <1>2, <1>3 DEF TreeStep
  <2>2. n \in S /\ S \in SUBSET NodeIds
    BY <1>2, <2>1 DEF TreeStep
  <2>3. Closed(N, S)
    <3> SUFFICES ASSUME NEW x \in S, NEW y \in ToSet(Children(N, x)) PROVE y \in S
      BY DEF Closed
    <3>1. CASE x = n
      <4>1. y \in NodeIds /\ y \in R[y]
        BY <1>1, <1>2, <3>1
      <4> QED BY <3>1, <4>1 DEF TreeStep
    <3>2. CASE x # n
      <4>1. PICK c \in ToSet(Children(N, n)) : x \in R[c]
        BY <3>2 DEF TreeStep
      <4>2. y \in R[c]
        BY <1>1, <1>4, <4>1
      <4> QED BY <4>2 DEF TreeStep
    <3> QED BY <3>1, <3>2
  <2>4. R[n] \subseteq S
    <3> HIDE DEF S
    <3> QED BY <2>2, <2>3 DEF Reach
  <2> QED BY <2>1, <2>4
<1>6. R = [n \in NodeIds |-> R[n]]
  BY DEF Reach
<1> HIDE DEF R
<1>7. R = [n \in NodeIds |-> TreeStep(N, R, n)]
  BY <1>5, <1>6
<1> QED BY <1>7 DEF R

\* The function of Tree satisfies its definition.
LEMMA TreeUnfold ==
    ASSUME NEW N, HeapOK(N), NEW n \in NodeIds
    PROVE  Tree(N, n) = {n} \cup UNION {Tree(N, c) : c \in ToSet(Children(N, n))}
<1> DEFINE T == CHOOSE T : T = [m \in NodeIds |-> TreeStep(N, T, m)]
<1>1. T = [m \in NodeIds |-> TreeStep(N, T, m)]
  BY ReachIsTree
<1>2. \A m : Tree(N, m) = T[m]
  BY DEF Tree, TreeStep
<1> HIDE DEF T
<1>3. T[n] = TreeStep(N, T, n)
  BY <1>1
<1> QED BY <1>2, <1>3 DEF TreeStep

\* Of any set of nodes, one has no child in the set: the heights fall.
LEMMA LowestNode ==
    ASSUME NEW N, HeapOK(N), NEW Bad, Bad \subseteq NodeIds, Bad # {}
    PROVE  \E n \in Bad : \A c \in ToSet(Children(N, n)) : c \notin Bad
<1> DEFINE H == {getHeight(N, n) : n \in Bad}
<1>1. H \subseteq Nat /\ H # {}
  BY BelowOf
<1>2. PICK h \in H : \A k \in H : h <= k
  <2> HIDE DEF H
  <2> QED BY <1>1, LeastNat
<1>3. PICK n \in Bad : getHeight(N, n) = h
  BY <1>2
<1>4. ASSUME NEW c \in ToSet(Children(N, n)), c \in Bad PROVE FALSE
  <2>1. h <= getHeight(N, c) /\ getHeight(N, c) \in Nat /\ getHeight(N, c) < h /\ h \in Nat
    BY <1>2, <1>3, <1>4, BelowOf
  <2> QED BY <2>1
<1> QED BY <1>3, <1>4

\* A tree is of nodes that are there, and has the children of its nodes.
LEMMA TreeClosed ==
    ASSUME NEW N, HeapOK(N), NEW n \in NodeIds, N[n] # NoNode
    PROVE  /\ n \in Tree(N, n) /\ Tree(N, n) \subseteq NodeIds
           /\ \A m \in Tree(N, n) : N[m] # NoNode
           /\ Closed(N, Tree(N, n))
<1> DEFINE Good(x) == /\ Tree(N, x) \subseteq NodeIds
                      /\ \A m \in Tree(N, x) : N[m] # NoNode
                      /\ Closed(N, Tree(N, x))
           Bad == {x \in NodeIds : N[x] # NoNode /\ ~ Good(x)}
<1>1. Bad = {}
  <2> SUFFICES ASSUME Bad # {} PROVE FALSE
    OBVIOUS
  <2>1. PICK x \in Bad : \A c \in ToSet(Children(N, x)) : c \notin Bad
    <3>1. Bad \subseteq NodeIds
      OBVIOUS
    <3> HIDE DEF Bad
    <3> QED BY <3>1, LowestNode
  <2>2. \A c \in ToSet(Children(N, x)) : c \in NodeIds /\ N[c] # NoNode /\ Good(c)
    BY <2>1, BelowOf
  <2>3. Tree(N, x) = {x} \cup UNION {Tree(N, c) : c \in ToSet(Children(N, x))}
    BY <2>1, TreeUnfold
  <2>4. \A c \in ToSet(Children(N, x)) : c \in Tree(N, c)
    BY <2>2, TreeUnfold
  <2>5. Closed(N, Tree(N, x))
    <3> SUFFICES ASSUME NEW y \in Tree(N, x) PROVE ToSet(Children(N, y)) \subseteq Tree(N, x)
      BY DEF Closed
    <3>1. CASE y = x
      BY <2>3, <2>4, <3>1
    <3>2. CASE y # x
      <4>1. PICK c \in ToSet(Children(N, x)) : y \in Tree(N, c)
        BY <2>3, <3>2
      <4>2. ToSet(Children(N, y)) \subseteq Tree(N, c)
        BY <2>2, <4>1 DEF Closed
      <4> QED BY <2>3, <4>2
    <3> QED BY <3>1, <3>2
  <2>6. Good(x)
    BY <2>1, <2>2, <2>3, <2>5
  <2> QED BY <2>1, <2>6
<1>2. Good(n)
  BY <1>1
<1> QED BY <1>2, TreeUnfold

-----------------------------------------------------------------------------
(***************************************************************************)
(* The steps that change the heap.                                         *)
(***************************************************************************)

\* n names a node of N, or nothing.
Ref(N, n) == n # None => (n \in NodeIds /\ N[n] # NoNode)

\* None is no address of a node.
LEMMA NoneIsNoNode == None \notin NodeIds
<1>1. NodeIds = 1 .. Cardinality(NodeIds) /\ Cardinality(NodeIds) \in Nat
  BY JitAssumption, FS_CardinalityType
<1> QED BY <1>1 DEF None

\* Settle keeps what arrays and the call refer to, and all below.
LEMMA SettleKeeps ==
    ASSUME NEW A, NEW N, NEW D, NEW root, HeapOK(N), Settle(A, N, D, root),
           \A h \in Handles : Ref(N, A[h].node), Ref(N, root)
    PROVE  /\ arr' = A /\ HeapOK(node')
           /\ \A h \in Handles : A[h].node # None => node'[A[h].node] = N[A[h].node]
           /\ root # None => node'[root] = N[root]
           /\ \A n \in NodeIds : node'[n] \in {N[n], NoNode}
<1> DEFINE roots == ({A[h].node : h \in Handles} \cup {root}) \ {None}
           nodes == UNION {Tree(N, n) : n \in roots}
           kept == nodes \cup {N[n].in : n \in {m \in nodes : N[m].kind = "shift"}}
<1>1. arr' = A /\ node' = [n \in NodeIds |-> IF n \in kept THEN N[n] ELSE NoNode]
  BY DEF Settle, Kept
<1>2. \A n \in roots : n \in NodeIds /\ N[n] # NoNode
  BY DEF Ref
<1>3. \A n \in roots : /\ n \in Tree(N, n) /\ Tree(N, n) \subseteq NodeIds
                       /\ Closed(N, Tree(N, n))
  <2> HIDE DEF roots
  <2> QED BY <1>2, TreeClosed
<1>4. nodes \subseteq NodeIds /\ Closed(N, nodes) /\ roots \subseteq nodes
  BY <1>3 DEF Closed
<1> HIDE DEF roots, nodes
<1>5. \A n \in kept : n \in nodes \/ N[n].kind = "buffer"
  BY <1>4 DEF HeapOK
<1>6. \A n \in kept : N[n].kind = "shift" => N[n].in \in kept
  BY <1>5
<1>7. \A n \in kept : N[n].kind = "nary" => \A i \in 1 .. Len(N[n].children) : N[n].children[i] \in kept
  <2> SUFFICES ASSUME NEW n \in nodes, N[n].kind = "nary", NEW i \in 1 .. Len(N[n].children)
               PROVE  N[n].children[i] \in nodes
    BY <1>5
  <2>1. n \in NodeIds /\ Children(N, n) = N[n].children
    BY <1>4 DEF Children
  <2>2. N[n].children[i] \in ToSet(Children(N, n))
    <3>1. Children(N, n) \in [1 .. Len(Children(N, n)) -> NodeIds]
      BY <2>1, ChildrenOf
    <3> QED BY <2>1, <3>1 DEF ToSet
  <2> QED BY <1>4, <2>2 DEF Closed
<1> HIDE DEF kept
<1>8. \A n \in NodeIds : node'[n] = IF n \in kept THEN N[n] ELSE NoNode
  BY <1>1
<1>9. HeapOK(node')
  <2>1. node' = [n \in NodeIds |-> node'[n]]
    BY <1>1
  <2>2. \A n \in NodeIds : NodeOK(node'[n])
    BY <1>8 DEF HeapOK, NodeOK
  <2>3. ASSUME NEW n \in NodeIds, node'[n].kind = "shift"
        PROVE  node'[n].in \in NodeIds /\ node'[node'[n].in].kind = "buffer"
    BY <1>6, <1>8, <2>3 DEF HeapOK, NoNode
  <2>4. ASSUME NEW n \in NodeIds, node'[n].kind = "nary", NEW i \in 1 .. Len(node'[n].children)
        PROVE  /\ node'[node'[n].children[i]] # NoNode
               /\ getHeight(node', node'[n].children[i]) < node'[n].height
    <3>1. n \in kept /\ node'[n] = N[n] /\ N[n].kind = "nary"
      BY <1>8, <2>4 DEF NoNode
    <3>2. Children(N, n) = N[n].children /\ Children(N, n)[i] \in NodeIds
      BY <2>4, <3>1, ChildrenOf DEF Children
    <3>3. node'[N[n].children[i]] = N[N[n].children[i]]
      BY <1>7, <1>8, <2>4, <3>1, <3>2
    <3> QED BY <2>4, <3>1, <3>3 DEF HeapOK, getHeight
  <2> QED BY <2>1, <2>2, <2>3, <2>4 DEF HeapOK
<1>10. \A h \in Handles : A[h].node # None => A[h].node \in kept
  BY <1>4 DEF roots, kept
<1>11. root # None => root \in kept
  BY <1>4 DEF roots, kept
<1> QED BY <1>1, <1>8, <1>9, <1>10, <1>11 DEF Ref

\* New scalars, buffers and shifts where there was nothing
LEMMA AddLeaves ==
    ASSUME NEW N, HeapOK(N), NEW N2, N2 = [n \in NodeIds |-> N2[n]],
           \A n \in NodeIds : \/ N2[n] = N[n]
                              \/ /\ N[n] = NoNode /\ Leaf(N2[n])
                                 /\ N2[n].kind = "shift" =>
                                      N2[n].in \in NodeIds /\ N[N2[n].in].kind = "buffer"
    PROVE  HeapOK(N2) /\ \A n \in NodeIds : N[n] # NoNode => N2[n] = N[n]
<1>1. \A n \in NodeIds : N[n] # NoNode => N2[n] = N[n]
  OBVIOUS
<1>2. \A n \in NodeIds : NodeOK(N2[n])
  BY DEF HeapOK, NodeOK
<1>3. ASSUME NEW n \in NodeIds, N2[n].kind = "shift"
      PROVE  N2[n].in \in NodeIds /\ N2[N2[n].in].kind = "buffer"
  <2>1. N2[n].in \in NodeIds /\ N[N2[n].in].kind = "buffer"
    BY <1>3 DEF HeapOK
  <2> QED BY <1>1, <2>1 DEF NoNode
<1>4. ASSUME NEW n \in NodeIds, N2[n].kind = "nary", NEW i \in 1 .. Len(N2[n].children)
      PROVE  /\ N2[N2[n].children[i]] # NoNode
             /\ getHeight(N2, N2[n].children[i]) < N2[n].height
  <2>1. N2[n] = N[n]
    BY <1>4 DEF Leaf
  <2>2. N[n].children[i] \in NodeIds
    BY <1>4, <2>1, ChildrenOf DEF Children
  <2>3. N[N[n].children[i]] # NoNode /\ getHeight(N, N[n].children[i]) < N[n].height
    BY <1>4, <2>1 DEF HeapOK
  <2> QED BY <1>1, <2>1, <2>2, <2>3 DEF getHeight
<1> QED BY <1>1, <1>2, <1>3, <1>4 DEF HeapOK

\* The greatest of finitely many heights
LEMMA MaxOfHeights ==
    ASSUME NEW S, S \subseteq Nat, IsFiniteSet(S), S # {}
    PROVE  Max(S) \in S /\ \A h \in S : h <= Max(S)
<1>1. \E n \in S : \A m \in S : n >= m
  BY LargestNat
<1> QED BY <1>1 DEF Max

\* The heights of operands
HeightsOf(N, nodes) == {getHeight(N, nodes[i]) : i \in 1 .. Len(nodes)}

\* The greatest height among operands is one of theirs.
LEMMA HeightsMax ==
    ASSUME NEW N, HeapOK(N), NEW nodes, Len(nodes) \in 1 .. kMaxChildren,
           nodes \in [1 .. Len(nodes) -> NodeIds]
    PROVE  /\ Max(HeightsOf(N, nodes)) \in HeightsOf(N, nodes)
           /\ Max(HeightsOf(N, nodes)) \in Nat
           /\ \A i \in 1 .. Len(nodes) :
                getHeight(N, nodes[i]) \in Nat /\ getHeight(N, nodes[i]) <= Max(HeightsOf(N, nodes))
<1> DEFINE S == HeightsOf(N, nodes)
<1>1. \A i \in 1 .. Len(nodes) : getHeight(N, nodes[i]) \in Nat
  BY BelowOf
<1>2. S \subseteq Nat /\ S # {}
  BY <1>1 DEF HeightsOf
<1>3. S \subseteq {getHeight(N, nodes[1]), getHeight(N, nodes[2]), getHeight(N, nodes[3])}
  <2>1. \A i \in 1 .. Len(nodes) : i \in {1, 2, 3}
    BY DEF kMaxChildren
  <2> QED BY <2>1 DEF HeightsOf
<1>4. IsFiniteSet(S)
  <2> DEFINE U == {getHeight(N, nodes[1])} \cup {getHeight(N, nodes[2])} \cup {getHeight(N, nodes[3])}
  <2>1. IsFiniteSet(U)
    BY FS_Singleton, FS_Union
  <2>2. S \in SUBSET U
    BY <1>3
  <2> HIDE DEF U, S
  <2> QED BY <2>1, <2>2, FS_Subset
<1>5. Max(S) \in S /\ \A h \in S : h <= Max(S)
  <2> HIDE DEF S
  <2> QED BY <1>2, <1>4, MaxOfHeights
<1> QED BY <1>1, <1>2, <1>5 DEF HeightsOf

\* A node on top of others: what it takes, and the heap that has it
OnTop(N, nodes, ptr) ==
    /\ HeapOK(N) /\ Len(nodes) \in 1 .. kMaxChildren /\ nodes \in [1 .. Len(nodes) -> NodeIds]
    /\ \A i \in 1 .. Len(nodes) : N[nodes[i]] # NoNode
    /\ ptr \in NodeIds /\ N[ptr] = NoNode
HeapOf(N1, N, ptr) ==
    /\ HeapOK(N1) /\ N1[ptr] # NoNode
    /\ \A n \in NodeIds : N[n] # NoNode => N1[n] = N[n]

\* A node on top of others, as createNaryNode and createSelectNode make it,
\* leaves a heap that has all the old nodes.
LEMMA AddNary ==
    ASSUME NEW N, NEW nodes, NEW ptr, OnTop(N, nodes, ptr)
    PROVE  HeapOf([N EXCEPT ![ptr] = NaryNode(N, nodes)], N, ptr)
<1> USE DEF OnTop
<1> DEFINE r == NaryNode(N, nodes)
           N1 == [N EXCEPT ![ptr] = r]
<1>1. {getHeight(N, c) : c \in ToSet(nodes)} = HeightsOf(N, nodes)
  BY DEF ToSet, HeightsOf
<1>2. r = [kind |-> "nary", children |-> nodes, height |-> 1 + Max(HeightsOf(N, nodes))]
  BY <1>1 DEF NaryNode
<1>3. r \in NaryNodes /\ r # NoNode
  BY <1>2, HeightsMax DEF NaryNodes, NoNode
<1> HIDE DEF r
<1>4. N1 = [n \in NodeIds |-> N1[n]] /\ N1[ptr] = r /\ \A n \in NodeIds \ {ptr} : N1[n] = N[n]
  BY DEF HeapOK
<1> HIDE DEF N1
<1>5. \A n \in NodeIds : N[n] # NoNode => N1[n] = N[n]
  BY <1>4
<1>6. \A n \in NodeIds : NodeOK(N1[n])
  BY <1>3, <1>4 DEF HeapOK, NodeOK
<1>7. ASSUME NEW n \in NodeIds, N1[n].kind = "shift"
      PROVE  N1[n].in \in NodeIds /\ N1[N1[n].in].kind = "buffer"
  <2>1. N1[n] = N[n]
    BY <1>2, <1>4, <1>7
  <2> QED BY <1>5, <1>7, <2>1 DEF HeapOK, NoNode
<1>8. ASSUME NEW n \in NodeIds, N1[n].kind = "nary", NEW i \in 1 .. Len(N1[n].children)
      PROVE  /\ N1[N1[n].children[i]] # NoNode
             /\ getHeight(N1, N1[n].children[i]) < N1[n].height
  <2>1. CASE n = ptr
    <3>1. N1[n].children = nodes /\ N1[n].height = 1 + Max(HeightsOf(N, nodes))
      BY <1>2, <1>4, <2>1
    <3>2. N1[nodes[i]] = N[nodes[i]] /\ nodes[i] \in NodeIds
      BY <1>5, <1>8, <3>1
    <3>3. getHeight(N, nodes[i]) \in Nat /\ getHeight(N, nodes[i]) <= Max(HeightsOf(N, nodes))
          /\ Max(HeightsOf(N, nodes)) \in Nat
      BY <1>8, <3>1, HeightsMax
    <3>4. getHeight(N1, nodes[i]) = getHeight(N, nodes[i])
      BY <3>2 DEF getHeight
    <3> QED BY <1>8, <3>1, <3>2, <3>3, <3>4
  <2>2. CASE n # ptr
    <3>1. N1[n] = N[n]
      BY <1>4, <2>2
    <3>2. N[n].children[i] \in NodeIds
      BY <1>8, <3>1, ChildrenOf DEF Children
    <3>3. N[N[n].children[i]] # NoNode /\ getHeight(N, N[n].children[i]) < N[n].height
      BY <1>8, <3>1 DEF HeapOK
    <3> QED BY <1>5, <3>1, <3>2, <3>3 DEF getHeight
  <2> QED BY <2>1, <2>2
<1>9. HeapOK(N1)
  BY <1>4, <1>6, <1>7, <1>8 DEF HeapOK
<1>10. N1[ptr] # NoNode /\ N1[ptr].kind = "nary" /\ N1[ptr].height = 1 + Max(HeightsOf(N, nodes))
  BY <1>2, <1>3, <1>4
<1> QED BY <1>5, <1>9, <1>10 DEF N1, r, HeapOf

\* A buffer stays one when removeEmptyDimensions permutes its dimensions.
LEMMA PermuteKeepsKind ==
    ASSUME NEW p, NEW r, Leaf(r)
    PROVE  Leaf(PermuteBuffer(p, r)) /\ PermuteBuffer(p, r).kind = r.kind
BY DEF Leaf, PermuteBuffer

\* What an evaluation leaves of the heap: the nodes, some buffers permuted
LEMMA EvalKeepsHeap ==
    ASSUME NEW N, HeapOK(N), NEW D, NEW roots, NEW dims, roots \subseteq NodeIds,
           \A n \in roots : N[n] # NoNode
    PROVE  LET after == evalNodes(N, D, roots, dims).nodes
           IN  /\ HeapOK(after)
               /\ \A n \in NodeIds : /\ N[n] = NoNode <=> after[n] = NoNode
                                     /\ getHeight(after, n) = getHeight(N, n)
<1> DEFINE nodes == UNION {Tree(N, r) : r \in roots}
           after == evalNodes(N, D, roots, dims).nodes
<1>1. nodes \subseteq NodeIds
  BY TreeClosed
<1>2. PICK p : after = N \/ after = removeEmptyDimensions(N, p, nodes)
  BY DEF evalNodes
<1> HIDE DEF after, nodes
<1>3. CASE after = N
  BY <1>3 DEF after
<1>4. CASE after = removeEmptyDimensions(N, p, nodes)
  <2>1. ASSUME NEW n \in NodeIds
        PROVE  \/ after[n] = N[n]
               \/ /\ N[n].kind = "buffer" /\ Leaf(after[n]) /\ after[n].kind = "buffer"
    <3>1. CASE \E m \in nodes : N[m].kind = "shift" /\ N[m].in = n
      <4>1. after[n] = PermuteBuffer(p, N[n])
        BY <1>4, <3>1 DEF removeEmptyDimensions
      <4>2. N[n].kind = "buffer"
        BY <1>1, <3>1 DEF HeapOK
      <4>3. Leaf(N[n])
        BY <4>2 DEF HeapOK, NodeOK, NoNode, NaryNodes
      <4> QED BY <4>1, <4>2, <4>3, PermuteKeepsKind
    <3>2. CASE ~ \E m \in nodes : N[m].kind = "shift" /\ N[m].in = n
      BY <1>4, <3>2 DEF removeEmptyDimensions
    <3> QED BY <3>1, <3>2
  <2>2. after = [n \in NodeIds |-> after[n]]
    BY <1>4 DEF removeEmptyDimensions
  <2>3. \A n \in NodeIds : after[n].kind = N[n].kind
    BY <2>1
  <2>4. \A n \in NodeIds : N[n] = NoNode <=> after[n] = NoNode
    BY <2>1 DEF NoNode
  <2>5. \A n \in NodeIds : getHeight(after, n) = getHeight(N, n)
    BY <2>1 DEF getHeight
  <2>6. \A n \in NodeIds : NodeOK(after[n])
    BY <2>1 DEF HeapOK, NodeOK
  <2>7. \A n \in NodeIds : after[n].kind = "shift" =>
          after[n].in \in NodeIds /\ after[after[n].in].kind = "buffer"
    BY <2>1, <2>3 DEF HeapOK
  <2>8. ASSUME NEW n \in NodeIds, after[n].kind = "nary", NEW i \in 1 .. Len(after[n].children)
        PROVE  /\ after[after[n].children[i]] # NoNode
               /\ getHeight(after, after[n].children[i]) < after[n].height
    <3>1. after[n] = N[n]
      BY <2>1, <2>8
    <3>2. N[n].children[i] \in NodeIds
      BY <2>8, <3>1, ChildrenOf DEF Children
    <3>3. N[N[n].children[i]] # NoNode /\ getHeight(N, N[n].children[i]) < N[n].height
      BY <2>8, <3>1 DEF HeapOK
    <3> QED BY <2>4, <2>5, <3>1, <3>2, <3>3
  <2>9. HeapOK(after)
    BY <2>2, <2>6, <2>7, <2>8 DEF HeapOK
  <2> QED BY <2>4, <2>5, <2>9 DEF after
<1> QED BY <1>2, <1>3, <1>4

ArrNodesOK == \A h \in Handles : Ref(node, arr[h].node)

\* The nodes of ready operands are new buffers; all are there afterwards.
LEMMA OperandNodes ==
    ASSUME HeapOK(node), ArrNodesOK, NEW ins, Len(ins) \in 1 .. kMaxChildren,
           ins \in [1 .. Len(ins) -> Handles],
           Len(ins) <= Cardinality(FreeNodes)
    PROVE  LET N == WithBufferNodes(ins)
               nodes == GetNodes(ins)
           IN  /\ HeapOK(N)
               /\ Len(nodes) = Len(ins) /\ nodes \in [1 .. Len(ins) -> NodeIds]
               /\ \A i \in 1 .. Len(ins) :
                    /\ N[nodes[i]] # NoNode
                    /\ isReady(arr[ins[i]]) => N[nodes[i]].kind = "buffer" /\ nodes[i] = FreshNodes[i]
                    /\ ~ isReady(arr[ins[i]]) => nodes[i] = arr[ins[i]].node
               /\ \A n \in NodeIds : node[n] # NoNode => N[n] = node[n]
               /\ \A n \in NodeIds : (\A i \in 1 .. Len(ins) : n # FreshNodes[i]) => N[n] = node[n]
<1> DEFINE N == WithBufferNodes(ins)
           nodes == GetNodes(ins)
           made == {i \in 1 .. Len(ins) : isReady(arr[ins[i]])}
<1>1. \A i \in 1 .. Len(ins) : FreshNodes[i] \in NodeIds /\ node[FreshNodes[i]] = NoNode
  <2>1. \A i \in 1 .. Len(ins) : i \in 1 .. Cardinality(FreeNodes)
    <3>1. Cardinality(FreeNodes) \in Nat
      BY JitAssumption, FS_Subset, FS_CardinalityType DEF FreeNodes
    <3> QED BY <3>1 DEF kMaxChildren
  <2> QED BY <2>1, FreshNode
<1>2. Len(nodes) = Len(ins) /\ nodes \in [1 .. Len(ins) -> NodeIds]
  <2>1. \A i \in 1 .. Len(ins) : ~ isReady(arr[ins[i]]) => arr[ins[i]].node \in NodeIds
    BY DEF ArrNodesOK, Ref, isReady
  <2>2. nodes = [i \in 1 .. Len(ins) |-> IF isReady(arr[ins[i]]) THEN FreshNodes[i] ELSE arr[ins[i]].node]
    BY DEF GetNodes
  <2>3. nodes \in [1 .. Len(ins) -> NodeIds]
    BY <1>1, <2>1, <2>2
  <2>4. Len(nodes) = Len(ins)
    BY <2>2 DEF kMaxChildren
  <2> QED BY <2>3, <2>4
<1>3. ASSUME NEW n \in NodeIds
      PROVE  \/ (\A i \in made : n # FreshNodes[i]) /\ N[n] = node[n]
             \/ (\E i \in made : n = FreshNodes[i]) /\ Leaf(N[n]) /\ N[n].kind = "buffer"
  <2>1. CASE \E i \in made : FreshNodes[i] = n
    <3>1. PICK i \in made : N[n] = BufferNode(arr[ins[i]])
      BY <2>1 DEF WithBufferNodes
    <3> QED BY <2>1, <3>1 DEF BufferNode, Leaf
  <2>2. CASE ~ \E i \in made : FreshNodes[i] = n
    BY <2>2 DEF WithBufferNodes
  <2> QED BY <2>1, <2>2
<1>4. N = [n \in NodeIds |-> N[n]]
  BY DEF WithBufferNodes
<1> HIDE DEF N
<1>5. /\ HeapOK(N) /\ \A n \in NodeIds : node[n] # NoNode => N[n] = node[n]
  <2>1. \A n \in NodeIds : \/ N[n] = node[n]
                           \/ node[n] = NoNode /\ Leaf(N[n]) /\ N[n].kind = "buffer"
    BY <1>1, <1>3
  <2> QED BY <1>4, <2>1, AddLeaves
<1>6. ASSUME NEW i \in 1 .. Len(ins)
      PROVE  /\ N[nodes[i]] # NoNode
             /\ isReady(arr[ins[i]]) => N[nodes[i]].kind = "buffer" /\ nodes[i] = FreshNodes[i]
             /\ ~ isReady(arr[ins[i]]) => nodes[i] = arr[ins[i]].node
  <2>1. CASE isReady(arr[ins[i]])
    <3>1. nodes[i] = FreshNodes[i] /\ i \in made /\ nodes[i] \in NodeIds
      BY <1>1, <2>1 DEF GetNodes
    <3> QED BY <1>3, <2>1, <3>1 DEF NoNode
  <2>2. CASE ~ isReady(arr[ins[i]])
    <3>1. nodes[i] = arr[ins[i]].node
      BY <2>2 DEF GetNodes
    <3>2. nodes[i] \in NodeIds /\ node[nodes[i]] # NoNode
      BY <2>2, <3>1 DEF ArrNodesOK, Ref, isReady
    <3> QED BY <1>5, <2>2, <3>1, <3>2
  <2> QED BY <2>1, <2>2
<1>7. \A n \in NodeIds : (\A i \in 1 .. Len(ins) : n # FreshNodes[i]) => N[n] = node[n]
  BY <1>3
<1> QED BY <1>2, <1>5, <1>6, <1>7 DEF N

-----------------------------------------------------------------------------
(***************************************************************************)
(* The copies copyModdims makes.                                           *)
(***************************************************************************)
LevelStep(N, S) ==
    UNION {{<<kMaxChildren * e[1] + i, Children(N, e[2])[i]>> : i \in 1 .. Len(Children(N, e[2]))} : e \in S}

IsLevels(N, root, h, L) ==
    L = [k \in 0 .. h |-> IF k = 0 THEN {<<0, root>>} ELSE LevelStep(N, L[k - 1])]

Steps(N, root, h, L) == L[0] = {<<0, root>>} /\ \A k \in 1 .. h : L[k] = LevelStep(N, L[k - 1])

\* The levels satisfy their definition.
LEMMA LevelsUnfold ==
    ASSUME NEW N, NEW root, NEW h \in Nat, NEW L, IsLevels(N, root, h, L)
    PROVE  Steps(N, root, h, L)
<1> DEFINE U(K) == [k \in 0 .. h |-> IF k = 0 THEN {<<0, root>>} ELSE LevelStep(N, K[k - 1])]
<1>1. \A K : U(K)[0] = {<<0, root>>} /\ \A k \in 1 .. h : U(K)[k] = LevelStep(N, K[k - 1])
  OBVIOUS
<1>2. L = U(L)
  BY DEF IsLevels
<1> HIDE DEF U
<1> QED BY <1>1, <1>2 DEF Steps

\* A number names the copy it is a child of.
LEMMA CopyNumbers ==
    ASSUME NEW a \in Nat, NEW b \in Nat, NEW i \in 1 .. kMaxChildren, NEW j \in 1 .. kMaxChildren
    PROVE  /\ kMaxChildren * a + i = kMaxChildren * b + j => a = b /\ i = j
           /\ a < kMaxChildren * a + i
BY DEF kMaxChildren

\* Children are numbered from 1 to kMaxChildren.
LEMMA ChildNumber == ASSUME NEW m \in 0 .. kMaxChildren, NEW i \in 1 .. m PROVE i \in 1 .. kMaxChildren
BY DEF kMaxChildren

\* There are levels of every height.
LEMMA LevelsExist ==
    ASSUME NEW N, NEW root, NEW h \in Nat
    PROVE  \E L : IsLevels(N, root, h, L)
<1> DEFINE Bad == {j \in Nat : ~ \E L : IsLevels(N, root, j, L)}
<1> SUFFICES ASSUME Bad # {} PROVE FALSE
  OBVIOUS
<1>1. PICK j \in Bad : \A i \in Bad : j <= i
  <2>1. Bad \subseteq Nat
    OBVIOUS
  <2> HIDE DEF Bad
  <2> QED BY <2>1, LeastNat
<1>2. j # 0
  <2>1. [k \in 0 .. 0 |-> {<<0, root>>}] =
          [k \in 0 .. 0 |-> IF k = 0 THEN {<<0, root>>}
                            ELSE LevelStep(N, [i \in 0 .. 0 |-> {<<0, root>>}][k - 1])]
    OBVIOUS
  <2>2. IsLevels(N, root, 0, [k \in 0 .. 0 |-> {<<0, root>>}])
    BY <2>1 DEF IsLevels
  <2> QED BY <2>2
<1>3. PICK L : IsLevels(N, root, j - 1, L)
  BY <1>1, <1>2
<1> DEFINE L2 == [k \in 0 .. j |-> IF k < j THEN L[k] ELSE LevelStep(N, L[j - 1])]
<1>4. ASSUME NEW k \in 0 .. j
      PROVE  L2[k] = IF k = 0 THEN {<<0, root>>} ELSE LevelStep(N, L2[k - 1])
  <2>1. CASE k = 0
    <3>1. j - 1 \in Nat /\ 0 < j
      BY <1>2
    <3>2. Steps(N, root, j - 1, L)
      BY <1>3, <3>1, LevelsUnfold, Zenon
    <3> QED BY <2>1, <3>1, <3>2 DEF Steps
  <2>2. CASE k # 0 /\ k < j
    <3>1. k \in 1 .. j - 1 /\ j - 1 \in Nat
      BY <1>2, <2>2
    <3>2. Steps(N, root, j - 1, L)
      BY <1>3, <3>1, LevelsUnfold, Zenon
    <3>4. L[k] = LevelStep(N, L[k - 1])
      BY <3>1, <3>2 DEF Steps
    <3>3. L2[k] = L[k] /\ L2[k - 1] = L[k - 1]
      BY <2>2, <3>1
    <3> QED BY <2>2, <3>3, <3>4
  <2>3. CASE k # 0 /\ k = j
    BY <2>3
  <2> QED BY <2>1, <2>2, <2>3
<1>5. L2 = [k \in 0 .. j |-> L2[k]]
  OBVIOUS
<1> HIDE DEF L2
<1>6. L2 = [k \in 0 .. j |-> IF k = 0 THEN {<<0, root>>} ELSE LevelStep(N, L2[k - 1])]
  BY <1>4, <1>5
<1>7. IsLevels(N, root, j, L2)
  BY <1>6 DEF IsLevels
<1> QED BY <1>7

\* The copies are the elements of the levels.
LEMMA CopiesAreLevels ==
    ASSUME NEW N, NEW root, getHeight(N, root) \in Nat
    PROVE  \E L : /\ IsLevels(N, root, getHeight(N, root), L)
                  /\ Copies(N, root) = UNION {L[k] : k \in 0 .. getHeight(N, root)}
<1> DEFINE h == getHeight(N, root)
           L == CHOOSE L : L = [k \in 0 .. h |-> IF k = 0 THEN {<<0, root>>} ELSE LevelStep(N, L[k - 1])]
<1>1. IsLevels(N, root, h, L)
  <2>0. \E K : IsLevels(N, root, h, K)
    BY LevelsExist, Zenon
  <2>1. \E K : K = [k \in 0 .. h |-> IF k = 0 THEN {<<0, root>>} ELSE LevelStep(N, K[k - 1])]
    BY <2>0, Zenon DEF IsLevels
  <2>2. L = [k \in 0 .. h |-> IF k = 0 THEN {<<0, root>>} ELSE LevelStep(N, L[k - 1])]
    BY <2>1, Zenon
  <2> QED BY <2>2 DEF IsLevels
<1>2. Copies(N, root) = UNION {L[k] : k \in 0 .. h}
  BY DEF Copies, LevelStep
<1> QED BY <1>1, <1>2

\* Step by step down the levels
LEMMA LevelFacts ==
    ASSUME NEW N, HeapOK(N), NEW root \in NodeIds, N[root] # NoNode,
           NEW L, IsLevels(N, root, getHeight(N, root), L)
    PROVE  /\ getHeight(N, root) \in Nat
           /\ L[0] = {<<0, root>>}
           /\ \A k \in 0 .. getHeight(N, root) : \A e \in L[k] :
                /\ e \in Nat \X NodeIds /\ N[e[2]] # NoNode
                /\ getHeight(N, e[2]) <= getHeight(N, root) - k
                /\ k # 0 => \E f \in L[k - 1] : \E i \in 1 .. Len(Children(N, f[2])) :
                               e = <<kMaxChildren * f[1] + i, Children(N, f[2])[i]>>
                /\ k = 0 => e = <<0, root>>
           /\ \A k \in 0 .. getHeight(N, root) : k # getHeight(N, root) =>
                \A e \in L[k] : \A i \in 1 .. Len(Children(N, e[2])) :
                   <<kMaxChildren * e[1] + i, Children(N, e[2])[i]>> \in L[k + 1]
<1> DEFINE h == getHeight(N, root)
           Good(e, k) == /\ e \in Nat \X NodeIds /\ N[e[2]] # NoNode
                         /\ getHeight(N, e[2]) <= h - k
           Bad == {k \in 0 .. h : ~ \A e \in L[k] : Good(e, k)}
<1>1. h \in Nat
  BY BelowOf
<1>2. L[0] = {<<0, root>>} /\ \A k \in 1 .. h : L[k] = LevelStep(N, L[k - 1])
  <2>1. Steps(N, root, h, L)
    BY <1>1, LevelsUnfold, Zenon
  <2> QED BY <2>1 DEF Steps
<1>3. \A k \in 1 .. h : \A e \in L[k] :
         \E f \in L[k - 1] : \E i \in 1 .. Len(Children(N, f[2])) :
            e = <<kMaxChildren * f[1] + i, Children(N, f[2])[i]>>
  BY <1>2 DEF LevelStep
<1>4. \A k \in 0 .. h : k # h =>
         \A e \in L[k] : \A i \in 1 .. Len(Children(N, e[2])) :
            <<kMaxChildren * e[1] + i, Children(N, e[2])[i]>> \in L[k + 1]
  <2> SUFFICES ASSUME NEW k \in 0 .. h, k # h, NEW e \in L[k],
                      NEW i \in 1 .. Len(Children(N, e[2]))
               PROVE  <<kMaxChildren * e[1] + i, Children(N, e[2])[i]>> \in L[k + 1]
    OBVIOUS
  <2>1. k + 1 \in 1 .. h /\ L[k + 1] = LevelStep(N, L[k])
    <3>1. k + 1 \in 1 .. h /\ (k + 1) - 1 = k
      BY <1>1
    <3> QED BY <1>2, <3>1
  <2> QED BY <2>1 DEF LevelStep
<1>5. Bad = {}
  <2> SUFFICES ASSUME Bad # {} PROVE FALSE
    OBVIOUS
  <2>1. PICK k \in Bad : \A j \in Bad : k <= j
    <3>1. Bad \subseteq Nat
      BY <1>1
    <3> HIDE DEF Bad
    <3> QED BY <3>1, LeastNat
  <2>2. k # 0
    BY <1>1, <1>2, <2>1
  <2>3. \A f \in L[k - 1] : Good(f, k - 1)
    BY <1>1, <2>1, <2>2
  <2>4. ASSUME NEW e \in L[k] PROVE Good(e, k)
    <3>1. k \in 1 .. h
      BY <1>1, <2>1, <2>2
    <3>2a. PICK f \in L[k - 1] : \E i \in 1 .. Len(Children(N, f[2])) :
                 e = <<kMaxChildren * f[1] + i, Children(N, f[2])[i]>>
      BY <1>3, <3>1
    <3>2. PICK i \in 1 .. Len(Children(N, f[2])) : e = <<kMaxChildren * f[1] + i, Children(N, f[2])[i]>>
      BY <3>2a
    <3>3. f[1] \in Nat /\ f[2] \in NodeIds /\ getHeight(N, f[2]) <= h - (k - 1)
      BY <2>3
    <3>4. /\ Children(N, f[2])[i] \in NodeIds /\ N[Children(N, f[2])[i]] # NoNode
          /\ getHeight(N, Children(N, f[2])[i]) < getHeight(N, f[2])
          /\ i \in Nat
      <4>1. /\ Len(Children(N, f[2])) \in 0 .. kMaxChildren
            /\ Children(N, f[2]) \in [1 .. Len(Children(N, f[2])) -> NodeIds]
            /\ \A j \in 1 .. Len(Children(N, f[2])) :
                  /\ N[Children(N, f[2])[j]] # NoNode
                  /\ getHeight(N, Children(N, f[2])[j]) < getHeight(N, f[2])
        BY <3>3, ChildrenOf
      <4>2. i \in Nat /\ Children(N, f[2])[i] \in NodeIds
        BY <4>1 DEF kMaxChildren
      <4> QED BY <4>1, <4>2
    <3>5. getHeight(N, Children(N, f[2])[i]) \in Nat /\ getHeight(N, f[2]) \in Nat
      BY <3>3, <3>4, ChildrenOf
    <3>6. getHeight(N, Children(N, f[2])[i]) <= h - k
      BY <1>1, <3>1, <3>3, <3>4, <3>5
    <3>7. kMaxChildren * f[1] + i \in Nat
      BY <3>3, <3>4 DEF kMaxChildren
    <3> QED BY <3>2, <3>4, <3>6, <3>7
  <2> QED BY <2>1, <2>4
<1>6. \A k \in 0 .. h : \A e \in L[k] : Good(e, k)
  BY <1>5
<1>7. \A k \in 0 .. h : k # 0 => k \in 1 .. h
  BY <1>1
<1> HIDE DEF h
<1>8. \A k \in 0 .. h : \A e \in L[k] :
         /\ k # 0 => \E f \in L[k - 1] : \E i \in 1 .. Len(Children(N, f[2])) :
                        e = <<kMaxChildren * f[1] + i, Children(N, f[2])[i]>>
         /\ k = 0 => e = <<0, root>>
  BY <1>2, <1>3, <1>7
<1> QED BY <1>1, <1>2, <1>4, <1>6, <1>8 DEF h

\* The copies that copyModdims makes: finitely many, of nodes that are there, no
\* two with one number, each with a copy for every child; one of a leaf.
LEMMA CopyFacts ==
    ASSUME NEW N, HeapOK(N), NEW root \in NodeIds, N[root] # NoNode
    PROVE  LET C == Copies(N, root)
           IN  /\ C \subseteq Nat \X NodeIds /\ IsFiniteSet(C) /\ <<0, root>> \in C
               /\ \A e \in C : N[e[2]] # NoNode
               /\ \A e, f \in C : e[1] = f[1] => e = f
               /\ \A e \in C : \A i \in 1 .. Len(Children(N, e[2])) :
                     <<kMaxChildren * e[1] + i, Children(N, e[2])[i]>> \in C
               /\ getHeight(N, root) = 0 => C = {<<0, root>>}
<1> DEFINE C == Copies(N, root)
           h == getHeight(N, root)
<1>1. h \in Nat
  BY BelowOf
<1>2. PICK L : IsLevels(N, root, h, L) /\ C = UNION {L[k] : k \in 0 .. h}
  BY <1>1, CopiesAreLevels
<1> HIDE DEF C, h
<1>3. /\ L[0] = {<<0, root>>}
      /\ \A k \in 0 .. h : \A e \in L[k] :
                /\ e \in Nat \X NodeIds /\ N[e[2]] # NoNode
                /\ getHeight(N, e[2]) <= h - k
                /\ k # 0 => \E f \in L[k - 1] : \E i \in 1 .. Len(Children(N, f[2])) :
                               e = <<kMaxChildren * f[1] + i, Children(N, f[2])[i]>>
                /\ k = 0 => e = <<0, root>>
      /\ \A k \in 0 .. h : k # h =>
                \A e \in L[k] : \A i \in 1 .. Len(Children(N, e[2])) :
                   <<kMaxChildren * e[1] + i, Children(N, e[2])[i]>> \in L[k + 1]
  BY <1>2, LevelFacts DEF h
<1>4. C \subseteq Nat \X NodeIds /\ <<0, root>> \in C /\ \A e \in C : N[e[2]] # NoNode
  BY <1>1, <1>2, <1>3
<1>5. ASSUME NEW e \in C, NEW i \in 1 .. Len(Children(N, e[2]))
      PROVE  <<kMaxChildren * e[1] + i, Children(N, e[2])[i]>> \in C
  <2>1. PICK k \in 0 .. h : e \in L[k]
    BY <1>2
  <2>2. e[2] \in NodeIds
    BY <1>4
  <2>3. getHeight(N, e[2]) \in Nat /\ getHeight(N, e[2]) # 0
    <3>1. Len(Children(N, e[2])) # 0
      BY <2>2, ChildrenOf DEF kMaxChildren
    <3> QED BY <2>2, <3>1, ChildrenOf
  <2>4. k # h /\ k + 1 \in 0 .. h
    BY <1>1, <1>3, <2>1, <2>3
  <2>5. <<kMaxChildren * e[1] + i, Children(N, e[2])[i]>> \in L[k + 1]
    BY <1>3, <2>1, <2>4
  <2> QED BY <1>2, <2>4, <2>5
<1>6. \A e \in C : e[1] = 0 => e = <<0, root>>
  <2> SUFFICES ASSUME NEW k \in 0 .. h, NEW e \in L[k], e[1] = 0 PROVE e = <<0, root>>
    BY <1>2
  <2>1. CASE k = 0
    BY <1>3, <2>1
  <2>2. CASE k # 0
    <3>1a. PICK f \in L[k - 1] : \E i \in 1 .. Len(Children(N, f[2])) :
                 e = <<kMaxChildren * f[1] + i, Children(N, f[2])[i]>>
      BY <1>3, <2>2
    <3>1. PICK i \in 1 .. Len(Children(N, f[2])) : e = <<kMaxChildren * f[1] + i, Children(N, f[2])[i]>>
      BY <3>1a
    <3>2. k - 1 \in 0 .. h
      BY <1>1, <2>2
    <3>3. f[1] \in Nat /\ f[2] \in NodeIds
      BY <1>3, <3>2
    <3>4. i \in Nat \ {0}
      BY <3>3, ChildrenOf DEF kMaxChildren
    <3>5. e[1] = kMaxChildren * f[1] + i
      BY <3>1
    <3> QED BY <3>3, <3>4, <3>5 DEF kMaxChildren
  <2> QED BY <2>1, <2>2
<1>7. \A e \in C : e # <<0, root>> =>
         \E f \in C : \E i \in 1 .. kMaxChildren : /\ e[1] = kMaxChildren * f[1] + i
                                                   /\ e[2] = Children(N, f[2])[i]
  <2> SUFFICES ASSUME NEW k \in 0 .. h, NEW e \in L[k], e # <<0, root>>
               PROVE  \E f \in C : \E i \in 1 .. kMaxChildren : /\ e[1] = kMaxChildren * f[1] + i
                                                                /\ e[2] = Children(N, f[2])[i]
    BY <1>2
  <2>1. k # 0 /\ k - 1 \in 0 .. h
    BY <1>1, <1>3
  <2>2a. PICK f \in L[k - 1] : \E i \in 1 .. Len(Children(N, f[2])) :
               e = <<kMaxChildren * f[1] + i, Children(N, f[2])[i]>>
    BY <1>3, <2>1
  <2>2. PICK i \in 1 .. Len(Children(N, f[2])) : e = <<kMaxChildren * f[1] + i, Children(N, f[2])[i]>>
    BY <2>2a
  <2>3. f \in C /\ f[2] \in NodeIds
    BY <1>2, <1>3, <2>1
  <2>4. Len(Children(N, f[2])) \in 0 .. kMaxChildren
    BY <2>3, ChildrenOf
  <2>5. i \in 1 .. kMaxChildren
    BY <2>4, ChildNumber, Zenon
  <2> QED BY <2>2, <2>3, <2>5
<1>8. \A e, f \in C : e[1] = f[1] => e = f
  <2> DEFINE Bad == {c \in Nat : \E e, f \in C : e[1] = c /\ f[1] = c /\ e # f}
  <2>1. Bad = {}
    <3> SUFFICES ASSUME Bad # {} PROVE FALSE
      OBVIOUS
    <3>1. PICK c \in Bad : \A d \in Bad : c <= d
      <4>1. Bad \subseteq Nat
        OBVIOUS
      <4> HIDE DEF Bad
      <4> QED BY <4>1, LeastNat
    <3>2. PICK e \in C, f \in C : e[1] = c /\ f[1] = c /\ e # f
      BY <3>1
    <3>3. c # 0
      BY <1>6, <3>2
    <3>4. e # <<0, root>> /\ f # <<0, root>>
      BY <3>2, <3>3
    <3>5. PICK g \in C, i \in 1 .. kMaxChildren : /\ e[1] = kMaxChildren * g[1] + i
                                                  /\ e[2] = Children(N, g[2])[i]
      BY <1>7, <3>4
    <3>6. PICK d \in C, j \in 1 .. kMaxChildren : /\ f[1] = kMaxChildren * d[1] + j
                                                  /\ f[2] = Children(N, d[2])[j]
      BY <1>7, <3>4
    <3>7. g[1] \in Nat /\ d[1] \in Nat /\ c \in Nat
      BY <1>4, <3>1
    <3>8. g[1] = d[1] /\ i = j /\ g[1] < c
      BY <3>2, <3>5, <3>6, <3>7, CopyNumbers
    <3>9. g[1] \notin Bad
      BY <3>1, <3>7, <3>8
    <3>10. g = d
      BY <3>7, <3>8, <3>9
    <3>11. e \in Nat \X NodeIds /\ f \in Nat \X NodeIds
      BY <1>4
    <3> QED BY <3>2, <3>5, <3>6, <3>8, <3>10, <3>11
  <2>2. \A e \in C : e[1] \in Nat
    BY <1>4
  <2> QED BY <2>1, <2>2
<1>9. \E b \in Nat : \A e \in C : e[1] <= b
  <2> DEFINE Bounded(k) == \E b \in Nat : \A j \in 0 .. k : \A e \in L[j] : e[1] <= b
             Bad == {k \in 0 .. h : ~ Bounded(k)}
  <2>1. Bounded(0)
    <3>1. \A j \in 0 .. 0 : L[j] = {<<0, root>>}
      BY <1>3
    <3>2. \A j \in 0 .. 0 : \A e \in L[j] : e[1] <= 0
      BY <3>1
    <3> QED BY <3>2
  <2>2. ASSUME NEW k \in 1 .. h, Bounded(k - 1) PROVE Bounded(k)
    <3>1. PICK b \in Nat : \A j \in 0 .. k - 1 : \A e \in L[j] : e[1] <= b
      BY <2>2
    <3>2. ASSUME NEW e \in L[k] PROVE e[1] <= kMaxChildren * b + kMaxChildren
      <4>1. k \in 0 .. h /\ k # 0 /\ k - 1 \in 0 .. h /\ k - 1 \in 0 .. k - 1
        BY <1>1
      <4>2. PICK f \in L[k - 1] : \E i \in 1 .. Len(Children(N, f[2])) :
               e = <<kMaxChildren * f[1] + i, Children(N, f[2])[i]>>
        BY <1>3, <4>1
      <4>3. PICK i \in 1 .. Len(Children(N, f[2])) : e = <<kMaxChildren * f[1] + i, Children(N, f[2])[i]>>
        BY <4>2
      <4>4. f[1] \in Nat /\ f[2] \in NodeIds
        BY <1>3, <4>1
      <4>5. f[1] <= b
        BY <3>1, <4>1
      <4>6. Len(Children(N, f[2])) \in 0 .. kMaxChildren
        BY <4>4, ChildrenOf
      <4>7. e[1] = kMaxChildren * f[1] + i /\ i \in 1 .. kMaxChildren
        BY <4>3, <4>6 DEF kMaxChildren
      <4> HIDE DEF Bad, Bounded
      <4>8. \A x, y \in Nat : x <= y => kMaxChildren * x <= kMaxChildren * y
        BY DEF kMaxChildren
      <4> QED BY <4>4, <4>5, <4>7, <4>8 DEF kMaxChildren
    <3>3. kMaxChildren * b + kMaxChildren \in Nat /\ b <= kMaxChildren * b + kMaxChildren
      BY DEF kMaxChildren
    <3>4. ASSUME NEW j \in 0 .. k, NEW e \in L[j] PROVE e[1] <= kMaxChildren * b + kMaxChildren
      <4>1. CASE j = k
        BY <3>2, <4>1
      <4>2. CASE j # k
        <5>1. j \in 0 .. k - 1 /\ j \in 0 .. h
          BY <1>1, <4>2
        <5>2. e[1] <= b /\ e[1] \in Nat
          BY <1>3, <3>1, <5>1
        <5> QED BY <3>3, <5>2
      <4> QED BY <4>1, <4>2
    <3> QED BY <3>3, <3>4
  <2> HIDE DEF Bounded
  <2>3. Bad = {}
    <3> SUFFICES ASSUME Bad # {} PROVE FALSE
      OBVIOUS
    <3>1. PICK k \in Bad : \A j \in Bad : k <= j
      <4>1. Bad \subseteq Nat
        BY <1>1
      <4> HIDE DEF Bad
      <4> QED BY <4>1, LeastNat
    <3>2. k \in 1 .. h /\ k - 1 \in 0 .. h /\ ~ Bounded(k)
      BY <1>1, <2>1, <3>1
    <3>3. k - 1 \notin Bad
      BY <3>1, <3>2
    <3> QED BY <2>2, <3>2, <3>3
  <2>4. Bounded(h)
    BY <1>1, <2>3
  <2>5. PICK b \in Nat : \A j \in 0 .. h : \A e \in L[j] : e[1] <= b
    BY <2>4 DEF Bounded
  <2> QED BY <1>2, <2>5
<1>10. IsFiniteSet(C)
  <2>1. PICK b \in Nat : \A e \in C : e[1] <= b
    BY <1>9
  <2>2. C \subseteq (0 .. b) \X NodeIds
    BY <1>4, <2>1
  <2>3. IsFiniteSet((0 .. b) \X NodeIds)
    <3>1. IsFiniteSet(0 .. b) /\ IsFiniteSet(NodeIds)
      BY JitAssumption, FS_Interval
    <3> QED BY <3>1, FS_Product, Zenon
  <2>4. C \in SUBSET ((0 .. b) \X NodeIds)
    BY <2>2
  <2> QED BY <2>3, <2>4, FS_Subset
<1>11. h = 0 => C = {<<0, root>>}
  BY <1>2, <1>3
<1> QED BY <1>4, <1>5, <1>8, <1>10, <1>11 DEF C, h

Rank(C, c) == Cardinality({e \in C : e[1] <= c})

\* The numbers of the copies have different ranks.
LEMMA RankOfCopy ==
    ASSUME NEW C, IsFiniteSet(C), C \subseteq Nat \X NodeIds,
           \A e, f \in C : e[1] = f[1] => e = f
    PROVE  /\ \A e \in C : Rank(C, e[1]) \in 1 .. Cardinality(C)
           /\ \A e, f \in C : Rank(C, e[1]) = Rank(C, f[1]) => e = f
<1> DEFINE U(c) == {e \in C : e[1] <= c}
<1>1. \A c : U(c) \in SUBSET C /\ IsFiniteSet(U(c)) /\ Rank(C, c) = Cardinality(U(c))
  BY FS_Subset DEF Rank
<1>2. \A c : Cardinality(U(c)) <= Cardinality(C) /\ Cardinality(U(c)) \in Nat
  BY <1>1, FS_Subset, FS_CardinalityType
<1>3. \A e \in C : e[1] \in Nat /\ e \in U(e[1])
  OBVIOUS
<1>4. \A e \in C : Cardinality(U(e[1])) # 0
  BY <1>1, <1>3, FS_EmptySet
<1>5. Cardinality(C) \in Nat
  BY FS_CardinalityType
<1>6. ASSUME NEW e \in C, NEW f \in C, Rank(C, e[1]) = Rank(C, f[1]), e[1] <= f[1]
      PROVE  e = f
  <2>1. U(e[1]) \in SUBSET U(f[1])
    BY <1>3, <1>6
  <2>2. U(e[1]) = U(f[1])
    <3> HIDE DEF U
    <3> QED BY <1>1, <1>6, <2>1, FS_Subset
  <2>3. f[1] <= e[1]
    BY <1>3, <2>2
  <2>4. e[1] = f[1]
    BY <1>3, <1>6, <2>3
  <2> QED BY <2>4
<1>7. \A e \in C : Rank(C, e[1]) \in 1 .. Cardinality(C)
  <2> HIDE DEF U
  <2> QED BY <1>1, <1>2, <1>4, <1>5
<1>8. \A e, f \in C : Rank(C, e[1]) = Rank(C, f[1]) => e = f
  <2> SUFFICES ASSUME NEW e \in C, NEW f \in C, Rank(C, e[1]) = Rank(C, f[1]) PROVE e = f
    OBVIOUS
  <2>1. e[1] <= f[1] \/ f[1] <= e[1]
    BY <1>3
  <2> QED BY <1>6, <2>1
<1> QED BY <1>7, <1>8

CopyId(C, fresh, c) == fresh[Rank(C, c)]

CloneOf(N, C, dims, fresh, e) ==
    LET r == N[e[2]] IN
    CASE r.kind = "nary" ->
           [r EXCEPT !.children = [i \in 1 .. Len(@) |-> CopyId(C, fresh, kMaxChildren * e[1] + i)]]
      [] r.kind = "buffer" -> [r EXCEPT !.dims = dims, !.strides = calcStrides(dims)]
      [] OTHER -> r

\* copyModdims by the rank of a copy
LEMMA CopiedHeap ==
    ASSUME NEW N, NEW root, NEW dims, NEW fresh
    PROVE  LET C == Copies(N, root)
               c == copyModdims(N, root, dims, fresh)
           IN  /\ c.root = CopyId(C, fresh, 0)
               /\ c.nodes = [n \in NodeIds |->
                     IF \E e \in C : CopyId(C, fresh, e[1]) = n
                     THEN CloneOf(N, C, dims, fresh, CHOOSE e \in C : CopyId(C, fresh, e[1]) = n)
                     ELSE N[n]]
BY DEF copyModdims, CopyId, CloneOf, Rank

\* The copies make a heap with the old nodes.
LEMMA CopyKeepsHeap ==
    ASSUME NEW N, HeapOK(N), NEW root \in NodeIds, N[root] # NoNode, NEW dims, NEW fresh,
           \A i \in 1 .. Cardinality(Copies(N, root)) :
              /\ fresh[i] \in NodeIds /\ N[fresh[i]] = NoNode
              /\ \A j \in 1 .. Cardinality(Copies(N, root)) : fresh[i] = fresh[j] => i = j
    PROVE  LET c == copyModdims(N, root, dims, fresh)
           IN  /\ HeapOK(c.nodes) /\ c.root \in NodeIds /\ c.nodes[c.root] # NoNode
               /\ \A n \in NodeIds : N[n] # NoNode => c.nodes[n] = N[n]
<1> DEFINE C == Copies(N, root)
           Id(c) == CopyId(C, fresh, c)
           Clone(e) == CloneOf(N, C, dims, fresh, e)
           N2 == copyModdims(N, root, dims, fresh).nodes
<1>1. /\ C \subseteq Nat \X NodeIds /\ IsFiniteSet(C) /\ <<0, root>> \in C
      /\ \A e \in C : N[e[2]] # NoNode
      /\ \A e, f \in C : e[1] = f[1] => e = f
      /\ \A e \in C : \A i \in 1 .. Len(Children(N, e[2])) :
             <<kMaxChildren * e[1] + i, Children(N, e[2])[i]>> \in C
  BY CopyFacts
<1>2. /\ \A e \in C : Rank(C, e[1]) \in 1 .. Cardinality(C)
      /\ \A e, f \in C : Rank(C, e[1]) = Rank(C, f[1]) => e = f
  <2> HIDE DEF C
  <2> QED BY <1>1, RankOfCopy
<1>3. /\ \A e \in C : Id(e[1]) \in NodeIds /\ N[Id(e[1])] = NoNode
      /\ \A e, f \in C : Id(e[1]) = Id(f[1]) => e = f
  BY <1>2 DEF CopyId
<1>4. /\ copyModdims(N, root, dims, fresh).root = Id(0)
      /\ N2 = [n \in NodeIds |-> IF \E e \in C : Id(e[1]) = n
                                 THEN Clone(CHOOSE e \in C : Id(e[1]) = n) ELSE N[n]]
  BY CopiedHeap
<1> HIDE DEF N2, C, Id, Clone
<1>5. \A e \in C : N2[Id(e[1])] = Clone(e)
  <2> SUFFICES ASSUME NEW e \in C PROVE N2[Id(e[1])] = Clone(e)
    OBVIOUS
  <2>1. (CHOOSE f \in C : Id(f[1]) = Id(e[1])) = e
    BY <1>3
  <2> QED BY <1>3, <1>4, <2>1
<1>6. \A n \in NodeIds : N2[n] = N[n] \/ \E e \in C : n = Id(e[1])
  BY <1>4
<1>7. \A n \in NodeIds : N[n] # NoNode => N2[n] = N[n]
  BY <1>3, <1>6
<1>8. ASSUME NEW e \in C
      PROVE  LET r == N[e[2]] IN
             \/ r.kind = "shift" /\ Clone(e) = r
             \/ r.kind # "shift" /\ Leaf(r) /\ Leaf(Clone(e)) /\ Clone(e).kind = r.kind
             \/ /\ r.kind = "nary" /\ Clone(e) \in NaryNodes /\ Clone(e).height = r.height
                /\ Clone(e).kind = "nary"
                /\ Clone(e).children = [i \in 1 .. Len(r.children) |-> Id(kMaxChildren * e[1] + i)]
  <2> DEFINE r == N[e[2]]
  <2>1. e[2] \in NodeIds /\ e[1] \in Nat
    BY <1>1
  <2>2. NodeOK(r) /\ r # NoNode
    BY <1>1, <2>1 DEF HeapOK
  <2>3. CASE r.kind = "nary"
    <3>1. r \in NaryNodes
      BY <2>2, <2>3, NodeKinds
    <3> DEFINE ch == [i \in 1 .. Len(r.children) |-> Id(kMaxChildren * e[1] + i)]
    <3>2. Clone(e) = [r EXCEPT !.children = ch]
      BY <2>3 DEF Clone, CloneOf, Id
    <3>3. Children(N, e[2]) = r.children
      BY <2>3 DEF Children
    <3>4. \A i \in 1 .. Len(r.children) : Id(kMaxChildren * e[1] + i) \in NodeIds
      <4> SUFFICES ASSUME NEW i \in 1 .. Len(r.children) PROVE Id(kMaxChildren * e[1] + i) \in NodeIds
        OBVIOUS
      <4> DEFINE f == <<kMaxChildren * e[1] + i, Children(N, e[2])[i]>>
      <4>1. f \in C /\ f[1] = kMaxChildren * e[1] + i
        BY <1>1, <3>3
      <4> QED BY <1>3, <4>1
    <3>5. Len(r.children) \in 1 .. kMaxChildren
      BY <3>1, NaryParts
    <3> HIDE DEF r
    <3>6. ch \in [1 .. Len(r.children) -> NodeIds]
      BY <3>4
    <3> HIDE DEF ch
    <3>7. /\ r = [kind |-> "nary", children |-> r.children, height |-> r.height]
          /\ r.height \in Nat \ {0}
      BY <3>1 DEF NaryNodes
    <3>8. Clone(e) = [kind |-> "nary", children |-> ch, height |-> r.height]
      BY <3>2, <3>7
    <3>9. Clone(e) \in NaryNodes
      BY <3>5, <3>6, <3>7, <3>8 DEF NaryNodes
    <3>10. Clone(e).height = r.height /\ Clone(e).kind = "nary" /\ Clone(e).children = ch
      BY <3>8
    <3> QED BY <2>3, <3>9, <3>10 DEF ch, r
  <2>4. CASE r.kind # "nary"
    <3>1. Leaf(r)
      BY <2>2, <2>4 DEF NodeOK, NaryNodes
    <3>2. CASE r.kind = "buffer"
      <4>1. Clone(e) = [r EXCEPT !.dims = dims, !.strides = calcStrides(dims)]
        BY <3>2 DEF Clone, CloneOf
      <4>2. Leaf(Clone(e)) /\ Clone(e).kind = r.kind
        <5> HIDE DEF r
        <5> QED BY <3>1, <4>1 DEF Leaf
      <4> QED BY <3>1, <3>2, <4>2
    <3>3. CASE r.kind # "buffer"
      <4>1. Clone(e) = r
        BY <2>4, <3>3 DEF Clone, CloneOf
      <4> QED BY <3>1, <4>1
    <3> QED BY <3>2, <3>3
  <2> QED BY <2>3, <2>4
<1>9. \A e \in C : getHeight(N2, Id(e[1])) = getHeight(N, e[2]) /\ N2[Id(e[1])] # NoNode
  <2> SUFFICES ASSUME NEW e \in C
               PROVE  getHeight(N2, Id(e[1])) = getHeight(N, e[2]) /\ N2[Id(e[1])] # NoNode
    OBVIOUS
  <2>1. N2[Id(e[1])] = Clone(e)
    BY <1>5
  <2>2. NoNode.kind = "free"
    BY DEF NoNode
  <2>3. Clone(e).kind = N[e[2]].kind /\ N[e[2]].kind # "free"
    BY <1>8 DEF Leaf
  <2>4. N2[Id(e[1])] # NoNode
    BY <2>1, <2>2, <2>3
  <2>5. CASE N[e[2]].kind = "nary"
    <3>1. Clone(e).height = N[e[2]].height
      BY <1>8, <2>5 DEF Leaf
    <3> QED BY <2>1, <2>3, <2>4, <2>5, <3>1 DEF getHeight
  <2>6. CASE N[e[2]].kind # "nary"
    BY <2>1, <2>3, <2>4, <2>6 DEF getHeight
  <2> QED BY <2>5, <2>6
<1>10. \A n \in NodeIds : NodeOK(N2[n])
  <2> SUFFICES ASSUME NEW n \in NodeIds PROVE NodeOK(N2[n])
    OBVIOUS
  <2>1. CASE N2[n] = N[n]
    BY <2>1 DEF HeapOK
  <2>2. ASSUME NEW e \in C, n = Id(e[1]) PROVE NodeOK(N2[n])
    <3>1. N2[n] = Clone(e) /\ e[2] \in NodeIds
      BY <1>1, <1>5, <2>2
    <3>2. NodeOK(N[e[2]])
      BY <3>1 DEF HeapOK
    <3> QED BY <1>8, <3>1, <3>2 DEF NodeOK
  <2> QED BY <1>6, <2>1, <2>2
<1>11. ASSUME NEW n \in NodeIds, N2[n].kind = "shift"
       PROVE  N2[n].in \in NodeIds /\ N2[N2[n].in].kind = "buffer"
  <2>1. \E m \in NodeIds : N2[n] = N[m]
    <3>1. CASE N2[n] = N[n]
      BY <3>1
    <3>2. ASSUME NEW e \in C, n = Id(e[1]) PROVE \E m \in NodeIds : N2[n] = N[m]
      <4>1. N2[n] = Clone(e) /\ e[2] \in NodeIds
        BY <1>1, <1>5, <3>2
      <4>2. Clone(e) = N[e[2]]
        BY <1>8, <1>11, <4>1
      <4> QED BY <4>1, <4>2
    <3> QED BY <1>6, <3>1, <3>2
  <2>2. N2[n].in \in NodeIds /\ N[N2[n].in].kind = "buffer"
    BY <1>11, <2>1 DEF HeapOK
  <2> QED BY <1>7, <2>2 DEF NoNode
<1>12. ASSUME NEW n \in NodeIds, N2[n].kind = "nary", NEW i \in 1 .. Len(N2[n].children)
       PROVE  /\ N2[N2[n].children[i]] # NoNode
              /\ getHeight(N2, N2[n].children[i]) < N2[n].height
  <2>1. CASE N2[n] = N[n]
    <3>1. N[n].children[i] \in NodeIds
      BY <1>12, <2>1, ChildrenOf DEF Children
    <3>2. N[N[n].children[i]] # NoNode /\ getHeight(N, N[n].children[i]) < N[n].height
      BY <1>12, <2>1 DEF HeapOK
    <3> QED BY <1>7, <2>1, <3>1, <3>2 DEF getHeight
  <2>2. ASSUME NEW e \in C, n = Id(e[1])
        PROVE  /\ N2[N2[n].children[i]] # NoNode
               /\ getHeight(N2, N2[n].children[i]) < N2[n].height
    <3> DEFINE r == N[e[2]]
    <3>1. N2[n] = Clone(e) /\ e[2] \in NodeIds
      BY <1>1, <1>5, <2>2
    <3>2. /\ r.kind = "nary" /\ N2[n].height = r.height
          /\ N2[n].children = [j \in 1 .. Len(r.children) |-> Id(kMaxChildren * e[1] + j)]
      BY <1>8, <1>12, <3>1 DEF Leaf
    <3>3. Children(N, e[2]) = r.children /\ r \in NaryNodes
      BY <3>1, <3>2, NodeKinds DEF Children, HeapOK
    <3>4. Len(r.children) \in 1 .. kMaxChildren
      BY <3>3, NaryParts
    <3>5. i \in 1 .. Len(r.children) /\ N2[n].children[i] = Id(kMaxChildren * e[1] + i)
      BY <1>12, <3>2, <3>4 DEF kMaxChildren
    <3> DEFINE f == <<kMaxChildren * e[1] + i, r.children[i]>>
    <3>6. f \in C /\ f[1] = kMaxChildren * e[1] + i /\ f[2] = r.children[i]
      BY <1>1, <3>3, <3>5
    <3>7. getHeight(N, r.children[i]) < r.height
      BY <3>1, <3>2, <3>5 DEF HeapOK
    <3> HIDE DEF f, r
    <3>8. N2[n].children[i] = Id(f[1])
      BY <3>5, <3>6
    <3>9. getHeight(N2, Id(f[1])) = getHeight(N, r.children[i]) /\ N2[Id(f[1])] # NoNode
      BY <1>9, <3>6
    <3> QED BY <3>2, <3>7, <3>8, <3>9
  <2> QED BY <1>6, <2>1, <2>2
<1>13. HeapOK(N2)
  BY <1>4, <1>10, <1>11, <1>12 DEF HeapOK
<1>14. Id(0) \in NodeIds /\ N2[Id(0)] # NoNode
  <2>1. <<0, root>>[1] = 0
    OBVIOUS
  <2> QED BY <1>1, <1>3, <1>9, <2>1
<1> QED BY <1>4, <1>7, <1>13, <1>14 DEF N2

(***************************************************************************)
(* The heuristics refuse no operation on evaluated arrays and constants.   *)
(***************************************************************************)

\* The sum over a set of at most two elements
LEMMA SumsOfFew ==
    ASSUME NEW f, NEW a, NEW b, f[a] \in Nat, f[b] \in Nat
    PROVE  /\ SumFunctionOnSet(f, {a}) = f[a]
           /\ a # b => SumFunctionOnSet(f, {a, b}) = f[a] + f[b]
<1> DEFINE Elem(s) == CHOOSE x \in s : TRUE
           Is(g, S) == g = [s \in SUBSET S |-> IF s = {} THEN 0 ELSE f[Elem(s)] + g[s \ {Elem(s)}]]
           it(S) == CHOOSE g : Is(g, S)
           Part(s) == (IF a \in s THEN f[a] ELSE 0) + (IF b # a /\ b \in s THEN f[b] ELSE 0)
<1>1. \A S : SumFunctionOnSet(f, S) = it(S)[S]
  BY DEF SumFunctionOnSet, FoldFunctionOnSet, MapThenFoldSet
<1>2. \A s : s # {} => Elem(s) \in s
  OBVIOUS
<1> HIDE DEF Elem
<1>3. ASSUME NEW s \in SUBSET {a, b}, NEW x \in s
      PROVE  Part(s) = f[x] + Part(s \ {x})
  OBVIOUS
<1>4. ASSUME NEW S \in SUBSET {a, b} PROVE Is(it(S), S)
  <2> DEFINE h == [s \in SUBSET S |-> Part(s)]
  <2>1. \A s \in SUBSET S : h[s] = Part(s)
    OBVIOUS
  <2>2. Part({}) = 0
    OBVIOUS
  <2>3. \A s \in SUBSET S : s # {} => /\ s \in SUBSET {a, b} /\ Elem(s) \in s
                                      /\ s \ {Elem(s)} \in SUBSET S
    BY <1>2
  <2>4. \A s \in SUBSET S : s # {} => Part(s) = f[Elem(s)] + h[s \ {Elem(s)}]
    <3> HIDE DEF Part, h
    <3> QED BY <1>3, <2>1, <2>3
  <2>5. \A s \in SUBSET S : Part(s) = IF s = {} THEN 0 ELSE f[Elem(s)] + h[s \ {Elem(s)}]
    <3> HIDE DEF Part, h
    <3> QED BY <2>2, <2>4
  <2>6. Is(h, S)
    <3> HIDE DEF Part
    <3>1. h = [s \in SUBSET S |-> Part(s)]
      OBVIOUS
    <3> HIDE DEF h
    <3> QED BY <2>5, <3>1
  <2> HIDE DEF Is
  <2> QED BY <2>6
<1>5. ASSUME NEW S \in SUBSET {a, b}
      PROVE  /\ it(S)[{}] = 0
             /\ \A s \in SUBSET S : s # {} => it(S)[s] = f[Elem(s)] + it(S)[s \ {Elem(s)}]
  <2> DEFINE g == it(S)
  <2>1. Is(g, S)
    BY <1>4
  <2> HIDE DEF g
  <2>2. /\ g[{}] = 0
        /\ \A s \in SUBSET S : s # {} => g[s] = f[Elem(s)] + g[s \ {Elem(s)}]
    BY <2>1
  <2> QED BY <2>2 DEF g
<1> HIDE DEF it
<1>6. ASSUME NEW S \in SUBSET {a, b}, NEW x \in S, x \in {a, b} PROVE it(S)[{x}] = f[x]
  <2>1. {x} \in SUBSET S /\ {x} # {} /\ Elem({x}) = x /\ {x} \ {x} = {} /\ f[x] \in Nat
    BY <1>2
  <2>2. it(S)[{x}] = f[x] + it(S)[{}]
    BY <1>5, <2>1
  <2> QED BY <1>5, <2>1, <2>2
<1>7. SumFunctionOnSet(f, {a}) = f[a]
  <2>1. {a} \in SUBSET {a, b} /\ a \in {a}
    OBVIOUS
  <2> QED BY <1>1, <1>6, <2>1
<1>8. ASSUME a # b PROVE SumFunctionOnSet(f, {a, b}) = f[a] + f[b]
  <2> DEFINE S == {a, b}
             e == Elem(S)
  <2>1. S \in SUBSET {a, b} /\ S \in SUBSET S /\ S # {} /\ a \in S /\ b \in S
    OBVIOUS
  <2>2. e \in S
    BY <1>2, <2>1
  <2>3. it(S)[S] = f[e] + it(S)[S \ {e}]
    <3> HIDE DEF S
    <3> QED BY <1>5, <2>1
  <2>4. it(S)[{a}] = f[a] /\ it(S)[{b}] = f[b]
    BY <1>6, <2>1
  <2> HIDE DEF e
  <2>5. (e = a /\ S \ {e} = {b}) \/ (e = b /\ S \ {e} = {a})
    BY <1>8, <2>2
  <2>6. SumFunctionOnSet(f, S) = it(S)[S]
    BY <1>1
  <2> HIDE DEF S
  <2>7. SumFunctionOnSet(f, S) = f[a] + f[b]
    <3>1. CASE e = a /\ S \ {e} = {b}
      <4>1. it(S)[S] = f[a] + f[b]
        BY <2>3, <2>4, <3>1
      <4> QED BY <2>6, <4>1
    <3>2. CASE e = b /\ S \ {e} = {a}
      <4>1. it(S)[S] = f[b] + f[a]
        BY <2>3, <2>4, <3>2
      <4> QED BY <2>6, <4>1
    <3> QED BY <2>5, <3>1, <3>2
  <2> QED BY <2>7 DEF S
<1> QED BY <1>7, <1>8

\* The parameters of a tree of one node
LEMMA LeafTreeSize ==
    ASSUME NEW N, HeapOK(N), NEW n \in NodeIds, getHeight(N, n) = 0
    PROVE  /\ SumFunctionOnSet(ParamSize(N), Tree(N, n)) \in Nat
           /\ SumFunctionOnSet(ParamSize(N), Tree(N, n)) <= ParamBytes
<1> DEFINE s == ParamSize(N)
<1>1. Tree(N, n) = {n}
  <2>1. ToSet(Children(N, n)) = {}
    BY BelowOf
  <2> QED BY <2>1, TreeUnfold
<1>2. s[n] \in Nat /\ s[n] <= ParamBytes
  BY JitAssumption DEF ParamSize
<1> HIDE DEF s
<1>3. SumFunctionOnSet(s, {n}) = s[n]
  BY <1>2, SumsOfFew
<1> QED BY <1>1, <1>2, <1>3 DEF s

\* The parameters of one or two leaves
LEMMA SumOfTwo ==
    ASSUME NEW k \in 1 .. 2, NEW f, \A i \in 1 .. k : f[i] \in Nat /\ f[i] <= ParamBytes,
           f = [i \in 1 .. k |-> f[i]]
    PROVE  SumFunction(f) \in Nat /\ SumFunction(f) <= k * ParamBytes
<1>1. ParamBytes \in Nat
  BY JitAssumption
<1>2. SumFunction(f) = SumFunctionOnSet(f, 1 .. k)
  BY DEF SumFunction
<1>3. f[1] \in Nat /\ f[k] \in Nat /\ f[1] <= ParamBytes /\ f[k] <= ParamBytes
  OBVIOUS
<1>4. CASE k = 1
  <2>1. 1 .. k = {1}
    BY <1>4
  <2> QED BY <1>1, <1>2, <1>3, <1>4, <2>1, SumsOfFew
<1>5. CASE k = 2
  <2>1. 1 .. k = {1, 2}
    BY <1>5
  <2>2. SumFunctionOnSet(f, {1, 2}) = f[1] + f[2]
    <3>1. f[1] \in Nat /\ f[2] \in Nat /\ 1 # 2
      BY <1>3, <1>5
    <3> QED BY <3>1, SumsOfFew
  <2> QED BY <1>1, <1>2, <1>3, <1>5, <2>1, <2>2
<1> QED BY <1>4, <1>5

\* An operation on evaluated arrays and constants is not too high, and has few
\* parameters.
LEMMA LeavesPass ==
    ASSUME NEW N, HeapOK(N), NEW nodes, Len(nodes) \in 1 .. 2,
           nodes \in [1 .. Len(nodes) -> NodeIds],
           \A i \in 1 .. Len(nodes) : getHeight(N, nodes[i]) = 0
    PROVE  passesJitHeuristics(N, nodes) \notin {"TreeHeight", "KernelParameterSize"}
<1> DEFINE k == Len(nodes)
           size == SumOverTrees(N, nodes, ParamSize(N))
           f == [i \in 1 .. k |-> SumFunctionOnSet(ParamSize(N), Tree(N, nodes[i]))]
<1>1. \A i \in 1 .. k : f[i] \in Nat /\ f[i] <= ParamBytes
  BY LeafTreeSize
<1>2. size = SumFunction(f)
  BY DEF SumOverTrees
<1>3. f = [i \in 1 .. k |-> f[i]]
  OBVIOUS
<1> HIDE DEF f, size
<1>4. size \in Nat /\ size <= k * ParamBytes
  BY <1>1, <1>2, <1>3, SumOfTwo
<1>5. ~ \E i \in 1 .. k : getHeight(N, nodes[i]) > MaxJitSize
  BY JitAssumption
<1>6. ~ size >= KernelLimit - (ParamBytes * k + 4 * UintBytes) - PaddingBytes
  <2>1. {ParamBytes, UintBytes, PaddingBytes, KernelLimit} \subseteq Nat
    BY JitAssumption
  <2>2. 4 * ParamBytes + 4 * UintBytes + PaddingBytes < KernelLimit
    BY UncheckedTreesFit
  <2>3. k = 1 \/ k = 2
    OBVIOUS
  <2> HIDE DEF k
  <2>4. size + ParamBytes * k <= 4 * ParamBytes
    <3>1. CASE k = 1
      BY <1>4, <2>1, <3>1
    <3>2. CASE k = 2
      BY <1>4, <2>1, <3>2
    <3> QED BY <2>3, <3>1, <3>2
  <2>5. ParamBytes * k \in Nat
    BY <2>1, <2>3
  <2> DEFINE pk == ParamBytes * k
  <2>6. pk \in Nat /\ size + pk <= 4 * ParamBytes
    BY <2>4, <2>5
  <2> HIDE DEF pk
  <2>7. ~ size >= KernelLimit - (pk + 4 * UintBytes) - PaddingBytes
    BY <1>4, <2>1, <2>2, <2>6, SMTT(30)
  <2> QED BY <2>7 DEF pk
<1>7. passesJitHeuristics(N, nodes) \in {"MemoryPressure", "Pass"}
  BY <1>5, <1>6 DEF passesJitHeuristics, size
<1> QED BY <1>7

\* The operand that createNaryNode evaluates is one of the highest.
LEMMA TallestIsHighest ==
    ASSUME NEW N, HeapOK(N), NEW nodes, Len(nodes) \in 1 .. 2,
           nodes \in [1 .. Len(nodes) -> NodeIds]
    PROVE  /\ Tallest(N, nodes) \in 1 .. Len(nodes)
           /\ \A i \in 1 .. Len(nodes) :
                 /\ getHeight(N, nodes[i]) \in Nat
                 /\ getHeight(N, nodes[i]) <= getHeight(N, nodes[Tallest(N, nodes)])
<1> DEFINE k == Len(nodes)
           top == Max(HeightsOf(N, nodes))
           S == {i \in 1 .. k : getHeight(N, nodes[i]) = top}
<1>1. /\ top \in HeightsOf(N, nodes)
      /\ \A i \in 1 .. k : getHeight(N, nodes[i]) \in Nat /\ getHeight(N, nodes[i]) <= top
  <2>1. Len(nodes) \in 1 .. kMaxChildren
    BY DEF kMaxChildren
  <2> QED BY <2>1, HeightsMax, Zenon
<1>2. Tallest(N, nodes) = Min(S)
  BY DEF Tallest, HeightsOf
<1>3. S # {}
  BY <1>1 DEF HeightsOf
<1>4. \E x \in S : \A y \in S : x <= y
  <2>1. S \subseteq {1, 2}
    OBVIOUS
  <2> HIDE DEF S
  <2>2. CASE 1 \in S
    BY <2>1, <2>2
  <2>3. CASE 1 \notin S
    <3>1. 2 \in S /\ \A y \in S : y = 2
      BY <1>3, <2>1, <2>3
    <3> QED BY <3>1
  <2> QED BY <2>2, <2>3
<1>5. Min(S) \in S
  <2> HIDE DEF S
  <2> QED BY <1>4 DEF Min
<1>6. Tallest(N, nodes) \in S
  BY <1>2, <1>5
<1> QED BY <1>1, <1>6

(***************************************************************************)
(* What the steps need of arrays and nodes.                                *)
(***************************************************************************)
HeapInv ==
    /\ HeapOK(node) /\ ArrNodesOK
    /\ arr = [h \in Handles |-> arr[h]] /\ \A h \in Handles : "node" \in DOMAIN arr[h]

\* There are finitely many free nodes.
LEMMA FreeCount == Cardinality(FreeNodes) \in Nat /\ IsFiniteSet(FreeNodes)
<1>1. FreeNodes \subseteq NodeIds /\ IsFiniteSet(NodeIds)
  BY JitAssumption DEF FreeNodes
<1> QED BY <1>1, FS_Subset, FS_CardinalityType

\* What the garbage collection of Settle leaves: every reference of an array
\* and of the call in progress
LEMMA Settled ==
    ASSUME NEW A, A = [h \in Handles |-> A[h]], NEW N, HeapOK(N), NEW D, NEW root,
           \A h \in Handles : Ref(N, A[h].node) /\ "node" \in DOMAIN A[h],
           Ref(N, root), Settle(A, N, D, root)
    PROVE  /\ HeapInv' /\ arr' = A
           /\ root # None => node'[root] # NoNode
           /\ \A n \in NodeIds : node'[n] \in {N[n], NoNode}
<1>1. /\ arr' = A /\ HeapOK(node')
      /\ \A h \in Handles : A[h].node # None => node'[A[h].node] = N[A[h].node]
      /\ root # None => node'[root] = N[root]
      /\ \A n \in NodeIds : node'[n] \in {N[n], NoNode}
  BY SettleKeeps
<1>2. \A h \in Handles : Ref(node', A[h].node)
  BY <1>1 DEF Ref
<1>3. ArrNodesOK'
  BY <1>1, <1>2 DEF ArrNodesOK, Ref
<1> QED BY <1>1, <1>3 DEF HeapInv, Ref

\* One array is replaced.
LEMMA PutArray ==
    ASSUME HeapInv, NEW N, HeapOK(N), \A n \in NodeIds : node[n] # NoNode => N[n] # NoNode,
           NEW h \in Handles, NEW a, Ref(N, a.node), "node" \in DOMAIN a, NEW D,
           Settle([arr EXCEPT ![h] = a], N, D, None)
    PROVE  HeapInv'
<1> DEFINE A == [arr EXCEPT ![h] = a]
<1>1. A = [g \in Handles |-> A[g]] /\ \A g \in Handles : A[g] = IF g = h THEN a ELSE arr[g]
  BY DEF HeapInv
<1>2. \A g \in Handles : Ref(N, A[g].node) /\ "node" \in DOMAIN A[g]
  BY <1>1 DEF HeapInv, ArrNodesOK, Ref
<1>3. Ref(N, None)
  BY DEF Ref
<1>4. Settle(A, N, D, None)
  OBVIOUS
<1> HIDE DEF A
<1> QED BY <1>1, <1>2, <1>3, <1>4, Settled, Zenon

\* One array is replaced, the nodes stay.
LEMMA PutArraySameNodes ==
    ASSUME HeapInv, NEW h \in Handles, NEW a, Ref(node, a.node), "node" \in DOMAIN a, NEW D,
           Settle([arr EXCEPT ![h] = a], node, D, None)
    PROVE  HeapInv'
<1>1. HeapOK(node) /\ \A n \in NodeIds : node[n] # NoNode => node[n] # NoNode
  BY DEF HeapInv
<1> QED BY <1>1, PutArray

\* One kernel evaluates arrays, and a call keeps its node.
LEMMA EvaluateKeeps ==
    ASSUME HeapInv, NEW hs \in SUBSET Handles, NEW root, Ref(node, root),
           LET e == Evaluate(hs) IN Settle(e.arr, e.node, e.data, root)
    PROVE  /\ HeapInv' /\ \A h \in hs : isReady(arr'[h])
           /\ root # None => node'[root] # NoNode
           /\ FreeNodes \subseteq FreeNodes'
<1> DEFINE e == Evaluate(hs)
           pending == {h \in hs : ~ isReady(arr[h])}
           dims == arr[CHOOSE h \in hs : TRUE].dims
           roots == {arr[h].node : h \in pending}
           N == evalNodes(node, data, roots, dims).nodes
<1>1. e.node = N
  BY DEF Evaluate
<1>2. /\ e.arr = [h \in Handles |-> e.arr[h]]
      /\ \A h \in Handles : IF h \in pending THEN e.arr[h].node = None /\ "node" \in DOMAIN e.arr[h]
                             ELSE e.arr[h] = arr[h]
  BY DEF Evaluate, ReadyArray
<1>3. roots \subseteq NodeIds /\ \A n \in roots : node[n] # NoNode
  BY DEF HeapInv, ArrNodesOK, Ref, isReady
<1>4. HeapOK(node)
  BY DEF HeapInv
<1> HIDE DEF roots, dims
<1>5. HeapOK(N) /\ \A n \in NodeIds : node[n] = NoNode <=> N[n] = NoNode
  BY <1>3, <1>4, EvalKeepsHeap
<1> HIDE DEF N, e
<1>6. \A h \in Handles : Ref(N, e.arr[h].node) /\ "node" \in DOMAIN e.arr[h]
  <2> SUFFICES ASSUME NEW h \in Handles PROVE Ref(N, e.arr[h].node) /\ "node" \in DOMAIN e.arr[h]
    OBVIOUS
  <2>1. CASE h \in pending
    BY <1>2, <2>1 DEF Ref
  <2>2. CASE h \notin pending
    <3>1. e.arr[h] = arr[h] /\ Ref(node, arr[h].node) /\ "node" \in DOMAIN arr[h]
      BY <1>2, <2>2 DEF HeapInv, ArrNodesOK
    <3> QED BY <1>5, <3>1 DEF Ref
  <2> QED BY <2>1, <2>2
<1>7. Ref(N, root)
  BY <1>5 DEF Ref
<1>8. Settle(e.arr, N, e.data, root)
  BY <1>1 DEF e
<1>9. /\ HeapInv' /\ arr' = e.arr
      /\ root # None => node'[root] # NoNode
      /\ \A n \in NodeIds : node'[n] \in {N[n], NoNode}
  BY <1>2, <1>5, <1>6, <1>7, <1>8, Settled, Zenon
<1>10. \A h \in hs : isReady(arr'[h])
  BY <1>2, <1>9 DEF isReady
<1>11. FreeNodes \subseteq FreeNodes'
  BY <1>5, <1>9 DEF FreeNodes
<1> QED BY <1>9, <1>10, <1>11

\* The operands of an operation, and the node on top of them
LEMMA NaryReady ==
    ASSUME HeapInv, NEW ins, Len(ins) \in 1 .. kMaxChildren, ins \in [1 .. Len(ins) -> Handles],
           Cardinality(FreeNodes) >= Len(ins) + 1
    PROVE  LET N == WithBufferNodes(ins)
               nodes == GetNodes(ins)
               ptr == FreshNodes[Len(ins) + 1]
               N1 == [N EXCEPT ![ptr] = NaryNode(N, nodes)]
           IN  /\ HeapOK(N) /\ nodes \in [1 .. Len(nodes) -> NodeIds] /\ Len(nodes) = Len(ins)
               /\ ptr \in NodeIds /\ HeapOK(N1) /\ N1[ptr] # NoNode
               /\ \A n \in NodeIds : node[n] # NoNode => N1[n] # NoNode
               /\ \A i \in 1 .. Len(ins) :
                    IF isReady(arr[ins[i]]) THEN getHeight(N, nodes[i]) = 0
                    ELSE getHeight(N, nodes[i]) = getHeight(node, arr[ins[i]].node)
<1> DEFINE N == WithBufferNodes(ins)
           nodes == GetNodes(ins)
           ptr == FreshNodes[Len(ins) + 1]
           N1 == [N EXCEPT ![ptr] = NaryNode(N, nodes)]
<1>1. Cardinality(FreeNodes) \in Nat /\ Len(ins) \in Nat
  BY FreeCount DEF kMaxChildren
<1>2. HeapOK(node) /\ ArrNodesOK /\ Len(ins) <= Cardinality(FreeNodes)
  BY <1>1 DEF HeapInv
<1>3. /\ HeapOK(N)
      /\ Len(nodes) = Len(ins) /\ nodes \in [1 .. Len(ins) -> NodeIds]
      /\ \A i \in 1 .. Len(ins) :
           /\ N[nodes[i]] # NoNode
           /\ isReady(arr[ins[i]]) => N[nodes[i]].kind = "buffer"
           /\ ~ isReady(arr[ins[i]]) => nodes[i] = arr[ins[i]].node
      /\ \A n \in NodeIds : node[n] # NoNode => N[n] = node[n]
      /\ \A n \in NodeIds : (\A i \in 1 .. Len(ins) : n # FreshNodes[i]) => N[n] = node[n]
  BY <1>2, OperandNodes
<1>4. /\ ptr \in NodeIds /\ node[ptr] = NoNode
      /\ \A i \in 1 .. Len(ins) : ptr # FreshNodes[i]
  <2>1. Len(ins) + 1 \in 1 .. Cardinality(FreeNodes) /\ 1 .. Len(ins) \subseteq 1 .. Cardinality(FreeNodes)
    BY <1>1
  <2>2. \A j \in 1 .. Cardinality(FreeNodes) : FreshNodes[j] = ptr => j = Len(ins) + 1
    BY <2>1, FreshNode
  <2>3. ptr \in NodeIds /\ node[ptr] = NoNode
    BY <2>1, FreshNode
  <2> QED BY <1>1, <2>1, <2>2, <2>3
<1>5. N[ptr] = NoNode
  BY <1>3, <1>4
<1> HIDE DEF N, nodes, ptr
<1>6. /\ HeapOK(N1) /\ N1[ptr] # NoNode
      /\ \A n \in NodeIds : N[n] # NoNode => N1[n] = N[n]
  <2>1. Len(nodes) \in 1 .. kMaxChildren /\ nodes \in [1 .. Len(nodes) -> NodeIds]
    BY <1>3
  <2>2. \A i \in 1 .. Len(nodes) : N[nodes[i]] # NoNode
    BY <1>3
  <2>3. HeapOK(N) /\ ptr \in NodeIds
    BY <1>3, <1>4
  <2>4. HeapOf(N1, N, ptr)
    BY <1>5, <2>1, <2>2, <2>3, AddNary DEF OnTop
  <2> QED BY <2>4 DEF HeapOf
<1>7. \A n \in NodeIds : node[n] # NoNode => N1[n] # NoNode
  BY <1>3, <1>6
<1>8. \A i \in 1 .. Len(ins) :
         IF isReady(arr[ins[i]]) THEN getHeight(N, nodes[i]) = 0
         ELSE getHeight(N, nodes[i]) = getHeight(node, arr[ins[i]].node)
  <2> SUFFICES ASSUME NEW i \in 1 .. Len(ins)
               PROVE  IF isReady(arr[ins[i]]) THEN getHeight(N, nodes[i]) = 0
                      ELSE getHeight(N, nodes[i]) = getHeight(node, arr[ins[i]].node)
    OBVIOUS
  <2>1. CASE isReady(arr[ins[i]])
    <3>1. N[nodes[i]].kind = "buffer"
      BY <1>3, <2>1
    <3> QED BY <2>1, <3>1 DEF getHeight
  <2>2. CASE ~ isReady(arr[ins[i]])
    <3>1. nodes[i] = arr[ins[i]].node
      BY <1>3, <2>2
    <3>2. Ref(node, nodes[i]) /\ nodes[i] # None
      BY <1>2, <2>2, <3>1 DEF ArrNodesOK, isReady
    <3>3. N[nodes[i]] = node[nodes[i]]
      BY <1>3, <3>2 DEF Ref
    <3> QED BY <2>2, <3>1, <3>3 DEF getHeight
  <2> QED BY <2>1, <2>2
<1>9. nodes \in [1 .. Len(nodes) -> NodeIds]
  BY <1>3
<1>10. HeapOK(N) /\ Len(nodes) = Len(ins) /\ ptr \in NodeIds
  BY <1>3, <1>4
<1> QED BY <1>6, <1>7, <1>8, <1>9, <1>10 DEF N, nodes, ptr

(***************************************************************************)
(* The inductive invariant.                                                *)
(***************************************************************************)
OperandOps == {"nary", "select", "shift", "moddims", "index"}
Arity(op) == CASE op = "nary" -> 1 .. 2 [] op = "select" -> {3} [] OTHER -> {1}

CallShape ==
    /\ call = [op |-> call.op, ins |-> call.ins, arg |-> call.arg, todo |-> call.todo, node |-> call.node]
    /\ call.todo \in Seq(Handles)
    /\ call.op \in OperandOps =>
         Len(call.ins) \in Arity(call.op) /\ call.ins \in [1 .. Len(call.ins) -> Handles]

\* The node that was built under memory pressure
CallNodeOK ==
    call.node # None => call.op = "nary" /\ call.node \in NodeIds /\ node[call.node] # NoNode

\* The nodes the call is still going to make
CallRoom ==
    /\ call.op \in OperandOps /\ call.node = None => Cardinality(FreeNodes) >= Len(call.ins) + 1
    /\ call.op = "moddims" /\ call.todo = <<>> /\ ~ isReady(arr[call.ins[1]]) =>
         Cardinality(FreeNodes) >= 1 + Cardinality(Copies(node, arr[call.ins[1]].node))

\* What the call waits for
CallWaits ==
    /\ call.op \in {"nary", "select"} /\ call.node = None => Len(call.todo) <= 1
    /\ call.op \in {"shift", "moddims", "index"} => call.todo = <<>> \/ call.todo = call.ins
    /\ call.op = "shift" /\ call.todo = <<>> => isReady(arr[call.ins[1]])

CallInv == CallShape /\ CallNodeOK /\ CallRoom /\ CallWaits /\ RetriesEvaluate
TreeInv == HeapInv /\ CallInv

\* No operand to evaluate, or one
LEMMA Todos ==
    /\ <<>> \in Seq(Handles)
    /\ \A h \in Handles : <<h>> \in Seq(Handles)
OBVIOUS

\* A call that returns, or goes on to an evaluation, leaves nothing to see to.
LEMMA ReturnedCall ==
    ASSUME call' = NoCall \/ \E h \in Handles : call' = [NoCall EXCEPT !.op = "eval", !.todo = <<h>>]
    PROVE  CallInv'
<1>1. /\ call'.op \in {"none", "eval"} /\ call'.node = None /\ call'.todo \in Seq(Handles)
      /\ call' = [op |-> call'.op, ins |-> call'.ins, arg |-> call'.arg, todo |-> call'.todo,
                  node |-> call'.node]
  <2>1. CASE call' = NoCall
    <3>1. NoCall = [op |-> "none", ins |-> <<>>, arg |-> <<>>, todo |-> <<>>, node |-> None]
      BY DEF NoCall
    <3> QED BY <2>1, <3>1, Todos
  <2>2. ASSUME NEW h \in Handles, call' = [NoCall EXCEPT !.op = "eval", !.todo = <<h>>]
        PROVE  /\ call'.op \in {"none", "eval"} /\ call'.node = None /\ call'.todo \in Seq(Handles)
               /\ call' = [op |-> call'.op, ins |-> call'.ins, arg |-> call'.arg, todo |-> call'.todo,
                           node |-> call'.node]
    <3>1. call' = [op |-> "eval", ins |-> <<>>, arg |-> <<>>, todo |-> <<h>>, node |-> None]
      BY <2>2 DEF NoCall
    <3> QED BY <3>1, Todos
  <2> QED BY <2>1, <2>2
<1>2. CallShape'
  BY <1>1 DEF CallShape, OperandOps
<1>3. CallNodeOK' /\ CallRoom' /\ CallWaits' /\ RetriesEvaluate'
  BY <1>1 DEF CallNodeOK, CallRoom, CallWaits, RetriesEvaluate, OperandOps
<1> QED BY <1>2, <1>3 DEF CallInv

\* A call begins: its operands are arrays of the program, and there is room.
LEMMA BegunCall ==
    ASSUME HeapInv, NEW op, NEW ins, NEW arg, NEW todo, Begin(op, ins, arg, todo),
           op \in OperandOps, Len(ins) \in Arity(op), ins \in [1 .. Len(ins) -> Handles],
           op \in {"nary", "select"} => todo = <<>>,
           op \in {"shift", "index"} => todo = ins,
           op = "moddims" => /\ todo \in {<<>>, ins}
                             /\ Room(1 + Cardinality(Copies(node, arr[ins[1]].node)), 0)
    PROVE  TreeInv'
<1>1. /\ call' = [op |-> op, ins |-> ins, arg |-> arg, todo |-> todo, node |-> None]
      /\ UNCHANGED <<arr, node, data>>
      /\ Cardinality(FreeNodes) >= Len(ins) + 1
  BY DEF Begin, Room
<1>2. HeapInv'
  BY <1>1 DEF HeapInv, ArrNodesOK
<1>3. FreeNodes' = FreeNodes
  BY <1>1 DEF FreeNodes
<1>4. todo \in Seq(Handles)
  <2>1. op \in {"shift", "index", "moddims"} => Len(ins) = 1
    BY DEF Arity
  <2>2. op \in {"shift", "index", "moddims"} => ins \in Seq(Handles)
    BY <2>1
  <2>3. <<>> \in Seq(Handles)
    BY Todos
  <2>4. CASE op \in {"nary", "select"}
    BY <2>3, <2>4
  <2>5. CASE op \in {"shift", "index", "moddims"}
    BY <2>2, <2>3, <2>5
  <2> QED BY <2>4, <2>5 DEF OperandOps
<1>5. CallShape'
  BY <1>1, <1>4 DEF CallShape
<1>6. CallNodeOK' /\ RetriesEvaluate'
  BY <1>1 DEF CallNodeOK, RetriesEvaluate
<1>7. CallRoom'
  <2>1. Cardinality(FreeNodes') >= Len(ins) + 1
    BY <1>1, <1>3
  <2>2. op = "moddims" => Cardinality(FreeNodes') >= 1 + Cardinality(Copies(node', arr'[ins[1]].node))
    BY <1>1, <1>3 DEF Room
  <2> QED BY <1>1, <2>1, <2>2 DEF CallRoom
<1>8. CallWaits'
  <2>1. op \in {"shift", "index", "moddims"} => Len(ins) = 1
    BY DEF Arity
  <2>2. op = "shift" => todo # <<>>
    BY <2>1, SMTT(30)
  <2> QED BY <1>1, <2>2 DEF CallWaits
<1> QED BY <1>2, <1>5, <1>6, <1>7, <1>8 DEF TreeInv, CallInv

\* The invariant holds of the arrays a program has filled from host data.
LEMMA InitTreeInv == Init => TreeInv
<1> SUFFICES ASSUME Init PROVE TreeInv
  OBVIOUS
<1>1. /\ arr = [h \in Handles |-> arr[h]] /\ \A h \in Handles : arr[h].node = None /\ "node" \in DOMAIN arr[h]
      /\ node = [n \in NodeIds |-> NoNode] /\ call = NoCall
  BY DEF Init, ReadyArray
<1>2. HeapOK(node)
  BY <1>1 DEF HeapOK, NodeOK, NoNode
<1>3. ArrNodesOK
  BY <1>1 DEF ArrNodesOK, Ref
<1>4. CallInv
  <2>1. /\ call.op = "none" /\ call.node = None /\ call.todo \in Seq(Handles)
        /\ call = [op |-> call.op, ins |-> call.ins, arg |-> call.arg, todo |-> call.todo,
                   node |-> call.node]
    BY <1>1 DEF NoCall
  <2> QED BY <2>1 DEF CallInv, CallShape, CallNodeOK, CallRoom, CallWaits, RetriesEvaluate, OperandOps
<1> QED BY <1>1, <1>2, <1>3, <1>4 DEF TreeInv, HeapInv

(***************************************************************************)
(* The calls of the API.                                                   *)
(***************************************************************************)
LEMMA MadeArrays ==
    /\ \A dims, b : ReadyArray(dims, b).node = None /\ "node" \in DOMAIN ReadyArray(dims, b)
    /\ \A dims, n : createNodeArray(dims, n).node = n /\ "node" \in DOMAIN createNodeArray(dims, n)
    /\ NoArray.node = None /\ "node" \in DOMAIN NoArray
    /\ \A N : Ref(N, None)
BY DEF ReadyArray, createNodeArray, NoArray, Ref

\* Host data goes to a new buffer.
LEMMA createHostDataArrayKeeps ==
    ASSUME HeapInv, NEW h \in Handles, NEW dims, createHostDataArray(h, dims)
    PROVE  HeapInv'
<1>1. PICK D : Settle([arr EXCEPT ![h] = ReadyArray(dims, FreshBufs[1])], node, D, None)
  BY DEF createHostDataArray
<1>2. Ref(node, ReadyArray(dims, FreshBufs[1]).node) /\ "node" \in DOMAIN ReadyArray(dims, FreshBufs[1])
  BY MadeArrays
<1> QED BY <1>1, <1>2, PutArraySameNodes, Zenon

\* A constant is a new scalar node.
LEMMA createValueArrayKeeps ==
    ASSUME HeapInv, NEW h \in Handles, NEW dims, createValueArray(h, dims)
    PROVE  HeapInv'
<1> DEFINE n == FreshNodes[1]
           N == [node EXCEPT ![n] = ScalarNode(1 % M)]
           a == createNodeArray(dims, n)
<1>1. n \in NodeIds /\ node[n] = NoNode
  <2>1. 1 \in 1 .. Cardinality(FreeNodes)
    <3>1. Room(1, 0)
      BY DEF createValueArray
    <3>2. Cardinality(FreeNodes) >= 1 /\ Cardinality(FreeNodes) \in Nat
      BY <3>1, FreeCount DEF Room
    <3> QED BY <3>2
  <2> QED BY <2>1, FreshNode
<1>2. Settle([arr EXCEPT ![h] = a], N, data, None)
  BY DEF createValueArray
<1>3. HeapOK(node) /\ node = [m \in NodeIds |-> node[m]]
  BY DEF HeapInv, HeapOK
<1> HIDE DEF n
<1>4. Leaf(ScalarNode(1 % M)) /\ ScalarNode(1 % M).kind = "scalar"
  BY DEF Leaf, ScalarNode
<1>5. /\ N = [m \in NodeIds |-> N[m]] /\ N[n] = ScalarNode(1 % M)
      /\ \A m \in NodeIds : m # n => N[m] = node[m]
  BY <1>1, <1>3
<1> HIDE DEF N
<1>6. \A m \in NodeIds : N[m] = node[m] \/ (node[m] = NoNode /\ Leaf(N[m]) /\ N[m].kind # "shift")
  BY <1>1, <1>4, <1>5
<1>7. HeapOK(N) /\ \A m \in NodeIds : node[m] # NoNode => N[m] = node[m]
  BY <1>3, <1>5, <1>6, AddLeaves
<1>8. N[n] # NoNode
  BY <1>4, <1>5 DEF NoNode
<1>9. Ref(N, a.node) /\ "node" \in DOMAIN a
  BY <1>1, <1>8, MadeArrays DEF Ref
<1>10. \A m \in NodeIds : node[m] # NoNode => N[m] # NoNode
  BY <1>7
<1> HIDE DEF a
<1> QED BY <1>2, <1>7, <1>9, <1>10, PutArray, Zenon

\* A retained handle has the node of the other.
LEMMA retainHandleKeeps ==
    ASSUME HeapInv, NEW out \in Handles, NEW in \in Handles, retainHandle(out, in)
    PROVE  HeapInv'
<1>1. Settle([arr EXCEPT ![out] = arr[in]], node, data, None)
  BY DEF retainHandle, Replace
<1>2. Ref(node, arr[in].node) /\ "node" \in DOMAIN arr[in]
  BY DEF HeapInv, ArrNodesOK
<1> QED BY <1>1, <1>2, PutArraySameNodes, Zenon

\* A released array refers to nothing.
LEMMA releaseKeeps ==
    ASSUME HeapInv, NEW h \in Handles, release(h)
    PROVE  HeapInv'
<1>1. Settle([arr EXCEPT ![h] = NoArray], node, data, None)
  BY DEF release, Replace
<1>2. Ref(node, NoArray.node) /\ "node" \in DOMAIN NoArray
  BY MadeArrays
<1> QED BY <1>1, <1>2, PutArraySameNodes, Zenon

\* Arrays evaluated together refer to buffers.
LEMMA evalMultipleKeeps ==
    ASSUME HeapInv, NEW hs \in SUBSET Handles, evalMultiple(hs)
    PROVE  HeapInv'
<1>1. LET e == Evaluate(hs) IN Settle(e.arr, e.node, e.data, None)
  BY DEF evalMultiple
<1>2. Ref(node, None)
  BY MadeArrays
<1> QED BY <1>1, <1>2, EvaluateKeeps, Zenon

\* A copy has a buffer of its own; its source keeps its tree.
LEMMA copyArrayKeeps ==
    ASSUME HeapInv, NEW out \in Handles, NEW in \in Handles, copyArray(out, in)
    PROVE  HeapInv'
<1> DEFINE a == arr[in]
           N == IF isReady(a) THEN node ELSE evalNodes(node, data, {a.node}, a.dims).nodes
           made == ReadyArray(a.dims, FreshBufs[1])
<1>1. PICK D : Settle([arr EXCEPT ![out] = made], N, D, None)
  BY DEF copyArray
<1>2. HeapOK(N) /\ \A n \in NodeIds : node[n] # NoNode => N[n] # NoNode
  <2>1. CASE isReady(a)
    BY <2>1 DEF HeapInv
  <2>2. CASE ~ isReady(a)
    <3>1. HeapOK(node) /\ {a.node} \subseteq NodeIds /\ \A n \in {a.node} : node[n] # NoNode
      BY <2>2 DEF HeapInv, ArrNodesOK, Ref, isReady
    <3>2. HeapOK(evalNodes(node, data, {a.node}, a.dims).nodes)
      BY <3>1, EvalKeepsHeap
    <3>3. \A n \in NodeIds : node[n] = NoNode <=> evalNodes(node, data, {a.node}, a.dims).nodes[n] = NoNode
      BY <3>1, EvalKeepsHeap
    <3> QED BY <2>2, <3>2, <3>3
  <2> QED BY <2>1, <2>2
<1>3. Ref(N, made.node) /\ "node" \in DOMAIN made
  BY MadeArrays
<1> HIDE DEF N, made
<1> QED BY <1>1, <1>2, <1>3, PutArray, Zenon

\* A reshaped evaluated array stays evaluated.
LEMMA modDimsKeeps ==
    ASSUME HeapInv, NEW h \in Handles, NEW dims, modDims(h, dims)
    PROVE  HeapInv'
<1> DEFINE shared == [arr[h] EXCEPT !.dims = dims, !.data_dims = dims, !.strides = calcStrides(dims)]
           copied == ReadyArray(dims, FreshBufs[1])
<1>1. CASE isLinear(arr[h])
  <2>1. Settle([arr EXCEPT ![h] = shared], node, data, None)
    <3>1. [arr EXCEPT ![h] = [@ EXCEPT !.dims = dims, !.data_dims = dims, !.strides = calcStrides(dims)]]
            = [arr EXCEPT ![h] = shared]
      OBVIOUS
    <3> QED BY <1>1, <3>1 DEF modDims
  <2>2. shared.node = None /\ "node" \in DOMAIN shared
    BY DEF HeapInv, modDims, isReady
  <2>3. Ref(node, shared.node)
    BY <2>2, MadeArrays
  <2> HIDE DEF shared
  <2> QED BY <2>1, <2>2, <2>3, PutArraySameNodes, Zenon
<1>2. CASE ~ isLinear(arr[h])
  <2>1. PICK D : Settle([arr EXCEPT ![h] = copied], node, D, None)
    BY <1>2 DEF modDims
  <2>2. Ref(node, copied.node) /\ "node" \in DOMAIN copied
    BY MadeArrays
  <2> HIDE DEF copied
  <2> QED BY <2>1, <2>2, PutArraySameNodes, Zenon
<1> QED BY <1>1, <1>2

\* Lists of one, two and three operands
LEMMA OperandLists ==
    ASSUME NEW a \in Handles, NEW b \in Handles, NEW c \in Handles
    PROVE  /\ Len(<<a>>) = 1 /\ <<a>> \in [1 .. Len(<<a>>) -> Handles] /\ <<a>>[1] = a
           /\ Len(<<a, b>>) = 2 /\ <<a, b>> \in [1 .. Len(<<a, b>>) -> Handles]
           /\ Len(<<a, b, c>>) = 3 /\ <<a, b, c>> \in [1 .. Len(<<a, b, c>>) -> Handles]
OBVIOUS

\* How many operands the calls take
LEMMA ArityOf ==
    /\ {1, 2} \subseteq Arity("nary") /\ 3 \in Arity("select")
    /\ 1 \in Arity("shift") /\ 1 \in Arity("moddims") /\ 1 \in Arity("index")
    /\ {"nary", "select", "shift", "moddims", "index"} \subseteq OperandOps
BY DEF Arity, OperandOps

\* tile begins a call with one operand.
LEMMA tileKeeps ==
    ASSUME HeapInv, NEW in \in Handles, NEW dims, tile(in, dims)
    PROVE  TreeInv'
<1>1. Begin("nary", <<in>>, dims, <<>>)
  BY DEF tile
<1>2. Len(<<in>>) \in Arity("nary") /\ <<in>> \in [1 .. Len(<<in>>) -> Handles] /\ "nary" \in OperandOps
  BY OperandLists, ArityOf
<1> QED BY <1>1, <1>2, BegunCall

\* A binary operation begins a call with two operands.
LEMMA binaryOpKeeps ==
    ASSUME HeapInv, NEW l \in Handles, NEW r \in Handles, binaryOp(l, r)
    PROVE  TreeInv'
<1>1. Begin("nary", <<l, r>>, arr[l].dims, <<>>)
  BY DEF binaryOp
<1>2. Len(<<l, r>>) \in Arity("nary") /\ <<l, r>> \in [1 .. Len(<<l, r>>) -> Handles] /\ "nary" \in OperandOps
  BY OperandLists, ArityOf
<1> QED BY <1>1, <1>2, BegunCall

\* select begins a call with three operands.
LEMMA selectKeeps ==
    ASSUME HeapInv, NEW c \in Handles, NEW a \in Handles, NEW b \in Handles, select(c, a, b)
    PROVE  TreeInv'
<1>1. Begin("select", <<c, a, b>>, arr[c].dims, <<>>)
  BY DEF select
<1>2. /\ Len(<<c, a, b>>) \in Arity("select") /\ <<c, a, b>> \in [1 .. Len(<<c, a, b>>) -> Handles]
      /\ "select" \in OperandOps
  BY OperandLists, ArityOf
<1> QED BY <1>1, <1>2, BegunCall

\* shift begins a call that evaluates its operand first.
LEMMA shiftKeeps ==
    ASSUME HeapInv, NEW in \in Handles, NEW sdims, shift(in, sdims)
    PROVE  TreeInv'
<1>1. Begin("shift", <<in>>, sdims, <<in>>)
  BY DEF shift
<1>2. Len(<<in>>) \in Arity("shift") /\ <<in>> \in [1 .. Len(<<in>>) -> Handles] /\ "shift" \in OperandOps
  BY OperandLists, ArityOf
<1> QED BY <1>1, <1>2, BegunCall

\* index begins a call that evaluates its operand first.
LEMMA indexKeeps ==
    ASSUME HeapInv, NEW in \in Handles, NEW seqs, index(in, seqs)
    PROVE  TreeInv'
<1>1. Begin("index", <<in>>, seqs, <<in>>)
  BY DEF index
<1>2. Len(<<in>>) \in Arity("index") /\ <<in>> \in [1 .. Len(<<in>>) -> Handles] /\ "index" \in OperandOps
  BY OperandLists, ArityOf
<1> QED BY <1>1, <1>2, BegunCall

\* moddimOp begins a call, which evaluates its operand first if it is not linear.
LEMMA moddimOpKeeps ==
    ASSUME HeapInv, NEW in \in Handles, NEW dims, moddimOp(in, dims)
    PROVE  TreeInv'
<1>1. PICK todo \in {<<>>, <<in>>} : Begin("moddims", <<in>>, dims, todo)
  BY DEF moddimOp
<1>2. Room(1 + Cardinality(Copies(node, arr[<<in>>[1]].node)), 0)
  BY DEF moddimOp
<1>3. Len(<<in>>) \in Arity("moddims") /\ <<in>> \in [1 .. Len(<<in>>) -> Handles] /\ "moddims" \in OperandOps
  BY OperandLists, ArityOf
<1> QED BY <1>1, <1>2, <1>3, BegunCall

\* Every call of the API keeps the invariant.
LEMMA CallKeeps ==
    ASSUME HeapInv, call = NoCall, Call
    PROVE  TreeInv'
<1>1. ASSUME HeapInv', UNCHANGED call PROVE TreeInv'
  BY <1>1, ReturnedCall DEF TreeInv
<1>2. ASSUME NEW h \in Handles, NEW s \in Shapes,
             \/ createHostDataArray(h, s) \/ createValueArray(h, s) \/ modDims(h, s)
             \/ moddimOp(h, s) \/ tile(h, s)
      PROVE  TreeInv'
  <2>1. CASE createHostDataArray(h, s)
    <3>1. UNCHANGED call
      BY <2>1 DEF createHostDataArray
    <3> QED BY <1>1, <2>1, <3>1, createHostDataArrayKeeps
  <2>2. CASE createValueArray(h, s)
    <3>1. UNCHANGED call
      BY <2>2 DEF createValueArray
    <3> QED BY <1>1, <2>2, <3>1, createValueArrayKeeps
  <2>3. CASE modDims(h, s)
    <3>1. UNCHANGED call
      BY <2>3 DEF modDims
    <3> QED BY <1>1, <2>3, <3>1, modDimsKeeps
  <2>4. CASE moddimOp(h, s)
    BY <2>4, moddimOpKeeps
  <2>5. CASE tile(h, s)
    BY <2>5, tileKeeps
  <2> QED BY <1>2, <2>1, <2>2, <2>3, <2>4, <2>5
<1>3. ASSUME NEW hs \in SUBSET Handles \ {{}}, evalMultiple(hs) PROVE TreeInv'
  <2>1. UNCHANGED call /\ hs \in SUBSET Handles
    BY <1>3 DEF evalMultiple
  <2> QED BY <1>1, <1>3, <2>1, evalMultipleKeeps
<1>4. ASSUME NEW h \in Handles, release(h) PROVE TreeInv'
  <2>1. UNCHANGED call
    BY <1>4 DEF release
  <2> QED BY <1>1, <1>4, <2>1, releaseKeeps
<1>5. ASSUME NEW h \in Handles, NEW g \in Handles,
             retainHandle(g, h) \/ copyArray(g, h) \/ binaryOp(h, g)
      PROVE  TreeInv'
  <2>1. CASE retainHandle(g, h)
    <3>1. UNCHANGED call
      BY <2>1 DEF retainHandle
    <3> QED BY <1>1, <2>1, <3>1, retainHandleKeeps
  <2>2. CASE copyArray(g, h)
    <3>1. UNCHANGED call
      BY <2>2 DEF copyArray
    <3> QED BY <1>1, <2>2, <3>1, copyArrayKeeps
  <2>3. CASE binaryOp(h, g)
    BY <2>3, binaryOpKeeps
  <2> QED BY <1>5, <2>1, <2>2, <2>3
<1>6. ASSUME NEW h \in Handles, NEW g \in Handles, NEW k \in Handles, select(h, g, k) PROVE TreeInv'
  BY <1>6, selectKeeps
<1>7. ASSUME NEW h \in Handles, NEW a \in ShiftAmounts, shift(h, a) PROVE TreeInv'
  BY <1>7, shiftKeeps
<1>8. ASSUME NEW h \in Handles, NEW seqs \in [Dims -> Seqs], index(h, seqs) PROVE TreeInv'
  BY <1>8, indexKeeps
<1> QED BY <1>2, <1>3, <1>4, <1>5, <1>6, <1>7, <1>8 DEF Call

(***************************************************************************)
(* The steps of a call.                                                    *)
(***************************************************************************)
LEMMA FinishKeeps ==
    ASSUME HeapInv, NEW a, NEW N, NEW D, NEW v, Finish(a, N, D, v), HeapOK(N),
           \A n \in NodeIds : node[n] # NoNode => N[n] # NoNode,
           Ref(N, a.node), "node" \in DOMAIN a, Head(call.ins) \in Handles
    PROVE  HeapInv'
<1>1. Settle([arr EXCEPT ![Head(call.ins)] = a], N, D, None)
  BY DEF Finish
<1> QED BY <1>1, PutArray, Zenon

\* A call with operands has from one to three, arrays of the program.
LEMMA FirstOperand ==
    ASSUME CallShape, call.op \in OperandOps
    PROVE  /\ Len(call.ins) \in 1 .. kMaxChildren /\ call.ins \in [1 .. Len(call.ins) -> Handles]
           /\ Head(call.ins) = call.ins[1] /\ Head(call.ins) \in Handles
<1>1. Len(call.ins) \in 1 .. kMaxChildren /\ call.ins \in [1 .. Len(call.ins) -> Handles]
  BY DEF CallShape, OperandOps, Arity, kMaxChildren
<1>2. Head(call.ins) = call.ins[1] /\ Head(call.ins) \in Handles
  <2>1. call.ins \in Seq(Handles) /\ call.ins # <<>>
    BY <1>1, SMTT(30) DEF kMaxChildren
  <2> QED BY <2>1
<1> QED BY <1>1, <1>2

\* An operand is evaluated: it is ready, free nodes stay free, and the node of
\* the call stays.
LEMMA EvalOperandKeeps ==
    ASSUME TreeInv, EvalOperand
    PROVE  TreeInv'
<1> DEFINE h == Head(call.todo)
<1> USE DEF TreeInv, CallInv
<1>1. /\ call.todo \in Seq(Handles) /\ call.todo # <<>> /\ h \in Handles
      /\ call' = [op |-> call.op, ins |-> call.ins, arg |-> call.arg, todo |-> Tail(call.todo), node |-> call.node]
      /\ Tail(call.todo) \in Seq(Handles)
  <2>1. call.todo \in Seq(Handles) /\ call.todo # <<>>
    BY DEF EvalOperand, CallShape
  <2>2. call' = [call EXCEPT !.todo = Tail(call.todo)]
    BY DEF EvalOperand
  <2>3. call' = [op |-> call.op, ins |-> call.ins, arg |-> call.arg, todo |-> Tail(call.todo), node |-> call.node]
    BY <2>2 DEF CallShape
  <2>4. h \in Handles /\ Tail(call.todo) \in Seq(Handles)
    BY <2>1
  <2> QED BY <2>1, <2>3, <2>4
<1>2. /\ HeapInv' /\ isReady(arr'[h]) /\ FreeNodes \subseteq FreeNodes'
      /\ call.node # None => node'[call.node] # NoNode
  <2>1. CASE isReady(arr[h])
    <3>1. UNCHANGED <<arr, node, data>>
      BY <2>1 DEF EvalOperand
    <3>2. HeapInv' /\ FreeNodes \subseteq FreeNodes'
      BY <3>1 DEF HeapInv, ArrNodesOK, FreeNodes
    <3>3. call.node # None => node'[call.node] # NoNode
      BY <3>1 DEF CallNodeOK
    <3> QED BY <2>1, <3>1, <3>2, <3>3
  <2>2. CASE ~ isReady(arr[h])
    <3>1. LET e == Evaluate({h}) IN Settle(e.arr, e.node, e.data, call.node)
      BY <2>2 DEF EvalOperand
    <3>2. Ref(node, call.node)
      BY DEF CallNodeOK, Ref
    <3>3. {h} \in SUBSET Handles /\ h \in {h}
      BY <1>1
    <3> HIDE DEF h
    <3>4. /\ HeapInv' /\ \A g \in {h} : isReady(arr'[g])
          /\ call.node # None => node'[call.node] # NoNode
          /\ FreeNodes \subseteq FreeNodes'
      BY <3>1, <3>2, <3>3, EvaluateKeeps, Zenon
    <3> QED BY <3>4
  <2> QED BY <2>1, <2>2
<1>3. Cardinality(FreeNodes) \in Nat /\ Cardinality(FreeNodes') \in Nat
      /\ Cardinality(FreeNodes) <= Cardinality(FreeNodes')
  <2>1. FreeNodes' \subseteq NodeIds /\ IsFiniteSet(NodeIds)
    BY JitAssumption DEF FreeNodes
  <2>2. IsFiniteSet(FreeNodes')
    BY <2>1, FS_Subset
  <2> QED BY <1>2, <2>2, FreeCount, FS_Subset, FS_CardinalityType
<1>4. CallShape'
  BY <1>1 DEF CallShape
<1>5. CallNodeOK'
  BY <1>1, <1>2 DEF CallNodeOK
<1>6. call.op \in {"shift", "moddims", "index"} => Tail(call.todo) = <<>> /\ h = call.ins[1]
  <2> SUFFICES ASSUME call.op \in {"shift", "moddims", "index"}
               PROVE  Tail(call.todo) = <<>> /\ h = call.ins[1]
    OBVIOUS
  <2>1. call.todo = call.ins /\ Len(call.ins) = 1
    BY <1>1 DEF CallWaits, CallShape, OperandOps, Arity
  <2> QED BY <1>1, <2>1
<1>7. call.op \in {"nary", "select"} /\ call.node = None => Tail(call.todo) = <<>>
  <2> SUFFICES ASSUME call.op \in {"nary", "select"}, call.node = None
               PROVE  Tail(call.todo) = <<>>
    OBVIOUS
  <2>1. Len(call.todo) <= 1
    BY DEF CallWaits
  <2> QED BY <1>1, <2>1
<1>8. CallRoom'
  <2>1. call.op \in OperandOps /\ call.node = None => Cardinality(FreeNodes') >= Len(call.ins) + 1
    <3> SUFFICES ASSUME call.op \in OperandOps, call.node = None
                 PROVE  Cardinality(FreeNodes') >= Len(call.ins) + 1
      OBVIOUS
    <3>1. Cardinality(FreeNodes) >= Len(call.ins) + 1 /\ Len(call.ins) \in Nat
      BY FirstOperand DEF CallRoom, kMaxChildren
    <3> QED BY <1>3, <3>1
  <2>2. call.op = "moddims" => isReady(arr'[call.ins[1]])
    BY <1>2, <1>6
  <2> QED BY <1>1, <2>1, <2>2 DEF CallRoom, isReady
<1>9. CallWaits'
  <2>1. call.op = "shift" => isReady(arr'[call.ins[1]])
    BY <1>2, <1>6
  <2>2. Len(<<>>) <= 1
    OBVIOUS
  <2> QED BY <1>1, <1>6, <1>7, <2>1, <2>2 DEF CallWaits, isReady
<1>10. RetriesEvaluate'
  BY <1>1, <1>7 DEF RetriesEvaluate
<1> QED BY <1>2, <1>4, <1>5, <1>8, <1>9, <1>10

\* An evaluation returns.
LEMMA FinishEvalKeeps ==
    ASSUME TreeInv, FinishEval
    PROVE  TreeInv'
<1>1. call' = NoCall /\ UNCHANGED <<arr, node, data>>
  BY DEF FinishEval
<1>2. HeapInv'
  BY <1>1 DEF TreeInv, HeapInv, ArrNodesOK
<1> QED BY <1>1, <1>2, ReturnedCall DEF TreeInv

\* What a step that refuses leaves: the call with an operand to evaluate
LEMMA RefusedCall ==
    ASSUME TreeInv, call.op \in {"nary", "select"}, NEW i \in 1 .. Len(call.ins), call.node = None,
           call' = [call EXCEPT !.todo = <<call.ins[i]>>], UNCHANGED <<arr, node, data>>,
           \/ ~ isReady(arr[call.ins[i]])
           \/ /\ call.op = "select"
              /\ \A h \in ToSet(call.ins) : isReady(arr[h]) \/ getHeight(node, arr[h].node) = 0
    PROVE  TreeInv'
<1> USE DEF TreeInv, CallInv
<1>1. /\ call' = [op |-> call.op, ins |-> call.ins, arg |-> call.arg, todo |-> <<call.ins[i]>>,
                  node |-> call.node]
      /\ call.ins[i] \in Handles
  <2>1. call.ins[i] \in Handles
    BY FirstOperand DEF OperandOps
  <2> QED BY <2>1 DEF CallShape
<1>2. HeapInv' /\ FreeNodes' = FreeNodes
  BY DEF HeapInv, ArrNodesOK, FreeNodes
<1>3. <<call.ins[i]>> \in Seq(Handles)
  BY <1>1, Todos
<1>4. CallShape'
  BY <1>1, <1>3 DEF CallShape
<1>5. CallNodeOK'
  BY <1>1 DEF CallNodeOK
<1>6. CallRoom'
  BY <1>1, <1>2 DEF CallRoom
<1>7. CallWaits'
  <2>1. Len(<<call.ins[i]>>) <= 1
    OBVIOUS
  <2> QED BY <1>1, <2>1 DEF CallWaits
<1>8. RetriesEvaluate'
  <2>1. Head(<<call.ins[i]>>) = call.ins[i]
    OBVIOUS
  <2> QED BY <1>1, <2>1 DEF RetriesEvaluate
<1> QED BY <1>2, <1>4, <1>5, <1>6, <1>7, <1>8

\* createNaryNode: the tree it makes is a heap's, and when it refuses for the
\* height or the parameters, the highest operand is a tree.
LEMMA createNaryNodeKeeps ==
    ASSUME TreeInv, createNaryNode
    PROVE  TreeInv'
<1> DEFINE ins == call.ins
           N == WithBufferNodes(ins)
           nodes == GetNodes(ins)
           ptr == FreshNodes[Len(ins) + 1]
           N1 == [N EXCEPT ![ptr] = NaryNode(N, nodes)]
           result == passesJitHeuristics(N, nodes)
<1>1. HeapInv /\ CallShape /\ CallRoom /\ CallNodeOK
  BY DEF TreeInv, CallInv
<1>2. call.op = "nary" /\ call.todo = <<>> /\ call.node = None
  BY DEF createNaryNode, Executing
<1>3. /\ Len(ins) \in 1 .. 2 /\ Len(ins) \in 1 .. kMaxChildren /\ ins \in [1 .. Len(ins) -> Handles]
      /\ Head(ins) \in Handles /\ Cardinality(FreeNodes) >= Len(ins) + 1
  <2>1. Len(ins) \in 1 .. 2
    BY <1>1, <1>2 DEF CallShape, OperandOps, Arity
  <2>2. Cardinality(FreeNodes) >= Len(ins) + 1
    BY <1>1, <1>2 DEF CallRoom, OperandOps
  <2> QED BY <1>1, <1>2, <2>1, <2>2, FirstOperand DEF OperandOps
<1>4. /\ HeapOK(N) /\ nodes \in [1 .. Len(nodes) -> NodeIds] /\ Len(nodes) = Len(ins)
      /\ ptr \in NodeIds /\ HeapOK(N1) /\ N1[ptr] # NoNode
      /\ \A n \in NodeIds : node[n] # NoNode => N1[n] # NoNode
      /\ \A i \in 1 .. Len(ins) :
           IF isReady(arr[ins[i]]) THEN getHeight(N, nodes[i]) = 0
           ELSE getHeight(N, nodes[i]) = getHeight(node, arr[ins[i]].node)
  <2> HIDE DEF ins
  <2> QED BY <1>1, <1>3, NaryReady
<1>5. \/ /\ Finish(createNodeArray(call.arg, ptr), N1, data, OperationOn(ins, call.arg))
         /\ call' = NoCall
      \/ /\ result \in {"TreeHeight", "KernelParameterSize"}
         /\ call' = [call EXCEPT !.todo = <<ins[Tallest(N, nodes)]>>]
         /\ UNCHANGED <<arr, node, data>>
      \/ /\ call' = [call EXCEPT !.todo = ins, !.node = ptr]
         /\ Settle(arr, N1, data, ptr)
  BY DEF createNaryNode
<1> HIDE DEF N, nodes, ptr, N1, result
<1>6. CASE /\ Finish(createNodeArray(call.arg, ptr), N1, data, OperationOn(ins, call.arg))
           /\ call' = NoCall
  <2>1. Ref(N1, createNodeArray(call.arg, ptr).node) /\ "node" \in DOMAIN createNodeArray(call.arg, ptr)
    BY <1>4, MadeArrays DEF Ref
  <2>2. HeapInv'
    BY <1>1, <1>3, <1>4, <1>6, <2>1, FinishKeeps
  <2> QED BY <1>6, <2>2, ReturnedCall DEF TreeInv
<1>7. CASE /\ result \in {"TreeHeight", "KernelParameterSize"}
           /\ call' = [call EXCEPT !.todo = <<ins[Tallest(N, nodes)]>>]
           /\ UNCHANGED <<arr, node, data>>
  <2> DEFINE t == Tallest(N, nodes)
  <2>1. Len(nodes) \in 1 .. 2 /\ HeapOK(N) /\ nodes \in [1 .. Len(nodes) -> NodeIds]
    BY <1>3, <1>4
  <2>2. /\ t \in 1 .. Len(nodes)
        /\ \A i \in 1 .. Len(nodes) :
              /\ getHeight(N, nodes[i]) \in Nat
              /\ getHeight(N, nodes[i]) <= getHeight(N, nodes[t])
    BY <2>1, TallestIsHighest
  <2>3. ~ \A i \in 1 .. Len(nodes) : getHeight(N, nodes[i]) = 0
    BY <1>7, <2>1, LeavesPass DEF result
  <2> HIDE DEF t
  <2>4. getHeight(N, nodes[t]) # 0 /\ t \in 1 .. Len(ins)
    BY <1>4, <2>2, <2>3
  <2>5. ~ isReady(arr[ins[t]])
    BY <1>4, <2>4
  <2>6. call' = [call EXCEPT !.todo = <<call.ins[t]>>]
    BY <1>7 DEF t
  <2> HIDE DEF ins
  <2> QED BY <1>2, <1>7, <2>4, <2>5, <2>6, RefusedCall DEF ins
<1>8. CASE /\ call' = [call EXCEPT !.todo = ins, !.node = ptr]
           /\ Settle(arr, N1, data, ptr)
  <2>1. /\ arr = [h \in Handles |-> arr[h]]
        /\ \A h \in Handles : Ref(N1, arr[h].node) /\ "node" \in DOMAIN arr[h]
    BY <1>1, <1>4 DEF HeapInv, ArrNodesOK, Ref
  <2>2. Ref(N1, ptr) /\ ptr # None
    BY <1>4, NoneIsNoNode DEF Ref
  <2>3. HeapInv' /\ node'[ptr] # NoNode
    BY <1>4, <1>8, <2>1, <2>2, Settled
  <2>4. call' = [op |-> "nary", ins |-> ins, arg |-> call.arg, todo |-> ins, node |-> ptr]
    BY <1>1, <1>2, <1>8 DEF CallShape
  <2>5. ins \in Seq(Handles)
    BY <1>3
  <2>6. Len(ins) \in Arity("nary")
    BY <1>3 DEF Arity
  <2>7. CallShape'
    BY <1>3, <2>4, <2>5, <2>6 DEF CallShape
  <2>8. CallNodeOK' /\ CallRoom' /\ CallWaits' /\ RetriesEvaluate'
    BY <1>4, <2>2, <2>3, <2>4 DEF CallNodeOK, CallRoom, CallWaits, RetriesEvaluate
  <2> QED BY <2>3, <2>7, <2>8 DEF TreeInv, CallInv
<1> QED BY <1>5, <1>6, <1>7, <1>8

\* The node built before the evaluation under memory pressure is still there.
LEMMA ReturnOldNodeKeeps ==
    ASSUME TreeInv, ReturnOldNode
    PROVE  TreeInv'
<1> DEFINE a == createNodeArray(call.arg, call.node)
<1>1. HeapInv /\ CallShape /\ CallNodeOK
  BY DEF TreeInv, CallInv
<1>2. call.op = "nary" /\ call.node # None /\ call' = NoCall
  BY DEF ReturnOldNode
<1>3. PICK v : Finish(a, node, data, v)
  BY DEF ReturnOldNode
<1>4. Ref(node, a.node) /\ "node" \in DOMAIN a
  BY <1>1, MadeArrays DEF Ref, CallNodeOK
<1>5. Head(call.ins) \in Handles
  BY <1>1, <1>2, FirstOperand DEF OperandOps
<1>6. HeapOK(node) /\ \A n \in NodeIds : node[n] # NoNode => node[n] # NoNode
  BY <1>1 DEF HeapInv
<1> HIDE DEF a
<1>7. HeapInv'
  BY <1>1, <1>3, <1>4, <1>5, <1>6, FinishKeeps
<1> QED BY <1>2, <1>7, ReturnedCall DEF TreeInv

\* The operand that select evaluates is no lower than the others.
LEMMA VictimIsHighest ==
    ASSUME NEW N, NEW nodes, \A i \in 1 .. 3 : getHeight(N, nodes[i]) \in Nat
    PROVE  /\ SelectVictim(N, nodes) \in 1 .. 3
           /\ getHeight(N, nodes[SelectVictim(N, nodes)]) = 0 =>
                \A i \in 1 .. 3 : getHeight(N, nodes[i]) = 0
<1> DEFINE h1 == getHeight(N, nodes[1])
           h2 == getHeight(N, nodes[2])
           h3 == getHeight(N, nodes[3])
           top == Max({h3, h1})
<1>1. h1 \in Nat /\ h2 \in Nat /\ h3 \in Nat
  OBVIOUS
<1> HIDE DEF h1, h2, h3
<1>2. top \in {h3, h1} /\ h1 <= top /\ h3 <= top
  <2>1. \E x \in {h3, h1} : \A y \in {h3, h1} : x >= y
    <3>1. CASE h1 >= h3
      <4>1. \A y \in {h3, h1} : h1 >= y
        BY <1>1, <3>1
      <4> QED BY <4>1
    <3>2. CASE h3 >= h1
      <4>1. \A y \in {h3, h1} : h3 >= y
        BY <1>1, <3>2
      <4> QED BY <4>1
    <3> QED BY <1>1, <3>1, <3>2
  <2>2. top \in {h3, h1} /\ \A y \in {h3, h1} : top >= y
    BY <2>1 DEF Max
  <2> QED BY <1>1, <2>2
<1>3. SelectVictim(N, nodes) = IF h2 > top THEN 2 ELSE IF h3 > h1 THEN 3 ELSE 1
  BY DEF SelectVictim, h1, h2, h3
<1> HIDE DEF top
<1>4. CASE h2 > top
  BY <1>1, <1>2, <1>3, <1>4 DEF h2
<1>5. CASE ~ (h2 > top) /\ h3 > h1
  BY <1>1, <1>2, <1>3, <1>5 DEF h3
<1>6. CASE ~ (h2 > top) /\ ~ (h3 > h1)
  <2>1. SelectVictim(N, nodes) = 1
    BY <1>3, <1>6
  <2>2. h1 = 0 => h2 = 0 /\ h3 = 0
    BY <1>1, <1>2, <1>6
  <2> QED BY <2>1, <2>2 DEF h1, h2, h3
<1> QED BY <1>4, <1>5, <1>6

\* createSelectNode: the operand it evaluates is a tree, unless none is.
LEMMA createSelectNodeKeeps ==
    ASSUME TreeInv, createSelectNode
    PROVE  TreeInv'
<1> DEFINE ins == call.ins
           N == WithBufferNodes(ins)
           nodes == GetNodes(ins)
           ptr == FreshNodes[4]
           N1 == [N EXCEPT ![ptr] = NaryNode(N, nodes)]
<1>1. HeapInv /\ CallShape /\ CallRoom
  BY DEF TreeInv, CallInv
<1>2. call.op = "select" /\ call.todo = <<>> /\ call.node = None
  BY DEF createSelectNode, Executing
<1>3. /\ Len(ins) = 3 /\ Len(ins) \in 1 .. kMaxChildren /\ ins \in [1 .. Len(ins) -> Handles]
      /\ Head(ins) \in Handles /\ Cardinality(FreeNodes) >= Len(ins) + 1
  <2>1. Len(ins) = 3
    BY <1>1, <1>2 DEF CallShape, OperandOps, Arity
  <2>2. Cardinality(FreeNodes) >= Len(ins) + 1
    BY <1>1, <1>2 DEF CallRoom, OperandOps
  <2> QED BY <1>1, <1>2, <2>1, <2>2, FirstOperand DEF OperandOps
<1>4. /\ HeapOK(N) /\ nodes \in [1 .. Len(nodes) -> NodeIds] /\ Len(nodes) = Len(ins)
      /\ ptr \in NodeIds /\ HeapOK(N1) /\ N1[ptr] # NoNode
      /\ \A n \in NodeIds : node[n] # NoNode => N1[n] # NoNode
      /\ \A i \in 1 .. Len(ins) :
           IF isReady(arr[ins[i]]) THEN getHeight(N, nodes[i]) = 0
           ELSE getHeight(N, nodes[i]) = getHeight(node, arr[ins[i]].node)
  <2>1. FreshNodes[Len(ins) + 1] = ptr
    BY <1>3
  <2> HIDE DEF ins, ptr
  <2> QED BY <1>1, <1>3, <2>1, NaryReady
<1>5. \/ /\ Finish(createNodeArray(call.arg, ptr), N1, data, OperationOn(ins, call.arg))
         /\ call' = NoCall
      \/ /\ call' = [call EXCEPT !.todo = <<ins[SelectVictim(N, nodes)]>>]
         /\ UNCHANGED <<arr, node, data>>
  BY DEF createSelectNode
<1> HIDE DEF N, nodes, ptr, N1
<1>6. CASE /\ Finish(createNodeArray(call.arg, ptr), N1, data, OperationOn(ins, call.arg))
           /\ call' = NoCall
  <2>1. Ref(N1, createNodeArray(call.arg, ptr).node) /\ "node" \in DOMAIN createNodeArray(call.arg, ptr)
    BY <1>4, MadeArrays DEF Ref
  <2>2. HeapInv'
    BY <1>1, <1>3, <1>4, <1>6, <2>1, FinishKeeps
  <2> QED BY <1>6, <2>2, ReturnedCall DEF TreeInv
<1>7. CASE /\ call' = [call EXCEPT !.todo = <<ins[SelectVictim(N, nodes)]>>]
           /\ UNCHANGED <<arr, node, data>>
  <2> DEFINE t == SelectVictim(N, nodes)
  <2>1. \A i \in 1 .. 3 : getHeight(N, nodes[i]) \in Nat
    <3>1. \A i \in 1 .. 3 : nodes[i] \in NodeIds
      BY <1>3, <1>4
    <3> QED BY <1>4, <3>1, BelowOf
  <2>2. /\ t \in 1 .. 3
        /\ getHeight(N, nodes[t]) = 0 => \A i \in 1 .. 3 : getHeight(N, nodes[i]) = 0
    BY <2>1, VictimIsHighest
  <2>3. call' = [call EXCEPT !.todo = <<call.ins[t]>>]
    BY <1>7
  <2> HIDE DEF t
  <2>4. \/ ~ isReady(arr[ins[t]])
        \/ \A h \in ToSet(ins) : isReady(arr[h]) \/ getHeight(node, arr[h].node) = 0
    <3>1. CASE getHeight(N, nodes[t]) # 0
      BY <1>3, <1>4, <2>2, <3>1
    <3>2. CASE getHeight(N, nodes[t]) = 0
      <4>1. \A i \in 1 .. Len(ins) : isReady(arr[ins[i]]) \/ getHeight(node, arr[ins[i]].node) = 0
        BY <1>3, <1>4, <2>2, <3>2
      <4>2. \A h \in ToSet(ins) : \E i \in 1 .. Len(ins) : h = ins[i]
        BY <1>3 DEF ToSet
      <4> QED BY <4>1, <4>2
    <3> QED BY <3>1, <3>2
  <2>5. t \in 1 .. Len(ins)
    BY <1>3, <2>2
  <2> QED BY <1>2, <1>7, <2>3, <2>4, <2>5, RefusedCall
<1> QED BY <1>5, <1>6, <1>7

\* The operand of a call with one operand, and its node
LEMMA OneOperand ==
    ASSUME TreeInv, call.op \in {"shift", "moddims", "index"}, call.node = None
    PROVE  LET in == call.ins[1]
               N == WithBufferNodes(<<in>>)
               root == GetNodes(<<in>>)[1]
           IN  /\ in \in Handles /\ Head(call.ins) = in
               /\ Cardinality(FreeNodes) >= 2
               /\ HeapOK(N) /\ root \in NodeIds /\ N[root] # NoNode
               /\ isReady(arr[in]) => N[root].kind = "buffer" /\ root = FreshNodes[1]
               /\ ~ isReady(arr[in]) => root = arr[in].node
               /\ \A n \in NodeIds : node[n] # NoNode => N[n] = node[n]
               /\ \A n \in NodeIds : n # FreshNodes[1] => N[n] = node[n]
<1> DEFINE in == call.ins[1]
           N == WithBufferNodes(<<in>>)
           root == GetNodes(<<in>>)[1]
<1>1. HeapInv /\ CallShape /\ CallRoom
  BY DEF TreeInv, CallInv
<1>2. in \in Handles /\ Head(call.ins) = in
  BY <1>1, FirstOperand DEF OperandOps
<1>3. Len(call.ins) = 1
  BY <1>1 DEF CallShape, OperandOps, Arity
<1>4. Cardinality(FreeNodes) >= 2
  BY <1>1, <1>3 DEF CallRoom, OperandOps
<1> HIDE DEF in
<1>5. Len(<<in>>) = 1 /\ <<in>> \in [1 .. Len(<<in>>) -> Handles] /\ <<in>>[1] = in
  BY <1>2, OperandLists
<1>6. Len(<<in>>) \in 1 .. kMaxChildren /\ Len(<<in>>) <= Cardinality(FreeNodes)
  BY <1>4, <1>5, FreeCount DEF kMaxChildren
<1>7. HeapOK(node) /\ ArrNodesOK
  BY <1>1 DEF HeapInv
<1>8. /\ HeapOK(N)
      /\ GetNodes(<<in>>) \in [1 .. Len(<<in>>) -> NodeIds]
      /\ \A i \in 1 .. Len(<<in>>) :
           /\ N[GetNodes(<<in>>)[i]] # NoNode
           /\ isReady(arr[<<in>>[i]]) =>
                N[GetNodes(<<in>>)[i]].kind = "buffer" /\ GetNodes(<<in>>)[i] = FreshNodes[i]
           /\ ~ isReady(arr[<<in>>[i]]) => GetNodes(<<in>>)[i] = arr[<<in>>[i]].node
      /\ \A n \in NodeIds : node[n] # NoNode => N[n] = node[n]
      /\ \A n \in NodeIds : (\A i \in 1 .. Len(<<in>>) : n # FreshNodes[i]) => N[n] = node[n]
  BY <1>5, <1>6, <1>7, OperandNodes
<1>9. 1 \in 1 .. Len(<<in>>) /\ \A i \in 1 .. Len(<<in>>) : i = 1
  BY <1>5
<1> HIDE DEF N
<1>10. /\ root \in NodeIds /\ N[root] # NoNode
       /\ isReady(arr[in]) => N[root].kind = "buffer" /\ root = FreshNodes[1]
       /\ ~ isReady(arr[in]) => root = arr[in].node
  BY <1>5, <1>8, <1>9
<1>11. \A n \in NodeIds : n # FreshNodes[1] => N[n] = node[n]
  BY <1>8, <1>9
<1> QED BY <1>2, <1>4, <1>8, <1>10, <1>11 DEF in, N

\* A shift node refers to the node of its operand's buffer.
LEMMA createShiftNodeKeeps ==
    ASSUME TreeInv, createShiftNode
    PROVE  TreeInv'
<1> DEFINE in == call.ins[1]
           N == WithBufferNodes(<<in>>)
           s == FreshNodes[2]
           r == ShiftNode(FreshNodes[1], Shifts(call.arg, arr[in].dims))
           N2 == [N EXCEPT ![s] = r]
           a == createNodeArray(arr[in].dims, s)
<1>1. HeapInv /\ CallShape /\ CallWaits
  BY DEF TreeInv, CallInv
<1>2. call.op = "shift" /\ call.todo = <<>> /\ call.node = None
  BY DEF createShiftNode, Executing
<1>3. isReady(arr[in])
  BY <1>1, <1>2 DEF CallWaits
<1>4. /\ in \in Handles /\ Head(call.ins) = in /\ Cardinality(FreeNodes) >= 2
      /\ HeapOK(N) /\ FreshNodes[1] \in NodeIds /\ N[FreshNodes[1]].kind = "buffer"
      /\ \A n \in NodeIds : node[n] # NoNode => N[n] = node[n]
      /\ \A n \in NodeIds : n # FreshNodes[1] => N[n] = node[n]
  BY <1>2, <1>3, OneOperand
<1>5. s \in NodeIds /\ N[s] = NoNode
  <2>1. 1 \in 1 .. Cardinality(FreeNodes) /\ 2 \in 1 .. Cardinality(FreeNodes)
    BY <1>4, FreeCount
  <2>2. s \in NodeIds /\ node[s] = NoNode /\ s # FreshNodes[1]
    BY <2>1, FreshNode
  <2> QED BY <1>4, <2>2
<1>6. PICK v : Finish(a, N2, data, v)
  BY DEF createShiftNode
<1>7. call' = NoCall \/ call' = [NoCall EXCEPT !.op = "eval", !.todo = <<in>>]
  BY <1>4 DEF createShiftNode, NextCall
<1>8. Leaf(r) /\ r.kind = "shift" /\ r.in = FreshNodes[1] /\ r # NoNode
  BY DEF Leaf, ShiftNode, NoNode
<1> HIDE DEF N, s, r
<1>9. /\ N2 = [n \in NodeIds |-> N2[n]] /\ N2[s] = r
      /\ \A n \in NodeIds : n # s => N2[n] = N[n]
  BY <1>4, <1>5 DEF HeapOK
<1> HIDE DEF N2
<1>10. HeapOK(N2) /\ \A n \in NodeIds : N[n] # NoNode => N2[n] = N[n]
  <2>1. \A n \in NodeIds : \/ N2[n] = N[n]
                           \/ /\ N[n] = NoNode /\ Leaf(N2[n])
                              /\ N2[n].in \in NodeIds /\ N[N2[n].in].kind = "buffer"
    BY <1>4, <1>5, <1>8, <1>9
  <2> QED BY <1>4, <1>9, <2>1, AddLeaves
<1>11. \A n \in NodeIds : node[n] # NoNode => N2[n] # NoNode
  BY <1>4, <1>10
<1>12. Ref(N2, a.node) /\ "node" \in DOMAIN a
  BY <1>5, <1>8, <1>9, MadeArrays DEF Ref
<1> HIDE DEF a
<1>13. HeapInv'
  BY <1>1, <1>4, <1>6, <1>10, <1>11, <1>12, FinishKeeps
<1> QED BY <1>4, <1>7, <1>13, ReturnedCall DEF TreeInv

\* There is a fresh node for every copy.
LEMMA FreshCopies ==
    ASSUME TreeInv, Executing("moddims")
    PROVE  LET N == WithBufferNodes(<<call.ins[1]>>)
               k == Cardinality(Copies(N, GetNodes(<<call.ins[1]>>)[1]))
               fresh == SubSeq(FreshNodes, 2, Len(FreshNodes))
           IN  \A i \in 1 .. k : /\ fresh[i] \in NodeIds /\ N[fresh[i]] = NoNode
                                 /\ \A j \in 1 .. k : fresh[i] = fresh[j] => i = j
<1> DEFINE in == call.ins[1]
           N == WithBufferNodes(<<in>>)
           root == GetNodes(<<in>>)[1]
           fresh == SubSeq(FreshNodes, 2, Len(FreshNodes))
           k == Cardinality(Copies(N, root))
<1>1. HeapInv /\ CallRoom
  BY DEF TreeInv, CallInv
<1>2. call.op = "moddims" /\ call.todo = <<>> /\ call.node = None
  BY DEF Executing
<1>3. /\ in \in Handles /\ Head(call.ins) = in /\ Cardinality(FreeNodes) >= 2
      /\ HeapOK(N) /\ root \in NodeIds /\ N[root] # NoNode
      /\ isReady(arr[in]) => N[root].kind = "buffer" /\ root = FreshNodes[1]
      /\ ~ isReady(arr[in]) => root = arr[in].node
      /\ \A n \in NodeIds : node[n] # NoNode => N[n] = node[n]
      /\ \A n \in NodeIds : n # FreshNodes[1] => N[n] = node[n]
  BY <1>2, OneOperand
<1>5. k \in Nat /\ k + 1 <= Cardinality(FreeNodes) /\ Cardinality(FreeNodes) \in Nat
  <2>0. /\ IsFiniteSet(Copies(N, root))
        /\ getHeight(N, root) = 0 => Copies(N, root) = {<<0, root>>}
    <3>1. HeapOK(N) /\ root \in NodeIds /\ N[root] # NoNode
      BY <1>3
    <3> HIDE DEF N, root
    <3> QED BY <3>1, CopyFacts
  <2>1. k \in Nat
    <3> HIDE DEF N, root
    <3> QED BY <2>0, FS_CardinalityType
  <2>2. CASE isReady(arr[in])
    <3>1. getHeight(N, root) = 0
      BY <1>3, <2>2 DEF getHeight
    <3>2. Copies(N, root) = {<<0, root>>}
      <4> HIDE DEF N, root
      <4> QED BY <2>0, <3>1
    <3>3. k = 1
      BY <3>2, FS_Singleton
    <3> QED BY <1>3, <3>3, FreeCount
  <2>3. CASE ~ isReady(arr[in])
    <3>1. N = node
      <4>1. N = [n \in NodeIds |-> node[n]]
        BY <2>3, OperandLists DEF WithBufferNodes
      <4> QED BY <1>1, <4>1 DEF HeapInv, HeapOK
    <3>2. Cardinality(FreeNodes) >= 1 + Cardinality(Copies(node, arr[in].node))
      BY <1>1, <1>2, <2>3 DEF CallRoom
    <3> QED BY <1>3, <2>1, <2>3, <3>1, <3>2, FreeCount
  <2> QED BY <2>2, <2>3
<1>6. \A i \in 1 .. k : fresh[i] = FreshNodes[i + 1]
  <2>1. Len(FreshNodes) = Cardinality(FreeNodes)
    BY <1>5 DEF FreshNodes, Ascending
  <2>2. FreshNodes = [i \in 1 .. Cardinality(FreeNodes) |-> FreshNodes[i]]
    BY DEF FreshNodes, Ascending
  <2> QED BY <1>5, <2>1, <2>2
<1> HIDE DEF k, fresh, N, root
<1>7. \A i \in 1 .. k : /\ fresh[i] \in NodeIds /\ N[fresh[i]] = NoNode
                        /\ \A j \in 1 .. k : fresh[i] = fresh[j] => i = j
  <2> SUFFICES ASSUME NEW i \in 1 .. k
               PROVE  /\ fresh[i] \in NodeIds /\ N[fresh[i]] = NoNode
                      /\ \A j \in 1 .. k : fresh[i] = fresh[j] => i = j
    OBVIOUS
  <2>1. /\ \A j \in 1 .. k : j + 1 \in 1 .. Cardinality(FreeNodes)
        /\ 1 \in 1 .. Cardinality(FreeNodes) /\ i \in Nat /\ i + 1 # 1
    BY <1>5
  <2>2. /\ FreshNodes[i + 1] \in NodeIds /\ node[FreshNodes[i + 1]] = NoNode
        /\ \A j \in 1 .. Cardinality(FreeNodes) : FreshNodes[j] = FreshNodes[i + 1] => j = i + 1
    BY <2>1, FreshNode
  <2>3. FreshNodes[i + 1] # FreshNodes[1]
    BY <2>1, <2>2
  <2>4. N[FreshNodes[i + 1]] = NoNode
    BY <1>3, <2>2, <2>3
  <2>5. \A j \in 1 .. k : FreshNodes[j + 1] = FreshNodes[i + 1] => j = i
    BY <1>5, <2>1, <2>2
  <2> QED BY <1>6, <2>2, <2>4, <2>5
<1> QED BY <1>7 DEF k, fresh, N, root

\* copyModdims has a fresh node for every copy, and the copies make a tree.
LEMMA createModdimNodeKeeps ==
    ASSUME TreeInv, createModdimNode
    PROVE  TreeInv'
<1> DEFINE in == call.ins[1]
           N == WithBufferNodes(<<in>>)
           root == GetNodes(<<in>>)[1]
           fresh == SubSeq(FreshNodes, 2, Len(FreshNodes))
           c == copyModdims(N, root, call.arg, fresh)
           a == createNodeArray(call.arg, c.root)
           k == Cardinality(Copies(N, root))
<1>1. HeapInv /\ CallShape /\ CallRoom
  BY DEF TreeInv, CallInv
<1>2. call.op = "moddims" /\ call.todo = <<>> /\ call.node = None /\ call' = NoCall
  BY DEF createModdimNode, Executing
<1>3. /\ in \in Handles /\ Head(call.ins) = in /\ Cardinality(FreeNodes) >= 2
      /\ HeapOK(N) /\ root \in NodeIds /\ N[root] # NoNode
      /\ isReady(arr[in]) => N[root].kind = "buffer" /\ root = FreshNodes[1]
      /\ ~ isReady(arr[in]) => root = arr[in].node
      /\ \A n \in NodeIds : node[n] # NoNode => N[n] = node[n]
      /\ \A n \in NodeIds : n # FreshNodes[1] => N[n] = node[n]
  BY <1>2, OneOperand
<1>4. PICK v : Finish(a, c.nodes, data, v)
  BY DEF createModdimNode
<1> HIDE DEF k, fresh, N, root
<1>5. \A i \in 1 .. k : /\ fresh[i] \in NodeIds /\ N[fresh[i]] = NoNode
                        /\ \A j \in 1 .. k : fresh[i] = fresh[j] => i = j
  BY FreshCopies DEF createModdimNode, k, fresh, N, root
<1>6. /\ HeapOK(c.nodes) /\ c.root \in NodeIds /\ c.nodes[c.root] # NoNode
      /\ \A n \in NodeIds : N[n] # NoNode => c.nodes[n] = N[n]
  BY <1>3, <1>5, CopyKeepsHeap DEF k
<1> HIDE DEF c
<1>7. \A n \in NodeIds : node[n] # NoNode => c.nodes[n] # NoNode
  BY <1>3, <1>6
<1>8. Ref(c.nodes, a.node) /\ "node" \in DOMAIN a
  BY <1>6, MadeArrays DEF Ref
<1> HIDE DEF a
<1>9. HeapInv'
  BY <1>1, <1>3, <1>4, <1>6, <1>7, <1>8, FinishKeeps
<1> QED BY <1>2, <1>9, ReturnedCall DEF TreeInv

\* An indexed array is a view of a buffer, or evaluated.
LEMMA createSubArrayKeeps ==
    ASSUME TreeInv, createSubArray
    PROVE  TreeInv'
<1>1. HeapInv
  BY DEF TreeInv
<1>2. call.op = "index" /\ call.node = None /\ call' = NoCall
  BY DEF createSubArray, Executing
<1>3. PICK a, D, v : Finish(a, node, D, v) /\ a.node = None /\ "node" \in DOMAIN a
  <2> DEFINE in == arr[call.ins[1]]
             b1 == FreshBufs[1]
             parent == IF isLinear(in) THEN in ELSE ReadyArray(in.dims, b1)
             D1 == IF isLinear(in) THEN data ELSE [data EXCEPT ![b1] = Read(data, in)]
             view == [dims |-> toDims(call.arg, parent.dims), strides |-> toStride(call.arg, parent.data_dims),
                      off |-> parent.off + Dot(toOffset(call.arg), parent.strides),
                      buf |-> parent.buf, node |-> None, data_dims |-> parent.data_dims]
             copied == ReadyArray(view.dims, FreshBufs[2])
  <2>1. \/ \E v : Finish(view, node, D1, v)
        \/ \E D, v : Finish(copied, node, D, v)
    BY DEF createSubArray
  <2>2. view.node = None /\ "node" \in DOMAIN view
    OBVIOUS
  <2>3. copied.node = None /\ "node" \in DOMAIN copied
    BY MadeArrays
  <2> HIDE DEF view, copied, D1
  <2> QED BY <2>1, <2>2, <2>3
<1>4. Head(call.ins) \in Handles
  BY <1>2, OneOperand
<1>5. Ref(node, a.node) /\ HeapOK(node) /\ \A n \in NodeIds : node[n] # NoNode => node[n] # NoNode
  BY <1>1, <1>3, MadeArrays DEF HeapInv
<1>6. HeapInv'
  BY <1>1, <1>3, <1>4, <1>5, FinishKeeps
<1> QED BY <1>2, <1>6, ReturnedCall DEF TreeInv

-----------------------------------------------------------------------------
\* Every step keeps the invariant.
LEMMA StepTreeInv == TreeInv /\ [Next]_vars => TreeInv'
<1> SUFFICES ASSUME TreeInv, [Next]_vars PROVE TreeInv'
  OBVIOUS
<1>1. CASE call = NoCall /\ Call
  BY <1>1, CallKeeps DEF TreeInv
<1>2. CASE Step
  BY <1>2, EvalOperandKeeps, FinishEvalKeeps, createNaryNodeKeeps, ReturnOldNodeKeeps,
     createSelectNodeKeeps, createShiftNodeKeeps, createModdimNodeKeeps, createSubArrayKeeps DEF Step
<1>3. CASE UNCHANGED vars
  BY <1>3 DEF vars, TreeInv, HeapInv, ArrNodesOK, CallInv, CallShape, CallNodeOK, CallRoom, CallWaits,
     RetriesEvaluate, FreeNodes
<1> QED BY <1>1, <1>2, <1>3 DEF Next, Running

\* For any number of arrays and nodes, every shape and every limit of the
\* platform: whenever createNaryNode or createSelectNode asks for an operand to
\* be evaluated before it tries again, that operand is not evaluated yet, but for
\* a select of leaves that is refused for memory.  A binary operation tries
\* again at most once for each operand.
THEOREM RetriesEvaluateHolds == Spec => []RetriesEvaluate
<1>1. TreeInv => RetriesEvaluate
  BY DEF TreeInv, CallInv
<1> QED BY InitTreeInv, StepTreeInv, <1>1, PTL DEF Spec

(***************************************************************************)
(* Shapes and strides: the products and sums behind elements, calcStrides  *)
(* and the offset of an index.                                             *)
(***************************************************************************)

\* A recursion over 0 .. n whose step is a function of integers has a value.
LEMMA RecursionExists ==
    ASSUME NEW n \in Nat, NEW b \in Int, NEW G \in [Int \X (1 .. n) -> Int]
    PROVE  \E f \in [0 .. n -> Int] : f[0] = b /\ \A k \in 1 .. n : f[k] = G[<<f[k - 1], k>>]
<1> DEFINE Upto(m, f) == f[0] = b /\ \A k \in 1 .. m : f[k] = G[<<f[k - 1], k>>]
           Bad == {m \in 0 .. n : ~ \E f \in [0 .. n -> Int] : Upto(m, f)}
<1> SUFFICES ASSUME Bad # {} PROVE FALSE
  <2>1. n \in 0 .. n
    OBVIOUS
  <2>2. n \notin Bad => \E f \in [0 .. n -> Int] : Upto(n, f)
    BY <2>1
  <2> QED BY <2>2
<1>1. PICK m \in Bad : \A i \in Bad : m <= i
  <2>1. Bad \subseteq Nat
    OBVIOUS
  <2> HIDE DEF Bad
  <2> QED BY <2>1, LeastNat
<1>2. m # 0
  <2> DEFINE f == [k \in 0 .. n |-> b]
  <2>1. f \in [0 .. n -> Int] /\ Upto(0, f)
    OBVIOUS
  <2> QED BY <2>1
<1>3. PICK f \in [0 .. n -> Int] : Upto(m - 1, f)
  <2>1. m \in 0 .. n /\ m - 1 \in 0 .. n /\ ~ (m <= m - 1)
    BY <1>2
  <2>2. m - 1 \notin Bad
    <3> HIDE DEF Bad
    <3> QED BY <1>1, <2>1
  <2> QED BY <2>1, <2>2
<1> DEFINE g == [k \in 0 .. n |-> IF k = m THEN G[<<f[m - 1], m>>] ELSE f[k]]
<1>4. m \in 1 .. n /\ m - 1 \in 0 .. n /\ m - 1 # m
  BY <1>2
<1>5. g \in [0 .. n -> Int]
  BY <1>4
<1>6. g[0] = b /\ g[m] = G[<<f[m - 1], m>>] /\ \A k \in 0 .. m - 1 : g[k] = f[k]
  BY <1>3, <1>4, SMTT(30)
<1> HIDE DEF g
<1>7. ASSUME NEW k \in 1 .. m PROVE g[k] = G[<<g[k - 1], k>>]
  <2>1. CASE k = m
    <3>1. g[k - 1] = f[m - 1]
      BY <1>4, <1>6, <2>1
    <3> QED BY <1>6, <2>1, <3>1
  <2>2. CASE k # m
    <3>1. k \in 1 .. m - 1 /\ k - 1 \in 0 .. m - 1 /\ k \in 0 .. m - 1
      BY <1>4, <2>2
    <3> QED BY <1>3, <1>6, <3>1
  <2> QED BY <2>1, <2>2
<1>8. Upto(m, g)
  BY <1>6, <1>7
<1> QED BY <1>1, <1>5, <1>8

\* What every partial result of a recursion over 0 .. n has: a set that holds
\* the first and with each the next
LEMMA RecursionKeeps ==
    ASSUME NEW n \in Nat, NEW f, NEW T, f[0] \in T,
           \A k \in 1 .. n : f[k - 1] \in T => f[k] \in T
    PROVE  \A k \in 0 .. n : f[k] \in T
<1> DEFINE Bad == {k \in 0 .. n : f[k] \notin T}
<1> SUFFICES ASSUME Bad # {} PROVE FALSE
  OBVIOUS
<1>1. PICK m \in Bad : \A i \in Bad : m <= i
  <2>1. Bad \subseteq Nat
    OBVIOUS
  <2> HIDE DEF Bad
  <2> QED BY <2>1, LeastNat
<1>2. m \in 1 .. n /\ m - 1 \in 0 .. n /\ m - 1 < m
  BY <1>1
<1> QED BY <1>1, <1>2

\* Dims is 1 .. AF_MAX_DIMS, which is not empty.
LEMMA DimsFacts ==
    /\ AF_MAX_DIMS \in Nat \ {0} /\ Dims = 1 .. AF_MAX_DIMS /\ Dims \subseteq 0 .. AF_MAX_DIMS
    /\ 1 \in Dims /\ AF_MAX_DIMS \in Dims /\ 0 \in 0 .. AF_MAX_DIMS /\ AF_MAX_DIMS \in 0 .. AF_MAX_DIMS
    /\ \A k \in Dims : k - 1 \in 0 .. AF_MAX_DIMS /\ k \in Nat
    /\ \A k \in Dims : k # 1 => k - 1 \in Dims
BY JitAssumption DEF Dims

DimVec == [Dims -> Nat \ {0}]
Strides == [Dims -> Nat]

\* p has the products of the first dimensions.
IsProduct(dims, p) ==
    /\ p \in [0 .. AF_MAX_DIMS -> Nat \ {0}] /\ p[0] = 1
    /\ \A k \in Dims : p[k] = p[k - 1] * dims[k]

\* elements and calcStrides are these products.
LEMMA Products ==
    ASSUME NEW dims \in DimVec
    PROVE  \E p : /\ IsProduct(dims, p) /\ elements(dims) = p[AF_MAX_DIMS]
                  /\ calcStrides(dims) = [k \in Dims |-> p[k - 1]]
<1> USE DimsFacts DEF DimVec
<1> DEFINE n == AF_MAX_DIMS
           PStep(p, k) == IF k = 0 THEN 1 ELSE p[k - 1] * dims[k]
           p == CHOOSE p : p = [k \in 0 .. n |-> PStep(p, k)]
           SStep(s, k) == IF k = 1 THEN 1 ELSE s[k - 1] * dims[k - 1]
           s == CHOOSE s : s = [k \in Dims |-> SStep(s, k)]
           G == [xk \in Int \X (1 .. n) |-> xk[1] * dims[xk[2]]]
<1>1. \E f \in [0 .. n -> Int] : f[0] = 1 /\ \A k \in 1 .. n : f[k] = G[<<f[k - 1], k>>]
  <2>1. G \in [Int \X (1 .. n) -> Int]
    OBVIOUS
  <2>2. 1 \in Int /\ n \in Nat
    OBVIOUS
  <2> HIDE DEF G
  <2> QED BY ONLY <2>1, <2>2, RecursionExists, ZenonT(30)
<1>2. PICK f \in [0 .. n -> Int] : f[0] = 1 /\ \A k \in Dims : f[k] = f[k - 1] * dims[k]
  <2>1. PICK f \in [0 .. n -> Int] : f[0] = 1 /\ \A k \in 1 .. n : f[k] = G[<<f[k - 1], k>>]
    BY <1>1
  <2>2. \A k \in Dims : f[k - 1] \in Int /\ G[<<f[k - 1], k>>] = f[k - 1] * dims[k]
    OBVIOUS
  <2> QED BY <2>1, <2>2
<1>3. f = [k \in 0 .. n |-> PStep(f, k)]
  <2>1. \A k \in 0 .. n : k = 0 \/ k \in Dims
    OBVIOUS
  <2> QED BY <1>2, <2>1
<1>4. p = [k \in 0 .. n |-> PStep(p, k)]
  <2>1. \E q : q = [k \in 0 .. n |-> PStep(q, k)]
    BY <1>3
  <2> HIDE DEF PStep
  <2> QED BY <2>1
<1>5. elements(dims) = p[n]
  BY DEF elements
<1>6. calcStrides(dims) = [k \in Dims |-> s[k]]
  BY DEF calcStrides
<1>7. p[0] = 1 /\ \A k \in Dims : p[k] = p[k - 1] * dims[k]
  <2> HIDE DEF p
  <2>1. \A k \in 0 .. n : p[k] = PStep(p, k)
    BY <1>4
  <2> QED BY <2>1, SMTT(30)
<1> HIDE DEF p
<1>8. \A k \in 0 .. n : p[k] \in Nat \ {0}
  <2>1. \A k \in 1 .. n : p[k - 1] \in Nat \ {0} => p[k] \in Nat \ {0}
    <3> SUFFICES ASSUME NEW k \in Dims, p[k - 1] \in Nat \ {0} PROVE p[k] \in Nat \ {0}
      OBVIOUS
    <3>1. dims[k] \in Nat \ {0} /\ p[k] = p[k - 1] * dims[k]
      BY <1>7
    <3>2. \A a, b \in Nat \ {0} : a * b \in Nat \ {0}
      OBVIOUS
    <3> QED BY <3>1, <3>2
  <2>2. p[0] \in Nat \ {0}
    BY <1>7
  <2> DEFINE T == Nat \ {0}
  <2> HIDE DEF T
  <2> QED BY <2>1, <2>2, RecursionKeeps DEF T
<1>9. p = [k \in 0 .. n |-> p[k]]
  BY <1>4
<1>10. IsProduct(dims, p)
  BY <1>7, <1>8, <1>9 DEF IsProduct
<1>11. s = [k \in Dims |-> SStep(s, k)]
  <2> DEFINE q == [k \in Dims |-> p[k - 1]]
  <2>1. \A k \in Dims : q[k] = SStep(q, k)
    BY <1>7, SMTT(30)
  <2>2. \E t : t = [k \in Dims |-> SStep(t, k)]
    <3>1. q = [k \in Dims |-> q[k]]
      OBVIOUS
    <3> HIDE DEF q, SStep
    <3>2. q = [k \in Dims |-> SStep(q, k)]
      BY <2>1, <3>1
    <3> QED BY <3>2
  <2> HIDE DEF SStep
  <2> QED BY <2>2
<1> HIDE DEF s
<1>12. \A k \in Dims : s[k] = SStep(s, k)
  BY <1>11
<1>13. \A k \in Dims : s[k] = p[k - 1]
  <2> DEFINE Same == {k \in 0 .. n : k = 0 \/ s[k] = p[k - 1]}
             id == [k \in 0 .. n |-> k]
  <2>1. \A k \in 1 .. n : id[k - 1] \in Same => id[k] \in Same
    <3> SUFFICES ASSUME NEW k \in Dims, k - 1 \in Same PROVE s[k] = p[k - 1]
      OBVIOUS
    <3>1. CASE k = 1
      BY <1>7, <1>12, <3>1
    <3>2. CASE k # 1
      <4>1. k - 1 \in Dims /\ (k - 1) - 1 = k - 2 /\ s[k - 1] = p[k - 2]
        BY <3>2, SMTT(30)
      <4>2. s[k] = s[k - 1] * dims[k - 1]
        BY <1>12, <3>2
      <4>3. p[k - 1] = p[k - 2] * dims[k - 1]
        BY <1>7, <4>1
      <4> QED BY <4>1, <4>2, <4>3
    <3> QED BY <3>1, <3>2
  <2>2. id[0] \in Same
    OBVIOUS
  <2>3. \A k \in 0 .. n : id[k] \in Same
    <3> HIDE DEF id, Same
    <3> QED BY <2>1, <2>2, RecursionKeeps
  <2>4. \A k \in Dims : k \in 0 .. n /\ id[k] = k /\ k # 0
    OBVIOUS
  <2> QED BY <2>3, <2>4
<1>14. calcStrides(dims) = [k \in Dims |-> p[k - 1]]
  BY <1>6, <1>13
<1> QED BY <1>5, <1>10, <1>14

\* Shapes have elements; strides are positive.
LEMMA ShapeFacts ==
    ASSUME NEW dims \in DimVec
    PROVE  elements(dims) \in Nat \ {0} /\ calcStrides(dims) \in DimVec /\ calcStrides(dims)[1] = 1
<1>1. PICK p : /\ IsProduct(dims, p) /\ elements(dims) = p[AF_MAX_DIMS]
               /\ calcStrides(dims) = [k \in Dims |-> p[k - 1]]
  BY Products
<1>2. \A k \in Dims : p[k - 1] \in Nat \ {0}
  BY <1>1, DimsFacts DEF IsProduct
<1> QED BY <1>1, <1>2, DimsFacts DEF IsProduct, DimVec

\* The products along the dimensions
Terms(a, b) == [k \in Dims |-> a[k] * b[k]]

\* s has the partial sums of f.
PartialSums(f, s) ==
    /\ s \in [0 .. AF_MAX_DIMS -> Int] /\ s[0] = 0
    /\ \A k \in Dims : s[k] = s[k - 1] + f[k]

\* The products that a Dot adds up are integers, or natural numbers.
LEMMA TermsType ==
    /\ \A a, b \in [Dims -> Int] : Terms(a, b) \in [Dims -> Int]
    /\ \A a, b \in [Dims -> Nat] : Terms(a, b) \in [Dims -> Nat]
<1>1. \A x, y \in Int : x * y \in Int
  OBVIOUS
<1>2. \A x, y \in Nat : x * y \in Nat
  OBVIOUS
<1> QED BY <1>1, <1>2 DEF Terms

\* Dot is the last of the partial sums of these products.
LEMMA Dots ==
    ASSUME NEW a \in [Dims -> Int], NEW b \in [Dims -> Int]
    PROVE  \E s : PartialSums(Terms(a, b), s) /\ Dot(a, b) = s[AF_MAX_DIMS]
<1> USE DimsFacts
<1> DEFINE n == AF_MAX_DIMS
           f == Terms(a, b)
           SStep(s, k) == IF k = 0 THEN 0 ELSE s[k - 1] + a[k] * b[k]
           s == CHOOSE s : s = [k \in 0 .. n |-> SStep(s, k)]
           G == [xk \in Int \X (1 .. n) |-> xk[1] + f[xk[2]]]
<1>0. f \in [Dims -> Int] /\ \A k \in Dims : f[k] = a[k] * b[k]
  BY TermsType DEF Terms
<1>1. PICK t \in [0 .. n -> Int] : t[0] = 0 /\ \A k \in 1 .. n : t[k] = G[<<t[k - 1], k>>]
  <2>1. G \in [Int \X (1 .. n) -> Int]
    BY <1>0, SMTT(30)
  <2>2. 0 \in Int /\ n \in Nat
    OBVIOUS
  <2> HIDE DEF G
  <2> QED BY ONLY <2>1, <2>2, RecursionExists, ZenonT(30)
<1> HIDE DEF f
<1>2. \A k \in Dims : t[k] = t[k - 1] + f[k]
  <2>1. \A k \in Dims : t[k - 1] \in Int /\ G[<<t[k - 1], k>>] = t[k - 1] + f[k]
    OBVIOUS
  <2> QED BY <1>1, <2>1
<1>3. t = [k \in 0 .. n |-> SStep(t, k)]
  <2>1. \A k \in 0 .. n : k = 0 \/ k \in Dims
    OBVIOUS
  <2> QED BY <1>0, <1>1, <1>2, <2>1, SMTT(30)
<1>4. s = [k \in 0 .. n |-> SStep(s, k)]
  <2>1. \E u : u = [k \in 0 .. n |-> SStep(u, k)]
    BY <1>3
  <2> HIDE DEF SStep
  <2> QED BY <2>1
<1>5. Dot(a, b) = s[n]
  BY DEF Dot
<1> HIDE DEF s
<1>6. s[0] = 0 /\ \A k \in Dims : s[k] = s[k - 1] + f[k]
  <2>1. \A k \in 0 .. n : s[k] = SStep(s, k)
    BY <1>4
  <2>2. \A k \in Dims : k \in 0 .. n /\ k # 0
    OBVIOUS
  <2>3. \A k \in Dims : s[k] = s[k - 1] + a[k] * b[k]
    BY <2>1, <2>2
  <2>4. s[0] = 0
    BY <2>1
  <2> HIDE DEF SStep
  <2> QED BY <1>0, <2>3, <2>4, Zenon
<1>7. \A k \in 0 .. n : s[k] \in Int
  <2>1. \A k \in 1 .. n : s[k - 1] \in Int => s[k] \in Int
    <3>1. \A k \in 1 .. n : f[k] \in Int /\ s[k] = s[k - 1] + f[k]
      BY <1>0, <1>6
    <3>2. \A x, y \in Int : x + y \in Int
      OBVIOUS
    <3> QED BY ONLY <3>1, <3>2
  <2>2. s[0] \in Int /\ n \in Nat
    BY <1>6
  <2> DEFINE T == Int
  <2> HIDE DEF T
  <2> QED BY <2>1, <2>2, RecursionKeeps DEF T
<1>8. s = [k \in 0 .. n |-> s[k]]
  BY <1>4
<1> QED BY <1>5, <1>6, <1>7, <1>8 DEF PartialSums, f

\* Sums that are bounded along every dimension are bounded.
LEMMA SumsAtMost ==
    ASSUME NEW f \in [Dims -> Int], NEW g \in [Dims -> Int], NEW h \in [Dims -> Int],
           \A k \in Dims : f[k] + g[k] <= h[k],
           NEW s, PartialSums(f, s), NEW t, PartialSums(g, t), NEW u, PartialSums(h, u)
    PROVE  s[AF_MAX_DIMS] + t[AF_MAX_DIMS] <= u[AF_MAX_DIMS]
<1> USE DimsFacts
<1> DEFINE d == [k \in 0 .. AF_MAX_DIMS |-> u[k] - (s[k] + t[k])]
<1>1. \A k \in 0 .. AF_MAX_DIMS : s[k] \in Int /\ t[k] \in Int /\ u[k] \in Int
  BY DEF PartialSums
<1>2. \A k \in 0 .. AF_MAX_DIMS : d[k] = u[k] - (s[k] + t[k])
  OBVIOUS
<1> HIDE DEF d
<1>3. d[0] \in Nat
  <2>1. s[0] = 0 /\ t[0] = 0 /\ u[0] = 0
    BY DEF PartialSums
  <2>2. d[0] = u[0] - (s[0] + t[0])
    BY <1>2
  <2> QED BY <2>1, <2>2
<1>4. ASSUME NEW k \in Dims, d[k - 1] \in Nat PROVE d[k] \in Nat
  <2>1. s[k] = s[k - 1] + f[k] /\ t[k] = t[k - 1] + g[k] /\ u[k] = u[k - 1] + h[k]
    BY DEF PartialSums
  <2>2. /\ s[k - 1] \in Int /\ t[k - 1] \in Int /\ u[k - 1] \in Int
        /\ d[k - 1] = u[k - 1] - (s[k - 1] + t[k - 1]) /\ d[k] = u[k] - (s[k] + t[k])
    BY <1>1, <1>2
  <2>3. f[k] \in Int /\ g[k] \in Int /\ h[k] \in Int /\ f[k] + g[k] <= h[k]
    OBVIOUS
  <2>4. d[k] = d[k - 1] + (h[k] - (f[k] + g[k])) /\ h[k] - (f[k] + g[k]) \in Nat
    BY ONLY <2>1, <2>2, <2>3
  <2> QED BY ONLY <1>4, <2>4
<1>5. d[AF_MAX_DIMS] \in Nat
  <2> DEFINE T == Nat
  <2> HIDE DEF T
  <2>1. d[0] \in T /\ \A k \in 1 .. AF_MAX_DIMS : d[k - 1] \in T => d[k] \in T
    BY <1>3, <1>4 DEF T
  <2>2. \A k \in 0 .. AF_MAX_DIMS : d[k] \in T
    BY <2>1, RecursionKeeps
  <2> QED BY <2>2 DEF T
<1>6. /\ s[AF_MAX_DIMS] \in Int /\ t[AF_MAX_DIMS] \in Int /\ u[AF_MAX_DIMS] \in Int
      /\ d[AF_MAX_DIMS] = u[AF_MAX_DIMS] - (s[AF_MAX_DIMS] + t[AF_MAX_DIMS])
  BY <1>1, <1>2
<1> QED BY <1>5, <1>6, SMTT(30)

\* An offset that is bounded along every dimension is bounded.
LEMMA DotsAtMost ==
    ASSUME NEW a \in [Dims -> Int], NEW b \in [Dims -> Int],
           NEW c \in [Dims -> Int], NEW d \in [Dims -> Int],
           NEW e \in [Dims -> Int], NEW f \in [Dims -> Int],
           \A k \in Dims : a[k] * b[k] + c[k] * d[k] <= e[k] * f[k]
    PROVE  Dot(a, b) + Dot(c, d) <= Dot(e, f)
<1>1. PICK s : PartialSums(Terms(a, b), s) /\ Dot(a, b) = s[AF_MAX_DIMS]
  BY Dots
<1>2. PICK t : PartialSums(Terms(c, d), t) /\ Dot(c, d) = t[AF_MAX_DIMS]
  BY Dots
<1>3. PICK u : PartialSums(Terms(e, f), u) /\ Dot(e, f) = u[AF_MAX_DIMS]
  BY Dots
<1>4. Terms(a, b) \in [Dims -> Int] /\ Terms(c, d) \in [Dims -> Int] /\ Terms(e, f) \in [Dims -> Int]
  BY TermsType
<1>5. \A k \in Dims : Terms(a, b)[k] + Terms(c, d)[k] <= Terms(e, f)[k]
  BY DEF Terms
<1> QED BY <1>1, <1>2, <1>3, <1>4, <1>5, SumsAtMost, ZenonT(30)

\* An offset is a number, and 0 for index 0.
LEMMA DotType ==
    ASSUME NEW a \in [Dims -> Int], NEW b \in [Dims -> Int]
    PROVE  Dot(a, b) \in Int /\ ((\A k \in Dims : a[k] = 0) => Dot(a, b) = 0)
<1> USE DimsFacts
<1>1. PICK s : PartialSums(Terms(a, b), s) /\ Dot(a, b) = s[AF_MAX_DIMS]
  BY Dots
<1>2. Dot(a, b) \in Int
  BY <1>1 DEF PartialSums
<1>3. ASSUME \A k \in Dims : a[k] = 0 PROVE Dot(a, b) = 0
  <2>0. \A k \in Dims : Terms(a, b)[k] = 0
    <3>1. \A y \in Int : 0 * y = 0
      OBVIOUS
    <3> QED BY <1>3, <3>1 DEF Terms
  <2>1. \A k \in 1 .. AF_MAX_DIMS : s[k - 1] \in {0} => s[k] \in {0}
    <3>1. \A k \in 1 .. AF_MAX_DIMS : s[k] = s[k - 1] + Terms(a, b)[k] /\ Terms(a, b)[k] = 0
      BY <1>1, <2>0 DEF PartialSums
    <3>2. 0 + 0 = 0
      OBVIOUS
    <3> QED BY ONLY <3>1, <3>2
  <2>2. s[0] \in {0}
    BY <1>1 DEF PartialSums
  <2> DEFINE T == {0}
  <2> HIDE DEF T
  <2>3. \A k \in 0 .. AF_MAX_DIMS : s[k] \in T
    BY <2>1, <2>2, RecursionKeeps DEF T
  <2> QED BY <1>1, <2>3 DEF T
<1> QED BY <1>2, <1>3

LastIndex(dims) == [k \in Dims |-> dims[k] - 1]
\* The largest offset of an element
Extent(dims, strides) == Dot(LastIndex(dims), strides)

\* The last index of a box
LEMMA LastIndexType ==
    ASSUME NEW dims \in DimVec
    PROVE  /\ LastIndex(dims) \in [Dims -> Nat] /\ LastIndex(dims) \in [Dims -> Int]
           /\ \A k \in Dims : LastIndex(dims)[k] = dims[k] - 1
<1>1. \A k \in Dims : dims[k] - 1 \in Nat /\ dims[k] - 1 \in Int
  BY DEF DimVec
<1> QED BY <1>1 DEF LastIndex

\* The offset of an index in a box of positive strides
LEMMA DotInBox ==
    ASSUME NEW dims \in DimVec, NEW strides \in Strides,
           NEW id \in [Dims -> Nat], \A k \in Dims : id[k] < dims[k]
    PROVE  /\ Dot(id, strides) \in Nat /\ Extent(dims, strides) \in Nat
           /\ Dot(id, strides) <= Extent(dims, strides)
<1> DEFINE zero == [k \in Dims |-> 0]
           last == LastIndex(dims)
<1>1. /\ zero \in [Dims -> Int] /\ last \in [Dims -> Int] /\ id \in [Dims -> Int]
      /\ strides \in [Dims -> Int] /\ \A k \in Dims : zero[k] = 0 /\ last[k] = dims[k] - 1
  BY LastIndexType DEF Strides
<1>2. \A a \in Nat, b \in Nat, d \in Nat \ {0} : a < d => 0 <= a * b /\ a * b <= (d - 1) * b /\ 0 * b = 0
  <2> SUFFICES ASSUME NEW a \in Nat, NEW b \in Nat, NEW d \in Nat \ {0}, a < d
               PROVE  0 <= a * b /\ a * b <= (d - 1) * b
    OBVIOUS
  <2>1. (d - 1) * b = a * b + (d - 1 - a) * b
    OBVIOUS
  <2>2. \A x, y \in Nat : x * y \in Nat
    OBVIOUS
  <2>3. a * b \in Nat /\ (d - 1 - a) * b \in Nat
    BY <2>2
  <2> QED BY <2>1, <2>3
<1> HIDE DEF zero, last
<1>3. ASSUME NEW k \in Dims
      PROVE  /\ id[k] * strides[k] + zero[k] * strides[k] <= last[k] * strides[k]
             /\ zero[k] * strides[k] + zero[k] * strides[k] <= id[k] * strides[k]
  <2>1. id[k] \in Nat /\ strides[k] \in Nat /\ dims[k] \in Nat \ {0} /\ id[k] < dims[k]
    BY DEF DimVec, Strides
  <2>2. zero[k] = 0 /\ last[k] = dims[k] - 1
    BY <1>1
  <2> DEFINE x == id[k] * strides[k]
             y == last[k] * strides[k]
             z == zero[k] * strides[k]
  <2>3. 0 <= x /\ x <= y /\ z = 0
    BY <1>2, <2>1, <2>2
  <2>4. x \in Int /\ y \in Int
    BY <2>1, <2>2
  <2> HIDE DEF x, y, z
  <2>5. x + z <= y /\ z + z <= x
    BY <2>3, <2>4
  <2> QED BY <2>5 DEF x, y, z
<1>4. Dot(id, strides) + Dot(zero, strides) <= Dot(last, strides)
  BY <1>1, <1>3, DotsAtMost
<1>5. Dot(zero, strides) + Dot(zero, strides) <= Dot(id, strides)
  BY <1>1, <1>3, DotsAtMost
<1>6. Dot(zero, strides) = 0 /\ Dot(id, strides) \in Int /\ Dot(last, strides) \in Int
  BY <1>1, DotType
<1> QED BY <1>4, <1>5, <1>6 DEF Extent, last

\* A contiguous shape reaches as far as it has elements.
LEMMA ExtentOfContiguous ==
    ASSUME NEW dims \in DimVec, NEW strides \in Strides,
           \A k \in Dims : dims[k] # 1 => strides[k] = calcStrides(dims)[k]
    PROVE  Extent(dims, strides) = elements(dims) - 1
<1> USE DimsFacts
<1> DEFINE last == LastIndex(dims)
           f == Terms(last, strides)
<1>1. last \in [Dims -> Int] /\ strides \in [Dims -> Int] /\ \A k \in Dims : last[k] = dims[k] - 1
  BY LastIndexType DEF Strides
<1> HIDE DEF last
<1>2. PICK s : PartialSums(f, s) /\ Dot(last, strides) = s[AF_MAX_DIMS]
  BY <1>1, Dots
<1>3. PICK p : /\ IsProduct(dims, p) /\ elements(dims) = p[AF_MAX_DIMS]
               /\ calcStrides(dims) = [k \in Dims |-> p[k - 1]]
  BY Products
<1>4. f \in [Dims -> Int] /\ \A k \in Dims : f[k] = (dims[k] - 1) * strides[k]
  BY <1>1, TermsType DEF Terms
<1> HIDE DEF f
<1> DEFINE g == [k \in 0 .. AF_MAX_DIMS |-> s[k] - p[k]]
<1>5. \A k \in 0 .. AF_MAX_DIMS : s[k] \in Int /\ p[k] \in Int /\ g[k] = s[k] - p[k]
  BY <1>2, <1>3 DEF PartialSums, IsProduct
<1> HIDE DEF g
<1>6. g[0] = -1
  <2>1. s[0] = 0 /\ p[0] = 1
    BY <1>2, <1>3 DEF PartialSums, IsProduct
  <2>2. g[0] = s[0] - p[0]
    BY <1>5
  <2> QED BY <2>1, <2>2
<1>7. ASSUME NEW k \in Dims, g[k - 1] = -1 PROVE g[k] = -1
  <2>1. s[k] = s[k - 1] + f[k] /\ p[k] = p[k - 1] * dims[k]
    BY <1>2, <1>3 DEF PartialSums, IsProduct
  <2>2. s[k - 1] \in Int /\ p[k - 1] \in Int /\ g[k - 1] = s[k - 1] - p[k - 1] /\ g[k] = s[k] - p[k]
    BY <1>5
  <2>3. dims[k] \in Nat /\ strides[k] \in Int /\ f[k] \in Int
    BY <1>1, <1>4 DEF DimVec
  <2>4. f[k] = p[k - 1] * dims[k] - p[k - 1]
    <3>1. CASE dims[k] = 1
      <4>1. f[k] = 0 * strides[k]
        BY <1>4, <3>1
      <4>2. \A x \in Int : 0 * x = 0 /\ x * 1 - x = 0
        OBVIOUS
      <4> QED BY <2>2, <2>3, <3>1, <4>1, <4>2
    <3>2. CASE dims[k] # 1
      <4>1. strides[k] = p[k - 1]
        BY <1>3, <3>2
      <4>2. f[k] = (dims[k] - 1) * p[k - 1]
        BY <1>4, <4>1
      <4>3. \A x, y \in Int : (x - 1) * y = y * x - y
        OBVIOUS
      <4> QED BY ONLY <2>2, <2>3, <4>2, <4>3
    <3> QED BY <3>1, <3>2
  <2> DEFINE q == p[k - 1] * dims[k]
  <2>5. q \in Int
    BY <2>2, <2>3
  <2>6. p[k] = q /\ f[k] = q - p[k - 1]
    BY <2>1, <2>4
  <2> HIDE DEF q
  <2> QED BY <1>7, <2>1, <2>2, <2>5, <2>6
<1>8. g[AF_MAX_DIMS] = -1
  <2> DEFINE T == {-1}
  <2> HIDE DEF T
  <2>1. g[0] \in T /\ \A k \in 1 .. AF_MAX_DIMS : g[k - 1] \in T => g[k] \in T
    BY <1>6, <1>7 DEF T
  <2>2. \A k \in 0 .. AF_MAX_DIMS : g[k] \in T
    BY <2>1, RecursionKeeps
  <2> QED BY <2>2 DEF T
<1>9. /\ s[AF_MAX_DIMS] \in Int /\ p[AF_MAX_DIMS] \in Int
      /\ g[AF_MAX_DIMS] = s[AF_MAX_DIMS] - p[AF_MAX_DIMS]
  BY <1>5
<1> QED BY <1>2, <1>3, <1>8, <1>9 DEF Extent, last

\* The last element of a box has an offset.
LEMMA ExtentType ==
    ASSUME NEW dims \in DimVec, NEW strides \in Strides
    PROVE  Extent(dims, strides) \in Nat
<1> DEFINE zero == [k \in Dims |-> 0]
<1>1. zero \in [Dims -> Nat] /\ \A k \in Dims : zero[k] < dims[k]
  BY DEF DimVec
<1> HIDE DEF zero
<1> QED BY <1>1, DotInBox

\* Renaming the dimensions
Renaming(p) == p \in [Dims -> Dims] /\ \A k, l \in Dims : p[k] = p[l] => k = l

\* Permuted shapes and strides are shapes and strides.
LEMMA PermuteType ==
    ASSUME NEW p, Renaming(p)
    PROVE  /\ \A s \in DimVec : Permute(p, s) \in DimVec
           /\ \A s \in Strides : Permute(p, s) \in Strides
BY DEF Renaming, Permute, DimVec, Strides

\* A vector on a set of dimensions only
Only(T, a) == [k \in Dims |-> IF k \in T THEN a[k] ELSE 0]

\* Dimension j adds its product.
Adds(T, j, a, b) == Dot(Only(T \cup {j}, a), b) = Dot(Only(T, a), b) + a[j] * b[j]

\* Every dimension does.
LEMMA AddedTerm ==
    ASSUME NEW a \in [Dims -> Int], NEW b \in [Dims -> Int], NEW T, NEW j \in Dims, j \notin T
    PROVE  Adds(T, j, a, b)
<1> USE DimsFacts
<1> DEFINE c == Only(T \cup {j}, a)
           d == Only(T, a)
           x == a[j] * b[j]
           v == Terms(c, b)
           w == Terms(d, b)
<1>1. c \in [Dims -> Int] /\ d \in [Dims -> Int] /\ x \in Int
  <2>1. \A y, z \in Int : y * z \in Int
    OBVIOUS
  <2> QED BY <2>1 DEF Only
<1>2. /\ v[j] = x /\ w[j] = 0
      /\ \A k \in Dims : k # j => v[k] = w[k]
  <2>1. c[j] = a[j] /\ d[j] = 0 /\ \A k \in Dims : k # j => c[k] = d[k]
    BY DEF Only
  <2>2. b[j] \in Int /\ \A y \in Int : 0 * y = 0
    OBVIOUS
  <2> HIDE DEF c, d
  <2> QED BY <2>1, <2>2 DEF Terms
<1> HIDE DEF c, d, x
<1>3. PICK s : PartialSums(v, s) /\ Dot(c, b) = s[AF_MAX_DIMS]
  BY <1>1, Dots
<1>4. PICK t : PartialSums(w, t) /\ Dot(d, b) = t[AF_MAX_DIMS]
  BY <1>1, Dots
<1>5. v \in [Dims -> Int] /\ w \in [Dims -> Int]
  BY <1>1, TermsType
<1> HIDE DEF v, w
<1> DEFINE g == [k \in 0 .. AF_MAX_DIMS |-> (s[k] - t[k]) - IF k < j THEN 0 ELSE x]
           Z == {0}
<1>6. \A k \in 0 .. AF_MAX_DIMS : /\ s[k] \in Int /\ t[k] \in Int
                                  /\ g[k] = (s[k] - t[k]) - IF k < j THEN 0 ELSE x
  BY <1>3, <1>4 DEF PartialSums
<1> HIDE DEF g
<1>7. g[0] = 0
  <2>1. s[0] = 0 /\ t[0] = 0 /\ 0 < j
    BY <1>3, <1>4 DEF PartialSums
  <2> QED BY <1>6, <2>1
<1>8. ASSUME NEW k \in 1 .. AF_MAX_DIMS, g[k - 1] = 0 PROVE g[k] = 0
  <2>1. k \in Dims /\ k - 1 \in 0 .. AF_MAX_DIMS /\ k \in 0 .. AF_MAX_DIMS
    OBVIOUS
  <2>2. s[k] = s[k - 1] + v[k] /\ t[k] = t[k - 1] + w[k]
    BY <1>3, <1>4, <2>1 DEF PartialSums
  <2>3. v[k] \in Int /\ w[k] \in Int /\ s[k - 1] \in Int /\ t[k - 1] \in Int
    BY <1>5, <1>6, <2>1
  <2>4. /\ g[k - 1] = (s[k - 1] - t[k - 1]) - IF k - 1 < j THEN 0 ELSE x
        /\ g[k] = (s[k] - t[k]) - IF k < j THEN 0 ELSE x
    BY <1>6, <2>1
  <2>5. k \in Int /\ j \in Int
    OBVIOUS
  <2>6. k # j => v[k] = w[k]
    BY <1>2, <2>1
  <2>7. v[j] = x /\ w[j] = 0 /\ x \in Int
    BY <1>1, <1>2
  <2>8. CASE k < j
    BY ONLY <1>8, <2>2, <2>3, <2>4, <2>5, <2>6, <2>8
  <2>9. CASE k = j
    BY ONLY <1>8, <2>2, <2>3, <2>4, <2>5, <2>7, <2>9
  <2>10. CASE k > j
    BY ONLY <1>8, <2>2, <2>3, <2>4, <2>5, <2>6, <2>7, <2>10
  <2> QED BY ONLY <2>5, <2>8, <2>9, <2>10
<1>9. \A k \in 0 .. AF_MAX_DIMS : g[k] \in Z
  <2>1. g[0] \in Z /\ \A k \in 1 .. AF_MAX_DIMS : g[k - 1] \in Z => g[k] \in Z
    BY <1>7, <1>8
  <2> HIDE DEF Z
  <2> QED BY <2>1, RecursionKeeps
<1>10. g[AF_MAX_DIMS] = 0 /\ ~ AF_MAX_DIMS < j
  BY <1>9
<1>11. Dot(c, b) = Dot(d, b) + x
  <2> DEFINE n == AF_MAX_DIMS
  <2>1. s[n] \in Int /\ t[n] \in Int /\ g[n] = (s[n] - t[n]) - x
    BY <1>6, <1>10
  <2>2. Dot(c, b) = s[n] /\ Dot(d, b) = t[n] /\ g[n] = 0 /\ x \in Int
    BY <1>1, <1>3, <1>4, <1>10
  <2> HIDE DEF n
  <2> QED BY ONLY <2>1, <2>2
<1> QED BY <1>11 DEF c, d, x, Adds

\* The dimensions may be listed in any order.
LEMMA DotRenamed ==
    ASSUME NEW a \in [Dims -> Int], NEW b \in [Dims -> Int], NEW p, Renaming(p)
    PROVE  Dot(Permute(p, a), Permute(p, b)) = Dot(a, b)
<1> USE DimsFacts
<1> DEFINE c == Permute(p, a)
           d == Permute(p, b)
           w == Terms(c, d)
           Img(k) == {p[i] : i \in 1 .. k}
           part(k) == Dot(Only(Img(k), a), b)
<1>1. \A k \in Dims : p[k] \in Dims
  BY DEF Renaming
<1>2. c \in [Dims -> Int] /\ d \in [Dims -> Int] /\ \A k \in Dims : c[k] = a[p[k]] /\ d[k] = b[p[k]]
  BY <1>1 DEF Permute
<1> HIDE DEF c, d
<1>3. w \in [Dims -> Int] /\ \A k \in Dims : w[k] = a[p[k]] * b[p[k]]
  <2>1. w \in [Dims -> Int]
    BY <1>2, TermsType
  <2>2. \A k \in Dims : w[k] = c[k] * d[k]
    BY DEF Terms
  <2>3. \A k \in Dims : c[k] = a[p[k]] /\ d[k] = b[p[k]]
    BY <1>2
  <2> HIDE DEF w
  <2> QED BY ONLY <2>1, <2>2, <2>3
<1>4. PICK s : PartialSums(w, s) /\ Dot(c, d) = s[AF_MAX_DIMS]
  BY <1>2, Dots
<1> HIDE DEF w
<1>5. part(0) = 0
  <2>1. Img(0) = {}
    OBVIOUS
  <2>2. Only(Img(0), a) \in [Dims -> Int] /\ \A k \in Dims : Only(Img(0), a)[k] = 0
    BY <2>1 DEF Only
  <2> HIDE DEF Img
  <2> QED BY <2>2, DotType
<1>6. ASSUME NEW k \in 1 .. AF_MAX_DIMS
      PROVE  part(k) = part(k - 1) + w[k]
  <2>1. k \in Dims /\ p[k] \in Dims /\ 1 .. k = (1 .. (k - 1)) \cup {k} /\ 1 .. (k - 1) \subseteq Dims
    BY <1>1
  <2>2. Img(k) = Img(k - 1) \cup {p[k]}
    BY <2>1
  <2>3. p[k] \notin Img(k - 1)
    <3>1. \A i \in 1 .. (k - 1) : i \in Dims /\ i # k
      BY <2>1
    <3> QED BY <2>1, <3>1 DEF Renaming
  <2> HIDE DEF Img
  <2>4. Dot(Only(Img(k), a), b) = Dot(Only(Img(k - 1), a), b) + a[p[k]] * b[p[k]]
    <3> DEFINE T == Img(k - 1)
               j == p[k]
    <3>1. j \in Dims /\ j \notin T /\ Img(k) = T \cup {j}
      BY <2>1, <2>2, <2>3
    <3> HIDE DEF T, j
    <3>2. Adds(T, j, a, b)
      BY <3>1, AddedTerm
    <3> QED BY <3>1, <3>2 DEF T, j, Adds
  <2> QED BY <1>3, <2>1, <2>4
<1> HIDE DEF part
<1> DEFINE g == [k \in 0 .. AF_MAX_DIMS |-> <<s[k], part(k)>>]
           Z == {y \in Int \X Int : y[1] = y[2]}
<1>7. \A k \in 0 .. AF_MAX_DIMS : g[k] = <<s[k], part(k)>>
  OBVIOUS
<1> HIDE DEF g
<1>8. g[0] \in Z
  <2>1. s[0] = 0
    BY <1>4 DEF PartialSums
  <2>2. g[0] = <<0, 0>>
    BY <1>5, <1>7, <2>1
  <2> QED BY <2>2
<1>9. ASSUME NEW k \in 1 .. AF_MAX_DIMS, g[k - 1] \in Z PROVE g[k] \in Z
  <2>1. k \in Dims /\ k - 1 \in 0 .. AF_MAX_DIMS /\ k \in 0 .. AF_MAX_DIMS
    OBVIOUS
  <2>2. g[k - 1] = <<s[k - 1], part(k - 1)>> /\ g[k] = <<s[k], part(k)>>
    BY <1>7, <2>1
  <2>3. s[k - 1] = part(k - 1) /\ s[k - 1] \in Int
    BY <1>9, <2>2
  <2>4. s[k] = s[k - 1] + w[k] /\ w[k] \in Int
    BY <1>3, <1>4, <2>1 DEF PartialSums
  <2>5. s[k] = part(k) /\ s[k] \in Int
    BY <1>6, <2>3, <2>4
  <2> QED BY <2>2, <2>5
<1>10. g[AF_MAX_DIMS] \in Z
  <2>1. \A k \in 1 .. AF_MAX_DIMS : g[k - 1] \in Z => g[k] \in Z
    BY <1>9
  <2> HIDE DEF Z
  <2> QED BY <1>8, <2>1, RecursionKeeps
<1>11. s[AF_MAX_DIMS] = part(AF_MAX_DIMS)
  BY <1>7, <1>10
<1>12. Img(AF_MAX_DIMS) = Dims
  <2>1. IsFiniteSet(Dims)
    BY FS_Interval
  <2>2. p \in Injection(Dims, Dims)
    BY DEF Renaming, Injection, IsInjective
  <2> DEFINE S == Dims
  <2>3. IsFiniteSet(S) /\ p \in Injection(S, S)
    BY <2>1, <2>2
  <2> HIDE DEF S
  <2>4. p \in Surjection(S, S)
    BY ONLY <2>3, FS_Injection
  <2>5. \A k \in Dims : \E i \in Dims : p[i] = k
    BY <2>4 DEF Surjection, S
  <2>6. Img(AF_MAX_DIMS) = {p[i] : i \in Dims}
    BY DEF Dims
  <2>7. {p[i] : i \in Dims} = Dims
    BY ONLY <1>1, <2>5
  <2> HIDE DEF Img
  <2> QED BY ONLY <2>6, <2>7
<1>13. Only(Dims, a) = a
  BY DEF Only
<1>14. part(AF_MAX_DIMS) = Dot(a, b)
  <2> HIDE DEF Img
  <2> QED BY <1>12, <1>13 DEF part
<1> QED BY <1>4, <1>11, <1>14 DEF c, d

\* The extent of a buffer whose dimensions were renamed
LEMMA ExtentRenamed ==
    ASSUME NEW dims \in DimVec, NEW strides \in Strides, NEW p, Renaming(p)
    PROVE  Extent(Permute(p, dims), Permute(p, strides)) = Extent(dims, strides)
<1> DEFINE d == Permute(p, dims)
           a == LastIndex(dims)
<1>1. d \in DimVec /\ \A k \in Dims : p[k] \in Dims /\ d[k] = dims[p[k]]
  BY PermuteType DEF Permute, Renaming
<1>2. a \in [Dims -> Int] /\ strides \in [Dims -> Int]
  BY LastIndexType DEF Strides
<1>3. LastIndex(d) = Permute(p, a)
  BY <1>1 DEF LastIndex, Permute
<1> HIDE DEF a, d
<1>4. Dot(Permute(p, a), Permute(p, strides)) = Dot(a, strides)
  BY <1>2, DotRenamed
<1> QED BY <1>3, <1>4 DEF Extent, a, d

\* The index of an element is in the box.
LEMMA UnravelInBox ==
    ASSUME NEW dims \in DimVec, NEW j \in Nat
    PROVE  /\ Unravel(j, dims) \in [Dims -> Nat]
           /\ \A k \in Dims : Unravel(j, dims)[k] < dims[k]
<1>1. \A k \in Dims : calcStrides(dims)[k] \in Nat \ {0} /\ dims[k] \in Nat \ {0}
  BY ShapeFacts DEF DimVec
<1>2. \A d, e \in Nat \ {0} : (j \div d) % e \in Nat /\ (j \div d) % e < e
  OBVIOUS
<1> QED BY <1>1, <1>2 DEF Unravel

\* A linear array is contiguous.
LEMMA LinearExtent ==
    ASSUME NEW a, a.dims \in DimVec, a.strides \in Strides, isLinear(a)
    PROVE  Extent(a.dims, a.strides) = elements(a.dims) - 1
<1> DEFINE long == {k \in Dims : a.dims[k] # 1}
           S == {1} \cup long
           n == ndims(a.dims)
<1>1. n = Max(S) /\ S \subseteq Nat /\ S # {} /\ S \in SUBSET Dims
  BY DimsFacts DEF ndims
<1>2. IsFiniteSet(S)
  <2>1. IsFiniteSet(Dims)
    BY DimsFacts, FS_Interval
  <2> HIDE DEF S
  <2> QED BY <1>1, <2>1, FS_Subset
<1>3. n \in S /\ \A k \in S : k <= n
  <2> HIDE DEF S
  <2> QED BY <1>1, <1>2, MaxOfHeights
<1>4. n \in Nat /\ \A k \in long : k \in 1 .. n /\ k \in Dims
  BY <1>1, <1>3, DimsFacts
<1> HIDE DEF n, S
<1>5. ASSUME NEW k \in long PROVE a.strides[k] = calcStrides(a.dims)[k]
  <2>1. CASE n = 1
    BY <1>4, <2>1, ShapeFacts DEF isLinear, n
  <2>2. CASE n # 1
    BY <1>4, <2>2 DEF isLinear, n
  <2> QED BY <2>1, <2>2
<1> QED BY <1>5, ExtentOfContiguous

\* The order that compressArray finds is a renaming, and so is the identity.
LEMMA CompressRenames ==
    ASSUME NEW dims
    PROVE  Renaming(compressArray(dims)) /\ Renaming(Identity)
<1> DEFINE A == {k \in Dims : dims[k] # 1}
           B == {k \in Dims : dims[k] = 1}
           m == Cardinality(A)
           n == Cardinality(B)
           a == Ascending(A)
           b == Ascending(B)
           p == compressArray(dims)
<1>1. /\ A \in SUBSET Dims /\ B \in SUBSET Dims /\ A \cup B = Dims /\ A \cap B = {}
      /\ p = a \o b
  BY DEF compressArray
<1>2. IsFiniteSet(Dims) /\ Cardinality(Dims) = AF_MAX_DIMS /\ Dims \subseteq Nat
  BY DimsFacts, FS_Interval
<1> HIDE DEF A, B, p
<1>3. IsFiniteSet(A) /\ IsFiniteSet(B) /\ A \subseteq Nat /\ B \subseteq Nat
  BY <1>1, <1>2, FS_Subset
<1>4. m \in Nat /\ n \in Nat
  BY <1>3, FS_CardinalityType
<1>5. m + n = AF_MAX_DIMS
  <2>1. Cardinality(A \cup B) = m + n - Cardinality(A \cap B)
    BY <1>3, FS_Union
  <2>2. Cardinality(A \cap B) = 0 /\ Cardinality(A \cup B) = AF_MAX_DIMS
    BY <1>1, <1>2, FS_EmptySet
  <2> HIDE DEF m, n
  <2> QED BY <1>4, <2>1, <2>2
<1>6. /\ \A i \in 1 .. m : a[i] \in A /\ \A j \in 1 .. m : a[i] = a[j] => i = j
      /\ \A i \in 1 .. n : b[i] \in B /\ \A j \in 1 .. n : b[i] = b[j] => i = j
  <2>1. \A i \in 1 .. m : a[i] \in A /\ Cardinality(UpTo(A, a[i])) = i
    BY <1>3, AscendingIn
  <2>2. \A i \in 1 .. n : b[i] \in B /\ Cardinality(UpTo(B, b[i])) = i
    BY <1>3, AscendingIn
  <2> QED BY <2>1, <2>2
<1>7. a = [i \in 1 .. m |-> a[i]] /\ b = [i \in 1 .. n |-> b[i]]
  BY DEF Ascending
<1> HIDE DEF m, n, a, b
<1>8. p = [i \in 1 .. (m + n) |-> IF i <= m THEN a[i] ELSE b[i - m]]
  <2>1. a \in Seq(Dims) /\ b \in Seq(Dims) /\ Len(a) = m /\ Len(b) = n
    <3>1. a \in [1 .. m -> Dims] /\ b \in [1 .. n -> Dims]
      BY <1>1, <1>6, <1>7
    <3> QED BY <1>4, <3>1
  <2>2. \A i \in 1 .. (m + n) : (a \o b)[i] = IF i <= m THEN a[i] ELSE b[i - m]
    BY <1>4, <2>1
  <2>3. a \o b = [i \in 1 .. (m + n) |-> (a \o b)[i]]
    <3>1. a \o b \in Seq(Dims) /\ Len(a \o b) = m + n
      BY <1>4, <2>1
    <3> DEFINE ab == a \o b
    <3>2. ab \in Seq(Dims) /\ Len(ab) = m + n
      BY <3>1
    <3> HIDE DEF ab
    <3>3. ab \in [1 .. (m + n) -> Dims]
      BY <3>2
    <3> QED BY <3>3 DEF ab
  <2> QED BY <1>1, <2>2, <2>3
<1>9. \A i \in Dims : i \in Nat /\ (i \in 1 .. m \/ (~ (i <= m) /\ i - m \in 1 .. n))
  BY <1>4, <1>5, DimsFacts
<1>10. Dims = 1 .. (m + n)
  BY <1>5, DimsFacts
<1>11. \A i \in Dims : \/ i \in 1 .. m /\ p[i] = a[i] /\ p[i] \in A
                       \/ ~ (i <= m) /\ i - m \in 1 .. n /\ p[i] = b[i - m] /\ p[i] \in B
  BY <1>4, <1>6, <1>8, <1>9, <1>10
<1>12. p \in [Dims -> Dims]
  BY <1>1, <1>8, <1>10, <1>11
<1>13. \A i, j \in Dims : p[i] = p[j] => i = j
  <2> SUFFICES ASSUME NEW i \in Dims, NEW j \in Dims, p[i] = p[j] PROVE i = j
    OBVIOUS
  <2>1. p[i] \in A => p[i] \notin B
    BY <1>1
  <2>2. CASE i \in 1 .. m /\ j \in 1 .. m /\ p[i] = a[i] /\ p[j] = a[j]
    BY <1>6, <2>2
  <2>3. CASE i - m \in 1 .. n /\ j - m \in 1 .. n /\ p[i] = b[i - m] /\ p[j] = b[j - m]
    <3>1. i - m = j - m
      BY <1>6, <2>3
    <3> QED BY <1>4, <1>9, <3>1
  <2> QED BY <1>11, <2>1, <2>2, <2>3
<1>14. Renaming(Identity)
  BY DEF Identity, Renaming
<1> QED BY <1>12, <1>13, <1>14 DEF p, Renaming

(***************************************************************************)
(* What a kernel reads.                                                    *)
(***************************************************************************)
Values == 0 .. M - 1
Buffers == [BufIds -> Seq(Values)]

\* The buffer has every element of the box.
InBuffer(D, r) == r.off + Extent(r.dims, r.strides) < Len(D[r.buf])
\* The buffer has the elements that follow the first without gaps.
Flat(D, r) == r.off + elements(r.dims) <= Len(D[r.buf])

ScalarNodes == [kind : {"scalar"}, value : Values]
BufferNodes == [kind : {"buffer"}, buf : BufIds, off : Nat, dims : DimVec, strides : Strides,
                linear : BOOLEAN, bytes : Nat]
ShiftNodes == [kind : {"shift"}, in : NodeIds, shifts : Strides]

\* Position i of a buffer
LEMMA ElementOf ==
    ASSUME NEW D \in Buffers, NEW b \in BufIds, NEW i \in Nat, i < Len(D[b])
    PROVE  D[b][1 + i] \in Values
<1>1. D[b] \in Seq(Values)
  BY DEF Buffers
<1>2. Len(D[b]) \in Nat /\ 1 + i \in 1 .. Len(D[b])
  BY <1>1
<1> QED BY <1>1, <1>2

\* An index of the box is read inside the buffer.
LEMMA ReadInBox ==
    ASSUME NEW D \in Buffers, NEW r, r.buf \in BufIds, r.off \in Nat,
           r.dims \in DimVec, r.strides \in Strides, InBuffer(D, r),
           NEW id \in [Dims -> Nat], \A k \in Dims : id[k] < r.dims[k]
    PROVE  D[r.buf][1 + r.off + Dot(id, r.strides)] \in Values
<1>1. /\ Dot(id, r.strides) \in Nat /\ Extent(r.dims, r.strides) \in Nat
      /\ Dot(id, r.strides) <= Extent(r.dims, r.strides)
  BY DotInBox
<1>2. D[r.buf] \in Seq(Values)
  BY DEF Buffers
<1> DEFINE i == r.off + Dot(id, r.strides)
<1>3. i \in Nat /\ i < Len(D[r.buf]) /\ 1 + r.off + Dot(id, r.strides) = 1 + i
  <2>1. Len(D[r.buf]) \in Nat
    BY <1>2
  <2> QED BY <1>1, <2>1 DEF InBuffer
<1> HIDE DEF i
<1> QED BY <1>3, ElementOf

\* generateBufferOffsets reads any index inside the buffer.
LEMMA ReadBufferValue ==
    ASSUME NEW D \in Buffers, NEW r \in BufferNodes, InBuffer(D, r), NEW id \in [Dims -> Nat]
    PROVE  ReadBuffer(D, r, id) \in Values
<1> DEFINE at == [k \in Dims |-> IF id[k] < r.dims[k] THEN id[k] ELSE 0]
<1>1. r.buf \in BufIds /\ r.off \in Nat /\ r.dims \in DimVec /\ r.strides \in Strides
  BY DEF BufferNodes
<1>2. \A k \in Dims : r.dims[k] \in Nat \ {0}
  BY <1>1 DEF DimVec
<1>3. at \in [Dims -> Nat] /\ \A k \in Dims : at[k] < r.dims[k]
  BY <1>2
<1>4. ReadBuffer(D, r, id) = D[r.buf][1 + r.off + Dot(at, r.strides)]
  BY DEF ReadBuffer
<1> HIDE DEF at
<1> QED BY <1>1, <1>3, <1>4, ReadInBox

\* So does generateShiftNodeOffsets, as no shift is negative.
LEMMA ReadShiftValue ==
    ASSUME NEW D \in Buffers, NEW r \in BufferNodes, InBuffer(D, r),
           NEW shifts \in Strides, NEW id \in [Dims -> Nat]
    PROVE  ReadShift(D, r, shifts, id) \in Values
<1> DEFINE at == [k \in Dims |-> circular_mod(id[k] + shifts[k], r.dims[k])]
<1>1. \A k \in Dims : r.dims[k] \in Nat /\ id[k] \in Nat /\ shifts[k] \in Nat
  BY DEF BufferNodes, DimVec, Strides
<1>2. \A k \in Dims : circular_mod(id[k] + shifts[k], r.dims[k]) \in Nat
  BY <1>1 DEF circular_mod
<1>3. at \in [Dims -> Nat] /\ ReadShift(D, r, shifts, id) = ReadBuffer(D, r, at)
  BY <1>2 DEF ReadShift
<1> HIDE DEF at
<1> QED BY <1>3, ReadBufferValue

\* A buffer node stays inside its buffer when its dimensions are renamed.
LEMMA PermutedBuffer ==
    ASSUME NEW D \in Buffers, NEW r \in BufferNodes, InBuffer(D, r), NEW p, Renaming(p)
    PROVE  PermuteBuffer(p, r) \in BufferNodes /\ InBuffer(D, PermuteBuffer(p, r))
<1> DEFINE q == PermuteBuffer(p, r)
<1>1. r.dims \in DimVec /\ r.strides \in Strides /\ r.buf \in BufIds /\ r.off \in Nat
  BY DEF BufferNodes
<1>2. Permute(p, r.dims) \in DimVec /\ Permute(p, r.strides) \in Strides
  BY <1>1, PermuteType
<1>3. q = [r EXCEPT !.dims = Permute(p, r.dims), !.strides = Permute(p, r.strides)]
  BY DEF PermuteBuffer
<1>4. /\ q \in BufferNodes /\ q.buf = r.buf /\ q.off = r.off
      /\ q.dims = Permute(p, r.dims) /\ q.strides = Permute(p, r.strides)
  BY <1>2, <1>3 DEF BufferNodes
<1>5. Extent(q.dims, q.strides) = Extent(r.dims, r.strides)
  BY <1>1, <1>4, ExtentRenamed
<1>6. Extent(q.dims, q.strides) \in Int /\ Extent(r.dims, r.strides) \in Int
  <2>1. q.dims \in DimVec /\ q.strides \in Strides
    BY <1>2, <1>4
  <2> HIDE DEF q
  <2> QED BY <1>1, <2>1, LastIndexType, DotType DEF Extent, Strides
<1>7. Len(D[r.buf]) \in Nat
  BY <1>1 DEF Buffers
<1> HIDE DEF q
<1> QED BY <1>1, <1>4, <1>5, <1>6, <1>7 DEF InBuffer, q

\* A step of the kernel depends on the values of the children only.
LEMMA KernelStepSame ==
    ASSUME NEW N, HeapOK(N), NEW D, NEW lin, NEW p, NEW j, NEW id, NEW f, NEW g, NEW n \in NodeIds,
           \A c \in ToSet(Children(N, n)) : f[c] = g[c]
    PROVE  KernelStep(N, D, lin, p, j, id, f, n) = KernelStep(N, D, lin, p, j, id, g, n)
<1> DEFINE r == N[n]
<1>1. CASE r.kind = "nary"
  <2>1. Children(N, n) = r.children
    BY <1>1 DEF Children
  <2>2. \A i \in 1 .. Len(r.children) : r.children[i] \in ToSet(Children(N, n))
    <3>1. Children(N, n) \in [1 .. Len(Children(N, n)) -> NodeIds]
      BY ChildrenOf
    <3> QED BY <2>1, <3>1 DEF ToSet
  <2>3. [i \in 1 .. Len(r.children) |-> f[r.children[i]]] = [i \in 1 .. Len(r.children) |-> g[r.children[i]]]
    BY <2>2
  <2> QED BY <1>1, <2>3 DEF KernelStep
<1>2. CASE r.kind # "nary"
  BY <1>2 DEF KernelStep
<1> QED BY <1>1, <1>2

\* A kernel computes one value for every node.
LEMMA KernelUnfold ==
    ASSUME NEW N, HeapOK(N), NEW D, NEW lin, NEW p, NEW j, NEW id
    PROVE  \E v : /\ \A n \in NodeIds : v[n] = KernelStep(N, D, lin, p, j, id, v, n)
                  /\ \A n \in NodeIds : KernelValue(N, D, lin, p, n, j, id) = v[n]
<1> DEFINE KStep(v, n) == KernelStep(N, D, lin, p, j, id, v, n)
           LowerNodes(n) == ToSet(Children(N, n))
           Done(U, f) == \A n \in NodeIds \ U : (\A c \in LowerNodes(n) : c \notin U) /\ f[n] = KStep(f, n)
           Bad == {U \in SUBSET NodeIds : \E f : Done(U, f)}
<1>1. \A n \in NodeIds : LowerNodes(n) \subseteq NodeIds
  BY BelowOf
<1>2. \A f, g : \A n \in NodeIds : (\A c \in LowerNodes(n) : f[c] = g[c]) => KStep(f, n) = KStep(g, n)
  BY KernelStepSame
<1> HIDE DEF KStep, LowerNodes
<1>3. NodeIds \in Bad
  OBVIOUS
<1>4. PICK U \in Bad : \A n \in U : U \ {n} \notin Bad
  <2>1. IsFiniteSet(NodeIds) /\ Bad \subseteq SUBSET NodeIds /\ Bad # {}
    BY <1>3, JitAssumption
  <2> HIDE DEF Bad
  <2> QED BY <2>1, LeastSubset
<1>5. U = {}
  <2> SUFFICES ASSUME U # {} PROVE FALSE
    OBVIOUS
  <2>1. PICK f : Done(U, f)
    BY <1>4
  <2>2. PICK n \in U : \A c \in LowerNodes(n) : c \notin U
    <3>1. U \subseteq NodeIds
      BY <1>4
    <3> QED BY <3>1, LowestNode DEF LowerNodes
  <2> DEFINE g == [m \in NodeIds |-> IF m = n THEN KStep(f, n) ELSE f[m]]
             V == U \ {n}
  <2>3. n \in NodeIds /\ V \in SUBSET NodeIds
    BY <1>4
  <2>4. g[n] = KStep(f, n) /\ \A m \in NodeIds : m # n => g[m] = f[m]
    BY <2>3
  <2> HIDE DEF g
  <2>5. ASSUME NEW m \in NodeIds \ V
        PROVE  (\A c \in LowerNodes(m) : c \notin V) /\ g[m] = KStep(g, m)
    <3>1. \A c \in LowerNodes(m) : c \notin U
      BY <2>1, <2>2
    <3>2. \A c \in LowerNodes(m) : f[c] = g[c]
      BY <1>1, <2>4, <3>1
    <3>3. KStep(f, m) = KStep(g, m)
      BY <1>2, <3>2
    <3>4. g[m] = KStep(f, m)
      BY <2>1, <2>4
    <3> QED BY <3>1, <3>3, <3>4
  <2>6. V \in Bad
    BY <2>3, <2>5
  <2> QED BY <1>4, <2>6
<1>6. PICK f : \A n \in NodeIds : f[n] = KStep(f, n)
  BY <1>4, <1>5
<1> DEFINE w == [n \in NodeIds |-> f[n]]
<1>7. \A n \in NodeIds : w[n] = KStep(w, n)
  <2>1. \A n \in NodeIds : w[n] = f[n]
    OBVIOUS
  <2>2. w = [n \in NodeIds |-> w[n]]
    OBVIOUS
  <2> HIDE DEF w
  <2>3. \A n \in NodeIds : KStep(f, n) = KStep(w, n)
    BY <1>1, <1>2, <2>1
  <2> QED BY <1>6, <2>1, <2>3
<1>8. w = [n \in NodeIds |-> KStep(w, n)]
  <2>1. w = [n \in NodeIds |-> w[n]]
    OBVIOUS
  <2> HIDE DEF w
  <2> QED BY <1>7, <2>1
<1> HIDE DEF w
<1> DEFINE v == CHOOSE v : v = [n \in NodeIds |-> KStep(v, n)]
<1>9. v = [n \in NodeIds |-> KStep(v, n)]
  BY <1>8
<1>10. \A n \in NodeIds : KernelValue(N, D, lin, p, n, j, id) = v[n]
  BY DEF KernelValue, KStep
<1> HIDE DEF v
<1>11. \A n \in NodeIds : v[n] = KStep(v, n)
  BY <1>9
<1> QED BY <1>10, <1>11 DEF KStep

\* The operations on values give values.
LEMMA OperationValue ==
    ASSUME NEW m \in 1 .. kMaxChildren, NEW args \in [1 .. m -> Values]
    PROVE  Operation(args) \in Values
<1>1. Len(args) = m /\ M \in Nat \ {0}
  BY JitAssumption DEF kMaxChildren
<1>2. CASE m = 1
  <2>1. args[1] \in Values
    BY <1>2
  <2> QED BY <1>1, <1>2, <2>1 DEF Operation
<1>3. CASE m = 2
  <2>1. args[1] \in Nat /\ args[2] \in Nat
    BY <1>1, <1>3 DEF Values
  <2>2. (args[1] + args[2]) % M \in Values
    BY <1>1, <2>1 DEF Values
  <2> QED BY <1>1, <1>3, <2>2 DEF Operation
<1>4. CASE m = 3
  <2>1. args[2] \in Values /\ args[3] \in Values
    BY <1>4
  <2> QED BY <1>1, <1>4, <2>1 DEF Operation
<1> QED BY <1>2, <1>3, <1>4 DEF kMaxChildren

\* If the leaves of a closed set of nodes have values, so have all of its nodes.
LEMMA KernelValues ==
    ASSUME NEW N, HeapOK(N), NEW D, NEW lin, NEW p, NEW j, NEW id,
           NEW S \in SUBSET NodeIds, Closed(N, S), \A n \in S : N[n] # NoNode,
           \A n \in S : N[n].kind # "nary" => \A v : KernelStep(N, D, lin, p, j, id, v, n) \in Values
    PROVE  \A n \in S : KernelValue(N, D, lin, p, n, j, id) \in Values
<1>1. PICK v : /\ \A n \in NodeIds : v[n] = KernelStep(N, D, lin, p, j, id, v, n)
               /\ \A n \in NodeIds : KernelValue(N, D, lin, p, n, j, id) = v[n]
  BY KernelUnfold
<1> DEFINE Bad == {n \in S : v[n] \notin Values}
<1>2. Bad = {}
  <2> SUFFICES ASSUME Bad # {} PROVE FALSE
    OBVIOUS
  <2>1. PICK n \in Bad : \A c \in ToSet(Children(N, n)) : c \notin Bad
    <3>1. Bad \subseteq NodeIds
      OBVIOUS
    <3> HIDE DEF Bad
    <3> QED BY <3>1, LowestNode
  <2>2. n \in S /\ n \in NodeIds /\ v[n] \notin Values
    BY <2>1
  <2>3. \A c \in ToSet(Children(N, n)) : v[c] \in Values
    BY <2>1, <2>2 DEF Closed
  <2> HIDE DEF Bad
  <2>4. N[n].kind = "nary"
    BY <1>1, <2>2
  <2> DEFINE ch == N[n].children
             args == [i \in 1 .. Len(ch) |-> v[ch[i]]]
  <2>5. N[n] \in NaryNodes /\ Children(N, n) = ch
    BY <2>2, <2>4, NodeKinds DEF HeapOK, Children
  <2>6. Len(ch) \in 1 .. kMaxChildren /\ ch \in [1 .. Len(ch) -> NodeIds]
    BY <2>5, NaryParts
  <2>7. \A i \in 1 .. Len(ch) : ch[i] \in ToSet(Children(N, n))
    BY <2>5, <2>6 DEF ToSet
  <2>8. args \in [1 .. Len(ch) -> Values]
    BY <2>3, <2>7
  <2>9. v[n] = Operation(args)
    BY <1>1, <2>2, <2>4 DEF KernelStep
  <2> HIDE DEF args, ch
  <2> QED BY <2>2, <2>6, <2>8, <2>9, OperationValue
<1> QED BY <1>1, <1>2

(***************************************************************************)
(* Arrays, nodes and buffers that fit together.                            *)
(***************************************************************************)

\* The nodes that shifts read
ShiftInputs(N) == {N[m].in : m \in {n \in NodeIds : N[n].kind = "shift"}}

\* Leaves read inside their buffers.  What a shift reads is no part of a tree,
\* so that removeEmptyDimensions may leave it with other dimensions; any other
\* linear buffer may be read with the index of the output.
NodeFits(N, D, n) ==
    /\ N[n].kind = "scalar" => N[n] \in ScalarNodes
    /\ N[n].kind = "shift" => N[n] \in ShiftNodes
    /\ N[n].kind = "buffer" => /\ N[n] \in BufferNodes /\ InBuffer(D, N[n])
                               /\ N[n].linear /\ n \notin ShiftInputs(N) => Flat(D, N[n])
    /\ N[n].kind = "nary" => \A i \in 1 .. Len(N[n].children) : N[n].children[i] \notin ShiftInputs(N)
HeapFits(N, D) == \A n \in NodeIds : NodeFits(N, D, n)

\* The strides of a view are at least those of the array it is a view of.
StridesCover(a) == \A k \in Dims : a.dims[k] > 1 => calcStrides(a.data_dims)[k] <= a.strides[k]

Arrays == [dims : Shapes, strides : Strides, off : Nat, buf : BufIds \cup {None},
           node : NodeIds \cup {None}, data_dims : DimVec]
ArrayFits(a, N, D) ==
    /\ a \in Arrays
    /\ isReady(a) => a.buf \in BufIds /\ InBuffer(D, a) /\ StridesCover(a)
    /\ ~ isReady(a) => a.buf = None /\ a.node \notin ShiftInputs(N)

Fits(A, N, D) ==
    /\ D \in Buffers
    /\ \A h \in Handles : A[h] = NoArray \/ ArrayFits(A[h], N, D)
    /\ HeapFits(N, D)

\* A tree is in every closed set that has its root.
LEMMA TreeWithin ==
    ASSUME NEW N, HeapOK(N), NEW S \in SUBSET NodeIds, Closed(N, S), NEW n \in S
    PROVE  Tree(N, n) \subseteq S
<1> DEFINE Bad == {x \in S : ~ (Tree(N, x) \subseteq S)}
<1>1. Bad = {}
  <2> SUFFICES ASSUME Bad # {} PROVE FALSE
    OBVIOUS
  <2>1. PICK x \in Bad : \A c \in ToSet(Children(N, x)) : c \notin Bad
    <3>1. Bad \subseteq NodeIds
      OBVIOUS
    <3> HIDE DEF Bad
    <3> QED BY <3>1, LowestNode
  <2>2. \A c \in ToSet(Children(N, x)) : Tree(N, c) \subseteq S
    BY <2>1 DEF Closed
  <2>3. Tree(N, x) = {x} \cup UNION {Tree(N, c) : c \in ToSet(Children(N, x))}
    BY <2>1, TreeUnfold
  <2> QED BY <2>1, <2>2, <2>3
<1> QED BY <1>1

\* What no shift reads is closed: operands are none of it.
LEMMA NotShifted ==
    ASSUME NEW N, HeapOK(N), NEW D, HeapFits(N, D)
    PROVE  /\ Closed(N, NodeIds \ ShiftInputs(N))
           /\ \A n \in NodeIds \ ShiftInputs(N) : Tree(N, n) \subseteq NodeIds \ ShiftInputs(N)
<1> DEFINE S == NodeIds \ ShiftInputs(N)
<1>1. Closed(N, S)
  <2> SUFFICES ASSUME NEW x \in S, NEW c \in ToSet(Children(N, x)) PROVE c \in S
    BY DEF Closed
  <2>1. c \in NodeIds
    BY BelowOf
  <2>2. /\ Children(N, x) \in [1 .. Len(Children(N, x)) -> NodeIds]
        /\ Len(Children(N, x)) \in Nat
    BY ChildrenOf DEF kMaxChildren
  <2>3. PICK i \in 1 .. Len(Children(N, x)) : c = Children(N, x)[i]
    BY <2>2 DEF ToSet
  <2>4. N[x].kind = "nary"
    <3>1. SUFFICES ASSUME N[x].kind # "nary" PROVE FALSE
      OBVIOUS
    <3>2. Children(N, x) = <<>>
      BY <3>1 DEF Children
    <3> QED BY <2>3, <3>2
  <2>5. Children(N, x) = N[x].children
    BY <2>4 DEF Children
  <2>6. N[x].children[i] \notin ShiftInputs(N)
    BY <2>3, <2>4, <2>5 DEF HeapFits, NodeFits
  <2> QED BY <2>1, <2>3, <2>5, <2>6
<1>2. S \in SUBSET NodeIds
  OBVIOUS
<1> HIDE DEF S
<1>3. \A n \in S : Tree(N, n) \subseteq S
  BY <1>1, <1>2, TreeWithin
<1> QED BY <1>1, <1>3 DEF S

\* The elements of an array whose indices are all in its buffer
LEMMA ReadValues ==
    ASSUME NEW D \in Buffers, NEW a, a.buf \in BufIds, a.dims \in DimVec, a.off \in Int,
           \A id \in [Dims -> Nat] : (\A k \in Dims : id[k] < a.dims[k]) =>
               /\ Dot(id, a.strides) \in Int /\ a.off + Dot(id, a.strides) \in Nat
               /\ a.off + Dot(id, a.strides) < Len(D[a.buf])
    PROVE  Read(D, a) \in Seq(Values) /\ Len(Read(D, a)) = elements(a.dims)
<1> DEFINE n == elements(a.dims)
           At(j) == D[a.buf][1 + a.off + Dot(Unravel(j, a.dims), a.strides)]
<1>1. Read(D, a) = [j \in 1 .. n |-> At(j - 1)]
  BY DEF Read, Fill
<1>2. n \in Nat
  BY ShapeFacts
<1>3. \A j \in Nat : At(j) \in Values
  <2> SUFFICES ASSUME NEW j \in Nat PROVE At(j) \in Values
    OBVIOUS
  <2> DEFINE d == Dot(Unravel(j, a.dims), a.strides)
  <2>1. d \in Int /\ a.off + d \in Nat /\ a.off + d < Len(D[a.buf])
    BY UnravelInBox
  <2> HIDE DEF d
  <2>2. D[a.buf][1 + (a.off + d)] \in Values /\ 1 + (a.off + d) = 1 + a.off + d
    BY <2>1, ElementOf
  <2> QED BY <2>2 DEF d
<1> HIDE DEF n, At
<1>4. \A j \in 1 .. n : j - 1 \in Nat
  BY <1>2
<1>5. Read(D, a) \in [1 .. n -> Values]
  BY <1>1, <1>3, <1>4
<1> QED BY <1>2, <1>5 DEF n

\* An evaluated array is read inside its buffer.
LEMMA ReadReady ==
    ASSUME NEW D \in Buffers, NEW N, NEW a, ArrayFits(a, N, D), isReady(a)
    PROVE  Read(D, a) \in Seq(Values) /\ Len(Read(D, a)) = elements(a.dims)
<1>1. /\ a.buf \in BufIds /\ a.dims \in DimVec /\ a.off \in Nat /\ a.strides \in Strides
      /\ InBuffer(D, a)
  BY JitAssumption DEF ArrayFits, Arrays, DimVec
<1>2. Len(D[a.buf]) \in Nat /\ Extent(a.dims, a.strides) \in Nat
  <2>1. Extent(a.dims, a.strides) \in Nat
    BY <1>1, ExtentType
  <2> QED BY <1>1, <2>1 DEF Buffers
<1>3. ASSUME NEW id \in [Dims -> Nat], \A k \in Dims : id[k] < a.dims[k]
      PROVE  /\ Dot(id, a.strides) \in Int /\ a.off + Dot(id, a.strides) \in Nat
             /\ a.off + Dot(id, a.strides) < Len(D[a.buf])
  <2>1. Dot(id, a.strides) \in Nat /\ Dot(id, a.strides) <= Extent(a.dims, a.strides)
    BY <1>1, <1>3, DotInBox
  <2> QED BY <1>1, <1>2, <2>1 DEF InBuffer
<1> QED BY <1>1, <1>3, ReadValues

\* What removeEmptyDimensions leaves fits.
LEMMA PermutedFits ==
    ASSUME NEW N, HeapOK(N), NEW D \in Buffers, HeapFits(N, D), NEW nodes \in SUBSET NodeIds,
           NEW p, Renaming(p)
    PROVE  LET after == removeEmptyDimensions(N, p, nodes)
           IN  /\ HeapFits(after, D) /\ ShiftInputs(after) = ShiftInputs(N)
               /\ \A n \in NodeIds : n \notin ShiftInputs(N) => after[n] = N[n]
<1> DEFINE after == removeEmptyDimensions(N, p, nodes)
<1>1. ASSUME NEW n \in NodeIds
      PROVE  \/ after[n] = N[n]
             \/ n \in ShiftInputs(N) /\ N[n].kind = "buffer" /\ after[n] = PermuteBuffer(p, N[n])
  <2>1. CASE \E m \in nodes : N[m].kind = "shift" /\ N[m].in = n
    <3>1. after[n] = PermuteBuffer(p, N[n])
      BY <2>1 DEF removeEmptyDimensions
    <3>2. n \in ShiftInputs(N) /\ N[n].kind = "buffer"
      BY <2>1 DEF ShiftInputs, HeapOK
    <3> QED BY <3>1, <3>2
  <2>2. CASE ~ \E m \in nodes : N[m].kind = "shift" /\ N[m].in = n
    BY <2>2 DEF removeEmptyDimensions
  <2> QED BY <2>1, <2>2
<1> HIDE DEF after
<1>2. ASSUME NEW n \in NodeIds, after[n] # N[n]
      PROVE  after[n] \in BufferNodes /\ InBuffer(D, after[n]) /\ n \in ShiftInputs(N) /\ N[n].kind = "buffer"
  <2>1. n \in ShiftInputs(N) /\ N[n].kind = "buffer" /\ after[n] = PermuteBuffer(p, N[n])
    BY <1>1, <1>2
  <2>2. N[n] \in BufferNodes /\ InBuffer(D, N[n])
    BY <2>1 DEF HeapFits, NodeFits
  <2> QED BY <2>1, <2>2, PermutedBuffer
<1>3. \A n \in NodeIds : after[n].kind = "shift" <=> N[n].kind = "shift"
  BY <1>2 DEF BufferNodes
<1>4. \A n \in NodeIds : N[n].kind = "shift" => after[n] = N[n]
  BY <1>2 DEF BufferNodes
<1>5. ShiftInputs(after) = ShiftInputs(N)
  BY <1>3, <1>4 DEF ShiftInputs
<1>6. ASSUME NEW n \in NodeIds PROVE NodeFits(after, D, n)
  <2>1. CASE after[n] = N[n]
    BY <1>5, <2>1 DEF NodeFits, HeapFits
  <2>2. CASE after[n] # N[n]
    <3>1. after[n] \in BufferNodes /\ InBuffer(D, after[n]) /\ n \in ShiftInputs(after)
      BY <1>2, <1>5, <2>2
    <3>2. after[n].kind = "buffer"
      BY <3>1 DEF BufferNodes
    <3> QED BY <3>1, <3>2 DEF NodeFits
  <2> QED BY <2>1, <2>2
<1> QED BY <1>1, <1>5, <1>6 DEF HeapFits, after

\* A kernel reads inside the buffers, so that it has a value for every node of
\* the trees.
LEMMA KernelReads ==
    ASSUME NEW N, HeapOK(N), NEW D \in Buffers, HeapFits(N, D), NEW dims \in DimVec,
           NEW nodes \in SUBSET NodeIds, nodes \cap ShiftInputs(N) = {}, Closed(N, nodes),
           \A n \in nodes : N[n] # NoNode,
           NEW lin, lin => \A n \in nodes : NodeIsLinear(N[n], dims), NEW p, Renaming(p),
           NEW j \in Nat, j < elements(dims), NEW id \in [Dims -> Nat]
    PROVE  \A n \in nodes : KernelValue(N, D, lin, p, n, j, id) \in Values
<1>1. ASSUME NEW n \in nodes, N[n].kind # "nary", NEW v
      PROVE  KernelStep(N, D, lin, p, j, id, v, n) \in Values
  <2> DEFINE r == N[n]
  <2>1. NodeFits(N, D, n) /\ r.kind \in {"scalar", "buffer", "shift"}
    <3>1. NodeOK(r) /\ r # NoNode
      BY DEF HeapOK
    <3> QED BY <1>1, <3>1, NodeKinds DEF HeapFits
  <2>2. CASE r.kind = "scalar"
    <3>1. r.value \in Values
      BY <2>1, <2>2 DEF NodeFits, ScalarNodes
    <3> QED BY <2>2, <3>1 DEF KernelStep
  <2>3. CASE r.kind = "buffer"
    <3>1. r \in BufferNodes /\ InBuffer(D, r)
      BY <2>1, <2>3 DEF NodeFits
    <3>2. CASE lin
      <4>1. NodeIsLinear(r, dims)
        BY <3>2
      <4>2. r.linear /\ r.dims = dims /\ n \notin ShiftInputs(N)
        BY <2>3, <4>1 DEF NodeIsLinear
      <4>3. r.off + elements(dims) <= Len(D[r.buf])
        BY <2>1, <2>3, <4>2 DEF NodeFits, Flat
      <4>4. r.off \in Nat /\ r.buf \in BufIds /\ elements(dims) \in Nat
        BY <3>1, ShapeFacts DEF BufferNodes
      <4>5. Len(D[r.buf]) \in Nat
        BY <4>4 DEF Buffers
      <4> DEFINE b == r.buf
                 o == r.off
      <4>6. o + j \in Nat /\ o + j < Len(D[b]) /\ 1 + (o + j) = 1 + o + j
        BY <4>3, <4>4, <4>5, SMTT(30)
      <4>7. D[b][1 + (o + j)] \in Values
        BY <4>4, <4>6, ElementOf
      <4>8. KernelStep(N, D, lin, p, j, id, v, n) = D[b][1 + o + j]
        BY <2>3, <3>2 DEF KernelStep
      <4> QED BY <4>6, <4>7, <4>8
    <3>3. CASE ~ lin
      <4>1. PermuteBuffer(p, r) \in BufferNodes /\ InBuffer(D, PermuteBuffer(p, r))
        BY <3>1, PermutedBuffer
      <4>2. ReadBuffer(D, PermuteBuffer(p, r), id) \in Values
        BY <4>1, ReadBufferValue
      <4> QED BY <2>3, <3>3, <4>2 DEF KernelStep
    <3> QED BY <3>2, <3>3
  <2>4. CASE r.kind = "shift"
    <3>1. r \in ShiftNodes /\ r.in \in NodeIds /\ N[r.in].kind = "buffer"
      BY <2>1, <2>4 DEF NodeFits, HeapOK
    <3>2. N[r.in] \in BufferNodes /\ InBuffer(D, N[r.in])
      BY <3>1 DEF HeapFits, NodeFits
    <3>3. Permute(p, r.shifts) \in Strides
      BY <3>1, PermuteType DEF ShiftNodes
    <3>4. ReadShift(D, N[r.in], Permute(p, r.shifts), id) \in Values
      BY <3>2, <3>3, ReadShiftValue
    <3> QED BY <2>4, <3>4 DEF KernelStep
  <2> QED BY <2>1, <2>2, <2>3, <2>4
<1> QED BY <1>1, KernelValues

\* An evaluation gives every root the elements of its shape, and the heap it
\* leaves fits.
LEMMA EvalFits ==
    ASSUME NEW N, HeapOK(N), NEW D \in Buffers, HeapFits(N, D), NEW roots \in SUBSET NodeIds,
           \A n \in roots : N[n] # NoNode /\ n \notin ShiftInputs(N), NEW dims \in DimVec
    PROVE  LET e == evalNodes(N, D, roots, dims)
           IN  /\ HeapFits(e.nodes, D) /\ ShiftInputs(e.nodes) = ShiftInputs(N)
               /\ \A r \in roots : e.out[r] \in Seq(Values) /\ Len(e.out[r]) = elements(dims)
<1> DEFINE nodes == UNION {Tree(N, r) : r \in roots}
           lin == \A n \in nodes : NodeIsLinear(N[n], dims)
           p == IF ~ lin /\ EmptyColumns(dims) THEN compressArray(dims) ELSE Identity
           after == IF p = Identity THEN N ELSE removeEmptyDimensions(N, p, nodes)
           At(r, j) == KernelValue(after, D, lin, p, r, j, Permute(p, Unravel(j, dims)))
           e == evalNodes(N, D, roots, dims)
<1>1. /\ nodes \in SUBSET NodeIds /\ Closed(N, nodes) /\ \A n \in nodes : N[n] # NoNode
      /\ nodes \cap ShiftInputs(N) = {} /\ roots \subseteq nodes
  <2>1. \A r \in roots : /\ r \in Tree(N, r) /\ Tree(N, r) \subseteq NodeIds
                         /\ \A m \in Tree(N, r) : N[m] # NoNode
                         /\ Closed(N, Tree(N, r))
    BY TreeClosed
  <2>2. \A r \in roots : Tree(N, r) \subseteq NodeIds \ ShiftInputs(N)
    BY NotShifted
  <2>3. Closed(N, nodes)
    BY <2>1 DEF Closed
  <2> QED BY <2>1, <2>2, <2>3
<1>2. Renaming(p)
  BY CompressRenames
<1>3. e = [nodes |-> after, out |-> [r \in roots |-> [j \in 1 .. elements(dims) |-> At(r, j - 1)]]]
  BY DEF evalNodes, Fill
<1> HIDE DEF nodes, p
<1>4. /\ HeapFits(after, D) /\ ShiftInputs(after) = ShiftInputs(N)
      /\ \A n \in NodeIds : n \notin ShiftInputs(N) => after[n] = N[n]
  BY <1>1, <1>2, PermutedFits
<1>5. HeapOK(after)
  <2>1. after = e.nodes
    BY <1>3
  <2> HIDE DEF after
  <2> QED BY <2>1, EvalKeepsHeap
<1> HIDE DEF after, e
<1>6. \A n \in nodes : after[n] = N[n]
  BY <1>1, <1>4
<1>7. Closed(after, nodes)
  <2>1. \A n \in nodes : Children(after, n) = Children(N, n)
    BY <1>6 DEF Children
  <2> QED BY <1>1, <2>1 DEF Closed
<1>8. lin => \A n \in nodes : NodeIsLinear(after[n], dims)
  BY <1>6
<1>9. (\A n \in nodes : after[n] # NoNode) /\ nodes \cap ShiftInputs(after) = {}
  BY <1>1, <1>4, <1>6
<1> HIDE DEF lin
<1>10. elements(dims) \in Nat
  BY ShapeFacts
<1>11. \A r \in roots : \A j \in 1 .. elements(dims) : At(r, j - 1) \in Values
  <2> SUFFICES ASSUME NEW r \in roots, NEW j \in 1 .. elements(dims) PROVE At(r, j - 1) \in Values
    OBVIOUS
  <2> DEFINE i == j - 1
             id == Permute(p, Unravel(i, dims))
  <2>1. i \in Nat /\ i < elements(dims)
    BY <1>10
  <2>2. id \in [Dims -> Nat]
    <3>1. Unravel(i, dims) \in [Dims -> Nat]
      BY <2>1, UnravelInBox
    <3> QED BY <1>2, <3>1 DEF Permute, Renaming
  <2> HIDE DEF i, id
  <2>3. \A n \in nodes : KernelValue(after, D, lin, p, n, i, id) \in Values
    BY <1>1, <1>2, <1>4, <1>5, <1>7, <1>8, <1>9, <2>1, <2>2, KernelReads
  <2> QED BY <1>1, <2>3 DEF i, id
<1> HIDE DEF At
<1>12. ASSUME NEW r \in roots PROVE e.out[r] \in Seq(Values) /\ Len(e.out[r]) = elements(dims)
  <2>1. e.out[r] = [j \in 1 .. elements(dims) |-> At(r, j - 1)]
    BY <1>3
  <2>2. e.out[r] \in [1 .. elements(dims) -> Values]
    BY <1>11, <2>1
  <2> QED BY <1>10, <2>2
<1>13. e.nodes = after
  BY <1>3
<1> QED BY <1>4, <1>12, <1>13 DEF e

\* Buffers that change nothing an array or a node has keep the fit.
LEMMA KeepBuffers ==
    ASSUME NEW A, NEW N, NEW D, Fits(A, N, D), NEW D2 \in Buffers,
           \A b \in BufIds : D[b] # <<>> => D2[b] = D[b]
    PROVE  Fits(A, N, D2)
<1>1. D \in Buffers
  BY DEF Fits
<1>2. ASSUME NEW r, r.buf \in BufIds, r.off \in Nat, r.dims \in DimVec, r.strides \in Strides,
             InBuffer(D, r)
      PROVE  D2[r.buf] = D[r.buf]
  <2>1. Extent(r.dims, r.strides) \in Nat
    BY <1>2, ExtentType
  <2>2. Len(D[r.buf]) # 0
    BY <1>2, <2>1 DEF InBuffer
  <2>3. D[r.buf] # <<>>
    BY <2>2
  <2> QED BY <1>2, <2>3
<1>3. ASSUME NEW n \in NodeIds PROVE NodeFits(N, D2, n)
  <2>1. NodeFits(N, D, n)
    BY DEF Fits, HeapFits
  <2>2. CASE N[n].kind = "buffer"
    <3>1. N[n] \in BufferNodes /\ InBuffer(D, N[n])
      BY <2>1, <2>2 DEF NodeFits
    <3>2. D2[N[n].buf] = D[N[n].buf]
      BY <1>2, <3>1 DEF BufferNodes
    <3> QED BY <2>1, <2>2, <3>2 DEF NodeFits, InBuffer, Flat
  <2>3. CASE N[n].kind # "buffer"
    BY <2>1, <2>3 DEF NodeFits
  <2> QED BY <2>2, <2>3
<1>4. ASSUME NEW a, ArrayFits(a, N, D) PROVE ArrayFits(a, N, D2)
  <2>1. CASE isReady(a)
    <3>1. /\ a.buf \in BufIds /\ a.off \in Nat /\ a.dims \in DimVec /\ a.strides \in Strides
          /\ InBuffer(D, a)
      BY <1>4, <2>1, JitAssumption DEF ArrayFits, Arrays, DimVec
    <3>2. D2[a.buf] = D[a.buf]
      BY <1>2, <3>1
    <3> QED BY <1>4, <2>1, <3>2 DEF ArrayFits, InBuffer
  <2>2. CASE ~ isReady(a)
    BY <1>4, <2>2 DEF ArrayFits
  <2> QED BY <2>1, <2>2
<1> QED BY <1>3, <1>4 DEF Fits, HeapFits

\* New nodes that fit where there was none
LEMMA AddFits ==
    ASSUME NEW A, NEW N, HeapOK(N), NEW D, Fits(A, N, D), \A h \in Handles : Ref(N, A[h].node),
           NEW N2, \A n \in NodeIds : N[n] # NoNode => N2[n] = N[n],
           \A n \in NodeIds : N[n] = NoNode => NodeFits(N2, D, n),
           \A n \in NodeIds : N[n] = NoNode /\ N2[n].kind = "shift" => N[N2[n].in] = NoNode
    PROVE  Fits(A, N2, D)
<1>1. \A n \in NodeIds : N[n] # NoNode /\ n \notin ShiftInputs(N) => n \notin ShiftInputs(N2)
  BY DEF ShiftInputs
<1>2. \A n \in NodeIds : n \notin ShiftInputs(N2) => n \notin ShiftInputs(N)
  <2>1. \A m \in NodeIds : N[m].kind = "shift" => N2[m] = N[m]
    BY DEF NoNode
  <2> QED BY <2>1 DEF ShiftInputs
<1>3. ASSUME NEW n \in NodeIds, N[n] # NoNode PROVE NodeFits(N2, D, n)
  <2>1. NodeFits(N, D, n) /\ N2[n] = N[n]
    BY <1>3 DEF Fits, HeapFits
  <2>2. CASE N[n].kind = "nary"
    <3>1. \A i \in 1 .. Len(N[n].children) :
            /\ N[n].children[i] \in NodeIds /\ N[N[n].children[i]] # NoNode
            /\ N[n].children[i] \notin ShiftInputs(N)
      <4>1. Children(N, n) = N[n].children
        BY <2>2 DEF Children
      <4>2. \A i \in 1 .. Len(N[n].children) : N[n].children[i] \in NodeIds
        BY <4>1, ChildrenOf
      <4> QED BY <2>1, <2>2, <4>2 DEF NodeFits, HeapOK
    <3> QED BY <1>1, <2>1, <2>2, <3>1 DEF NodeFits
  <2>3. CASE N[n].kind # "nary"
    BY <1>2, <2>1, <2>3 DEF NodeFits
  <2> QED BY <2>2, <2>3
<1>4. ASSUME NEW h \in Handles, ArrayFits(A[h], N, D) PROVE ArrayFits(A[h], N2, D)
  <2>1. CASE isReady(A[h])
    BY <1>4, <2>1 DEF ArrayFits
  <2>2. CASE ~ isReady(A[h])
    <3>1. A[h].node \in NodeIds /\ N[A[h].node] # NoNode
      BY <2>2 DEF Ref, isReady
    <3> QED BY <1>1, <1>4, <2>2, <3>1 DEF ArrayFits
  <2> QED BY <2>1, <2>2
<1> QED BY <1>3, <1>4 DEF Fits, HeapFits

\* Another heap in which the same nodes are read by shifts
LEMMA SameShifts ==
    ASSUME NEW A, NEW N, NEW D, Fits(A, N, D), NEW N2, HeapFits(N2, D), ShiftInputs(N2) = ShiftInputs(N)
    PROVE  Fits(A, N2, D)
BY DEF Fits, ArrayFits

\* What Settle leaves fits.
LEMMA SettleFits ==
    ASSUME NEW A, NEW N, HeapOK(N), NEW D, Fits(A, N, D), NEW root,
           \A h \in Handles : Ref(N, A[h].node), Ref(N, root), root \notin ShiftInputs(N),
           Settle(A, N, D, root)
    PROVE  /\ Fits(arr', node', data') /\ root \notin ShiftInputs(node')
           /\ \A b \in BufIds : data'[b] \in {D[b], <<>>}
<1> DEFINE roots == ({A[h].node : h \in Handles} \cup {root}) \ {None}
           nodes == UNION {Tree(N, n) : n \in roots}
           shifts == {m \in nodes : N[m].kind = "shift"}
           kept == nodes \cup {N[n].in : n \in shifts}
           used == {A[h].buf : h \in Handles} \cup {N[n].buf : n \in {m \in kept : N[m].kind = "buffer"}}
<1>1. /\ arr' = A /\ node' = [n \in NodeIds |-> IF n \in kept THEN N[n] ELSE NoNode]
      /\ data' = [b \in BufIds |-> IF b \in used THEN D[b] ELSE <<>>]
  BY DEF Settle, Kept
<1>2. \A n \in roots : n \in NodeIds /\ N[n] # NoNode /\ n \notin ShiftInputs(N)
  <2> SUFFICES ASSUME NEW n \in roots PROVE n \in NodeIds /\ N[n] # NoNode /\ n \notin ShiftInputs(N)
    OBVIOUS
  <2>1. CASE n = root
    BY <2>1 DEF Ref
  <2>2. ASSUME NEW h \in Handles, n = A[h].node
        PROVE  n \in NodeIds /\ N[n] # NoNode /\ n \notin ShiftInputs(N)
    <3>1. n # None /\ n \in NodeIds /\ N[n] # NoNode
      BY <2>2 DEF Ref
    <3>2. A[h] # NoArray /\ ~ isReady(A[h])
      BY <2>2, <3>1 DEF NoArray, isReady
    <3> QED BY <2>2, <3>1, <3>2 DEF Fits, ArrayFits
  <2> QED BY <2>1, <2>2
<1>3. nodes \in SUBSET (NodeIds \ ShiftInputs(N))
  <2>1. HeapFits(N, D)
    BY DEF Fits
  <2>2. \A n \in roots : Tree(N, n) \subseteq NodeIds \ ShiftInputs(N)
    <3> HIDE DEF roots
    <3> QED BY <1>2, <2>1, NotShifted
  <2> HIDE DEF roots
  <2> QED BY <2>2
<1> HIDE DEF roots, nodes
<1>4. \A n \in NodeIds : node'[n] = IF n \in kept THEN N[n] ELSE NoNode
  BY <1>1
<1>5. \A b \in BufIds : data'[b] = IF b \in used THEN D[b] ELSE <<>>
  BY <1>1
<1>6. \A h \in Handles : A[h].buf \in used
  OBVIOUS
<1>7. \A n \in kept : N[n].kind = "buffer" => N[n].buf \in used
  OBVIOUS
<1>8. \A n \in kept : n \notin nodes => \E m \in nodes : m \in kept /\ N[m].kind = "shift" /\ N[m].in = n
  OBVIOUS
<1>9. nodes \subseteq kept
  OBVIOUS
<1> HIDE DEF kept, used
<1>10. ShiftInputs(node') \subseteq ShiftInputs(N)
  BY <1>4 DEF ShiftInputs, NoNode
<1>11. \A n \in NodeIds : n \in kept /\ n \in ShiftInputs(N) => n \in ShiftInputs(node')
  <2> SUFFICES ASSUME NEW n \in NodeIds, n \in kept, n \in ShiftInputs(N) PROVE n \in ShiftInputs(node')
    OBVIOUS
  <2>1. PICK m \in nodes : m \in kept /\ N[m].kind = "shift" /\ N[m].in = n
    BY <1>3, <1>8
  <2>2. m \in NodeIds /\ node'[m] = N[m]
    BY <1>3, <1>4, <2>1
  <2> QED BY <2>1, <2>2 DEF ShiftInputs
<1>12. ASSUME NEW n \in NodeIds PROVE NodeFits(node', data', n)
  <2>1. CASE n \notin kept
    BY <1>4, <2>1 DEF NodeFits, NoNode
  <2>2. CASE n \in kept
    <3>1. node'[n] = N[n] /\ NodeFits(N, D, n)
      BY <1>4, <2>2 DEF Fits, HeapFits
    <3>2. CASE N[n].kind = "buffer"
      <4>1. N[n].buf \in used /\ N[n].buf \in BufIds
        BY <1>7, <2>2, <3>1, <3>2 DEF NodeFits, BufferNodes
      <4>2. data'[N[n].buf] = D[N[n].buf]
        BY <1>5, <4>1
      <4>3. n \notin ShiftInputs(node') => n \notin ShiftInputs(N)
        BY <1>11, <2>2
      <4> QED BY <3>1, <3>2, <4>2, <4>3 DEF NodeFits, InBuffer, Flat
    <3>3. CASE N[n].kind # "buffer"
      BY <1>10, <3>1, <3>3 DEF NodeFits
    <3> QED BY <3>2, <3>3
  <2> QED BY <2>1, <2>2
<1>13. ASSUME NEW h \in Handles, ArrayFits(A[h], N, D) PROVE ArrayFits(A[h], node', data')
  <2>1. CASE isReady(A[h])
    <3>1. data'[A[h].buf] = D[A[h].buf]
      BY <1>5, <1>6, <1>13, <2>1 DEF ArrayFits
    <3> QED BY <1>13, <2>1, <3>1 DEF ArrayFits, InBuffer
  <2>2. CASE ~ isReady(A[h])
    BY <1>10, <1>13, <2>2 DEF ArrayFits
  <2> QED BY <2>1, <2>2
<1>14. data' \in Buffers
  <2>1. D \in Buffers
    BY DEF Fits
  <2>2. \A b \in BufIds : D[b] \in Seq(Values) /\ <<>> \in Seq(Values)
    BY <2>1 DEF Buffers
  <2> QED BY <1>1, <2>2 DEF Buffers
<1>15. Fits(arr', node', data')
  BY <1>1, <1>12, <1>13, <1>14 DEF Fits, HeapFits
<1> QED BY <1>5, <1>10, <1>15

(***************************************************************************)
(* Free buffers.                                                           *)
(***************************************************************************)

\* There are finitely many free buffers.
LEMMA FreeBufCount == Cardinality(FreeBufs) \in Nat /\ IsFiniteSet(FreeBufs)
<1>1. FreeBufs \subseteq BufIds /\ IsFiniteSet(BufIds)
  BY JitAssumption DEF FreeBufs
<1> QED BY <1>1, FS_Subset, FS_CardinalityType

\* A fresh buffer is free, and fresh buffers differ.
LEMMA FreshBuf ==
    ASSUME NEW i \in 1 .. Cardinality(FreeBufs)
    PROVE  /\ FreshBufs[i] \in BufIds /\ data[FreshBufs[i]] = <<>> /\ FreshBufs[i] \in FreeBufs
           /\ \A j \in 1 .. Cardinality(FreeBufs) : FreshBufs[j] = FreshBufs[i] => j = i
<1>1. FreeBufs \subseteq BufIds
  BY DEF FreeBufs
<1>2. FreeBufs \subseteq Nat /\ IsFiniteSet(FreeBufs)
  <2>1. BufIds \subseteq Nat
    BY JitAssumption, FS_CardinalityType
  <2> QED BY <1>1, <2>1, FreeBufCount
<1>3. \A j \in 1 .. Cardinality(FreeBufs) :
         FreshBufs[j] \in FreeBufs /\ Cardinality(UpTo(FreeBufs, FreshBufs[j])) = j
  BY <1>2, AscendingIn DEF FreshBufs
<1>4. FreshBufs[i] \in FreeBufs
  BY <1>3
<1>5. \A j \in 1 .. Cardinality(FreeBufs) : FreshBufs[j] = FreshBufs[i] => j = i
  BY <1>3
<1> QED BY <1>4, <1>5 DEF FreeBufs

\* Buffers that were free stay free, but for those the step fills.
LEMMA FreeBufsLeft ==
    ASSUME NEW F \in SUBSET FreeBufs, \A b \in BufIds : b \in FreeBufs \ F => data'[b] = <<>>
    PROVE  /\ Cardinality(FreeBufs') \in Nat /\ Cardinality(F) \in Nat
           /\ Cardinality(FreeBufs') >= Cardinality(FreeBufs) - Cardinality(F)
<1>1. /\ IsFiniteSet(FreeBufs) /\ Cardinality(FreeBufs) \in Nat
      /\ IsFiniteSet(F) /\ Cardinality(F) \in Nat
  BY FreeBufCount, FS_Subset, FS_CardinalityType
<1>2. FreeBufs' \subseteq BufIds /\ IsFiniteSet(BufIds)
  BY JitAssumption DEF FreeBufs
<1>3. IsFiniteSet(FreeBufs') /\ Cardinality(FreeBufs') \in Nat
  BY <1>2, FS_Subset, FS_CardinalityType
<1>4. FreeBufs \ F \in SUBSET FreeBufs'
  BY DEF FreeBufs
<1>5. Cardinality(FreeBufs \ F) <= Cardinality(FreeBufs')
  BY <1>3, <1>4, FS_Subset
<1>6. Cardinality(FreeBufs \ F) = Cardinality(FreeBufs) - Cardinality(F)
  <2>1. Cardinality(FreeBufs \ F) = Cardinality(FreeBufs) - Cardinality(FreeBufs \cap F)
    BY <1>1, FS_Difference
  <2>2. FreeBufs \cap F = F
    OBVIOUS
  <2> QED BY <2>1, <2>2
<1> QED BY <1>1, <1>3, <1>5, <1>6

(***************************************************************************)
(* The arrays and nodes the operations make.                               *)
(***************************************************************************)

\* Strides computed from a shape reach its elements.
LEMMA ContiguousExtent ==
    ASSUME NEW dims \in DimVec
    PROVE  calcStrides(dims) \in Strides /\ Extent(dims, calcStrides(dims)) = elements(dims) - 1
<1>1. calcStrides(dims) \in Strides
  BY ShapeFacts DEF DimVec, Strides
<1> QED BY <1>1, ExtentOfContiguous

\* A new buffer with the elements of its shape
LEMMA ReadyFits ==
    ASSUME NEW N, NEW D, NEW dims \in Shapes, NEW b \in BufIds, Len(D[b]) = elements(dims)
    PROVE  /\ ArrayFits(ReadyArray(dims, b), N, D) /\ ReadyArray(dims, b) # NoArray
           /\ isReady(ReadyArray(dims, b)) /\ isLinear(ReadyArray(dims, b))
<1> DEFINE a == ReadyArray(dims, b)
<1>1. dims \in DimVec
  BY JitAssumption DEF DimVec
<1>2. /\ a.dims = dims /\ a.strides = calcStrides(dims) /\ a.off = 0 /\ a.buf = b /\ a.node = None
      /\ a.data_dims = dims
      /\ a = [dims |-> dims, strides |-> calcStrides(dims), off |-> 0, buf |-> b, node |-> None, data_dims |-> dims]
  BY DEF ReadyArray
<1>3. calcStrides(dims) \in Strides /\ elements(dims) \in Nat \ {0}
  BY <1>1, ContiguousExtent, ShapeFacts
<1>4. a \in Arrays
  BY <1>1, <1>2, <1>3 DEF Arrays
<1>5. InBuffer(D, a)
  <2>1. Extent(dims, calcStrides(dims)) = elements(dims) - 1
    BY <1>1, ContiguousExtent
  <2> QED BY <1>2, <1>3, <2>1 DEF InBuffer
<1>6. StridesCover(a)
  <2>1. \A k \in Dims : calcStrides(dims)[k] \in Nat
    BY <1>3 DEF Strides
  <2> QED BY <1>2, <2>1 DEF StridesCover
<1>7. isReady(a) /\ a # NoArray
  <2>1. b # None
    <3>1. BufIds = 1 .. Cardinality(BufIds) /\ Cardinality(BufIds) \in Nat
      BY JitAssumption, FS_CardinalityType
    <3> QED BY <3>1 DEF None
  <2> QED BY <1>2, <2>1 DEF isReady, NoArray
<1>8. isLinear(a)
  <2>1. a.strides[1] = 1
    BY <1>1, <1>2, ShapeFacts
  <2> QED BY <1>2, <2>1 DEF isLinear
<1> QED BY <1>2, <1>4, <1>5, <1>6, <1>7, <1>8 DEF ArrayFits

\* A new tree that no shift reads
LEMMA NodeArrayFits ==
    ASSUME NEW N, NEW D, NEW dims \in Shapes, NEW n \in NodeIds \ ShiftInputs(N)
    PROVE  ArrayFits(createNodeArray(dims, n), N, D)
<1> DEFINE a == createNodeArray(dims, n)
<1>1. dims \in DimVec
  BY JitAssumption DEF DimVec
<1>2. /\ a.buf = None /\ a.node = n
      /\ a = [dims |-> dims, strides |-> calcStrides(dims), off |-> 0, buf |-> None, node |-> n, data_dims |-> dims]
  BY DEF createNodeArray
<1>3. calcStrides(dims) \in Strides
  BY <1>1, ContiguousExtent
<1>4. a \in Arrays
  BY <1>1, <1>2, <1>3 DEF Arrays
<1>5. ~ isReady(a)
  BY <1>2, NoneIsNoNode DEF isReady
<1> QED BY <1>2, <1>4, <1>5 DEF ArrayFits

\* The buffer node of an evaluated array
LEMMA BufferNodeFits ==
    ASSUME NEW N, NEW D \in Buffers, NEW a, ArrayFits(a, N, D), isReady(a)
    PROVE  /\ BufferNode(a) \in BufferNodes /\ InBuffer(D, BufferNode(a))
           /\ BufferNode(a).linear => Flat(D, BufferNode(a))
           /\ BufferNode(a).kind = "buffer" /\ BufferNode(a).dims = a.dims
           /\ BufferNode(a).linear = isLinear(a)
<1> DEFINE r == BufferNode(a)
<1>1. /\ a.buf \in BufIds /\ a.off \in Nat /\ a.dims \in DimVec /\ a.strides \in Strides
      /\ InBuffer(D, a)
  BY JitAssumption DEF ArrayFits, Arrays, DimVec
<1>2. /\ r = [kind |-> "buffer", buf |-> a.buf, off |-> a.off, dims |-> a.dims, strides |-> a.strides,
              linear |-> isLinear(a), bytes |-> elements(a.dims)]
      /\ r.kind = "buffer" /\ r.buf = a.buf /\ r.off = a.off /\ r.dims = a.dims /\ r.strides = a.strides
      /\ r.linear = isLinear(a)
  BY DEF BufferNode
<1>3. isLinear(a) \in BOOLEAN
  BY DEF isLinear
<1>4. elements(a.dims) \in Nat
  BY <1>1, ShapeFacts
<1>5. r \in BufferNodes
  BY <1>1, <1>2, <1>3, <1>4 DEF BufferNodes
<1>6. InBuffer(D, r)
  BY <1>1, <1>2 DEF InBuffer
<1>7. r.linear => Flat(D, r)
  <2> SUFFICES ASSUME r.linear PROVE Flat(D, r)
    OBVIOUS
  <2>1. Extent(a.dims, a.strides) = elements(a.dims) - 1
    BY <1>1, <1>2, LinearExtent
  <2>2. Len(D[a.buf]) \in Nat
    BY <1>1 DEF Buffers
  <2>3. a.off + elements(a.dims) <= Len(D[a.buf])
    BY <1>1, <1>4, <2>1, <2>2 DEF InBuffer
  <2> QED BY <1>2, <2>3 DEF Flat
<1> QED BY <1>2, <1>5, <1>6, <1>7

\* One array is replaced by one that fits.
LEMMA PutFits ==
    ASSUME HeapInv, NEW N, HeapOK(N), \A n \in NodeIds : node[n] # NoNode => N[n] # NoNode,
           NEW D, Fits(arr, N, D), NEW h \in Handles, NEW a, Ref(N, a.node),
           a = NoArray \/ ArrayFits(a, N, D),
           Settle([arr EXCEPT ![h] = a], N, D, None)
    PROVE  /\ Fits(arr', node', data') /\ \A b \in BufIds : D[b] = <<>> => data'[b] = <<>>
<1> DEFINE A == [arr EXCEPT ![h] = a]
<1>1. \A g \in Handles : A[g] = IF g = h THEN a ELSE arr[g]
  BY DEF HeapInv
<1>2. \A g \in Handles : Ref(N, A[g].node)
  BY <1>1 DEF HeapInv, ArrNodesOK, Ref
<1>3. Fits(A, N, D)
  BY <1>1 DEF Fits
<1>4. Ref(N, None) /\ None \notin ShiftInputs(N)
  <2>1. \A m \in NodeIds : N[m].kind = "shift" => N[m].in \in NodeIds
    BY DEF HeapOK
  <2> QED BY <2>1, NoneIsNoNode DEF Ref, ShiftInputs
<1>5. Settle(A, N, D, None)
  OBVIOUS
<1> HIDE DEF A
<1>6. Fits(arr', node', data') /\ \A b \in BufIds : data'[b] \in {D[b], <<>>}
  BY <1>2, <1>3, <1>4, <1>5, SettleFits
<1> QED BY <1>6

(***************************************************************************)
(* Evaluation.                                                             *)
(***************************************************************************)

\* SetToSeq lists the elements of a finite set, each once.
LEMMA Listed ==
    ASSUME NEW S, IsFiniteSet(S)
    PROVE  /\ Len(SetToSeq(S)) = Cardinality(S)
           /\ \A i \in 1 .. Cardinality(S) : SetToSeq(S)[i] \in S
           /\ \A i, j \in 1 .. Cardinality(S) : SetToSeq(S)[i] = SetToSeq(S)[j] => i = j
           /\ \A x \in S : \E i \in 1 .. Cardinality(S) : SetToSeq(S)[i] = x
<1> DEFINE n == Cardinality(S)
           f == SetToSeq(S)
           I == [1 .. n -> S]
<1>1. n \in Nat /\ ExistsBijection(1 .. n, S)
  BY FS_CardinalityType
<1>2. PICK g \in I : (\A a, b \in 1 .. n : g[a] = g[b] => a = b) /\ \A x \in S : \E a \in 1 .. n : g[a] = x
  BY <1>1 DEF ExistsBijection, Bijection, Injection, Surjection, IsInjective
<1>3. IsInjective(g)
  BY <1>2 DEF IsInjective
<1>4. f \in I /\ IsInjective(f)
  BY <1>2, <1>3 DEF SetToSeq
<1>5. \A i, j \in 1 .. n : f[i] = f[j] => i = j
  BY <1>4 DEF IsInjective
<1>6. Len(f) = n
  BY <1>1, <1>4
<1>7. \A x \in S : \E i \in 1 .. n : f[i] = x
  <2> DEFINE Img == {f[i] : i \in 1 .. n}
  <2>1. Cardinality(Img) = n
    <3>1. IsFiniteSet(1 .. n) /\ Cardinality(1 .. n) = n
      BY <1>1, FS_Interval
    <3>2. f \in Bijection(1 .. n, Img)
      <4>1. f \in [1 .. n -> Img] /\ \A y \in Img : \E i \in 1 .. n : f[i] = y
        BY <1>4
      <4> QED BY <1>4, <4>1 DEF Bijection, Injection, Surjection, IsInjective
    <3> HIDE DEF Img, f, n
    <3> QED BY <3>1, <3>2, FS_Bijection DEF ExistsBijection
  <2>2. Img \in SUBSET S
    BY <1>4
  <2>3. Img = S
    <3> HIDE DEF Img
    <3> QED BY <2>1, <2>2, FS_Subset
  <2> QED BY <2>3
<1> QED BY <1>4, <1>5, <1>6, <1>7

\* The arrays that an evaluation is for
Pending(hs) == {h \in hs : ~ isReady(arr[h])}

\* Nodes that are to be evaluated into outputs of shape dims
EvalGiven(N, D, roots, dims) ==
    /\ HeapOK(N) /\ D \in Buffers /\ HeapFits(N, D) /\ roots \in SUBSET NodeIds
    /\ \A n \in roots : N[n] # NoNode /\ n \notin ShiftInputs(N)
    /\ dims \in DimVec
\* The shape of the arrays evaluated together, and their trees
ShapeOf(hs) == arr[CHOOSE h \in hs : TRUE].dims
RootsOf(hs) == {arr[h].node : h \in Pending(hs)}
EvalOn(hs) == evalNodes(node, data, RootsOf(hs), ShapeOf(hs))
\* What Evaluate makes: buffers with the outputs of the kernel, for arrays that
\* were not evaluated
EvaluateGives(hs) ==
    LET e == Evaluate(hs) IN
    /\ EvalGiven(node, data, RootsOf(hs), ShapeOf(hs)) /\ \A h \in hs : arr[h].dims = ShapeOf(hs)
    /\ e.node = EvalOn(hs).nodes
    /\ \A h \in Handles : h \notin Pending(hs) => e.arr[h] = arr[h]
    /\ \A h \in Pending(hs) : \E b \in BufIds : /\ e.arr[h] = ReadyArray(ShapeOf(hs), b)
                                                /\ e.data[b] = EvalOn(hs).out[arr[h].node]
    /\ e.data \in Buffers /\ \A b \in BufIds : data[b] # <<>> => e.data[b] = data[b]
    /\ Fits(e.arr, e.node, e.data) /\ \A h \in Handles : Ref(e.node, e.arr[h].node)
    /\ HeapOK(e.node) /\ HeapFits(e.node, data) /\ ShiftInputs(e.node) = ShiftInputs(node)
    /\ \A n \in NodeIds : node[n] = NoNode <=> e.node[n] = NoNode
    /\ \A h \in Pending(hs) : isReady(e.arr[h]) /\ isLinear(e.arr[h]) /\ e.arr[h].dims = arr[h].dims
                              /\ e.arr[h] # NoArray
    /\ \E F \in SUBSET FreeBufs : /\ Cardinality(F) = Cardinality(Pending(hs))
                                  /\ \A b \in BufIds : b \in FreeBufs \ F => e.data[b] = <<>>

\* Outputs go to free buffers, one for each array, and the rest is as it was.
LEMMA EvaluateMakes ==
    ASSUME HeapInv, Fits(arr, node, data), NEW hs \in SUBSET Handles,
           \A g, h \in hs : arr[g].dims = arr[h].dims,
           Pending(hs) # {}, Cardinality(Pending(hs)) <= Cardinality(FreeBufs)
    PROVE  EvaluateGives(hs)
<1> DEFINE pending == Pending(hs)
           dims == arr[CHOOSE h \in hs : TRUE].dims
           roots == {arr[h].node : h \in pending}
           v == evalNodes(node, data, roots, dims)
           ps == SetToSeq(pending)
           k == Cardinality(pending)
           e == Evaluate(hs)
           buf == [i \in 1 .. Len(ps) |-> FreshBufs[i]]
<1>1. pending \in SUBSET Handles /\ IsFiniteSet(pending) /\ k \in Nat
  <2>1. Handles \subseteq BufIds /\ IsFiniteSet(BufIds)
    BY JitAssumption
  <2>2. pending \in SUBSET Handles
    BY DEF Pending
  <2> HIDE DEF pending
  <2> QED BY <2>1, <2>2, FS_Subset, FS_CardinalityType
<1>2. /\ Len(ps) = k /\ \A i \in 1 .. k : ps[i] \in pending
      /\ \A i, j \in 1 .. k : ps[i] = ps[j] => i = j
      /\ \A h \in pending : \E i \in 1 .. k : ps[i] = h
  <2> HIDE DEF pending
  <2> QED BY <1>1, Listed
<1>3. \A h \in pending : /\ h \in hs /\ ArrayFits(arr[h], node, data) /\ ~ isReady(arr[h])
                          /\ arr[h].node \in NodeIds /\ node[arr[h].node] # NoNode
                          /\ arr[h].node \notin ShiftInputs(node)
  <2> SUFFICES ASSUME NEW h \in pending
               PROVE  /\ h \in hs /\ ArrayFits(arr[h], node, data) /\ ~ isReady(arr[h])
                      /\ arr[h].node \in NodeIds /\ node[arr[h].node] # NoNode
                      /\ arr[h].node \notin ShiftInputs(node)
    OBVIOUS
  <2>1. h \in hs /\ ~ isReady(arr[h]) /\ h \in Handles
    BY DEF Pending
  <2>2. arr[h] # NoArray
    BY <2>1 DEF isReady, NoArray
  <2>3. ArrayFits(arr[h], node, data)
    BY <2>1, <2>2 DEF Fits
  <2>4. arr[h].node \in NodeIds /\ node[arr[h].node] # NoNode
    BY <2>1 DEF HeapInv, ArrNodesOK, Ref, isReady
  <2> QED BY <2>1, <2>3, <2>4 DEF ArrayFits
<1>4. dims \in Shapes /\ dims \in DimVec /\ \A h \in hs : arr[h].dims = dims
  <2>1. \A h \in hs : arr[h].dims = dims
    OBVIOUS
  <2>2. PICK h \in pending : TRUE
    OBVIOUS
  <2>3. arr[h].dims \in Shapes
    BY <1>3 DEF ArrayFits, Arrays
  <2> QED BY <1>3, <2>1, <2>3, JitAssumption DEF DimVec
<1>5. roots \in SUBSET NodeIds /\ \A n \in roots : node[n] # NoNode /\ n \notin ShiftInputs(node)
  BY <1>3
<1> HIDE DEF roots, dims
<1>6. HeapOK(node) /\ data \in Buffers /\ HeapFits(node, data)
  BY DEF HeapInv, Fits
<1>7. /\ HeapFits(v.nodes, data) /\ ShiftInputs(v.nodes) = ShiftInputs(node)
      /\ \A r \in roots : v.out[r] \in Seq(Values) /\ Len(v.out[r]) = elements(dims)
  BY <1>4, <1>5, <1>6, EvalFits
<1>8. HeapOK(v.nodes) /\ \A n \in NodeIds : node[n] = NoNode <=> v.nodes[n] = NoNode
  BY <1>5, <1>6, EvalKeepsHeap
<1> HIDE DEF v
<1>9. /\ e.node = v.nodes
      /\ e.arr = [h \in Handles |-> IF h \in pending
                   THEN ReadyArray(arr[h].dims, buf[CHOOSE i \in 1 .. Len(ps) : ps[i] = h]) ELSE arr[h]]
      /\ e.data = [b \in BufIds |-> IF \E i \in 1 .. Len(ps) : buf[i] = b
                     THEN v.out[arr[ps[CHOOSE i \in 1 .. Len(ps) : buf[i] = b]].node] ELSE data[b]]
  BY DEF Evaluate, Pending, v, roots, dims
<1>10. \A i \in 1 .. k : /\ FreshBufs[i] \in BufIds /\ FreshBufs[i] \in FreeBufs
                         /\ data[FreshBufs[i]] = <<>>
                         /\ \A j \in 1 .. k : FreshBufs[i] = FreshBufs[j] => i = j
  <2>1. 1 .. k \subseteq 1 .. Cardinality(FreeBufs)
    BY <1>1, FreeBufCount
  <2> QED BY <2>1, FreshBuf
<1> HIDE DEF e
<1>11. \A i \in 1 .. k : buf[i] = FreshBufs[i]
  BY <1>2
<1> HIDE DEF k, buf, pending
<1>12. ASSUME NEW i \in 1 .. k
       PROVE  /\ e.data[FreshBufs[i]] \in Seq(Values) /\ Len(e.data[FreshBufs[i]]) = elements(dims)
              /\ e.data[FreshBufs[i]] = v.out[arr[ps[i]].node]
  <2>1. (CHOOSE j \in 1 .. Len(ps) : buf[j] = FreshBufs[i]) = i
    BY <1>2, <1>10, <1>11
  <2>2. e.data[FreshBufs[i]] = v.out[arr[ps[i]].node]
    <3> DEFINE b == FreshBufs[i]
    <3>1. b \in BufIds /\ i \in 1 .. Len(ps) /\ buf[i] = b
      BY <1>2, <1>10, <1>11
    <3> HIDE DEF b
    <3>2. e.data[b] = v.out[arr[ps[CHOOSE j \in 1 .. Len(ps) : buf[j] = b]].node]
      BY <1>9, <3>1
    <3> QED BY <2>1, <3>2 DEF b
  <2>3. arr[ps[i]].node \in roots
    BY <1>2 DEF roots
  <2> QED BY <1>7, <2>2, <2>3
<1>13. \A b \in BufIds : (\A i \in 1 .. k : FreshBufs[i] # b) => e.data[b] = data[b]
  <2> SUFFICES ASSUME NEW b \in BufIds, \A i \in 1 .. k : FreshBufs[i] # b PROVE e.data[b] = data[b]
    OBVIOUS
  <2>1. ~ \E i \in 1 .. Len(ps) : buf[i] = b
    BY <1>2, <1>11
  <2> QED BY <1>9, <2>1
<1>14. e.data \in Buffers /\ \A b \in BufIds : data[b] # <<>> => e.data[b] = data[b]
  <2>1. \A b \in BufIds : e.data[b] \in Seq(Values)
    <3> SUFFICES ASSUME NEW b \in BufIds PROVE e.data[b] \in Seq(Values)
      OBVIOUS
    <3>1. CASE \E i \in 1 .. k : FreshBufs[i] = b
      BY <1>12, <3>1
    <3>2. CASE ~ \E i \in 1 .. k : FreshBufs[i] = b
      BY <1>6, <1>13, <3>2 DEF Buffers
    <3> QED BY <3>1, <3>2
  <2>2. e.data = [b \in BufIds |-> e.data[b]]
    BY <1>9
  <2>3. \A b \in BufIds : data[b] # <<>> => e.data[b] = data[b]
    BY <1>10, <1>13
  <2> QED BY <2>1, <2>2, <2>3 DEF Buffers
<1>15. ASSUME NEW h \in pending
       PROVE  /\ ArrayFits(e.arr[h], v.nodes, e.data) /\ isReady(e.arr[h]) /\ isLinear(e.arr[h])
              /\ e.arr[h].dims = arr[h].dims /\ e.arr[h] # NoArray /\ e.arr[h].node = None
              /\ \E b \in BufIds : e.arr[h] = ReadyArray(dims, b) /\ e.data[b] = v.out[arr[h].node]
  <2>1. PICK i \in 1 .. k : ps[i] = h /\ e.arr[h] = ReadyArray(arr[h].dims, FreshBufs[i])
    <3>1. PICK i \in 1 .. k : ps[i] = h
      BY <1>2
    <3>2. (CHOOSE j \in 1 .. Len(ps) : ps[j] = h) = i
      BY <1>2, <3>1
    <3>3. h \in Handles
      BY <1>1
    <3>4. e.arr[h] = ReadyArray(arr[h].dims, buf[i])
      BY <1>9, <3>2, <3>3
    <3> QED BY <1>11, <3>1, <3>4
  <2>2. arr[h].dims = dims /\ dims \in Shapes
    BY <1>3, <1>4
  <2>3. FreshBufs[i] \in BufIds /\ Len(e.data[FreshBufs[i]]) = elements(dims)
    BY <1>10, <1>12
  <2>4. e.arr[h].dims = arr[h].dims /\ e.arr[h].node = None
    BY <2>1 DEF ReadyArray
  <2>5. \E b \in BufIds : e.arr[h] = ReadyArray(dims, b) /\ e.data[b] = v.out[arr[h].node]
    BY <1>12, <2>1, <2>2, <2>3
  <2> QED BY <2>1, <2>2, <2>3, <2>4, <2>5, ReadyFits
<1>16. \A h \in Handles : h \notin pending => e.arr[h] = arr[h]
  BY <1>9
<1>17. Fits(e.arr, v.nodes, e.data)
  <2>1. Fits(arr, v.nodes, data)
    BY <1>7, SameShifts
  <2>2. Fits(arr, v.nodes, e.data)
    BY <1>14, <2>1, KeepBuffers
  <2> QED BY <1>1, <1>15, <1>16, <2>2 DEF Fits
<1>18. \A h \in Handles : Ref(v.nodes, e.arr[h].node)
  <2> SUFFICES ASSUME NEW h \in Handles PROVE Ref(v.nodes, e.arr[h].node)
    OBVIOUS
  <2>1. CASE h \in pending
    BY <1>15, <2>1 DEF Ref
  <2>2. CASE h \notin pending
    BY <1>8, <1>16, <2>2 DEF HeapInv, ArrNodesOK, Ref
  <2> QED BY <2>1, <2>2
<1>19. EvalGiven(node, data, roots, dims)
  BY <1>4, <1>5, <1>6 DEF EvalGiven
<1>20. roots = RootsOf(hs) /\ dims = ShapeOf(hs)
  BY DEF roots, dims, RootsOf, ShapeOf, pending
<1>21. v = EvalOn(hs)
  BY <1>20 DEF v, EvalOn
<1>22. /\ e.node = EvalOn(hs).nodes /\ \A h \in hs : arr[h].dims = ShapeOf(hs)
       /\ EvalGiven(node, data, RootsOf(hs), ShapeOf(hs))
  BY <1>4, <1>9, <1>19, <1>20, <1>21
<1>23. \A h \in pending : \E b \in BufIds : /\ e.arr[h] = ReadyArray(ShapeOf(hs), b)
                                            /\ e.data[b] = EvalOn(hs).out[arr[h].node]
  BY <1>15, <1>20, <1>21, SMTT(30)
<1>24. /\ Fits(e.arr, e.node, e.data) /\ \A h \in Handles : Ref(e.node, e.arr[h].node)
       /\ HeapOK(e.node) /\ HeapFits(e.node, data) /\ ShiftInputs(e.node) = ShiftInputs(node)
       /\ \A n \in NodeIds : node[n] = NoNode <=> e.node[n] = NoNode
  BY <1>7, <1>8, <1>9, <1>17, <1>18
<1>25. \E F \in SUBSET FreeBufs : /\ Cardinality(F) = k
                                 /\ \A b \in BufIds : b \in FreeBufs \ F => e.data[b] = <<>>
  <2> DEFINE F == {FreshBufs[i] : i \in 1 .. k}
             g == [i \in 1 .. k |-> FreshBufs[i]]
  <2>1. F \in SUBSET FreeBufs
    BY <1>10
  <2>2. Cardinality(F) = k
    <3>1. IsFiniteSet(1 .. k) /\ Cardinality(1 .. k) = k
      BY <1>1, FS_Interval DEF k
    <3>2. g \in Bijection(1 .. k, F)
      BY <1>10 DEF Bijection, Injection, Surjection, IsInjective
    <3> HIDE DEF F, g
    <3> QED BY <3>1, <3>2, FS_Bijection DEF ExistsBijection
  <2>3. \A b \in BufIds : b \in FreeBufs \ F => e.data[b] = <<>>
    BY <1>13 DEF FreeBufs
  <2> HIDE DEF F
  <2> QED BY <2>1, <2>2, <2>3
<1>26. \A h \in pending : isReady(e.arr[h]) /\ isLinear(e.arr[h]) /\ e.arr[h].dims = arr[h].dims
                          /\ e.arr[h] # NoArray
  BY <1>15
<1>27. k = Cardinality(Pending(hs)) /\ e = Evaluate(hs) /\ pending = Pending(hs)
  BY DEF e, pending, k
<1> QED BY <1>14, <1>16, <1>22, <1>23, <1>24, <1>25, <1>26, <1>27 DEF EvaluateGives

\* Evaluated arrays are contiguous, and the rest is as it was.
LEMMA EvaluateFits ==
    ASSUME HeapInv, Fits(arr, node, data), NEW hs \in SUBSET Handles,
           \A g, h \in hs : arr[g].dims = arr[h].dims,
           Pending(hs) # {}, Cardinality(Pending(hs)) <= Cardinality(FreeBufs),
           NEW root, Ref(node, root), root \notin ShiftInputs(node),
           LET e == Evaluate(hs) IN Settle(e.arr, e.node, e.data, root)
    PROVE  /\ Fits(arr', node', data') /\ root \notin ShiftInputs(node')
           /\ \A h \in Handles : IF h \in Pending(hs)
                                 THEN isReady(arr'[h]) /\ isLinear(arr'[h]) /\ arr'[h].dims = arr[h].dims
                                      /\ arr'[h] # NoArray
                                 ELSE arr'[h] = arr[h]
           /\ \E F \in SUBSET FreeBufs :
                /\ Cardinality(F) = Cardinality(Pending(hs))
                /\ \A b \in BufIds : b \in FreeBufs \ F => data'[b] = <<>>
<1> DEFINE e == Evaluate(hs)
<1>1. EvaluateGives(hs)
  BY EvaluateMakes
<1>2. /\ Fits(e.arr, e.node, e.data) /\ \A h \in Handles : Ref(e.node, e.arr[h].node)
      /\ HeapOK(e.node) /\ ShiftInputs(e.node) = ShiftInputs(node)
      /\ \A n \in NodeIds : node[n] = NoNode <=> e.node[n] = NoNode
  BY <1>1 DEF EvaluateGives
<1>3. \A h \in Handles : IF h \in Pending(hs)
                         THEN isReady(e.arr[h]) /\ isLinear(e.arr[h]) /\ e.arr[h].dims = arr[h].dims
                              /\ e.arr[h] # NoArray
                         ELSE e.arr[h] = arr[h]
  BY <1>1 DEF EvaluateGives
<1>4. PICK F \in SUBSET FreeBufs : /\ Cardinality(F) = Cardinality(Pending(hs))
                                   /\ \A b \in BufIds : b \in FreeBufs \ F => e.data[b] = <<>>
  BY <1>1 DEF EvaluateGives
<1>5. Settle(e.arr, e.node, e.data, root)
  OBVIOUS
<1> HIDE DEF e
<1>6. Ref(e.node, root) /\ root \notin ShiftInputs(e.node)
  BY <1>2 DEF Ref
<1>7. /\ Fits(arr', node', data') /\ root \notin ShiftInputs(node')
      /\ \A b \in BufIds : data'[b] \in {e.data[b], <<>>}
  BY <1>2, <1>5, <1>6, SettleFits
<1>8. arr' = e.arr
  BY <1>5 DEF Settle
<1>9. \A b \in BufIds : b \in FreeBufs \ F => data'[b] = <<>>
  BY <1>4, <1>7
<1> QED BY <1>3, <1>4, <1>7, <1>8, <1>9

(***************************************************************************)
(* The inductive invariant behind TypeOK.                                  *)
(***************************************************************************)
Unready == {h \in Handles : ~ isReady(arr[h])}

\* A call has the operands, arguments and buffers it needs.
CallKnown ==
    /\ call.op \in Ops
    /\ call.op = "none" => call.todo = <<>>
    /\ call.op = "eval" => Len(call.todo) <= 1 /\ (call.todo # <<>> => Cardinality(FreeBufs) >= 1)
CallBufs ==
    call.op \in OperandOps => /\ \A i \in 1 .. Len(call.ins) : Live(call.ins[i])
                              /\ Cardinality(FreeBufs) >= 2 + Cardinality(Unready)
CallArg ==
    /\ call.op \in {"nary", "select", "moddims"} => call.arg \in Shapes
    /\ call.op = "shift" => call.arg \in [Dims -> Int]
    /\ call.node # None => call.node \notin ShiftInputs(node)

\* The sequences of an index are inside the array, which is evaluated first.
SeqsInside(seqs, dims) ==
    /\ seqs \in [Dims -> Seqs] /\ toDims(seqs, dims) \in Shapes
    /\ \A k \in Dims : isSpan(seqs[k]) \/ {seqs[k].begin, seqs[k].end} \subseteq 0 .. dims[k] - 1
CallIndex ==
    call.op = "index" => /\ SeqsInside(call.arg, arr[call.ins[1]].dims)
                         /\ call.todo = <<>> => isReady(arr[call.ins[1]])

\* moddims copies a tree that is linear, or the buffer it was evaluated to.
LinearTree(N, n, dims) == \A m \in Tree(N, n) : NodeIsLinear(N[m], dims)
CallModdims ==
    call.op = "moddims" =>
        LET in == arr[call.ins[1]] IN
        /\ elements(call.arg) = elements(in.dims)
        /\ isReady(in) => call.todo = <<>> /\ isLinear(in)
        /\ call.todo = <<>> /\ ~ isReady(in) => LinearTree(node, in.node, in.dims)

CallFits == CallKnown /\ CallBufs /\ CallArg /\ CallIndex /\ CallModdims
GeoInv == Fits(arr, node, data) /\ CallFits

\* A call that returned needs nothing.
LEMMA ReturnedFits ==
    ASSUME \/ call' = NoCall
           \/ /\ \E h \in Handles : call' = [NoCall EXCEPT !.op = "eval", !.todo = <<h>>]
              /\ Cardinality(FreeBufs') >= 1
    PROVE  CallFits'
<1>1. CASE call' = NoCall
  <2>1. call'.op = "none" /\ call'.todo = <<>> /\ call'.node = None
    BY <1>1 DEF NoCall
  <2> QED BY <2>1 DEF CallFits, CallKnown, CallBufs, CallArg, CallIndex, CallModdims, OperandOps, Ops
<1>2. ASSUME NEW h \in Handles, call' = [NoCall EXCEPT !.op = "eval", !.todo = <<h>>],
             Cardinality(FreeBufs') >= 1
      PROVE  CallFits'
  <2>1. call'.op = "eval" /\ call'.todo = <<h>> /\ call'.node = None
    BY <1>2 DEF NoCall
  <2>2. Len(<<h>>) <= 1
    BY ONLY TRUE
  <2> QED BY <1>2, <2>1, <2>2 DEF CallFits, CallKnown, CallBufs, CallArg, CallIndex, CallModdims, OperandOps, Ops
<1> QED BY <1>1, <1>2

\* The buffer a shift reads is a buffer.
LEMMA ShiftsReadBuffers ==
    ASSUME NEW N, HeapOK(N)
    PROVE  /\ \A n \in ShiftInputs(N) : n \in NodeIds /\ N[n].kind = "buffer"
           /\ None \notin ShiftInputs(N)
<1>1. \A n \in ShiftInputs(N) : n \in NodeIds /\ N[n].kind = "buffer"
  BY DEF ShiftInputs, HeapOK
<1> QED BY <1>1, NoneIsNoNode

\* Values go to a buffer that was free.
LEMMA FillBuffer ==
    ASSUME NEW A, NEW N, NEW D, Fits(A, N, D), NEW b \in BufIds, D[b] = <<>>, NEW v \in Seq(Values)
    PROVE  /\ Fits(A, N, [D EXCEPT ![b] = v]) /\ [D EXCEPT ![b] = v][b] = v
           /\ \A c \in BufIds : c # b => [D EXCEPT ![b] = v][c] = D[c]
<1>1. D \in Buffers
  BY DEF Fits
<1> DEFINE D2 == [D EXCEPT ![b] = v]
<1>2. D2[b] = v /\ \A c \in BufIds : c # b => D2[c] = D[c]
  BY <1>1 DEF Buffers
<1>3. D2 \in Buffers
  BY <1>1 DEF Buffers
<1> HIDE DEF D2
<1>4. Fits(A, N, D2)
  BY <1>2, <1>3, KeepBuffers
<1> QED BY <1>2, <1>4 DEF D2

\* Host data are values.
LEMMA HostDataValues ==
    ASSUME NEW n \in Nat
    PROVE  HostData(n) \in Seq(Values) /\ Len(HostData(n)) = n
<1>1. HostData(n) = [j \in 1 .. n |-> IF j - 1 = 0 THEN 1 % M ELSE 0]
  BY DEF HostData, Fill
<1>2. 1 % M \in Values /\ 0 \in Values
  BY JitAssumption DEF Values
<1>3. HostData(n) \in [1 .. n -> Values]
  BY <1>1, <1>2
<1> QED BY <1>3

(***************************************************************************)
(* The calls of the API.                                                   *)
(***************************************************************************)

\* There is a buffer for the call.
LEMMA OneBuffer ==
    ASSUME NEW n, NEW k \in Nat \ {0}, Room(n, k)
    PROVE  FreshBufs[1] \in BufIds /\ data[FreshBufs[1]] = <<>>
<1>1. 1 \in 1 .. Cardinality(FreeBufs)
  BY FreeBufCount DEF Room
<1> QED BY <1>1, FreshBuf

\* One array is replaced by a contiguous one with values of its own.
LEMMA PutNewBuffer ==
    ASSUME HeapInv, NEW N, HeapOK(N), \A n \in NodeIds : node[n] # NoNode => N[n] # NoNode,
           NEW D, Fits(arr, N, D), NEW h \in Handles, NEW b \in BufIds, D[b] = <<>>,
           NEW dims \in Shapes, NEW v \in Seq(Values), Len(v) = elements(dims),
           Settle([arr EXCEPT ![h] = ReadyArray(dims, b)], N, [D EXCEPT ![b] = v], None)
    PROVE  Fits(arr', node', data')
<1> DEFINE D2 == [D EXCEPT ![b] = v]
           a == ReadyArray(dims, b)
<1>1. Fits(arr, N, D2) /\ D2[b] = v
  BY FillBuffer
<1>2. Settle([arr EXCEPT ![h] = a], N, D2, None)
  OBVIOUS
<1> HIDE DEF D2
<1>3. ArrayFits(a, N, D2)
  BY <1>1, ReadyFits
<1>4. Ref(N, a.node)
  BY MadeArrays
<1> HIDE DEF a
<1> QED BY <1>1, <1>2, <1>3, <1>4, PutFits

\* Host data fill a new buffer.
LEMMA createHostDataArrayFits ==
    ASSUME HeapInv, Fits(arr, node, data), NEW h \in Handles, NEW dims \in Shapes,
           createHostDataArray(h, dims)
    PROVE  Fits(arr', node', data')
<1> DEFINE b == FreshBufs[1]
           v == HostData(elements(dims))
<1>1. Settle([arr EXCEPT ![h] = ReadyArray(dims, b)], node, [data EXCEPT ![b] = v], None)
  BY DEF createHostDataArray
<1>2. b \in BufIds /\ data[b] = <<>>
  BY OneBuffer DEF createHostDataArray
<1>3. v \in Seq(Values) /\ Len(v) = elements(dims)
  <2>1. dims \in DimVec
    BY JitAssumption DEF DimVec
  <2> QED BY <2>1, ShapeFacts, HostDataValues
<1> HIDE DEF b, v
<1>4. HeapOK(node)
  BY DEF HeapInv
<1> QED BY <1>1, <1>2, <1>3, <1>4, PutNewBuffer

\* A constant is a node with a value.
LEMMA createValueArrayFits ==
    ASSUME HeapInv, Fits(arr, node, data), NEW h \in Handles, NEW dims \in Shapes,
           createValueArray(h, dims)
    PROVE  Fits(arr', node', data')
<1> DEFINE n == FreshNodes[1]
           r == ScalarNode(1 % M)
           N == [node EXCEPT ![n] = r]
           a == createNodeArray(dims, n)
<1>1. Settle([arr EXCEPT ![h] = a], N, data, None)
  BY DEF createValueArray
<1>2. n \in NodeIds /\ node[n] = NoNode
  <2>1. Cardinality(FreeNodes) >= 1
    BY DEF createValueArray, Room
  <2>2. 1 \in 1 .. Cardinality(FreeNodes)
    BY <2>1, FreeCount
  <2> QED BY <2>2, FreshNode
<1>3. HeapOK(node) /\ \A g \in Handles : Ref(node, arr[g].node)
  BY DEF HeapInv, ArrNodesOK
<1>4. r \in ScalarNodes /\ Leaf(r) /\ r.kind = "scalar"
  <2>1. 1 % M \in Values
    BY JitAssumption DEF Values
  <2> QED BY <2>1 DEF ScalarNode, ScalarNodes, Leaf
<1> HIDE DEF n, r
<1>5. N = [m \in NodeIds |-> N[m]] /\ N[n] = r /\ \A m \in NodeIds : m # n => N[m] = node[m]
  BY <1>2, <1>3 DEF HeapOK
<1> HIDE DEF N
<1>6. HeapOK(N) /\ \A m \in NodeIds : node[m] # NoNode => N[m] = node[m]
  <2>1. \A m \in NodeIds : \/ N[m] = node[m]
                           \/ node[m] = NoNode /\ Leaf(N[m]) /\ N[m].kind = "scalar"
    BY <1>2, <1>4, <1>5
  <2> QED BY <1>3, <1>5, <2>1, AddLeaves
<1>7. Fits(arr, N, data)
  <2>1. ASSUME NEW m \in NodeIds, node[m] = NoNode PROVE NodeFits(N, data, m) /\ N[m].kind # "shift"
    <3>1. CASE m = n
      BY <1>4, <1>5, <3>1 DEF NodeFits
    <3>2. CASE m # n
      BY <1>5, <2>1, <3>2 DEF NodeFits, NoNode
    <3> QED BY <3>1, <3>2
  <2> QED BY <1>3, <1>6, <2>1, AddFits
<1>8. ArrayFits(a, N, data) /\ Ref(N, a.node)
  <2>1. n \notin ShiftInputs(N)
    BY <1>4, <1>5, <1>6, ShiftsReadBuffers
  <2>2. N[n] # NoNode
    BY <1>4, <1>5 DEF NoNode
  <2>3. a.node = n
    BY MadeArrays
  <2> QED BY <1>2, <2>1, <2>2, <2>3, NodeArrayFits DEF Ref
<1>9. \A m \in NodeIds : node[m] # NoNode => N[m] # NoNode
  BY <1>6
<1> HIDE DEF a
<1> QED BY <1>1, <1>6, <1>7, <1>8, <1>9, PutFits

\* A retained array fits where the first does.
LEMMA retainHandleFits ==
    ASSUME HeapInv, Fits(arr, node, data), NEW out \in Handles, NEW in \in Handles, retainHandle(out, in)
    PROVE  Fits(arr', node', data')
<1>1. Settle([arr EXCEPT ![out] = arr[in]], node, data, None)
  BY DEF retainHandle, Replace
<1>2. HeapOK(node) /\ Ref(node, arr[in].node) /\ (arr[in] = NoArray \/ ArrayFits(arr[in], node, data))
  BY DEF HeapInv, ArrNodesOK, Fits
<1> QED BY <1>1, <1>2, PutFits

\* A release leaves the others as they were.
LEMMA releaseFits ==
    ASSUME HeapInv, Fits(arr, node, data), NEW h \in Handles, release(h)
    PROVE  Fits(arr', node', data')
<1>1. Settle([arr EXCEPT ![h] = NoArray], node, data, None)
  BY DEF release, Replace
<1>2. HeapOK(node) /\ Ref(node, NoArray.node)
  BY MadeArrays DEF HeapInv
<1> QED BY <1>1, <1>2, PutFits

\* The heap and the elements that copyArray reads
LEMMA CopySource ==
    ASSUME HeapInv, Fits(arr, node, data), NEW out \in Handles, NEW in \in Handles, copyArray(out, in)
    PROVE  LET a == arr[in]
               N == IF isReady(a) THEN node ELSE evalNodes(node, data, {a.node}, a.dims).nodes
               v == Contents(a)
           IN  /\ HeapOK(N) /\ (\A n \in NodeIds : node[n] # NoNode => N[n] # NoNode)
               /\ Fits(arr, N, data) /\ v \in Seq(Values) /\ Len(v) = elements(a.dims)
<1> DEFINE a == arr[in]
           e == evalNodes(node, data, {a.node}, a.dims)
           N == IF isReady(a) THEN node ELSE e.nodes
           v == Contents(a)
<1>3. ArrayFits(a, node, data)
  BY DEF Fits, copyArray, Live
<1>4. a.dims \in Shapes /\ a.dims \in DimVec
  BY <1>3, JitAssumption DEF ArrayFits, Arrays, DimVec
<1>5. HeapOK(node) /\ data \in Buffers /\ HeapFits(node, data)
  BY DEF HeapInv, Fits
<1>6. /\ HeapOK(N) /\ (\A n \in NodeIds : node[n] # NoNode => N[n] # NoNode)
      /\ Fits(arr, N, data) /\ v \in Seq(Values) /\ Len(v) = elements(a.dims)
  <2>1. CASE isReady(a)
    <3>1. N = node /\ v = Read(data, a)
      BY <2>1 DEF Contents
    <3>2. Read(data, a) \in Seq(Values) /\ Len(Read(data, a)) = elements(a.dims)
      BY <1>3, <1>5, <2>1, ReadReady
    <3> QED BY <1>5, <3>1, <3>2
  <2>2. CASE ~ isReady(a)
    <3>1. N = e.nodes /\ v = e.out[a.node]
      BY <2>2 DEF Contents
    <3>2. {a.node} \in SUBSET NodeIds /\ \A n \in {a.node} : node[n] # NoNode /\ n \notin ShiftInputs(node)
      BY <1>3, <2>2 DEF HeapInv, ArrNodesOK, Ref, isReady, ArrayFits
    <3>3. /\ HeapFits(e.nodes, data) /\ ShiftInputs(e.nodes) = ShiftInputs(node)
          /\ \A r \in {a.node} : e.out[r] \in Seq(Values) /\ Len(e.out[r]) = elements(a.dims)
      BY <1>4, <1>5, <3>2, EvalFits
    <3>4. HeapOK(e.nodes) /\ \A n \in NodeIds : node[n] = NoNode <=> e.nodes[n] = NoNode
      BY <1>5, <3>2, EvalKeepsHeap
    <3> HIDE DEF e
    <3>5. Fits(arr, e.nodes, data)
      BY <3>3, SameShifts
    <3> QED BY <3>1, <3>3, <3>4, <3>5
  <2> QED BY <2>1, <2>2
<1> QED BY <1>6

\* A copy has the elements of its source.
LEMMA copyArrayFits ==
    ASSUME HeapInv, Fits(arr, node, data), NEW out \in Handles, NEW in \in Handles, copyArray(out, in)
    PROVE  Fits(arr', node', data')
<1> DEFINE a == arr[in]
           N == IF isReady(a) THEN node ELSE evalNodes(node, data, {a.node}, a.dims).nodes
           b == FreshBufs[1]
           v == Contents(a)
<1>1. Settle([arr EXCEPT ![out] = ReadyArray(a.dims, b)], N, [data EXCEPT ![b] = v], None)
  BY DEF copyArray
<1>2. b \in BufIds /\ data[b] = <<>>
  BY OneBuffer DEF copyArray
<1>3. a.dims \in Shapes
  BY DEF Fits, copyArray, Live, ArrayFits, Arrays
<1>4. /\ HeapOK(N) /\ (\A n \in NodeIds : node[n] # NoNode => N[n] # NoNode)
      /\ Fits(arr, N, data) /\ v \in Seq(Values) /\ Len(v) = elements(a.dims)
  BY CopySource
<1> HIDE DEF N, v, b
<1> QED BY <1>1, <1>2, <1>3, <1>4, PutNewBuffer

\* What no shift reads: no node at all
LEMMA NoRoot ==
    ASSUME HeapInv
    PROVE  Ref(node, None) /\ None \notin ShiftInputs(node)
<1>1. HeapOK(node)
  BY DEF HeapInv
<1> QED BY <1>1, ShiftsReadBuffers, MadeArrays

\* There are buffers for arrays evaluated together.
LEMMA PendingFit ==
    ASSUME NEW hs \in SUBSET Handles, evalMultiple(hs)
    PROVE  Pending(hs) # {} /\ Cardinality(Pending(hs)) <= Cardinality(FreeBufs)
<1>2. Pending(hs) # {} /\ Pending(hs) \in SUBSET hs
  BY DEF evalMultiple, Pending
<1>3. Cardinality(Pending(hs)) <= Cardinality(FreeBufs)
  <2>1. IsFiniteSet(hs)
    <3>1. hs \in SUBSET BufIds /\ IsFiniteSet(BufIds)
      BY JitAssumption
    <3> QED BY <3>1, FS_Subset
  <2>2. Cardinality(Pending(hs)) <= Cardinality(hs)
    BY <1>2, <2>1, FS_Subset
  <2>3. Cardinality(FreeBufs) >= Cardinality(hs)
    BY DEF evalMultiple, Room
  <2>4. IsFiniteSet(Pending(hs))
    BY <1>2, <2>1, FS_Subset
  <2>5. Cardinality(Pending(hs)) \in Nat /\ Cardinality(hs) \in Nat /\ Cardinality(FreeBufs) \in Nat
    BY <2>1, <2>4, FreeBufCount, FS_CardinalityType
  <2> QED BY <2>2, <2>3, <2>5
<1> QED BY <1>2, <1>3

\* Arrays evaluated together
LEMMA evalMultipleFits ==
    ASSUME HeapInv, Fits(arr, node, data), NEW hs \in SUBSET Handles, evalMultiple(hs)
    PROVE  Fits(arr', node', data')
<1>1. /\ \A g, h \in hs : arr[g].dims = arr[h].dims
      /\ LET e == Evaluate(hs) IN Settle(e.arr, e.node, e.data, None)
  BY DEF evalMultiple
<1>2. Pending(hs) # {} /\ Cardinality(Pending(hs)) <= Cardinality(FreeBufs)
  BY PendingFit
<1>3. Ref(node, None) /\ None \notin ShiftInputs(node)
  BY NoRoot
<1> QED BY <1>1, <1>2, <1>3, EvaluateFits

\* A linear array may share its buffer with one of another shape.
LEMMA SharedBuffer ==
    ASSUME HeapInv, Fits(arr, node, data), NEW h \in Handles, NEW dims \in Shapes, modDims(h, dims),
           isLinear(arr[h])
    PROVE  LET shared == [arr[h] EXCEPT !.dims = dims, !.data_dims = dims, !.strides = calcStrides(dims)]
           IN  Settle([arr EXCEPT ![h] = shared], node, data, None) /\ ArrayFits(shared, node, data)
<1> DEFINE a == arr[h]
           shared == [a EXCEPT !.dims = dims, !.data_dims = dims, !.strides = calcStrides(dims)]
<1>1. ArrayFits(a, node, data) /\ isReady(a) /\ elements(a.dims) = elements(dims)
  BY DEF Fits, modDims, Live
<1>3. dims \in DimVec /\ a.dims \in DimVec
  BY <1>1, JitAssumption DEF ArrayFits, Arrays, DimVec
<1>4. Settle([arr EXCEPT ![h] = shared], node, data, None)
  <2>1. [arr EXCEPT ![h] = [@ EXCEPT !.dims = dims, !.data_dims = dims, !.strides = calcStrides(dims)]]
            = [arr EXCEPT ![h] = shared]
      OBVIOUS
  <2> QED BY <2>1 DEF modDims
<1>5. a \in Arrays /\ a.buf \in BufIds /\ InBuffer(data, a) /\ a.strides \in Strides
  BY <1>1 DEF ArrayFits, Arrays
<1>6. calcStrides(dims) \in Strides /\ Extent(dims, calcStrides(dims)) = elements(dims) - 1
  BY <1>3, ContiguousExtent
<1>7. Extent(a.dims, a.strides) = elements(dims) - 1
  BY <1>1, <1>3, <1>5, LinearExtent
<1>8. /\ shared \in Arrays
      /\ shared.dims = dims /\ shared.data_dims = dims /\ shared.strides = calcStrides(dims)
      /\ shared.off = a.off /\ shared.buf = a.buf /\ shared.node = a.node
  BY <1>3, <1>5, <1>6 DEF Arrays
<1> HIDE DEF shared
<1>9. ArrayFits(shared, node, data)
  <2>1. isReady(shared)
    BY <1>1, <1>8 DEF isReady
  <2>2. InBuffer(data, shared)
    BY <1>5, <1>6, <1>7, <1>8 DEF InBuffer
  <2>3. StridesCover(shared)
    <3>1. \A k \in Dims : calcStrides(dims)[k] \in Nat
      BY <1>6 DEF Strides
    <3> QED BY <1>8, <3>1 DEF StridesCover
  <2> QED BY <1>5, <1>8, <2>1, <2>2, <2>3 DEF ArrayFits
<1> QED BY <1>4, <1>9 DEF shared

\* A reshaped array that shares its buffer is contiguous there.
LEMMA modDimsFits ==
    ASSUME HeapInv, Fits(arr, node, data), NEW h \in Handles, NEW dims \in Shapes, modDims(h, dims)
    PROVE  Fits(arr', node', data')
<1> DEFINE a == arr[h]
           shared == [a EXCEPT !.dims = dims, !.data_dims = dims, !.strides = calcStrides(dims)]
           b == FreshBufs[1]
           v == Read(data, a)
<1>1. ArrayFits(a, node, data) /\ isReady(a) /\ elements(a.dims) = elements(dims)
  BY DEF Fits, modDims, Live
<1>2. HeapOK(node) /\ data \in Buffers /\ \A n \in NodeIds : node[n] # NoNode => node[n] # NoNode
  BY DEF HeapInv, Fits
<1>3. CASE isLinear(a)
  <2>1. Settle([arr EXCEPT ![h] = shared], node, data, None) /\ ArrayFits(shared, node, data)
    BY <1>3, SharedBuffer
  <2>2. Ref(node, shared.node)
    <3>1. shared.node = a.node
      BY <1>1 DEF ArrayFits, Arrays
    <3> QED BY <1>1, <3>1 DEF isReady, Ref
  <2> HIDE DEF shared
  <2> QED BY <1>2, <2>1, <2>2, PutFits
<1>4. CASE ~ isLinear(a)
  <2>1. Settle([arr EXCEPT ![h] = ReadyArray(dims, b)], node, [data EXCEPT ![b] = v], None)
    BY <1>1, <1>4 DEF modDims, Contents
  <2>2. b \in BufIds /\ data[b] = <<>>
    BY OneBuffer DEF modDims
  <2>3. v \in Seq(Values) /\ Len(v) = elements(dims)
    BY <1>1, <1>2, ReadReady
  <2> HIDE DEF b, v
  <2> QED BY <1>2, <2>1, <2>2, <2>3, PutNewBuffer
<1> QED BY <1>3, <1>4

\* A call begins: it has the buffers it may need.
LEMMA BegunFits ==
    ASSUME HeapInv, Fits(arr, node, data), NEW op \in OperandOps, NEW ins, NEW arg, NEW todo,
           Begin(op, ins, arg, todo),
           op \in {"nary", "select", "moddims"} => arg \in Shapes,
           op = "shift" => arg \in [Dims -> Int],
           op = "index" => SeqsInside(arg, arr[ins[1]].dims) /\ todo # <<>>,
           op = "moddims" => /\ elements(arg) = elements(arr[ins[1]].dims) /\ ~ isReady(arr[ins[1]])
                             /\ todo = <<>> => LinearTree(node, arr[ins[1]].node, arr[ins[1]].dims)
    PROVE  GeoInv'
<1>1. /\ call'.op = op /\ call'.ins = ins /\ call'.arg = arg /\ call'.todo = todo /\ call'.node = None
      /\ arr' = arr /\ node' = node /\ data' = data
      /\ \A i \in 1 .. Len(ins) : Live(ins[i])
  BY DEF Begin
<1>2. Fits(arr', node', data')
  BY <1>1
<1>3. CallKnown'
  BY <1>1 DEF CallKnown, OperandOps, Ops
<1>4. CallBufs'
  <2>1. FreeBufs' = FreeBufs /\ Unready' = Unready
    BY <1>1 DEF FreeBufs, Unready
  <2>2. Cardinality(FreeBufs) >= Cardinality(Handles) + 2
    BY DEF Begin, Room
  <2>3. Cardinality(Unready) <= Cardinality(Handles) /\ Cardinality(Unready) \in Nat /\ Cardinality(Handles) \in Nat
    <3>1. IsFiniteSet(Handles)
      <4>1. Handles \in SUBSET BufIds /\ IsFiniteSet(BufIds)
        BY JitAssumption
      <4> QED BY <4>1, FS_Subset
    <3>2. Unready \in SUBSET Handles
      BY DEF Unready
    <3> QED BY <3>1, <3>2, FS_Subset, FS_CardinalityType
  <2>4. Cardinality(FreeBufs) >= 2 + Cardinality(Unready)
    BY <2>2, <2>3, FreeBufCount
  <2>5. \A i \in 1 .. Len(ins) : Live(ins[i])'
    BY <1>1 DEF Live
  <2> QED BY <1>1, <2>1, <2>4, <2>5 DEF CallBufs
<1>5. CallArg'
  BY <1>1 DEF CallArg
<1>6. CallIndex'
  BY <1>1 DEF CallIndex
<1>7. CallModdims'
  BY <1>1 DEF CallModdims
<1> QED BY <1>2, <1>3, <1>4, <1>5, <1>6, <1>7 DEF GeoInv, CallFits

\* The calls that may evaluate their operands begin as the steps need it.
LEMMA CallGeo ==
    ASSUME HeapInv, Fits(arr, node, data), call = NoCall, Call
    PROVE  GeoInv'
<1> USE ArityOf
<1>1. ASSUME Fits(arr', node', data'), UNCHANGED call PROVE GeoInv'
  BY <1>1, ReturnedFits DEF GeoInv
<1>2. \A h \in Handles : Live(h) => arr[h].dims \in Shapes
  BY DEF Fits, Live, ArrayFits, Arrays
<1>3. ASSUME NEW h \in Handles, NEW s \in Shapes,
             \/ createHostDataArray(h, s) \/ createValueArray(h, s) \/ modDims(h, s)
             \/ moddimOp(h, s) \/ tile(h, s)
      PROVE  GeoInv'
  <2>1. CASE createHostDataArray(h, s)
    <3>1. UNCHANGED call
      BY <2>1 DEF createHostDataArray
    <3> QED BY <1>1, <2>1, <3>1, createHostDataArrayFits
  <2>2. CASE createValueArray(h, s)
    <3>1. UNCHANGED call
      BY <2>2 DEF createValueArray
    <3> QED BY <1>1, <2>2, <3>1, createValueArrayFits
  <2>3. CASE modDims(h, s)
    <3>1. UNCHANGED call
      BY <2>3 DEF modDims
    <3> QED BY <1>1, <2>3, <3>1, modDimsFits
  <2>4. CASE moddimOp(h, s)
    <3>1. PICK todo : /\ Begin("moddims", <<h>>, s, todo)
                      /\ todo = <<>> => LinearTree(node, arr[h].node, arr[h].dims)
      <4>1. <<h>> # <<>>
        OBVIOUS
      <4> QED BY <2>4, <4>1 DEF moddimOp, LinearTree
    <3>2. elements(s) = elements(arr[h].dims) /\ ~ isReady(arr[h]) /\ <<h>>[1] = h
      BY <2>4, OperandLists DEF moddimOp
    <3> QED BY <3>1, <3>2, BegunFits
  <2>5. CASE tile(h, s)
    <3>1. Begin("nary", <<h>>, s, <<>>)
      BY <2>5 DEF tile
    <3> QED BY <3>1, BegunFits
  <2> QED BY <1>3, <2>1, <2>2, <2>3, <2>4, <2>5
<1>4. ASSUME NEW hs \in SUBSET Handles \ {{}}, evalMultiple(hs) PROVE GeoInv'
  <2>1. UNCHANGED call /\ hs \in SUBSET Handles
    BY <1>4 DEF evalMultiple
  <2> QED BY <1>1, <1>4, <2>1, evalMultipleFits
<1>5. ASSUME NEW h \in Handles, release(h) PROVE GeoInv'
  <2>1. UNCHANGED call
    BY <1>5 DEF release
  <2> QED BY <1>1, <1>5, <2>1, releaseFits
<1>6. ASSUME NEW h \in Handles, NEW g \in Handles,
             retainHandle(g, h) \/ copyArray(g, h) \/ binaryOp(h, g)
      PROVE  GeoInv'
  <2>1. CASE retainHandle(g, h)
    <3>1. UNCHANGED call
      BY <2>1 DEF retainHandle
    <3> QED BY <1>1, <2>1, <3>1, retainHandleFits
  <2>2. CASE copyArray(g, h)
    <3>1. UNCHANGED call
      BY <2>2 DEF copyArray
    <3> QED BY <1>1, <2>2, <3>1, copyArrayFits
  <2>3. CASE binaryOp(h, g)
    <3>1. Begin("nary", <<h, g>>, arr[h].dims, <<>>)
      BY <2>3 DEF binaryOp
    <3>2. Live(h)
      <4>1. 1 \in 1 .. Len(<<h, g>>) /\ <<h, g>>[1] = h
        BY OperandLists
      <4> QED BY <3>1, <4>1 DEF Begin
    <3> QED BY <1>2, <3>1, <3>2, BegunFits
  <2> QED BY <1>6, <2>1, <2>2, <2>3
<1>7. ASSUME NEW h \in Handles, NEW g \in Handles, NEW k \in Handles, select(h, g, k) PROVE GeoInv'
  <2>1. Begin("select", <<h, g, k>>, arr[h].dims, <<>>)
    BY <1>7 DEF select
  <2>2. Live(h)
    <3>1. 1 \in 1 .. Len(<<h, g, k>>) /\ <<h, g, k>>[1] = h
      BY OperandLists
    <3> QED BY <2>1, <3>1 DEF Begin
  <2> QED BY <1>2, <2>1, <2>2, BegunFits
<1>8. ASSUME NEW h \in Handles, NEW a \in ShiftAmounts, shift(h, a) PROVE GeoInv'
  <2>1. Begin("shift", <<h>>, a, <<h>>) /\ a \in [Dims -> Int]
    BY <1>8, JitAssumption DEF shift
  <2> QED BY <2>1, BegunFits
<1>9. ASSUME NEW h \in Handles, NEW seqs \in [Dims -> Seqs], index(h, seqs),
             \A k \in Dims : isSpan(seqs[k]) \/ {seqs[k].begin, seqs[k].end} \subseteq 0 .. arr[h].dims[k] - 1,
             toDims(seqs, arr[h].dims) \in Shapes
      PROVE  GeoInv'
  <2>1. Begin("index", <<h>>, seqs, <<h>>)
    BY <1>9 DEF index
  <2>2. SeqsInside(seqs, arr[h].dims) /\ <<h>> # <<>> /\ <<h>>[1] = h
    BY <1>9 DEF SeqsInside
  <2> QED BY <2>1, <2>2, BegunFits
<1> QED BY <1>3, <1>4, <1>5, <1>6, <1>7, <1>8, <1>9 DEF Call

(***************************************************************************)
(* The steps of a call.                                                    *)
(***************************************************************************)

\* The operands are arrays.
LEMMA OperandFits ==
    ASSUME TreeInv, GeoInv, call.op \in OperandOps, NEW i \in 1 .. Len(call.ins)
    PROVE  /\ call.ins[i] \in Handles /\ Live(call.ins[i]) /\ ArrayFits(arr[call.ins[i]], node, data)
           /\ arr[call.ins[i]].dims \in Shapes /\ arr[call.ins[i]].dims \in DimVec
<1>1. call.ins[i] \in Handles
  BY FirstOperand DEF TreeInv, CallInv
<1>2. Live(call.ins[i])
  BY DEF GeoInv, CallFits, CallBufs
<1>3. ArrayFits(arr[call.ins[i]], node, data)
  BY <1>1, <1>2 DEF GeoInv, Fits, Live
<1> QED BY <1>1, <1>2, <1>3, JitAssumption DEF ArrayFits, Arrays, DimVec

\* A list of one
LEMMA OnlyElement ==
    ASSUME NEW s \in Seq(Handles), s # <<>>, Len(s) = 1
    PROVE  Head(s) = s[1] /\ Tail(s) = <<>>
<1>1. Tail(s) \in Seq(Handles) /\ Len(Tail(s)) = 0
  OBVIOUS
<1>2. \A t \in Seq(Handles) : Len(t) = 0 => t = <<>>
  OBVIOUS
<1>3. Head(s) = s[1]
  OBVIOUS
<1> QED BY <1>1, <1>2, <1>3

\* There are finitely many arrays to evaluate.
LEMMA UnreadyCount == Cardinality(Unready) \in Nat /\ IsFiniteSet(Unready)
<1>1. Handles \in SUBSET BufIds /\ IsFiniteSet(BufIds)
  BY JitAssumption
<1>2. Unready \in SUBSET Handles /\ IsFiniteSet(Handles)
  BY <1>1, FS_Subset DEF Unready
<1> QED BY <1>2, FS_Subset, FS_CardinalityType

\* A step that fills no buffer leaves as many free ones.
LEMMA KeptBufs ==
    ASSUME \A b \in BufIds : data[b] = <<>> => data'[b] = <<>>
    PROVE  Cardinality(FreeBufs') \in Nat /\ Cardinality(FreeBufs') >= Cardinality(FreeBufs)
<1>1. {} \in SUBSET FreeBufs /\ \A b \in BufIds : b \in FreeBufs \ {} => data'[b] = <<>>
  BY DEF FreeBufs
<1>2. /\ Cardinality(FreeBufs') \in Nat
      /\ Cardinality(FreeBufs') >= Cardinality(FreeBufs) - Cardinality({})
  BY <1>1, FreeBufsLeft
<1>3. Cardinality({}) = 0
  BY FS_EmptySet
<1> QED BY <1>2, <1>3, FreeBufCount

\* A call that was refused goes on with an operand to evaluate.
LEMMA RefusedFits ==
    ASSUME CallShape, CallFits, call.op \in {"nary", "select"}, NEW todo,
           call' = [call EXCEPT !.todo = todo], UNCHANGED <<arr, node, data>>
    PROVE  CallFits'
<1>1. /\ call'.op = call.op /\ call'.ins = call.ins /\ call'.arg = call.arg /\ call'.node = call.node
  BY DEF CallShape
<1>2. FreeBufs' = FreeBufs /\ Unready' = Unready
  BY DEF FreeBufs, Unready
<1> QED BY <1>1, <1>2 DEF CallFits, CallKnown, CallBufs, CallArg, CallIndex, CallModdims, Live

\* An operand is evaluated: it takes one buffer, and is one array less to wait for.
LEMMA EvalOperandFits ==
    ASSUME TreeInv, GeoInv, EvalOperand
    PROVE  GeoInv'
<1> DEFINE h == Head(call.todo)
<1> USE DEF GeoInv, CallFits
<1>1. /\ call.todo \in Seq(Handles) /\ call.todo # <<>> /\ h \in Handles
      /\ call'.op = call.op /\ call'.ins = call.ins /\ call'.arg = call.arg /\ call'.node = call.node
      /\ call'.todo = Tail(call.todo)
  <2>1. call.todo \in Seq(Handles) /\ call.todo # <<>>
    BY DEF EvalOperand, TreeInv, CallInv, CallShape
  <2>2. call' = [call EXCEPT !.todo = Tail(call.todo)]
    BY DEF EvalOperand
  <2>3. call = [op |-> call.op, ins |-> call.ins, arg |-> call.arg, todo |-> call.todo, node |-> call.node]
    BY DEF TreeInv, CallInv, CallShape
  <2>4. /\ call'.op = call.op /\ call'.ins = call.ins /\ call'.arg = call.arg /\ call'.node = call.node
        /\ call'.todo = Tail(call.todo)
    BY <2>2, <2>3
  <2>5. h \in Handles
    BY <2>1
  <2> QED BY <2>1, <2>4, <2>5
<1>2. call.op \in {"moddims", "index"} => h = call.ins[1] /\ Tail(call.todo) = <<>>
  <2> SUFFICES ASSUME call.op \in {"moddims", "index"} PROVE h = call.ins[1] /\ Tail(call.todo) = <<>>
    OBVIOUS
  <2>1. call.todo = call.ins /\ Len(call.ins) = 1
    BY <1>1 DEF TreeInv, CallInv, CallWaits, CallShape, OperandOps, Arity
  <2> QED BY <1>1, <2>1, OnlyElement
<1> HIDE DEF h
<1>3. /\ Cardinality(FreeBufs) \in Nat /\ Cardinality(Unready) \in Nat /\ IsFiniteSet(Unready)
      /\ Cardinality(FreeBufs) >= 1
  <2>1. Cardinality(Unready) \in Nat /\ IsFiniteSet(Unready)
    BY UnreadyCount
  <2>2. call.op = "eval" \/ call.op \in OperandOps
    BY <1>1 DEF CallKnown, Ops, OperandOps
  <2> QED BY <1>1, <2>1, <2>2, FreeBufCount DEF CallKnown, CallBufs
<1>4. /\ Fits(arr', node', data')
      /\ call.node # None => call.node \notin ShiftInputs(node')
      /\ isReady(arr'[h]) /\ (~ isReady(arr[h]) => isLinear(arr'[h])) /\ (isReady(arr[h]) => arr'[h] = arr[h])
      /\ \A g \in Handles : arr'[g].dims = arr[g].dims /\ (Live(g) => arr'[g] # NoArray)
      /\ Cardinality(FreeBufs) >= 2 + Cardinality(Unready) =>
           Cardinality(FreeBufs') >= 2 + Cardinality(Unready')
  <2>1. CASE isReady(arr[h])
    <3>1. arr' = arr /\ node' = node /\ data' = data
      BY <2>1 DEF EvalOperand, h
    <3>2. FreeBufs' = FreeBufs /\ Unready' = Unready
      BY <3>1 DEF FreeBufs, Unready
    <3> QED BY <2>1, <3>1, <3>2 DEF CallArg, Live
  <2>2. CASE ~ isReady(arr[h])
    <3>1. LET e == Evaluate({h}) IN Settle(e.arr, e.node, e.data, call.node)
      BY <2>2 DEF EvalOperand, h
    <3>2. Pending({h}) = {h} /\ {h} \in SUBSET Handles /\ Cardinality({h}) = 1
      BY <1>1, <2>2, FS_Singleton DEF Pending
    <3>3. HeapInv /\ Ref(node, call.node) /\ call.node \notin ShiftInputs(node)
      <4>1. HeapInv /\ Ref(node, call.node)
        BY DEF TreeInv, CallInv, CallNodeOK, Ref
      <4> QED BY <4>1, NoRoot DEF CallArg
    <3>4. \A f, g \in {h} : arr[f].dims = arr[g].dims
      OBVIOUS
    <3>5. Pending({h}) # {} /\ Cardinality(Pending({h})) <= Cardinality(FreeBufs)
      BY <1>3, <3>2
    <3>6. /\ Fits(arr', node', data') /\ call.node \notin ShiftInputs(node')
          /\ \A g \in Handles : IF g \in Pending({h})
                                THEN isReady(arr'[g]) /\ isLinear(arr'[g]) /\ arr'[g].dims = arr[g].dims
                                     /\ arr'[g] # NoArray
                                ELSE arr'[g] = arr[g]
          /\ \E F \in SUBSET FreeBufs :
               /\ Cardinality(F) = Cardinality(Pending({h}))
               /\ \A b \in BufIds : b \in FreeBufs \ F => data'[b] = <<>>
      BY <3>1, <3>2, <3>3, <3>4, <3>5, EvaluateFits
    <3>7. /\ isReady(arr'[h]) /\ isLinear(arr'[h])
          /\ \A g \in Handles : arr'[g].dims = arr[g].dims /\ (Live(g) => arr'[g] # NoArray)
          /\ \A g \in Handles : g # h => arr'[g] = arr[g]
      BY <1>1, <3>2, <3>6 DEF Live
    <3>8. PICK F \in SUBSET FreeBufs :
             Cardinality(F) = 1 /\ \A b \in BufIds : b \in FreeBufs \ F => data'[b] = <<>>
      BY <3>2, <3>6
    <3>9. Cardinality(FreeBufs') \in Nat /\ Cardinality(FreeBufs') >= Cardinality(FreeBufs) - 1
      BY <3>8, FreeBufsLeft
    <3>10. Cardinality(Unready') = Cardinality(Unready) - 1
      <4>1. Unready' = Unready \ {h} /\ h \in Unready
        BY <1>1, <2>2, <3>7 DEF Unready
      <4> QED BY <1>3, <4>1, FS_RemoveElement
    <3>11. Cardinality(FreeBufs) >= 2 + Cardinality(Unready) =>
             Cardinality(FreeBufs') >= 2 + Cardinality(Unready')
      BY <1>3, <3>9, <3>10
    <3> QED BY <2>2, <3>6, <3>7, <3>11
  <2> QED BY <2>1, <2>2
<1>5. CallKnown'
  <2>1. call.op = "eval" => Tail(call.todo) = <<>>
    <3> SUFFICES ASSUME call.op = "eval" PROVE Tail(call.todo) = <<>>
      OBVIOUS
    <3>1. Len(call.todo) <= 1
      BY DEF CallKnown
    <3> QED BY <1>1, <3>1
  <2>2. Len(<<>>) <= 1
    BY ONLY TRUE
  <2> QED BY <1>1, <2>1, <2>2 DEF CallKnown
<1>6. CallBufs'
  <2>1. call.op \in OperandOps => \A i \in 1 .. Len(call.ins) : Live(call.ins[i]) /\ call.ins[i] \in Handles
    BY OperandFits
  <2>2. call.op \in OperandOps => Cardinality(FreeBufs') >= 2 + Cardinality(Unready')
    BY <1>4 DEF CallBufs
  <2> QED BY <1>1, <1>4, <2>1, <2>2 DEF CallBufs, Live
<1>7. CallArg'
  BY <1>1, <1>4 DEF CallArg
<1>8. CallIndex'
  BY <1>1, <1>2, <1>4 DEF CallIndex
<1>9. CallModdims'
  <2>1. call.op = "moddims" => isReady(arr'[call.ins[1]]) /\ isLinear(arr'[call.ins[1]])
    BY <1>1, <1>2, <1>4 DEF CallModdims
  <2> QED BY <1>1, <1>2, <1>4, <2>1 DEF CallModdims
<1> QED BY <1>4, <1>5, <1>6, <1>7, <1>8, <1>9

\* An evaluation returns.
LEMMA FinishEvalFits ==
    ASSUME TreeInv, GeoInv, FinishEval
    PROVE  GeoInv'
<1>1. call' = NoCall /\ UNCHANGED <<arr, node, data>>
  BY DEF FinishEval
<1>2. Fits(arr', node', data')
  BY <1>1 DEF GeoInv
<1> QED BY <1>1, <1>2, ReturnedFits DEF GeoInv

\* The result of a call takes the place of the first operand.
LEMMA FinishFits ==
    ASSUME HeapInv, NEW N, HeapOK(N), \A n \in NodeIds : node[n] # NoNode => N[n] # NoNode,
           NEW D, Fits(arr, N, D), Head(call.ins) \in Handles, NEW a, Ref(N, a.node),
           ArrayFits(a, N, D), NEW v, Finish(a, N, D, v)
    PROVE  /\ Fits(arr', node', data') /\ \A b \in BufIds : D[b] = <<>> => data'[b] = <<>>
<1>1. Settle([arr EXCEPT ![Head(call.ins)] = a], N, D, None)
  BY DEF Finish
<1> QED BY <1>1, PutFits, Zenon

\* The node that was built under memory pressure is no buffer that a shift reads.
LEMMA ReturnOldNodeFits ==
    ASSUME TreeInv, GeoInv, ReturnOldNode
    PROVE  GeoInv'
<1> DEFINE a == createNodeArray(call.arg, call.node)
<1>1. HeapInv /\ HeapOK(node) /\ Head(call.ins) \in Handles
  BY FirstOperand DEF TreeInv, HeapInv, CallInv, ReturnOldNode, OperandOps
<1>2. call.node \in NodeIds /\ node[call.node] # NoNode /\ call.node \notin ShiftInputs(node)
  BY DEF ReturnOldNode, TreeInv, CallInv, CallNodeOK, GeoInv, CallFits, CallArg
<1>3. call.arg \in Shapes /\ Fits(arr, node, data)
  BY DEF ReturnOldNode, GeoInv, CallFits, CallArg
<1>4. ArrayFits(a, node, data) /\ Ref(node, a.node)
  BY <1>2, <1>3, NodeArrayFits, MadeArrays DEF Ref
<1>5. Finish(a, node, data, OperationOn(call.ins, call.arg)) /\ call' = NoCall
  BY DEF ReturnOldNode
<1> HIDE DEF a
<1>6. Fits(arr', node', data')
  BY <1>1, <1>3, <1>4, <1>5, FinishFits
<1> QED BY <1>5, <1>6, ReturnedFits DEF GeoInv

\* The nodes that an operation reads its operands from: their trees, or new
\* nodes for their buffers
LEMMA OperandNodesFit ==
    ASSUME HeapInv, Fits(arr, node, data), NEW ins, Len(ins) \in 1 .. kMaxChildren,
           ins \in [1 .. Len(ins) -> Handles], Len(ins) <= Cardinality(FreeNodes),
           \A i \in 1 .. Len(ins) : Live(ins[i])
    PROVE  LET N == WithBufferNodes(ins)
               nodes == GetNodes(ins)
           IN  /\ Fits(arr, N, data) /\ HeapOK(N)
               /\ \A i \in 1 .. Len(ins) : nodes[i] \in NodeIds \ ShiftInputs(N) /\ N[nodes[i]] # NoNode
               /\ \A n \in NodeIds : node[n] # NoNode => N[n] = node[n]
               /\ \A i \in 1 .. Len(ins) : isReady(arr[ins[i]]) =>
                    \E j \in 1 .. Len(ins) : N[nodes[i]] = BufferNode(arr[ins[j]]) /\ FreshNodes[j] = FreshNodes[i]
<1> DEFINE N == WithBufferNodes(ins)
           nodes == GetNodes(ins)
           made == {i \in 1 .. Len(ins) : isReady(arr[ins[i]])}
<1>1. HeapOK(node) /\ ArrNodesOK /\ data \in Buffers
  BY DEF HeapInv, Fits
<1>2. /\ HeapOK(N)
      /\ Len(nodes) = Len(ins) /\ nodes \in [1 .. Len(ins) -> NodeIds]
      /\ \A i \in 1 .. Len(ins) :
           /\ N[nodes[i]] # NoNode
           /\ isReady(arr[ins[i]]) => N[nodes[i]].kind = "buffer" /\ nodes[i] = FreshNodes[i]
           /\ ~ isReady(arr[ins[i]]) => nodes[i] = arr[ins[i]].node
      /\ \A n \in NodeIds : node[n] # NoNode => N[n] = node[n]
  BY <1>1, OperandNodes
<1>3. \A i \in 1 .. Len(ins) : ArrayFits(arr[ins[i]], node, data)
  BY DEF Fits, Live
<1>4. ASSUME NEW n \in NodeIds
      PROVE  \/ N[n] = node[n]
             \/ \E j \in made : FreshNodes[j] = n /\ N[n] = BufferNode(arr[ins[j]])
  <2>1. CASE \E i \in made : FreshNodes[i] = n
    <3>1. N[n] = BufferNode(arr[ins[CHOOSE i \in made : FreshNodes[i] = n]])
      BY <2>1 DEF WithBufferNodes
    <3> QED BY <2>1, <3>1
  <2>2. CASE ~ \E i \in made : FreshNodes[i] = n
    BY <2>2 DEF WithBufferNodes
  <2> QED BY <2>1, <2>2
<1>5. \A i \in 1 .. Len(ins) : FreshNodes[i] \in NodeIds /\ node[FreshNodes[i]] = NoNode
  <2>1. \A i \in 1 .. Len(ins) : i \in 1 .. Cardinality(FreeNodes)
    BY FreeCount DEF kMaxChildren
  <2> QED BY <2>1, FreshNode
<1> HIDE DEF N, nodes
<1>6. ASSUME NEW n \in NodeIds, node[n] = NoNode
      PROVE  NodeFits(N, data, n) /\ N[n].kind # "shift"
  <2>1. CASE N[n] = node[n]
    BY <1>6, <2>1 DEF NodeFits, NoNode
  <2>2. ASSUME NEW j \in made, N[n] = BufferNode(arr[ins[j]]) PROVE NodeFits(N, data, n) /\ N[n].kind # "shift"
    <3>1. /\ BufferNode(arr[ins[j]]) \in BufferNodes /\ InBuffer(data, BufferNode(arr[ins[j]]))
          /\ BufferNode(arr[ins[j]]).linear => Flat(data, BufferNode(arr[ins[j]]))
          /\ BufferNode(arr[ins[j]]).kind = "buffer"
      BY <1>1, <1>3, BufferNodeFits
    <3> QED BY <2>2, <3>1 DEF NodeFits
  <2> QED BY <1>4, <2>1, <2>2
<1>7. \A h \in Handles : Ref(node, arr[h].node)
  BY <1>1 DEF ArrNodesOK
<1>8. Fits(arr, N, data)
  BY <1>1, <1>2, <1>6, <1>7, AddFits
<1>9. \A n \in NodeIds : n \in ShiftInputs(N) => n \in ShiftInputs(node)
  <2>1. \A m \in NodeIds : N[m].kind = "shift" => N[m] = node[m]
    BY <1>2, <1>6
  <2> QED BY <2>1 DEF ShiftInputs
<1>10. \A n \in ShiftInputs(node) : node[n] # NoNode
  BY <1>1, ShiftsReadBuffers DEF NoNode
<1>11. ASSUME NEW i \in 1 .. Len(ins)
       PROVE  /\ nodes[i] \in NodeIds \ ShiftInputs(N) /\ N[nodes[i]] # NoNode
              /\ isReady(arr[ins[i]]) =>
                    \E j \in 1 .. Len(ins) : N[nodes[i]] = BufferNode(arr[ins[j]]) /\ FreshNodes[j] = FreshNodes[i]
  <2>1. nodes[i] \in NodeIds
    BY <1>2
  <2>2. CASE isReady(arr[ins[i]])
    <3>1. nodes[i] = FreshNodes[i] /\ node[nodes[i]] = NoNode
      BY <1>2, <1>5, <2>2
    <3>2. N[nodes[i]] # node[nodes[i]]
      BY <1>2, <3>1
    <3> QED BY <1>2, <1>4, <1>9, <1>10, <2>1, <3>1, <3>2
  <2>3. CASE ~ isReady(arr[ins[i]])
    <3>1. nodes[i] = arr[ins[i]].node /\ arr[ins[i]].node \notin ShiftInputs(node)
      BY <1>2, <1>3, <2>3 DEF ArrayFits
    <3> QED BY <1>2, <1>9, <2>1, <2>3, <3>1
  <2> QED BY <2>2, <2>3
<1> QED BY <1>2, <1>8, <1>11 DEF N, nodes

\* A node on top of the operands fits: no shift reads from an operand.
LEMMA NaryFits ==
    ASSUME HeapInv, Fits(arr, node, data), NEW ins, Len(ins) \in 1 .. kMaxChildren,
           ins \in [1 .. Len(ins) -> Handles], Cardinality(FreeNodes) >= Len(ins) + 1,
           \A i \in 1 .. Len(ins) : Live(ins[i])
    PROVE  LET N == WithBufferNodes(ins)
               ptr == FreshNodes[Len(ins) + 1]
               N1 == [N EXCEPT ![ptr] = NaryNode(N, GetNodes(ins))]
           IN  /\ Fits(arr, N1, data) /\ HeapOK(N1) /\ ptr \in NodeIds \ ShiftInputs(N1)
               /\ N1[ptr] # NoNode /\ \A n \in NodeIds : node[n] # NoNode => N1[n] # NoNode
<1> DEFINE N == WithBufferNodes(ins)
           nodes == GetNodes(ins)
           ptr == FreshNodes[Len(ins) + 1]
           r == NaryNode(N, nodes)
           N1 == [N EXCEPT ![ptr] = r]
<1>1. Cardinality(FreeNodes) \in Nat /\ Len(ins) \in Nat /\ Len(ins) <= Cardinality(FreeNodes)
  BY FreeCount DEF kMaxChildren
<1>2. /\ Fits(arr, N, data) /\ HeapOK(N)
      /\ \A i \in 1 .. Len(ins) : nodes[i] \in NodeIds \ ShiftInputs(N) /\ N[nodes[i]] # NoNode
      /\ \A n \in NodeIds : node[n] # NoNode => N[n] = node[n]
  BY <1>1, OperandNodesFit
<1>3. /\ ptr \in NodeIds /\ HeapOK(N1) /\ N1[ptr] # NoNode
      /\ \A n \in NodeIds : node[n] # NoNode => N1[n] # NoNode
      /\ Len(nodes) = Len(ins)
  BY NaryReady
<1>4. N[ptr] = NoNode
  <2>1. HeapOK(node) /\ ArrNodesOK
    BY DEF HeapInv
  <2>2. \A n \in NodeIds : (\A i \in 1 .. Len(ins) : n # FreshNodes[i]) => N[n] = node[n]
    BY <1>1, <2>1, OperandNodes
  <2>3. Len(ins) + 1 \in 1 .. Cardinality(FreeNodes) /\ 1 .. Len(ins) \subseteq 1 .. Cardinality(FreeNodes)
    BY <1>1
  <2>4. node[ptr] = NoNode /\ \A j \in 1 .. Cardinality(FreeNodes) : FreshNodes[j] = ptr => j = Len(ins) + 1
    BY <2>3, FreshNode
  <2> QED BY <1>1, <1>3, <2>2, <2>3, <2>4
<1>5. r.kind = "nary" /\ r.children = nodes
  BY DEF NaryNode
<1> HIDE DEF N, r, nodes, ptr
<1>6. N1[ptr] = r /\ \A n \in NodeIds : n # ptr => N1[n] = N[n]
  BY <1>2, <1>3 DEF HeapOK
<1> HIDE DEF N1
<1>7. ShiftInputs(N1) = ShiftInputs(N)
  <2>1. \A m \in NodeIds : (N1[m].kind = "shift" <=> N[m].kind = "shift") /\ (N[m].kind = "shift" => N1[m] = N[m])
    BY <1>4, <1>5, <1>6 DEF NoNode
  <2> QED BY <2>1 DEF ShiftInputs
<1>8. \A h \in Handles : Ref(N, arr[h].node)
  BY <1>2 DEF HeapInv, ArrNodesOK, Ref
<1>9. ASSUME NEW n \in NodeIds, N[n] = NoNode PROVE NodeFits(N1, data, n) /\ N1[n].kind # "shift"
  <2>1. CASE n = ptr
    BY <1>2, <1>3, <1>5, <1>6, <1>7, <2>1 DEF NodeFits
  <2>2. CASE n # ptr
    BY <1>6, <1>9, <2>2 DEF NodeFits, NoNode
  <2> QED BY <2>1, <2>2
<1>10. Fits(arr, N1, data)
  <2>1. \A n \in NodeIds : N[n] # NoNode => N1[n] = N[n]
    BY <1>4, <1>6
  <2> QED BY <1>2, <1>8, <1>9, <2>1, AddFits
<1>11. ptr \notin ShiftInputs(N1)
  BY <1>3, <1>5, <1>6, ShiftsReadBuffers
<1> QED BY <1>3, <1>10, <1>11 DEF N1, N, r, nodes, ptr

\* A new tree of an operation, a call that goes on, or one with the node it
\* built before the evaluation
LEMMA createNaryNodeFits ==
    ASSUME TreeInv, GeoInv, createNaryNode
    PROVE  GeoInv'
<1> DEFINE ins == call.ins
           N == WithBufferNodes(ins)
           nodes == GetNodes(ins)
           ptr == FreshNodes[Len(ins) + 1]
           N1 == [N EXCEPT ![ptr] = NaryNode(N, nodes)]
           a == createNodeArray(call.arg, ptr)
<1>1. HeapInv /\ CallShape /\ CallRoom /\ Fits(arr, node, data) /\ CallFits
  BY DEF TreeInv, CallInv, GeoInv
<1>2. call.op = "nary" /\ call.todo = <<>> /\ call.node = None
  BY DEF createNaryNode, Executing
<1>3. /\ Len(ins) \in 1 .. kMaxChildren /\ ins \in [1 .. Len(ins) -> Handles] /\ Head(ins) \in Handles
      /\ Cardinality(FreeNodes) >= Len(ins) + 1 /\ \A i \in 1 .. Len(ins) : Live(ins[i])
      /\ call.arg \in Shapes /\ Cardinality(FreeBufs) >= 2 + Cardinality(Unready)
  BY <1>1, <1>2, FirstOperand DEF CallRoom, OperandOps, CallFits, CallBufs, CallArg
<1>4. /\ Fits(arr, N1, data) /\ HeapOK(N1) /\ ptr \in NodeIds \ ShiftInputs(N1)
      /\ N1[ptr] # NoNode /\ \A n \in NodeIds : node[n] # NoNode => N1[n] # NoNode
  <2> HIDE DEF ins
  <2> QED BY <1>1, <1>3, NaryFits
<1>5. \/ /\ Finish(a, N1, data, OperationOn(ins, call.arg)) /\ call' = NoCall
      \/ /\ call' = [call EXCEPT !.todo = <<ins[Tallest(N, nodes)]>>]
         /\ UNCHANGED <<arr, node, data>>
      \/ /\ call' = [call EXCEPT !.todo = ins, !.node = ptr]
         /\ Settle(arr, N1, data, ptr)
  BY DEF createNaryNode
<1> HIDE DEF N, nodes, ptr, N1
<1>6. CASE Finish(a, N1, data, OperationOn(ins, call.arg)) /\ call' = NoCall
  <2>1. ArrayFits(a, N1, data) /\ Ref(N1, a.node)
    BY <1>3, <1>4, NodeArrayFits, MadeArrays DEF Ref
  <2> HIDE DEF a
  <2>2. Fits(arr', node', data')
    BY <1>1, <1>3, <1>4, <1>6, <2>1, FinishFits
  <2> QED BY <1>6, <2>2, ReturnedFits DEF GeoInv
<1>7. CASE /\ call' = [call EXCEPT !.todo = <<ins[Tallest(N, nodes)]>>]
           /\ UNCHANGED <<arr, node, data>>
  BY <1>1, <1>2, <1>7, RefusedFits DEF GeoInv
<1>8. CASE /\ call' = [call EXCEPT !.todo = ins, !.node = ptr]
           /\ Settle(arr, N1, data, ptr)
  <2>1. Ref(N1, ptr) /\ \A h \in Handles : Ref(N1, arr[h].node)
    BY <1>1, <1>4 DEF Ref, HeapInv, ArrNodesOK
  <2>2. /\ Fits(arr', node', data') /\ ptr \notin ShiftInputs(node')
        /\ \A b \in BufIds : data'[b] \in {data[b], <<>>}
    BY <1>4, <1>8, <2>1, SettleFits
  <2>3. arr' = arr
    BY <1>8 DEF Settle
  <2>4. /\ call'.op = "nary" /\ call'.ins = ins /\ call'.arg = call.arg /\ call'.node = ptr
    BY <1>1, <1>2, <1>8 DEF CallShape
  <2>5. Cardinality(FreeBufs') >= 2 + Cardinality(Unready')
    <3>1. Unready' = Unready
      BY <2>3 DEF Unready
    <3>2. Cardinality(FreeBufs') >= Cardinality(FreeBufs) /\ Cardinality(FreeBufs') \in Nat
      BY <2>2, KeptBufs
    <3>3. Cardinality(Unready) \in Nat
      BY UnreadyCount
    <3> QED BY <1>3, <3>1, <3>2, <3>3, FreeBufCount
  <2>6. CallFits'
    BY <1>3, <2>2, <2>3, <2>4, <2>5
       DEF CallFits, CallKnown, CallBufs, CallArg, CallIndex, CallModdims, Ops, OperandOps, Live
  <2> QED BY <2>2, <2>6 DEF GeoInv
<1> QED BY <1>5, <1>6, <1>7, <1>8

\* A select takes three operands.
LEMMA createSelectNodeFits ==
    ASSUME TreeInv, GeoInv, createSelectNode
    PROVE  GeoInv'
<1> DEFINE ins == call.ins
           N == WithBufferNodes(ins)
           nodes == GetNodes(ins)
           ptr == FreshNodes[4]
           N1 == [N EXCEPT ![ptr] = NaryNode(N, nodes)]
           a == createNodeArray(call.arg, ptr)
<1>1. HeapInv /\ CallShape /\ CallRoom /\ Fits(arr, node, data) /\ CallFits
  BY DEF TreeInv, CallInv, GeoInv
<1>2. call.op = "select" /\ call.todo = <<>> /\ call.node = None
  BY DEF createSelectNode, Executing
<1>3. /\ Len(ins) \in 1 .. kMaxChildren /\ ins \in [1 .. Len(ins) -> Handles] /\ Head(ins) \in Handles
      /\ Cardinality(FreeNodes) >= Len(ins) + 1 /\ \A i \in 1 .. Len(ins) : Live(ins[i])
      /\ call.arg \in Shapes /\ FreshNodes[Len(ins) + 1] = ptr
  <2>1. Len(ins) = 3
    BY <1>1, <1>2 DEF CallShape, OperandOps, Arity
  <2> QED BY <1>1, <1>2, <2>1, FirstOperand DEF CallRoom, OperandOps, CallFits, CallBufs, CallArg
<1>4. /\ Fits(arr, N1, data) /\ HeapOK(N1) /\ ptr \in NodeIds \ ShiftInputs(N1)
      /\ N1[ptr] # NoNode /\ \A n \in NodeIds : node[n] # NoNode => N1[n] # NoNode
  <2> HIDE DEF ins, ptr
  <2> QED BY <1>1, <1>3, NaryFits
<1>5. \/ /\ Finish(a, N1, data, OperationOn(ins, call.arg)) /\ call' = NoCall
      \/ /\ call' = [call EXCEPT !.todo = <<ins[SelectVictim(N, nodes)]>>]
         /\ UNCHANGED <<arr, node, data>>
  BY DEF createSelectNode
<1> HIDE DEF N, nodes, ptr, N1
<1>6. CASE Finish(a, N1, data, OperationOn(ins, call.arg)) /\ call' = NoCall
  <2>1. ArrayFits(a, N1, data) /\ Ref(N1, a.node)
    BY <1>3, <1>4, NodeArrayFits, MadeArrays DEF Ref
  <2> HIDE DEF a
  <2>2. Fits(arr', node', data')
    BY <1>1, <1>3, <1>4, <1>6, <2>1, FinishFits
  <2> QED BY <1>6, <2>2, ReturnedFits DEF GeoInv
<1>7. CASE /\ call' = [call EXCEPT !.todo = <<ins[SelectVictim(N, nodes)]>>]
           /\ UNCHANGED <<arr, node, data>>
  BY <1>1, <1>2, <1>7, RefusedFits DEF GeoInv
<1> QED BY <1>5, <1>6, <1>7

\* The nodes and the buffers in use are still there.
Extended(N, D, N2, D2) ==
    /\ \A n \in NodeIds : N[n] # NoNode => N2[n] = N[n]
    /\ \A b \in BufIds : D[b] # <<>> => D2[b] = D[b]

\* The heap with a shift node and the node of the buffer it reads
ShiftGives ==
    LET in == call.ins[1]
        dims == arr[in].dims
        b == FreshNodes[1]
        s == FreshNodes[2]
        r == ShiftNode(b, Shifts(call.arg, dims))
        N2 == [WithBufferNodes(<<in>>) EXCEPT ![s] = r]
    IN  /\ HeapOK(N2) /\ Fits(arr, N2, data) /\ Extended(node, data, N2, data)
        /\ in \in Handles /\ Head(call.ins) = in /\ Live(in) /\ isReady(arr[in])
        /\ ArrayFits(arr[in], node, data) /\ dims \in Shapes /\ dims \in DimVec /\ call.arg \in [Dims -> Int]
        /\ s \in NodeIds \ ShiftInputs(N2) /\ N2[s] = r /\ r \in ShiftNodes /\ r # NoNode
        /\ b \in NodeIds /\ N2[b] = BufferNode(arr[in]) /\ r.shifts = Shifts(call.arg, dims)
        /\ r.kind = "shift" /\ r.in = b

\* The shift of an array reads a buffer node that is new, so that no tree has it.
LEMMA ShiftMade ==
    ASSUME TreeInv, GeoInv, createShiftNode
    PROVE  ShiftGives
<1> DEFINE in == call.ins[1]
           dims == arr[in].dims
           N == WithBufferNodes(<<in>>)
           b == FreshNodes[1]
           s == FreshNodes[2]
           r == ShiftNode(b, Shifts(call.arg, dims))
           N2 == [N EXCEPT ![s] = r]
           a == createNodeArray(dims, s)
<1>1. HeapInv /\ CallShape /\ CallWaits /\ Fits(arr, node, data) /\ CallFits
  BY DEF TreeInv, CallInv, GeoInv
<1>2. call.op = "shift" /\ call.todo = <<>> /\ call.node = None
  BY DEF createShiftNode, Executing
<1>3. /\ isReady(arr[in]) /\ call.arg \in [Dims -> Int]
      /\ Len(call.ins) = 1
  BY <1>1, <1>2 DEF CallWaits, CallFits, CallArg, CallBufs, OperandOps, CallShape, Arity
<1>4. /\ in \in Handles /\ Head(call.ins) = in /\ Cardinality(FreeNodes) >= 2 /\ HeapOK(N)
      /\ b \in NodeIds /\ N[b].kind = "buffer"
      /\ \A n \in NodeIds : node[n] # NoNode => N[n] = node[n]
      /\ \A n \in NodeIds : n # b => N[n] = node[n]
  BY <1>2, <1>3, OneOperand
<1>5. Live(in) /\ ArrayFits(arr[in], node, data) /\ dims \in Shapes /\ dims \in DimVec
  <2>1. 1 \in 1 .. Len(call.ins) /\ call.op \in OperandOps
    BY <1>2, <1>3 DEF OperandOps
  <2> QED BY <2>1, OperandFits
<1>6. N[b] = BufferNode(arr[in])
  <2>1. Len(<<in>>) = 1 /\ <<in>> \in [1 .. Len(<<in>>) -> Handles] /\ <<in>>[1] = in
    BY <1>4, OperandLists
  <2> DEFINE made == {i \in 1 .. Len(<<in>>) : isReady(arr[<<in>>[i]])}
  <2>2. made = {1}
    BY <1>3, <2>1
  <2>3. \E i \in made : FreshNodes[i] = b
    BY <2>2
  <2>4. N[b] = BufferNode(arr[<<in>>[CHOOSE i \in made : FreshNodes[i] = b]])
    BY <1>4, <2>3 DEF WithBufferNodes
  <2> HIDE DEF made
  <2>5. (CHOOSE i \in made : FreshNodes[i] = b) = 1
    BY <2>2
  <2> QED BY <2>1, <2>4, <2>5
<1>7. s \in NodeIds /\ node[s] = NoNode /\ s # b /\ node[b] = NoNode
  <2>1. 1 \in 1 .. Cardinality(FreeNodes) /\ 2 \in 1 .. Cardinality(FreeNodes)
    BY <1>4, FreeCount
  <2> QED BY <2>1, FreshNode
<1>8. r \in ShiftNodes /\ Leaf(r) /\ r.kind = "shift" /\ r.in = b /\ r # NoNode /\ r.shifts = Shifts(call.arg, dims)
  <2>1. Shifts(call.arg, dims) \in Strides
    <3>1. \A k \in Dims : Shifts(call.arg, dims)[k] \in 0 .. dims[k]
      BY <1>3, <1>5, ShiftsInRange DEF DimVec
    <3>2. \A k \in Dims : Shifts(call.arg, dims)[k] \in Nat
      BY <1>5, <3>1 DEF DimVec
    <3>3. Shifts(call.arg, dims) = [k \in Dims |-> Shifts(call.arg, dims)[k]]
      BY DEF Shifts
    <3> QED BY <3>2, <3>3 DEF Strides
  <2> QED BY <1>4, <2>1 DEF ShiftNode, ShiftNodes, Leaf, NoNode
<1> HIDE DEF N, s, r, b, in
<1>10. N2 = [n \in NodeIds |-> N2[n]] /\ N2[s] = r /\ \A n \in NodeIds : n # s => N2[n] = N[n]
  BY <1>4, <1>7 DEF HeapOK
<1> HIDE DEF N2
<1>11. HeapOK(N2) /\ \A n \in NodeIds : N[n] # NoNode => N2[n] = N[n]
  <2>1. \A n \in NodeIds : \/ N2[n] = N[n]
                           \/ /\ N[n] = NoNode /\ Leaf(N2[n])
                              /\ N2[n].in \in NodeIds /\ N[N2[n].in].kind = "buffer"
    BY <1>4, <1>7, <1>8, <1>10
  <2> QED BY <1>4, <1>10, <2>1, AddLeaves
<1>12. \A n \in NodeIds : node[n] # NoNode => N2[n] = node[n]
  BY <1>4, <1>11
<1>13. Fits(arr, N2, data)
  <2>1. HeapOK(node) /\ \A g \in Handles : Ref(node, arr[g].node)
    BY <1>1 DEF HeapInv, ArrNodesOK
  <2>2. ASSUME NEW n \in NodeIds, node[n] = NoNode
        PROVE  NodeFits(N2, data, n) /\ (N2[n].kind = "shift" => n = s)
    <3>1. CASE n = s
      BY <1>8, <1>10, <3>1 DEF NodeFits
    <3>2. CASE n = b
      <4>1. N2[n] = BufferNode(arr[in])
        BY <1>6, <1>7, <1>10, <2>2, <3>2
      <4>2. /\ BufferNode(arr[in]) \in BufferNodes /\ InBuffer(data, BufferNode(arr[in]))
            /\ BufferNode(arr[in]).linear => Flat(data, BufferNode(arr[in]))
            /\ BufferNode(arr[in]).kind = "buffer"
        BY <1>1, <1>3, <1>5, BufferNodeFits DEF Fits
      <4> QED BY <4>1, <4>2 DEF NodeFits
    <3>3. CASE n # s /\ n # b
      <4>1. N2[n] = NoNode
        BY <1>4, <1>10, <2>2, <3>3
      <4> QED BY <4>1 DEF NodeFits, NoNode
    <3> QED BY <3>1, <3>2, <3>3
  <2>3. \A n \in NodeIds : node[n] = NoNode /\ N2[n].kind = "shift" => node[N2[n].in] = NoNode
    BY <1>7, <1>8, <1>10, <2>2
  <2> QED BY <1>1, <1>12, <2>1, <2>2, <2>3, AddFits
<1>14. s \notin ShiftInputs(N2)
  BY <1>8, <1>10, <1>11, ShiftsReadBuffers
<1>15. N2[b] = BufferNode(arr[in])
  BY <1>4, <1>6, <1>7, <1>10
<1>16. Extended(node, data, N2, data)
  BY <1>12 DEF Extended
<1> HIDE DEF dims
<1>17. /\ in \in Handles /\ Head(call.ins) = in /\ Live(in) /\ isReady(arr[in])
       /\ ArrayFits(arr[in], node, data) /\ dims \in Shapes /\ dims \in DimVec /\ call.arg \in [Dims -> Int]
       /\ s \in NodeIds \ ShiftInputs(N2) /\ N2[s] = r /\ r \in ShiftNodes /\ r # NoNode
       /\ b \in NodeIds
  BY <1>3, <1>4, <1>5, <1>7, <1>8, <1>10, <1>14
<1> QED BY <1>8, <1>11, <1>13, <1>15, <1>16, <1>17 DEF ShiftGives, N2, N, s, r, b, in, dims

\* An array with the shift node fits.
LEMMA createShiftNodeFits ==
    ASSUME TreeInv, GeoInv, createShiftNode
    PROVE  GeoInv'
<1> DEFINE in == call.ins[1]
           dims == arr[in].dims
           b == FreshNodes[1]
           s == FreshNodes[2]
           r == ShiftNode(b, Shifts(call.arg, dims))
           N2 == [WithBufferNodes(<<in>>) EXCEPT ![s] = r]
           a == createNodeArray(dims, s)
<1>1. HeapInv /\ CallFits
  BY DEF TreeInv, GeoInv
<1>2. Cardinality(FreeBufs) >= 2 + Cardinality(Unready)
  BY <1>1 DEF createShiftNode, Executing, CallFits, CallBufs, OperandOps
<1>3. /\ HeapOK(N2) /\ Fits(arr, N2, data) /\ Extended(node, data, N2, data)
      /\ in \in Handles /\ Head(call.ins) = in /\ dims \in Shapes
      /\ s \in NodeIds \ ShiftInputs(N2) /\ N2[s] # NoNode
  BY ShiftMade DEF ShiftGives
<1>4. /\ Finish(a, N2, data, Shifted(val[in], dims, call.arg))
      /\ call' = NoCall \/ call' = [NoCall EXCEPT !.op = "eval", !.todo = <<in>>]
  BY <1>3 DEF createShiftNode, NextCall
<1> HIDE DEF s, r, b, in, N2
<1>5. \A n \in NodeIds : node[n] # NoNode => N2[n] # NoNode
  BY <1>3 DEF Extended
<1>6. ArrayFits(a, N2, data) /\ Ref(N2, a.node)
  <2>1. a.node = s
    BY MadeArrays
  <2>2. ArrayFits(a, N2, data)
    BY <1>3, NodeArrayFits
  <2> QED BY <1>3, <2>1, <2>2 DEF Ref
<1> HIDE DEF a, dims
<1>7. Fits(arr', node', data') /\ \A c \in BufIds : data[c] = <<>> => data'[c] = <<>>
  BY <1>1, <1>3, <1>4, <1>5, <1>6, FinishFits
<1>8. Cardinality(FreeBufs') >= 1
  <2>1. Cardinality(FreeBufs') >= Cardinality(FreeBufs) /\ Cardinality(FreeBufs') \in Nat
    BY <1>7, KeptBufs
  <2> QED BY <1>2, <2>1, UnreadyCount, FreeBufCount
<1> QED BY <1>3, <1>4, <1>7, <1>8, ReturnedFits DEF GeoInv

(***************************************************************************)
(* moddims: the copies of a linear tree.                                   *)
(***************************************************************************)

\* What copyModdims copies is in the tree.
LEMMA CopiesInTree ==
    ASSUME NEW N, HeapOK(N), NEW root \in NodeIds, N[root] # NoNode
    PROVE  \A e \in Copies(N, root) : e[2] \in Tree(N, root)
<1> DEFINE h == getHeight(N, root)
           T == Tree(N, root)
           C == Copies(N, root)
<1>1. h \in Nat
  BY BelowOf
<1>2. PICK L : IsLevels(N, root, h, L) /\ C = UNION {L[k] : k \in 0 .. h}
  BY <1>1, CopiesAreLevels
<1>3. root \in T /\ Closed(N, T) /\ T \subseteq NodeIds
  BY TreeClosed
<1>4. \A k \in 0 .. h : \A e \in L[k] :
         /\ e \in Nat \X NodeIds
         /\ k # 0 => \E f \in L[k - 1] : \E i \in 1 .. Len(Children(N, f[2])) :
                        e = <<kMaxChildren * f[1] + i, Children(N, f[2])[i]>>
         /\ k = 0 => e = <<0, root>>
  BY <1>2, LevelFacts
<1> HIDE DEF h, T, C
<1> DEFINE Bad == {k \in 0 .. h : ~ \A e \in L[k] : e[2] \in T}
<1>5. Bad = {}
  <2> SUFFICES ASSUME Bad # {} PROVE FALSE
    OBVIOUS
  <2>1. PICK k \in Bad : \A j \in Bad : k <= j
    <3>1. Bad \subseteq Nat
      BY <1>1
    <3> HIDE DEF Bad
    <3> QED BY <3>1, LeastNat
  <2>2. k \in 0 .. h /\ \E e \in L[k] : e[2] \notin T
    BY <2>1
  <2>3. PICK e \in L[k] : e[2] \notin T
    BY <2>2
  <2>4. k # 0
    <3> SUFFICES ASSUME k = 0 PROVE FALSE
      OBVIOUS
    <3>1. e = <<0, root>>
      BY <1>4, <2>2, <2>3
    <3> QED BY <1>3, <2>3, <3>1
  <2>5. k - 1 \in 0 .. h /\ ~ (k <= k - 1)
    BY <1>1, <2>2, <2>4
  <2>6. \A f \in L[k - 1] : f[2] \in T
    BY <2>1, <2>5
  <2>7. PICK f \in L[k - 1] : \E i \in 1 .. Len(Children(N, f[2])) :
             e = <<kMaxChildren * f[1] + i, Children(N, f[2])[i]>>
    BY <1>4, <2>2, <2>3, <2>4
  <2>11. PICK i \in 1 .. Len(Children(N, f[2])) : e = <<kMaxChildren * f[1] + i, Children(N, f[2])[i]>>
    BY <2>7
  <2>8. f[2] \in T /\ f[2] \in NodeIds
    BY <1>3, <2>6
  <2>9. Children(N, f[2])[i] \in ToSet(Children(N, f[2]))
    BY <2>11 DEF ToSet
  <2>10. Children(N, f[2])[i] \in T
    BY <1>3, <2>8, <2>9 DEF Closed
  <2> QED BY <2>3, <2>10, <2>11
<1>6. \A k \in 0 .. h : \A e \in L[k] : e[2] \in T
  BY <1>5
<1> HIDE DEF Bad
<1> QED BY <1>2, <1>6 DEF T, C

\* A buffer node with another shape
Reshaped(r, dims, s) == [r EXCEPT !.dims = dims, !.strides = s]

\* It keeps its buffer and its offset.
LEMMA ReshapedParts ==
    ASSUME NEW r \in BufferNodes, NEW dims, NEW s
    PROVE  LET q == Reshaped(r, dims, s)
           IN  /\ q = [kind |-> "buffer", buf |-> r.buf, off |-> r.off, dims |-> dims, strides |-> s,
                       linear |-> r.linear, bytes |-> r.bytes]
               /\ q.kind = "buffer" /\ q.buf = r.buf /\ q.off = r.off /\ q.dims = dims /\ q.strides = s
<1>1. PICK kind, buf, off, rd, rs, lin, bytes :
         /\ r = [kind |-> kind, buf |-> buf, off |-> off, dims |-> rd, strides |-> rs,
                 linear |-> lin, bytes |-> bytes]
         /\ kind = "buffer"
  BY DEF BufferNodes
<1>2. Reshaped(r, dims, s) = [kind |-> kind, buf |-> buf, off |-> off, dims |-> dims, strides |-> s,
                              linear |-> lin, bytes |-> bytes]
  <2> DEFINE t == [kind |-> kind, buf |-> buf, off |-> off, dims |-> rd, strides |-> rs,
                   linear |-> lin, bytes |-> bytes]
  <2>1. Reshaped(r, dims, s) = [t EXCEPT !.dims = dims, !.strides = s]
    BY <1>1 DEF Reshaped
  <2> QED BY ONLY <2>1
<1> QED BY <1>1, <1>2

\* A buffer that is read with the index of the output, with another shape of as
\* many elements
LEMMA ReshapedBuffer ==
    ASSUME NEW D \in Buffers, NEW r \in BufferNodes, Flat(D, r), NEW dims \in DimVec,
           elements(dims) = elements(r.dims),
           NEW q, q = [r EXCEPT !.dims = dims, !.strides = calcStrides(dims)]
    PROVE  q \in BufferNodes /\ q.kind = "buffer" /\ InBuffer(D, q) /\ Flat(D, q)
<1>1. /\ r.buf \in BufIds /\ r.off \in Nat /\ r.dims \in DimVec
      /\ r.linear \in BOOLEAN /\ r.bytes \in Nat
  BY DEF BufferNodes
<1> DEFINE s == calcStrides(dims)
<1>2. s \in Strides /\ Extent(dims, s) = elements(dims) - 1
  BY ContiguousExtent
<1>3. q = Reshaped(r, dims, s)
  BY DEF Reshaped
<1> HIDE DEF s
<1>4. /\ q = [kind |-> "buffer", buf |-> r.buf, off |-> r.off, dims |-> dims, strides |-> s,
              linear |-> r.linear, bytes |-> r.bytes]
      /\ q.kind = "buffer" /\ q.buf = r.buf /\ q.off = r.off /\ q.dims = dims /\ q.strides = s
  <2> DEFINE p == Reshaped(r, dims, s)
  <2>1. /\ p = [kind |-> "buffer", buf |-> r.buf, off |-> r.off, dims |-> dims, strides |-> s,
                linear |-> r.linear, bytes |-> r.bytes]
        /\ p.kind = "buffer" /\ p.buf = r.buf /\ p.off = r.off /\ p.dims = dims /\ p.strides = s
    BY ReshapedParts
  <2> HIDE DEF p
  <2>2. q = p
    BY <1>3 DEF p
  <2> QED BY <2>1, <2>2
<1>5. q \in BufferNodes
  BY <1>1, <1>2, <1>4 DEF BufferNodes
<1>6. elements(dims) \in Nat /\ Len(D[r.buf]) \in Nat
  BY <1>1, ShapeFacts DEF Buffers
<1>7. r.off + elements(dims) <= Len(D[r.buf])
  BY DEF Flat
<1>8. r.off + (elements(dims) - 1) < Len(D[r.buf])
  BY ONLY <1>1, <1>6, <1>7
<1> QED BY <1>2, <1>4, <1>5, <1>7, <1>8 DEF InBuffer, Flat

\* The copies of a linear tree read the buffers it reads, with the new shape.
LEMMA CopyFits ==
    ASSUME NEW A, NEW N, HeapOK(N), NEW D, Fits(A, N, D), \A h \in Handles : Ref(N, A[h].node),
           NEW root \in NodeIds, N[root] # NoNode, root \notin ShiftInputs(N),
           NEW idims, LinearTree(N, root, idims),
           NEW dims \in DimVec, elements(dims) = elements(idims), NEW fresh,
           \A i \in 1 .. Cardinality(Copies(N, root)) :
              /\ fresh[i] \in NodeIds /\ N[fresh[i]] = NoNode
              /\ \A j \in 1 .. Cardinality(Copies(N, root)) : fresh[i] = fresh[j] => i = j
    PROVE  LET c == copyModdims(N, root, dims, fresh)
           IN  Fits(A, c.nodes, D) /\ c.root \notin ShiftInputs(c.nodes)
<1> DEFINE C == Copies(N, root)
           Id(c) == CopyId(C, fresh, c)
           Clone(e) == CloneOf(N, C, dims, fresh, e)
           N2 == copyModdims(N, root, dims, fresh).nodes
           root2 == copyModdims(N, root, dims, fresh).root
<1>1. /\ C \subseteq Nat \X NodeIds /\ IsFiniteSet(C) /\ <<0, root>> \in C
      /\ \A e \in C : N[e[2]] # NoNode
      /\ \A e, f \in C : e[1] = f[1] => e = f
      /\ \A e \in C : \A i \in 1 .. Len(Children(N, e[2])) :
             <<kMaxChildren * e[1] + i, Children(N, e[2])[i]>> \in C
  BY CopyFacts
<1>2. /\ \A e \in C : Rank(C, e[1]) \in 1 .. Cardinality(C)
      /\ \A e, f \in C : Rank(C, e[1]) = Rank(C, f[1]) => e = f
  <2> HIDE DEF C
  <2> QED BY <1>1, RankOfCopy
<1>3. /\ \A e \in C : Id(e[1]) \in NodeIds /\ N[Id(e[1])] = NoNode
      /\ \A e, f \in C : Id(e[1]) = Id(f[1]) => e = f
  BY <1>2 DEF CopyId
<1>4. /\ root2 = Id(0)
      /\ N2 = [n \in NodeIds |-> IF \E e \in C : Id(e[1]) = n
                                 THEN Clone(CHOOSE e \in C : Id(e[1]) = n) ELSE N[n]]
  BY CopiedHeap
<1>5. \A e \in C : e[2] \in NodeIds \ ShiftInputs(N) /\ NodeIsLinear(N[e[2]], idims)
  <2>1. \A e \in C : e[2] \in Tree(N, root)
    BY CopiesInTree
  <2>2. Tree(N, root) \subseteq NodeIds \ ShiftInputs(N)
    BY NotShifted DEF Fits
  <2> HIDE DEF C
  <2> QED BY <2>1, <2>2 DEF LinearTree
<1>6. HeapFits(N, D) /\ D \in Buffers
  BY DEF Fits
<1> HIDE DEF N2, C, Id, root2
<1>7. ASSUME NEW e \in C
      PROVE  /\ Clone(e).kind = N[e[2]].kind /\ Clone(e).kind # "shift"
             /\ Clone(e).kind = "scalar" => Clone(e) \in ScalarNodes
             /\ Clone(e).kind = "buffer" => /\ Clone(e) \in BufferNodes
                                            /\ InBuffer(D, Clone(e)) /\ Flat(D, Clone(e))
             /\ Clone(e).kind = "nary" => \A i \in 1 .. Len(Clone(e).children) :
                                             \E f \in C : Clone(e).children[i] = Id(f[1])
  <2> DEFINE r == N[e[2]]
  <2>1. e[2] \in NodeIds /\ e[2] \notin ShiftInputs(N) /\ NodeIsLinear(r, idims) /\ r # NoNode
    BY <1>1, <1>5
  <2>2. NodeFits(N, D, e[2]) /\ NodeOK(r)
    BY <1>6, <2>1 DEF HeapFits, HeapOK
  <2>3. r.kind # "shift"
    BY <2>1 DEF NodeIsLinear
  <2>4. CASE r.kind = "nary"
    <3>1. r \in NaryNodes
      BY <2>1, <2>2, <2>4, NodeKinds
    <3> DEFINE ch == [i \in 1 .. Len(r.children) |-> Id(kMaxChildren * e[1] + i)]
    <3>2. Clone(e) = [r EXCEPT !.children = ch]
      BY <2>4 DEF CloneOf, Id
    <3>3. Children(N, e[2]) = r.children
      BY <2>4 DEF Children
    <3>4. \A i \in 1 .. Len(r.children) : \E f \in C : ch[i] = Id(f[1])
      <4> SUFFICES ASSUME NEW i \in 1 .. Len(r.children) PROVE \E f \in C : ch[i] = Id(f[1])
        OBVIOUS
      <4> DEFINE g == <<kMaxChildren * e[1] + i, Children(N, e[2])[i]>>
      <4>1. g \in C /\ g[1] = kMaxChildren * e[1] + i
        BY <1>1, <3>3
      <4> QED BY <4>1
    <3>5. Len(r.children) \in Nat
      BY <3>1, NaryParts DEF kMaxChildren
    <3>6. Len(ch) = Len(r.children)
      BY <3>5
    <3> HIDE DEF ch, r
    <3>7. r = [kind |-> "nary", children |-> r.children, height |-> r.height]
      BY <3>1 DEF NaryNodes
    <3>8. Clone(e) = [kind |-> "nary", children |-> ch, height |-> r.height]
      BY <3>2, <3>7
    <3>9. Clone(e).kind = "nary" /\ Clone(e).children = ch
      BY <3>8
    <3> QED BY <2>4, <3>4, <3>6, <3>9 DEF r
  <2>5. CASE r.kind = "buffer"
    <3>1. Clone(e) = [r EXCEPT !.dims = dims, !.strides = calcStrides(dims)]
      BY <2>5 DEF CloneOf
    <3>2. r.linear /\ r.dims = idims
      BY <2>1, <2>5 DEF NodeIsLinear
    <3>3. r \in BufferNodes /\ Flat(D, r)
      BY <2>1, <2>2, <2>5, <3>2 DEF NodeFits
    <3> DEFINE q == Clone(e)
    <3> HIDE DEF r, Clone, q
    <3>4. q = [r EXCEPT !.dims = dims, !.strides = calcStrides(dims)]
      BY <3>1 DEF q
    <3>5. D \in Buffers /\ dims \in DimVec /\ elements(dims) = elements(r.dims)
      BY <1>6, <3>2
    <3>6. q \in BufferNodes /\ q.kind = "buffer" /\ InBuffer(D, q) /\ Flat(D, q)
      BY ONLY <3>3, <3>4, <3>5, ReshapedBuffer
    <3> QED BY <2>5, <3>6 DEF q, r
  <2>6. CASE r.kind # "nary" /\ r.kind # "buffer"
    <3>1. Clone(e) = r
      BY <2>6 DEF CloneOf
    <3> QED BY <2>2, <2>3, <2>6, <3>1 DEF NodeFits
  <2> QED BY <2>4, <2>5, <2>6
<1> HIDE DEF Clone
<1>8. \A e \in C : N2[Id(e[1])] = Clone(e)
  <2> SUFFICES ASSUME NEW e \in C PROVE N2[Id(e[1])] = Clone(e)
    OBVIOUS
  <2>1. (CHOOSE f \in C : Id(f[1]) = Id(e[1])) = e
    BY <1>3
  <2> QED BY <1>3, <1>4, <2>1
<1>9. \A n \in NodeIds : N2[n] = N[n] \/ \E e \in C : n = Id(e[1])
  BY <1>4
<1>10. \A n \in NodeIds : N[n] # NoNode => N2[n] = N[n]
  BY <1>3, <1>9
<1>11. \A n \in NodeIds : N[n] = NoNode => N2[n].kind # "shift"
  <2> SUFFICES ASSUME NEW n \in NodeIds, N[n] = NoNode PROVE N2[n].kind # "shift"
    OBVIOUS
  <2>1. CASE N2[n] = N[n]
    BY <1>11, <2>1 DEF NoNode
  <2>2. ASSUME NEW e \in C, n = Id(e[1]) PROVE N2[n].kind # "shift"
    BY <1>7, <1>8, <2>2
  <2> QED BY <1>9, <2>1, <2>2
<1>12. \A e \in C : Id(e[1]) \notin ShiftInputs(N2)
  <2> SUFFICES ASSUME NEW e \in C, Id(e[1]) \in ShiftInputs(N2) PROVE FALSE
    OBVIOUS
  <2>1. PICK m \in NodeIds : N2[m].kind = "shift" /\ N2[m].in = Id(e[1])
    BY DEF ShiftInputs
  <2>2. N2[m] = N[m]
    BY <1>10, <1>11, <2>1
  <2>3. N[N[m].in].kind = "buffer"
    BY <2>1, <2>2 DEF HeapOK
  <2> QED BY <1>3, <2>1, <2>2, <2>3 DEF NoNode
<1>13. ASSUME NEW n \in NodeIds, N[n] = NoNode PROVE NodeFits(N2, D, n)
  <2>1. CASE N2[n] = N[n]
    BY <1>13, <2>1 DEF NodeFits, NoNode
  <2>2. ASSUME NEW e \in C, n = Id(e[1]) PROVE NodeFits(N2, D, n)
    <3>1. N2[n] = Clone(e)
      BY <1>8, <2>2
    <3>2. Clone(e).kind = "nary" =>
            \A i \in 1 .. Len(Clone(e).children) : Clone(e).children[i] \notin ShiftInputs(N2)
      BY <1>7, <1>12
    <3> QED BY <1>7, <3>1, <3>2 DEF NodeFits
  <2> QED BY <1>9, <2>1, <2>2
<1>14. Fits(A, N2, D)
  BY <1>10, <1>11, <1>13, AddFits
<1>15. root2 \notin ShiftInputs(N2)
  <2>1. <<0, root>> \in C /\ <<0, root>>[1] = 0
    BY <1>1
  <2> QED BY <1>4, <1>12, <2>1
<1> QED BY <1>14, <1>15 DEF N2, root2

\* The nodes of a moddims are copies of a linear tree, or of the buffer the tree
\* was evaluated to.
LEMMA createModdimNodeFits ==
    ASSUME TreeInv, GeoInv, createModdimNode
    PROVE  GeoInv'
<1> DEFINE in == call.ins[1]
           ins == <<in>>
           N == WithBufferNodes(ins)
           root == GetNodes(ins)[1]
           fresh == SubSeq(FreshNodes, 2, Len(FreshNodes))
           c == copyModdims(N, root, call.arg, fresh)
           a == createNodeArray(call.arg, c.root)
           k == Cardinality(Copies(N, root))
<1>1. HeapInv /\ CallShape /\ Fits(arr, node, data) /\ CallFits
  BY DEF TreeInv, CallInv, GeoInv
<1>2. call.op = "moddims" /\ call.todo = <<>> /\ call.node = None /\ call' = NoCall
  BY DEF createModdimNode, Executing
<1>3. /\ in \in Handles /\ Head(call.ins) = in /\ Cardinality(FreeNodes) >= 2
      /\ HeapOK(N) /\ root \in NodeIds /\ N[root] # NoNode
      /\ ~ isReady(arr[in]) => root = arr[in].node
  BY <1>2, OneOperand
<1>4. Live(in) /\ ArrayFits(arr[in], node, data) /\ Len(call.ins) = 1
  <2>1. Len(call.ins) = 1
    BY <1>1, <1>2 DEF CallShape, Arity, OperandOps
  <2>2. 1 \in 1 .. Len(call.ins) /\ call.op \in OperandOps
    BY <1>2, <2>1 DEF OperandOps
  <2> QED BY <2>1, <2>2, OperandFits
<1>5. call.arg \in Shapes /\ call.arg \in DimVec
  BY <1>1, <1>2, JitAssumption DEF CallFits, CallArg, DimVec
<1>6. Len(ins) = 1 /\ ins \in [1 .. Len(ins) -> Handles] /\ ins[1] = in
  BY <1>3, OperandLists
<1>7. /\ Fits(arr, N, data) /\ root \notin ShiftInputs(N)
      /\ \A n \in NodeIds : node[n] # NoNode => N[n] = node[n]
      /\ isReady(arr[in]) => N[root] = BufferNode(arr[in])
  <2>1. /\ Len(ins) \in 1 .. kMaxChildren /\ Len(ins) <= Cardinality(FreeNodes)
        /\ \A i \in 1 .. Len(ins) : Live(ins[i])
    BY <1>3, <1>4, <1>6, FreeCount DEF kMaxChildren
  <2>2. 1 \in 1 .. Len(ins) /\ \A j \in 1 .. Len(ins) : ins[j] = in
    BY <1>6
  <2> HIDE DEF ins, in
  <2>3. LET Q == WithBufferNodes(ins)
            nodes == GetNodes(ins)
        IN  /\ Fits(arr, Q, data) /\ HeapOK(Q)
            /\ \A i \in 1 .. Len(ins) : nodes[i] \in NodeIds \ ShiftInputs(Q) /\ Q[nodes[i]] # NoNode
            /\ \A n \in NodeIds : node[n] # NoNode => Q[n] = node[n]
            /\ \A i \in 1 .. Len(ins) : isReady(arr[ins[i]]) =>
                 \E j \in 1 .. Len(ins) : Q[nodes[i]] = BufferNode(arr[ins[j]]) /\ FreshNodes[j] = FreshNodes[i]
    BY <1>1, <1>6, <2>1, OperandNodesFit, Zenon
  <2>4. /\ Fits(arr, N, data) /\ \A n \in NodeIds : node[n] # NoNode => N[n] = node[n]
        /\ root \in NodeIds \ ShiftInputs(N)
        /\ isReady(arr[ins[1]]) => \E j \in 1 .. Len(ins) : N[root] = BufferNode(arr[ins[j]])
    BY <2>2, <2>3, Zenon
  <2> HIDE DEF N, root
  <2> QED BY <1>6, <2>2, <2>4
<1>8. \A i \in 1 .. k : /\ fresh[i] \in NodeIds /\ N[fresh[i]] = NoNode
                        /\ \A j \in 1 .. k : fresh[i] = fresh[j] => i = j
  BY FreshCopies DEF createModdimNode
<1>9. PICK v : Finish(a, c.nodes, data, v)
  BY DEF createModdimNode
<1>10. N = node \/ isReady(arr[in])
  <2> SUFFICES ASSUME ~ isReady(arr[in]) PROVE N = node
    OBVIOUS
  <2>1. N = [n \in NodeIds |-> node[n]]
    BY <1>6, <2>1 DEF WithBufferNodes
  <2> QED BY <1>1, <2>1 DEF HeapInv, HeapOK
<1> HIDE DEF k, fresh, N, root, in
<1>11. LinearTree(N, root, arr[in].dims) /\ elements(call.arg) = elements(arr[in].dims)
  <2>1. /\ elements(call.arg) = elements(arr[in].dims)
        /\ isReady(arr[in]) => isLinear(arr[in])
        /\ ~ isReady(arr[in]) => LinearTree(node, arr[in].node, arr[in].dims)
    BY <1>1, <1>2 DEF CallFits, CallModdims, in
  <2>2. CASE ~ isReady(arr[in])
    BY <1>3, <1>10, <2>1, <2>2
  <2>3. CASE isReady(arr[in])
    <3>1. /\ N[root].kind = "buffer" /\ N[root].dims = arr[in].dims /\ N[root].linear
      BY <1>1, <1>4, <1>7, <2>1, <2>3, BufferNodeFits DEF Fits
    <3>2. Children(N, root) = <<>>
      BY <3>1 DEF Children
    <3>3. Tree(N, root) = {root} \cup UNION {Tree(N, x) : x \in ToSet(Children(N, root))}
      BY <1>3, TreeUnfold
    <3>4. ToSet(<<>>) = {}
      BY DEF ToSet
    <3>5. Tree(N, root) = {root}
      BY <3>2, <3>3, <3>4
    <3> QED BY <2>1, <3>1, <3>5 DEF LinearTree, NodeIsLinear
  <2> QED BY <2>2, <2>3
<1>12. \A h \in Handles : Ref(N, arr[h].node)
  <2>1. \A h \in Handles : Ref(node, arr[h].node)
    BY <1>1 DEF HeapInv, ArrNodesOK
  <2> QED BY <1>7, <2>1 DEF Ref
<1>13. Fits(arr, c.nodes, data) /\ c.root \notin ShiftInputs(c.nodes)
  BY <1>3, <1>5, <1>7, <1>8, <1>11, <1>12, CopyFits DEF k
<1>14. /\ HeapOK(c.nodes) /\ c.root \in NodeIds /\ c.nodes[c.root] # NoNode
       /\ \A n \in NodeIds : N[n] # NoNode => c.nodes[n] = N[n]
  BY <1>3, <1>8, CopyKeepsHeap DEF k
<1> HIDE DEF c
<1>15. \A n \in NodeIds : node[n] # NoNode => c.nodes[n] # NoNode
  BY <1>7, <1>14
<1>16. Ref(c.nodes, a.node) /\ ArrayFits(a, c.nodes, data)
  <2>1. a.node = c.root
    BY MadeArrays
  <2>2. ArrayFits(a, c.nodes, data)
    BY <1>5, <1>13, <1>14, NodeArrayFits
  <2> QED BY <1>14, <2>1, <2>2 DEF Ref
<1> HIDE DEF a
<1>17. Fits(arr', node', data')
  BY <1>1, <1>3, <1>9, <1>13, <1>14, <1>15, <1>16, FinishFits
<1> QED BY <1>2, <1>17, ReturnedFits DEF GeoInv

(***************************************************************************)
(* index: a view stays inside its parent.                                  *)
(***************************************************************************)

\* Two sums whose terms are not negative together
LEMMA DotsNotNegative ==
    ASSUME NEW a \in [Dims -> Int], NEW b \in [Dims -> Int],
           NEW c \in [Dims -> Int], NEW d \in [Dims -> Int],
           \A k \in Dims : 0 <= a[k] * b[k] + c[k] * d[k]
    PROVE  0 <= Dot(a, b) + Dot(c, d)
<1> USE DimsFacts
<1>1. PICK s : PartialSums(Terms(a, b), s) /\ Dot(a, b) = s[AF_MAX_DIMS]
  BY Dots
<1>2. PICK t : PartialSums(Terms(c, d), t) /\ Dot(c, d) = t[AF_MAX_DIMS]
  BY Dots
<1> DEFINE f == Terms(a, b)
           g == Terms(c, d)
           u == [k \in 0 .. AF_MAX_DIMS |-> s[k] + t[k]]
<1>3. f \in [Dims -> Int] /\ g \in [Dims -> Int] /\ \A k \in Dims : 0 <= f[k] + g[k]
  <2>1. f \in [Dims -> Int] /\ g \in [Dims -> Int]
    BY TermsType
  <2> QED BY <2>1 DEF Terms
<1>4. \A k \in 0 .. AF_MAX_DIMS : u[k] = s[k] + t[k] /\ s[k] \in Int /\ t[k] \in Int
  BY <1>1, <1>2 DEF PartialSums
<1> HIDE DEF u, f, g
<1>5. u[0] \in Nat
  <2>1. s[0] = 0 /\ t[0] = 0 /\ u[0] = s[0] + t[0]
    BY <1>1, <1>2, <1>4 DEF PartialSums
  <2> QED BY ONLY <2>1
<1>6. ASSUME NEW k \in Dims, u[k - 1] \in Nat PROVE u[k] \in Nat
  <2>1. s[k] = s[k - 1] + f[k] /\ t[k] = t[k - 1] + g[k]
    BY <1>1, <1>2 DEF PartialSums, f, g
  <2>2. /\ s[k - 1] \in Int /\ t[k - 1] \in Int
        /\ u[k - 1] = s[k - 1] + t[k - 1] /\ u[k] = s[k] + t[k]
    BY <1>4
  <2>3. f[k] \in Int /\ g[k] \in Int /\ 0 <= f[k] + g[k]
    BY <1>3
  <2>4. u[k] = u[k - 1] + (f[k] + g[k]) /\ f[k] + g[k] \in Nat
    BY ONLY <2>1, <2>2, <2>3
  <2> QED BY ONLY <1>6, <2>4
<1>7. u[AF_MAX_DIMS] \in Nat
  <2> DEFINE T == Nat
  <2> HIDE DEF T
  <2>1. u[0] \in T /\ \A k \in 1 .. AF_MAX_DIMS : u[k - 1] \in T => u[k] \in T
    BY <1>5, <1>6 DEF T
  <2>2. \A k \in 0 .. AF_MAX_DIMS : u[k] \in T
    BY <2>1, RecursionKeeps
  <2> QED BY <2>2 DEF T
<1> QED BY <1>1, <1>2, <1>4, <1>7, SMTT(30)

\* Products with a number that is not negative
LEMMA ProductOrder ==
    ASSUME NEW a \in Int, NEW b \in Int, NEW c \in Nat, a <= b
    PROVE  a * c <= b * c /\ c * a <= c * b
<1>1. (b - a) * c \in Nat
  <2>1. b - a \in Nat /\ \A x, y \in Nat : x * y \in Nat
    OBVIOUS
  <2> QED BY <2>1
<1>2. (b - a) * c = b * c - a * c /\ a * c \in Int /\ b * c \in Int /\ a * c = c * a /\ b * c = c * b
  OBVIOUS
<1> QED BY <1>1, <1>2

\* Every index of a sequence is inside the dimension.
LEMMA AlongSeq ==
    ASSUME NEW d \in Nat \ {0}, NEW b \in 0 .. d - 1, NEW e \in 0 .. d - 1, NEW step \in Int \ {0},
           NEW i \in Nat,
           i < 1 + (IF step > 0 THEN (e - b) \div step ELSE (b - e) \div (- step))
    PROVE  b + i * step \in 0 .. d - 1
<1>0. /\ \A x \in Int, y \in Nat \ {0} : x \div y \in Int /\ y * (x \div y) <= x
      /\ b \in Int /\ e \in Int /\ i * step \in Int
  OBVIOUS
<1>1. CASE step > 0
  <2> DEFINE q == (e - b) \div step
  <2>1. q \in Int /\ step * q <= e - b /\ step \in Nat /\ i < 1 + q
    BY <1>0, <1>1
  <2> HIDE DEF q
  <2>2. step * i <= step * q /\ 0 <= i * step /\ step * i = i * step
    <3>1. i <= q /\ i \in Int /\ 0 \in Int /\ 0 <= i
      BY <2>1
    <3>2. step * i <= step * q /\ step * 0 <= step * i
      BY <2>1, <3>1, ProductOrder
    <3> QED BY <2>1, <3>2
  <2>3. step * q \in Int
    BY <2>1
  <2> DEFINE m == i * step
             w == step * q
  <2>4. m \in Int /\ w \in Int /\ w <= e - b /\ m <= w /\ 0 <= m
    BY <1>0, <2>1, <2>2, <2>3
  <2> HIDE DEF m, w
  <2>5. b + m \in 0 .. d - 1
    BY <2>4
  <2> QED BY <2>5 DEF m
<1>2. CASE ~ (step > 0)
  <2> DEFINE p == - step
             q == (b - e) \div p
  <2>1. q \in Int /\ p * q <= b - e /\ p \in Nat /\ i < 1 + q
    <3>1. p \in Nat \ {0}
      BY <1>2
    <3> QED BY <1>0, <1>2, <3>1
  <2>0. i * step = - (p * i)
    OBVIOUS
  <2> HIDE DEF q, p
  <2>2. p * i <= p * q /\ 0 <= p * i
    <3>1. i <= q /\ i \in Int /\ 0 \in Int /\ 0 <= i
      BY <2>1
    <3>2. p * i <= p * q /\ p * 0 <= p * i
      BY <2>1, <3>1, ProductOrder
    <3> QED BY <2>1, <3>2
  <2>3. p * q \in Int /\ p * i \in Int
    BY <2>1
  <2> DEFINE m == i * step
             w == p * q
             z == p * i
  <2>4. m \in Int /\ w \in Int /\ z \in Int /\ w <= b - e /\ z <= w /\ 0 <= z /\ m = - z
    BY <1>0, <2>0, <2>1, <2>2, <2>3
  <2> HIDE DEF m, w, z
  <2>5. b + m \in 0 .. d - 1
    BY <2>4
  <2> QED BY <2>5 DEF m
<1> QED BY <1>1, <1>2

\* One dimension of a view: it starts at b, and the index in the parent that the
\* view reads is b + m.
LEMMA AlongView ==
    ASSUME NEW d \in Nat \ {0}, NEW s \in Nat, NEW cs \in Nat \ {0}, d > 1 => cs <= s,
           NEW b \in 0 .. d - 1, NEW m \in Int, b + m \in 0 .. d - 1
    PROVE  0 <= b * s + m * cs /\ b * s + m * cs <= (d - 1) * s
<1>0. /\ b \in Nat /\ b * s \in Int /\ m * cs \in Int /\ m * s \in Int /\ (d - 1) * s \in Int
      /\ (b + m) * s = b * s + m * s
  OBVIOUS
<1>1. CASE d = 1
  <2>1. b = 0 /\ m = 0
    BY <1>1
  <2> QED BY <1>1, <2>1
<1>2. CASE d # 1
  <2>1. cs <= s /\ d - 1 \in Int /\ b + m \in Int /\ 0 <= b + m /\ b + m <= d - 1 /\ b <= d - 1 /\ 0 <= b
    BY <1>2
  <2>2. 0 * s <= b * s /\ b * s <= (d - 1) * s /\ 0 * s <= (b + m) * s /\ (b + m) * s <= (d - 1) * s
    BY <1>0, <2>1, ProductOrder
  <2>3. 0 * s = 0
    OBVIOUS
  <2>4. CASE 0 <= m
    <3>1. m \in Nat
      BY <2>4
    <3>2. m * cs <= m * s /\ m * 0 <= m * cs
      BY <2>1, <3>1, ProductOrder
    <3>3. m * 0 = 0
      OBVIOUS
    <3> QED BY ONLY <1>0, <2>2, <2>3, <3>2, <3>3
  <2>5. CASE ~ (0 <= m)
    <3> DEFINE n == - m
    <3>1. n \in Nat /\ m * cs = - (n * cs) /\ m * s = - (n * s)
      BY <2>5
    <3> HIDE DEF n
    <3>2. n * cs <= n * s /\ n * 0 <= n * cs
      BY <2>1, <3>1, ProductOrder
    <3>3. n * 0 = 0 /\ n * cs \in Int /\ n * s \in Int
      BY <3>1
    <3> QED BY ONLY <1>0, <2>2, <2>3, <3>1, <3>2, <3>3
  <2> QED BY <2>4, <2>5
<1> QED BY <1>1, <1>2

\* The step of a sequence; a span has 1
StepOf(s) == IF s.step # 0 THEN s.step ELSE 1
\* The index in the parent that a view reads
AlongIndex(seqs, id) == [k \in Dims |-> toOffset(seqs)[k] + id[k] * StepOf(seqs[k])]
\* One dimension of it is inside the dimension of the parent.
LEMMA ViewIndex ==
    ASSUME NEW d \in DimVec, NEW seqs, SeqsInside(seqs, d), NEW k \in Dims,
           NEW i \in Nat, i < toDims(seqs, d)[k]
    PROVE  /\ toOffset(seqs)[k] \in 0 .. d[k] - 1 /\ StepOf(seqs[k]) \in Int \ {0}
           /\ toOffset(seqs)[k] + i * StepOf(seqs[k]) \in 0 .. d[k] - 1
           /\ (IF isSpan(seqs[k]) THEN i ELSE seqs[k].begin + i * seqs[k].step)
                = toOffset(seqs)[k] + i * StepOf(seqs[k])
<1> DEFINE q == seqs[k]
           m == calcDim(q, d[k])
<1>1. q \in [begin : Int, end : Int, step : Int] /\ d[k] \in Nat \ {0}
  BY JitAssumption DEF SeqsInside, DimVec
<1>2. m \in Nat \ {0} /\ i < m
  <2>1. toDims(seqs, d) \in DimVec
    BY JitAssumption DEF SeqsInside, DimVec
  <2>2. toDims(seqs, d)[k] = m
    BY DEF toDims
  <2> QED BY <2>1, <2>2 DEF DimVec
<1>3. isSpan(q) <=> q.step = 0
  <2>1. ASSUME q.step = 0, ~ isSpan(q) PROVE FALSE
    <3>1. m = -1
      BY <2>1 DEF calcDim
    <3> HIDE DEF m, q
    <3> QED BY <1>2, <3>1
  <2> HIDE DEF m, q
  <2> QED BY <1>1, <2>1 DEF isSpan
<1>4. toOffset(seqs)[k] = IF q.step # 0 THEN q.begin ELSE 0
  BY DEF toOffset
<1>5. CASE q.step = 0
  <2>1. toOffset(seqs)[k] = 0 /\ StepOf(q) = 1
    BY <1>4, <1>5 DEF StepOf
  <2>2. i < d[k]
    BY <1>2, <1>3, <1>5 DEF calcDim
  <2>3. i * 1 = i
    OBVIOUS
  <2> HIDE DEF q
  <2>4. (IF isSpan(q) THEN i ELSE q.begin + i * q.step) = i
    BY <1>3, <1>5
  <2> QED BY <1>1, <2>1, <2>2, <2>3, <2>4 DEF q
<1>6. CASE q.step # 0
  <2>1. toOffset(seqs)[k] = q.begin /\ StepOf(q) = q.step
    BY <1>4, <1>6 DEF StepOf
  <2>2. q.begin \in 0 .. d[k] - 1 /\ q.end \in 0 .. d[k] - 1 /\ q.step \in Int
    BY <1>1, <1>3, <1>6 DEF SeqsInside
  <2>3. i < 1 + (IF q.step > 0 THEN (q.end - q.begin) \div q.step ELSE (q.begin - q.end) \div (- q.step))
    BY <1>2, <1>3, <1>6, <2>2 DEF calcDim
  <2>4. q.begin + i * q.step \in 0 .. d[k] - 1
    BY <1>1, <1>6, <2>2, <2>3, AlongSeq
  <2> QED BY <1>3, <1>6, <2>1, <2>2, <2>4
<1> QED BY <1>5, <1>6

\* The elements of a view are in the box of its parent.
LEMMA ViewInParent ==
    ASSUME NEW d \in DimVec, NEW s \in Strides, NEW data_dims \in DimVec,
           \A k \in Dims : d[k] > 1 => calcStrides(data_dims)[k] <= s[k],
           NEW seqs, SeqsInside(seqs, d),
           NEW id \in [Dims -> Nat], \A k \in Dims : id[k] < toDims(seqs, d)[k]
    PROVE  LET x == Dot(toOffset(seqs), s)
               y == Dot(id, toStride(seqs, data_dims))
           IN  x \in Nat /\ y \in Int /\ 0 <= x + y /\ x + y <= Extent(d, s)
<1> DEFINE off == toOffset(seqs)
           vs == toStride(seqs, data_dims)
           cs == calcStrides(data_dims)
           last == LastIndex(d)
<1>1. cs \in DimVec /\ \A k \in Dims : cs[k] \in Nat \ {0} /\ d[k] \in Nat \ {0} /\ s[k] \in Nat
  BY ShapeFacts DEF DimVec, Strides
<1>4. /\ off = [k \in Dims |-> IF seqs[k].step # 0 THEN seqs[k].begin ELSE 0]
      /\ vs = [k \in Dims |-> cs[k] * StepOf(seqs[k])]
  BY DEF toOffset, toStride, StepOf
<1> HIDE DEF off, vs, cs, last
<1>5. ASSUME NEW k \in Dims
      PROVE  /\ off[k] \in 0 .. d[k] - 1 /\ StepOf(seqs[k]) \in Int
             /\ off[k] + id[k] * StepOf(seqs[k]) \in 0 .. d[k] - 1
  BY ViewIndex DEF off
<1>6. ASSUME NEW k \in Dims
      PROVE  /\ 0 <= off[k] * s[k] + id[k] * vs[k]
             /\ off[k] * s[k] + id[k] * vs[k] <= (d[k] - 1) * s[k]
  <2> DEFINE m == id[k] * StepOf(seqs[k])
  <2>1. id[k] \in Int /\ StepOf(seqs[k]) \in Int /\ cs[k] \in Int /\ m \in Int
    BY <1>1, <1>5
  <2>2. id[k] * vs[k] = m * cs[k]
    <3>1. vs[k] = cs[k] * StepOf(seqs[k])
      BY <1>4
    <3>2. \A x, y, z \in Int : x * (y * z) = (x * z) * y
      OBVIOUS
    <3> QED BY <2>1, <3>1, <3>2
  <2>3. off[k] \in 0 .. d[k] - 1 /\ off[k] + m \in 0 .. d[k] - 1
    BY <1>5
  <2>4. d[k] > 1 => cs[k] <= s[k]
    BY DEF cs
  <2> HIDE DEF m
  <2>5. 0 <= off[k] * s[k] + m * cs[k] /\ off[k] * s[k] + m * cs[k] <= (d[k] - 1) * s[k]
    BY <1>1, <2>1, <2>3, <2>4, AlongView
  <2> QED BY <2>2, <2>5
<1>7. /\ off \in [Dims -> Int] /\ vs \in [Dims -> Int] /\ id \in [Dims -> Int] /\ s \in [Dims -> Int]
      /\ \A k \in Dims : off[k] \in Nat
  <2>1. \A k \in Dims : off[k] \in Nat
    BY <1>1, <1>5
  <2>2. \A k \in Dims : cs[k] * StepOf(seqs[k]) \in Int
    BY <1>1, <1>5
  <2>3. off = [k \in Dims |-> off[k]] /\ vs = [k \in Dims |-> vs[k]]
    BY <1>4
  <2>4. \A k \in Dims : vs[k] \in Int
    BY <1>4, <2>2
  <2> QED BY <2>1, <2>3, <2>4 DEF Strides
<1>8. last \in [Dims -> Int] /\ \A k \in Dims : last[k] = d[k] - 1
  BY LastIndexType DEF last
<1>9. Dot(off, s) + Dot(id, vs) <= Dot(last, s)
  <2>1. \A k \in Dims : off[k] * s[k] + id[k] * vs[k] <= last[k] * s[k]
    BY <1>6, <1>8
  <2> QED BY <1>7, <1>8, <2>1, DotsAtMost
<1>10. 0 <= Dot(off, s) + Dot(id, vs)
  BY <1>6, <1>7, DotsNotNegative
<1>11. Dot(off, s) \in Nat /\ Dot(id, vs) \in Int
  <2>1. \A k \in Dims : off[k] < d[k]
    <3>1. \A k \in Dims : off[k] \in 0 .. d[k] - 1 /\ d[k] \in Nat \ {0}
      BY <1>1, <1>5
    <3> QED BY <3>1
  <2>2. off \in [Dims -> Nat]
    BY <1>7
  <2> QED BY <1>7, <2>1, <2>2, DotInBox, DotType
<1> QED BY <1>9, <1>10, <1>11 DEF off, vs, last, Extent

\* A view that runs forward reads its parent's buffer.
LEMMA ViewFits ==
    ASSUME NEW N, NEW D, NEW parent, ArrayFits(parent, N, D), isReady(parent), D \in Buffers,
           NEW seqs, SeqsInside(seqs, parent.dims),
           NEW view, view = [dims |-> toDims(seqs, parent.dims), strides |-> toStride(seqs, parent.data_dims),
                             off |-> parent.off + Dot(toOffset(seqs), parent.strides),
                             buf |-> parent.buf, node |-> None, data_dims |-> parent.data_dims]
    PROVE  /\ view.dims \in Shapes
           /\ Read(D, view) \in Seq(Values) /\ Len(Read(D, view)) = elements(view.dims)
           /\ (\A k \in Dims : view.strides[k] >= 0) => ArrayFits(view, N, D)
<1> DEFINE d == parent.dims
           s == parent.strides
           odims == toDims(seqs, d)
           vs == toStride(seqs, parent.data_dims)
           cs == calcStrides(parent.data_dims)
           x == Dot(toOffset(seqs), s)
<1>1. /\ d \in DimVec /\ d \in Shapes /\ s \in Strides /\ parent.off \in Nat /\ parent.buf \in BufIds
      /\ parent.data_dims \in DimVec
      /\ \A k \in Dims : d[k] > 1 => cs[k] <= s[k]
      /\ parent.off + Extent(d, s) < Len(D[parent.buf])
  BY JitAssumption DEF ArrayFits, Arrays, DimVec, InBuffer, StridesCover
<1>2. odims \in Shapes /\ odims \in DimVec /\ seqs \in [Dims -> Seqs]
  BY JitAssumption DEF SeqsInside, DimVec
<1>3. /\ view.dims = odims /\ view.strides = vs /\ view.off = parent.off + x
      /\ view.buf = parent.buf /\ view.node = None /\ view.data_dims = parent.data_dims
  OBVIOUS
<1>4. Len(D[parent.buf]) \in Nat
  BY <1>1 DEF Buffers
<1>5. Extent(d, s) \in Nat
  BY <1>1, ExtentType
<1> HIDE DEF d, s, odims, vs, cs, x
<1>6. ASSUME NEW id \in [Dims -> Nat], \A k \in Dims : id[k] < odims[k]
      PROVE  /\ x \in Nat /\ Dot(id, vs) \in Int
             /\ 0 <= x + Dot(id, vs) /\ x + Dot(id, vs) <= Extent(d, s)
  <2>1. \A k \in Dims : d[k] > 1 => calcStrides(parent.data_dims)[k] <= s[k]
    BY <1>1 DEF cs
  <2>2. SeqsInside(seqs, d) /\ \A k \in Dims : id[k] < toDims(seqs, d)[k]
    BY <1>6 DEF d, odims
  <2> QED BY <1>1, <2>1, <2>2, ViewInParent DEF x, vs
<1>7. x \in Nat
  <2> DEFINE zero == [k \in Dims |-> 0]
  <2>1. zero \in [Dims -> Nat] /\ \A k \in Dims : zero[k] < odims[k]
    BY <1>2 DEF DimVec
  <2> HIDE DEF zero
  <2> QED BY <1>6, <2>1
<1>8. Read(D, view) \in Seq(Values) /\ Len(Read(D, view)) = elements(view.dims)
  <2>1. ASSUME NEW id \in [Dims -> Nat], \A k \in Dims : id[k] < view.dims[k]
        PROVE  /\ Dot(id, view.strides) \in Int /\ view.off + Dot(id, view.strides) \in Nat
               /\ view.off + Dot(id, view.strides) < Len(D[view.buf])
    <3> DEFINE y == Dot(id, vs)
    <3>1. y \in Int /\ 0 <= x + y /\ x + y <= Extent(d, s)
      BY <1>3, <1>6, <2>1
    <3> HIDE DEF y
    <3>2. parent.off + x + y \in Nat /\ parent.off + x + y < Len(D[parent.buf])
      BY <1>1, <1>4, <1>5, <1>7, <3>1, SMTT(30)
    <3> QED BY <1>3, <3>1, <3>2 DEF y
  <2>2. view.buf \in BufIds /\ view.dims \in DimVec /\ view.off \in Int
    BY <1>1, <1>2, <1>3, <1>7
  <2> QED BY <2>1, <2>2, ReadValues
<1>9. ASSUME \A k \in Dims : view.strides[k] >= 0
      PROVE  ArrayFits(view, N, D)
  <2>1. /\ \A k \in Dims : cs[k] \in Nat \ {0} /\ seqs[k].step \in Int
        /\ vs = [k \in Dims |-> cs[k] * (IF seqs[k].step # 0 THEN seqs[k].step ELSE 1)]
    BY <1>1, <1>2, ShapeFacts, JitAssumption, SMTT(30) DEF DimVec, vs, cs, toStride
  <2>2. ASSUME NEW k \in Dims PROVE vs[k] \in Nat /\ cs[k] <= vs[k]
    <3>1. \A c \in Nat \ {0}, t \in Int : c * t >= 0 => t >= 0
      OBVIOUS
    <3> DEFINE t == IF seqs[k].step # 0 THEN seqs[k].step ELSE 1
    <3>2. t \in Int /\ t # 0 /\ vs[k] = cs[k] * t /\ cs[k] \in Nat \ {0} /\ vs[k] >= 0
      BY <1>3, <1>9, <2>1
    <3> HIDE DEF t
    <3>3. t \in Nat /\ 1 \in Int /\ 1 <= t /\ cs[k] \in Nat
      BY <3>1, <3>2
    <3>4. cs[k] * 1 <= cs[k] * t /\ cs[k] * 1 = cs[k] /\ cs[k] * t \in Nat
      BY <3>2, <3>3, ProductOrder
    <3> QED BY <3>2, <3>4
  <2>3. vs \in Strides
    BY <2>1, <2>2 DEF Strides
  <2>4. InBuffer(D, view)
    <3>1. LastIndex(odims) \in [Dims -> Nat] /\ \A k \in Dims : LastIndex(odims)[k] < odims[k]
      BY <1>2, LastIndexType DEF DimVec
    <3> DEFINE y == Dot(LastIndex(odims), vs)
    <3>2. y \in Int /\ x + y <= Extent(d, s)
      BY <1>6, <3>1
    <3> HIDE DEF y
    <3>3. parent.off + x + y < Len(D[parent.buf])
      BY <1>1, <1>4, <1>5, <1>7, <3>2
    <3> QED BY <1>3, <3>3 DEF InBuffer, Extent, y
  <2>5. view \in Arrays
    <3>1. view = [dims |-> odims, strides |-> vs, off |-> parent.off + x,
                  buf |-> parent.buf, node |-> None, data_dims |-> parent.data_dims]
      BY DEF odims, vs, x, d, s
    <3>2. parent.off + x \in Nat
      BY <1>1, <1>7
    <3> QED BY <1>1, <1>2, <2>3, <3>1, <3>2 DEF Arrays
  <2>6. StridesCover(view)
    BY <1>3, <2>2 DEF StridesCover, cs
  <2>7. isReady(view)
    BY <1>3 DEF isReady
  <2> QED BY <1>1, <1>3, <2>4, <2>5, <2>6, <2>7 DEF ArrayFits
<1> QED BY <1>2, <1>3, <1>8, <1>9

\* There are two buffers for an index.
LEMMA TwoBuffers ==
    ASSUME TreeInv, GeoInv, Executing("index")
    PROVE  /\ FreshBufs[1] \in BufIds /\ data[FreshBufs[1]] = <<>>
           /\ FreshBufs[2] \in BufIds /\ data[FreshBufs[2]] = <<>> /\ FreshBufs[1] # FreshBufs[2]
<1>1. Cardinality(FreeBufs) >= 2
  <2>1. Cardinality(FreeBufs) >= 2 + Cardinality(Unready)
    BY DEF GeoInv, CallFits, CallBufs, OperandOps, Executing
  <2> QED BY <2>1, FreeBufCount, UnreadyCount
<1>2. 1 \in 1 .. Cardinality(FreeBufs) /\ 2 \in 1 .. Cardinality(FreeBufs)
  BY <1>1, FreeBufCount
<1> QED BY <1>2, FreshBuf

\* An indexed array is a view of the buffer of its parent, of a copy of it, or a
\* copy of the view.
LEMMA createSubArrayFits ==
    ASSUME TreeInv, GeoInv, createSubArray
    PROVE  GeoInv'
<1> DEFINE in == arr[call.ins[1]]
           seqs == call.arg
           b1 == FreshBufs[1]
           b2 == FreshBufs[2]
           parent == IF isLinear(in) THEN in ELSE ReadyArray(in.dims, b1)
           D1 == IF isLinear(in) THEN data ELSE [data EXCEPT ![b1] = Read(data, in)]
           view == [dims |-> toDims(seqs, parent.dims), strides |-> toStride(seqs, parent.data_dims),
                    off |-> parent.off + Dot(toOffset(seqs), parent.strides),
                    buf |-> parent.buf, node |-> None, data_dims |-> parent.data_dims]
           w == Read(D1, view)
<1>1. HeapInv /\ HeapOK(node) /\ CallShape /\ Fits(arr, node, data) /\ CallFits /\ data \in Buffers
  BY DEF TreeInv, HeapInv, CallInv, GeoInv, Fits
<1>2. call.op = "index" /\ call.todo = <<>> /\ call.node = None /\ call' = NoCall
  BY DEF createSubArray, Executing
<1>3. /\ ArrayFits(in, node, data) /\ in.dims \in Shapes /\ Head(call.ins) \in Handles
      /\ isReady(in) /\ SeqsInside(seqs, in.dims)
  <2>1. Len(call.ins) = 1 /\ call.op \in OperandOps
    BY <1>1, <1>2 DEF CallShape, Arity, OperandOps
  <2>2. 1 \in 1 .. Len(call.ins)
    BY <2>1
  <2>3. ArrayFits(in, node, data) /\ in.dims \in Shapes
    BY <2>1, <2>2, OperandFits
  <2>4. isReady(in) /\ SeqsInside(seqs, in.dims)
    BY <1>1, <1>2 DEF CallFits, CallIndex
  <2> QED BY <1>2, <2>3, <2>4, OneOperand
<1>4. /\ b1 \in BufIds /\ data[b1] = <<>> /\ b2 \in BufIds /\ data[b2] = <<>> /\ b1 # b2
  BY TwoBuffers DEF createSubArray
<1>5. /\ Fits(arr, node, D1) /\ D1[b2] = <<>> /\ D1 \in Buffers
      /\ ArrayFits(parent, node, D1) /\ isReady(parent) /\ parent.dims = in.dims
  <2>1. CASE isLinear(in)
    BY <1>1, <1>3, <1>4, <2>1
  <2>2. CASE ~ isLinear(in)
    <3> DEFINE r == Read(data, in)
    <3>1. r \in Seq(Values) /\ Len(r) = elements(in.dims)
      BY <1>1, <1>3, ReadReady
    <3> HIDE DEF r, in
    <3>2. /\ Fits(arr, node, [data EXCEPT ![b1] = r]) /\ [data EXCEPT ![b1] = r][b1] = r
          /\ \A c \in BufIds : c # b1 => [data EXCEPT ![b1] = r][c] = data[c]
      BY <1>1, <1>4, <3>1, FillBuffer
    <3>3. D1 = [data EXCEPT ![b1] = r] /\ parent = ReadyArray(in.dims, b1)
      BY <2>2 DEF r
    <3> HIDE DEF D1, parent, b1, b2
    <3>4. /\ Fits(arr, node, D1) /\ D1[b2] = <<>> /\ Len(D1[b1]) = elements(in.dims)
      BY <1>4, <3>1, <3>2, <3>3
    <3>5. ArrayFits(parent, node, D1) /\ isReady(parent)
      BY <1>3, <1>4, <3>3, <3>4, ReadyFits
    <3>6. parent.dims = in.dims
      BY <3>3 DEF ReadyArray
    <3> QED BY <3>4, <3>5, <3>6 DEF Fits
  <2> QED BY <2>1, <2>2
<1>6. PICK v : \/ /\ view.strides[1] = 1 /\ \A k \in Dims : view.strides[k] >= 0
                  /\ Finish(view, node, D1, v)
               \/ Finish(ReadyArray(view.dims, b2), node, [D1 EXCEPT ![b2] = w], v)
  <2> HIDE DEF b1, b2
  <2> QED BY DEF createSubArray, b1, b2
<1> HIDE DEF D1, parent, in, b1, b2
<1>7. /\ view.dims \in Shapes
      /\ w \in Seq(Values) /\ Len(w) = elements(view.dims)
      /\ (\A k \in Dims : view.strides[k] >= 0) => ArrayFits(view, node, D1)
      /\ view.node = None
  <2>1. SeqsInside(seqs, parent.dims)
    BY <1>3, <1>5
  <2> QED BY <1>5, <2>1, ViewFits
<1> HIDE DEF view, w, seqs
<1>8. Fits(arr', node', data')
  <2>1. CASE (\A k \in Dims : view.strides[k] >= 0) /\ Finish(view, node, D1, v)
    <3>1. Ref(node, view.node)
      BY <1>7 DEF Ref
    <3> QED BY <1>1, <1>3, <1>5, <1>7, <2>1, <3>1, FinishFits
  <2>2. CASE Finish(ReadyArray(view.dims, b2), node, [D1 EXCEPT ![b2] = w], v)
    <3> DEFINE D2 == [D1 EXCEPT ![b2] = w]
               a == ReadyArray(view.dims, b2)
    <3>1. Fits(arr, node, D2) /\ D2[b2] = w
      BY <1>4, <1>5, <1>7, FillBuffer
    <3>2. Finish(a, node, D2, v)
      BY <2>2
    <3> HIDE DEF D2
    <3>3. ArrayFits(a, node, D2)
      BY <1>4, <1>7, <3>1, ReadyFits
    <3>4. Ref(node, a.node)
      BY MadeArrays
    <3> HIDE DEF a
    <3> QED BY <1>1, <1>3, <3>1, <3>2, <3>3, <3>4, FinishFits
  <2> QED BY <1>6, <2>1, <2>2
<1> QED BY <1>2, <1>8, ReturnedFits DEF GeoInv

\* Host data fill the arrays of the program.
LEMMA InitGeoInv == Init => GeoInv
<1> SUFFICES ASSUME Init PROVE GeoInv
  OBVIOUS
<1>1. PICK dims \in Shapes : /\ arr = [h \in Handles |-> ReadyArray(dims, h)]
                             /\ val = [h \in Handles |-> HostData(elements(dims))]
  BY DEF Init
<1>2. /\ data = [b \in BufIds |-> IF b \in Handles THEN val[b] ELSE <<>>]
      /\ node = [n \in NodeIds |-> NoNode] /\ call = NoCall
  BY DEF Init
<1>3. dims \in DimVec /\ Handles \subseteq BufIds
  BY JitAssumption DEF DimVec
<1> DEFINE v == HostData(elements(dims))
<1>4. v \in Seq(Values) /\ Len(v) = elements(dims)
  BY <1>3, ShapeFacts, HostDataValues
<1> HIDE DEF v
<1>5. data = [b \in BufIds |-> IF b \in Handles THEN v ELSE <<>>]
  BY <1>1, <1>2 DEF v
<1>6. data \in Buffers
  BY <1>4, <1>5 DEF Buffers
<1>7. \A h \in Handles : ArrayFits(arr[h], node, data)
  <2> SUFFICES ASSUME NEW h \in Handles PROVE ArrayFits(arr[h], node, data)
    OBVIOUS
  <2>1. arr[h] = ReadyArray(dims, h) /\ Len(data[h]) = elements(dims)
    BY <1>1, <1>3, <1>4, <1>5
  <2> QED BY <1>3, <2>1, ReadyFits
<1>8. HeapFits(node, data)
  BY <1>2 DEF HeapFits, NodeFits, NoNode
<1>9. CallFits
  <2>1. call.op = "none" /\ call.todo = <<>> /\ call.node = None
    BY <1>2 DEF NoCall
  <2> QED BY <2>1 DEF CallFits, CallKnown, CallBufs, CallArg, CallIndex, CallModdims, OperandOps, Ops
<1> QED BY <1>6, <1>7, <1>8, <1>9 DEF GeoInv, Fits

\* Every step keeps the elements inside their buffers.
LEMMA StepGeoInv == TreeInv /\ GeoInv /\ [Next]_vars => GeoInv'
<1> SUFFICES ASSUME TreeInv, GeoInv, [Next]_vars PROVE GeoInv'
  OBVIOUS
<1>1. CASE call = NoCall /\ Call
  BY <1>1, CallGeo DEF TreeInv, GeoInv
<1>2. CASE Step
  BY <1>2, EvalOperandFits, FinishEvalFits, createNaryNodeFits, ReturnOldNodeFits,
     createSelectNodeFits, createShiftNodeFits, createModdimNodeFits, createSubArrayFits DEF Step
<1>3. CASE UNCHANGED vars
  <2>1. arr' = arr /\ node' = node /\ data' = data /\ call' = call
    BY <1>3 DEF vars
  <2>2. Fits(arr', node', data')
    BY <2>1 DEF GeoInv
  <2>3. CallFits'
    BY <2>1 DEF GeoInv, CallFits, CallKnown, CallBufs, CallArg, CallIndex, CallModdims, FreeBufs, Unready, Live
  <2> QED BY <2>2, <2>3 DEF GeoInv
<1> QED BY <1>1, <1>2, <1>3 DEF Next, Running

\* A buffer that is read has elements.
LEMMA BufferUsed ==
    ASSUME NEW r, data \in Buffers, r.buf \in BufIds, r.off \in Nat, r.dims \in DimVec, r.strides \in Strides,
           InBuffer(data, r)
    PROVE  r.buf \in BuffersInUse
<1>1. Extent(r.dims, r.strides) \in Nat
  BY ExtentType
<1>2. ~ (Len(data[r.buf]) = 0)
  <2>1. r.off + Extent(r.dims, r.strides) < Len(data[r.buf])
    BY DEF InBuffer
  <2> QED BY <1>1, <2>1
<1>3. data[r.buf] # <<>>
  <2>1. Len(<<>>) = 0
    OBVIOUS
  <2> QED BY <1>2, <2>1
<1> QED BY <1>3 DEF BuffersInUse, FreeBufs

\* What fits is of its type.
LEMMA GeoTypeOK == TreeInv /\ GeoInv => TypeOK
<1> SUFFICES ASSUME TreeInv, GeoInv PROVE TypeOK
  OBVIOUS
<1>1. HeapInv /\ HeapOK(node) /\ ArrNodesOK /\ CallShape /\ Fits(arr, node, data) /\ CallFits /\ data \in Buffers
  BY DEF TreeInv, HeapInv, CallInv, GeoInv, Fits
<1>2. ASSUME NEW h \in Handles, Live(h)
      PROVE  /\ arr[h].dims \in Shapes /\ arr[h].off \in Nat /\ arr[h].strides \in [Dims -> Nat]
             /\ isReady(arr[h]) => arr[h].buf \in BuffersInUse
             /\ ~ isReady(arr[h]) => arr[h].buf = None /\ node[arr[h].node] # NoNode
  <2>1. ArrayFits(arr[h], node, data)
    BY <1>1, <1>2 DEF Fits, Live
  <2>2. /\ arr[h].dims \in Shapes /\ arr[h].off \in Nat /\ arr[h].strides \in Strides
        /\ arr[h].dims \in DimVec
    BY <2>1, JitAssumption DEF ArrayFits, Arrays, DimVec
  <2>3. isReady(arr[h]) => arr[h].buf \in BuffersInUse
    BY <1>1, <2>1, <2>2, BufferUsed DEF ArrayFits
  <2>4. ~ isReady(arr[h]) => arr[h].buf = None /\ node[arr[h].node] # NoNode
    BY <1>1, <2>1 DEF ArrayFits, ArrNodesOK, Ref, isReady
  <2> QED BY <2>2, <2>3, <2>4 DEF Strides
<1>3. ASSUME NEW n \in NodeIds
      PROVE  CASE node[n].kind = "buffer" -> node[n].buf \in BuffersInUse /\ node[n].dims \in [Dims -> Nat \ {0}]
               [] node[n].kind = "shift" -> /\ node[node[n].in].kind = "buffer"
                                            /\ \A k \in Dims : node[n].shifts[k] >= 0
               [] node[n].kind = "nary" -> \A c \in ToSet(node[n].children) : node[c] # NoNode
               [] OTHER -> node[n] = NoNode \/ node[n].value \in 0 .. M - 1
  <2>1. NodeFits(node, data, n) /\ NodeOK(node[n])
    BY <1>1 DEF Fits, HeapFits, HeapOK
  <2>2. CASE node[n].kind = "buffer"
    <3>1. node[n] \in BufferNodes /\ InBuffer(data, node[n])
      BY <2>1, <2>2 DEF NodeFits
    <3>2. /\ node[n].buf \in BufIds /\ node[n].off \in Nat /\ node[n].dims \in DimVec
          /\ node[n].strides \in Strides
      BY <3>1 DEF BufferNodes
    <3>3. node[n].buf \in BuffersInUse
      BY <1>1, <3>1, <3>2, BufferUsed
    <3> QED BY <2>2, <3>2, <3>3 DEF DimVec
  <2>3. CASE node[n].kind = "shift"
    <3>1. node[node[n].in].kind = "buffer"
      BY <1>1, <2>3 DEF HeapOK
    <3>2. node[n].shifts \in [Dims -> Nat]
      BY <2>1, <2>3 DEF NodeFits, ShiftNodes, Strides
    <3>3. \A k \in Dims : node[n].shifts[k] >= 0
      BY <3>2
    <3> QED BY <2>3, <3>1, <3>3
  <2>4. CASE node[n].kind = "nary"
    <3>1. Children(node, n) = node[n].children
      BY <2>4 DEF Children
    <3>2. \A c \in ToSet(Children(node, n)) : node[c] # NoNode
      BY <1>1, BelowOf
    <3> QED BY <2>4, <3>1, <3>2
  <2>5. CASE node[n].kind \notin {"buffer", "shift", "nary"}
    <3>1. node[n] = NoNode \/ node[n].kind = "scalar"
      BY <2>1, <2>5 DEF NodeOK, Leaf, NaryNodes
    <3>2. node[n].kind = "scalar" => node[n].value \in 0 .. M - 1
      BY <2>1 DEF NodeFits, ScalarNodes, Values
    <3> QED BY <2>5, <3>1, <3>2
  <2> QED BY <2>2, <2>3, <2>4, <2>5
<1>4. data \in [BufIds -> Seq(0 .. M - 1)] /\ call.op \in Ops /\ call.todo \in Seq(Handles)
  BY <1>1 DEF Buffers, Values, CallFits, CallKnown, CallShape
<1> QED BY <1>2, <1>3, <1>4 DEF TypeOK

\* For any number of arrays, nodes and buffers, any shapes, sequences and shifts,
\* and every limit of the platform: every array has a buffer in use or a tree
\* whose nodes are there, a shift is never negative and reads a buffer, and what
\* kernels and copies write are values, which no element past the end of a buffer
\* would be.
THEOREM TypeOKHolds == Spec => []TypeOK
<1>1. TreeInv /\ GeoInv => TypeOK
  BY GeoTypeOK
<1> QED BY InitTreeInv, InitGeoInv, StepTreeInv, StepGeoInv, <1>1, PTL DEF Spec

\* An array has an element for every index of its shape, whether it is read from
\* its buffer or computed from its tree.
ElementsOfShape ==
    \A h \in Handles : Live(h) =>
        Contents(arr[h]) \in Seq(Values) /\ Len(Contents(arr[h])) = elements(arr[h].dims)

\* For every value of the constants: whatever was reshaped, indexed, shifted or
\* evaluated before, and whether the kernel is linear, strided or has its empty
\* dimensions removed, the evaluation of an array reads inside its buffers and
\* gives an element for every index of its shape.
THEOREM ElementsOfShapeHolds == Spec => []ElementsOfShape
<1>1. TreeInv /\ GeoInv => ElementsOfShape
  <2> SUFFICES ASSUME TreeInv, GeoInv, NEW h \in Handles, Live(h)
               PROVE  Contents(arr[h]) \in Seq(Values) /\ Len(Contents(arr[h])) = elements(arr[h].dims)
    BY DEF ElementsOfShape
  <2>1. HeapOK(node) /\ ArrNodesOK /\ HeapFits(node, data) /\ data \in Buffers /\ ArrayFits(arr[h], node, data)
    BY DEF TreeInv, HeapInv, GeoInv, Fits, Live
  <2>2. CASE isReady(arr[h])
    BY <2>1, <2>2, ReadReady DEF Contents
  <2>3. CASE ~ isReady(arr[h])
    <3> DEFINE n == arr[h].node
               e == evalNodes(node, data, {n}, arr[h].dims)
    <3>1. arr[h].dims \in DimVec /\ n \in NodeIds /\ node[n] # NoNode /\ n \notin ShiftInputs(node)
      BY <2>1, <2>3, JitAssumption DEF ArrayFits, Arrays, DimVec, ArrNodesOK, Ref, isReady
    <3>2. {n} \in SUBSET NodeIds /\ \A m \in {n} : node[m] # NoNode /\ m \notin ShiftInputs(node)
      BY <3>1
    <3> HIDE DEF n
    <3>3. \A m \in {n} : e.out[m] \in Seq(Values) /\ Len(e.out[m]) = elements(arr[h].dims)
      BY <2>1, <3>1, <3>2, EvalFits
    <3>4. Contents(arr[h]) = e.out[n]
      BY <2>3 DEF Contents, n
    <3> QED BY <3>3, <3>4
  <2> QED BY <2>2, <2>3
<1> QED BY InitTreeInv, InitGeoInv, StepTreeInv, StepGeoInv, <1>1, PTL DEF Spec
=============================================================================
