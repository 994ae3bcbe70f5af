------------------------ MODULE MemoryManager_proofs ------------------------
(***************************************************************************)
(* Theorems about MemoryManager, for every number of threads, devices and  *)
(* addresses, every size and every value of the flags.  First what they    *)
(* need of sums: the counters are sums of sizes over buffers.              *)
(***************************************************************************)
EXTENDS MemoryManager, FiniteSetTheorems, WellFoundedInduction, TLAPS

-----------------------------------------------------------------------------
(* Least elements.  The induction theorems of the library have an operator *)
(* as a parameter.  These have a set: of the counterexamples to a claim,   *)
(* which has none if it has no least one.                                  *)

Below == {ss \in Nat \X Nat : ss[1] < ss[2]}

\* The order of the natural numbers is well-founded.
LEMMA BelowIsWellFounded == IsWellFoundedOn(Below, Nat)
BY NatLessThanWellFounded DEF OpToRel, Below

\* A set of natural numbers has a least one.
LEMMA LeastNat ==
    ASSUME NEW T, T \subseteq Nat, T # {}
    PROVE  \E n \in T : \A m \in T : n <= m
<1>1. PICK n \in T : \A m \in T : ~ (<<m, n>> \in Below)
    BY BelowIsWellFounded, WFMin
<1>2. ASSUME NEW m \in T PROVE n <= m
    <2>1. <<m, n>> \in Nat \X Nat /\ ~ (<<m, n>> \in Below)
        BY <1>1
    <2>2. ~ (m < n)
        BY <2>1 DEF Below
    <2> QED
        BY <2>2
<1> QED
    BY <1>2

\* Of the subsets of a finite set, one that is in Bad and no longer is when it
\* loses an element.
LEMMA LeastSubset ==
    ASSUME NEW S, IsFiniteSet(S), NEW Bad, Bad \subseteq SUBSET S, Bad # {}
    PROVE  \E s \in Bad : \A x \in s : s \ {x} \notin Bad
<1> DEFINE Sizes == {Cardinality(s) : s \in Bad}
<1>1. \A s \in Bad : IsFiniteSet(s) /\ Cardinality(s) \in Nat
    BY FS_Subset, FS_CardinalityType
<1>2. PICK n \in Sizes : \A m \in Sizes : n <= m
    <2>1. Sizes \subseteq Nat /\ Sizes # {}
        BY <1>1
    <2> HIDE DEF Sizes
    <2> QED
        BY <2>1, LeastNat
<1>3. PICK s \in Bad : Cardinality(s) = n
    BY <1>2
<1>4. ASSUME NEW x \in s, s \ {x} \in Bad
      PROVE  FALSE
    <2>1. Cardinality(s \ {x}) = Cardinality(s) - 1
        BY <1>1, FS_RemoveElement
    <2>2. n <= Cardinality(s \ {x})
        BY <1>2, <1>4
    <2> QED
        BY <1>1, <1>3, <2>1, <2>2
<1> QED
    BY <1>4

-----------------------------------------------------------------------------
(* Sums.  The fold behind SumFunctionOnSet takes an element CHOOSE picks   *)
(* at every step; the sum of a finite set does not depend on it.           *)

First(s) == CHOOSE x \in s : TRUE

SumStep(f, g, s) == IF s = {} THEN 0 ELSE f[First(s)] + g[s \ {First(s)}]

IsSum(f, S, g) == g = [s \in SUBSET S |-> SumStep(f, g, s)]

\* What CHOOSE picks is in the set.
LEMMA FirstIsIn == ASSUME NEW s, s # {} PROVE First(s) \in s
BY DEF First

\* The recursion defines a function.
LEMMA SumExists ==
    ASSUME NEW f, NEW S, IsFiniteSet(S)
    PROVE  \E g : IsSum(f, S, g)
<1> DEFINE Sub(n) == {s \in SUBSET S : Cardinality(s) <= n}
           UpTo(n, g) == g = [s \in Sub(n) |-> SumStep(f, g, s)]
           Bad == {n \in Nat : ~ \E g : UpTo(n, g)}
<1>1. \A s \in SUBSET S : IsFiniteSet(s) /\ Cardinality(s) \in Nat
    BY FS_Subset, FS_CardinalityType
<1>2. 0 \notin Bad
    <2> DEFINE g == [s \in Sub(0) |-> 0]
    <2>1. \A s \in Sub(0) : s = {}
        BY <1>1, FS_EmptySet
    <2>2. \A s \in Sub(0) : SumStep(f, g, s) = 0
        BY <2>1 DEF SumStep
    <2>3. UpTo(0, g)
        BY <2>2
    <2> QED
        BY <2>3
<1>3. ASSUME NEW n \in Nat, n \notin Bad
      PROVE  n + 1 \notin Bad
    <2>1. PICK g : UpTo(n, g)
        BY <1>3
    <2> DEFINE h == [s \in Sub(n + 1) |-> SumStep(f, g, s)]
    <2>2. ASSUME NEW s \in Sub(n + 1)
          PROVE  SumStep(f, h, s) = SumStep(f, g, s)
        <3>1. CASE s = {}
            BY <3>1 DEF SumStep
        <3>2. CASE s # {}
            <4>1. First(s) \in s
                BY <3>2, FirstIsIn
            <4>2. Cardinality(s \ {First(s)}) = Cardinality(s) - 1
                BY <1>1, <4>1, FS_RemoveElement
            <4>3. s \ {First(s)} \in Sub(n) /\ s \ {First(s)} \in Sub(n + 1)
                BY <1>1, <4>2
            <4>4. h[s \ {First(s)}] = SumStep(f, g, s \ {First(s)})
                BY <4>3
            <4>5. g[s \ {First(s)}] = SumStep(f, g, s \ {First(s)})
                <5> HIDE DEF Sub
                <5> QED BY <2>1, <4>3
            <4> QED
                BY <4>4, <4>5 DEF SumStep
        <3> QED
            BY <3>1, <3>2
    <2>3. UpTo(n + 1, h)
        BY <2>2
    <2> QED
        BY <2>3
<1>4. Bad = {}
    <2> SUFFICES ASSUME Bad # {} PROVE FALSE
        OBVIOUS
    <2>1. PICK n \in Bad : \A m \in Bad : n <= m
        <3> HIDE DEF UpTo
        <3> QED BY LeastNat
    <2>2. n \in Nat /\ n # 0
        BY <1>2
    <2>3. n - 1 \in Nat /\ n - 1 \notin Bad
        <3> HIDE DEF Bad
        <3> QED BY <2>1, <2>2
    <2>4. (n - 1) + 1 \notin Bad
        <3> HIDE DEF Bad
        <3> QED BY <1>3, <2>3
    <2>5. (n - 1) + 1 = n
        BY <2>2
    <2> QED
        BY <2>1, <2>4, <2>5
<1>5. PICK g : UpTo(Cardinality(S), g)
    BY <1>1, <1>4
<1>6. Sub(Cardinality(S)) = SUBSET S
    BY <1>1, FS_Subset
<1> QED
    BY <1>5, <1>6 DEF IsSum

\* It defines one function, which depends on the numbers added only.
LEMMA SumUnique ==
    ASSUME NEW e, NEW f, NEW S, IsFiniteSet(S), NEW R \in SUBSET S,
           NEW g, IsSum(e, S, g), NEW h, IsSum(f, R, h),
           \A x \in R : e[x] = f[x]
    PROVE  g[R] = h[R]
<1> DEFINE Bad == {s \in SUBSET R : g[s] # h[s]}
<1> SUFFICES ASSUME Bad # {} PROVE FALSE
    OBVIOUS
<1>1. PICK s \in Bad : \A x \in s : s \ {x} \notin Bad
    <2>1. IsFiniteSet(R)
        BY FS_Subset
    <2> QED
        BY <2>1, LeastSubset
<1>2. g[s] = SumStep(e, g, s) /\ h[s] = SumStep(f, h, s)
    BY DEF IsSum
<1>3. s # {}
    BY <1>2 DEF SumStep
<1>4. First(s) \in s
    BY <1>3, FirstIsIn
<1>5. g[s \ {First(s)}] = h[s \ {First(s)}]
    BY <1>1, <1>4
<1> QED
    BY <1>2, <1>3, <1>4, <1>5 DEF SumStep

\* SumFunctionOnSet is the value of that function.
LEMMA SumIsThat ==
    ASSUME NEW f, NEW S, IsFiniteSet(S)
    PROVE  \E g : IsSum(f, S, g) /\ SumFunctionOnSet(f, S) = g[S]
<1> DEFINE Is(g) == g = [s \in SUBSET S |->
                        IF s = {} THEN 0
                        ELSE f[CHOOSE x \in s : TRUE]
                                 + g[s \ {CHOOSE x \in s : TRUE}]]
           it == CHOOSE g : Is(g)
<1>1. SumFunctionOnSet(f, S) = it[S]
    BY DEF SumFunctionOnSet, FoldFunctionOnSet, MapThenFoldSet
<1>2. \A g : Is(g) <=> IsSum(f, S, g)
    BY DEF IsSum, SumStep, First
<1>3. Is(it)
    <2> HIDE DEF Is
    <2>1. \E g : Is(g)
        BY <1>2, SumExists
    <2> QED
        BY <2>1
<1> QED
    BY <1>1, <1>2, <1>3

-----------------------------------------------------------------------------
(* The facts about sums.                                                   *)

\* Nothing sums to 0.
LEMMA SumEmpty == ASSUME NEW f PROVE SumFunctionOnSet(f, {}) = 0
<1>1. PICK g : IsSum(f, {}, g) /\ SumFunctionOnSet(f, {}) = g[{}]
    BY SumIsThat, FS_EmptySet
<1> QED
    BY <1>1 DEF IsSum, SumStep

\* The sum depends on the numbers added only.
LEMMA SumSame ==
    ASSUME NEW e, NEW f, NEW S, IsFiniteSet(S), \A x \in S : e[x] = f[x]
    PROVE  SumFunctionOnSet(e, S) = SumFunctionOnSet(f, S)
<1>1. PICK g : IsSum(e, S, g) /\ SumFunctionOnSet(e, S) = g[S]
    BY SumIsThat
<1>2. PICK h : IsSum(f, S, h) /\ SumFunctionOnSet(f, S) = h[S]
    BY SumIsThat
<1> QED
    BY <1>1, <1>2, SumUnique

\* One step of the recursion
LEMMA SumUnfold ==
    ASSUME NEW f, NEW S, IsFiniteSet(S), S # {}
    PROVE  SumFunctionOnSet(f, S)
               = f[First(S)] + SumFunctionOnSet(f, S \ {First(S)})
<1> DEFINE R == S \ {First(S)}
<1>1. PICK g : IsSum(f, S, g) /\ SumFunctionOnSet(f, S) = g[S]
    BY SumIsThat
<1>2. IsFiniteSet(R)
    BY FS_Subset
<1>3. PICK h : IsSum(f, R, h) /\ SumFunctionOnSet(f, R) = h[R]
    BY <1>2, SumIsThat
<1>4. g[R] = h[R]
    <2> HIDE DEF R
    <2>1. R \in SUBSET S
        BY DEF R
    <2>2. ASSUME NEW e, IsSum(e, S, g), \A x \in R : e[x] = f[x]
          PROVE  g[R] = h[R]
        BY <1>3, <2>1, <2>2, SumUnique
    <2> QED
        BY <1>1, <2>2
<1>5. g[S] = f[First(S)] + g[R]
    BY <1>1 DEF IsSum, SumStep
<1> QED
    BY <1>1, <1>3, <1>4, <1>5

\* A sum of natural numbers is one.
LEMMA SumType ==
    ASSUME NEW f, NEW S, IsFiniteSet(S), \A x \in S : f[x] \in Nat
    PROVE  SumFunctionOnSet(f, S) \in Nat
<1> DEFINE Bad == {s \in SUBSET S : SumFunctionOnSet(f, s) \notin Nat}
<1> SUFFICES ASSUME Bad # {} PROVE FALSE
    OBVIOUS
<1>1. PICK s \in Bad : \A x \in s : s \ {x} \notin Bad
    BY LeastSubset
<1>2. s # {}
    BY SumEmpty
<1>3. IsFiniteSet(s) /\ First(s) \in s
    BY <1>2, FirstIsIn, FS_Subset
<1>4. SumFunctionOnSet(f, s \ {First(s)}) \in Nat
    BY <1>1, <1>3
<1> QED
    BY <1>2, <1>3, <1>4, SumUnfold

\* Adding an element adds its number, whichever element the fold begins with.
LEMMA SumAddWithin ==
    ASSUME NEW f, NEW S, IsFiniteSet(S), \A x \in S : f[x] \in Nat,
           NEW R \in SUBSET S, NEW p \in S \ R
    PROVE  SumFunctionOnSet(f, R \cup {p}) = SumFunctionOnSet(f, R) + f[p]
<1> DEFINE Adds(s, q) == SumFunctionOnSet(f, s \cup {q})
                             = SumFunctionOnSet(f, s) + f[q]
           Bad == {s \in SUBSET S : \E q \in S \ s : ~ Adds(s, q)}
<1> SUFFICES ASSUME Bad # {} PROVE FALSE
    OBVIOUS
<1>1. PICK s \in Bad : \A x \in s : s \ {x} \notin Bad
    BY LeastSubset
<1>2. PICK q \in S \ s : ~ Adds(s, q)
    OBVIOUS
<1> DEFINE t == s \cup {q}
           x == First(t)
<1>3. /\ IsFiniteSet(t) /\ t # {} /\ t \in SUBSET S
      /\ SumFunctionOnSet(f, s) \in Nat
    BY FS_Subset, SumType
<1>4. SumFunctionOnSet(f, t) = f[x] + SumFunctionOnSet(f, t \ {x})
    BY <1>3, SumUnfold
<1>5. x \in t
    BY <1>3, FirstIsIn
<1> HIDE DEF x
<1>6. CASE x = q
    <2>1. t \ {x} = s
        BY <1>6
    <2> QED
        BY <1>2, <1>3, <1>4, <1>6, <2>1
<1>7. CASE x # q
    <2>1. x \in s /\ t \ {x} = (s \ {x}) \cup {q} /\ s = (s \ {x}) \cup {x}
        BY <1>5, <1>7
    <2>2. s \ {x} \notin Bad /\ s \ {x} \in SUBSET S
        BY <1>1, <2>1
    <2>3. Adds(s \ {x}, q) /\ Adds(s \ {x}, x)
        BY <2>1, <2>2, <1>7
    <2>4. SumFunctionOnSet(f, s \ {x}) \in Nat
        <3>1. IsFiniteSet(s \ {x})
            BY FS_Subset
        <3> QED
            BY <3>1, SumType
    <2>5. f[x] \in Nat /\ f[q] \in Nat
        BY <2>1
    <2>6. SumFunctionOnSet(f, t \ {x})
              = SumFunctionOnSet(f, s \ {x}) + f[q]
        BY <2>1, <2>3
    <2>7. SumFunctionOnSet(f, s) = SumFunctionOnSet(f, s \ {x}) + f[x]
        BY <2>1, <2>3
    <2>8. SumFunctionOnSet(f, t) = SumFunctionOnSet(f, s) + f[q]
        <3> HIDE DEF t, Bad
        <3> QED BY <1>4, <2>4, <2>5, <2>6, <2>7
    <2> QED
        BY <1>2, <2>8
<1> QED
    BY <1>6, <1>7

\* The same for an element that joins the set
LEMMA SumAdd ==
    ASSUME NEW f, NEW S, IsFiniteSet(S), NEW p, p \notin S,
           \A x \in S \cup {p} : f[x] \in Nat
    PROVE  SumFunctionOnSet(f, S \cup {p}) = SumFunctionOnSet(f, S) + f[p]
<1>1. /\ IsFiniteSet(S \cup {p}) /\ S \in SUBSET (S \cup {p})
      /\ p \in (S \cup {p}) \ S
    BY FS_AddElement
<1> QED
    BY <1>1, SumAddWithin

\* Removing an element takes its number away.
LEMMA SumRemove ==
    ASSUME NEW f, NEW S, IsFiniteSet(S), \A x \in S : f[x] \in Nat, NEW p \in S
    PROVE  /\ SumFunctionOnSet(f, S \ {p}) = SumFunctionOnSet(f, S) - f[p]
           /\ f[p] <= SumFunctionOnSet(f, S)
<1> DEFINE R == S \ {p}
<1>1. R \in SUBSET S /\ p \in S \ R /\ R \cup {p} = S /\ IsFiniteSet(R)
    BY FS_Subset
<1>2. SumFunctionOnSet(f, R) \in Nat /\ f[p] \in Nat
    BY <1>1, SumType
<1> HIDE DEF R
<1>3. SumFunctionOnSet(f, S) = SumFunctionOnSet(f, R) + f[p]
    BY <1>1, SumAddWithin
<1> QED
    BY <1>2, <1>3 DEF R

\* Sets that share no element add up.
LEMMA SumUnionWithin ==
    ASSUME NEW f, NEW S, IsFiniteSet(S), \A x \in S : f[x] \in Nat,
           NEW Q \in SUBSET S, NEW R \in SUBSET S, Q \cap R = {}
    PROVE  SumFunctionOnSet(f, Q \cup R)
               = SumFunctionOnSet(f, Q) + SumFunctionOnSet(f, R)
<1> DEFINE Adds(s) == SumFunctionOnSet(f, Q \cup s)
                          = SumFunctionOnSet(f, Q) + SumFunctionOnSet(f, s)
           Bad == {s \in SUBSET R : ~ Adds(s)}
<1> SUFFICES ASSUME Bad # {} PROVE FALSE
    OBVIOUS
<1>1. PICK s \in Bad : \A x \in s : s \ {x} \notin Bad
    <2>1. IsFiniteSet(R)
        BY FS_Subset
    <2> QED
        BY <2>1, LeastSubset
<1>2. SumFunctionOnSet(f, Q) \in Nat
    BY FS_Subset, SumType
<1>3. CASE s = {}
    BY <1>2, <1>3, SumEmpty
<1>4. CASE s # {}
    <2>1. PICK x \in s : TRUE
        BY <1>4
    <2>2. s \ {x} \notin Bad
        BY <1>1
    <2>3. Adds(s \ {x})
        BY <2>2
    <2> DEFINE r == s \ {x}
    <2>4. /\ r \in SUBSET S /\ Q \cup r \in SUBSET S
          /\ x \in S \ r /\ x \in S \ (Q \cup r)
          /\ s = r \cup {x} /\ Q \cup s = (Q \cup r) \cup {x}
        OBVIOUS
    <2> HIDE DEF r
    <2>5. /\ SumFunctionOnSet(f, s) = SumFunctionOnSet(f, r) + f[x]
          /\ SumFunctionOnSet(f, Q \cup s) = SumFunctionOnSet(f, Q \cup r) + f[x]
        BY <2>4, SumAddWithin
    <2>6. SumFunctionOnSet(f, r) \in Nat /\ f[x] \in Nat
        <3>1. IsFiniteSet(r)
            BY <2>4, FS_Subset
        <3> QED
            BY <2>4, <3>1, SumType
    <2>7. SumFunctionOnSet(f, Q \cup r)
              = SumFunctionOnSet(f, Q) + SumFunctionOnSet(f, r)
        BY <2>3 DEF r
    <2> QED
        BY <1>2, <2>5, <2>6, <2>7
<1> QED
    BY <1>3, <1>4

\* The same for any two sets
LEMMA SumUnion ==
    ASSUME NEW f, NEW Q, IsFiniteSet(Q), NEW R, IsFiniteSet(R), Q \cap R = {},
           \A x \in Q \cup R : f[x] \in Nat
    PROVE  SumFunctionOnSet(f, Q \cup R)
               = SumFunctionOnSet(f, Q) + SumFunctionOnSet(f, R)
<1>1. /\ IsFiniteSet(Q \cup R)
      /\ Q \in SUBSET (Q \cup R) /\ R \in SUBSET (Q \cup R)
    BY FS_Union
<1> QED
    BY <1>1, SumUnionWithin

\* Fewer elements sum to no more.
LEMMA SumMonotonic ==
    ASSUME NEW f, NEW S, IsFiniteSet(S), \A x \in S : f[x] \in Nat,
           NEW R \in SUBSET S
    PROVE  SumFunctionOnSet(f, R) <= SumFunctionOnSet(f, S)
<1> DEFINE Q == S \ R
<1>1. Q \in SUBSET S /\ Q \cap R = {} /\ S = Q \cup R
    OBVIOUS
<1>2. IsFiniteSet(Q) /\ IsFiniteSet(R)
    BY FS_Subset
<1>3. SumFunctionOnSet(f, Q) \in Nat /\ SumFunctionOnSet(f, R) \in Nat
    BY <1>2, SumType
<1> HIDE DEF Q
<1>4. SumFunctionOnSet(f, S)
          = SumFunctionOnSet(f, Q) + SumFunctionOnSet(f, R)
    BY <1>1, SumUnionWithin
<1> QED
    BY <1>3, <1>4

-----------------------------------------------------------------------------
(* The maps.                                                               *)

LEMMA PutMap ==
    ASSUME NEW S, NEW T, NEW f, IsMap(f, S, T), NEW p \in S, NEW v \in T
    PROVE  /\ IsMap(Put(f, p, v), S, T)
           /\ DOMAIN Put(f, p, v) = DOMAIN f \cup {p}
           /\ Put(f, p, v)[p] = v
           /\ \A q \in DOMAIN f : q # p => Put(f, p, v)[q] = f[q]
BY DEF IsMap, Put

LEMMA EraseMap ==
    ASSUME NEW S, NEW T, NEW f, IsMap(f, S, T), NEW p
    PROVE  /\ IsMap(Erase(f, p), S, T)
           /\ DOMAIN Erase(f, p) = DOMAIN f \ {p}
           /\ \A q \in DOMAIN f : q # p => Erase(f, p)[q] = f[q]
BY DEF IsMap, Erase

LEMMA EmptyIsMap ==
    ASSUME NEW S, NEW T
    PROVE  IsMap(EmptyMap, S, T) /\ DOMAIN EmptyMap = {}
BY DEF IsMap, EmptyMap

-----------------------------------------------------------------------------
(* Sizes.                                                                  *)

\* divup(bytes, step) * step is at least bytes: a rounded request has room for
\* what was asked.
LEMMA RoundUpEnough ==
    ASSUME NEW b \in Nat, NEW s \in Nat \ {0}
    PROVE  RoundUp(b, s) \in Nat /\ RoundUp(b, s) >= b
<1> DEFINE n == b + s - 1
           q == n \div s
           r == n % s
<1>1. n \in Nat /\ s \in Int /\ s > 0
    OBVIOUS
<1>2. q \in Int /\ r \in Int /\ n = s * q + r /\ 0 <= r /\ r < s
    BY <1>1
<1>3. q >= 0
    BY <1>1, <1>2
<1>4. q * s = s * q /\ q * s \in Int
    BY <1>1, <1>2
<1>5. q * s >= b
    BY <1>1, <1>2, <1>4
<1> QED
    BY <1>4, <1>5 DEF RoundUp

LEMMA AllocBytesType ==
    ASSUME NEW need \in Requests, NEW step \in StepSizes
    PROVE  AllocBytes(need, step) \in 1..(W - 1) /\ AllocBytes(need, step) >= need
<1>1. need \in Nat \ {0} /\ step \in Nat \ {0} /\ W \in Nat
      /\ need < W /\ RoundUp(need, step) < W
    BY SizeAssumption
<1>2. RoundUp(need, step) \in Nat /\ RoundUp(need, step) >= need
    BY <1>1, RoundUpEnough
<1> QED
    BY <1>1, <1>2 DEF AllocBytes

LEMMA SizeArithmetic ==
    ASSUME NEW a \in 0..(W - 1), NEW b \in 0..(W - 1)
    PROVE  SizeAdd(a, b) \in 0..(W - 1) /\ SizeSub(a, b) \in 0..(W - 1)
BY SizeAssumption DEF SizeAdd, SizeSub

-----------------------------------------------------------------------------
(* Type correctness, together with what a thread carries through a call.   *)

TypeInv == TypeOK /\ CallInv

LEMMA TypeInit == Init => TypeInv
<1> SUFFICES ASSUME Init PROVE TypeInv
    OBVIOUS
<1>1. W \in Nat /\ W > 0
    BY SizeAssumption
<1>2. NoAlloc.bytes = 0 /\ NoAlloc.need = 0
    BY DEF NoAlloc
<1>3. TypeOK
    BY <1>1, EmptyIsMap, SetAssumption, SizeAssumption DEF Init, TypeOK, Holders
<1>4. CallInv
    BY <1>2 DEF Init, CallInv
<1> QED
    BY <1>3, <1>4 DEF TypeInv

\* The steps that touch neither the maps nor the counters.
LEMMA TypeControl ==
    ASSUME TypeInv, NEW t \in Threads,
           \/ CleanDeviceMemoryManager(t)
           \/ NativeFreeThrows(t)
           \/ SignalMemoryCleanup(t)
           \/ AllocCountCheck(t)
           \/ AllocMiss(t)
           \/ NativeAllocNoMem(t)
           \/ OutOfMemory(t)
           \/ NativeAllocError(t)
           \/ \E d \in Devices : SetDevice(t, d)
           \/ \E s \in StepSizes : SetMemStepSize(t, s)
    PROVE  TypeInv'
<1> USE DEF TypeInv
<1>0. NoAlloc.bytes = 0 /\ NoAlloc.need = 0
    BY DEF NoAlloc
<1>1. CASE CleanDeviceMemoryManager(t)
    BY <1>1 DEF CleanDeviceMemoryManager, TypeOK, CallInv, manager, client
<1>2. CASE NativeFreeThrows(t)
    BY <1>0, <1>2 DEF NativeFreeThrows, TypeOK, CallInv, manager, client
<1>3. CASE SignalMemoryCleanup(t)
    BY <1>3 DEF SignalMemoryCleanup, TypeOK, CallInv, manager, client
<1>4. CASE AllocCountCheck(t)
    BY <1>4 DEF AllocCountCheck, TypeOK, CallInv, manager, client
<1>5. CASE AllocMiss(t)
    BY <1>5 DEF AllocMiss, TypeOK, CallInv, manager, client
<1>6. CASE NativeAllocNoMem(t)
    BY <1>6 DEF NativeAllocNoMem, TypeOK, CallInv, manager, client
<1>7. CASE OutOfMemory(t)
    BY <1>0, <1>7 DEF OutOfMemory, TypeOK, CallInv, manager, client
<1>8. CASE NativeAllocError(t)
    BY <1>0, <1>8, SMTT(30) DEF NativeAllocError, TypeOK, CallInv, manager, client
<1>9. CASE \E d \in Devices : SetDevice(t, d)
    BY <1>9 DEF SetDevice, TypeOK, CallInv, manager, client, local
<1>10. CASE \E s \in StepSizes : SetMemStepSize(t, s)
    BY <1>10 DEF SetMemStepSize, TypeOK, CallInv, manager, client, local
<1> QED
    BY <1>1, <1>2, <1>3, <1>4, <1>5, <1>6, <1>7, <1>8, <1>9, <1>10

LEMMA TypeAllocBegin ==
    ASSUME TypeInv, NEW t \in Threads, NEW lock \in Holders,
           NEW need \in Requests, AllocBegin(t, lock, need)
    PROVE  TypeInv'
<1> DEFINE bytes == AllocBytes(need, mem_step_size)
<1> USE DEF TypeInv
<1>1. bytes \in 1..(W - 1) /\ bytes >= need
    BY AllocBytesType DEF TypeOK
<1>2. [lock |-> lock, need |-> need, bytes |-> bytes] \in Alloc
    BY <1>1 DEF Alloc
<1> HIDE DEF bytes
<1>3. request' = [request EXCEPT
          ![t] = [lock |-> lock, need |-> need, bytes |-> bytes]]
    BY DEF AllocBegin, bytes
<1>4. TypeOK'
    BY <1>2, <1>3 DEF AllocBegin, TypeOK, manager, client
<1>5. CallInv'
    BY <1>1, <1>2, <1>3 DEF AllocBegin, TypeOK, CallInv
<1> QED
    BY <1>4, <1>5

LEMMA TypeNative ==
    ASSUME TypeInv, NEW t \in Threads, NativeAlloc(t) \/ NativeFree(t)
    PROVE  TypeInv'
<1> USE DEF TypeInv
<1>1. CASE NativeAlloc(t)
    <2>1. PICK p \in Ptrs :
              /\ new_ptr' = [new_ptr EXCEPT ![t] = p]
              /\ heap' = Put(heap, p, [dev |-> active[t],
                                       bytes |-> request[t].bytes])
        BY <1>1 DEF NativeAlloc
    <2>2. request[t] \in Alloc
        BY <1>1 DEF NativeAlloc, CallInv
    <2>3. [dev |-> active[t], bytes |-> request[t].bytes] \in Block
        BY <2>2 DEF TypeOK, Alloc, Block
    <2>4. IsMap(heap', Ptrs, Block)
        BY <2>1, <2>3, PutMap, ZenonT(30) DEF TypeOK
    <2>5. TypeOK'
        BY <1>1, <2>1, <2>4 DEF NativeAlloc, TypeOK, manager, client
    <2>6. CallInv'
        BY <1>1, <2>1, SetAssumption DEF NativeAlloc, TypeOK, CallInv
    <2> QED
        BY <2>5, <2>6
<1>2. CASE NativeFree(t)
    <2>1. PICK p \in free_ptrs[t] :
              /\ heap' = Erase(heap, p)
              /\ free_ptrs' = [free_ptrs EXCEPT ![t] = @ \ {p}]
              /\ pc' = IF free_ptrs[t] = {p} THEN [pc EXCEPT ![t] = resume[t]]
                                             ELSE pc
        BY <1>2 DEF NativeFree
    <2>2. IsMap(heap', Ptrs, Block)
        BY <2>1, EraseMap DEF TypeOK
    <2>3. TypeOK'
        BY <1>2, <2>1, <2>2, ZenonT(30) DEF NativeFree, TypeOK, manager, client
    <2>4. CallInv'
        BY <1>2, <2>1, ZenonT(30) DEF NativeFree, TypeOK, CallInv
    <2> QED
        BY <2>3, <2>4
<1> QED
    BY <1>1, <1>2

LEMMA TypeMove ==
    ASSUME TypeInv, NEW t \in Threads, MoveToFreePtrs(t)
    PROVE  TypeInv'
<1> USE DEF TypeInv
<1> DEFINE d == active[t]
<1>1. PICK p \in DOMAIN free_map[d] :
          /\ free_ptrs' = [free_ptrs EXCEPT ![t] = @ \cup {p}]
          /\ free_map' = [free_map EXCEPT ![d] = Erase(@, p)]
          /\ total_bytes' = [total_bytes EXCEPT
                 ![d] = SizeSub(@, free_map[d][p])]
          /\ total_buffers' = [total_buffers EXCEPT ![d] = SizeSub(@, 1)]
          /\ pc' = IF DOMAIN free_map[d] = {p} THEN [pc EXCEPT ![t] = "free"]
                                               ELSE pc
    BY DEF MoveToFreePtrs, MovedBuffers
<1>2. d \in Devices /\ p \in Ptrs /\ free_map[d][p] \in 0..(W - 1)
      /\ 1 \in 0..(W - 1)
    BY SizeAssumption DEF TypeOK, IsMap
<1>3. SizeSub(total_bytes[d], free_map[d][p]) \in 0..(W - 1)
      /\ SizeSub(total_buffers[d], 1) \in 0..(W - 1)
    BY <1>2, SizeArithmetic DEF TypeOK
<1>4. IsMap(Erase(free_map[d], p), Ptrs, 1..(W - 1))
    BY <1>2, EraseMap DEF TypeOK
<1>5. \A e \in Devices : IsMap(free_map'[e], Ptrs, 1..(W - 1))
    BY <1>1, <1>2, <1>4 DEF TypeOK
<1>6. TypeOK'
    <2>1. /\ total_bytes' \in [Devices -> 0..(W - 1)]
          /\ total_buffers' \in [Devices -> 0..(W - 1)]
        BY <1>1, <1>2, <1>3 DEF TypeOK
    <2>2. free_ptrs' \in [Threads -> SUBSET Ptrs] /\ DOMAIN free_map' = Devices
        BY <1>1, <1>2 DEF TypeOK
    <2>3. pc' = pc \/ pc' = [pc EXCEPT ![t] = "free"]
        BY <1>1
    <2> QED
        BY <1>5, <2>1, <2>2, <2>3 DEF MoveToFreePtrs, TypeOK, client
<1>7. CallInv'
    BY <1>1, SMTT(30) DEF MoveToFreePtrs, TypeOK, CallInv
<1> QED
    BY <1>6, <1>7

\* What the two ways of handing out a buffer have in common.
LEMMA TypeLockBuffer ==
    ASSUME TypeInv, NEW t \in Threads, NEW p \in Ptrs,
           pc[t] \in {"lookup", "register"}, LockBuffer(t, p), HandOut(t, p)
    PROVE  /\ DOMAIN locked_map' = Devices
           /\ \A d \in Devices : IsMap(locked_map'[d], Ptrs, LockedInfo)
           /\ lock_bytes' \in [Devices -> 0..(W - 1)]
           /\ lock_buffers' \in [Devices -> 0..(W - 1)]
           /\ held' \in [Ptrs -> SUBSET Holders]
           /\ home' \in [Ptrs -> Devices]
           /\ request[t] \in Alloc
           /\ request' = [request EXCEPT ![t] = NoAlloc]
           /\ pc' = [pc EXCEPT ![t] = "idle"]
<1> USE DEF TypeInv
<1> DEFINE d == active[t]
           info == [locks |-> {request[t].lock}, bytes |-> request[t].bytes]
<1>1. request[t] \in Alloc /\ d \in Devices
    BY DEF CallInv, TypeOK
<1>2. info \in LockedInfo /\ request[t].bytes \in 0..(W - 1)
      /\ 1 \in 0..(W - 1)
    BY <1>1, SizeAssumption DEF Alloc, LockedInfo
<1>3. IsMap(Put(locked_map[d], p, info), Ptrs, LockedInfo)
    <2>1. IsMap(locked_map[d], Ptrs, LockedInfo)
        BY <1>1 DEF TypeOK
    <2> HIDE DEF info
    <2> QED
        BY ONLY p \in Ptrs, <1>2, <2>1, PutMap
<1>4. SizeAdd(lock_bytes[d], request[t].bytes) \in 0..(W - 1)
      /\ SizeAdd(lock_buffers[d], 1) \in 0..(W - 1)
    BY <1>1, <1>2, SizeArithmetic DEF TypeOK
<1>5. locked_map' = [locked_map EXCEPT ![d] = Put(@, p, info)]
    BY DEF LockBuffer
<1> HIDE DEF info
<1>6. DOMAIN locked_map' = Devices
      /\ \A e \in Devices : IsMap(locked_map'[e], Ptrs, LockedInfo)
    BY <1>1, <1>3, <1>5 DEF TypeOK
<1>7. {request[t].lock} \in SUBSET Holders
    BY <1>1 DEF Alloc
<1> QED
    BY <1>1, <1>4, <1>6, <1>7 DEF LockBuffer, HandOut, TypeOK

LEMMA TypeHandOut ==
    ASSUME TypeInv, NEW t \in Threads, AllocReuse(t) \/ AllocRegister(t)
    PROVE  TypeInv'
<1> USE DEF TypeInv
<1>0. NoAlloc.bytes = 0 /\ NoAlloc.need = 0
    BY DEF NoAlloc
<1>1. CASE AllocReuse(t)
    <2> DEFINE d == active[t]
    <2>1. PICK p \in DOMAIN free_map[d] :
              /\ free_map' = [free_map EXCEPT ![d] = Erase(@, p)]
              /\ LockBuffer(t, p)
              /\ HandOut(t, p)
        BY <1>1 DEF AllocReuse, PopFree, TypeOK
    <2>2. d \in Devices /\ p \in Ptrs
        BY DEF TypeOK, IsMap
    <2>3. \A e \in Devices : IsMap(free_map'[e], Ptrs, 1..(W - 1))
        BY <2>1, <2>2, EraseMap DEF TypeOK
    <2>4. pc[t] = "lookup"
        BY <1>1 DEF AllocReuse
    <2>5. TypeOK'
        BY <1>1, <2>1, <2>2, <2>3, <2>4, TypeLockBuffer, ZenonT(30) DEF AllocReuse, TypeOK
    <2>6. /\ request' = [request EXCEPT ![t] = NoAlloc]
          /\ pc' = [pc EXCEPT ![t] = "idle"]
          /\ UNCHANGED <<resume, new_ptr, free_ptrs>>
        BY <1>1, <2>1 DEF AllocReuse, HandOut
    <2>7. CallInv'
        BY <1>0, <2>4, <2>6 DEF TypeOK, CallInv
    <2> QED
        BY <2>5, <2>7
<1>2. CASE AllocRegister(t)
    <2> DEFINE d == active[t]
    <2>1. pc[t] = "register" /\ new_ptr[t] \in Ptrs /\ d \in Devices
        BY <1>2 DEF AllocRegister, CallInv, TypeOK
    <2>2. request[t].bytes \in 0..(W - 1) /\ 1 \in 0..(W - 1)
        BY <2>1, SizeAssumption DEF CallInv, Alloc
    <2>3. SizeAdd(total_bytes[d], request[t].bytes) \in 0..(W - 1)
          /\ SizeAdd(total_buffers[d], 1) \in 0..(W - 1)
        BY <2>1, <2>2, SizeArithmetic DEF TypeOK
    <2>4. LockBuffer(t, new_ptr[t]) /\ HandOut(t, new_ptr[t])
        BY <1>2 DEF AllocRegister
    <2>5. TypeOK'
        BY <1>2, <2>1, <2>3, <2>4, TypeLockBuffer DEF AllocRegister, TypeOK
    <2>6. /\ request' = [request EXCEPT ![t] = NoAlloc]
          /\ pc' = [pc EXCEPT ![t] = "idle"]
          /\ new_ptr' = [new_ptr EXCEPT ![t] = NoPtr]
          /\ UNCHANGED <<resume, free_ptrs>>
        BY <1>2, <2>4 DEF AllocRegister, HandOut
    <2>7. CallInv'
        BY <1>0, <2>1, <2>6, SMTT(30) DEF TypeOK, CallInv
    <2> QED
        BY <2>5, <2>7
<1> QED
    BY <1>1, <1>2

LEMMA TypeUnlock ==
    ASSUME TypeInv, NEW t \in Threads, NEW d \in Devices, NEW p \in Ptrs,
           NEW who \in Holders, Unlock(t, d, p, who)
    PROVE  TypeInv'
<1> USE DEF TypeInv
<1>0. /\ pc[t] = "idle" /\ free_ptrs[t] = {} /\ new_ptr[t] = NoPtr
      /\ resume' = [resume EXCEPT ![t] = "idle"]
      /\ held' = [held EXCEPT ![p] = @ \ {who}]
      /\ UNCHANGED <<mem_step_size, active, request, new_ptr, heap, home>>
    BY DEF Unlock, CallInv
<1>1. CASE UnlockUnknown(t, d, p)
    <2>1. TypeOK'
        BY <1>0, <1>1 DEF UnlockUnknown, TypeOK, manager
    <2>2. CallInv'
        BY <1>0, <1>1 DEF UnlockUnknown, TypeOK, CallInv
    <2> QED
        BY <2>1, <2>2
<1>2. CASE UnlockShared(d, p, who)
    <2> DEFINE info == [locked_map[d][p] EXCEPT !.locks = Remaining(d, p, who)]
    <2>1. p \in DOMAIN locked_map[d] /\ locked_map[d][p] \in LockedInfo
        BY <1>2 DEF UnlockShared, TypeOK, IsMap
    <2>2. info \in LockedInfo
        BY <2>1 DEF LockedInfo, Remaining
    <2>3. IsMap(Put(locked_map[d], p, info), Ptrs, LockedInfo)
        BY <2>2, PutMap DEF TypeOK
    <2>4. locked_map' = [locked_map EXCEPT ![d] = Put(@, p, info)]
        BY <1>2 DEF UnlockShared, TypeOK
    <2> HIDE DEF info
    <2>5. TypeOK'
        BY <1>0, <1>2, <2>3, <2>4 DEF UnlockShared, TypeOK
    <2>6. CallInv'
        BY <1>0, <1>2 DEF UnlockShared, TypeOK, CallInv
    <2> QED
        BY <2>5, <2>6
<1>3. CASE UnlockLast(t, d, p, who)
    <2> DEFINE bytes == locked_map[d][p].bytes
    <2>1. p \in DOMAIN locked_map[d] /\ bytes \in 1..(W - 1)
        BY <1>3 DEF UnlockLast, TypeOK, IsMap, LockedInfo
    <2>2. bytes \in 0..(W - 1) /\ 1 \in 0..(W - 1)
        BY <2>1, SizeAssumption
    <2> HIDE DEF bytes
    <2>3. /\ SizeSub(lock_bytes[d], bytes) \in 0..(W - 1)
          /\ SizeSub(lock_buffers[d], 1) \in 0..(W - 1)
          /\ SizeSub(total_bytes[d], bytes) \in 0..(W - 1)
          /\ SizeSub(total_buffers[d], 1) \in 0..(W - 1)
        BY <2>2, SizeArithmetic DEF TypeOK
    <2>4. /\ lock_bytes' = [lock_bytes EXCEPT ![d] = SizeSub(@, bytes)]
          /\ lock_buffers' = [lock_buffers EXCEPT ![d] = SizeSub(@, 1)]
          /\ locked_map' = [locked_map EXCEPT ![d] = Erase(@, p)]
        BY <1>3 DEF UnlockLast, bytes
    <2>5. \A e \in Devices : IsMap(locked_map'[e], Ptrs, LockedInfo)
        BY <2>4, EraseMap DEF TypeOK
    <2>6. CASE DebugMode
        <3>1. /\ free_ptrs' = [free_ptrs EXCEPT ![t] = {p}]
              /\ pc' = [pc EXCEPT ![t] = "release"]
              /\ total_buffers' = [total_buffers EXCEPT ![d] = SizeSub(@, 1)]
              /\ total_bytes' = [total_bytes EXCEPT ![d] = SizeSub(@, bytes)]
              /\ UNCHANGED free_map
            BY <1>3, <2>6 DEF UnlockLast, Discount, bytes
        <3>2. TypeOK'
            BY <1>0, <2>3, <2>4, <2>5, <3>1 DEF TypeOK
        <3>3. CallInv'
            BY <1>0, <3>1 DEF TypeOK, CallInv
        <3> QED
            BY <3>2, <3>3
    <2>7. CASE ~ DebugMode
        <3>1. /\ free_map' = [free_map EXCEPT ![d] = Put(@, p, bytes)]
              /\ UNCHANGED <<free_ptrs, pc, total_buffers, total_bytes>>
            BY <1>3, <2>7 DEF UnlockLast, PushFree, bytes, TypeOK
        <3>2. \A e \in Devices : IsMap(free_map'[e], Ptrs, 1..(W - 1))
            BY <2>1, <3>1, PutMap DEF TypeOK, bytes
        <3>3. TypeOK'
            BY <1>0, <2>3, <2>4, <2>5, <3>1, <3>2 DEF TypeOK
        <3>4. CallInv'
            BY <1>0, <3>1 DEF TypeOK, CallInv
        <3> QED
            BY <3>3, <3>4
    <2> QED
        BY <2>6, <2>7
<1> QED
    BY <1>1, <1>2, <1>3 DEF Unlock

LEMMA TypeUserLock ==
    ASSUME TypeInv, NEW t \in Threads, NEW p \in Ptrs, UserLock(t, p)
    PROVE  TypeInv'
<1> USE DEF TypeInv
<1> DEFINE d == active[t]
<1>1. d \in Devices /\ "user" \in Holders
    BY DEF TypeOK, Holders
<1>2. UserLocked(d, p) \in LockedInfo
    <2>1. p \in DOMAIN locked_map[d] => locked_map[d][p] \in LockedInfo
        BY <1>1 DEF TypeOK, IsMap
    <2>2. ForeignBytes \in 1..(W - 1)
        BY SizeAssumption
    <2> QED
        BY <1>1, <2>1, <2>2 DEF LockedInfo, UserLocked
<1>3. IsMap(Put(locked_map[d], p, UserLocked(d, p)), Ptrs, LockedInfo)
    BY <1>1, <1>2, PutMap DEF TypeOK
<1>4. \A e \in Devices : IsMap(locked_map'[e], Ptrs, LockedInfo)
    BY <1>1, <1>3 DEF UserLock, TypeOK
<1>5. TypeOK'
    BY <1>1, <1>4 DEF UserLock, TypeOK, local
<1>6. CallInv'
    BY DEF UserLock, CallInv, local
<1> QED
    BY <1>5, <1>6

LEMMA TypeWrap ==
    ASSUME TypeInv, NEW t \in Threads, NEW p \in Ptrs,
           \/ \E bytes \in Requests : WrapUserMemory(t, p, bytes)
           \/ AdoptPointer(t, p)
    PROVE  TypeInv'
<1> USE DEF TypeInv
<1>0. {"manager"} \in SUBSET Holders /\ active[t] \in Devices
    BY DEF Holders, TypeOK
<1>1. ASSUME NEW bytes \in Requests, WrapUserMemory(t, p, bytes)
      PROVE  TypeInv'
    <2>0. PICK s \in StepSizes : TRUE
        BY SizeAssumption
    <2>1. bytes \in 1..(W - 1)
        BY <2>0, SizeAssumption
    <2>2. [dev |-> active[t], bytes |-> bytes] \in Block
        BY <1>0, <2>1 DEF Block
    <2>3. IsMap(heap', Ptrs, Block)
        BY <1>1, <2>2, PutMap DEF WrapUserMemory, TypeOK
    <2>4. TypeOK'
        BY <1>0, <1>1, <2>3 DEF WrapUserMemory, TypeOK, manager, local
    <2>5. CallInv'
        BY <1>1 DEF WrapUserMemory, CallInv, local
    <2> QED
        BY <2>4, <2>5
<1>2. CASE AdoptPointer(t, p)
    BY <1>0, <1>2 DEF AdoptPointer, TypeOK, CallInv, manager, local
<1> QED
    BY <1>1, <1>2

LEMMA TypeNext == TypeInv /\ [Next]_vars => TypeInv'
<1> SUFFICES ASSUME TypeInv, [Next]_vars PROVE TypeInv'
    OBVIOUS
<1>1. CASE UNCHANGED vars
    BY <1>1 DEF TypeInv, TypeOK, CallInv, vars, manager, local, client
<1>2. ASSUME NEW t \in Threads, Progress(t)
      PROVE  TypeInv'
    BY <1>2, TypeControl, TypeNative, TypeMove, TypeHandOut DEF Progress
<1>3. ASSUME NEW t \in Threads, Call(t)
      PROVE  TypeInv'
    <2>1. \A p \in Ptrs : home[p] \in Devices
        BY DEF TypeInv, TypeOK
    <2>2. active[t] \in Devices /\ "manager" \in Holders /\ "user" \in Holders
        BY DEF TypeInv, TypeOK, Holders
    <2>3. CASE \E p \in Ptrs : MemFree(t, p) \/ MemFreeUser(t, p)
        BY <2>1, <2>2, <2>3, TypeUnlock DEF MemFree, MemFreeUser
    <2> QED
        BY <1>3, <2>3, TypeControl, TypeAllocBegin, TypeUserLock, TypeWrap
        DEF Call
<1> QED
    BY <1>1, <1>2, <1>3 DEF Next

\* The variables keep their types in every behaviour, whatever the callers do
\* and whatever fails: the counters stay within size_t although unlock may
\* subtract more than was added, and no address enters a map that the native
\* allocator did not name.
THEOREM TypeCorrect == Spec => []TypeOK
<1>1. Init => TypeInv
    BY TypeInit
<1>2. TypeInv /\ [Next]_vars => TypeInv'
    BY TypeNext
<1>3. TypeInv => TypeOK
    BY DEF TypeInv
<1> QED
    BY <1>1, <1>2, <1>3, PTL DEF Spec

-----------------------------------------------------------------------------
(* Counting buffers in size_t.                                             *)

LEMMA CountAdd ==
    ASSUME NEW S \in SUBSET Ptrs, NEW p \in Ptrs \ S
    PROVE  Cardinality(S \cup {p}) = SizeAdd(Cardinality(S), 1)
<1>1. IsFiniteSet(S) /\ IsFiniteSet(S \cup {p}) /\ IsFiniteSet(Ptrs)
    BY SetAssumption, FS_Subset
<1>2. Cardinality(S \cup {p}) = Cardinality(S) + 1
    BY <1>1, FS_AddElement
<1>3. Cardinality(S \cup {p}) <= Cardinality(Ptrs)
    BY <1>1, FS_Subset
<1>4. Cardinality(S) \in Nat /\ Cardinality(Ptrs) \in Nat
    BY <1>1, FS_CardinalityType
<1> QED
    BY <1>2, <1>3, <1>4, SizeAssumption DEF SizeAdd

LEMMA CountRemove ==
    ASSUME NEW S \in SUBSET Ptrs, NEW p \in S
    PROVE  Cardinality(S \ {p}) = SizeSub(Cardinality(S), 1)
<1>1. IsFiniteSet(S)
    BY SetAssumption, FS_Subset
<1>2. Cardinality(S \ {p}) = Cardinality(S) - 1
    BY <1>1, FS_RemoveElement
<1>3. Cardinality(S) \in Nat /\ Cardinality(S \ {p}) \in Nat
    BY <1>1, FS_CardinalityType, FS_RemoveElement
<1> QED
    BY <1>2, <1>3 DEF SizeSub

-----------------------------------------------------------------------------
(* Ownership: the inductive invariant.                                     *)

SafeInv == TypeInv /\ OwnershipInv /\ BufferCounters

LEMMA SafeInit == Init => SafeInv
<1> SUFFICES ASSUME Init PROVE SafeInv
    OBVIOUS
<1>1. TypeInv
    BY TypeInit
<1>2. \A d \in Devices : Locked(d) = {} /\ Pooled(d) = {}
    BY DEF Init, Locked, Pooled, EmptyMap
<1>3. DOMAIN heap = {}
    BY DEF Init, EmptyMap
<1>4. OwnershipInv
    BY <1>2, <1>3 DEF Init, OwnershipInv, LockedInv, HeldInv, PooledInv,
                      FreeingInv, NewInv, NoLeakInv
<1>5. BufferCounters
    <2>1. Cardinality({}) = 0 /\ {} \cup {} = {}
        BY FS_EmptySet
    <2> QED
        BY <1>2, <2>1 DEF Init, BufferCounters
<1> QED
    BY <1>1, <1>4, <1>5 DEF SafeInv

\* Steps that leave the maps, the local vectors and the holders alone.
LEMMA SafeFrame ==
    ASSUME SafeInv,
           UNCHANGED <<locked_map, free_map, total_buffers, lock_buffers,
                       free_ptrs, new_ptr, heap, held, home>>,
           \A t \in Threads : new_ptr[t] # NoPtr =>
               active'[t] = active[t] /\ request'[t] = request[t]
    PROVE  OwnershipInv' /\ BufferCounters'
<1>1. \A d : Locked(d)' = Locked(d) /\ Pooled(d)' = Pooled(d)
    BY DEF Locked, Pooled
<1>2. BufferCounters'
    BY <1>1 DEF SafeInv, BufferCounters
<1>3. LockedInv' /\ HeldInv' /\ PooledInv' /\ FreeingInv' /\ NoLeakInv'
    BY <1>1 DEF SafeInv, OwnershipInv, LockedInv, HeldInv, PooledInv,
                FreeingInv, NoLeakInv
<1>4. NewInv'
    BY DEF SafeInv, OwnershipInv, NewInv
<1> QED
    BY <1>2, <1>3, <1>4 DEF OwnershipInv

LEMMA SafeControl ==
    ASSUME SafeInv, NEW t \in Threads,
           \/ CleanDeviceMemoryManager(t)
           \/ SignalMemoryCleanup(t)
           \/ \E lock \in Holders, need \in Requests : AllocBegin(t, lock, need)
           \/ AllocCountCheck(t)
           \/ AllocMiss(t)
           \/ NativeAllocNoMem(t)
           \/ OutOfMemory(t)
           \/ NativeAllocError(t)
           \/ \E d \in Devices : SetDevice(t, d)
           \/ \E s \in StepSizes : SetMemStepSize(t, s)
    PROVE  OwnershipInv' /\ BufferCounters'
<1>1. UNCHANGED <<locked_map, free_map, total_buffers, lock_buffers,
                  free_ptrs, new_ptr, heap, held, home>>
    BY DEF CleanDeviceMemoryManager, SignalMemoryCleanup, AllocBegin,
           AllocCountCheck, AllocMiss, NativeAllocNoMem, OutOfMemory,
           NativeAllocError, SetDevice, SetMemStepSize, manager, local, client
<1>2. new_ptr[t] = NoPtr
    BY DEF CleanDeviceMemoryManager, SignalMemoryCleanup, AllocBegin,
           AllocCountCheck, AllocMiss, NativeAllocNoMem, OutOfMemory,
           NativeAllocError, SetDevice, SetMemStepSize, SafeInv, TypeInv,
           CallInv
<1>3. \A u \in Threads : u # t =>
          active'[u] = active[u] /\ request'[u] = request[u]
    BY DEF CleanDeviceMemoryManager, SignalMemoryCleanup, AllocBegin,
           AllocCountCheck, AllocMiss, NativeAllocNoMem, OutOfMemory,
           NativeAllocError, SetDevice, SetMemStepSize, SafeInv, TypeInv,
           TypeOK, manager, local, client
<1> QED
    BY <1>1, <1>2, <1>3, SafeFrame

\* An address the allocator does not know is nowhere.
LEMMA AbsentIsNowhere ==
    ASSUME SafeInv, NEW p \in Ptrs \ DOMAIN heap
    PROVE  /\ held[p] = {}
           /\ \A d \in Devices : p \notin Locked(d) /\ p \notin Pooled(d)
           /\ \A t \in Threads : p \notin free_ptrs[t] /\ p # new_ptr[t]
<1>1. held[p] = {}
    BY DEF SafeInv, OwnershipInv, HeldInv
<1>2. \A d \in Devices : p \notin Locked(d) /\ p \notin Pooled(d)
    BY <1>1 DEF SafeInv, OwnershipInv, LockedInv, PooledInv
<1>3. \A t \in Threads : p \notin free_ptrs[t] /\ p # new_ptr[t]
    BY SetAssumption DEF SafeInv, OwnershipInv, FreeingInv, NewInv
<1> QED
    BY <1>1, <1>2, <1>3

LEMMA SafeNativeAlloc ==
    ASSUME SafeInv, NEW t \in Threads, NativeAlloc(t)
    PROVE  OwnershipInv' /\ BufferCounters'
<1>1. PICK p \in Ptrs \ DOMAIN heap :
          /\ new_ptr' = [new_ptr EXCEPT ![t] = p]
          /\ heap' = Put(heap, p, [dev |-> active[t],
                                   bytes |-> request[t].bytes])
    BY DEF NativeAlloc
<1>2. IsMap(heap, Ptrs, Block)
      /\ [dev |-> active[t], bytes |-> request[t].bytes] \in Block
    BY DEF NativeAlloc, SafeInv, TypeInv, TypeOK, CallInv, Alloc, Block
<1>3. /\ DOMAIN heap' = DOMAIN heap \cup {p}
      /\ heap'[p] = [dev |-> active[t], bytes |-> request[t].bytes]
      /\ \A q \in DOMAIN heap : heap'[q] = heap[q]
    BY <1>1, <1>2, PutMap
<1>4. \A d : Locked(d)' = Locked(d) /\ Pooled(d)' = Pooled(d)
    BY DEF NativeAlloc, Locked, Pooled, manager
<1>5. UNCHANGED <<locked_map, free_map, total_buffers, lock_buffers, active,
                  request, free_ptrs, held, home>>
    BY DEF NativeAlloc, manager, client
<1>6. new_ptr \in [Threads -> Ptrs \cup {NoPtr}]
      /\ \A d \in Devices : Locked(d) \subseteq Ptrs /\ Pooled(d) \subseteq Ptrs
    BY DEF SafeInv, TypeInv, TypeOK, IsMap, Locked, Pooled
<1>7. BufferCounters'
    BY <1>4, <1>5 DEF SafeInv, BufferCounters
<1>8. LockedInv' /\ HeldInv'
    BY <1>1, <1>3, <1>4, <1>5, <1>6
    DEF SafeInv, OwnershipInv, LockedInv, HeldInv
<1>9. PooledInv' /\ FreeingInv'
    BY <1>1, <1>3, <1>4, <1>5, <1>6, AbsentIsNowhere
    DEF SafeInv, OwnershipInv, PooledInv, FreeingInv
<1>10. NewInv'
    BY <1>1, <1>3, <1>5, <1>6, AbsentIsNowhere
    DEF SafeInv, OwnershipInv, NewInv
<1>11. NoLeakInv'
    <2> SUFFICES ASSUME NEW q \in DOMAIN heap'
                 PROVE  \/ held[q] # {}
                        \/ \E d \in Devices : q \in Pooled(d)
                        \/ \E u \in Threads : q \in free_ptrs[u]
                                               \/ q = new_ptr'[u]
        BY <1>4, <1>5 DEF NoLeakInv
    <2>1. CASE q = p
        BY <1>1, <1>6, <2>1
    <2>2. CASE q # p
        <3>1. q \in DOMAIN heap
            BY <1>3, <2>2
        <3>2. new_ptr[t] = NoPtr /\ q # NoPtr
            BY <1>2, <3>1, SetAssumption
            DEF NativeAlloc, SafeInv, TypeInv, CallInv, IsMap
        <3> QED
            BY <1>1, <1>6, <3>1, <3>2 DEF SafeInv, OwnershipInv, NoLeakInv
    <2> QED
        BY <2>1, <2>2
<1> QED
    BY <1>7, <1>8, <1>9, <1>10, <1>11 DEF OwnershipInv

LEMMA SafeNativeFree ==
    ASSUME SafeInv, NEW t \in Threads, NativeFree(t)
    PROVE  OwnershipInv' /\ BufferCounters'
<1>1. PICK p \in free_ptrs[t] :
          /\ heap' = Erase(heap, p)
          /\ free_ptrs' = [free_ptrs EXCEPT ![t] = @ \ {p}]
    BY DEF NativeFree
<1>2. /\ DOMAIN heap' = DOMAIN heap \ {p}
      /\ \A q \in DOMAIN heap : q # p => heap'[q] = heap[q]
    BY <1>1 DEF Erase
<1>3. \A d : Locked(d)' = Locked(d) /\ Pooled(d)' = Pooled(d)
    BY DEF NativeFree, Locked, Pooled, manager
<1>4. UNCHANGED <<locked_map, free_map, total_buffers, lock_buffers, active,
                  request, new_ptr, held, home>>
    BY DEF NativeFree, manager, client
<1>5. /\ free_ptrs \in [Threads -> SUBSET Ptrs]
      /\ \A d \in Devices : Locked(d) \subseteq Ptrs /\ Pooled(d) \subseteq Ptrs
    BY DEF SafeInv, TypeInv, TypeOK, IsMap, Locked, Pooled
<1>6. BufferCounters'
    BY <1>3, <1>4 DEF SafeInv, BufferCounters
<1>7. held[p] = {}
    BY DEF SafeInv, OwnershipInv, FreeingInv
<1>8. LockedInv' /\ HeldInv'
    BY <1>2, <1>3, <1>4, <1>5, <1>7
    DEF SafeInv, OwnershipInv, LockedInv, HeldInv
<1>9. PooledInv'
    BY <1>1, <1>2, <1>3, <1>4, <1>5 DEF SafeInv, OwnershipInv, PooledInv
<1>10. FreeingInv'
    BY <1>1, <1>2, <1>4, <1>5 DEF SafeInv, OwnershipInv, FreeingInv
<1>11. NewInv'
    BY <1>1, <1>2, <1>4, <1>5 DEF SafeInv, OwnershipInv, NewInv, FreeingInv
<1>12. NoLeakInv'
    BY <1>1, <1>2, <1>3, <1>4, <1>5 DEF SafeInv, OwnershipInv, NoLeakInv
<1> QED
    BY <1>6, <1>8, <1>9, <1>10, <1>11, <1>12 DEF OwnershipInv

LEMMA SafeMove ==
    ASSUME SafeInv, NEW t \in Threads, MoveToFreePtrs(t)
    PROVE  OwnershipInv' /\ BufferCounters'
<1>0. PICK d \in Devices : d = active[t]
    BY DEF SafeInv, TypeInv, TypeOK
<1>1. PICK p \in DOMAIN free_map[d] :
          /\ free_ptrs' = [free_ptrs EXCEPT ![t] = @ \cup {p}]
          /\ free_map' = [free_map EXCEPT ![d] = Erase(@, p)]
          /\ total_buffers' = [total_buffers EXCEPT ![d] = SizeSub(@, 1)]
    BY <1>0 DEF MoveToFreePtrs, MovedBuffers
<1>2. /\ d \in Devices /\ DOMAIN free_map = Devices /\ p \in Ptrs
      /\ free_ptrs \in [Threads -> SUBSET Ptrs]
      /\ total_buffers \in [Devices -> 0..(W - 1)]
      /\ \A e \in Devices : Locked(e) \subseteq Ptrs /\ Pooled(e) \subseteq Ptrs
    BY DEF SafeInv, TypeInv, TypeOK, IsMap, Locked, Pooled
<1>3. /\ DOMAIN Erase(free_map[d], p) = DOMAIN free_map[d] \ {p}
      /\ \A q \in DOMAIN free_map[d] : q # p =>
             Erase(free_map[d], p)[q] = free_map[d][q]
    <2>1. IsMap(free_map[d], Ptrs, 1..(W - 1))
        BY <1>0 DEF SafeInv, TypeInv, TypeOK
    <2> QED
        BY <2>1, EraseMap, SMTT(30)
<1>4. /\ Pooled(d)' = Pooled(d) \ {p}
      /\ \A e \in Devices \ {d} : Pooled(e)' = Pooled(e)
      /\ \A e \in Devices, q \in Ptrs :
             q \in Pooled(e)' => free_map'[e][q] = free_map[e][q]
    BY <1>1, <1>2, <1>3 DEF Pooled
<1>5. UNCHANGED <<locked_map, lock_buffers, active, request, new_ptr, heap,
                  held, home>>
    BY DEF MoveToFreePtrs, client
<1>6. \A e : Locked(e)' = Locked(e)
    BY <1>5 DEF Locked
<1>7. /\ p \in Pooled(d) /\ held[p] = {} /\ p \in DOMAIN heap /\ heap[p].dev = d
      /\ \A u \in Threads : p \notin free_ptrs[u] /\ p # new_ptr[u]
      /\ \A e \in Devices : p \notin Locked(e)
      /\ \A e \in Devices \ {d} : p \notin Pooled(e)
    BY <1>1, <1>2 DEF SafeInv, OwnershipInv, PooledInv, LockedInv, Pooled
<1>8. BufferCounters'
    <2>1. Locked(d) \cup Pooled(d) \in SUBSET Ptrs
          /\ p \in Locked(d) \cup Pooled(d)
          /\ (Locked(d) \cup Pooled(d)) \ {p} = Locked(d) \cup (Pooled(d) \ {p})
        BY <1>2, <1>7
    <2>2. Cardinality(Locked(d) \cup (Pooled(d) \ {p}))
              = SizeSub(Cardinality(Locked(d) \cup Pooled(d)), 1)
        BY <2>1, CountRemove
    <2>3. total_buffers'[d] = Cardinality(Locked(d)' \cup Pooled(d)')
        BY <1>1, <1>2, <1>4, <1>6, <2>2 DEF SafeInv, BufferCounters
    <2>4. \A e \in Devices \ {d} :
              total_buffers'[e] = Cardinality(Locked(e)' \cup Pooled(e)')
        BY <1>1, <1>2, <1>4, <1>6 DEF SafeInv, BufferCounters
    <2>5. \A e \in Devices : lock_buffers'[e] = Cardinality(Locked(e)')
        BY <1>5, <1>6 DEF SafeInv, BufferCounters
    <2> QED
        BY <2>3, <2>4, <2>5 DEF BufferCounters
<1>9. LockedInv' /\ HeldInv'
    BY <1>5, <1>6 DEF SafeInv, OwnershipInv, LockedInv, HeldInv
<1>10. PooledInv'
    BY <1>1, <1>2, <1>4, <1>5, <1>7 DEF SafeInv, OwnershipInv, PooledInv
<1>11. FreeingInv'
    BY <1>1, <1>2, <1>5, <1>7 DEF SafeInv, OwnershipInv, FreeingInv
<1>12. NewInv'
    BY <1>5 DEF SafeInv, OwnershipInv, NewInv
<1>13. NoLeakInv'
    BY <1>1, <1>2, <1>4, <1>5 DEF SafeInv, OwnershipInv, NoLeakInv
<1> QED
    BY <1>8, <1>9, <1>10, <1>11, <1>12, <1>13 DEF OwnershipInv

\* What the two ways of handing out a buffer do to locked_map and its holder.
HandedOut(t, d, p) ==
    /\ Locked(d)' = Locked(d) \cup {p}
    /\ \A e \in Devices \ {d} : Locked(e)' = Locked(e)
    /\ locked_map'[d][p] = [locks |-> {request[t].lock},
                            bytes |-> request[t].bytes]
    /\ \A e \in Devices : \A q \in Locked(e) \ {p} :
           locked_map'[e][q] = locked_map[e][q]
    /\ lock_buffers'[d] = SizeAdd(lock_buffers[d], 1)
    /\ \A e \in Devices \ {d} : lock_buffers'[e] = lock_buffers[e]
    /\ held'[p] = {request[t].lock} /\ home'[p] = d
    /\ \A q \in Ptrs \ {p} : held'[q] = held[q] /\ home'[q] = home[q]

LEMMA HandOutEffects ==
    ASSUME SafeInv, NEW t \in Threads, NEW d \in Devices, d = active[t],
           NEW p \in Ptrs, LockBuffer(t, p), HandOut(t, p)
    PROVE  HandedOut(t, d, p)
<1> DEFINE info == [locks |-> {request[t].lock}, bytes |-> request[t].bytes]
<1>1. DOMAIN locked_map = Devices
      /\ lock_buffers \in [Devices -> 0..(W - 1)]
      /\ held \in [Ptrs -> SUBSET Holders] /\ home \in [Ptrs -> Devices]
    BY DEF SafeInv, TypeInv, TypeOK
<1>2. locked_map' = [locked_map EXCEPT ![d] = Put(locked_map[d], p, info)]
    BY <1>1 DEF LockBuffer
<1>3. /\ DOMAIN Put(locked_map[d], p, info) = DOMAIN locked_map[d] \cup {p}
      /\ Put(locked_map[d], p, info)[p] = info
      /\ \A q \in DOMAIN locked_map[d] \ {p} :
             Put(locked_map[d], p, info)[q] = locked_map[d][q]
    BY DEF Put
<1> HIDE DEF info
<1>4. /\ Locked(d)' = Locked(d) \cup {p}
      /\ \A e \in Devices \ {d} : Locked(e)' = Locked(e)
      /\ locked_map'[d][p] = info
      /\ \A e \in Devices : \A q \in Locked(e) \ {p} :
             locked_map'[e][q] = locked_map[e][q]
    BY <1>1, <1>2, <1>3 DEF Locked
<1> QED
    BY <1>1, <1>4, ZenonT(30) DEF LockBuffer, HandOut, HandedOut, info

\* The step hands out a buffer that was nobody's: one of the pool, which it
\* leaves, or the new one of thread t.
FreshHandOut(t, d, p) ==
    /\ d = active[t] /\ LockBuffer(t, p) /\ HandOut(t, p)
    /\ held[p] = {} /\ p \in DOMAIN heap
    /\ heap[p].dev = d /\ heap[p].bytes = request[t].bytes
    /\ UNCHANGED <<heap, free_ptrs, active>>
    /\ \A u \in Threads : p \notin free_ptrs[u] /\ p # new_ptr'[u]
    /\ \A u \in Threads \ {t} : new_ptr'[u] = new_ptr[u]
    /\ new_ptr'[t] = NoPtr /\ new_ptr[t] \in {NoPtr, p}
    /\ \A e \in Devices : DOMAIN free_map'[e] = DOMAIN free_map[e] \ {p}
    /\ \A e \in Devices : \A q \in DOMAIN free_map'[e] :
           free_map'[e][q] = free_map[e][q]

LEMMA SafeHandOut ==
    ASSUME SafeInv, NEW t \in Threads, NEW d \in Devices, NEW p \in Ptrs,
           FreshHandOut(t, d, p)
    PROVE  OwnershipInv'
<1>0. HandedOut(t, d, p)
    BY HandOutEffects DEF FreshHandOut
<1> USE DEF SafeInv, FreshHandOut, HandedOut, Pooled
<1>1. /\ request \in [Threads -> Alloc \cup {NoAlloc}]
      /\ \A u \in Threads \ {t} : request'[u] = request[u]
      /\ \A e \in Devices : Locked(e) \subseteq Ptrs /\ Pooled(e) \subseteq Ptrs
      /\ \A u \in Threads : free_ptrs[u] \subseteq Ptrs
      /\ new_ptr \in [Threads -> Ptrs \cup {NoPtr}]
      /\ DOMAIN heap \subseteq Ptrs
    BY DEF TypeInv, TypeOK, HandOut, Locked, Pooled, IsMap
<1>2. \A e \in Devices : p \notin Locked(e)
    BY DEF OwnershipInv, LockedInv
<1>3. LockedInv'
    <2> SUFFICES ASSUME NEW e \in Devices, NEW q \in Locked(e)'
                 PROVE  /\ held'[q] # {} /\ held'[q] = locked_map'[e][q].locks
                        /\ home'[q] = e
                        /\ heap[q].bytes = locked_map'[e][q].bytes
        BY DEF LockedInv
    <2>1. CASE q = p
        <3>1. e = d
            BY <1>0, <1>2, <2>1
        <3>2. locked_map'[e][q].locks = {request[t].lock}
              /\ locked_map'[e][q].bytes = request[t].bytes
            BY <1>0, <2>1, <3>1
        <3> QED
            BY <1>0, <2>1, <3>1, <3>2
    <2>2. CASE q # p
        <3> HIDE DEF SafeInv, FreshHandOut, Pooled
        <3>0. q \in Locked(e)
            <4>1. CASE e = d
                BY <1>0, <2>2, <4>1
            <4>2. CASE e # d
                BY <1>0, <4>2
            <4> QED
                BY <4>1, <4>2
        <3>1. q \in Locked(e) /\ q \in Ptrs
            BY <1>1, <3>0
        <3> USE DEF SafeInv
        <3>2. /\ held[q] # {} /\ held[q] = locked_map[e][q].locks /\ home[q] = e
              /\ heap[q].bytes = locked_map[e][q].bytes
            BY <3>1 DEF OwnershipInv, LockedInv
        <3>3. /\ held'[q] = held[q] /\ home'[q] = home[q]
              /\ locked_map'[e][q] = locked_map[e][q]
            BY <1>0, <2>2, <3>1
        <3> QED
            BY <3>2, <3>3
    <2> QED
        BY <2>1, <2>2
<1>4. HeldInv'
    <2> SUFFICES ASSUME NEW q \in Ptrs, held'[q] # {}
                 PROVE  /\ q \in DOMAIN heap /\ heap[q].dev = home'[q]
                        /\ \/ q \in DOMAIN locked_map'[home'[q]]
                           \/ held'[q] = {"manager"}
        BY DEF HeldInv, Locked
    <2>0. /\ DOMAIN locked_map'[d] = DOMAIN locked_map[d] \cup {p}
          /\ \A e \in Devices \ {d} : DOMAIN locked_map'[e] = DOMAIN locked_map[e]
        BY <1>0 DEF Locked
    <2>1. CASE q = p
        BY <1>0, <2>0, <2>1
    <2>2. CASE q # p
        <3>1. held[q] # {} /\ home'[q] = home[q] /\ home[q] \in Devices
            BY <1>0, <2>2 DEF TypeInv, TypeOK
        <3>2. /\ q \in DOMAIN heap /\ heap[q].dev = home[q]
              /\ q \in DOMAIN locked_map[home[q]] \/ held[q] = {"manager"}
            BY <3>1 DEF OwnershipInv, HeldInv, Locked
        <3> QED
            BY <1>0, <2>0, <2>2, <3>1, <3>2
    <2> QED
        BY <2>1, <2>2
<1>5. PooledInv'
    <2> SUFFICES ASSUME NEW e \in Devices, NEW q \in Pooled(e)'
                 PROVE  /\ held'[q] = {}
                        /\ q \in DOMAIN heap
                        /\ heap[q].dev = e /\ heap[q].bytes = free_map'[e][q]
                        /\ \A u \in Threads : q \notin free_ptrs[u]
                                               /\ q # new_ptr'[u]
        BY DEF PooledInv
    <2>1. q \in Pooled(e) /\ q # p /\ q \in Ptrs
        BY <1>1
    <2>2. \A u \in Threads : q # new_ptr'[u]
        BY <2>1, SetAssumption DEF OwnershipInv, PooledInv
    <2> QED
        BY <1>0, <2>1, <2>2 DEF OwnershipInv, PooledInv
<1>6. FreeingInv'
    <2> SUFFICES ASSUME NEW u \in Threads, NEW q \in free_ptrs[u]
                 PROVE  /\ held'[q] = {}
                        /\ q \in DOMAIN heap
                        /\ \A v \in Threads :
                               q # new_ptr'[v] /\ (v # u => q \notin free_ptrs[v])
        BY DEF FreeingInv
    <2>1. q # p /\ q \in Ptrs
        BY <1>1
    <2>2. \A v \in Threads : q # new_ptr'[v]
        BY <2>1, SetAssumption DEF OwnershipInv, FreeingInv
    <2> QED
        BY <1>0, <2>1, <2>2 DEF OwnershipInv, FreeingInv
<1>7. NewInv'
    BY <1>1, <1>0 DEF OwnershipInv, NewInv
<1>8. NoLeakInv'
    <2> SUFFICES ASSUME NEW q \in DOMAIN heap
                 PROVE  \/ held'[q] # {}
                        \/ \E e \in Devices : q \in Pooled(e)'
                        \/ \E u \in Threads : q \in free_ptrs[u]
                                               \/ q = new_ptr'[u]
        BY DEF NoLeakInv
    <2>1. CASE q = p
        BY <1>0, <2>1
    <2>2. CASE q # p
        BY <1>1, <2>2, <1>0, SetAssumption DEF OwnershipInv, NoLeakInv
    <2> QED
        BY <2>1, <2>2
<1> QED
    BY <1>3, <1>4, <1>5, <1>6, <1>7, <1>8 DEF OwnershipInv

LEMMA SafeReuse ==
    ASSUME SafeInv, NEW t \in Threads, AllocReuse(t)
    PROVE  OwnershipInv' /\ BufferCounters'
<1>0. PICK d \in Devices : d = active[t]
    BY DEF SafeInv, TypeInv, TypeOK
<1>1. PICK p \in DOMAIN free_map[d] :
          /\ free_map[d][p] = request[t].bytes
          /\ free_map' = [free_map EXCEPT ![d] = Erase(free_map[d], p)]
          /\ LockBuffer(t, p)
          /\ HandOut(t, p)
    BY <1>0 DEF AllocReuse, PopFree, Matches
<1>2. /\ DOMAIN free_map = Devices /\ p \in Ptrs
      /\ \A e \in Devices : Locked(e) \subseteq Ptrs /\ Pooled(e) \subseteq Ptrs
    BY DEF SafeInv, TypeInv, TypeOK, IsMap, Locked, Pooled
<1>3. /\ DOMAIN Erase(free_map[d], p) = DOMAIN free_map[d] \ {p}
      /\ \A q \in DOMAIN free_map[d] \ {p} :
             Erase(free_map[d], p)[q] = free_map[d][q]
    BY DEF Erase
<1>4. /\ Pooled(d)' = Pooled(d) \ {p}
      /\ \A e \in Devices \ {d} : Pooled(e)' = Pooled(e)
      /\ \A e \in Devices : \A q \in Pooled(e)' :
             free_map'[e][q] = free_map[e][q]
    BY <1>1, <1>2, <1>3 DEF Pooled
<1>5. /\ p \in Pooled(d) /\ held[p] = {} /\ p \in DOMAIN heap
      /\ heap[p].dev = d /\ heap[p].bytes = request[t].bytes
      /\ \A u \in Threads : p \notin free_ptrs[u] /\ p # new_ptr[u]
      /\ \A e \in Devices : p \notin Locked(e)
      /\ \A e \in Devices \ {d} : p \notin Pooled(e)
    BY <1>1, <1>2 DEF SafeInv, OwnershipInv, PooledInv, LockedInv, Pooled
<1>6. UNCHANGED <<heap, free_ptrs, active, new_ptr, total_buffers>>
      /\ new_ptr[t] = NoPtr
    BY DEF AllocReuse, SafeInv, TypeInv, CallInv
<1>7. OwnershipInv'
    <2>1. \A e \in Devices : Pooled(e)' = Pooled(e) \ {p} /\ p \notin Pooled(e)'
        BY <1>4, <1>5
    <2>2. /\ \A u \in Threads : p \notin free_ptrs[u] /\ p # new_ptr'[u]
          /\ \A u \in Threads \ {t} : new_ptr'[u] = new_ptr[u]
          /\ new_ptr'[t] = NoPtr /\ new_ptr[t] \in {NoPtr, p}
          /\ UNCHANGED <<heap, free_ptrs, active>>
        BY <1>5, <1>6
    <2>3. FreshHandOut(t, d, p)
        BY <1>0, <1>1, <1>4, <1>5, <2>1, <2>2 DEF FreshHandOut, Pooled
    <2> QED
        BY <1>2, <2>3, SafeHandOut
<1>8. BufferCounters'
    <2>0. HandedOut(t, d, p)
        BY <1>0, <1>1, <1>2, HandOutEffects
    <2>1. /\ lock_buffers[d] = Cardinality(Locked(d))
          /\ total_buffers[d] = Cardinality(Locked(d) \cup Pooled(d))
        BY DEF SafeInv, BufferCounters
    <2>2. Cardinality(Locked(d) \cup {p}) = SizeAdd(Cardinality(Locked(d)), 1)
        BY <1>2, <1>5, CountAdd
    <2>3. (Locked(d) \cup {p}) \cup (Pooled(d) \ {p}) = Locked(d) \cup Pooled(d)
        BY <1>5
    <2>4. /\ lock_buffers'[d] = Cardinality(Locked(d)')
          /\ total_buffers'[d] = Cardinality(Locked(d)' \cup Pooled(d)')
        <3>1. /\ Locked(d)' = Locked(d) \cup {p}
              /\ lock_buffers'[d] = SizeAdd(lock_buffers[d], 1)
            BY <2>0 DEF HandedOut
        <3>2. Locked(d)' \cup Pooled(d)' = Locked(d) \cup Pooled(d)
            BY <1>4, <2>3, <3>1
        <3>3. lock_buffers'[d] = Cardinality(Locked(d)')
            BY <2>1, <2>2, <3>1
        <3>4. total_buffers'[d] = Cardinality(Locked(d)' \cup Pooled(d)')
            BY <1>6, <2>1, <3>2
        <3> QED
            BY <3>3, <3>4
    <2>5. ASSUME NEW e \in Devices \ {d}
          PROVE  /\ lock_buffers'[e] = Cardinality(Locked(e)')
                 /\ total_buffers'[e] = Cardinality(Locked(e)' \cup Pooled(e)')
        <3>1. /\ Locked(e)' = Locked(e) /\ Pooled(e)' = Pooled(e)
              /\ lock_buffers'[e] = lock_buffers[e]
            BY <1>4, <2>0 DEF HandedOut
        <3> QED
            BY <1>6, <3>1 DEF SafeInv, BufferCounters
    <2> QED
        BY <2>4, <2>5 DEF BufferCounters
<1> QED
    BY <1>7, <1>8

LEMMA SafeRegister ==
    ASSUME SafeInv, NEW t \in Threads, AllocRegister(t)
    PROVE  OwnershipInv' /\ BufferCounters'
<1>0. PICK d \in Devices : d = active[t]
    BY DEF SafeInv, TypeInv, TypeOK
<1>1. PICK p \in Ptrs : p = new_ptr[t]
    BY DEF AllocRegister, SafeInv, TypeInv, TypeOK, CallInv
<1>2. LockBuffer(t, p) /\ HandOut(t, p)
    BY <1>1 DEF AllocRegister
<1>3. /\ held[p] = {} /\ p \in DOMAIN heap
      /\ heap[p].dev = d /\ heap[p].bytes = request[t].bytes
      /\ \A u \in Threads \ {t} : p # new_ptr[u]
    BY <1>0, <1>1, SetAssumption DEF SafeInv, OwnershipInv, NewInv
<1>4. /\ \A u \in Threads : p \notin free_ptrs[u]
      /\ \A e \in Devices : p \notin Locked(e) /\ p \notin Pooled(e)
    BY <1>1, <1>3
    DEF SafeInv, OwnershipInv, FreeingInv, PooledInv, LockedInv
<1>5. /\ UNCHANGED <<heap, free_ptrs, active, free_map>>
      /\ new_ptr'[t] = NoPtr
      /\ \A u \in Threads \ {t} : new_ptr'[u] = new_ptr[u]
      /\ total_buffers'[d] = SizeAdd(total_buffers[d], 1)
      /\ \A e \in Devices \ {d} : total_buffers'[e] = total_buffers[e]
    BY <1>0 DEF AllocRegister, SafeInv, TypeInv, TypeOK
<1>6. \A e : Pooled(e)' = Pooled(e)
    BY <1>5 DEF Pooled
<1>7. OwnershipInv'
    <2>1. \A u \in Threads : p # new_ptr'[u]
        BY <1>3, <1>5, SetAssumption
    <2>2. \A e \in Devices : Pooled(e)' = Pooled(e) \ {p} /\ p \notin Pooled(e)'
        BY <1>4, <1>6
    <2>3. \A e \in Devices : \A q \in Pooled(e)' :
              free_map'[e][q] = free_map[e][q]
        BY <1>5
    <2>4. /\ \A u \in Threads : p \notin free_ptrs[u] /\ p # new_ptr'[u]
          /\ \A u \in Threads \ {t} : new_ptr'[u] = new_ptr[u]
          /\ new_ptr'[t] = NoPtr /\ new_ptr[t] \in {NoPtr, p}
          /\ UNCHANGED <<heap, free_ptrs, active>>
        BY <1>1, <1>4, <1>5, <2>1
    <2>5. FreshHandOut(t, d, p)
        BY <1>0, <1>2, <1>3, <2>2, <2>3, <2>4 DEF FreshHandOut, Pooled
    <2> QED
        BY <2>5, SafeHandOut
<1>8. BufferCounters'
    <2>0. HandedOut(t, d, p)
        BY <1>0, <1>1, <1>2, HandOutEffects
    <2>1. /\ lock_buffers[d] = Cardinality(Locked(d))
          /\ total_buffers[d] = Cardinality(Locked(d) \cup Pooled(d))
        BY DEF SafeInv, BufferCounters
    <2>2. Locked(d) \in SUBSET Ptrs /\ Pooled(d) \in SUBSET Ptrs
        BY DEF SafeInv, TypeInv, TypeOK, IsMap, Locked, Pooled
    <2>3. Cardinality(Locked(d) \cup {p}) = SizeAdd(Cardinality(Locked(d)), 1)
        BY <1>4, <2>2, CountAdd
    <2>4. Cardinality((Locked(d) \cup Pooled(d)) \cup {p})
              = SizeAdd(Cardinality(Locked(d) \cup Pooled(d)), 1)
        BY <1>4, <2>2, CountAdd
    <2>5. (Locked(d) \cup {p}) \cup Pooled(d) = (Locked(d) \cup Pooled(d)) \cup {p}
        OBVIOUS
    <2>6. /\ lock_buffers'[d] = Cardinality(Locked(d)')
          /\ total_buffers'[d] = Cardinality(Locked(d)' \cup Pooled(d)')
        BY <1>0, <1>2, <1>5, <1>6, <2>1, <2>3, <2>4, <2>5, <2>0 DEF HandedOut
    <2>7. \A e \in Devices \ {d} :
              /\ lock_buffers'[e] = Cardinality(Locked(e)')
              /\ total_buffers'[e] = Cardinality(Locked(e)' \cup Pooled(e)')
        BY <1>0, <1>2, <1>5, <1>6, <2>0, SMTT(30) DEF HandedOut, SafeInv, BufferCounters
    <2> QED
        BY <2>6, <2>7 DEF BufferCounters
<1> QED
    BY <1>7, <1>8

-----------------------------------------------------------------------------
(* unlock.                                                                 *)

\* A buffer somebody holds is nowhere but with its holder.
LEMMA HeldIsNowhereElse ==
    ASSUME SafeInv, NEW p \in Ptrs, held[p] # {}
    PROVE  /\ p \in DOMAIN heap /\ heap[p].dev = home[p]
           /\ \A e \in Devices : p \notin Pooled(e)
           /\ \A e \in Devices : p \in Locked(e) => e = home[p]
           /\ \A u \in Threads : p \notin free_ptrs[u] /\ p # new_ptr[u]
<1>1. p \in DOMAIN heap /\ heap[p].dev = home[p]
    BY DEF SafeInv, OwnershipInv, HeldInv
<1>2. \A e \in Devices : p \notin Pooled(e)
    BY DEF SafeInv, OwnershipInv, PooledInv
<1>3. \A e \in Devices : p \in Locked(e) => e = home[p]
    BY DEF SafeInv, OwnershipInv, LockedInv
<1>4. \A u \in Threads : p \notin free_ptrs[u] /\ p # new_ptr[u]
    BY SetAssumption DEF SafeInv, OwnershipInv, FreeingInv, NewInv
<1> QED
    BY <1>1, <1>2, <1>3, <1>4

\* The step takes the last holder off a buffer, which goes to thread t's
\* vector or to the pool of its device.
ToNativeFree(t, p) ==
    /\ free_ptrs[t] = {} /\ free_ptrs'[t] = {p}
    /\ \A u \in Threads \ {t} : free_ptrs'[u] = free_ptrs[u]
    /\ free_map' = free_map

ToPool(d, p) ==
    /\ free_ptrs' = free_ptrs
    /\ DOMAIN free_map'[d] = DOMAIN free_map[d] \cup {p}
    /\ free_map'[d][p] = heap[p].bytes
    /\ \A q \in DOMAIN free_map[d] \ {p} : free_map'[d][q] = free_map[d][q]
    /\ \A e \in Devices \ {d} : free_map'[e] = free_map[e]

LetGo(t, d, p) ==
    /\ d = home[p] /\ held[p] # {} /\ held'[p] = {}
    /\ \A q \in Ptrs \ {p} : held'[q] = held[q]
    /\ UNCHANGED <<heap, new_ptr, active, request, home>>
    /\ \A e \in Devices : DOMAIN locked_map'[e] = DOMAIN locked_map[e] \ {p}
    /\ \A e \in Devices : \A q \in DOMAIN locked_map'[e] :
           locked_map'[e][q] = locked_map[e][q]
    /\ ToNativeFree(t, p) \/ ToPool(d, p)

LEMMA SafeLetGo ==
    ASSUME SafeInv, NEW t \in Threads, NEW d \in Devices, NEW p \in Ptrs,
           LetGo(t, d, p)
    PROVE  OwnershipInv'
<1>1. /\ p \in DOMAIN heap /\ heap[p].dev = d
      /\ \A e \in Devices : p \notin Pooled(e)
      /\ \A u \in Threads : p \notin free_ptrs[u] /\ p # new_ptr[u]
    BY HeldIsNowhereElse DEF LetGo
<1>2. /\ \A e \in Devices : Locked(e) \subseteq Ptrs /\ Pooled(e) \subseteq Ptrs
      /\ \A u \in Threads : free_ptrs[u] \subseteq Ptrs
      /\ \A u \in Threads : new_ptr[u] # NoPtr => new_ptr[u] \in Ptrs
      /\ home \in [Ptrs -> Devices] /\ DOMAIN heap \subseteq Ptrs
    BY DEF SafeInv, TypeInv, TypeOK, IsMap, Locked, Pooled
<1>3. LockedInv'
    BY <1>2 DEF LetGo, SafeInv, OwnershipInv, LockedInv, Locked
<1>4. HeldInv'
    BY <1>2 DEF LetGo, SafeInv, OwnershipInv, HeldInv, Locked
<1>5. NewInv'
    BY <1>1, <1>2, ZenonT(30) DEF LetGo, SafeInv, OwnershipInv, NewInv
<1>6. CASE ToNativeFree(t, p)
    <2>1. PooledInv'
        BY <1>1, <1>2, <1>6
        DEF LetGo, ToNativeFree, SafeInv, OwnershipInv, PooledInv, Pooled
    <2>2. FreeingInv'
        <3> SUFFICES ASSUME NEW u \in Threads, NEW q \in free_ptrs'[u]
                     PROVE  /\ held'[q] = {}
                            /\ q \in DOMAIN heap
                            /\ \A v \in Threads :
                                  /\ q # new_ptr[v]
                                  /\ v # u => q \notin free_ptrs'[v]
            BY DEF FreeingInv, LetGo
        <3>1. CASE q = p
            BY <1>1, <1>6, <3>1 DEF LetGo, ToNativeFree
        <3>2. CASE q # p
            <4>1. u # t /\ q \in free_ptrs[u] /\ q \in Ptrs
                BY <1>2, <1>6, <3>2 DEF ToNativeFree
            <4> QED
                BY <1>6, <3>2, <4>1
                DEF LetGo, ToNativeFree, SafeInv, OwnershipInv, FreeingInv
        <3> QED
            BY <3>1, <3>2
    <2>3. NoLeakInv'
        <3> SUFFICES ASSUME NEW q \in DOMAIN heap
                     PROVE  \/ held'[q] # {}
                            \/ \E e \in Devices : q \in DOMAIN free_map[e]
                            \/ \E u \in Threads : q \in free_ptrs'[u]
                                                   \/ q = new_ptr[u]
            BY <1>6 DEF NoLeakInv, LetGo, ToNativeFree, Pooled
        <3>1. CASE q = p
            BY <1>6, <3>1 DEF ToNativeFree
        <3>2. CASE q # p
            BY <1>2, <1>6, <3>2
            DEF LetGo, ToNativeFree, SafeInv, OwnershipInv, NoLeakInv, Pooled
        <3> QED
            BY <3>1, <3>2
    <2> QED
        BY <1>3, <1>4, <1>5, <2>1, <2>2, <2>3 DEF OwnershipInv
<1>7. CASE ToPool(d, p)
    <2>0. /\ Pooled(d)' = Pooled(d) \cup {p}
          /\ \A e \in Devices \ {d} : Pooled(e)' = Pooled(e)
        BY <1>7 DEF ToPool, Pooled
    <2>1. PooledInv'
        <3> SUFFICES ASSUME NEW e \in Devices, NEW q \in Pooled(e)'
                     PROVE  /\ held'[q] = {}
                            /\ q \in DOMAIN heap
                            /\ heap[q].dev = e /\ heap[q].bytes = free_map'[e][q]
                            /\ \A u \in Threads : q \notin free_ptrs[u]
                                                   /\ q # new_ptr[u]
            BY <1>7 DEF PooledInv, LetGo, ToPool
        <3>1. CASE q = p
            <4>1. e = d
                BY <1>1, <2>0, <3>1
            <4> QED
                BY <1>1, <1>7, <3>1, <4>1 DEF LetGo, ToPool
        <3>2. CASE q # p
            <4>1. q \in Pooled(e) /\ q \in Ptrs /\ free_map'[e][q] = free_map[e][q]
                BY <1>2, <1>7, <2>0, <3>2 DEF ToPool, Pooled
            <4> QED
                BY <3>2, <4>1 DEF LetGo, SafeInv, OwnershipInv, PooledInv
        <3> QED
            BY <3>1, <3>2
    <2>2. FreeingInv'
        BY <1>1, <1>2, <1>7
        DEF LetGo, ToPool, SafeInv, OwnershipInv, FreeingInv
    <2>3. NoLeakInv'
        <3> SUFFICES ASSUME NEW q \in DOMAIN heap
                     PROVE  \/ held'[q] # {}
                            \/ \E e \in Devices : q \in Pooled(e)'
                            \/ \E u \in Threads : q \in free_ptrs[u]
                                                   \/ q = new_ptr[u]
            BY <1>7 DEF NoLeakInv, LetGo, ToPool
        <3>1. CASE q = p
            BY <2>0, <3>1
        <3>2. CASE q # p
            BY <1>2, <2>0, <3>2 DEF LetGo, SafeInv, OwnershipInv, NoLeakInv
        <3> QED
            BY <3>1, <3>2
    <2> QED
        BY <1>3, <1>4, <1>5, <2>1, <2>2, <2>3 DEF OwnershipInv
<1> QED
    BY <1>6, <1>7 DEF LetGo

\* What a caller of unlock must be for the manager to follow it: it names the
\* device of the buffer, and holds the lock it gives up.
Rightful(d, p, who) ==
    /\ d = home[p] /\ held[p] # {}
    /\ p \in Locked(d) \/ held[p] = {who}

\* What every call of unlock leaves alone, and does to the holders.
LEMMA UnlockFrame ==
    ASSUME SafeInv, NEW t \in Threads, NEW d \in Devices, NEW p \in Ptrs,
           NEW who \in Holders, Unlock(t, d, p, who)
    PROVE  /\ UNCHANGED <<heap, new_ptr, active, request, home>>
           /\ held'[p] = held[p] \ {who}
           /\ \A q \in Ptrs \ {p} : held'[q] = held[q]
           /\ free_ptrs[t] = {} /\ new_ptr[t] = NoPtr
BY DEF Unlock, SafeInv, TypeInv, TypeOK, CallInv

LEMMA SafeUnlockUnknown ==
    ASSUME SafeInv, NEW t \in Threads, NEW d \in Devices, NEW p \in Ptrs,
           NEW who \in Holders, Unlock(t, d, p, who), Rightful(d, p, who),
           UnlockUnknown(t, d, p)
    PROVE  OwnershipInv' /\ BufferCounters'
<1>1. UNCHANGED <<locked_map, free_map, total_buffers, lock_buffers>>
    BY DEF UnlockUnknown, manager
<1>2. p \notin DOMAIN locked_map[d] /\ held[p] = {who}
    BY DEF UnlockUnknown, Rightful, Locked
<1>3. \A e \in Devices : p \notin DOMAIN locked_map[e]
    BY <1>2, HeldIsNowhereElse DEF Rightful, Locked
<1>4. ToNativeFree(t, p)
    <2>1. free_ptrs' = [free_ptrs EXCEPT ![t] = {p}]
          /\ free_ptrs \in [Threads -> SUBSET Ptrs]
        BY DEF UnlockUnknown, SafeInv, TypeInv, TypeOK
    <2> QED
        BY <1>1, <2>1, UnlockFrame DEF ToNativeFree
<1>5. LetGo(t, d, p)
    BY <1>1, <1>2, <1>3, <1>4, UnlockFrame DEF LetGo, Rightful
<1>6. OwnershipInv'
    BY <1>5, SafeLetGo
<1>7. BufferCounters'
    BY <1>1 DEF SafeInv, BufferCounters, Locked, Pooled
<1> QED
    BY <1>6, <1>7

\* The step changes the locks of a buffer that stays locked, and its holders
\* with them.
Relocked(d, p, locks) ==
    /\ d = home[p] /\ p \in Locked(d) /\ locks # {}
    /\ locked_map' = [locked_map EXCEPT
           ![d] = Put(locked_map[d], p, [locked_map[d][p] EXCEPT !.locks = locks])]
    /\ held'[p] = locks
    /\ \A q \in Ptrs \ {p} : held'[q] = held[q]
    /\ UNCHANGED <<free_map, total_buffers, lock_buffers, free_ptrs>>
    /\ UNCHANGED <<heap, new_ptr, active, request, home>>

LEMMA SafeRelocked ==
    ASSUME SafeInv, NEW d \in Devices, NEW p \in Ptrs, NEW locks,
           Relocked(d, p, locks)
    PROVE  OwnershipInv' /\ BufferCounters'
<1> DEFINE info == [locked_map[d][p] EXCEPT !.locks = locks]
<1>1. /\ UNCHANGED <<free_map, total_buffers, lock_buffers, free_ptrs>>
      /\ UNCHANGED <<heap, new_ptr, active, request, home>>
      /\ p \in Locked(d)
    BY DEF Relocked
<1>2. DOMAIN locked_map = Devices
      /\ locked_map' = [locked_map EXCEPT ![d] = Put(locked_map[d], p, info)]
    BY DEF Relocked, SafeInv, TypeInv, TypeOK
<1>3. /\ DOMAIN Put(locked_map[d], p, info) = DOMAIN locked_map[d] \cup {p}
      /\ Put(locked_map[d], p, info)[p] = info
      /\ \A q \in DOMAIN locked_map[d] \ {p} :
             Put(locked_map[d], p, info)[q] = locked_map[d][q]
    BY DEF Put
<1>4. locked_map[d][p] \in LockedInfo
    BY <1>1 DEF SafeInv, TypeInv, TypeOK, IsMap, Locked
<1>5. info.locks = locks /\ info.bytes = locked_map[d][p].bytes
    BY <1>4 DEF LockedInfo
<1> HIDE DEF info
<1>6. /\ \A e \in Devices : Locked(e)' = Locked(e) /\ Pooled(e)' = Pooled(e)
      /\ locked_map'[d][p] = info
      /\ \A e \in Devices : \A q \in Locked(e) \ {p} :
             locked_map'[e][q] = locked_map[e][q]
    BY <1>1, <1>2, <1>3 DEF Locked, Pooled
<1>7. /\ held'[p] = locks /\ locks # {} /\ held[p] # {}
      /\ \A q \in Ptrs \ {p} : held'[q] = held[q]
    BY <1>1 DEF Relocked, SafeInv, OwnershipInv, LockedInv
<1>8. /\ \A e \in Devices : Locked(e) \subseteq Ptrs /\ Pooled(e) \subseteq Ptrs
      /\ \A u \in Threads : free_ptrs[u] \subseteq Ptrs
      /\ \A u \in Threads : new_ptr[u] # NoPtr => new_ptr[u] \in Ptrs
      /\ home \in [Ptrs -> Devices]
    BY DEF SafeInv, TypeInv, TypeOK, IsMap, Locked, Pooled
<1>9. BufferCounters'
    BY <1>1, <1>6 DEF SafeInv, BufferCounters
<1>10. \A q \in Ptrs : held'[q] = {} <=> held[q] = {}
    BY <1>7
<1>11. LockedInv'
    <2> SUFFICES ASSUME NEW e \in Devices, NEW q \in Locked(e)
                 PROVE  /\ held'[q] # {} /\ held'[q] = locked_map'[e][q].locks
                        /\ home[q] = e
                        /\ heap[q].bytes = locked_map'[e][q].bytes
        BY <1>1, <1>6 DEF LockedInv
    <2>1. CASE q = p
        <3>1. e = d /\ d = home[p]
            BY <1>7, <2>1, HeldIsNowhereElse DEF Relocked
        <3> QED
            BY <1>1, <1>5, <1>6, <1>7, <2>1, <3>1
            DEF SafeInv, OwnershipInv, LockedInv
    <2>2. CASE q # p
        BY <1>6, <1>7, <1>8, <2>2 DEF SafeInv, OwnershipInv, LockedInv
    <2> QED
        BY <2>1, <2>2
<1>12. HeldInv'
    <2> SUFFICES ASSUME NEW q \in Ptrs, held'[q] # {}
                 PROVE  /\ q \in DOMAIN heap /\ heap[q].dev = home[q]
                        /\ q \in Locked(home[q]) \/ held'[q] = {"manager"}
        <3>1. \A q \in Ptrs : Locked(home[q])' = Locked(home[q])
            <4> TAKE q \in Ptrs
            <4>1. PICK e \in Devices : e = home[q]
                BY <1>8
            <4>2. home'[q] = home[q]
                BY <1>1
            <4> QED
                BY <1>6, <4>1, <4>2 DEF Locked
        <3> QED
            BY <1>1, <3>1 DEF HeldInv
    <2>1. CASE q = p
        BY <1>1, <1>7, <2>1, HeldIsNowhereElse DEF Relocked
    <2>2. CASE q # p
        BY <1>7, <2>2 DEF SafeInv, OwnershipInv, HeldInv
    <2> QED
        BY <2>1, <2>2
<1>13. PooledInv'
    BY <1>1, <1>6, <1>8, <1>10 DEF SafeInv, OwnershipInv, PooledInv
<1>14. FreeingInv'
    BY <1>1, <1>8, <1>10 DEF SafeInv, OwnershipInv, FreeingInv
<1>15. NewInv'
    BY <1>1, <1>8, <1>10 DEF SafeInv, OwnershipInv, NewInv
<1>16. NoLeakInv'
    <2>1. DOMAIN heap \subseteq Ptrs
        BY DEF SafeInv, TypeInv, TypeOK, IsMap
    <2> QED
        BY <1>1, <1>6, <1>10, <2>1 DEF SafeInv, OwnershipInv, NoLeakInv
<1> QED
    BY <1>9, <1>11, <1>12, <1>13, <1>14, <1>15, <1>16 DEF OwnershipInv

LEMMA SafeUnlockShared ==
    ASSUME SafeInv, NEW t \in Threads, NEW d \in Devices, NEW p \in Ptrs,
           NEW who \in Holders, Unlock(t, d, p, who), Rightful(d, p, who),
           UnlockShared(d, p, who)
    PROVE  OwnershipInv' /\ BufferCounters'
<1>1. p \in Locked(d) /\ Remaining(d, p, who) = held[p] \ {who}
      /\ Remaining(d, p, who) # {}
    BY DEF UnlockShared, Remaining, Locked, SafeInv, OwnershipInv, LockedInv
<1>2. Relocked(d, p, Remaining(d, p, who))
    BY <1>1, UnlockFrame DEF UnlockShared, Rightful, Relocked
<1> QED
    BY <1>2, SafeRelocked

\* userLock of a buffer the manager handed out on the active device.
LEMMA SafeUserLock ==
    ASSUME SafeInv, Disciplined, NEW t \in Threads, NEW p \in Ptrs,
           UserLock(t, p)
    PROVE  OwnershipInv' /\ BufferCounters'
<1>0. PICK d \in Devices : d = active[t]
    BY DEF SafeInv, TypeInv, TypeOK
<1>1. p \in Locked(d) /\ home[p] = d
    BY <1>0 DEF UserLock, Disciplined, Locked, SafeInv, OwnershipInv, LockedInv
<1>2. locked_map[d][p].locks = held[p]
    BY <1>1 DEF SafeInv, OwnershipInv, LockedInv
<1>3. locked_map[d][p] \in LockedInfo
    BY <1>1 DEF SafeInv, TypeInv, TypeOK, IsMap, Locked
<1>4. UserLocked(d, p)
          = [locked_map[d][p] EXCEPT !.locks = held[p] \cup {"user"}]
    BY <1>1, <1>2, <1>3 DEF UserLocked, Locked, LockedInfo
<1>5. locked_map' = [locked_map EXCEPT
          ![d] = Put(locked_map[d], p,
                     [locked_map[d][p] EXCEPT !.locks = held[p] \cup {"user"}])]
    <2>1. locked_map' = [locked_map EXCEPT
              ![d] = Put(locked_map[d], p, UserLocked(d, p))]
        BY <1>0 DEF UserLock
    <2> QED
        BY <1>4, <2>1
<1>6. /\ held'[p] = held[p] \cup {"user"}
      /\ \A q \in Ptrs \ {p} : held'[q] = held[q]
      /\ UNCHANGED <<free_map, total_buffers, lock_buffers, free_ptrs>>
      /\ UNCHANGED <<heap, new_ptr, active, request, home>>
    BY DEF UserLock, local, SafeInv, TypeInv, TypeOK
<1>7. Relocked(d, p, held[p] \cup {"user"})
    BY <1>1, <1>5, <1>6 DEF Relocked
<1> QED
    BY <1>7, SafeRelocked

LEMMA SafeUnlockLast ==
    ASSUME SafeInv, NEW t \in Threads, NEW d \in Devices, NEW p \in Ptrs,
           NEW who \in Holders, Unlock(t, d, p, who), Rightful(d, p, who),
           UnlockLast(t, d, p, who)
    PROVE  OwnershipInv' /\ BufferCounters'
<1>1. /\ p \in Locked(d) /\ held[p] # {} /\ d = home[p]
      /\ locked_map[d][p].locks = held[p]
      /\ locked_map[d][p].bytes = heap[p].bytes
    BY DEF UnlockLast, Locked, Rightful, SafeInv, OwnershipInv, LockedInv
<1>2. held'[p] = {}
    BY <1>1, UnlockFrame DEF UnlockLast, Remaining
<1>3. /\ DOMAIN locked_map = Devices /\ DOMAIN free_map = Devices
      /\ lock_buffers \in [Devices -> 0..(W - 1)]
      /\ total_buffers \in [Devices -> 0..(W - 1)]
      /\ free_ptrs \in [Threads -> SUBSET Ptrs]
      /\ \A e \in Devices : Locked(e) \in SUBSET Ptrs /\ Pooled(e) \in SUBSET Ptrs
    BY DEF SafeInv, TypeInv, TypeOK, IsMap, Locked, Pooled
<1>4. /\ DOMAIN Erase(locked_map[d], p) = DOMAIN locked_map[d] \ {p}
      /\ \A q \in DOMAIN locked_map[d] \ {p} :
             Erase(locked_map[d], p)[q] = locked_map[d][q]
    BY DEF Erase
<1>5. \A e \in Devices : p \notin Pooled(e) /\ (e # d => p \notin Locked(e))
    BY <1>1, HeldIsNowhereElse
<1>6. /\ \A e \in Devices : DOMAIN locked_map'[e] = DOMAIN locked_map[e] \ {p}
      /\ \A e \in Devices : \A q \in DOMAIN locked_map'[e] :
             locked_map'[e][q] = locked_map[e][q]
    <2>1. locked_map' = [locked_map EXCEPT ![d] = Erase(locked_map[d], p)]
        BY DEF UnlockLast
    <2> QED
        BY <1>3, <1>4, <1>5, <2>1 DEF Locked
<1>7. /\ lock_buffers'[d] = SizeSub(lock_buffers[d], 1)
      /\ \A e \in Devices \ {d} : lock_buffers'[e] = lock_buffers[e]
    BY <1>3 DEF UnlockLast
<1>8. /\ Locked(d)' = Locked(d) \ {p}
      /\ \A e \in Devices \ {d} : Locked(e)' = Locked(e)
    BY <1>5, <1>6 DEF Locked
<1>9. lock_buffers'[d] = Cardinality(Locked(d)')
    <2>1. Cardinality(Locked(d) \ {p}) = SizeSub(Cardinality(Locked(d)), 1)
        BY <1>1, <1>3, CountRemove
    <2>2. lock_buffers[d] = Cardinality(Locked(d))
        BY DEF SafeInv, BufferCounters
    <2> QED
        BY <1>7, <1>8, <2>1, <2>2
<1>10. total_buffers[d] = Cardinality(Locked(d) \cup Pooled(d))
    BY DEF SafeInv, BufferCounters
<1>11. ASSUME DebugMode PROVE OwnershipInv' /\ BufferCounters'
    <2>1. /\ free_ptrs' = [free_ptrs EXCEPT ![t] = {p}]
          /\ total_buffers' = [total_buffers EXCEPT ![d] = SizeSub(@, 1)]
          /\ free_map' = free_map
        BY <1>11 DEF UnlockLast, Discount
    <2>2. ToNativeFree(t, p)
        BY <1>3, <2>1, UnlockFrame DEF ToNativeFree
    <2>3. LetGo(t, d, p)
        BY <1>1, <1>2, <1>6, <2>2, UnlockFrame DEF LetGo
    <2>4. \A e : Pooled(e)' = Pooled(e)
        BY <2>1 DEF Pooled
    <2>5. total_buffers'[d] = Cardinality(Locked(d)' \cup Pooled(d)')
        <3>1. p \in Locked(d) \cup Pooled(d)
              /\ Locked(d) \cup Pooled(d) \in SUBSET Ptrs
              /\ Locked(d)' \cup Pooled(d)' = (Locked(d) \cup Pooled(d)) \ {p}
            BY <1>1, <1>3, <1>5, <1>8, <2>4
        <3>2. Cardinality((Locked(d) \cup Pooled(d)) \ {p})
                  = SizeSub(Cardinality(Locked(d) \cup Pooled(d)), 1)
            BY <3>1, CountRemove
        <3>3. total_buffers'[d] = SizeSub(total_buffers[d], 1)
            BY <1>3, <2>1
        <3> QED
            BY <1>10, <3>1, <3>2, <3>3
    <2>6. ASSUME NEW e \in Devices \ {d}
          PROVE  /\ lock_buffers'[e] = Cardinality(Locked(e)')
                 /\ total_buffers'[e] = Cardinality(Locked(e)' \cup Pooled(e)')
        <3>1. Locked(e)' = Locked(e) /\ lock_buffers'[e] = lock_buffers[e]
              /\ total_buffers'[e] = total_buffers[e]
            BY <1>3, <1>7, <1>8, <2>1
        <3> QED
            BY <2>4, <3>1 DEF SafeInv, BufferCounters
    <2>7. BufferCounters'
        BY <1>9, <2>5, <2>6 DEF BufferCounters
    <2> QED
        BY <2>3, <2>7, SafeLetGo
<1>12. ASSUME ~ DebugMode PROVE OwnershipInv' /\ BufferCounters'
    <2>1. /\ free_map' = [free_map EXCEPT
                 ![d] = Put(free_map[d], p, locked_map[d][p].bytes)]
          /\ UNCHANGED <<free_ptrs, total_buffers>>
        BY <1>12 DEF UnlockLast, PushFree
    <2>2. /\ DOMAIN Put(free_map[d], p, locked_map[d][p].bytes)
                 = DOMAIN free_map[d] \cup {p}
          /\ Put(free_map[d], p, locked_map[d][p].bytes)[p]
                 = locked_map[d][p].bytes
          /\ \A q \in DOMAIN free_map[d] \ {p} :
                 Put(free_map[d], p, locked_map[d][p].bytes)[q] = free_map[d][q]
        BY DEF Put
    <2>3. ToPool(d, p)
        BY <1>1, <1>3, <2>1, <2>2 DEF ToPool
    <2>4. LetGo(t, d, p)
        BY <1>1, <1>2, <1>6, <2>3, UnlockFrame DEF LetGo
    <2>5. /\ Pooled(d)' = Pooled(d) \cup {p}
          /\ \A e \in Devices \ {d} : Pooled(e)' = Pooled(e)
        BY <2>3 DEF ToPool, Pooled
    <2>6. total_buffers'[d] = Cardinality(Locked(d)' \cup Pooled(d)')
        <3>1. Locked(d)' \cup Pooled(d)' = Locked(d) \cup Pooled(d)
            BY <1>1, <1>8, <2>5
        <3> QED
            BY <1>10, <2>1, <3>1
    <2>7. ASSUME NEW e \in Devices \ {d}
          PROVE  /\ lock_buffers'[e] = Cardinality(Locked(e)')
                 /\ total_buffers'[e] = Cardinality(Locked(e)' \cup Pooled(e)')
        <3>1. Locked(e)' = Locked(e) /\ lock_buffers'[e] = lock_buffers[e]
              /\ total_buffers'[e] = total_buffers[e] /\ Pooled(e)' = Pooled(e)
            BY <1>7, <1>8, <2>1, <2>5
        <3> QED
            BY <3>1 DEF SafeInv, BufferCounters
    <2>8. BufferCounters'
        BY <1>9, <2>6, <2>7 DEF BufferCounters
    <2> QED
        BY <2>4, <2>8, SafeLetGo
<1> QED
    BY <1>11, <1>12

\* A rightful call of unlock, whichever of its three outcomes it has.
LEMMA SafeUnlock ==
    ASSUME SafeInv, NEW t \in Threads, NEW d \in Devices, NEW p \in Ptrs,
           NEW who \in Holders, Unlock(t, d, p, who), Rightful(d, p, who)
    PROVE  OwnershipInv' /\ BufferCounters'
<1>1. \/ UnlockUnknown(t, d, p)
      \/ UnlockShared(d, p, who)
      \/ UnlockLast(t, d, p, who)
    BY DEF Unlock
<1> QED
    BY <1>1, SafeUnlockUnknown, SafeUnlockShared, SafeUnlockLast

-----------------------------------------------------------------------------
(* The environment, and the step.                                          *)

\* An array of memory the manager does not know.
LEMMA SafeWrap ==
    ASSUME SafeInv, NEW t \in Threads, NEW p \in Ptrs, NEW bytes \in Requests,
           WrapUserMemory(t, p, bytes)
    PROVE  OwnershipInv' /\ BufferCounters'
<1>0. PICK d \in Devices : d = active[t]
    BY DEF SafeInv, TypeInv, TypeOK
<1>1. /\ held[p] = {}
      /\ \A e \in Devices : p \notin Locked(e) /\ p \notin Pooled(e)
      /\ \A u \in Threads : p \notin free_ptrs[u] /\ p # new_ptr[u]
    BY AbsentIsNowhere DEF WrapUserMemory
<1>2. /\ UNCHANGED <<locked_map, free_map, total_buffers, lock_buffers,
                     active, request, new_ptr, free_ptrs>>
      /\ \A e : Locked(e)' = Locked(e) /\ Pooled(e)' = Pooled(e)
    BY DEF WrapUserMemory, manager, local, Locked, Pooled
<1>3. /\ DOMAIN heap' = DOMAIN heap \cup {p}
      /\ heap'[p].dev = d
      /\ \A q \in DOMAIN heap \ {p} : heap'[q] = heap[q]
    BY <1>0 DEF WrapUserMemory, Put
<1>4. /\ held'[p] = {"manager"} /\ home'[p] = d
      /\ \A q \in Ptrs \ {p} : held'[q] = held[q] /\ home'[q] = home[q]
    BY <1>0 DEF WrapUserMemory, SafeInv, TypeInv, TypeOK
<1>5. /\ \A e \in Devices : Locked(e) \subseteq Ptrs /\ Pooled(e) \subseteq Ptrs
      /\ \A u \in Threads : free_ptrs[u] \subseteq Ptrs
      /\ \A u \in Threads : new_ptr[u] # NoPtr => new_ptr[u] \in Ptrs
      /\ home \in [Ptrs -> Devices] /\ DOMAIN heap \subseteq Ptrs
    BY DEF SafeInv, TypeInv, TypeOK, IsMap, Locked, Pooled
<1>6. BufferCounters'
    BY <1>2 DEF SafeInv, BufferCounters
<1>7. LockedInv'
    <2> SUFFICES ASSUME NEW e \in Devices, NEW q \in Locked(e)
                 PROVE  /\ held'[q] # {} /\ held'[q] = locked_map[e][q].locks
                        /\ home'[q] = e
                        /\ heap'[q].bytes = locked_map[e][q].bytes
        BY <1>2 DEF LockedInv
    <2>1. q # p /\ q \in Ptrs
        BY <1>1, <1>5
    <2>2. q \in DOMAIN heap
        BY <2>1 DEF SafeInv, OwnershipInv, LockedInv, HeldInv
    <2> QED
        BY <1>3, <1>4, <2>1, <2>2 DEF SafeInv, OwnershipInv, LockedInv
<1>8. HeldInv'
    <2> SUFFICES ASSUME NEW q \in Ptrs, held'[q] # {}
                 PROVE  /\ q \in DOMAIN heap' /\ heap'[q].dev = home'[q]
                        /\ \/ q \in DOMAIN locked_map[home'[q]]
                           \/ held'[q] = {"manager"}
        BY <1>2 DEF HeldInv, Locked
    <2>1. CASE q = p
        BY <1>3, <1>4, <2>1
    <2>2. CASE q # p
        <3>1. /\ q \in DOMAIN heap /\ heap[q].dev = home[q]
              /\ q \in DOMAIN locked_map[home[q]] \/ held[q] = {"manager"}
            BY <1>4, <2>2 DEF SafeInv, OwnershipInv, HeldInv, Locked
        <3> QED
            BY <1>3, <1>4, <2>2, <3>1
    <2> QED
        BY <2>1, <2>2
<1>9. PooledInv'
    BY <1>1, <1>2, <1>3, <1>4, <1>5 DEF SafeInv, OwnershipInv, PooledInv
<1>10. FreeingInv'
    BY <1>1, <1>2, <1>3, <1>4, <1>5 DEF SafeInv, OwnershipInv, FreeingInv
<1>11. NewInv'
    BY <1>1, <1>2, <1>3, <1>4, <1>5, SMTT(30) DEF SafeInv, OwnershipInv, NewInv
<1>12. NoLeakInv'
    <2> SUFFICES ASSUME NEW q \in DOMAIN heap'
                 PROVE  \/ held'[q] # {}
                        \/ \E e \in Devices : q \in Pooled(e)
                        \/ \E u \in Threads : q \in free_ptrs[u]
                                               \/ q = new_ptr[u]
        BY <1>2 DEF NoLeakInv
    <2>1. CASE q = p
        BY <1>4, <2>1
    <2>2. CASE q # p
        BY <1>3, <1>4, <1>5, <2>2 DEF SafeInv, OwnershipInv, NoLeakInv
    <2> QED
        BY <2>1, <2>2
<1> QED
    BY <1>6, <1>7, <1>8, <1>9, <1>10, <1>11, <1>12 DEF OwnershipInv

\* The two callers of unlock are rightful: releaseHandle goes to the array's
\* device, af_unlock_array and af_free_device find the buffer on the active one.
LEMMA SafeMemFree ==
    ASSUME SafeInv, Disciplined, NEW t \in Threads, NEW p \in Ptrs,
           MemFree(t, p) \/ MemFreeUser(t, p)
    PROVE  OwnershipInv' /\ BufferCounters'
<1>1. CASE MemFree(t, p)
    <2>1. PICK d \in Devices : d = home[p]
        BY DEF SafeInv, TypeInv, TypeOK
    <2>2. Unlock(t, d, p, "manager") /\ held[p] # {}
        BY <1>1, <2>1 DEF MemFree
    <2>3. Rightful(d, p, "manager")
        BY <2>1, <2>2 DEF Rightful, SafeInv, OwnershipInv, HeldInv
    <2> QED
        BY <2>2, <2>3, SafeUnlock DEF Holders
<1>2. CASE MemFreeUser(t, p)
    <2>1. PICK d \in Devices : d = active[t]
        BY DEF SafeInv, TypeInv, TypeOK
    <2>2. Unlock(t, d, p, "user") /\ held[p] # {} /\ p \in Locked(d)
        BY <1>2, <2>1 DEF MemFreeUser, Disciplined, Locked
    <2>3. Rightful(d, p, "user")
        BY <2>2 DEF Rightful, SafeInv, OwnershipInv, LockedInv
    <2> QED
        BY <2>2, <2>3, SafeUnlock DEF Holders
<1> QED
    BY <1>1, <1>2

LEMMA SafeNext ==
    ASSUME Disciplined
    PROVE  SafeInv /\ [Next]_vars => SafeInv'
<1> SUFFICES ASSUME SafeInv, [Next]_vars PROVE SafeInv'
    OBVIOUS
<1>1. TypeInv'
    BY TypeNext DEF SafeInv
<1>2. ASSUME UNCHANGED vars PROVE OwnershipInv' /\ BufferCounters'
    BY <1>2, SafeFrame DEF vars, manager, local, client
<1>3. ASSUME NEW t \in Threads, Progress(t)
      PROVE  OwnershipInv' /\ BufferCounters'
    <2>1. ~ NativeFreeThrows(t)
        BY DEF Disciplined, NativeFreeThrows
    <2> QED
        BY <1>3, <2>1, SafeControl, SafeMove, SafeNativeFree, SafeReuse,
           SafeNativeAlloc, SafeRegister
        DEF Progress
<1>4. ASSUME NEW t \in Threads, Call(t)
      PROVE  OwnershipInv' /\ BufferCounters'
    <2>1. \A p \in Ptrs : ~ AdoptPointer(t, p)
        BY DEF Disciplined, AdoptPointer
    <2> QED
        BY <1>4, <2>1, SafeControl, SafeMemFree, SafeUserLock, SafeWrap
        DEF Call
<1> QED
    BY <1>1, <1>2, <1>3, <1>4 DEF SafeInv, Next

-----------------------------------------------------------------------------
(* What follows.                                                           *)

\* The ownership invariant holds in every state, for disciplined callers.
LEMMA Ownership ==
    ASSUME Disciplined
    PROVE  Spec => []SafeInv
<1>1. Init => SafeInv
    BY SafeInit
<1>2. SafeInv /\ [Next]_vars => SafeInv'
    BY SafeNext
<1> QED
    BY <1>1, <1>2, PTL DEF Spec

\* No buffer in use is ever given back to the native allocator, whatever the
\* collections, unlocks and allocations of other threads do.
THEOREM NoUseAfterFreeHolds == Disciplined => (Spec => []NoUseAfterFree)
<1> SUFFICES ASSUME Disciplined PROVE Spec => []NoUseAfterFree
    OBVIOUS
<1>1. SafeInv => NoUseAfterFree
    BY DEF SafeInv, OwnershipInv, HeldInv, NoUseAfterFree
<1>2. Spec => []SafeInv
    BY Ownership
<1> QED
    BY <1>1, <1>2, PTL

\* No buffer in use is handed out a second time, or known to two devices.
THEOREM NoAliasingHolds == Disciplined => (Spec => []NoAliasing)
<1> SUFFICES ASSUME Disciplined PROVE Spec => []NoAliasing
    OBVIOUS
<1>1. SafeInv => NoAliasing
    BY HeldIsNowhereElse DEF NoAliasing
<1>2. Spec => []SafeInv
    BY Ownership
<1> QED
    BY <1>1, <1>2, PTL

\* The two locks of every buffer agree with its holders.
THEOREM LocksAreHeldHolds == Disciplined => (Spec => []LocksAreHeld)
<1> SUFFICES ASSUME Disciplined PROVE Spec => []LocksAreHeld
    OBVIOUS
<1>1. SafeInv => LocksAreHeld
    BY DEF SafeInv, OwnershipInv, LockedInv, LocksAreHeld
<1>2. Spec => []SafeInv
    BY Ownership
<1> QED
    BY <1>1, <1>2, PTL

\* total_buffers and lock_buffers count the buffers in the maps, in size_t
\* arithmetic, for any number of addresses below the range of size_t.
THEOREM BufferCountersHold == Disciplined => (Spec => []BufferCounters)
<1> SUFFICES ASSUME Disciplined PROVE Spec => []BufferCounters
    OBVIOUS
<1>1. SafeInv => BufferCounters
    BY DEF SafeInv
<1>2. Spec => []SafeInv
    BY Ownership
<1> QED
    BY <1>1, <1>2, PTL

\* A step changes where a thread is in its call only if it is that thread's.
LEMMA OnlyOwnStep ==
    ASSUME SafeInv, NEW t \in Threads, NEW u \in Threads,
           Progress(u) \/ Call(u), pc'[t] # pc[t]
    PROVE  u = t
<1>0. pc \in [Threads -> {"idle", "count", "collect", "moving", "free",
                          "release", "lookup", "native", "retry", "register"}]
    BY DEF SafeInv, TypeInv, TypeOK
<1>1. CASE CleanDeviceMemoryManager(u) \/ MoveToFreePtrs(u) \/ NativeFree(u)
           \/ NativeFreeThrows(u) \/ SignalMemoryCleanup(u)
    BY <1>0, <1>1 DEF CleanDeviceMemoryManager, MoveToFreePtrs, NativeFree,
                      NativeFreeThrows, SignalMemoryCleanup
<1>2. CASE AllocCountCheck(u) \/ AllocMiss(u) \/ NativeAlloc(u)
           \/ NativeAllocNoMem(u) \/ OutOfMemory(u) \/ NativeAllocError(u)
           \/ \E lock \in Holders, need \in Requests : AllocBegin(u, lock, need)
    BY <1>0, <1>2 DEF AllocCountCheck, AllocMiss, NativeAlloc, OutOfMemory,
                      NativeAllocNoMem, NativeAllocError, AllocBegin
<1>3. CASE AllocReuse(u) \/ AllocRegister(u)
    BY <1>0, <1>3 DEF AllocReuse, AllocRegister, HandOut
<1>4. ASSUME NEW d, NEW p, NEW who, Unlock(u, d, p, who) PROVE u = t
    BY <1>0, <1>4 DEF Unlock, UnlockUnknown, UnlockShared, UnlockLast
<1>5. CASE \E p \in Ptrs : MemFree(u, p) \/ MemFreeUser(u, p)
    BY <1>4, <1>5 DEF MemFree, MemFreeUser
<1>6. CASE \/ \E p \in Ptrs : UserLock(u, p) \/ AdoptPointer(u, p)
           \/ \E p \in Ptrs, bytes \in Requests : WrapUserMemory(u, p, bytes)
           \/ \E d \in Devices : SetDevice(u, d)
           \/ \E s \in StepSizes : SetMemStepSize(u, s)
    BY <1>6 DEF UserLock, AdoptPointer, WrapUserMemory, SetDevice,
                SetMemStepSize, local
<1> QED
    BY <1>1, <1>2, <1>3, <1>5, <1>6 DEF Progress, Call

\* What alloc returns is at least as large as the request, on the caller's
\* device, and nobody else's.
THEOREM AllocPromiseHolds == Disciplined => (Spec => AllocPromise)
<1> SUFFICES ASSUME Disciplined PROVE Spec => AllocPromise
    OBVIOUS
<1> DEFINE Kept ==
        \A t \in Threads, p \in Ptrs :
            /\ pc[t] \in {"lookup", "register"}
            /\ pc'[t] = "idle"
            /\ held'[p] # held[p]
            => /\ held[p] = {}
               /\ heap[p].bytes >= request[t].need
               /\ heap[p].dev = active[t]
<1>1. SafeInv /\ [Next]_vars => [Kept]_vars
    <2> SUFFICES ASSUME SafeInv, NEW u \in Threads, Progress(u) \/ Call(u),
                        NEW t \in Threads, NEW p \in Ptrs,
                        pc[t] \in {"lookup", "register"}, pc'[t] = "idle",
                        held'[p] # held[p]
                 PROVE  /\ held[p] = {}
                        /\ heap[p].bytes >= request[t].need
                        /\ heap[p].dev = active[t]
        BY DEF Next
    <2>1. u = t
        BY OnlyOwnStep
    <2>2. ~ Call(t)
        BY DEF Call, SignalMemoryCleanup, AllocBegin, MemFree, MemFreeUser,
               Unlock, UserLock, WrapUserMemory, AdoptPointer, SetDevice,
               SetMemStepSize
    <2>3. AllocReuse(t) \/ AllocRegister(t)
        BY <2>1, <2>2
        DEF Progress, CleanDeviceMemoryManager, MoveToFreePtrs, NativeFree,
            NativeFreeThrows, AllocCountCheck, AllocMiss, NativeAlloc,
            NativeAllocNoMem, OutOfMemory, NativeAllocError, SafeInv, TypeInv,
            TypeOK
    <2>4. request[t].bytes >= request[t].need
        BY DEF SafeInv, TypeInv, CallInv
    <2>5. held \in [Ptrs -> SUBSET Holders]
        BY DEF SafeInv, TypeInv, TypeOK
    <2>6. CASE AllocReuse(t)
        <3>1. PICK q \in Pooled(active[t]) :
                  /\ free_map[active[t]][q] = request[t].bytes
                  /\ held' = [held EXCEPT ![q] = {request[t].lock}]
            BY <2>6 DEF AllocReuse, Matches, HandOut, Pooled
        <3>2. q = p
            BY <2>5, <3>1
        <3>3. active[t] \in Devices
            BY DEF SafeInv, TypeInv, TypeOK
        <3> QED
            BY <2>4, <3>1, <3>2, <3>3 DEF SafeInv, OwnershipInv, PooledInv
    <2>7. CASE AllocRegister(t)
        <3>1. /\ held' = [held EXCEPT ![new_ptr[t]] = {request[t].lock}]
              /\ new_ptr[t] # NoPtr
            BY <2>7 DEF AllocRegister, HandOut, SafeInv, TypeInv, CallInv
        <3>2. new_ptr[t] = p
            BY <2>5, <3>1
        <3> QED
            BY <2>4, <3>1, <3>2 DEF SafeInv, OwnershipInv, NewInv
    <2> QED
        BY <2>3, <2>6, <2>7
<1>2. Spec => []SafeInv
    BY Ownership
<1>3. [][Kept]_vars => AllocPromise
    BY DEF AllocPromise
<1> QED
    BY <1>1, <1>2, <1>3, PTL DEF Spec

-----------------------------------------------------------------------------
(* Out of memory.                                                          *)

\* In debug mode nothing is ever pooled.
DebugInv == DebugMode => \A d \in Devices : Pooled(d) = {}

LEMMA DebugNext ==
    ASSUME TypeInv, DebugInv, [Next]_vars
    PROVE  DebugInv'
<1> SUFFICES ASSUME DebugMode, \A d \in Devices : Pooled(d) = {},
                    NEW e \in Devices
             PROVE  Pooled(e)' = {}
    BY DEF DebugInv
<1>0. DOMAIN free_map = Devices /\ active \in [Threads -> Devices]
    BY DEF TypeInv, TypeOK
<1>1. CASE free_map' = free_map
    BY <1>1 DEF Pooled
<1>2. CASE UNCHANGED vars
    BY <1>1, <1>2 DEF vars, manager
<1>3. ASSUME NEW u \in Threads, Progress(u) PROVE Pooled(e)' = {}
    <2>1. ~ MoveToFreePtrs(u) /\ ~ AllocReuse(u)
        BY <1>0 DEF MoveToFreePtrs, AllocReuse, Pooled
    <2>2. free_map' = free_map
        BY <1>3, <2>1
        DEF Progress, CleanDeviceMemoryManager, NativeFree, NativeFreeThrows,
            AllocCountCheck, AllocMiss, NativeAlloc, NativeAllocNoMem,
            OutOfMemory, NativeAllocError, AllocRegister, LockBuffer, manager
    <2> QED
        BY <1>1, <2>2
<1>4. ASSUME NEW u \in Threads, NEW d, NEW p, NEW who, Unlock(u, d, p, who)
      PROVE  free_map' = free_map
    BY <1>4 DEF Unlock, UnlockUnknown, UnlockShared, UnlockLast, manager
<1>5. ASSUME NEW u \in Threads, Call(u) PROVE free_map' = free_map
    BY <1>4, <1>5
    DEF Call, SignalMemoryCleanup, AllocBegin, MemFree, MemFreeUser, UserLock,
        WrapUserMemory, AdoptPointer, SetDevice, SetMemStepSize, manager
<1> QED
    BY <1>1, <1>2, <1>3, <1>5 DEF Next

\* When the counters of a device agree that every buffer is locked, its pool
\* is empty: cleanDeviceMemoryManager is right to leave at once.
LEMMA EqualCountersMeanEmptyPool ==
    ASSUME SafeInv, NEW d \in Devices, total_buffers[d] = lock_buffers[d]
    PROVE  Pooled(d) = {}
<1>1. Locked(d) \in SUBSET Ptrs /\ Pooled(d) \in SUBSET Ptrs
    BY DEF SafeInv, TypeInv, TypeOK, IsMap, Locked, Pooled
<1>2. Cardinality(Locked(d) \cup Pooled(d)) = Cardinality(Locked(d))
    BY DEF SafeInv, BufferCounters
<1>3. IsFiniteSet(Locked(d) \cup Pooled(d)) /\ IsFiniteSet(Locked(d))
    BY <1>1, SetAssumption, FS_Subset
<1>4. Locked(d) = Locked(d) \cup Pooled(d)
    BY <1>2, <1>3, FS_Subset
<1>5. Locked(d) \cap Pooled(d) = {}
    BY DEF SafeInv, OwnershipInv, LockedInv, PooledInv
<1> QED
    BY <1>4, <1>5

\* alloc passes AF_ERR_NO_MEM on only after its collection has left the pool
\* of the device empty, whatever other threads do meanwhile.
THEOREM OutOfMemoryIsRealHolds == Disciplined => (Spec => OutOfMemoryIsReal)
<1> SUFFICES ASSUME Disciplined PROVE Spec => OutOfMemoryIsReal
    OBVIOUS
<1> DEFINE Emptied ==
        \A t \in Threads :
            /\ pc[t] \in {"native", "collect", "moving"}
            /\ pc'[t] = "retry" \/ (pc'[t] = "free" /\ resume[t] = "retry")
            => Pooled(active[t])' = {}
<1>1. SafeInv /\ DebugInv /\ [Next]_vars => [Emptied]_vars
    <2> SUFFICES ASSUME SafeInv, DebugInv,
                        NEW u \in Threads, Progress(u) \/ Call(u),
                        NEW t \in Threads,
                        pc[t] \in {"native", "collect", "moving"},
                        \/ pc'[t] = "retry"
                        \/ pc'[t] = "free" /\ resume[t] = "retry"
                 PROVE  Pooled(active[t])' = {}
        BY DEF Next
    <2>1. u = t
        BY OnlyOwnStep
    <2>2. ~ Call(t)
        BY DEF Call, SignalMemoryCleanup, AllocBegin, MemFree, MemFreeUser,
               Unlock, UserLock, WrapUserMemory, AdoptPointer, SetDevice,
               SetMemStepSize
    <2>3. pc \in [Threads -> {"idle", "count", "collect", "moving", "free",
                           "release", "lookup", "native", "retry", "register"}]
          /\ active \in [Threads -> Devices]
          /\ DOMAIN free_map = Devices
        BY DEF SafeInv, TypeInv, TypeOK
    <2>4. CleanDeviceMemoryManager(t) \/ MoveToFreePtrs(t)
        BY <2>1, <2>2, <2>3
        DEF Progress, NativeFree, NativeFreeThrows, AllocCountCheck,
            AllocReuse, AllocMiss, NativeAlloc, NativeAllocNoMem, OutOfMemory,
            NativeAllocError, AllocRegister
    <2>5. CASE CleanDeviceMemoryManager(t)
        <3>1. \/ DebugMode
              \/ total_buffers[active[t]] = lock_buffers[active[t]]
              \/ Pooled(active[t]) = {}
            BY <2>3, <2>5 DEF CleanDeviceMemoryManager, Pooled
        <3>2. Pooled(active[t]) = {}
            BY <2>3, <3>1, EqualCountersMeanEmptyPool DEF DebugInv
        <3> QED
            BY <2>5, <3>2 DEF CleanDeviceMemoryManager, Pooled, manager
    <2>6. CASE MoveToFreePtrs(t)
        <3>1. PICK p \in Pooled(active[t]) :
                  /\ free_map' = [free_map EXCEPT
                                     ![active[t]] = Erase(@, p)]
                  /\ Pooled(active[t]) = {p}
                  /\ active' = active
            BY <2>3, <2>6 DEF MoveToFreePtrs, Pooled
        <3> QED
            BY <2>3, <3>1 DEF Pooled, Erase
    <2> QED
        BY <2>4, <2>5, <2>6
<1>2. Spec => []SafeInv
    BY Ownership
<1>3. Init => DebugInv
    BY DEF Init, DebugInv, Pooled, EmptyMap
<1>4. SafeInv /\ DebugInv /\ [Next]_vars => DebugInv'
    BY DebugNext DEF SafeInv
<1>5. [][Emptied]_vars => OutOfMemoryIsReal
    BY DEF OutOfMemoryIsReal
<1> QED
    BY <1>1, <1>2, <1>3, <1>4, <1>5, PTL DEF Spec

-----------------------------------------------------------------------------
(* One owner.                                                              *)

LEMMA OwnersOfDead ==
    ASSUME SafeInv, NEW p \in Ptrs \ DOMAIN heap
    PROVE  Owners(p) = {}
BY AbsentIsNowhere DEF Owners, Wrapped

\* The ownership invariant leaves a live block one owner.
LEMMA OwnersOfLive ==
    ASSUME SafeInv, NEW p \in Ptrs, p \in DOMAIN heap
    PROVE  \E x : Owners(p) = {x}
<1>1. home \in [Ptrs -> Devices]
    BY DEF SafeInv, TypeInv, TypeOK
<1>2. CASE held[p] # {}
    <2>1. /\ \A e \in Devices : p \notin Pooled(e)
          /\ \A e \in Devices : p \in Locked(e) => e = home[p]
          /\ \A u \in Threads : p \notin free_ptrs[u] /\ p # new_ptr[u]
        BY <1>2, HeldIsNowhereElse
    <2>2. CASE p \in Locked(home[p])
        <3>1. Owners(p) = {<<"locked", home[p]>>}
            BY <1>1, <2>1, <2>2 DEF Owners, Wrapped
        <3> QED BY <3>1
    <2>3. CASE p \notin Locked(home[p])
        <3>1. Owners(p) = {<<"wrapped", p>>}
            BY <1>2, <2>1, <2>3 DEF Owners, Wrapped
        <3> QED BY <3>1
    <2> QED
        BY <2>2, <2>3
<1>3. CASE held[p] = {}
    <2>1. \A e \in Devices : p \notin Locked(e)
        BY <1>3 DEF SafeInv, OwnershipInv, LockedInv
    <2>2. ASSUME NEW d \in Devices, p \in Pooled(d)
          PROVE  Owners(p) = {<<"pooled", d>>}
        <3>1. \A e \in Devices : p \in Pooled(e) => e = d
            BY <2>2 DEF SafeInv, OwnershipInv, PooledInv
        <3>2. \A u \in Threads : p \notin free_ptrs[u] /\ p # new_ptr[u]
            BY <2>2 DEF SafeInv, OwnershipInv, PooledInv
        <3> QED
            BY <1>3, <2>1, <2>2, <3>1, <3>2 DEF Owners, Wrapped
    <2>3. ASSUME NEW t \in Threads, p \in free_ptrs[t]
          PROVE  Owners(p) = {<<"freeing", t>>}
        <3>1. \A e \in Devices : p \notin Pooled(e)
            BY <2>3 DEF SafeInv, OwnershipInv, PooledInv
        <3>2. \A u \in Threads : p # new_ptr[u] /\ (p \in free_ptrs[u] => u = t)
            BY <2>3 DEF SafeInv, OwnershipInv, FreeingInv
        <3> QED
            BY <1>3, <2>1, <2>3, <3>1, <3>2 DEF Owners, Wrapped
    <2>4. ASSUME NEW t \in Threads, p = new_ptr[t]
          PROVE  Owners(p) = {<<"new", t>>}
        <3>1. \A e \in Devices : p \notin Pooled(e)
            BY <2>4 DEF SafeInv, OwnershipInv, PooledInv
        <3>2. \A u \in Threads : p \notin free_ptrs[u] /\ (p = new_ptr[u] => u = t)
            BY <2>4, SetAssumption DEF SafeInv, OwnershipInv, FreeingInv, NewInv
        <3> QED
            BY <1>3, <2>1, <2>4, <3>1, <3>2 DEF Owners, Wrapped
    <2> QED
        BY <1>3, <2>2, <2>3, <2>4 DEF SafeInv, OwnershipInv, NoLeakInv
<1> QED
    BY <1>2, <1>3

\* Every live block of the native allocator has exactly one owner and every
\* dead one has none: nothing leaks, and nothing is freed twice.
THEOREM OneOwnerHolds == Disciplined => (Spec => []OneOwner)
<1> SUFFICES ASSUME Disciplined PROVE Spec => []OneOwner
    OBVIOUS
<1>1. SafeInv => OneOwner
    <2> SUFFICES ASSUME SafeInv, NEW p \in Ptrs
                 PROVE  Cardinality(Owners(p)) = IF p \in DOMAIN heap THEN 1
                                                                     ELSE 0
        BY DEF OneOwner
    <2>1. CASE p \in DOMAIN heap
        <3>1. PICK x : Owners(p) = {x}
            BY <2>1, OwnersOfLive
        <3> QED BY <2>1, <3>1, FS_Singleton
    <2>2. CASE p \notin DOMAIN heap
        BY <2>2, OwnersOfDead, FS_EmptySet
    <2> QED
        BY <2>1, <2>2
<1>2. Spec => []SafeInv
    BY Ownership
<1> QED
    BY <1>1, <1>2, PTL

-----------------------------------------------------------------------------
(* Counting bytes.                                                         *)

\* The size of every address, 0 for one that is not allocated.
BlockBytes == [p \in Ptrs |-> IF p \in DOMAIN heap THEN heap[p].bytes ELSE 0]

\* The counters of bytes are sums of sizes of blocks ...
CountInv ==
    \A d \in Devices :
        /\ lock_bytes[d] = SumFunctionOnSet(BlockBytes, Locked(d))
        /\ total_bytes[d] = SumFunctionOnSet(BlockBytes, Locked(d) \cup Pooled(d))

\* ... and do not wrap: the blocks fit into the memory of the device.
CapacityInv == \A d \in Devices : HeapBytes(d) <= Capacity[d]

LEMMA BlockFacts ==
    ASSUME TypeInv
    PROVE  /\ BlockBytes \in [Ptrs -> Nat]
           /\ DOMAIN heap \subseteq Ptrs
           /\ \A p \in DOMAIN heap : BlockBytes[p] = heap[p].bytes
           /\ \A d : /\ OnDevice(d) \in SUBSET Ptrs
                     /\ IsFiniteSet(OnDevice(d))
                     /\ HeapBytes(d) = SumFunctionOnSet(BlockBytes, OnDevice(d))
<1>1. /\ DOMAIN heap \subseteq Ptrs
      /\ \A p \in DOMAIN heap : heap[p] \in Block /\ heap[p].bytes \in Nat
    BY DEF TypeInv, TypeOK, IsMap, Block
<1>2. BlockBytes \in [Ptrs -> Nat]
    BY <1>1 DEF BlockBytes
<1>3. \A p \in DOMAIN heap : BlockBytes[p] = heap[p].bytes
    BY <1>1 DEF BlockBytes
<1>4. ASSUME NEW d
      PROVE  /\ OnDevice(d) \in SUBSET Ptrs /\ IsFiniteSet(OnDevice(d))
             /\ HeapBytes(d) = SumFunctionOnSet(BlockBytes, OnDevice(d))
    <2> DEFINE f == [p \in DOMAIN heap |-> heap[p].bytes]
    <2>1. OnDevice(d) \in SUBSET Ptrs /\ IsFiniteSet(OnDevice(d))
        BY <1>1, SetAssumption, FS_Subset DEF OnDevice
    <2>2. \A p \in OnDevice(d) : f[p] = BlockBytes[p]
        BY <1>3 DEF OnDevice
    <2>3. HeapBytes(d) = SumFunctionOnSet(f, OnDevice(d))
        BY DEF HeapBytes
    <2> HIDE DEF f
    <2>4. SumFunctionOnSet(f, OnDevice(d))
              = SumFunctionOnSet(BlockBytes, OnDevice(d))
        BY <2>1, <2>2, SumSame
    <2> QED
        BY <2>1, <2>3, <2>4
<1> QED
    BY <1>1, <1>2, <1>3, <1>4

LEMMA BlockFactsNext ==
    TypeInv' => /\ BlockBytes' \in [Ptrs -> Nat]
                /\ DOMAIN heap' \subseteq Ptrs
                /\ \A p \in DOMAIN heap' : BlockBytes'[p] = heap'[p].bytes
                /\ \A d : /\ OnDevice(d)' \in SUBSET Ptrs
                          /\ IsFiniteSet(OnDevice(d)')
                          /\ HeapBytes(d)' =
                                 SumFunctionOnSet(BlockBytes', OnDevice(d)')
<1> DEFINE F == /\ BlockBytes \in [Ptrs -> Nat]
                /\ DOMAIN heap \subseteq Ptrs
                /\ \A p \in DOMAIN heap : BlockBytes[p] = heap[p].bytes
                /\ \A d : /\ OnDevice(d) \in SUBSET Ptrs
                          /\ IsFiniteSet(OnDevice(d))
                          /\ HeapBytes(d) = SumFunctionOnSet(BlockBytes, OnDevice(d))
<1>1. TypeInv => F
    BY BlockFacts
<1>2. TypeInv' => F'
    <2> HIDE DEF F
    <2> QED BY <1>1, PTL
<1> QED
    BY <1>2

\* A block that fits is added to the blocks of its device, or leaves them.
LEMMA CapacityKept ==
    ASSUME TypeInv, TypeInv', CapacityInv, [Next]_vars
    PROVE  CapacityInv'
<1>0. /\ BlockBytes' \in [Ptrs -> Nat] /\ BlockBytes \in [Ptrs -> Nat]
      /\ \A p \in DOMAIN heap : BlockBytes[p] = heap[p].bytes
      /\ \A p \in DOMAIN heap' : BlockBytes'[p] = heap'[p].bytes
      /\ \A d : /\ OnDevice(d) \in SUBSET Ptrs /\ IsFiniteSet(OnDevice(d))
                /\ HeapBytes(d) = SumFunctionOnSet(BlockBytes, OnDevice(d))
      /\ \A d : /\ OnDevice(d)' \in SUBSET Ptrs /\ IsFiniteSet(OnDevice(d)')
                /\ HeapBytes(d)' = SumFunctionOnSet(BlockBytes', OnDevice(d)')
    BY BlockFacts, BlockFactsNext
<1>1. CASE heap' = heap
    <2>1. \A d : HeapBytes(d)' = HeapBytes(d)
        BY <1>1 DEF HeapBytes, OnDevice
    <2> QED
        BY <2>1 DEF CapacityInv
<1>2. ASSUME NEW p \in Ptrs \ DOMAIN heap, NEW e \in Devices,
             NEW b \in 1..(W - 1), Fits(e, b),
             heap' = Put(heap, p, [dev |-> e, bytes |-> b])
      PROVE  CapacityInv'
    <2>1. /\ DOMAIN heap' = DOMAIN heap \cup {p}
          /\ heap'[p] = [dev |-> e, bytes |-> b]
          /\ \A q \in DOMAIN heap : heap'[q] = heap[q]
        BY <1>2 DEF Put
    <2>2. /\ OnDevice(e)' = OnDevice(e) \cup {p} /\ p \notin OnDevice(e)
          /\ \A d \in Devices \ {e} : OnDevice(d)' = OnDevice(d)
        BY <2>1 DEF OnDevice
    <2>3. ASSUME NEW d \in Devices
          PROVE  SumFunctionOnSet(BlockBytes', OnDevice(d)) = HeapBytes(d)
        <3>1. \A q \in OnDevice(d) : BlockBytes'[q] = BlockBytes[q]
            BY <1>0, <2>1 DEF OnDevice
        <3> QED
            BY <1>0, <3>1, SumSame
    <2>4. HeapBytes(e)' <= Capacity[e]
        <3>1. /\ IsFiniteSet(OnDevice(e)) /\ p \notin OnDevice(e)
              /\ BlockBytes'[p] = b
              /\ \A q \in OnDevice(e) \cup {p} : BlockBytes'[q] \in Nat
              /\ HeapBytes(e)' = SumFunctionOnSet(BlockBytes', OnDevice(e)')
            <4>1. BlockBytes'[p] = b
                BY <1>0, <2>1
            <4>2. OnDevice(e) \cup {p} \in SUBSET Ptrs
                BY <1>0
            <4> QED
                BY <1>0, <2>2, <4>1, <4>2
        <3>2. ASSUME NEW f, f = BlockBytes'
              PROVE  SumFunctionOnSet(f, OnDevice(e) \cup {p})
                         = SumFunctionOnSet(f, OnDevice(e)) + f[p]
            BY <3>1, <3>2, SumAdd
        <3>3. HeapBytes(e)' = HeapBytes(e) + b
            BY <2>2, <2>3, <3>1, <3>2
        <3> QED
            BY <1>2, <3>3 DEF Fits
    <2>5. ASSUME NEW d \in Devices \ {e}
          PROVE  HeapBytes(d)' <= Capacity[d]
        <3>1. HeapBytes(d)' = SumFunctionOnSet(BlockBytes', OnDevice(d))
            BY <1>0, <2>2
        <3> QED
            BY <2>3, <3>1 DEF CapacityInv
    <2> QED
        BY <2>4, <2>5 DEF CapacityInv
<1>3. ASSUME NEW p, heap' = Erase(heap, p)
      PROVE  CapacityInv'
    <2>1. /\ DOMAIN heap' = DOMAIN heap \ {p}
          /\ \A q \in DOMAIN heap' : heap'[q] = heap[q]
        BY <1>3 DEF Erase
    <2> SUFFICES ASSUME NEW d \in Devices PROVE HeapBytes(d)' <= Capacity[d]
        BY DEF CapacityInv
    <2>2. OnDevice(d)' \in SUBSET OnDevice(d)
        BY <2>1 DEF OnDevice
    <2>3. \A q \in OnDevice(d)' : BlockBytes'[q] = BlockBytes[q]
        BY <1>0, <2>1 DEF OnDevice
    <2>4. HeapBytes(d)' = SumFunctionOnSet(BlockBytes, OnDevice(d)')
        BY <1>0, <2>3, SumSame
    <2>5. \A q \in OnDevice(d) : BlockBytes[q] \in Nat
        BY <1>0
    <2>6. /\ HeapBytes(d)' \in Nat /\ HeapBytes(d) \in Nat
          /\ HeapBytes(d)' <= HeapBytes(d)
        BY <1>0, <2>2, <2>4, <2>5, FS_Subset, SumMonotonic, SumType
    <2>7. HeapBytes(d) <= Capacity[d] /\ Capacity[d] \in Nat
        BY SizeAssumption DEF CapacityInv
    <2> QED
        BY <2>6, <2>7
<1>4. ASSUME NEW t \in Threads, Progress(t)
      PROVE  CapacityInv'
    <2>1. CASE NativeAlloc(t)
        <3>1. active[t] \in Devices /\ request[t].bytes \in 1..(W - 1)
            BY <2>1 DEF NativeAlloc, TypeInv, TypeOK, CallInv, Alloc
        <3> QED
            BY <1>2, <2>1, <3>1 DEF NativeAlloc
    <2>2. CASE NativeFree(t)
        BY <1>3, <2>2 DEF NativeFree
    <2>3. CASE ~ NativeAlloc(t) /\ ~ NativeFree(t)
        <3>1. heap' = heap
            BY <1>4, <2>3
            DEF Progress, CleanDeviceMemoryManager, MoveToFreePtrs,
                NativeFreeThrows, AllocCountCheck, AllocReuse, AllocMiss,
                NativeAllocNoMem, OutOfMemory, NativeAllocError, AllocRegister
        <3> QED
            BY <1>1, <3>1
    <2> QED
        BY <2>1, <2>2, <2>3
<1>5. ASSUME NEW t \in Threads, Call(t)
      PROVE  CapacityInv'
    <2>1. CASE \E p \in Ptrs, bytes \in Requests : WrapUserMemory(t, p, bytes)
        <3>1. PICK p \in Ptrs, bytes \in Requests : WrapUserMemory(t, p, bytes)
            BY <2>1
        <3>2. active[t] \in Devices /\ bytes \in 1..(W - 1)
            BY SizeAssumption DEF TypeInv, TypeOK
        <3> QED
            BY <1>2, <3>1, <3>2 DEF WrapUserMemory
    <2>2. CASE ~ \E p \in Ptrs, bytes \in Requests : WrapUserMemory(t, p, bytes)
        <3>1. heap' = heap
            BY <1>5, <2>2
            DEF Call, SignalMemoryCleanup, AllocBegin, MemFree, MemFreeUser,
                Unlock, UserLock, AdoptPointer, SetDevice, SetMemStepSize
        <3> QED
            BY <1>1, <3>1
    <2> QED
        BY <2>1, <2>2
<1>6. CASE UNCHANGED vars
    BY <1>1, <1>6 DEF vars
<1> QED
    BY <1>4, <1>5, <1>6 DEF Next

\* The entries of the maps are blocks of their device, of their size.
LEMMA MapFacts ==
    ASSUME SafeInv, NEW d \in Devices
    PROVE  /\ Locked(d) \in SUBSET OnDevice(d)
           /\ Pooled(d) \in SUBSET OnDevice(d)
           /\ Locked(d) \cap Pooled(d) = {}
           /\ \A p \in Locked(d) : locked_map[d][p].bytes = BlockBytes[p]
           /\ \A p \in Pooled(d) : free_map[d][p] = BlockBytes[p]
<1>0. TypeInv /\ Locked(d) \subseteq Ptrs
    BY DEF SafeInv, TypeInv, TypeOK, IsMap, Locked
<1>1. ASSUME NEW p \in Locked(d)
      PROVE  /\ p \in OnDevice(d) /\ p \notin Pooled(d)
             /\ locked_map[d][p].bytes = BlockBytes[p]
    <2>1. /\ held[p] # {} /\ home[p] = d
          /\ heap[p].bytes = locked_map[d][p].bytes
        BY DEF SafeInv, OwnershipInv, LockedInv
    <2>2. p \in DOMAIN heap /\ heap[p].dev = d /\ p \notin Pooled(d)
        BY <1>0, <2>1, HeldIsNowhereElse
    <2> QED
        BY <1>0, <2>1, <2>2, BlockFacts DEF OnDevice
<1>2. ASSUME NEW p \in Pooled(d)
      PROVE  p \in OnDevice(d) /\ free_map[d][p] = BlockBytes[p]
    BY <1>0, BlockFacts DEF SafeInv, OwnershipInv, PooledInv, OnDevice
<1> QED
    BY <1>1, <1>2

\* Blocks of one device: their sizes add up within size_t.
LEMMA BytesAdd ==
    ASSUME TypeInv, CapacityInv, NEW d \in Devices,
           NEW R \in SUBSET OnDevice(d), NEW p \in OnDevice(d) \ R
    PROVE  SumFunctionOnSet(BlockBytes, R \cup {p})
               = SizeAdd(SumFunctionOnSet(BlockBytes, R), BlockBytes[p])
<1>1. /\ BlockBytes \in [Ptrs -> Nat] /\ IsFiniteSet(OnDevice(d))
      /\ OnDevice(d) \in SUBSET Ptrs
      /\ HeapBytes(d) = SumFunctionOnSet(BlockBytes, OnDevice(d))
    BY BlockFacts
<1>2. IsFiniteSet(R) /\ IsFiniteSet(R \cup {p})
      /\ R \cup {p} \in SUBSET OnDevice(d)
    BY <1>1, FS_Subset
<1>3. /\ SumFunctionOnSet(BlockBytes, R \cup {p})
             = SumFunctionOnSet(BlockBytes, R) + BlockBytes[p]
      /\ SumFunctionOnSet(BlockBytes, R \cup {p}) \in Nat
      /\ SumFunctionOnSet(BlockBytes, R \cup {p}) <= HeapBytes(d)
    BY <1>1, <1>2, SumAdd, SumType, SumMonotonic
<1>4. HeapBytes(d) \in Nat /\ HeapBytes(d) <= Capacity[d]
    BY <1>1, SumType DEF CapacityInv
<1>5. SumFunctionOnSet(BlockBytes, R) \in Nat /\ BlockBytes[p] \in Nat
    BY <1>1, <1>2, SumType
<1>6. Capacity[d] \in 0..(W - 1) /\ W \in Nat
    BY SizeAssumption
<1> QED
    BY <1>3, <1>4, <1>5, <1>6 DEF SizeAdd

LEMMA BytesRemove ==
    ASSUME TypeInv, NEW S \in SUBSET Ptrs, NEW p \in S
    PROVE  SumFunctionOnSet(BlockBytes, S \ {p})
               = SizeSub(SumFunctionOnSet(BlockBytes, S), BlockBytes[p])
<1>1. BlockBytes \in [Ptrs -> Nat]
    BY BlockFacts
<1>2. IsFiniteSet(S)
    BY SetAssumption, FS_Subset
<1>3. /\ SumFunctionOnSet(BlockBytes, S \ {p})
             = SumFunctionOnSet(BlockBytes, S) - BlockBytes[p]
      /\ BlockBytes[p] <= SumFunctionOnSet(BlockBytes, S)
    BY <1>1, <1>2, SumRemove
<1>4. SumFunctionOnSet(BlockBytes, S) \in Nat /\ BlockBytes[p] \in Nat
    BY <1>1, <1>2, SumType
<1> QED
    BY <1>3, <1>4 DEF SizeSub

\* Steps that leave the two maps of addresses and the sizes in them alone.
LEMMA CountFrame ==
    ASSUME SafeInv, CountInv, UNCHANGED <<lock_bytes, total_bytes>>,
           \A d \in Devices : Locked(d)' = Locked(d) /\ Pooled(d)' = Pooled(d),
           \A d \in Devices : \A p \in Locked(d) \cup Pooled(d) :
               BlockBytes'[p] = BlockBytes[p]
    PROVE  CountInv'
<1> SUFFICES ASSUME NEW d \in Devices
             PROVE  /\ SumFunctionOnSet(BlockBytes', Locked(d))
                           = SumFunctionOnSet(BlockBytes, Locked(d))
                    /\ SumFunctionOnSet(BlockBytes', Locked(d) \cup Pooled(d))
                           = SumFunctionOnSet(BlockBytes, Locked(d) \cup Pooled(d))
    BY DEF CountInv
<1>1. Locked(d) \in SUBSET Ptrs /\ Pooled(d) \in SUBSET Ptrs
    BY DEF SafeInv, TypeInv, TypeOK, IsMap, Locked, Pooled
<1>2. IsFiniteSet(Locked(d)) /\ IsFiniteSet(Locked(d) \cup Pooled(d))
    BY <1>1, SetAssumption, FS_Subset
<1>3. SumFunctionOnSet(BlockBytes', Locked(d))
          = SumFunctionOnSet(BlockBytes, Locked(d))
    BY <1>2, SumSame
<1>4. SumFunctionOnSet(BlockBytes', Locked(d) \cup Pooled(d))
          = SumFunctionOnSet(BlockBytes, Locked(d) \cup Pooled(d))
    BY <1>2, SumSame
<1> QED
    BY <1>3, <1>4

LEMMA CountControl ==
    ASSUME SafeInv, CountInv, NEW t \in Threads,
           \/ CleanDeviceMemoryManager(t)
           \/ SignalMemoryCleanup(t)
           \/ \E lock \in Holders, need \in Requests : AllocBegin(t, lock, need)
           \/ AllocCountCheck(t)
           \/ AllocMiss(t)
           \/ NativeAllocNoMem(t)
           \/ OutOfMemory(t)
           \/ NativeAllocError(t)
           \/ \E d \in Devices : SetDevice(t, d)
           \/ \E s \in StepSizes : SetMemStepSize(t, s)
    PROVE  CountInv'
<1>1. UNCHANGED <<locked_map, free_map, lock_bytes, total_bytes, heap>>
    BY DEF CleanDeviceMemoryManager, SignalMemoryCleanup, AllocBegin,
           AllocCountCheck, AllocMiss, NativeAllocNoMem, OutOfMemory,
           NativeAllocError, SetDevice, SetMemStepSize, manager, local, client
<1> QED
    BY <1>1, CountFrame DEF Locked, Pooled, BlockBytes

\* Blocks come and go outside the maps.
LEMMA CountHeap ==
    ASSUME SafeInv, SafeInv', CountInv, NEW t \in Threads,
           \/ NativeAlloc(t)
           \/ NativeFree(t)
           \/ \E p \in Ptrs, bytes \in Requests : WrapUserMemory(t, p, bytes)
    PROVE  CountInv'
<1>1. /\ UNCHANGED <<lock_bytes, total_bytes>>
      /\ \A d \in Devices : Locked(d)' = Locked(d) /\ Pooled(d)' = Pooled(d)
    BY DEF NativeAlloc, NativeFree, WrapUserMemory, manager, Locked, Pooled
<1>2. \A p \in DOMAIN heap \cap DOMAIN heap' : heap'[p] = heap[p]
    BY DEF NativeAlloc, NativeFree, WrapUserMemory, Put, Erase
<1>3. ASSUME NEW d \in Devices, NEW p \in Locked(d) \cup Pooled(d)
      PROVE  BlockBytes'[p] = BlockBytes[p]
    <2>1. p \in DOMAIN heap
        BY MapFacts DEF OnDevice
    <2>2. p \in DOMAIN heap'
        <3>1. p \in Locked(d)' \cup Pooled(d)'
            BY <1>1
        <3>2. p \in Pooled(d)' => p \in DOMAIN heap'
            BY DEF SafeInv, OwnershipInv, PooledInv
        <3>3. p \in Locked(d)' => p \in Ptrs /\ held'[p] # {}
            BY DEF SafeInv, TypeInv, TypeOK, IsMap, Locked, OwnershipInv, LockedInv
        <3> QED
            BY <3>1, <3>2, <3>3 DEF SafeInv, OwnershipInv, HeldInv
    <2> QED
        BY <1>2, <2>1, <2>2 DEF BlockBytes, SafeInv, TypeInv, TypeOK, IsMap
<1> QED
    BY <1>1, <1>3, CountFrame

\* A step that leaves the heap alone and changes the maps of device d only.
LEMMA CountOnDevice ==
    ASSUME SafeInv, CountInv, NEW d \in Devices, heap' = heap,
           \A e \in Devices \ {d} :
               /\ Locked(e)' = Locked(e) /\ Pooled(e)' = Pooled(e)
               /\ lock_bytes'[e] = lock_bytes[e]
               /\ total_bytes'[e] = total_bytes[e],
           lock_bytes'[d] = SumFunctionOnSet(BlockBytes, Locked(d)'),
           total_bytes'[d]
               = SumFunctionOnSet(BlockBytes, Locked(d)' \cup Pooled(d)')
    PROVE  CountInv'
<1>1. BlockBytes' = BlockBytes
    BY DEF BlockBytes
<1> QED
    BY <1>1 DEF CountInv

LEMMA CountMove ==
    ASSUME SafeInv, CountInv, NEW t \in Threads, MoveToFreePtrs(t)
    PROVE  CountInv'
<1>0. PICK d \in Devices : d = active[t]
    BY DEF SafeInv, TypeInv, TypeOK
<1>1. PICK p \in Pooled(d) :
          /\ free_map' = [free_map EXCEPT ![d] = Erase(@, p)]
          /\ total_bytes' = [total_bytes EXCEPT ![d] = SizeSub(@, free_map[d][p])]
    BY <1>0 DEF MoveToFreePtrs, Pooled
<1>2. /\ DOMAIN free_map = Devices /\ total_bytes \in [Devices -> 0..(W - 1)]
      /\ Locked(d) \in SUBSET Ptrs /\ Pooled(d) \in SUBSET Ptrs /\ TypeInv
    BY DEF SafeInv, TypeInv, TypeOK, IsMap, Locked, Pooled
<1>3. /\ Pooled(d)' = Pooled(d) \ {p}
      /\ \A e \in Devices \ {d} : Pooled(e)' = Pooled(e)
    BY <1>1, <1>2 DEF Pooled, Erase
<1>4. UNCHANGED <<lock_bytes, heap>> /\ \A e : Locked(e)' = Locked(e)
    BY DEF MoveToFreePtrs, Locked
<1>5. /\ (Locked(d) \cup Pooled(d)) \ {p} = Locked(d)' \cup Pooled(d)'
      /\ free_map[d][p] = BlockBytes[p]
    BY <1>3, <1>4, MapFacts
<1>6. SumFunctionOnSet(BlockBytes, (Locked(d) \cup Pooled(d)) \ {p})
          = SizeSub(total_bytes[d], BlockBytes[p])
    <2>1. /\ Locked(d) \cup Pooled(d) \in SUBSET Ptrs /\ TypeInv
          /\ p \in Locked(d) \cup Pooled(d)
        BY <1>2
    <2>2. total_bytes[d] = SumFunctionOnSet(BlockBytes, Locked(d) \cup Pooled(d))
        BY DEF CountInv
    <2> QED
        BY <2>1, <2>2, BytesRemove
<1>7. /\ \A e \in Devices : lock_bytes'[e] = lock_bytes[e]
      /\ total_bytes'[d] = SizeSub(total_bytes[d], BlockBytes[p])
      /\ \A e \in Devices \ {d} : total_bytes'[e] = total_bytes[e]
    BY <1>1, <1>2, <1>4, <1>5
<1>8. lock_bytes'[d] = SumFunctionOnSet(BlockBytes, Locked(d)')
    BY <1>4, <1>7 DEF CountInv
<1>9. total_bytes'[d]
          = SumFunctionOnSet(BlockBytes, Locked(d)' \cup Pooled(d)')
    BY <1>5, <1>6, <1>7
<1> QED
    BY <1>3, <1>4, <1>7, <1>8, <1>9, CountOnDevice

\* A buffer of the pool becomes a locked one of the same size.
LEMMA CountReuse ==
    ASSUME SafeInv, CountInv, CapacityInv, NEW t \in Threads, AllocReuse(t)
    PROVE  CountInv'
<1>0. PICK d \in Devices : d = active[t]
    BY DEF SafeInv, TypeInv, TypeOK
<1>1. PICK p \in Pooled(d) :
          /\ free_map[d][p] = request[t].bytes
          /\ free_map' = [free_map EXCEPT ![d] = Erase(free_map[d], p)]
          /\ LockBuffer(t, p)
          /\ HandOut(t, p)
    BY <1>0 DEF AllocReuse, PopFree, Matches, Pooled
<1>2. /\ DOMAIN free_map = Devices /\ lock_bytes \in [Devices -> 0..(W - 1)]
      /\ p \in Ptrs /\ TypeInv
    BY DEF SafeInv, TypeInv, TypeOK, IsMap, Pooled
<1>3. /\ Pooled(d)' = Pooled(d) \ {p}
      /\ \A e \in Devices \ {d} : Pooled(e)' = Pooled(e)
    BY <1>1, <1>2 DEF Pooled, Erase
<1>4. /\ Locked(d)' = Locked(d) \cup {p}
      /\ \A e \in Devices \ {d} : Locked(e)' = Locked(e)
    <2>1. LockBuffer(t, p) /\ HandOut(t, p) /\ p \in Ptrs
        BY <1>1, <1>2
    <2>2. HandedOut(t, d, p)
        BY <1>0, <2>1, HandOutEffects
    <2> QED
        BY <2>2 DEF HandedOut
<1>5. UNCHANGED <<total_bytes, heap>>
    BY DEF AllocReuse
<1>6. /\ lock_bytes'[d] = SizeAdd(lock_bytes[d], request[t].bytes)
      /\ \A e \in Devices \ {d} : lock_bytes'[e] = lock_bytes[e]
    BY <1>0, <1>1, <1>2 DEF LockBuffer
<1>7. /\ p \in OnDevice(d) \ Locked(d) /\ request[t].bytes = BlockBytes[p]
      /\ Locked(d)' \cup Pooled(d)' = Locked(d) \cup Pooled(d)
      /\ Locked(d) \in SUBSET OnDevice(d)
    BY <1>1, <1>3, <1>4, MapFacts
<1>8. SumFunctionOnSet(BlockBytes, Locked(d) \cup {p})
          = SizeAdd(lock_bytes[d], BlockBytes[p])
    <2>1. /\ Locked(d) \in SUBSET OnDevice(d)
          /\ p \in OnDevice(d) \ Locked(d)
        BY <1>7
    <2>2. SumFunctionOnSet(BlockBytes, Locked(d) \cup {p})
              = SizeAdd(SumFunctionOnSet(BlockBytes, Locked(d)), BlockBytes[p])
        BY <1>2, <2>1, BytesAdd
    <2> QED
        BY <2>2 DEF CountInv
<1>9. lock_bytes'[d] = SumFunctionOnSet(BlockBytes, Locked(d)')
    BY <1>4, <1>6, <1>7, <1>8
<1>10. total_bytes'[d]
           = SumFunctionOnSet(BlockBytes, Locked(d)' \cup Pooled(d)')
    BY <1>5, <1>7 DEF CountInv
<1> QED
    BY <1>3, <1>4, <1>5, <1>6, <1>9, <1>10, CountOnDevice

\* A new buffer is counted and locked.
LEMMA CountRegister ==
    ASSUME SafeInv, CountInv, CapacityInv, NEW t \in Threads, AllocRegister(t)
    PROVE  CountInv'
<1>0. PICK d \in Devices : d = active[t]
    BY DEF SafeInv, TypeInv, TypeOK
<1>1. PICK p \in Ptrs : p = new_ptr[t]
    BY DEF AllocRegister, SafeInv, TypeInv, TypeOK, CallInv
<1>2. /\ lock_bytes \in [Devices -> 0..(W - 1)]
      /\ total_bytes \in [Devices -> 0..(W - 1)] /\ TypeInv
    BY DEF SafeInv, TypeInv, TypeOK
<1>3. /\ held[p] = {} /\ p \in DOMAIN heap
      /\ heap[p].dev = d /\ heap[p].bytes = request[t].bytes
    BY <1>0, <1>1, SetAssumption DEF SafeInv, OwnershipInv, NewInv
<1>4. p \notin Locked(d) /\ p \notin Pooled(d)
    BY <1>1, <1>3 DEF SafeInv, OwnershipInv, PooledInv, LockedInv
<1>5. LockBuffer(t, p) /\ HandOut(t, p)
    BY <1>1 DEF AllocRegister
<1>6. /\ Locked(d)' = Locked(d) \cup {p}
      /\ \A e \in Devices \ {d} : Locked(e)' = Locked(e)
    <2>1. HandedOut(t, d, p)
        BY <1>0, <1>5, HandOutEffects
    <2> QED
        BY <2>1 DEF HandedOut
<1>7. UNCHANGED <<free_map, heap>> /\ \A e : Pooled(e)' = Pooled(e)
    BY DEF AllocRegister, Pooled
<1>8. /\ lock_bytes'[d] = SizeAdd(lock_bytes[d], request[t].bytes)
      /\ total_bytes'[d] = SizeAdd(total_bytes[d], request[t].bytes)
      /\ \A e \in Devices \ {d} : lock_bytes'[e] = lock_bytes[e]
                                  /\ total_bytes'[e] = total_bytes[e]
    BY <1>0, <1>2, <1>5 DEF LockBuffer, AllocRegister
<1>9. /\ p \in OnDevice(d) /\ request[t].bytes = BlockBytes[p]
      /\ Locked(d) \in SUBSET OnDevice(d)
      /\ Locked(d) \cup Pooled(d) \in SUBSET OnDevice(d)
    BY <1>2, <1>3, MapFacts, BlockFacts DEF OnDevice
<1>10. SumFunctionOnSet(BlockBytes, Locked(d) \cup {p})
           = SizeAdd(lock_bytes[d], BlockBytes[p])
    <2>1. lock_bytes[d] = SumFunctionOnSet(BlockBytes, Locked(d))
        BY DEF CountInv
    <2>2. Locked(d) \in SUBSET OnDevice(d) /\ p \in OnDevice(d) \ (Locked(d)) /\ TypeInv
        BY <1>2, <1>4, <1>9
    <2> QED
        BY <2>1, <2>2, BytesAdd
<1>11. SumFunctionOnSet(BlockBytes, (Locked(d) \cup Pooled(d)) \cup {p})
           = SizeAdd(total_bytes[d], BlockBytes[p])
    <2>1. total_bytes[d] = SumFunctionOnSet(BlockBytes, Locked(d) \cup Pooled(d))
        BY DEF CountInv
    <2>2. Locked(d) \cup Pooled(d) \in SUBSET OnDevice(d) /\ p \in OnDevice(d) \ (Locked(d) \cup Pooled(d)) /\ TypeInv
        BY <1>2, <1>4, <1>9
    <2> QED
        BY <2>1, <2>2, BytesAdd
<1>12. Locked(d)' \cup Pooled(d)' = (Locked(d) \cup Pooled(d)) \cup {p}
    BY <1>6, <1>7
<1> QED
    BY <1>6, <1>7, <1>8, <1>9, <1>10, <1>11, <1>12, CountOnDevice

\* A buffer leaves locked_map for the pool, or, in debug mode, for good.
LEMMA CountUnlock ==
    ASSUME SafeInv, CountInv, NEW t \in Threads, NEW d \in Devices,
           NEW p \in Ptrs, NEW who \in Holders, Unlock(t, d, p, who)
    PROVE  CountInv'
<1>1. CASE UnlockUnknown(t, d, p)
    <2>1. UNCHANGED <<locked_map, free_map, lock_bytes, total_bytes, heap>>
        BY <1>1 DEF UnlockUnknown, Unlock, manager
    <2> QED
        BY <2>1, CountFrame DEF Locked, Pooled, BlockBytes
<1>2. CASE UnlockShared(d, p, who)
    <2>1. /\ UNCHANGED <<free_map, lock_bytes, total_bytes, heap>>
          /\ \A e \in Devices : Locked(e)' = Locked(e)
        BY <1>2 DEF UnlockShared, Unlock, Locked, Put, SafeInv, TypeInv, TypeOK
    <2> QED
        BY <2>1, CountFrame DEF Pooled, BlockBytes
<1>3. CASE UnlockLast(t, d, p, who)
    <2>1. /\ p \in Locked(d) /\ heap' = heap
          /\ locked_map' = [locked_map EXCEPT ![d] = Erase(@, p)]
          /\ lock_bytes' = [lock_bytes EXCEPT
                 ![d] = SizeSub(@, locked_map[d][p].bytes)]
        BY <1>3 DEF UnlockLast, Unlock, Locked
    <2>2. /\ DOMAIN locked_map = Devices /\ DOMAIN free_map = Devices
          /\ lock_bytes \in [Devices -> 0..(W - 1)]
          /\ total_bytes \in [Devices -> 0..(W - 1)] /\ TypeInv
          /\ Locked(d) \in SUBSET Ptrs /\ Pooled(d) \in SUBSET Ptrs
        BY DEF SafeInv, TypeInv, TypeOK, IsMap, Locked, Pooled
    <2>3. /\ Locked(d)' = Locked(d) \ {p}
          /\ \A e \in Devices \ {d} : Locked(e)' = Locked(e)
        BY <2>1, <2>2 DEF Locked, Erase
    <2>4. locked_map[d][p].bytes = BlockBytes[p] /\ p \notin Pooled(d)
        BY <2>1, MapFacts
    <2>5. SumFunctionOnSet(BlockBytes, Locked(d) \ {p})
              = SizeSub(lock_bytes[d], BlockBytes[p])
        BY <2>1, <2>2, BytesRemove DEF CountInv
    <2>6. /\ lock_bytes'[d] = SumFunctionOnSet(BlockBytes, Locked(d)')
          /\ \A e \in Devices \ {d} : lock_bytes'[e] = lock_bytes[e]
        BY <2>1, <2>2, <2>3, <2>4, <2>5
    <2>7. CASE DebugMode
        <3>1. /\ UNCHANGED free_map
              /\ total_bytes' = [total_bytes EXCEPT
                     ![d] = SizeSub(@, locked_map[d][p].bytes)]
            BY <1>3, <2>7 DEF UnlockLast, Discount
        <3>2. \A e : Pooled(e)' = Pooled(e)
            BY <3>1 DEF Pooled
        <3>3. SumFunctionOnSet(BlockBytes, (Locked(d) \cup Pooled(d)) \ {p})
                  = SizeSub(total_bytes[d], BlockBytes[p])
            BY <2>1, <2>2, BytesRemove, ZenonT(30) DEF CountInv
        <3>4. Locked(d)' \cup Pooled(d)' = (Locked(d) \cup Pooled(d)) \ {p}
            BY <2>3, <2>4, <3>2
        <3>5. /\ total_bytes'[d]
                     = SumFunctionOnSet(BlockBytes, Locked(d)' \cup Pooled(d)')
              /\ \A e \in Devices \ {d} : total_bytes'[e] = total_bytes[e]
            BY <2>2, <2>4, <3>1, <3>3, <3>4
        <3> QED
            BY <2>1, <2>3, <2>6, <3>2, <3>5, CountOnDevice
    <2>8. CASE ~ DebugMode
        <3>1. /\ UNCHANGED total_bytes
              /\ free_map' = [free_map EXCEPT
                     ![d] = Put(free_map[d], p, locked_map[d][p].bytes)]
            BY <1>3, <2>8 DEF UnlockLast, PushFree
        <3>2. /\ Pooled(d)' = Pooled(d) \cup {p}
              /\ \A e \in Devices \ {d} : Pooled(e)' = Pooled(e)
            BY <2>2, <3>1 DEF Pooled, Put
        <3>3. Locked(d)' \cup Pooled(d)' = Locked(d) \cup Pooled(d)
            BY <2>1, <2>3, <3>2
        <3> QED
            BY <2>1, <2>3, <2>6, <3>1, <3>2, <3>3, CountOnDevice DEF CountInv
    <2> QED
        BY <2>7, <2>8
<1> QED
    BY <1>1, <1>2, <1>3 DEF Unlock

\* userLock finds the entry of a buffer the manager handed out.
LEMMA CountUserLock ==
    ASSUME SafeInv, CountInv, Disciplined, NEW t \in Threads, NEW p \in Ptrs,
           UserLock(t, p)
    PROVE  CountInv'
<1>1. /\ UNCHANGED <<free_map, lock_bytes, total_bytes, heap>>
      /\ \A e \in Devices : Locked(e)' = Locked(e)
    BY DEF UserLock, Disciplined, Locked, Put, SafeInv, TypeInv, TypeOK
<1> QED
    BY <1>1, CountFrame DEF Pooled, BlockBytes

BytesInv == SafeInv /\ CapacityInv /\ CountInv

LEMMA BytesInit == Init => BytesInv
<1> SUFFICES ASSUME Init PROVE BytesInv
    OBVIOUS
<1>1. SafeInv
    BY SafeInit
<1>2. /\ \A d : OnDevice(d) = {}
      /\ \A d \in Devices : Locked(d) = {} /\ Pooled(d) = {}
    BY DEF Init, OnDevice, Locked, Pooled, EmptyMap
<1>3. CapacityInv
    <2>1. \A d : HeapBytes(d) = 0
        BY <1>2, SumEmpty DEF HeapBytes
    <2>2. ASSUME NEW d \in Devices PROVE 0 <= Capacity[d]
        BY SizeAssumption
    <2> QED
        BY <2>1, <2>2 DEF CapacityInv
<1>4. CountInv
    <2>1. {} \cup {} = {}
        OBVIOUS
    <2> QED
        BY <1>2, <2>1, SumEmpty DEF Init, CountInv
<1> QED
    BY <1>1, <1>3, <1>4 DEF BytesInv

LEMMA BytesNext ==
    ASSUME Disciplined
    PROVE  BytesInv /\ [Next]_vars => BytesInv'
<1> SUFFICES ASSUME SafeInv, CapacityInv, CountInv, [Next]_vars
             PROVE  SafeInv' /\ CapacityInv' /\ CountInv'
    BY DEF BytesInv
<1>1. SafeInv'
    BY SafeNext
<1>2. CapacityInv'
    BY <1>1, CapacityKept DEF SafeInv
<1>3. ASSUME UNCHANGED vars PROVE CountInv'
    <2>1. UNCHANGED <<locked_map, free_map, lock_bytes, total_bytes, heap>>
        BY <1>3 DEF vars, manager
    <2> QED
        BY <2>1, CountFrame DEF Locked, Pooled, BlockBytes
<1>4. ASSUME NEW t \in Threads, Progress(t) PROVE CountInv'
    <2>1. ~ NativeFreeThrows(t)
        BY DEF Disciplined, NativeFreeThrows
    <2> QED
        BY <1>1, <1>4, <2>1, CountControl, CountMove, CountHeap, CountReuse,
           CountRegister
        DEF Progress
<1>5. ASSUME NEW t \in Threads, Call(t) PROVE CountInv'
    <2>1. \A p \in Ptrs : ~ AdoptPointer(t, p)
        BY DEF Disciplined, AdoptPointer
    <2>2. ASSUME NEW p \in Ptrs, MemFree(t, p) \/ MemFreeUser(t, p)
          PROVE  CountInv'
        <3>1. /\ home[p] \in Devices /\ active[t] \in Devices
              /\ "manager" \in Holders /\ "user" \in Holders
            BY DEF SafeInv, TypeInv, TypeOK, Holders
        <3> QED
            BY <2>2, <3>1, CountUnlock DEF MemFree, MemFreeUser
    <2> QED
        BY <1>1, <1>5, <2>1, <2>2, CountControl, CountHeap, CountUserLock
        DEF Call
<1> QED
    BY <1>1, <1>2, <1>3, <1>4, <1>5 DEF Next

\* lock_bytes and total_bytes are the sums of the sizes in the two maps, for
\* any number of buffers, as long as a device has less memory than size_t
\* counts: the sections that add and subtract a size agree on it.
THEOREM ByteCountersHold == Disciplined => (Spec => []ByteCounters)
<1> SUFFICES ASSUME Disciplined PROVE Spec => []ByteCounters
    OBVIOUS
<1>1. BytesInv => ByteCounters
    <2> SUFFICES ASSUME SafeInv, CountInv, NEW d \in Devices
                 PROVE  LET in_use == SumFunction(
                                [p \in Locked(d) |-> locked_map[d][p].bytes])
                        IN  /\ lock_bytes[d] = in_use
                            /\ total_bytes[d] = in_use + SumFunction(free_map[d])
        BY DEF BytesInv, ByteCounters
    <2> DEFINE f == [p \in Locked(d) |-> locked_map[d][p].bytes]
    <2>1. /\ Locked(d) \in SUBSET Ptrs /\ Pooled(d) \in SUBSET Ptrs
          /\ TypeInv /\ DOMAIN free_map[d] = Pooled(d)
        BY DEF SafeInv, TypeInv, TypeOK, IsMap, Locked, Pooled
    <2>2. IsFiniteSet(Locked(d)) /\ IsFiniteSet(Pooled(d))
        BY <2>1, SetAssumption, FS_Subset
    <2>3. SumFunction(f) = SumFunctionOnSet(f, Locked(d))
        BY DEF SumFunction
    <2>4. \A p \in Locked(d) : f[p] = BlockBytes[p]
        BY MapFacts
    <2> HIDE DEF f
    <2>5. SumFunction(f) = SumFunctionOnSet(BlockBytes, Locked(d))
        BY <2>2, <2>3, <2>4, SumSame
    <2>6. SumFunction(free_map[d]) = SumFunctionOnSet(BlockBytes, Pooled(d))
        <3>1. SumFunction(free_map[d]) = SumFunctionOnSet(free_map[d], Pooled(d))
            BY <2>1 DEF SumFunction
        <3>2. \A p \in Pooled(d) : free_map[d][p] = BlockBytes[p]
            BY MapFacts
        <3> QED
            BY <2>2, <3>1, <3>2, SumSame
    <2>7. SumFunctionOnSet(BlockBytes, Locked(d) \cup Pooled(d))
              = SumFunctionOnSet(BlockBytes, Locked(d))
                    + SumFunctionOnSet(BlockBytes, Pooled(d))
        <3>1. Locked(d) \cap Pooled(d) = {}
            BY MapFacts
        <3>2. \A p \in Locked(d) \cup Pooled(d) : BlockBytes[p] \in Nat
            BY <2>1, BlockFacts
        <3> QED
            BY <2>2, <3>1, <3>2, SumUnion
    <2> QED
        BY <2>5, <2>6, <2>7 DEF CountInv, f
<1>2. Init => BytesInv
    BY BytesInit
<1>3. BytesInv /\ [Next]_vars => BytesInv'
    BY BytesNext
<1> QED
    BY <1>1, <1>2, <1>3, PTL DEF Spec

-----------------------------------------------------------------------------
(* The refinement of BufferPool, for every number of threads, devices and   *)
(* addresses: each step of the manager is one step in the life of one       *)
(* buffer, or none.                                                         *)

\* The phase of every address: what BufferPool's variable stands for.
Phase == [p \in Ptrs |-> PhaseOf(p)]

-----------------------------------------------------------------------------
(* Reading the phase off the maps.                                         *)

PhaseFacts ==
    \A p \in Ptrs :
        /\ held[p] # {} => PhaseOf(p) = "used"
        /\ \A d \in Devices : p \in Pooled(d) => PhaseOf(p) = "cached"
        /\ \A t \in Threads : p \in free_ptrs[t] => PhaseOf(p) = "doomed"
        /\ \A t \in Threads : p = new_ptr[t] => PhaseOf(p) = "fresh"
        /\ p \notin DOMAIN heap => PhaseOf(p) = "absent"

\* The ownership invariant makes the cases of PhaseOf exclusive.
LEMMA PhaseMeaning == SafeInv => PhaseFacts
<1> SUFFICES ASSUME SafeInv, NEW p \in Ptrs
             PROVE  /\ held[p] # {} => PhaseOf(p) = "used"
                    /\ \A d \in Devices : p \in Pooled(d) => PhaseOf(p) = "cached"
                    /\ \A t \in Threads : p \in free_ptrs[t]
                                              => PhaseOf(p) = "doomed"
                    /\ \A t \in Threads : p = new_ptr[t] => PhaseOf(p) = "fresh"
                    /\ p \notin DOMAIN heap => PhaseOf(p) = "absent"
    BY DEF PhaseFacts
<1>1. held[p] # {} => PhaseOf(p) = "used"
    BY HeldIsNowhereElse DEF PhaseOf
<1>2. \A d \in Devices : p \in Pooled(d) => PhaseOf(p) = "cached"
    BY DEF SafeInv, OwnershipInv, PooledInv, PhaseOf
<1>3. \A t \in Threads : p \in free_ptrs[t] => PhaseOf(p) = "doomed"
    BY DEF SafeInv, OwnershipInv, FreeingInv, PhaseOf
<1>4. \A t \in Threads : p = new_ptr[t] => PhaseOf(p) = "fresh"
    BY DEF PhaseOf
<1>5. p \notin DOMAIN heap => PhaseOf(p) = "absent"
    BY AbsentIsNowhere DEF PhaseOf
<1> QED
    BY <1>1, <1>2, <1>3, <1>4, <1>5

LEMMA PhaseMeaningNext == SafeInv' => PhaseFacts'
BY PhaseMeaning, PTL

\* A step that concerns one address only.
Elsewhere(p) ==
    \A q \in Ptrs \ {p} :
        /\ \A t \in Threads : q = new_ptr'[t] <=> q = new_ptr[t]
        /\ \A t \in Threads : q \in free_ptrs'[t] <=> q \in free_ptrs[t]
        /\ \A d \in Devices : q \in DOMAIN free_map'[d] <=> q \in DOMAIN free_map[d]
        /\ q \in DOMAIN heap' <=> q \in DOMAIN heap

LEMMA PhaseElsewhere ==
    ASSUME NEW p \in Ptrs, Elsewhere(p)
    PROVE  Phase' = [Phase EXCEPT ![p] = PhaseOf(p)']
<1>1. ASSUME NEW q \in Ptrs \ {p} PROVE PhaseOf(q)' = PhaseOf(q)
    <2>1. /\ \A t \in Threads : q = new_ptr'[t] <=> q = new_ptr[t]
          /\ \A t \in Threads : q \in free_ptrs'[t] <=> q \in free_ptrs[t]
          /\ \A d \in Devices : q \in DOMAIN free_map'[d] <=> q \in DOMAIN free_map[d]
          /\ q \in DOMAIN heap' <=> q \in DOMAIN heap
        BY DEF Elsewhere
    <2> QED
        BY <2>1 DEF PhaseOf, Pooled
<1>2. Phase' = [q \in Ptrs |-> PhaseOf(q)']
    BY DEF Phase
<1>3. [Phase EXCEPT ![p] = PhaseOf(p)']
          = [q \in Ptrs |-> IF q = p THEN PhaseOf(p)' ELSE PhaseOf(q)]
    BY DEF Phase
<1> QED
    BY <1>1, <1>2, <1>3

LEMMA PhaseFrame ==
    ASSUME UNCHANGED <<new_ptr, free_ptrs, free_map, heap>>
    PROVE  Phase' = Phase
BY DEF Phase, PhaseOf, Pooled

\* The step in the vocabulary of BufferPool.
PoolStep == Pool!PoolNext \/ UNCHANGED <<Phase, held>>

-----------------------------------------------------------------------------
(* The native allocator and the collector.                                 *)

LEMMA RefineNativeAlloc ==
    ASSUME SafeInv, SafeInv', NEW t \in Threads, NativeAlloc(t)
    PROVE  PoolStep
<1>1. PICK p \in Ptrs \ DOMAIN heap :
          /\ new_ptr' = [new_ptr EXCEPT ![t] = p]
          /\ heap' = Put(heap, p, [dev |-> active[t],
                                   bytes |-> request[t].bytes])
    BY DEF NativeAlloc
<1>2. /\ new_ptr \in [Threads -> Ptrs \cup {NoPtr}] /\ new_ptr[t] = NoPtr
      /\ UNCHANGED <<free_map, free_ptrs, held>>
    BY DEF NativeAlloc, SafeInv, TypeInv, TypeOK, CallInv, manager, client
<1>3. DOMAIN heap' = DOMAIN heap \cup {p}
    BY <1>1 DEF Put
<1>4. Elsewhere(p)
    BY <1>1, <1>2, <1>3, SetAssumption DEF Elsewhere
<1>5. PhaseOf(p) = "absent" /\ PhaseOf(p)' = "fresh"
    <2>1. new_ptr'[t] = p
        BY <1>1, <1>2
    <2> QED
        BY <2>1, PhaseMeaning, PhaseMeaningNext DEF PhaseFacts
<1>6. Pool!Obtain(p)
    BY <1>2, <1>4, <1>5, PhaseElsewhere DEF Pool!Obtain, Phase
<1> QED
    BY <1>6 DEF PoolStep, Pool!PoolNext

LEMMA RefineNativeFree ==
    ASSUME SafeInv, SafeInv', NEW t \in Threads, NativeFree(t)
    PROVE  PoolStep
<1>1. PICK p \in free_ptrs[t] :
          /\ heap' = Erase(heap, p)
          /\ free_ptrs' = [free_ptrs EXCEPT ![t] = @ \ {p}]
    BY DEF NativeFree
<1>2. /\ free_ptrs \in [Threads -> SUBSET Ptrs] /\ p \in Ptrs
      /\ UNCHANGED <<free_map, new_ptr, held>>
    BY DEF NativeFree, SafeInv, TypeInv, TypeOK, manager, client
<1>3. DOMAIN heap' = DOMAIN heap \ {p}
    BY <1>1 DEF Erase
<1>4. Elsewhere(p)
    BY <1>1, <1>2, <1>3 DEF Elsewhere
<1>5. PhaseOf(p) = "doomed" /\ PhaseOf(p)' = "absent"
    BY <1>2, <1>3, PhaseMeaning, PhaseMeaningNext DEF PhaseFacts
<1>6. Pool!GiveBack(p)
    BY <1>2, <1>4, <1>5, PhaseElsewhere DEF Pool!GiveBack, Phase
<1> QED
    BY <1>2, <1>6 DEF PoolStep, Pool!PoolNext

LEMMA RefineMove ==
    ASSUME SafeInv, SafeInv', NEW t \in Threads, MoveToFreePtrs(t)
    PROVE  PoolStep
<1>0. PICK d \in Devices : d = active[t]
    BY DEF SafeInv, TypeInv, TypeOK
<1>1. PICK p \in DOMAIN free_map[d] :
          /\ free_ptrs' = [free_ptrs EXCEPT ![t] = @ \cup {p}]
          /\ free_map' = [free_map EXCEPT ![d] = Erase(@, p)]
    BY <1>0 DEF MoveToFreePtrs
<1>2. /\ free_ptrs \in [Threads -> SUBSET Ptrs] /\ p \in Ptrs
      /\ DOMAIN free_map = Devices
      /\ UNCHANGED <<heap, new_ptr, held>>
    BY DEF MoveToFreePtrs, SafeInv, TypeInv, TypeOK, IsMap, client
<1>3. DOMAIN Erase(free_map[d], p) = DOMAIN free_map[d] \ {p}
    BY DEF Erase
<1>4. Elsewhere(p)
    BY <1>1, <1>2, <1>3 DEF Elsewhere
<1>5. PhaseOf(p) = "cached" /\ PhaseOf(p)' = "doomed"
    <2>1. p \in free_ptrs'[t] /\ p \in Pooled(d)
        BY <1>1, <1>2 DEF Pooled
    <2> QED
        BY <1>2, <2>1, PhaseMeaning, PhaseMeaningNext DEF PhaseFacts
<1>6. Pool!Evict
    <2>1. Phase' = [Phase EXCEPT ![p] = "doomed"]
        BY <1>2, <1>4, <1>5, PhaseElsewhere
    <2>2. Phase' = [q \in Ptrs |-> IF q \in {p} THEN "doomed" ELSE Phase[q]]
        BY <2>1 DEF Phase
    <2>3. {p} \in SUBSET {q \in Ptrs : Phase[q] = "cached"}
        BY <1>2, <1>5 DEF Phase
    <2> QED
        BY <1>2, <2>2, <2>3 DEF Pool!Evict, Phase
<1> QED
    BY <1>6 DEF PoolStep, Pool!PoolNext

-----------------------------------------------------------------------------
(* Handing out.                                                            *)

\* A buffer that leaves the pool, or a thread's hands, for its first holder.
LEMMA RefineGive ==
    ASSUME SafeInv, SafeInv', NEW p \in Ptrs, NEW h \in Holders,
           Elsewhere(p), PhaseOf(p) \in {"fresh", "cached"},
           held' = [held EXCEPT ![p] = {h}]
    PROVE  PoolStep
<1>1. held'[p] # {}
    BY DEF SafeInv, TypeInv, TypeOK
<1>2. PhaseOf(p)' = "used"
    BY <1>1, PhaseMeaningNext DEF PhaseFacts
<1>3. Pool!Give(p, h)
    BY <1>2, PhaseElsewhere DEF Pool!Give, Phase
<1> QED
    BY <1>3 DEF PoolStep, Pool!PoolNext

LEMMA RefineReuse ==
    ASSUME SafeInv, SafeInv', NEW t \in Threads, AllocReuse(t)
    PROVE  PoolStep
<1>0. PICK d \in Devices : d = active[t]
    BY DEF SafeInv, TypeInv, TypeOK
<1>1. PICK p \in DOMAIN free_map[d] :
          /\ free_map' = [free_map EXCEPT ![d] = Erase(free_map[d], p)]
          /\ held' = [held EXCEPT ![p] = {request[t].lock}]
    BY <1>0 DEF AllocReuse, PopFree, HandOut
<1>2. /\ DOMAIN free_map = Devices /\ p \in Ptrs
      /\ UNCHANGED <<heap, free_ptrs, new_ptr>>
      /\ request[t].lock \in Holders
    BY DEF AllocReuse, SafeInv, TypeInv, TypeOK, IsMap, CallInv, Alloc
<1>3. DOMAIN Erase(free_map[d], p) = DOMAIN free_map[d] \ {p}
    BY DEF Erase
<1>4. Elsewhere(p)
    BY <1>1, <1>2, <1>3 DEF Elsewhere
<1>5. PhaseOf(p) = "cached"
    BY <1>2, PhaseMeaning DEF PhaseFacts, Pooled
<1> QED
    BY <1>1, <1>2, <1>4, <1>5, RefineGive

LEMMA RefineRegister ==
    ASSUME SafeInv, SafeInv', NEW t \in Threads, AllocRegister(t)
    PROVE  PoolStep
<1>1. PICK p \in Ptrs : p = new_ptr[t]
    BY DEF AllocRegister, SafeInv, TypeInv, TypeOK, CallInv
<1>2. /\ held' = [held EXCEPT ![p] = {request[t].lock}]
      /\ new_ptr' = [new_ptr EXCEPT ![t] = NoPtr]
      /\ new_ptr \in [Threads -> Ptrs \cup {NoPtr}]
      /\ UNCHANGED <<heap, free_ptrs, free_map>>
      /\ request[t].lock \in Holders
    BY <1>1 DEF AllocRegister, HandOut, SafeInv, TypeInv, TypeOK, CallInv, Alloc
<1>3. Elsewhere(p)
    BY <1>1, <1>2, SetAssumption DEF Elsewhere
<1>4. PhaseOf(p) = "fresh"
    BY <1>1, PhaseMeaning DEF PhaseFacts
<1> QED
    BY <1>2, <1>3, <1>4, RefineGive

-----------------------------------------------------------------------------
(* Holders come and go.                                                    *)

LEMMA RefineLeaveLast ==
    ASSUME SafeInv, SafeInv', NEW t \in Threads, NEW d \in Devices,
           NEW p \in Ptrs, NEW who \in Holders,
           held[p] = {who}, held' = [held EXCEPT ![p] = @ \ {who}],
           UNCHANGED <<heap, new_ptr>>,
           \/ free_ptrs' = [free_ptrs EXCEPT ![t] = {p}] /\ free_map' = free_map
              /\ free_ptrs[t] = {}
           \/ /\ free_map' = [free_map EXCEPT
                     ![d] = Put(free_map[d], p, locked_map[d][p].bytes)]
              /\ free_ptrs' = free_ptrs
    PROVE  PoolStep
<1>1. /\ free_ptrs \in [Threads -> SUBSET Ptrs] /\ DOMAIN free_map = Devices
      /\ held \in [Ptrs -> SUBSET Holders]
    BY DEF SafeInv, TypeInv, TypeOK
<1>2. DOMAIN Put(free_map[d], p, locked_map[d][p].bytes)
          = DOMAIN free_map[d] \cup {p}
    BY DEF Put
<1>3. Elsewhere(p)
    BY <1>1, <1>2 DEF Elsewhere
<1>4. PhaseOf(p)' \in {"cached", "doomed"}
    <2>1. CASE free_ptrs' = [free_ptrs EXCEPT ![t] = {p}]
        <3>1. p \in free_ptrs'[t]
            BY <1>1, <2>1
        <3> QED
            BY <3>1, PhaseMeaningNext DEF PhaseFacts
    <2>2. CASE free_map' = [free_map EXCEPT
                   ![d] = Put(free_map[d], p, locked_map[d][p].bytes)]
        <3>1. p \in Pooled(d)'
            BY <1>1, <1>2, <2>2 DEF Pooled
        <3> QED
            BY <3>1, PhaseMeaningNext DEF PhaseFacts
    <2> QED
        BY <2>1, <2>2
<1>5. PhaseOf(p) = "used"
    BY PhaseMeaning DEF PhaseFacts
<1>6. held' = [held EXCEPT ![p] = {}]
    BY <1>1
<1>7. Pool!LeaveLast(p, who)
    BY <1>3, <1>4, <1>5, <1>6, PhaseElsewhere DEF Pool!LeaveLast, Phase
<1> QED
    BY <1>7 DEF PoolStep, Pool!PoolNext

LEMMA RefineUnlock ==
    ASSUME SafeInv, SafeInv', NEW t \in Threads, NEW d \in Devices,
           NEW p \in Ptrs, NEW who \in Holders, Unlock(t, d, p, who),
           Rightful(d, p, who)
    PROVE  PoolStep
<1>1. /\ UNCHANGED <<heap, new_ptr>> /\ free_ptrs[t] = {}
      /\ held' = [held EXCEPT ![p] = @ \ {who}]
    BY UnlockFrame DEF Unlock
<1>2. CASE UnlockUnknown(t, d, p)
    <2>1. held[p] = {who}
        BY <1>2 DEF UnlockUnknown, Rightful, Locked
    <2>2. free_ptrs' = [free_ptrs EXCEPT ![t] = {p}] /\ free_map' = free_map
        BY <1>2 DEF UnlockUnknown, manager
    <2> QED
        BY <1>1, <2>1, <2>2, RefineLeaveLast
<1>3. CASE UnlockShared(d, p, who)
    <2>1. /\ held[p] \ {who} # {}
          /\ UNCHANGED <<free_map, free_ptrs>>
        BY <1>3
        DEF UnlockShared, Remaining, Locked, SafeInv, OwnershipInv, LockedInv
    <2>2. PhaseOf(p) = "used"
        BY PhaseMeaning DEF PhaseFacts, Rightful
    <2>3. Phase' = Phase
        BY <1>1, <2>1, PhaseFrame
    <2>4. Pool!Leave(p, who)
        BY <1>1, <2>1, <2>2, <2>3 DEF Pool!Leave, Phase
    <2> QED
        BY <2>4 DEF PoolStep, Pool!PoolNext
<1>4. CASE UnlockLast(t, d, p, who)
    <2>1. held[p] = {who}
        BY <1>4 DEF UnlockLast, Remaining, Locked, SafeInv, OwnershipInv,
                    LockedInv
    <2>2. \/ free_ptrs' = [free_ptrs EXCEPT ![t] = {p}] /\ free_map' = free_map
          \/ /\ free_map' = [free_map EXCEPT
                    ![d] = Put(free_map[d], p, locked_map[d][p].bytes)]
             /\ free_ptrs' = free_ptrs
        BY <1>4 DEF UnlockLast, PushFree
    <2> QED
        BY <1>1, <2>1, <2>2, RefineLeaveLast
<1> QED
    BY <1>2, <1>3, <1>4 DEF Unlock

LEMMA RefineMemFree ==
    ASSUME SafeInv, SafeInv', Disciplined, NEW t \in Threads, NEW p \in Ptrs,
           MemFree(t, p) \/ MemFreeUser(t, p)
    PROVE  PoolStep
<1>1. CASE MemFree(t, p)
    <2>1. PICK d \in Devices : d = home[p]
        BY DEF SafeInv, TypeInv, TypeOK
    <2>2. Unlock(t, d, p, "manager") /\ held[p] # {}
        BY <1>1, <2>1 DEF MemFree
    <2>3. Rightful(d, p, "manager")
        BY <2>1, <2>2 DEF Rightful, SafeInv, OwnershipInv, HeldInv
    <2> QED
        BY <2>2, <2>3, RefineUnlock DEF Holders
<1>2. CASE MemFreeUser(t, p)
    <2>1. PICK d \in Devices : d = active[t]
        BY DEF SafeInv, TypeInv, TypeOK
    <2>2. Unlock(t, d, p, "user") /\ held[p] # {} /\ p \in Locked(d)
        BY <1>2, <2>1 DEF MemFreeUser, Disciplined, Locked
    <2>3. Rightful(d, p, "user")
        BY <2>2 DEF Rightful, SafeInv, OwnershipInv, LockedInv
    <2> QED
        BY <2>2, <2>3, RefineUnlock DEF Holders
<1> QED
    BY <1>1, <1>2

LEMMA RefineUserLock ==
    ASSUME SafeInv, SafeInv', NEW t \in Threads, NEW p \in Ptrs, UserLock(t, p)
    PROVE  PoolStep
<1>1. /\ UNCHANGED <<heap, new_ptr, free_ptrs, free_map>>
      /\ held' = [held EXCEPT ![p] = @ \cup {"user"}]
      /\ held[p] # {}
    BY DEF UserLock, local
<1>2. Phase' = Phase
    BY <1>1, PhaseFrame
<1>3. PhaseOf(p) = "used"
    BY <1>1, PhaseMeaning DEF PhaseFacts
<1>4. Pool!Join(p, "user")
    BY <1>1, <1>2, <1>3 DEF Pool!Join, Phase
<1> QED
    BY <1>4 DEF PoolStep, Pool!PoolNext, Holders

LEMMA RefineWrap ==
    ASSUME SafeInv, SafeInv', NEW t \in Threads, NEW p \in Ptrs,
           NEW bytes \in Requests, WrapUserMemory(t, p, bytes)
    PROVE  PoolStep
<1>1. /\ UNCHANGED <<new_ptr, free_ptrs, free_map>>
      /\ held' = [held EXCEPT ![p] = {"manager"}]
      /\ p \notin DOMAIN heap
    BY DEF WrapUserMemory, manager, local
<1>2. DOMAIN heap' = DOMAIN heap \cup {p}
    BY DEF WrapUserMemory, Put
<1>3. Elsewhere(p)
    BY <1>1, <1>2 DEF Elsewhere
<1>4. PhaseOf(p) = "absent" /\ PhaseOf(p)' = "used"
    <2>1. held'[p] # {}
        BY <1>1 DEF SafeInv, TypeInv, TypeOK
    <2> QED
        BY <1>1, <2>1, PhaseMeaning, PhaseMeaningNext DEF PhaseFacts
<1>5. Pool!Adopt(p, "manager")
    BY <1>1, <1>3, <1>4, PhaseElsewhere DEF Pool!Adopt, Phase
<1> QED
    BY <1>5 DEF PoolStep, Pool!PoolNext, Holders

-----------------------------------------------------------------------------
(* The refinement.                                                         *)

\* Steps that change no buffer's phase.
LEMMA RefineControl ==
    ASSUME NEW t \in Threads,
           \/ CleanDeviceMemoryManager(t)
           \/ SignalMemoryCleanup(t)
           \/ \E lock \in Holders, need \in Requests : AllocBegin(t, lock, need)
           \/ AllocCountCheck(t)
           \/ AllocMiss(t)
           \/ NativeAllocNoMem(t)
           \/ OutOfMemory(t)
           \/ NativeAllocError(t)
           \/ \E d \in Devices : SetDevice(t, d)
           \/ \E s \in StepSizes : SetMemStepSize(t, s)
    PROVE  PoolStep
<1>1. UNCHANGED <<new_ptr, free_ptrs, free_map, heap, held>>
    BY DEF CleanDeviceMemoryManager, SignalMemoryCleanup, AllocBegin,
           AllocCountCheck, AllocMiss, NativeAllocNoMem, OutOfMemory,
           NativeAllocError, SetDevice, SetMemStepSize, manager, local, client
<1> QED
    BY <1>1, PhaseFrame DEF PoolStep

LEMMA RefineStep ==
    ASSUME Disciplined
    PROVE  SafeInv /\ SafeInv' /\ [Next]_vars => PoolStep
<1> SUFFICES ASSUME SafeInv, SafeInv', [Next]_vars PROVE PoolStep
    OBVIOUS
<1>1. ASSUME UNCHANGED vars PROVE PoolStep
    BY <1>1, PhaseFrame DEF PoolStep, vars, manager, local, client
<1>2. ASSUME NEW t \in Threads, Progress(t) PROVE PoolStep
    <2>1. ~ NativeFreeThrows(t)
        BY DEF Disciplined, NativeFreeThrows
    <2> QED
        BY <1>2, <2>1, RefineControl, RefineMove, RefineNativeFree,
           RefineReuse, RefineNativeAlloc, RefineRegister
        DEF Progress
<1>3. ASSUME NEW t \in Threads, Call(t) PROVE PoolStep
    <2>1. \A p \in Ptrs : ~ AdoptPointer(t, p)
        BY DEF Disciplined, AdoptPointer
    <2> QED
        BY <1>3, <2>1, RefineControl, RefineMemFree, RefineUserLock, RefineWrap
        DEF Call
<1> QED
    BY <1>1, <1>2, <1>3 DEF Next

LEMMA RefineInit == Init => Pool!PoolInit
<1> SUFFICES ASSUME Init PROVE Pool!PoolInit
    OBVIOUS
<1>1. PhaseFacts /\ DOMAIN heap = {}
    BY SafeInit, PhaseMeaning DEF Init, EmptyMap
<1>2. \A p \in Ptrs : PhaseOf(p) = "absent"
    BY <1>1 DEF PhaseFacts
<1> QED
    BY <1>2 DEF Init, Pool!PoolInit

\* Under disciplined callers the manager, its threads and the native allocator
\* together behave as BufferPool: every buffer has one life.
THEOREM BufferPoolRefined == Disciplined => (Spec => ImplementsBufferPool)
<1> SUFFICES ASSUME Disciplined PROVE Spec => ImplementsBufferPool
    OBVIOUS
<1>1. Init => Pool!PoolInit
    BY RefineInit
<1>2. SafeInv /\ SafeInv' /\ [Next]_vars => [Pool!PoolNext]_(Pool!poolvars)
    BY RefineStep DEF PoolStep, Pool!poolvars, Phase
<1>3. Spec => []SafeInv
    BY Ownership
<1> QED
    BY <1>1, <1>2, <1>3, PTL DEF Spec, ImplementsBufferPool, Pool!PoolSpec

=============================================================================
