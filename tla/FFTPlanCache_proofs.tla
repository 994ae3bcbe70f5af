------------------------- MODULE FFTPlanCache_proofs -------------------------
(***************************************************************************)
(* The properties of FFTPlanCache for every set of keys and limits and any *)
(* number of plans.  The inductive invariant ties the deque to the history *)
(* of creations entry by entry: the i-th cached plan is the i-th newest    *)
(* one, with its key and its number.                                       *)
(***************************************************************************)
EXTENDS FFTPlanCache, TLAPS

Plans == [key : Keys, plan : Nat]

TypeInv ==
    /\ mCache \in Seq(Plans)
    /\ mMaxCacheSize \in Nat
    /\ created \in Seq(Keys)

\* The cached plans are a beginning of the plans created, newest first.
HistoryInv ==
    /\ Len(mCache) <= Len(created)
    /\ \A i \in 1 .. Len(mCache) :
          mCache[i].key = created[i] /\ mCache[i].plan = Len(created) + 1 - i

KeysDiffer ==
    \A i, j \in 1 .. Len(mCache) : mCache[i].key = mCache[j].key => i = j

CacheInv == TypeInv /\ WithinLimit /\ HistoryInv /\ KeysDiffer

-----------------------------------------------------------------------------
\* A beginning of a deque, which is what trimming and popping leave.
LEMMA Beginning ==
    ASSUME NEW S, NEW s \in Seq(S), NEW n \in 0 .. Len(s)
    PROVE  /\ SubSeq(s, 1, n) \in Seq(S)
           /\ Len(SubSeq(s, 1, n)) = n
           /\ \A i \in 1 .. n : SubSeq(s, 1, n)[i] = s[i]
OBVIOUS

\* A new front: the other entries move back by one.
LEMMA Pushing ==
    ASSUME NEW S, NEW s \in Seq(S), NEW e \in S
    PROVE  /\ <<e>> \o s \in Seq(S)
           /\ Len(<<e>> \o s) = Len(s) + 1
           /\ (<<e>> \o s)[1] = e
           /\ \A i \in 2 .. Len(s) + 1 : (<<e>> \o s)[i] = s[i - 1]
OBVIOUS

\* setMaxCacheSize keeps the invariant for every new limit.
LEMMA SetMaxCacheSizeSafe ==
    ASSUME CacheInv, NEW n \in Limits, SetMaxCacheSize(n)
    PROVE  CacheInv'
<1>1. n \in Nat /\ mMaxCacheSize' = n /\ created' = created
  BY PlanAssumption DEF SetMaxCacheSize
<1>2. /\ mCache \in Seq(Plans) /\ created \in Seq(Keys)
      /\ Len(mCache) \in Nat /\ Len(created) \in Nat
  BY DEF CacheInv, TypeInv
<1>3. /\ mCache' \in Seq(Plans) /\ Len(mCache') <= n
      /\ Len(mCache') \in 0 .. Len(mCache) /\ \A i \in 1 .. Len(mCache') : mCache'[i] = mCache[i]
  <2>1. CASE Len(mCache) > n
    <3>1. n \in 0 .. Len(mCache) /\ mCache' = SubSeq(mCache, 1, n)
      BY <1>1, <1>2, <2>1 DEF SetMaxCacheSize, Trim
    <3> QED BY <1>1, <1>2, <3>1, Beginning
  <2>2. CASE ~ (Len(mCache) > n)
    BY <1>1, <1>2, <2>2 DEF SetMaxCacheSize, Trim
  <2> QED BY <2>1, <2>2
<1>4. TypeInv' /\ WithinLimit'
  BY <1>1, <1>2, <1>3 DEF TypeInv, WithinLimit
<1>5. \A i \in 1 .. Len(mCache') : i \in 1 .. Len(mCache)
  BY <1>2, <1>3
<1>6. HistoryInv'
  <2>1. Len(mCache') <= Len(created')
    BY <1>1, <1>2, <1>3 DEF HistoryInv, CacheInv
  <2>2. ASSUME NEW i \in 1 .. Len(mCache')
        PROVE  mCache'[i].key = created'[i] /\ mCache'[i].plan = Len(created') + 1 - i
    <3>1. mCache'[i] = mCache[i] /\ i \in 1 .. Len(mCache)
      BY <1>3, <1>5
    <3> QED BY <1>1, <3>1 DEF HistoryInv, CacheInv
  <2> QED BY <2>1, <2>2 DEF HistoryInv
<1>7. KeysDiffer'
  BY <1>3, <1>5 DEF KeysDiffer, CacheInv
<1> QED BY <1>4, <1>6, <1>7 DEF CacheInv

\* So does findPlan when it creates a plan: the key is new to the cache, and
\* the entry that goes is the oldest.
LEMMA PlanCreatedSafe ==
    ASSUME CacheInv, NEW k \in Keys, PlanCreated(k)
    PROVE  CacheInv'
<1> DEFINE kept == IF Len(mCache) >= mMaxCacheSize THEN Front(mCache) ELSE mCache
<1>1. /\ kept \in Seq(Plans)
      /\ Len(kept) <= Len(mCache) /\ Len(kept) + 1 <= mMaxCacheSize
      /\ \A i \in 1 .. Len(kept) : kept[i] = mCache[i]
  <2>1. CASE Len(mCache) >= mMaxCacheSize
    <3>1. Len(mCache) \in Nat /\ mCache # <<>> /\ Len(mCache) = mMaxCacheSize
      BY <2>1 DEF PlanCreated, CacheInv, TypeInv, WithinLimit
    <3>2. Len(mCache) - 1 \in 0 .. Len(mCache)
      BY <3>1 DEF CacheInv, TypeInv
    <3>3. kept = SubSeq(mCache, 1, Len(mCache) - 1)
      BY <2>1 DEF Front
    <3>4. mCache \in Seq(Plans)
      BY DEF CacheInv, TypeInv
    <3> HIDE DEF kept
    <3>5. kept \in Seq(Plans) /\ Len(kept) = Len(mCache) - 1 /\ \A i \in 1 .. Len(kept) : kept[i] = mCache[i]
      BY <3>2, <3>3, <3>4, Beginning
    <3> QED BY <3>1, <3>5
  <2>2. CASE ~ (Len(mCache) >= mMaxCacheSize)
    BY <2>2 DEF CacheInv, TypeInv
  <2> QED BY <2>1, <2>2
<1>2. /\ mCache' = <<Entry(k)>> \o kept /\ created' = <<k>> \o created
      /\ mMaxCacheSize' = mMaxCacheSize
  BY DEF PlanCreated, Pushed
<1>3. Entry(k) \in Plans /\ Entry(k).key = k /\ Entry(k).plan = Len(created) + 1
  BY DEF Entry, Plans, CacheInv, TypeInv
<1> HIDE DEF kept
<1>4. /\ mCache' \in Seq(Plans) /\ Len(mCache') = Len(kept) + 1
      /\ mCache'[1] = Entry(k) /\ \A i \in 2 .. Len(kept) + 1 : mCache'[i] = kept[i - 1]
  BY <1>1, <1>2, <1>3, Pushing
<1>5. created \in Seq(Keys)
  BY DEF CacheInv, TypeInv
<1>6. /\ created' \in Seq(Keys) /\ Len(created') = Len(created) + 1
      /\ created'[1] = k /\ \A i \in 2 .. Len(created) + 1 : created'[i] = created[i - 1]
  BY <1>2, <1>5, Pushing
<1>7. Len(kept) \in Nat /\ Len(created) \in Nat /\ mMaxCacheSize \in Nat /\ Len(mCache) \in Nat
  BY <1>1, <1>5 DEF CacheInv, TypeInv
<1>8. TypeInv' /\ WithinLimit'
  BY <1>1, <1>2, <1>4, <1>6, <1>7 DEF TypeInv, WithinLimit
<1>9. \A i \in 2 .. Len(kept) + 1 : i - 1 \in 1 .. Len(mCache) /\ mCache'[i] = mCache[i - 1]
  BY <1>1, <1>4, <1>7
<1>10. HistoryInv'
  <2>1. Len(mCache') <= Len(created')
    BY <1>1, <1>4, <1>6, <1>7 DEF CacheInv, HistoryInv
  <2>2. ASSUME NEW i \in 1 .. Len(mCache')
        PROVE  mCache'[i].key = created'[i] /\ mCache'[i].plan = Len(created') + 1 - i
    <3>1. CASE i = 1
      BY <3>1, <1>3, <1>4, <1>6, <1>7
    <3>2. CASE i # 1
      <4>1. i \in 2 .. Len(kept) + 1 /\ i - 1 \in 1 .. Len(mCache) /\ i \in 2 .. Len(created) + 1
        BY <2>1, <3>2, <1>4, <1>6, <1>7, <1>9
      <4>2. mCache[i - 1].key = created[i - 1] /\ mCache[i - 1].plan = Len(created) + 1 - (i - 1)
        BY <4>1 DEF CacheInv, HistoryInv
      <4> QED BY <4>1, <4>2, <1>6, <1>7, <1>9, SMTT(30)
    <3> QED BY <3>1, <3>2
  <2> QED BY <2>1, <2>2 DEF HistoryInv
<1>11. KeysDiffer'
  <2>1. \A i \in 1 .. Len(mCache) : mCache[i].key # k
    BY DEF PlanCreated, Find
  <2>2. \A i \in 2 .. Len(kept) + 1 : mCache'[i].key # k
    BY <1>9, <2>1
  <2>3. ASSUME NEW i \in 1 .. Len(mCache'), NEW j \in 1 .. Len(mCache'), mCache'[i].key = mCache'[j].key
        PROVE  i = j
    <3>1. CASE i = 1 \/ j = 1
      BY <3>1, <2>2, <2>3, <1>3, <1>4, <1>7
    <3>2. CASE i # 1 /\ j # 1
      <4>1. i \in 2 .. Len(kept) + 1 /\ j \in 2 .. Len(kept) + 1
        BY <3>2, <1>4, <1>7
      <4>2. mCache[i - 1].key = mCache[j - 1].key /\ i - 1 \in 1 .. Len(mCache) /\ j - 1 \in 1 .. Len(mCache)
        BY <4>1, <2>3, <1>9
      <4>3. i - 1 = j - 1
        BY <4>2 DEF CacheInv, KeysDiffer
      <4> QED BY <4>1, <4>3
    <3> QED BY <3>1, <3>2
  <2> QED BY <2>3 DEF KeysDiffer
<1> QED BY <1>8, <1>10, <1>11 DEF CacheInv

-----------------------------------------------------------------------------
\* The invariant holds of the empty cache and survives every call of findPlan
\* and setMaxCacheSize.
LEMMA CacheInvHolds == Spec => []CacheInv
<1>1. Init => CacheInv
  BY DEF Init, CacheInv, TypeInv, WithinLimit, HistoryInv, KeysDiffer
<1>2. CacheInv /\ [Next]_vars => CacheInv'
  <2> SUFFICES ASSUME CacheInv, [Next]_vars
               PROVE  CacheInv'
    OBVIOUS
  <2>1. ASSUME NEW n \in Limits, SetMaxCacheSize(n)
        PROVE  CacheInv'
    BY <2>1, SetMaxCacheSizeSafe
  <2>2. ASSUME NEW k \in Keys, PlanCreated(k)
        PROVE  CacheInv'
    BY <2>2, PlanCreatedSafe
  <2>3. ASSUME UNCHANGED <<mCache, mMaxCacheSize, created>>
        PROVE  CacheInv'
    BY <2>3 DEF CacheInv, TypeInv, WithinLimit, HistoryInv, KeysDiffer
  <2>4. ASSUME NEW k \in Keys, FindHit(k) \/ PopEmpty(k) \/ PlanFailed(k)
        PROVE  UNCHANGED <<mCache, mMaxCacheSize, created>>
    BY <2>4 DEF FindHit, PopEmpty, PlanFailed, vars
  <2>5. CASE UNCHANGED vars
    BY <2>3, <2>5 DEF vars
  <2> QED BY <2>1, <2>2, <2>3, <2>4, <2>5 DEF Next
<1> QED BY <1>1, <1>2, PTL DEF Spec

\* However calls of setMaxCacheSize and findPlan alternate, the deque never
\* holds more plans than mMaxCacheSize.
THEOREM WithinLimitHolds == Spec => []WithinLimit
<1>1. CacheInv => WithinLimit
  BY DEF CacheInv
<1> QED BY <1>1, CacheInvHolds, PTL

\* No eviction, trim or failed creation leaves two plans for one key in the
\* deque, or an entry for a plan that was never made.
THEOREM OnePlanPerKeyHolds == Spec => []OnePlanPerKey
<1>1. CacheInv => OnePlanPerKey
  <2> SUFFICES ASSUME CacheInv PROVE OnePlanPerKey
    OBVIOUS
  <2>1. DOMAIN CachedKeys = 1 .. Len(mCache) /\ \A i \in 1 .. Len(mCache) : CachedKeys[i] = mCache[i].key
    BY DEF CachedKeys
  <2>2. IsInjective(CachedKeys)
    BY <2>1 DEF IsInjective, CacheInv, KeysDiffer
  <2>3. \A i \in 1 .. Len(mCache) : mCache[i].plan \in 1 .. Len(created)
    BY DEF CacheInv, TypeInv, HistoryInv
  <2> QED BY <2>2, <2>3 DEF OnePlanPerKey
<1> QED BY <1>1, CacheInvHolds, PTL

\* The deque is the newest plans in the order of their creation: push, its
\* pop_back and the trim of setMaxCacheSize agree on which end is old.
THEOREM NewestKeptHolds == Spec => []NewestKept
<1>1. CacheInv => NewestKept
  <2> SUFFICES ASSUME CacheInv PROVE NewestKept
    OBVIOUS
  <2>1. /\ mCache \in Seq(Plans) /\ created \in Seq(Keys)
        /\ Len(mCache) \in 0 .. Len(created)
        /\ \A i \in 1 .. Len(mCache) : mCache[i].key = created[i]
    BY DEF CacheInv, TypeInv, HistoryInv
  <2>2. SubSeq(created, 1, Len(mCache)) = [i \in 1 .. Len(mCache) |-> created[i]]
    BY <2>1
  <2>3. CachedKeys = [i \in 1 .. Len(mCache) |-> created[i]]
    BY <2>1 DEF CachedKeys
  <2> QED BY <2>1, <2>2, <2>3 DEF NewestKept
<1> QED BY <1>1, CacheInvHolds, PTL
=============================================================================
