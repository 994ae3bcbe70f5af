---------------------------- MODULE FFTPlanCache ----------------------------
(***************************************************************************)
(* The cache of FFT plans (src/src/backend/common/FFTPlanCache.hpp) and    *)
(* the findPlan of the CUDA backend that uses it.  Each thread has a cache *)
(* of its own for each device, so the model has one thread and one device. *)
(***************************************************************************)
EXTENDS Naturals, Sequences, SequencesExt, FiniteSets

CONSTANTS
    Keys,       \* the strings findPlan makes of the arguments of a transform
    Limits,     \* the sizes a program passes to af_set_fft_plan_cache_size
    MaxPlans    \* bound: the plans that are created

ASSUME PlanAssumption == Limits \subseteq Nat /\ MaxPlans \in Nat

VARIABLES
    mCache,         \* the deque, front first: [key, plan]
    mMaxCacheSize,
    created,        \* history: the keys of the plans created, newest first
    undefined       \* pop_back was called on an empty deque

vars == <<mCache, mMaxCacheSize, created, undefined>>

\* plan_pair_t; a plan is the number of its creation.
Entry(k) == [key |-> k, plan |-> Len(created) + 1]

Find(k) == {i \in 1..Len(mCache) : mCache[i].key = k}

\* while (mCache.size() > n) mCache.pop_back()
Trim_Front(c, n) == IF Len(c) > n THEN SubSeq(c, Len(c) - n + 1, Len(c)) ELSE c

Trim(c, n) == IF Len(c) > n THEN SubSeq(c, 1, n) ELSE c

Init ==
    /\ mCache = <<>>
    /\ mMaxCacheSize = 5
    /\ created = <<>>
    /\ undefined = FALSE

SetMaxCacheSize(n) ==
    /\ mMaxCacheSize' = n
    /\ mCache' = Trim(mCache, n)
    /\ UNCHANGED <<created, undefined>>

\* findPlan, when the cache has the plan: the deque stays as it is.
FindHit(k) ==
    /\ Find(k) # {}
    /\ UNCHANGED <<mCache, mMaxCacheSize, created, undefined>>

Pushed_NoPop(k) == <<Entry(k)>> \o mCache

\* push: at the limit the back goes, and the new plan becomes the front.
Pushed(k) ==
    <<Entry(k)>> \o
        (IF Len(mCache) >= mMaxCacheSize THEN Front(mCache) ELSE mCache)

\* findPlan, when a new plan has to be made.  cufftPlanMany may fail once,
\* signalMemoryCleanup runs, and it is tried again.
PlanCreated(k) ==
    /\ Find(k) = {}
    /\ Len(created) < MaxPlans
    /\ Len(mCache) >= mMaxCacheSize => mCache # <<>>
    /\ mCache' = Pushed(k)
    /\ created' = <<k>> \o created
    /\ UNCHANGED <<mMaxCacheSize, undefined>>

\* push on an empty deque of size 0: pop_back is undefined behaviour.
PopEmpty(k) ==
    /\ Find(k) = {}
    /\ mMaxCacheSize = 0 /\ mCache = <<>>
    /\ undefined' = TRUE
    /\ UNCHANGED <<mCache, mMaxCacheSize, created>>

\* The second cufftPlanMany fails as well: CUFFT_CHECK throws, the cache is as
\* it was.
PlanFailed_Cached(k) ==
    /\ Find(k) = {}
    /\ Len(mCache) < mMaxCacheSize
    /\ mCache' = <<Entry(k)>> \o mCache
    /\ UNCHANGED <<mMaxCacheSize, created, undefined>>

PlanFailed(k) ==
    /\ Find(k) = {}
    /\ UNCHANGED vars

Next ==
    /\ ~undefined
    /\ \/ \E n \in Limits : SetMaxCacheSize(n)
       \/ \E k \in Keys : FindHit(k) \/ PlanCreated(k) \/ PopEmpty(k)
                          \/ PlanFailed(k)

Spec == Init /\ [][Next]_vars

----------------------------------------------------------------------------

\* The keys of the cache, front first.
CachedKeys == [i \in 1..Len(mCache) |-> mCache[i].key]

\* The cache never holds more plans than its limit, however the limit and the
\* cache change in turn.
WithinLimit == Len(mCache) <= mMaxCacheSize

\* The cached plans are the newest ones, in the order of their creation: the
\* limit, lowered and raised again, never keeps an older plan for a newer one.
NewestKept ==
    Len(mCache) <= Len(created) /\ CachedKeys = SubSeq(created, 1, Len(mCache))

\* One plan for a key: a failed creation or an eviction never leaves a second
\* entry, or one without a plan.
OnePlanPerKey ==
    /\ IsInjective(CachedKeys)
    /\ \A i \in 1..Len(mCache) : mCache[i].plan \in 1..Len(created)
=============================================================================
