--------------------------- MODULE MemoryManager ---------------------------
(***************************************************************************)
(* The default memory manager of ArrayFire                                 *)
(* (src/src/backend/common/DefaultMemoryManager.cpp), the caching          *)
(* allocator behind every array of every backend, as used through          *)
(* memAlloc, memFree, memLock, memFreeUser and signalMemoryCleanup.        *)
(*                                                                         *)
(* One mutex, memory_mutex, protects the bookkeeping.  Every section of    *)
(* code between taking and releasing it is one action, except the loop of  *)
(* the collector, whose steps the unlocked reads of another thread can     *)
(* see.  What the code does OUTSIDE the mutex is an action of its own: the *)
(* two unlocked reads that decide on a collection, each call of            *)
(* nativeAlloc and each call of nativeFree.  A thread inside a call is     *)
(* therefore somewhere in pc[t].                                           *)
(*                                                                         *)
(* Data abstraction: an address is a member of Ptrs; free_map, in the code *)
(* a vector of addresses per size used as a stack, is a function from the  *)
(* pooled addresses to their size (which of two pooled buffers of a size   *)
(* is reused is left open).                                                *)
(*                                                                         *)
(* A definition named Operation_Fault is a faulty variant of Operation,    *)
(* there to show that a property notices the fault; nothing uses it.       *)
(***************************************************************************)
EXTENDS Integers, FiniteSets, Functions

CONSTANTS
    Threads,        \* threads that call the library
    Devices,        \* the devices of the backend, indices of `memory`
    Ptrs,           \* the addresses the native allocator can hand out
    Requests,       \* numbers of bytes callers ask for
    StepSizes,      \* values the user may give mem_step_size
    MaxBuffers,     \* max_buffers
    MaxBytes,       \* max_bytes of each device
    Capacity,       \* bytes the native allocator of each device can provide,
                    \* which a size_t counts (CL_DEVICE_GLOBAL_MEM_SIZE etc.)
    DebugMode,      \* debug_mode (AF_MEM_DEBUG): nothing is cached
    ForeignBytes,   \* the size userLock records for an unknown address
    W,              \* the number of values of size_t
    UserMemory,     \* callers may make arrays of memory of their own
    ForeignLocks,   \* ... and lock an address the manager does not know
    StrayFrees,     \* ... call af_free_device under another device
    AdoptManaged,   \* ... make an array of a pointer af_alloc_device gave it
    FreeMayFail,    \* nativeFree may throw (cudaFree reports an error)
    NoPtr           \* not an address: nullptr

\* Who holds a buffer: the library (an Array's shared_ptr: manager_lock) or
\* the user of the raw pointer (user_lock).
Holders == {"manager", "user"}

\* divup(bytes, step) * step: the size class of a request.
RoundUp(bytes, step) == ((bytes + step - 1) \div step) * step

AllocBytes(bytes, step) == IF DebugMode THEN bytes ELSE RoundUp(bytes, step)

\* Arithmetic of size_t on operands already in 0 .. W-1.
SizeAdd(a, b) == IF a + b < W THEN a + b ELSE a + b - W
SizeSub_Signed(a, b) == a - b
SizeSub(a, b) == IF a >= b THEN a - b ELSE a - b + W

ASSUME SetAssumption ==
    /\ IsFiniteSet(Ptrs)
    /\ NoPtr \notin Ptrs
    /\ Devices # {}

ASSUME SizeAssumption ==
    /\ W \in Nat
    /\ Cardinality(Ptrs) < W
    /\ ForeignBytes \in 1..(W - 1)
    /\ MaxBuffers \in Nat
    /\ MaxBytes \in [Devices -> Nat]
    /\ Capacity \in [Devices -> 0..(W - 1)]
    /\ Requests \subseteq Nat \ {0}
    /\ StepSizes \subseteq Nat \ {0}
    /\ StepSizes # {}
    /\ \A r \in Requests, s \in StepSizes :
          r < W /\ RoundUp(r, s) < W

ASSUME FlagAssumption ==
    {DebugMode, UserMemory, ForeignLocks, StrayFrees, AdoptManaged,
     FreeMayFail} \subseteq BOOLEAN

VARIABLES
    locked_map,     \* [device -> address -> locks held and size]
    free_map,       \* [device -> pooled address -> size]
    total_bytes, total_buffers, lock_bytes, lock_buffers,
    mem_step_size,
    active,         \* the thread-local active device
    pc,             \* where a thread is in its call
    resume,         \* where it goes on after a collection
    request,        \* the call of alloc a thread is in
    new_ptr,        \* address a thread got from nativeAlloc, unregistered
    free_ptrs,      \* addresses a thread will give to nativeFree
    heap,           \* native allocator: live address -> device and size
    held,           \* the caller: who still uses an address
    home            \* the caller: the device its array is on

manager == <<locked_map, free_map, total_bytes, total_buffers,
             lock_bytes, lock_buffers>>
local   == <<pc, resume, request, new_ptr, free_ptrs>>
client  == <<held, home>>
vars    == <<manager, mem_step_size, active, local, heap, client>>

-----------------------------------------------------------------------------
(* Partial functions: the maps of the code.                                *)

IsMap(f, S, T) == DOMAIN f \subseteq S /\ f \in [DOMAIN f -> T]

EmptyMap == [p \in {} |-> 0]
Put(f, p, v) == [q \in DOMAIN f \cup {p} |-> IF q = p THEN v ELSE f[q]]
Erase(f, p) == [q \in DOMAIN f \ {p} |-> f[q]]

LockedInfo == [locks : SUBSET Holders, bytes : 1..(W - 1)]
Alloc      == [lock : Holders, need : Requests, bytes : 1..(W - 1)]
NoAlloc    == [lock |-> "manager", need |-> 0, bytes |-> 0]
Block      == [dev : Devices, bytes : 1..(W - 1)]

TypeOK ==
    /\ DOMAIN locked_map = Devices
    /\ \A d \in Devices : IsMap(locked_map[d], Ptrs, LockedInfo)
    /\ DOMAIN free_map = Devices
    /\ \A d \in Devices : IsMap(free_map[d], Ptrs, 1..(W - 1))
    /\ total_bytes \in [Devices -> 0..(W - 1)]
    /\ total_buffers \in [Devices -> 0..(W - 1)]
    /\ lock_bytes \in [Devices -> 0..(W - 1)]
    /\ lock_buffers \in [Devices -> 0..(W - 1)]
    /\ mem_step_size \in StepSizes
    /\ active \in [Threads -> Devices]
    /\ pc \in [Threads -> {"idle", "count", "collect", "moving", "free",
                           "release", "lookup", "native", "retry", "register"}]
    /\ resume \in [Threads -> {"idle", "lookup", "retry"}]
    /\ request \in [Threads -> Alloc \cup {NoAlloc}]
    /\ new_ptr \in [Threads -> Ptrs \cup {NoPtr}]
    /\ free_ptrs \in [Threads -> SUBSET Ptrs]
    /\ IsMap(heap, Ptrs, Block)
    /\ held \in [Ptrs -> SUBSET Holders]
    /\ home \in [Ptrs -> Devices]

Init ==
    /\ locked_map = [d \in Devices |-> EmptyMap]
    /\ free_map = [d \in Devices |-> EmptyMap]
    /\ total_bytes = [d \in Devices |-> 0]
    /\ total_buffers = [d \in Devices |-> 0]
    /\ lock_bytes = [d \in Devices |-> 0]
    /\ lock_buffers = [d \in Devices |-> 0]
    /\ mem_step_size \in StepSizes
    /\ \E d \in Devices : /\ active = [t \in Threads |-> d]
                          /\ home = [p \in Ptrs |-> d]
    /\ pc = [t \in Threads |-> "idle"]
    /\ resume = [t \in Threads |-> "idle"]
    /\ request = [t \in Threads |-> NoAlloc]
    /\ new_ptr = [t \in Threads |-> NoPtr]
    /\ free_ptrs = [t \in Threads |-> {}]
    /\ heap = EmptyMap
    /\ held = [p \in Ptrs |-> {}]

-----------------------------------------------------------------------------
(* Garbage collection: cleanDeviceMemoryManager of the active device.      *)

\* memory_mutex is held across actions only by a thread in this loop.
MutexFree == \A u \in Threads : pc[u] # "moving"

\* The critical section begins.  It is left at once in debug mode and when the
\* counters say that every buffer is locked.
CleanDeviceMemoryManager(t) ==
    LET d == active[t]
        skip == DebugMode \/ total_buffers[d] = lock_buffers[d]
    IN
    /\ pc[t] = "collect"
    /\ MutexFree
    /\ pc' = [pc EXCEPT ![t] = IF skip \/ DOMAIN free_map[d] = {}
                               THEN resume[t] ELSE "moving"]
    /\ UNCHANGED <<manager, mem_step_size, active, resume, request, new_ptr,
                   free_ptrs, heap, client>>

MovedBuffers_PerSize(d, p) ==
    IF \E q \in DOMAIN free_map[d] \ {p} : free_map[d][q] = free_map[d][p]
    THEN 0 ELSE 1

\* What total_buffers loses for one address: all of its size class are counted.
MovedBuffers(d, p) == 1

\* The loop of the critical section, an address at a time: the whole pool of
\* the device moves to the local vector free_ptrs and leaves the totals.  The
\* mutex is released after the last one.
MoveToFreePtrs(t) ==
    LET d == active[t]
    IN
    /\ pc[t] = "moving"
    /\ \E p \in DOMAIN free_map[d] :
          /\ free_ptrs' = [free_ptrs EXCEPT ![t] = @ \cup {p}]
          /\ free_map' = [free_map EXCEPT ![d] = Erase(@, p)]
          /\ total_bytes' = [total_bytes EXCEPT
                 ![d] = SizeSub(@, free_map[d][p])]
          /\ total_buffers' = [total_buffers EXCEPT
                 ![d] = SizeSub(@, MovedBuffers(d, p))]
          /\ pc' = IF DOMAIN free_map[d] = {p} THEN [pc EXCEPT ![t] = "free"]
                                               ELSE pc
    /\ UNCHANGED <<locked_map, lock_bytes, lock_buffers, mem_step_size, active,
                   resume, request, new_ptr, heap, client>>

\* nativeFree of one address, outside the lock: an address of the vector of
\* a collection ("free"), or the one unlock gives back ("release").  After
\* the last one the call goes on.
NativeFree(t) ==
    \E p \in free_ptrs[t] :
        /\ pc[t] \in {"free", "release"}
        /\ heap' = Erase(heap, p)
        /\ free_ptrs' = [free_ptrs EXCEPT ![t] = @ \ {p}]
        /\ pc' = IF free_ptrs[t] = {p} THEN [pc EXCEPT ![t] = resume[t]]
                                       ELSE pc
        /\ UNCHANGED <<manager, mem_step_size, active, resume, request,
                       new_ptr, client>>

\* nativeFree throws in the loop of a collection: the exception leaves
\* cleanDeviceMemoryManager, and the vector, with what it still holds, dies.
\* (In unlock the same exception would leave a deleter: std::terminate.)
NativeFreeThrows(t) ==
    /\ FreeMayFail
    /\ pc[t] = "free"
    /\ free_ptrs' = [free_ptrs EXCEPT ![t] = {}]
    /\ pc' = [pc EXCEPT ![t] = "idle"]
    /\ request' = [request EXCEPT ![t] = NoAlloc]
    /\ UNCHANGED <<manager, mem_step_size, active, resume, new_ptr, heap,
                   client>>

\* af_device_gc, shutdown and removeMemoryManagement: a collection and
\* nothing else.
SignalMemoryCleanup(t) ==
    /\ pc[t] = "idle"
    /\ pc' = [pc EXCEPT ![t] = "collect"]
    /\ resume' = [resume EXCEPT ![t] = "idle"]
    /\ UNCHANGED <<manager, mem_step_size, active, request, new_ptr,
                   free_ptrs, heap, client>>

-----------------------------------------------------------------------------
(* alloc                                                                   *)

\* alloc up to its first unlocked read: the size class is computed, and
\* lock_bytes compared with max_bytes.
AllocBegin(t, lock, need) ==
    LET bytes == AllocBytes(need, mem_step_size)
        full  == lock_bytes[active[t]] >= MaxBytes[active[t]]
    IN
    /\ pc[t] = "idle"
    /\ request' = [request EXCEPT
           ![t] = [lock |-> lock, need |-> need, bytes |-> bytes]]
    /\ pc' = [pc EXCEPT ![t] = IF DebugMode THEN "native"
                               ELSE IF full THEN "collect" ELSE "count"]
    /\ resume' = [resume EXCEPT ![t] = "lookup"]
    /\ UNCHANGED <<manager, mem_step_size, active, new_ptr, free_ptrs, heap,
                   client>>

\* The second unlocked read: total_buffers against max_buffers.
AllocCountCheck(t) ==
    /\ pc[t] = "count"
    /\ pc' = [pc EXCEPT ![t] = IF total_buffers[active[t]] >= MaxBuffers
                               THEN "collect" ELSE "lookup"]
    /\ UNCHANGED <<manager, mem_step_size, active, resume, request, new_ptr,
                   free_ptrs, heap, client>>

\* The caller receives p: an Array or a raw pointer on device d holds it.
HandOut(t, p) ==
    /\ held' = [held EXCEPT ![p] = {request[t].lock}]
    /\ home' = [home EXCEPT ![p] = active[t]]
    /\ request' = [request EXCEPT ![t] = NoAlloc]
    /\ pc' = [pc EXCEPT ![t] = "idle"]

LockBuffer_AskedBytes(t, p) ==
    LET d == active[t]
    IN
    /\ locked_map' = [locked_map EXCEPT
           ![d] = Put(@, p, [locks |-> {request[t].lock},
                             bytes |-> request[t].bytes])]
    /\ lock_bytes' = [lock_bytes EXCEPT ![d] = SizeAdd(@, request[t].need)]
    /\ lock_buffers' = [lock_buffers EXCEPT ![d] = SizeAdd(@, 1)]

\* The info of a new buffer goes into locked_map, and is counted.
LockBuffer(t, p) ==
    LET d == active[t]
    IN
    /\ locked_map' = [locked_map EXCEPT
           ![d] = Put(@, p, [locks |-> {request[t].lock},
                             bytes |-> request[t].bytes])]
    /\ lock_bytes' = [lock_bytes EXCEPT ![d] = SizeAdd(@, request[t].bytes)]
    /\ lock_buffers' = [lock_buffers EXCEPT ![d] = SizeAdd(@, 1)]

Matches_Smaller(d, p, bytes) == free_map[d][p] <= bytes
Matches(d, p, bytes) == free_map[d][p] = bytes

PopFree_Kept(d, p) == free_map[d]
PopFree(d, p) == Erase(free_map[d], p)

\* Critical section of alloc: a pooled buffer of exactly this size is reused.
AllocReuse(t) ==
    LET d == active[t]
    IN
    /\ pc[t] = "lookup"
    /\ MutexFree
    /\ \E p \in DOMAIN free_map[d] :
          /\ Matches(d, p, request[t].bytes)
          /\ free_map' = [free_map EXCEPT ![d] = PopFree(d, p)]
          /\ LockBuffer(t, p)
          /\ HandOut(t, p)
    /\ UNCHANGED <<total_bytes, total_buffers, mem_step_size, active, resume,
                   new_ptr, free_ptrs, heap>>

AllocMiss_NoAlloc(t) ==
    /\ pc[t] = "lookup"
    /\ MutexFree
    /\ pc' = [pc EXCEPT ![t] = "register"]
    /\ UNCHANGED <<manager, mem_step_size, active, resume, request, new_ptr,
                   free_ptrs, heap, client>>

\* The same critical section when the pool has no buffer of this size.
AllocMiss(t) ==
    /\ pc[t] = "lookup"
    /\ MutexFree
    /\ \A p \in DOMAIN free_map[active[t]] :
          ~ Matches(active[t], p, request[t].bytes)
    /\ pc' = [pc EXCEPT ![t] = "native"]
    /\ UNCHANGED <<manager, mem_step_size, active, resume, request, new_ptr,
                   free_ptrs, heap, client>>

\* The native allocator (external): memory in use on a device.
OnDevice(d) == {p \in DOMAIN heap : heap[p].dev = d}
HeapBytes(d) == SumFunctionOnSet([p \in DOMAIN heap |-> heap[p].bytes],
                                 OnDevice(d))
Fits(d, bytes) == HeapBytes(d) + bytes <= Capacity[d]

\* nativeAlloc succeeds, at the first or at the second attempt.
NativeAlloc(t) ==
    /\ pc[t] \in {"native", "retry"}
    /\ Fits(active[t], request[t].bytes)
    /\ \E p \in Ptrs \ DOMAIN heap :
          /\ new_ptr' = [new_ptr EXCEPT ![t] = p]
          /\ heap' = Put(heap, p, [dev |-> active[t],
                                   bytes |-> request[t].bytes])
    /\ pc' = [pc EXCEPT ![t] = "register"]
    /\ UNCHANGED <<manager, mem_step_size, active, resume, request,
                   free_ptrs, client>>

NativeAllocNoMem_NoCollection(t) ==
    /\ pc[t] = "native"
    /\ ~ Fits(active[t], request[t].bytes)
    /\ pc' = [pc EXCEPT ![t] = "retry"]
    /\ UNCHANGED <<manager, mem_step_size, active, resume, request, new_ptr,
                   free_ptrs, heap, client>>

\* nativeAlloc reports AF_ERR_NO_MEM for the first time: collect and retry.
NativeAllocNoMem(t) ==
    /\ pc[t] = "native"
    /\ ~ Fits(active[t], request[t].bytes)
    /\ pc' = [pc EXCEPT ![t] = "collect"]
    /\ resume' = [resume EXCEPT ![t] = "retry"]
    /\ UNCHANGED <<manager, mem_step_size, active, request, new_ptr,
                   free_ptrs, heap, client>>

OutOfMemory_TryAgain(t) ==
    /\ pc[t] = "retry"
    /\ ~ Fits(active[t], request[t].bytes)
    /\ pc' = [pc EXCEPT ![t] = "native"]
    /\ UNCHANGED <<manager, mem_step_size, active, resume, request, new_ptr,
                   free_ptrs, heap, client>>

\* AF_ERR_NO_MEM again: the exception reaches the caller of alloc.
OutOfMemory(t) ==
    /\ pc[t] = "retry"
    /\ ~ Fits(active[t], request[t].bytes)
    /\ pc' = [pc EXCEPT ![t] = "idle"]
    /\ request' = [request EXCEPT ![t] = NoAlloc]
    /\ UNCHANGED <<manager, mem_step_size, active, resume, new_ptr,
                   free_ptrs, heap, client>>

\* Any other error of nativeAlloc is thrown on at either attempt.
NativeAllocError(t) ==
    /\ pc[t] \in {"native", "retry"}
    /\ pc' = [pc EXCEPT ![t] = "idle"]
    /\ request' = [request EXCEPT ![t] = NoAlloc]
    /\ UNCHANGED <<manager, mem_step_size, active, resume, new_ptr,
                   free_ptrs, heap, client>>

\* The last critical section of alloc: the new buffer is counted and locked.
AllocRegister(t) ==
    LET d == active[t]
    IN
    /\ pc[t] = "register"
    /\ MutexFree
    /\ total_bytes' = [total_bytes EXCEPT ![d] = SizeAdd(@, request[t].bytes)]
    /\ total_buffers' = [total_buffers EXCEPT ![d] = SizeAdd(@, 1)]
    /\ LockBuffer(t, new_ptr[t])
    /\ HandOut(t, new_ptr[t])
    /\ new_ptr' = [new_ptr EXCEPT ![t] = NoPtr]
    /\ UNCHANGED <<free_map, mem_step_size, active, resume, free_ptrs, heap>>

-----------------------------------------------------------------------------
(* unlock and userLock                                                     *)

UnlockUnknown_Ignored(t, d, p) ==
    /\ p \notin DOMAIN locked_map[d]
    /\ UNCHANGED <<manager, free_ptrs, pc>>

\* unlock does not find the address on the device: "Probably came from user,
\* just free it".
UnlockUnknown(t, d, p) ==
    /\ p \notin DOMAIN locked_map[d]
    /\ free_ptrs' = [free_ptrs EXCEPT ![t] = {p}]
    /\ pc' = [pc EXCEPT ![t] = "release"]
    /\ UNCHANGED manager

Remaining_UserWins(d, p, who) ==
    IF who = "user" THEN {} ELSE locked_map[d][p].locks \ {who}

\* The locks that remain once `who` has given up its own.
Remaining(d, p, who) == locked_map[d][p].locks \ {who}

\* unlock clears one of the two locks and the other one remains.
UnlockShared(d, p, who) ==
    /\ p \in DOMAIN locked_map[d]
    /\ Remaining(d, p, who) # {}
    /\ locked_map' = [locked_map EXCEPT ![d] =
           Put(@, p, [@[p] EXCEPT !.locks = Remaining(d, p, who)])]
    /\ UNCHANGED <<free_map, total_bytes, total_buffers, lock_bytes,
                   lock_buffers, pc, free_ptrs>>

\* A buffer leaves the manager for good.
Discount(d, bytes) ==
    /\ total_buffers' = [total_buffers EXCEPT ![d] = SizeSub(@, 1)]
    /\ total_bytes' = [total_bytes EXCEPT ![d] = SizeSub(@, bytes)]

PushFree_Lost(d, p, bytes) == free_map[d]
PushFree(d, p, bytes) == Put(free_map[d], p, bytes)

\* unlock clears the last lock: the buffer goes to the pool, or, in debug
\* mode, to nativeFree.
UnlockLast(t, d, p, who) ==
    LET bytes == locked_map[d][p].bytes
    IN
    /\ p \in DOMAIN locked_map[d]
    /\ Remaining(d, p, who) = {}
    /\ lock_bytes' = [lock_bytes EXCEPT ![d] = SizeSub(@, bytes)]
    /\ lock_buffers' = [lock_buffers EXCEPT ![d] = SizeSub(@, 1)]
    /\ locked_map' = [locked_map EXCEPT ![d] = Erase(@, p)]
    /\ IF DebugMode
       THEN /\ free_ptrs' = [free_ptrs EXCEPT ![t] = {p}]
            /\ pc' = [pc EXCEPT ![t] = "release"]
            /\ Discount(d, bytes)
            /\ UNCHANGED free_map
       ELSE /\ free_map' = [free_map EXCEPT ![d] = PushFree(d, p, bytes)]
            /\ UNCHANGED <<free_ptrs, pc, total_buffers, total_bytes>>

Unlock(t, d, p, who) ==
    /\ pc[t] = "idle"
    /\ MutexFree
    /\ resume' = [resume EXCEPT ![t] = "idle"]
    /\ \/ UnlockUnknown(t, d, p)
       \/ UnlockShared(d, p, who)
       \/ UnlockLast(t, d, p, who)
    /\ held' = [held EXCEPT ![p] = @ \ {who}]
    /\ UNCHANGED <<mem_step_size, active, request, new_ptr, heap, home>>

MemFree_ActiveDevice(t, p) ==
    /\ "manager" \in held[p]
    /\ Unlock(t, active[t], p, "manager")

\* The last Array on a buffer dies: releaseHandle makes the array's device
\* the active one around memFree.
MemFree(t, p) ==
    /\ "manager" \in held[p]
    /\ Unlock(t, home[p], p, "manager")

\* af_unlock_array (an array is needed) and af_free_device (the raw pointer
\* is enough) act on the active device of the caller.
MemFreeUser(t, p) ==
    /\ \/ held[p] # {} /\ p \in DOMAIN locked_map[active[t]]
       \/ ForeignLocks /\ "manager" \in held[p]
       \/ StrayFrees /\ "user" \in held[p]
    /\ Unlock(t, active[t], p, "user")

UserLock_Missed(t, p) ==
    /\ pc[t] = "idle"
    /\ MutexFree
    /\ "manager" \in held[p]
    /\ p \in DOMAIN locked_map[active[t]]
    /\ held' = [held EXCEPT ![p] = @ \cup {"user"}]
    /\ UNCHANGED <<manager, mem_step_size, active, local, heap, home>>

\* The entry of an address with its user_lock set; an unknown address gets an
\* entry of its own, which no counter counts.
UserLocked(d, p) ==
    IF p \in DOMAIN locked_map[d]
    THEN [locked_map[d][p] EXCEPT !.locks = @ \cup {"user"}]
    ELSE [locks |-> {"user"}, bytes |-> ForeignBytes]

\* af_lock_array and af_get_device_ptr, on the active device of the caller.
UserLock(t, p) ==
    LET d == active[t]
    IN
    /\ pc[t] = "idle"
    /\ MutexFree
    /\ "manager" \in held[p]
    /\ p \in DOMAIN locked_map[d] \/ ForeignLocks
    /\ locked_map' = [locked_map EXCEPT ![d] = Put(@, p, UserLocked(d, p))]
    /\ held' = [held EXCEPT ![p] = @ \cup {"user"}]
    /\ UNCHANGED <<free_map, total_bytes, total_buffers, lock_bytes,
                   lock_buffers, mem_step_size, active, local, heap, home>>

-----------------------------------------------------------------------------
(* The environment of the manager.                                         *)

\* af_device_array: an array takes ownership of memory its caller got from
\* the native allocator without the manager.
WrapUserMemory(t, p, bytes) ==
    /\ UserMemory
    /\ pc[t] = "idle"
    /\ p \notin DOMAIN heap
    /\ Fits(active[t], bytes)
    /\ heap' = Put(heap, p, [dev |-> active[t], bytes |-> bytes])
    /\ held' = [held EXCEPT ![p] = {"manager"}]
    /\ home' = [home EXCEPT ![p] = active[t]]
    /\ UNCHANGED <<manager, mem_step_size, active, local>>

\* af_device_array of a pointer from af_alloc_device: the array takes over the
\* user's hold on the buffer; the manager is not told.
AdoptPointer(t, p) ==
    /\ AdoptManaged
    /\ pc[t] = "idle"
    /\ held[p] = {"user"}
    /\ held' = [held EXCEPT ![p] = {"manager"}]
    /\ home' = [home EXCEPT ![p] = active[t]]
    /\ UNCHANGED <<manager, mem_step_size, active, local, heap>>

SetDevice(t, d) ==
    /\ pc[t] = "idle"
    /\ active' = [active EXCEPT ![t] = d]
    /\ UNCHANGED <<manager, mem_step_size, local, heap, client>>

SetMemStepSize(t, s) ==
    /\ pc[t] = "idle"
    /\ MutexFree
    /\ mem_step_size' = s
    /\ UNCHANGED <<manager, active, local, heap, client>>

-----------------------------------------------------------------------------
\* The steps of a call already begun.
Progress(t) ==
    \/ CleanDeviceMemoryManager(t)
    \/ MoveToFreePtrs(t)
    \/ NativeFree(t)
    \/ NativeFreeThrows(t)
    \/ AllocCountCheck(t)
    \/ AllocReuse(t)
    \/ AllocMiss(t)
    \/ NativeAlloc(t)
    \/ NativeAllocNoMem(t)
    \/ OutOfMemory(t)
    \/ NativeAllocError(t)
    \/ AllocRegister(t)

\* The calls a thread may begin.
Call(t) ==
    \/ SignalMemoryCleanup(t)
    \/ \E lock \in Holders, need \in Requests : AllocBegin(t, lock, need)
    \/ \E p \in Ptrs : MemFree(t, p)
    \/ \E p \in Ptrs : MemFreeUser(t, p)
    \/ \E p \in Ptrs : UserLock(t, p)
    \/ \E p \in Ptrs, bytes \in Requests : WrapUserMemory(t, p, bytes)
    \/ \E p \in Ptrs : AdoptPointer(t, p)
    \/ \E d \in Devices : SetDevice(t, d)
    \/ \E s \in StepSizes : SetMemStepSize(t, s)

Next == \E t \in Threads : Progress(t) \/ Call(t)

Spec == Init /\ [][Next]_vars

\* A thread inside a call of the library keeps running; no thread has to
\* begin another call.
FairSpec == Spec /\ \A t \in Threads : WF_vars(Progress(t))

-----------------------------------------------------------------------------
(* Properties.                                                             *)

Locked(d) == DOMAIN locked_map[d]
Pooled(d) == DOMAIN free_map[d]
Wrapped   == {p \in Ptrs : held[p] # {} /\ p \notin Locked(home[p])}

\* A buffer that an array or the user of its raw pointer still holds is live
\* memory of the native allocator, on the device of its holder: neither a
\* collection, nor an unlock, nor any interleaving of the two gives it back
\* ("Locked buffers are not freed by memory manager until af_unlock_array is
\* called").
NoUseAfterFree ==
    \A p \in Ptrs : held[p] # {} =>
        p \in DOMAIN heap /\ heap[p].dev = home[p]

\* A buffer in use is in use once: it is not in a pool, from where alloc would
\* hand it out again, not on its way to nativeFree in any thread, and not in
\* the locked_map of a second device.
NoAliasing ==
    \A p \in Ptrs : held[p] # {} =>
        /\ \A d \in Devices : p \notin Pooled(d)
        /\ \A d \in Devices \ {home[p]} : p \notin Locked(d)
        /\ \A t \in Threads : p \notin free_ptrs[t] /\ p # new_ptr[t]

\* Every live block has exactly one owner, so nothing leaks and nothing is
\* freed twice: a locked_map, a pool, the vector of a collection, the local
\* variable of an alloc that has not registered it, or an array around the
\* user's own memory.
Owners(p) ==
    {<<"locked", d>> : d \in {d \in Devices : p \in Locked(d)}}
    \cup {<<"pooled", d>> : d \in {d \in Devices : p \in Pooled(d)}}
    \cup {<<"freeing", t>> : t \in {t \in Threads : p \in free_ptrs[t]}}
    \cup {<<"new", t>> : t \in {t \in Threads : p = new_ptr[t]}}
    \cup {<<"wrapped", p>> : q \in {q \in Wrapped : q = p}}

OneOwner ==
    \A p \in Ptrs : Cardinality(Owners(p)) = IF p \in DOMAIN heap THEN 1
                                                               ELSE 0

\* The two locks of a buffer are what its holders believe: no lock outlives
\* its holder (the buffer would never return to the pool), and none is missing.
LocksAreHeld ==
    \A d \in Devices : \A p \in Locked(d) :
        locked_map[d][p].locks = held[p] /\ home[p] = d

\* The counters are what af_device_mem_info says of them, although a buffer
\* changes state in several critical sections of several threads: lock_buffers
\* counts the buffers in use, total_buffers those in use or pooled.
BufferCounters ==
    \A d \in Devices :
        /\ lock_buffers[d] = Cardinality(Locked(d))
        /\ total_buffers[d] = Cardinality(Locked(d) \cup Pooled(d))

\* ... and lock_bytes and total_bytes are their sizes.
ByteCounters ==
    \A d \in Devices :
        LET in_use == SumFunction([p \in Locked(d) |-> locked_map[d][p].bytes])
        IN /\ lock_bytes[d] = in_use
           /\ total_bytes[d] = in_use + SumFunction(free_map[d])

\* What alloc promises when it returns: "a pointer of size at least" the
\* request, on the device of the caller, that nobody else holds, whatever
\* happened between its unlocked reads and its critical sections.
AllocPromise ==
    [][\A t \in Threads, p \in Ptrs :
           /\ pc[t] \in {"lookup", "register"}
           /\ pc'[t] = "idle"
           /\ held'[p] # held[p]
           => /\ held[p] = {}
              /\ heap[p].bytes >= request[t].need
              /\ heap[p].dev = active[t]]_vars

\* AF_ERR_NO_MEM is passed on only after everything that could be freed was:
\* the critical section between the first failure of nativeAlloc and the second
\* attempt leaves nothing of the device in the pool, also when it is cut short
\* because the counters say that there is nothing to collect.  (Another thread
\* may return a buffer later, before the second attempt.)
OutOfMemoryIsReal ==
    [][\A t \in Threads :
           /\ pc[t] \in {"native", "collect", "moving"}
           /\ pc'[t] = "retry" \/ (pc'[t] = "free" /\ resume[t] = "retry")
           => Pooled(active[t])' = {}]_vars

\* Once no thread begins another call, every call under way returns: each
\* collection drains, an allocation retries once, and no thread waits for ever
\* for the mutex.  (While others keep calling, a thread may lose every race
\* for memory_mutex: std::mutex promises no fairness.)
NoNewCalls == [][\A t \in Threads : pc[t] = "idle" => pc'[t] = "idle"]_vars
CallsReturn == <>NoNewCalls => <>[](\A t \in Threads : pc[t] = "idle")

-----------------------------------------------------------------------------
(* The inductive invariant behind the properties (MemoryManager_proofs).   *)

\* The callers that stay within what the manager can follow: they lock only
\* buffers it handed out, free them under their device, do not wrap them; and
\* nativeFree does not throw.
Disciplined == ~ (ForeignLocks \/ StrayFrees \/ AdoptManaged \/ FreeMayFail)

\* What a thread carries through its call.
CallInv ==
    \A t \in Threads :
        /\ pc[t] \in {"count", "lookup", "native", "retry", "register"}
              => request[t] \in Alloc
        /\ pc[t] # "idle" /\ resume[t] # "idle" => request[t] \in Alloc
        /\ request[t].bytes >= request[t].need
        /\ new_ptr[t] # NoPtr <=> pc[t] = "register"
        /\ free_ptrs[t] # {} => pc[t] \in {"moving", "free", "release"}

\* A locked buffer is held by exactly the holders of its locks.
LockedInv ==
    \A d \in Devices : \A p \in Locked(d) :
        /\ held[p] # {} /\ held[p] = locked_map[d][p].locks
        /\ home[p] = d
        /\ heap[p].bytes = locked_map[d][p].bytes

\* A held buffer is live on the device of its holder, and locked there or an
\* array's own.
HeldInv ==
    \A p \in Ptrs : held[p] # {} =>
        /\ p \in DOMAIN heap /\ heap[p].dev = home[p]
        /\ p \in Locked(home[p]) \/ held[p] = {"manager"}

\* A pooled buffer is live, on its device, and nobody's.
PooledInv ==
    \A d \in Devices : \A p \in Pooled(d) :
        /\ held[p] = {}
        /\ p \in DOMAIN heap
        /\ heap[p].dev = d /\ heap[p].bytes = free_map[d][p]
        /\ \A t \in Threads : p \notin free_ptrs[t] /\ p # new_ptr[t]

\* So is one that a thread is about to free ...
FreeingInv ==
    \A t \in Threads : \A p \in free_ptrs[t] :
        /\ held[p] = {}
        /\ p \in DOMAIN heap
        /\ \A u \in Threads : p # new_ptr[u] /\ (u # t => p \notin free_ptrs[u])

\* ... or about to register.
NewInv ==
    \A t \in Threads : new_ptr[t] # NoPtr =>
        /\ held[new_ptr[t]] = {}
        /\ new_ptr[t] \in DOMAIN heap
        /\ heap[new_ptr[t]].dev = active[t]
        /\ heap[new_ptr[t]].bytes = request[t].bytes
        /\ \A u \in Threads : u # t => new_ptr[u] # new_ptr[t]

\* And there is no other live buffer.
NoLeakInv ==
    \A p \in DOMAIN heap :
        \/ held[p] # {}
        \/ \E d \in Devices : p \in Pooled(d)
        \/ \E t \in Threads : p \in free_ptrs[t] \/ p = new_ptr[t]

OwnershipInv == /\ LockedInv
                /\ HeldInv
                /\ PooledInv
                /\ FreeingInv
                /\ NewInv
                /\ NoLeakInv

-----------------------------------------------------------------------------
(* The manager implements BufferPool.                                      *)

PhaseOf(p) ==
    IF \E t \in Threads : p = new_ptr[t] THEN "fresh"
    ELSE IF \E t \in Threads : p \in free_ptrs[t] THEN "doomed"
    ELSE IF \E d \in Devices : p \in Pooled(d) THEN "cached"
    ELSE IF p \in DOMAIN heap THEN "used"
    ELSE "absent"

Pool == INSTANCE BufferPool WITH
            phase   <- [p \in Ptrs |-> PhaseOf(p)],
            holders <- held

\* Every behaviour of the manager and its callers is a behaviour of BufferPool
\* when a buffer's phase is read off the manager's maps and the threads' local
\* variables: hand-outs, unlocks and collections of all threads together give
\* each buffer one life and never two.
ImplementsBufferPool == Pool!PoolSpec

=============================================================================
