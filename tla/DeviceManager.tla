----------------------------- MODULE DeviceManager -----------------------------
(***************************************************************************)
(* The pool of devices of the OpenCL backend, to which a program adds      *)
(* contexts of its own, the memory manager behind it, which a program      *)
(* replaces while arrays live on, and arrays that are made on one device,  *)
(* used on another and released under a third.                             *)
(*                                                                         *)
(* A device is known by its index in the pool; threads, arrays and the     *)
(* memory manager keep such indices.  A device and its context are one     *)
(* thing here.  The inside of alloc and unlock is MemoryManager's matter:  *)
(* here they are atomic, but for the native allocation.                    *)
(***************************************************************************)
EXTENDS Integers, Sequences, SequencesExt, FiniteSets

CONSTANTS
    Threads, Handles, Buffers,
    Internal,     \* the devices found at start, a sequence of contexts
    UserContexts, \* those a program adds
    None,
    MaxFlags,     \* bound: devices found at start and added since
    Careful,      \* the program keeps to Alone, Removable, Replaceable, Usable
    ReusesListed  \* the driver reuses an address the manager still lists

ASSUME DeviceAssumption ==
    /\ Internal \in Seq(ToSet(Internal)) \ {<<>>} /\ IsInjective(Internal)
    /\ ToSet(Internal) \cap UserContexts = {}
    /\ None \notin ToSet(Internal) \cup UserContexts \cup Buffers
    /\ {Careful, ReusesListed} \subseteq BOOLEAN

VARIABLES
    pool,    \* mDevices, mContexts, mQueues, mPlatforms
    flags,   \* mDeviceTypes, mBaseBuildFlags: whose they are
    active,  \* thread -> tlocalActiveDeviceId
    manager, \* memManager: [custom, memory], memory of locked and free buffers
    heap,    \* buffer -> the context it was created in, or None
    arr,     \* handle -> [buf, dev, ctx]; ctx, where it was made, is history
    call     \* thread -> the call in progress

vars == <<pool, flags, active, manager, heap, arr, call>>

mUserDeviceOffset == Len(Internal)

getDeviceCount == Len(pool)

Contexts == ToSet(Internal) \cup UserContexts
NoArray == [buf |-> None, dev |-> 0, ctx |-> None]
Idle == [op |-> "idle"]
Live(h) == arr[h] # NoArray

NoMemory == [locked |-> {}, free |-> {}]
DefaultManager(n) == [custom |-> FALSE, memory |-> [i \in 1 .. n |-> NoMemory]]
\* A manager of the program, as in test/memory.cpp: one table for all devices,
\* and no buffer is used a second time.
CustomManager == [custom |-> TRUE, memory |-> <<NoMemory>>]

\* The entry of memory for device dev; devices are counted from 0.
Slot(dev) == IF manager.custom THEN 1 ELSE dev + 1
Context(t) == pool[active[t] + 1]
Listed == UNION {manager.memory[i].locked : i \in 1 .. Len(manager.memory)}
Unused == {b \in Buffers :
              /\ heap[b] = None
              /\ \A t \in Threads : call[t] # Idle => call[t].buf # b
              /\ ReusesListed \/ b \notin Listed}

\* nativeFree
Free(bufs) == [b \in Buffers |-> IF b \in bufs THEN None ELSE heap[b]]

\* cleanDeviceMemoryManager: what is pooled in entry i goes.
Collect(i) ==
    /\ manager' = [manager EXCEPT !.memory[i].free = {}]
    /\ heap' = Free(manager.memory[i].free)

-----------------------------------------------------------------------------
(***************************************************************************)
(* What a careful program does not do: add a context or replace the        *)
(* manager while other threads are in a call, which indexes the vectors    *)
(* that grow and uses the manager that is destroyed; remove a device when  *)
(* another thread works with it or with one behind it, when arrays live    *)
(* there, or when buffers are pooled behind it; leave arrays or pooled     *)
(* buffers behind for a manager that does not know them.                   *)
(***************************************************************************)
Alone(t) == \A u \in Threads \ {t} : call[u] = Idle
Removable(t, i) ==
    /\ \A u \in Threads \ {t} : active[u] < i /\ call[u].op \notin {"remove", "erase"}
    /\ \A h \in Handles : Live(h) => arr[h].dev < i
    /\ ~ manager.custom => \A j \in i + 2 .. Len(manager.memory) : manager.memory[j].free = {}
Replaceable(custom) ==
    /\ manager.custom => manager.memory[1].free = {}
    /\ custom => \A h \in Handles : ~ Live(h)

Begins(t) ==
    /\ call[t] = Idle
    /\ Careful => \A u \in Threads \ {t} : call[u].op \notin {"add", "replace"}
Usable(t, dev) ==
    Careful => \A u \in Threads \ {t} : call[u].op \in {"remove", "erase"} => dev < call[u].idx

-----------------------------------------------------------------------------
(***************************************************************************)
(* Devices                                                                 *)
(***************************************************************************)
\* af_set_device; an index out of range is refused.
SetDevice(t, dev) ==
    /\ Begins(t) /\ Usable(t, dev)
    /\ dev < Len(pool)
    /\ active' = [active EXCEPT ![t] = dev]
    /\ UNCHANGED <<pool, flags, manager, heap, arr, call>>

\* afcl::setDevice
SetDeviceContext(t, c) ==
    /\ Begins(t) /\ c \in ToSet(pool)
    /\ LET dev == (CHOOSE i \in 1 .. Len(pool) : pool[i] = c) - 1
       IN Usable(t, dev) /\ active' = [active EXCEPT ![t] = dev]
    /\ UNCHANGED <<pool, flags, manager, heap, arr, call>>

\* addDeviceContext, under deviceMutex; the device can be seen from here on.
AddDeviceContext(t, c) ==
    /\ Begins(t) /\ (Careful => Alone(t))
    /\ c \notin ToSet(pool) /\ Len(flags) < MaxFlags
    /\ pool' = Append(pool, c)
    /\ flags' = Append(flags, c)
    /\ call' = [call EXCEPT ![t] = [op |-> "add", idx |-> Len(pool), buf |-> None]]
    /\ UNCHANGED <<active, manager, heap, arr>>

\* The new length of memory
Resized_Short(n, dev) == IF dev < n THEN n ELSE dev
Resized(n, dev) == IF dev < n THEN n ELSE n + dev + 1

AddMemoryManagement(t) ==
    /\ call[t].op = "add"
    /\ manager' = [manager EXCEPT !.memory =
          IF manager.custom THEN @
          ELSE [i \in 1 .. Resized(Len(@), call[t].idx) |-> IF i <= Len(@) THEN @[i] ELSE NoMemory]]
    /\ call' = [call EXCEPT ![t] = Idle]
    /\ UNCHANGED <<pool, flags, active, heap, arr>>

\* removeDeviceContext: the look-up, under deviceMutex
RemoveDeviceContext(t, c) ==
    /\ Begins(t) /\ c # Context(t)
    /\ \E i \in mUserDeviceOffset .. Len(pool) - 1 :
          /\ pool[i + 1] = c /\ \A j \in mUserDeviceOffset .. i - 1 : pool[j + 1] # c
          /\ Careful => Removable(t, i)
          /\ call' = [call EXCEPT ![t] = [op |-> "remove", idx |-> i, buf |-> None]]
    /\ UNCHANGED <<pool, flags, active, manager, heap, arr>>

\* Outside the mutex: the buffers the manager has pooled for the device go, its
\* entry stays.  The manager of a program does nothing here.
RemovedSlot_FromOne(idx) == idx
RemovedSlot(idx) == idx + 1

RemoveMemoryManagement(t) ==
    /\ call[t].op = "remove"
    /\ IF manager.custom THEN UNCHANGED <<manager, heap>>
       ELSE Collect(RemovedSlot(call[t].idx))
    /\ call' = [call EXCEPT ![t].op = "erase"]
    /\ UNCHANGED <<pool, flags, active, arr>>

\* Under deviceMutex again: the devices behind move up, and the index of the
\* calling thread with them.  mDeviceTypes and mBaseBuildFlags stay.
EraseDevice(t) ==
    /\ call[t].op = "erase"
    /\ LET i == call[t].idx IN
       /\ pool' = RemoveAt(pool, i + 1)
       /\ active' = [active EXCEPT ![t] = IF i < @ THEN @ - 1 ELSE @]
    /\ call' = [call EXCEPT ![t] = Idle]
    /\ UNCHANGED <<flags, manager, heap, arr>>

-----------------------------------------------------------------------------
(***************************************************************************)
(* Arrays                                                                  *)
(***************************************************************************)
Lock(dev, b) ==
    [manager EXCEPT !.memory[Slot(dev)] = [locked |-> @.locked \cup {b}, free |-> @.free \ {b}]]

\* The default manager frees an address it does not know, that of the program
\* ignores it.
IgnoresUnknown_Always(m) == TRUE
IgnoresUnknown(m) == m.custom

\* unlock, under the device that is active then
Unlock(m, H, dev, b) ==
    LET i == IF m.custom THEN 1 ELSE dev + 1
        known == b \in m.memory[i].locked
    IN [manager |-> IF known THEN [m EXCEPT !.memory[i] = [locked |-> @.locked \ {b}, free |-> @.free \cup {b}]]
                    ELSE m,
        heap |-> IF known \/ IgnoresUnknown(m) THEN H ELSE [H EXCEPT ![b] = None]]

NewArray(t, b) == [buf |-> b, dev |-> active[t], ctx |-> Context(t)]

\* A thread asks for a buffer: for a new array, or because it uses one that
\* its device cannot access, which checkAndMigrate then moves.
NeedsBuffer(t, h) ==
    /\ Begins(t)
    /\ \A u \in Threads : call[u].op = "alloc" => call[u].handle # h
    /\ Live(h) => pool[arr[h].dev + 1] # Context(t)

\* The array takes the buffer and drops its old one, under the active device.
TakeBuffer(t, h, b, H) ==
    LET m == Lock(active[t], b)
        old == arr[h].buf
        u == Unlock(m, H, active[t], old)
    IN /\ arr' = [arr EXCEPT ![h] = NewArray(t, b)]
       /\ manager' = IF old = None THEN m ELSE u.manager
       /\ heap' = IF old = None THEN H ELSE u.heap

\* memAlloc, in the default manager, finds a pooled buffer ...
AllocReuse(t, h) ==
    /\ NeedsBuffer(t, h) /\ ~ manager.custom
    /\ \E b \in manager.memory[Slot(active[t])].free : TakeBuffer(t, h, b, heap)
    /\ UNCHANGED <<pool, flags, active, call>>

\* ... or has to create one.
AllocMiss(t, h) ==
    /\ NeedsBuffer(t, h)
    /\ manager.custom \/ manager.memory[Slot(active[t])].free = {}
    /\ \E b \in Unused : call' = [call EXCEPT ![t] = [op |-> "alloc", handle |-> h, buf |-> b]]
    /\ UNCHANGED <<pool, flags, active, manager, heap, arr>>

\* nativeAlloc creates it in the context the active device has now.
NativeAlloc(t) ==
    /\ call[t].op = "alloc"
    /\ LET b == call[t].buf IN TakeBuffer(t, call[t].handle, b, [heap EXCEPT ![b] = Context(t)])
    /\ call' = [call EXCEPT ![t] = Idle]
    /\ UNCHANGED <<pool, flags, active>>

\* releaseHandle: setDevice(array_id), which does nothing for a device that is
\* gone, the release, and setDevice(old_device)
ReleaseDevice(t, dev) == IF dev < Len(pool) THEN dev ELSE active[t]

Release(t, h) ==
    /\ Begins(t) /\ Live(h)
    /\ \A u \in Threads : call[u].op = "alloc" => call[u].handle # h
    /\ LET u == Unlock(manager, heap, ReleaseDevice(t, arr[h].dev), arr[h].buf)
       IN manager' = u.manager /\ heap' = u.heap
    /\ arr' = [arr EXCEPT ![h] = NoArray]
    /\ UNCHANGED <<pool, flags, active, call>>

\* af_device_gc, on the active device
DeviceGC(t) ==
    /\ Begins(t)
    /\ Collect(Slot(active[t]))
    /\ UNCHANGED <<pool, flags, active, arr, call>>

-----------------------------------------------------------------------------
(***************************************************************************)
(* The memory manager                                                      *)
(***************************************************************************)
\* af_set_memory_manager and af_unset_memory_manager
SetMemoryManager(t, custom) ==
    /\ Begins(t) /\ (Careful => Alone(t) /\ Replaceable(custom))
    /\ \A u \in Threads : call[u].op # "replace"
    /\ call' = [call EXCEPT ![t] = [op |-> "replace", idx |-> 0, custom |-> custom, buf |-> None]]
    /\ UNCHANGED <<pool, flags, active, manager, heap, arr>>

\* Allocator::shutdown makes every device active in turn and shuts the old
\* manager down there; that of the program does nothing.  The last device stays
\* active.
ShutdownDevice(t) ==
    /\ call[t].op = "replace" /\ call[t].idx < getDeviceCount
    /\ LET dev == call[t].idx IN
       /\ active' = [active EXCEPT ![t] = dev]
       /\ IF manager.custom THEN UNCHANGED <<manager, heap>>
          ELSE Collect(dev + 1)
    /\ call' = [call EXCEPT ![t].idx = @ + 1]
    /\ UNCHANGED <<pool, flags, arr>>

\* The new manager takes over; the old one is destroyed with its lists.
InstallManager(t) ==
    /\ call[t].op = "replace" /\ call[t].idx = getDeviceCount
    /\ manager' = IF call[t].custom THEN CustomManager ELSE DefaultManager(getDeviceCount)
    /\ call' = [call EXCEPT ![t] = Idle]
    /\ UNCHANGED <<pool, flags, active, heap, arr>>

-----------------------------------------------------------------------------
Init ==
    /\ pool = Internal /\ flags = Internal
    /\ active = [t \in Threads |-> 0]
    /\ manager = DefaultManager(Len(Internal))
    /\ heap = [b \in Buffers |-> None]
    /\ arr = [h \in Handles |-> NoArray]
    /\ call = [t \in Threads |-> Idle]

Next ==
    \E t \in Threads :
        \/ \E dev \in 0 .. Len(pool) - 1 : SetDevice(t, dev)
        \/ \E c \in UserContexts : AddDeviceContext(t, c) \/ RemoveDeviceContext(t, c)
        \/ \E c \in Contexts : SetDeviceContext(t, c)
        \/ AddMemoryManagement(t) \/ RemoveMemoryManagement(t) \/ EraseDevice(t)
        \/ \E h \in Handles : AllocReuse(t, h) \/ AllocMiss(t, h) \/ Release(t, h)
        \/ NativeAlloc(t) \/ DeviceGC(t)
        \/ \E custom \in BOOLEAN : SetMemoryManager(t, custom)
        \/ ShutdownDevice(t) \/ InstallManager(t)

Spec == Init /\ [][Next]_vars

-----------------------------------------------------------------------------
(***************************************************************************)
(* Properties                                                              *)
(***************************************************************************)
\* However the pool shrinks and grows under them, the device of a thread and
\* those of its arrays are in the pool, and the default manager has an entry
\* for each.
Covered(dev) == dev < Len(pool) /\ Slot(dev) <= Len(manager.memory)
IndicesInRange ==
    /\ \A t \in Threads : Covered(active[t])
    /\ \A h \in Handles : Live(h) => Covered(arr[h].dev)

\* An array's buffer is its own, alive, and of the context of the array's
\* device, which is the one it was made on: whoever pooled the buffer before,
\* under whichever manager, and whichever device had the index then.
OwnContext ==
    \A h \in Handles : Live(h) =>
        /\ heap[arr[h].buf] = arr[h].ctx
        /\ pool[arr[h].dev + 1] = arr[h].ctx
        /\ \A g \in Handles \ {h} : arr[g].buf # arr[h].buf

\* A buffer of the native allocator is held by an array, or pooled for a device
\* that is in the pool: none is left with a device that is gone, or with a
\* manager that has been replaced.
NothingLost ==
    \A b \in Buffers : heap[b] # None =>
        \/ \E h \in Handles : arr[h].buf = b
        \/ \E i \in 1 .. Len(manager.memory) :
              /\ b \in manager.memory[i].free
              /\ \/ manager.custom \/ i <= Len(pool)
                 \/ \E t \in Threads : call[t].op \in {"remove", "erase"}
=============================================================================
