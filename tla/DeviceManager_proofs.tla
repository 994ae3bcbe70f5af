------------------------- MODULE DeviceManager_proofs -------------------------
(***************************************************************************)
(* The properties of DeviceManager for any number of threads, arrays,      *)
(* buffers and contexts, and any interleaving of their calls, if the       *)
(* program is careful.                                                     *)
(*                                                                         *)
(* The first invariant follows the calls that change the pool: while one   *)
(* of them is under way, every index in use is below the one it adds or    *)
(* removes, but for that of the thread itself; and the manager has an      *)
(* entry for every device, except for one that is being added.  The second *)
(* one, after it, follows the buffers.                                     *)
(***************************************************************************)
EXTENDS DeviceManager, TLAPS

Entries == [locked : SUBSET Buffers, free : SUBSET Buffers]
Managers == [custom : BOOLEAN, memory : Seq(Entries)]
Arrays == {NoArray} \cup [buf : Buffers, dev : Nat, ctx : Contexts]
Calls ==
    {Idle}
    \cup [op : {"add", "remove", "erase"}, idx : Nat, buf : {None}]
    \cup [op : {"alloc"}, handle : Handles, buf : Buffers]
    \cup [op : {"replace"}, idx : Nat, custom : BOOLEAN, buf : {None}]

TypeInv ==
    /\ pool \in Seq(Contexts)
    /\ active \in [Threads -> Nat]
    /\ manager \in Managers
    /\ arr \in [Handles -> Arrays]
    /\ call \in [Threads -> Calls]

\* Every device in use comes before n, but for that of thread t.
ArraysBelow(n) == \A h \in Handles : Live(h) => arr[h].dev < n
AllBelow(n) == ArraysBelow(n) /\ \A t \in Threads : active[t] < n
OthersBelow(t, n) == ArraysBelow(n) /\ \A u \in Threads \ {t} : active[u] < n

\* The manager has an entry for each of n devices.
Serves(n) == IF manager.custom THEN Len(manager.memory) = 1 ELSE n <= Len(manager.memory)

AddInv(t) == call[t].op = "add" =>
    /\ Alone(t) /\ call[t].idx + 1 = Len(pool)
    /\ AllBelow(call[t].idx) /\ Serves(call[t].idx)
ReplaceInv(t) == call[t].op = "replace" => Alone(t) /\ call[t].idx <= Len(pool)
RemoveInv(t) == call[t].op \in {"remove", "erase"} =>
    /\ call[t].idx < Len(pool) /\ active[t] # call[t].idx
    /\ OthersBelow(t, call[t].idx)
    /\ \A u \in Threads \ {t} : call[u].op \in {"idle", "alloc"}

IndexInv ==
    /\ AllBelow(Len(pool))
    /\ (\A t \in Threads : call[t].op # "add") => Serves(Len(pool))
    /\ \A t \in Threads : AddInv(t) /\ ReplaceInv(t) /\ RemoveInv(t)

Inv == TypeInv /\ IndexInv

-----------------------------------------------------------------------------
(***************************************************************************)
(* The manager's tables keep their length in every step of a buffer.       *)
(***************************************************************************)
SameTables(m, n) ==
    m \in Managers /\ m.custom = n.custom /\ Len(m.memory) = Len(n.memory)

LEMMA ChangedEntry ==
    ASSUME NEW m \in Managers, NEW i \in 1 .. Len(m.memory), NEW e \in Entries
    PROVE  SameTables([m EXCEPT !.memory[i] = e], m)
<1>1. /\ m.memory \in Seq(Entries)
      /\ [m EXCEPT !.memory[i] = e] = [m EXCEPT !.memory = [m.memory EXCEPT ![i] = e]]
  BY DEF Managers
<1>2. [m.memory EXCEPT ![i] = e] \in Seq(Entries) /\ Len([m.memory EXCEPT ![i] = e]) = Len(m.memory)
  BY <1>1
<1> QED BY <1>1, <1>2 DEF SameTables, Managers

LEMMA LockTables ==
    ASSUME manager \in Managers, NEW dev \in Nat, NEW b \in Buffers, Slot(dev) \in 1 .. Len(manager.memory)
    PROVE  SameTables(Lock(dev, b), manager)
<1> DEFINE i == Slot(dev)
           e == [locked |-> manager.memory[i].locked \cup {b}, free |-> manager.memory[i].free \ {b}]
<1>1. manager.memory[i] \in Entries
  BY DEF Managers
<1>2. e \in Entries
  BY <1>1 DEF Entries
<1>3. Lock(dev, b) = [manager EXCEPT !.memory[i] = e]
  BY DEF Lock, Managers
<1> QED BY <1>2, <1>3, ChangedEntry, ZenonT(30)

LEMMA UnlockTables ==
    ASSUME NEW m \in Managers, NEW H, NEW dev \in Nat, NEW b \in Buffers,
           (IF m.custom THEN 1 ELSE dev + 1) \in 1 .. Len(m.memory)
    PROVE  SameTables(Unlock(m, H, dev, b).manager, m)
<1> DEFINE i == IF m.custom THEN 1 ELSE dev + 1
           e == [locked |-> m.memory[i].locked \ {b}, free |-> m.memory[i].free \cup {b}]
<1>1. m.memory[i] \in Entries
  BY DEF Managers
<1>2. e \in Entries
  BY <1>1 DEF Entries
<1>3. Unlock(m, H, dev, b).manager = IF b \in m.memory[i].locked THEN [m EXCEPT !.memory[i] = e] ELSE m
  BY DEF Unlock, Managers
<1>4. SameTables(m, m)
  BY DEF SameTables
<1> QED BY <1>2, <1>3, <1>4, ChangedEntry

LEMMA EmptiedEntry ==
    ASSUME NEW r \in Entries
    PROVE  [r EXCEPT !.free = {}] \in Entries
BY DEF Entries

LEMMA CollectTables ==
    ASSUME manager \in Managers, NEW i \in 1 .. Len(manager.memory), Collect(i)
    PROVE  SameTables(manager', manager)
<1> DEFINE e == [manager.memory[i] EXCEPT !.free = {}]
<1>1. manager.memory[i] \in Entries
  BY DEF Managers
<1>2. e \in Entries
  BY <1>1, EmptiedEntry
<1>3. manager' = [manager EXCEPT !.memory[i] = e]
  BY Zenon DEF Collect
<1> HIDE DEF e
<1> QED BY <1>2, <1>3, ChangedEntry

-----------------------------------------------------------------------------
(***************************************************************************)
(* Steps that leave the pool alone.                                        *)
(***************************************************************************)
\* What a thread does that neither adds nor removes nor replaces anything,
\* while nobody adds or replaces.
QuietStep(t) ==
    /\ pool' = pool /\ SameTables(manager', manager)
    /\ \A u \in Threads : call[u].op \notin {"add", "replace"}
    /\ {call[t].op, call'[t].op} \subseteq {"idle", "alloc"}
    /\ \A u \in Threads \ {t} : call'[u] = call[u] /\ active'[u] = active[u]
    /\ active'[t] < Len(pool)
    /\ \A u \in Threads \ {t} : call[u].op \in {"remove", "erase"} => active'[t] < call[u].idx
    /\ \A h \in Handles : Live(h)' => arr'[h].dev \in {arr[h].dev, active[t]} /\ (Live(h) \/ arr'[h].dev = active[t])

\* Such a step keeps every index where it has to be.
LEMMA Quiet ==
    ASSUME Inv, TypeInv', NEW t \in Threads, QuietStep(t)
    PROVE  IndexInv'
<1>1. /\ pool' = pool /\ Len(pool) \in Nat
      /\ active \in [Threads -> Nat] /\ active' \in [Threads -> Nat]
  BY DEF QuietStep, Inv, TypeInv
<1>2. ASSUME NEW h \in Handles, Live(h)'
      PROVE  arr'[h].dev = active[t] \/ (Live(h) /\ arr'[h].dev = arr[h].dev)
  BY <1>2 DEF QuietStep
<1>3. AllBelow(Len(pool))'
  <2>1. \A u \in Threads : active'[u] < Len(pool)
    BY DEF QuietStep, Inv, IndexInv, AllBelow
  <2>2. \A h \in Handles : Live(h)' => arr'[h].dev < Len(pool)
    BY <1>2 DEF Inv, IndexInv, AllBelow, ArraysBelow
  <2> QED BY <1>1, <2>1, <2>2 DEF AllBelow, ArraysBelow
<1>4. Serves(Len(pool))'
  BY <1>1 DEF QuietStep, SameTables, Inv, IndexInv, Serves
<1>5. \A u \in Threads : call'[u].op \notin {"add", "replace"}
  BY DEF QuietStep
<1>6. ASSUME NEW u \in Threads, call'[u].op \in {"remove", "erase"}
      PROVE  RemoveInv(u)'
  <2>1. u # t /\ call'[u] = call[u] /\ active'[u] = active[u]
    BY <1>6 DEF QuietStep
  <2>2. /\ call[u].idx < Len(pool) /\ active[u] # call[u].idx /\ OthersBelow(u, call[u].idx)
        /\ \A v \in Threads \ {u} : call[v].op \in {"idle", "alloc"}
    BY <1>6, <2>1 DEF Inv, IndexInv, RemoveInv
  <2>3. \A v \in Threads \ {u} : active'[v] < call[u].idx /\ call'[v].op \in {"idle", "alloc"}
    BY <1>6, <2>1, <2>2 DEF QuietStep, OthersBelow
  <2>4. \A h \in Handles : Live(h)' => arr'[h].dev < call[u].idx
    BY <1>2, <2>1, <2>2 DEF OthersBelow, ArraysBelow
  <2> QED BY <1>1, <2>1, <2>2, <2>3, <2>4 DEF RemoveInv, OthersBelow, ArraysBelow
<1> QED BY <1>3, <1>4, <1>5, <1>6 DEF IndexInv, AddInv, ReplaceInv, RemoveInv

\* A call that begins finds nobody adding or replacing.
LEMMA Begun ==
    ASSUME Careful, Inv, NEW t \in Threads, Begins(t)
    PROVE  /\ call[t].op = "idle"
           /\ \A u \in Threads : call[u].op \notin {"add", "replace"}
BY DEF Begins, Idle

\* The device of a thread without such a call of its own is in the pool and
\* has an entry, and is before any that is being removed.
LEMMA ActiveCovered ==
    ASSUME Inv, NEW t \in Threads, call[t].op \in {"idle", "alloc"},
           \A u \in Threads : call[u].op \notin {"add", "replace"}
    PROVE  /\ active[t] \in Nat /\ active[t] < Len(pool)
           /\ Slot(active[t]) \in 1 .. Len(manager.memory)
           /\ pool[active[t] + 1] \in Contexts
           /\ \A u \in Threads \ {t} : call[u].op \in {"remove", "erase"} => active[t] < call[u].idx
<1>1. /\ active[t] \in Nat /\ active[t] < Len(pool)
      /\ pool \in Seq(Contexts) /\ Len(pool) \in Nat
      /\ manager.memory \in Seq(Entries) /\ Len(manager.memory) \in Nat
  BY DEF Inv, TypeInv, IndexInv, AllBelow, Managers
<1>2. Slot(active[t]) \in 1 .. Len(manager.memory)
  <2>1. Serves(Len(pool))
    BY DEF Inv, IndexInv
  <2>2. CASE manager.custom
    <3>1. Len(manager.memory) = 1 /\ Slot(active[t]) = 1
      BY <2>1, <2>2 DEF Serves, Slot
    <3> QED BY <3>1
  <2>3. CASE ~ manager.custom
    <3>1. Len(pool) <= Len(manager.memory) /\ Slot(active[t]) = active[t] + 1
      BY <2>1, <2>3 DEF Serves, Slot
    <3> QED BY <1>1, <3>1
  <2> QED BY <2>2, <2>3
<1>3. \A u \in Threads \ {t} : call[u].op \in {"remove", "erase"} => active[t] < call[u].idx
  BY DEF Inv, IndexInv, RemoveInv, OthersBelow
<1>4. active[t] + 1 \in 1 .. Len(pool)
  BY <1>1
<1> QED BY <1>1, <1>2, <1>3, <1>4
-----------------------------------------------------------------------------
(***************************************************************************)
(* The quiet actions.                                                      *)
(***************************************************************************)
LEMMA SameTablesSelf == ASSUME TypeInv PROVE SameTables(manager, manager)
BY DEF TypeInv, SameTables

\* Both ways of choosing a device check it against the pool.
LEMMA SetDeviceSafe ==
    ASSUME Careful, Inv, NEW t \in Threads, Begins(t),
           NEW dev \in Nat, Usable(t, dev), dev < Len(pool),
           active' = [active EXCEPT ![t] = dev],
           UNCHANGED <<pool, manager, arr, call>>
    PROVE  Inv'
<1>1. TypeInv'
  BY DEF Inv, TypeInv
<1>2. QuietStep(t)
  <2>1. active'[t] = dev /\ \A u \in Threads \ {t} : active'[u] = active[u]
    BY DEF Inv, TypeInv
  <2>2. \A h \in Handles : Live(h)' => Live(h) /\ arr'[h].dev = arr[h].dev
    BY DEF Live
  <2>3. SameTables(manager', manager)
    BY SameTablesSelf DEF Inv
  <2> QED BY <2>1, <2>2, <2>3, Begun DEF QuietStep, Usable
<1> QED BY <1>1, <1>2, Quiet DEF Inv

\* An array that takes a buffer lies on the device of its thread from then on.
LEMMA TakeBufferSafe ==
    ASSUME Inv, NEW t \in Threads, NEW h \in Handles, NEW b \in Buffers, NEW H,
           TakeBuffer(t, h, b, H),
           call[t].op \in {"idle", "alloc"}, call' \in [Threads -> Calls],
           call'[t].op \in {"idle", "alloc"},
           \A u \in Threads \ {t} : call'[u] = call[u],
           \A u \in Threads : call[u].op \notin {"add", "replace"},
           UNCHANGED <<pool, active>>
    PROVE  Inv'
<1> DEFINE m == Lock(active[t], b)
           old == arr[h].buf
<1>1. /\ active[t] \in Nat /\ active[t] < Len(pool)
      /\ Slot(active[t]) \in 1 .. Len(manager.memory)
      /\ pool[active[t] + 1] \in Contexts
      /\ \A u \in Threads \ {t} : call[u].op \in {"remove", "erase"} => active[t] < call[u].idx
  BY ActiveCovered
<1>2. manager \in Managers /\ arr \in [Handles -> Arrays]
  BY DEF Inv, TypeInv
<1>3. SameTables(m, manager)
  BY <1>1, <1>2, LockTables
<1>4. old = None \/ old \in Buffers
  BY <1>2 DEF Arrays, NoArray
<1>5. SameTables(manager', manager)
  <2>1. CASE old = None
    BY <1>3, <2>1 DEF TakeBuffer
  <2>2. CASE old # None
    <3>1. manager' = Unlock(m, H, active[t], old).manager
      BY <2>2 DEF TakeBuffer
    <3>2. m \in Managers /\ m.custom = manager.custom /\ Len(m.memory) = Len(manager.memory)
      BY <1>3 DEF SameTables
    <3>3. (IF m.custom THEN 1 ELSE active[t] + 1) \in 1 .. Len(m.memory)
      BY <1>1, <3>2 DEF Slot
    <3> HIDE DEF m, old
    <3>4. SameTables(Unlock(m, H, active[t], old).manager, m)
      BY <1>1, <1>4, <2>2, <3>2, <3>3, UnlockTables
    <3> QED BY <3>1, <3>2, <3>4 DEF SameTables
  <2> QED BY <2>1, <2>2
<1>6. NewArray(t, b) \in Arrays /\ NewArray(t, b).dev = active[t]
  BY <1>1 DEF NewArray, Context, Arrays
<1>7. arr' = [arr EXCEPT ![h] = NewArray(t, b)]
  BY DEF TakeBuffer
<1>8. TypeInv'
  BY <1>2, <1>5, <1>6, <1>7 DEF Inv, TypeInv, SameTables
<1>9. \A g \in Handles : g # h => arr'[g] = arr[g]
  BY <1>2, <1>7
<1>10. arr'[h].dev = active[t]
  BY <1>2, <1>6, <1>7
<1>11. \A g \in Handles : Live(g)' => arr'[g].dev \in {arr[g].dev, active[t]} /\ (Live(g) \/ arr'[g].dev = active[t])
  BY <1>9, <1>10 DEF Live
<1>12. QuietStep(t)
  BY <1>1, <1>5, <1>11 DEF QuietStep
<1> QED BY <1>8, <1>12, Quiet DEF Inv

LEMMA AllocReuseSafe ==
    ASSUME Careful, Inv, NEW t \in Threads, NEW h \in Handles, AllocReuse(t, h)
    PROVE  Inv'
<1>1. call[t].op = "idle" /\ \A u \in Threads : call[u].op \notin {"add", "replace"}
  BY Begun DEF AllocReuse, NeedsBuffer
<1>2. PICK b \in manager.memory[Slot(active[t])].free : TakeBuffer(t, h, b, heap)
  BY DEF AllocReuse
<1>3. Slot(active[t]) \in 1 .. Len(manager.memory)
  BY <1>1, ActiveCovered
<1>4. b \in Buffers
  <2>1. manager.memory \in Seq(Entries)
    BY DEF Inv, TypeInv, Managers
  <2>2. manager.memory[Slot(active[t])] \in Entries
    BY <1>3, <2>1
  <2> QED BY <1>2, <2>2 DEF Entries
<1>5. UNCHANGED <<pool, active, call>> /\ call' \in [Threads -> Calls]
  BY DEF AllocReuse, Inv, TypeInv
<1> QED BY <1>1, <1>2, <1>4, <1>5, TakeBufferSafe

LEMMA AllocMissSafe ==
    ASSUME Careful, Inv, NEW t \in Threads, NEW h \in Handles, AllocMiss(t, h)
    PROVE  Inv'
<1>1. call[t].op = "idle" /\ \A u \in Threads : call[u].op \notin {"add", "replace"}
  BY Begun DEF AllocMiss, NeedsBuffer
<1>2. PICK b \in Buffers : call' = [call EXCEPT ![t] = [op |-> "alloc", handle |-> h, buf |-> b]]
  BY DEF AllocMiss, Unused
<1>3. /\ UNCHANGED <<pool, active, manager, arr>>
      /\ call \in [Threads -> Calls] /\ SameTables(manager', manager)
  BY SameTablesSelf DEF AllocMiss, Inv, TypeInv
<1>4. [op |-> "alloc", handle |-> h, buf |-> b] \in Calls
  BY DEF Calls
<1>5. TypeInv'
  BY <1>2, <1>3, <1>4 DEF Inv, TypeInv
<1>6. call'[t].op = "alloc" /\ \A u \in Threads \ {t} : call'[u] = call[u]
  BY <1>2, <1>3
<1>7. \A g \in Handles : Live(g)' => Live(g) /\ arr'[g].dev = arr[g].dev
  BY <1>3 DEF Live
<1>8. QuietStep(t)
  BY <1>1, <1>3, <1>6, <1>7, ActiveCovered DEF QuietStep
<1> QED BY <1>5, <1>8, Quiet DEF Inv

\* A thread in nativeAlloc keeps every careful thread from adding or replacing.
LEMMA NativeAllocSafe ==
    ASSUME Inv, NEW t \in Threads, NativeAlloc(t)
    PROVE  Inv'
<1>1. call[t].op = "alloc" /\ call[t] \in Calls
  BY DEF NativeAlloc, Inv, TypeInv
<1>2. call[t].handle \in Handles /\ call[t].buf \in Buffers
  BY <1>1 DEF Calls, Idle
<1>3. \A u \in Threads : call[u].op \notin {"add", "replace"}
  <2> SUFFICES ASSUME NEW u \in Threads, call[u].op \in {"add", "replace"} PROVE FALSE
    OBVIOUS
  <2>1. u # t /\ Alone(u)
    BY <1>1 DEF Inv, IndexInv, AddInv, ReplaceInv
  <2> QED BY <1>1, <2>1 DEF Alone, Idle
<1>4. /\ TakeBuffer(t, call[t].handle, call[t].buf, [heap EXCEPT ![call[t].buf] = Context(t)])
      /\ call' = [call EXCEPT ![t] = Idle] /\ UNCHANGED <<pool, active>>
  BY DEF NativeAlloc
<1>5. call' \in [Threads -> Calls] /\ call'[t].op = "idle" /\ \A u \in Threads \ {t} : call'[u] = call[u]
  BY <1>4 DEF Inv, TypeInv, Calls, Idle
<1> QED BY <1>1, <1>2, <1>3, <1>4, <1>5, TakeBufferSafe

LEMMA ReleaseSafe ==
    ASSUME Careful, Inv, NEW t \in Threads, NEW h \in Handles, Release(t, h)
    PROVE  Inv'
<1> DEFINE dev == ReleaseDevice(t, arr[h].dev)
<1>1. call[t].op = "idle" /\ \A u \in Threads : call[u].op \notin {"add", "replace"}
  BY Begun DEF Release
<1>2. /\ arr \in [Handles -> Arrays] /\ manager \in Managers /\ arr[h] # NoArray
      /\ arr[h].dev < Len(pool)
  BY DEF Release, Live, Inv, TypeInv, IndexInv, AllBelow, ArraysBelow
<1>3. arr[h].buf \in Buffers /\ arr[h].dev \in Nat
  BY <1>2 DEF Arrays
<1>4. dev = arr[h].dev
  BY <1>2 DEF ReleaseDevice
<1>5. (IF manager.custom THEN 1 ELSE dev + 1) \in 1 .. Len(manager.memory)
  <2>1. Serves(Len(pool)) /\ Len(pool) \in Nat /\ Len(manager.memory) \in Nat
    BY <1>1 DEF Inv, IndexInv, TypeInv, Managers
  <2>2. CASE manager.custom
    <3>1. Len(manager.memory) = 1
      BY <2>1, <2>2 DEF Serves
    <3> QED BY <2>2, <3>1
  <2>3. CASE ~ manager.custom
    <3>1. Len(pool) <= Len(manager.memory)
      BY <2>1, <2>3 DEF Serves
    <3> QED BY <1>2, <1>3, <1>4, <2>1, <2>3, <3>1
  <2> QED BY <2>2, <2>3
<1>6. /\ manager' = Unlock(manager, heap, dev, arr[h].buf).manager
      /\ arr' = [arr EXCEPT ![h] = NoArray] /\ UNCHANGED <<pool, active, call>>
  BY DEF Release
<1> HIDE DEF dev
<1>7. SameTables(manager', manager)
  BY <1>2, <1>3, <1>4, <1>5, <1>6, UnlockTables
<1>8. TypeInv'
  BY <1>6, <1>7 DEF Inv, TypeInv, SameTables, Arrays
<1>9. \A g \in Handles : Live(g)' => Live(g) /\ arr'[g].dev = arr[g].dev
  BY <1>2, <1>6 DEF Live
<1>10. QuietStep(t)
  BY <1>1, <1>6, <1>7, <1>9, ActiveCovered DEF QuietStep
<1> QED BY <1>8, <1>10, Quiet DEF Inv

LEMMA DeviceGCSafe ==
    ASSUME Careful, Inv, NEW t \in Threads, DeviceGC(t)
    PROVE  Inv'
<1>1. call[t].op = "idle" /\ \A u \in Threads : call[u].op \notin {"add", "replace"}
  BY Begun DEF DeviceGC
<1>2. Slot(active[t]) \in 1 .. Len(manager.memory) /\ manager \in Managers
  BY <1>1, ActiveCovered DEF Inv, TypeInv
<1>3. Collect(Slot(active[t])) /\ UNCHANGED <<pool, active, arr, call>>
  BY DEF DeviceGC
<1>4. SameTables(manager', manager)
  BY <1>2, <1>3, CollectTables
<1>5. TypeInv'
  BY <1>3, <1>4 DEF Inv, TypeInv, SameTables
<1>6. \A g \in Handles : Live(g)' => Live(g) /\ arr'[g].dev = arr[g].dev
  BY <1>3 DEF Live
<1>7. QuietStep(t)
  BY <1>1, <1>3, <1>4, <1>6, ActiveCovered DEF QuietStep
<1> QED BY <1>5, <1>7, Quiet DEF Inv
-----------------------------------------------------------------------------
(***************************************************************************)
(* The actions that change the pool or the manager.                        *)
(***************************************************************************)
\* The new index is the last one, and nobody uses it yet.
LEMMA AddDeviceContextSafe ==
    ASSUME Careful, Inv, NEW t \in Threads, NEW c \in UserContexts, AddDeviceContext(t, c)
    PROVE  Inv'
<1>1. /\ call[t].op = "idle" /\ Alone(t)
      /\ \A u \in Threads : call[u].op \notin {"add", "replace"}
  BY Begun DEF AddDeviceContext
<1>2. /\ pool \in Seq(Contexts) /\ Len(pool) \in Nat /\ c \in Contexts
      /\ call \in [Threads -> Calls]
  BY DEF Inv, TypeInv, Contexts
<1>3. /\ pool' = Append(pool, c) /\ UNCHANGED <<active, manager, arr>>
      /\ call' = [call EXCEPT ![t] = [op |-> "add", idx |-> Len(pool), buf |-> None]]
  BY DEF AddDeviceContext
<1>4. pool' \in Seq(Contexts) /\ Len(pool') = Len(pool) + 1
  BY <1>2, <1>3
<1>5. [op |-> "add", idx |-> Len(pool), buf |-> None] \in Calls
  BY <1>2 DEF Calls
<1>6. TypeInv'
  BY <1>2, <1>3, <1>4, <1>5 DEF Inv, TypeInv
<1>7. /\ call'[t].op = "add" /\ call'[t].idx = Len(pool)
      /\ \A u \in Threads \ {t} : call'[u] = Idle
  BY <1>1, <1>2, <1>3 DEF Alone
<1>8. AllBelow(Len(pool)) /\ Serves(Len(pool))
  BY <1>1 DEF Inv, IndexInv
<1>9. \A h \in Handles : Live(h)' <=> Live(h)
  BY <1>3 DEF Live
<1>10. AddInv(t)'
  BY <1>2, <1>3, <1>4, <1>7, <1>8, <1>9 DEF AddInv, Alone, AllBelow, ArraysBelow, Serves
<1>11. AllBelow(Len(pool))'
  <2>1. \A u \in Threads : active[u] \in Nat /\ active[u] < Len(pool)
    BY <1>8 DEF Inv, TypeInv, AllBelow
  <2>2. \A h \in Handles : Live(h) => arr[h].dev \in Nat /\ arr[h].dev < Len(pool)
    BY <1>8 DEF Inv, TypeInv, AllBelow, ArraysBelow, Arrays, Live
  <2>3. \A u \in Threads : active'[u] < Len(pool')
    BY <1>2, <1>3, <1>4, <2>1
  <2>4. \A h \in Handles : Live(h)' => arr'[h].dev < Len(pool')
    BY <1>2, <1>3, <1>4, <1>9, <2>2
  <2> QED BY <2>3, <2>4 DEF AllBelow, ArraysBelow
<1>12. \A u \in Threads \ {t} : call'[u].op = "idle"
  BY <1>7 DEF Idle
<1> QED BY <1>6, <1>7, <1>10, <1>11, <1>12 DEF Inv, IndexInv, AddInv, ReplaceInv, RemoveInv

\* The manager catches up with the pool: its table grows past the new index.
LEMMA AddMemoryManagementSafe ==
    ASSUME Inv, NEW t \in Threads, AddMemoryManagement(t)
    PROVE  Inv'
<1>1. /\ call[t].op = "add" /\ call[t] \in Calls /\ call \in [Threads -> Calls]
      /\ Alone(t) /\ call[t].idx + 1 = Len(pool) /\ Serves(call[t].idx)
      /\ manager \in Managers
  BY DEF AddMemoryManagement, Inv, TypeInv, IndexInv, AddInv
<1>2. call[t].idx \in Nat
  BY <1>1 DEF Calls, Idle
<1>3. UNCHANGED <<pool, active, arr>> /\ call' = [call EXCEPT ![t] = Idle]
  BY DEF AddMemoryManagement
<1>4. manager' \in Managers /\ Serves(Len(pool))'
  <2>1. manager.memory \in Seq(Entries) /\ Len(manager.memory) \in Nat
    BY <1>1 DEF Managers
  <2>2. CASE manager.custom
    <3>1. manager' = manager
      BY <1>1, <2>2 DEF AddMemoryManagement, Managers
    <3> QED BY <1>1, <2>2, <3>1 DEF Serves
  <2>3. CASE ~ manager.custom
    <3> DEFINE n == Resized(Len(manager.memory), call[t].idx)
               grown == [i \in 1 .. n |-> IF i <= Len(manager.memory) THEN manager.memory[i] ELSE NoMemory]
    <3>1. n \in Nat /\ n >= call[t].idx + 1
      BY <1>2, <2>1 DEF Resized
    <3>2. NoMemory \in Entries
      BY DEF NoMemory, Entries
    <3>3. \A i \in 1 .. n : grown[i] \in Entries
      BY <2>1, <3>1, <3>2
    <3>4. grown \in Seq(Entries) /\ Len(grown) = n
      BY <3>1, <3>3
    <3>5. manager' = [manager EXCEPT !.memory = grown]
      BY <2>3 DEF AddMemoryManagement
    <3> HIDE DEF n, grown
    <3>6. manager' \in Managers /\ manager'.custom = manager.custom /\ Len(manager'.memory) = n
      BY <1>1, <3>4, <3>5 DEF Managers
    <3>7. pool' = pool /\ Len(pool) <= n
      BY <1>1, <1>2, <1>3, <3>1
    <3> QED BY <2>3, <3>6, <3>7 DEF Serves
  <2> QED BY <2>2, <2>3
<1>5. TypeInv'
  BY <1>1, <1>3, <1>4 DEF Inv, TypeInv, Calls
<1>6. \A u \in Threads : call'[u].op = "idle"
  BY <1>1, <1>3 DEF Alone, Idle
<1>7. AllBelow(Len(pool))'
  BY <1>3 DEF Inv, IndexInv, AllBelow, ArraysBelow, Live
<1> QED BY <1>4, <1>5, <1>6, <1>7 DEF Inv, IndexInv, AddInv, ReplaceInv, RemoveInv

\* A careful program removes only what comes after everything in use.
LEMMA RemoveDeviceContextSafe ==
    ASSUME Careful, Inv, NEW t \in Threads, NEW c \in UserContexts, RemoveDeviceContext(t, c)
    PROVE  Inv'
<1>1. /\ call[t].op = "idle"
      /\ \A u \in Threads : call[u].op \notin {"add", "replace"}
  BY Begun DEF RemoveDeviceContext
<1>2. PICK i \in mUserDeviceOffset .. Len(pool) - 1 :
        /\ pool[i + 1] = c /\ Removable(t, i)
        /\ call' = [call EXCEPT ![t] = [op |-> "remove", idx |-> i, buf |-> None]]
  BY DEF RemoveDeviceContext
<1>3. /\ c # pool[active[t] + 1] /\ UNCHANGED <<pool, active, manager, arr>>
      /\ call \in [Threads -> Calls] /\ Len(pool) \in Nat
  BY DEF RemoveDeviceContext, Context, Inv, TypeInv
<1>4. i \in Nat /\ i < Len(pool)
  <2>1. Len(Internal) \in Nat
    BY DeviceAssumption
  <2> QED BY <1>3, <2>1 DEF mUserDeviceOffset
<1>5. [op |-> "remove", idx |-> i, buf |-> None] \in Calls
  BY <1>4 DEF Calls
<1>6. TypeInv'
  BY <1>2, <1>3, <1>5 DEF Inv, TypeInv
<1>7. /\ call'[t].op = "remove" /\ call'[t].idx = i
      /\ \A u \in Threads \ {t} : call'[u] = call[u]
  BY <1>2, <1>3
<1>8. \A u \in Threads \ {t} : active[u] < i /\ call[u].op \in {"idle", "alloc"}
  <2> TAKE u \in Threads \ {t}
  <2>1. call[u] \in Calls /\ call[u].op \notin {"add", "replace", "remove", "erase"} /\ active[u] < i
    BY <1>1, <1>2, <1>3 DEF Removable
  <2> QED BY <2>1 DEF Calls, Idle
<1>9. \A h \in Handles : Live(h)' => arr'[h].dev < i
  BY <1>2, <1>3 DEF Removable, Live
<1>10. active[t] # i
  BY <1>2, <1>3
<1>11. RemoveInv(t)'
  BY <1>3, <1>4, <1>7, <1>8, <1>9, <1>10 DEF RemoveInv, OthersBelow, ArraysBelow
<1>12. \A u \in Threads \ {t} : call'[u].op \in {"idle", "alloc"}
  BY <1>7, <1>8
<1>13. AllBelow(Len(pool))' /\ Serves(Len(pool))'
  BY <1>1, <1>3 DEF Inv, IndexInv, AllBelow, ArraysBelow, Live, Serves
<1> QED BY <1>6, <1>7, <1>11, <1>12, <1>13 DEF Inv, IndexInv, AddInv, ReplaceInv, RemoveInv

\* Emptying the entry of the device changes no index.
LEMMA RemoveMemoryManagementSafe ==
    ASSUME Inv, NEW t \in Threads, RemoveMemoryManagement(t)
    PROVE  Inv'
<1>1. /\ call[t].op = "remove" /\ call[t] \in Calls /\ call \in [Threads -> Calls]
      /\ manager \in Managers /\ Len(pool) \in Nat /\ RemoveInv(t)
  BY DEF RemoveMemoryManagement, Inv, TypeInv, IndexInv
<1>2. call[t].idx \in Nat /\ call[t] = [op |-> "remove", idx |-> call[t].idx, buf |-> None]
  BY <1>1 DEF Calls, Idle
<1>3. /\ call[t].idx < Len(pool) /\ active[t] # call[t].idx /\ OthersBelow(t, call[t].idx)
      /\ \A u \in Threads \ {t} : call[u].op \in {"idle", "alloc"}
  BY <1>1 DEF RemoveInv
<1>4. UNCHANGED <<pool, active, arr>> /\ call' = [call EXCEPT ![t].op = "erase"]
  BY DEF RemoveMemoryManagement
<1>5. \A u \in Threads : call[u].op # "add"
  BY <1>1, <1>3
<1>6. Serves(Len(pool))
  BY <1>5 DEF Inv, IndexInv
<1>7. SameTables(manager', manager)
  <2>1. CASE manager.custom
    BY <2>1, SameTablesSelf DEF RemoveMemoryManagement, Inv
  <2>2. CASE ~ manager.custom
    <3>1. Len(pool) <= Len(manager.memory) /\ Len(manager.memory) \in Nat
      BY <1>1, <1>6, <2>2 DEF Serves, Managers
    <3>2. RemovedSlot(call[t].idx) \in 1 .. Len(manager.memory)
      BY <1>1, <1>2, <1>3, <3>1 DEF RemovedSlot
    <3>3. Collect(RemovedSlot(call[t].idx))
      BY <2>2 DEF RemoveMemoryManagement
    <3> QED BY <1>1, <3>2, <3>3, CollectTables
  <2> QED BY <2>1, <2>2
<1>8. call'[t] = [op |-> "erase", idx |-> call[t].idx, buf |-> None] /\ \A u \in Threads \ {t} : call'[u] = call[u]
  BY <1>1, <1>2, <1>4
<1>9. call' \in [Threads -> Calls]
  <2>1. call'[t] \in Calls
    BY <1>2, <1>8 DEF Calls
  <2> QED BY <1>1, <1>4, <2>1
<1>10. TypeInv'
  BY <1>4, <1>7, <1>9 DEF Inv, TypeInv, SameTables
<1>11. call'[t].op = "erase" /\ call'[t].idx = call[t].idx
  BY <1>8
<1>12. RemoveInv(t)'
  BY <1>3, <1>4, <1>8, <1>11 DEF RemoveInv, OthersBelow, ArraysBelow, Live
<1>13. AllBelow(Len(pool))'
  BY <1>4 DEF Inv, IndexInv, AllBelow, ArraysBelow, Live
<1>14. Serves(Len(pool))'
  BY <1>4, <1>6, <1>7 DEF SameTables, Serves
<1>15. \A u \in Threads \ {t} : call'[u].op \in {"idle", "alloc"}
  BY <1>3, <1>8
<1> QED BY <1>10, <1>11, <1>12, <1>13, <1>14, <1>15 DEF Inv, IndexInv, AddInv, ReplaceInv, RemoveInv

\* Removing an element shortens the sequence by it.
LEMMA Removed ==
    ASSUME NEW S, NEW s \in Seq(S), NEW i \in 1 .. Len(s)
    PROVE  RemoveAt(s, i) \in Seq(S) /\ Len(RemoveAt(s, i)) = Len(s) - 1
<1> DEFINE a == SubSeq(s, 1, i - 1)
           b == SubSeq(s, i + 1, Len(s))
<1>1. Len(s) \in Nat /\ i \in Nat
  OBVIOUS
<1>2. a \in Seq(S) /\ Len(a) = i - 1
  BY <1>1
<1>3. b \in Seq(S) /\ Len(b) = Len(s) - i
  BY <1>1
<1>4. RemoveAt(s, i) = a \o b
  BY DEF RemoveAt
<1> HIDE DEF a, b
<1>5. a \o b \in Seq(S) /\ Len(a \o b) = Len(a) + Len(b)
  BY <1>2, <1>3, SMTT(30)
<1> QED BY <1>1, <1>2, <1>3, <1>4, <1>5

\* The indices before the device keep their meaning, and the calling thread's
\* moves up with its device.
LEMMA EraseDeviceSafe ==
    ASSUME Inv, NEW t \in Threads, EraseDevice(t)
    PROVE  Inv'
<1> DEFINE i == call[t].idx
<1>1. /\ call[t].op = "erase" /\ call[t] \in Calls /\ call \in [Threads -> Calls]
      /\ pool \in Seq(Contexts) /\ Len(pool) \in Nat /\ active \in [Threads -> Nat]
      /\ manager \in Managers /\ RemoveInv(t) /\ AllBelow(Len(pool))
  BY DEF EraseDevice, Inv, TypeInv, IndexInv
<1>2. i \in Nat
  BY <1>1 DEF Calls, Idle
<1>3. /\ i < Len(pool) /\ active[t] # i /\ OthersBelow(t, i)
      /\ \A u \in Threads \ {t} : call[u].op \in {"idle", "alloc"}
  BY <1>1 DEF RemoveInv
<1>4. /\ pool' = RemoveAt(pool, i + 1) /\ active' = [active EXCEPT ![t] = IF i < @ THEN @ - 1 ELSE @]
      /\ call' = [call EXCEPT ![t] = Idle] /\ UNCHANGED <<manager, arr>>
  BY DEF EraseDevice
<1> HIDE DEF i
<1>5. pool' \in Seq(Contexts) /\ Len(pool') = Len(pool) - 1
  <2>1. i + 1 \in 1 .. Len(pool)
    BY <1>1, <1>2, <1>3
  <2> QED BY <1>1, <1>4, <2>1, Removed
<1>6. /\ active[t] \in Nat /\ active[t] < Len(pool)
      /\ active'[t] = IF i < active[t] THEN active[t] - 1 ELSE active[t]
      /\ \A u \in Threads \ {t} : active'[u] = active[u]
  BY <1>1, <1>4 DEF AllBelow
<1>7. active'[t] \in Nat /\ active'[t] < Len(pool')
  BY <1>1, <1>2, <1>3, <1>5, <1>6
<1>8. active' \in [Threads -> Nat]
  BY <1>1, <1>4, <1>7
<1>9. call' \in [Threads -> Calls] /\ call'[t].op = "idle" /\ \A u \in Threads \ {t} : call'[u] = call[u]
  BY <1>1, <1>4 DEF Calls, Idle
<1>10. TypeInv'
  BY <1>4, <1>5, <1>8, <1>9 DEF Inv, TypeInv
<1>11. AllBelow(Len(pool))'
  <2>1. \A u \in Threads : active'[u] < Len(pool')
    <3> TAKE u \in Threads
    <3>1. CASE u = t
      BY <1>7, <3>1
    <3>2. CASE u # t
      <4>1. active'[u] = active[u] /\ active[u] \in Nat /\ active[u] < i
        BY <1>1, <1>3, <1>6, <3>2 DEF OthersBelow
      <4> QED BY <1>1, <1>2, <1>3, <1>5, <4>1
    <3> QED BY <3>1, <3>2
  <2>2. ASSUME NEW h \in Handles, Live(h)' PROVE arr'[h].dev < Len(pool')
    <3>1. arr'[h] = arr[h] /\ Live(h) /\ arr[h] \in Arrays
      BY <1>4, <2>2 DEF Live, Inv, TypeInv
    <3>2. arr[h].dev \in Nat /\ arr[h].dev < i
      BY <1>3, <3>1 DEF OthersBelow, ArraysBelow, Arrays, Live
    <3> QED BY <1>1, <1>2, <1>3, <1>5, <3>1, <3>2
  <2> QED BY <2>1, <2>2 DEF AllBelow, ArraysBelow
<1>12. Serves(Len(pool))'
  <2>1. \A u \in Threads : call[u].op # "add"
    BY <1>1, <1>3
  <2>2. Serves(Len(pool))
    BY <2>1 DEF Inv, IndexInv
  <2>3. Len(manager.memory) \in Nat
    BY <1>1 DEF Managers
  <2> QED BY <1>1, <1>4, <1>5, <2>2, <2>3 DEF Serves
<1>13. \A u \in Threads : call'[u].op \in {"idle", "alloc"}
  BY <1>3, <1>9
<1> QED BY <1>10, <1>11, <1>12, <1>13 DEF Inv, IndexInv, AddInv, ReplaceInv, RemoveInv

LEMMA SetMemoryManagerSafe ==
    ASSUME Careful, Inv, NEW t \in Threads, NEW custom \in BOOLEAN, SetMemoryManager(t, custom)
    PROVE  Inv'
<1>1. /\ call[t].op = "idle" /\ Alone(t)
      /\ \A u \in Threads : call[u].op \notin {"add", "replace"}
  BY Begun DEF SetMemoryManager
<1>2. /\ call \in [Threads -> Calls] /\ Len(pool) \in Nat /\ UNCHANGED <<pool, active, manager, arr>>
      /\ call' = [call EXCEPT ![t] = [op |-> "replace", idx |-> 0, custom |-> custom, buf |-> None]]
  BY DEF SetMemoryManager, Inv, TypeInv
<1>3. [op |-> "replace", idx |-> 0, custom |-> custom, buf |-> None] \in Calls
  BY DEF Calls
<1>4. TypeInv'
  BY <1>2, <1>3 DEF Inv, TypeInv
<1>5. /\ call'[t].op = "replace" /\ call'[t].idx = 0
      /\ \A u \in Threads \ {t} : call'[u] = Idle
  BY <1>1, <1>2 DEF Alone
<1>6. \A u \in Threads \ {t} : call'[u].op = "idle"
  BY <1>5 DEF Idle
<1>7. ReplaceInv(t)'
  BY <1>2, <1>5 DEF ReplaceInv, Alone
<1>8. AllBelow(Len(pool))' /\ Serves(Len(pool))'
  BY <1>1, <1>2 DEF Inv, IndexInv, AllBelow, ArraysBelow, Live, Serves
<1> QED BY <1>4, <1>5, <1>6, <1>7, <1>8 DEF Inv, IndexInv, AddInv, ReplaceInv, RemoveInv

\* The thread that replaces makes every device of the pool active in turn.
LEMMA ShutdownDeviceSafe ==
    ASSUME Inv, NEW t \in Threads, ShutdownDevice(t)
    PROVE  Inv'
<1> DEFINE dev == call[t].idx
<1>1. /\ call[t].op = "replace" /\ call[t] \in Calls /\ call \in [Threads -> Calls]
      /\ Len(pool) \in Nat /\ active \in [Threads -> Nat] /\ manager \in Managers
      /\ AllBelow(Len(pool)) /\ Alone(t)
  BY DEF ShutdownDevice, Inv, TypeInv, IndexInv, ReplaceInv
<1>2. /\ dev \in Nat /\ call[t].custom \in BOOLEAN
      /\ call[t] = [op |-> "replace", idx |-> dev, custom |-> call[t].custom, buf |-> None]
  BY <1>1 DEF Calls, Idle
<1>3. /\ dev < Len(pool) /\ active' = [active EXCEPT ![t] = dev]
      /\ call' = [call EXCEPT ![t].idx = dev + 1] /\ UNCHANGED <<pool, arr>>
  BY DEF ShutdownDevice, getDeviceCount
<1>4. \A u \in Threads \ {t} : call[u].op = "idle"
  BY <1>1 DEF Alone, Idle
<1>5. Serves(Len(pool))
  BY <1>1, <1>4 DEF Inv, IndexInv
<1>6. SameTables(manager', manager)
  <2>1. CASE manager.custom
    BY <2>1, SameTablesSelf DEF ShutdownDevice, Inv
  <2>2. CASE ~ manager.custom
    <3>1. Len(pool) <= Len(manager.memory) /\ Len(manager.memory) \in Nat
      BY <1>1, <1>5, <2>2 DEF Serves, Managers
    <3>2. dev + 1 \in 1 .. Len(manager.memory)
      BY <1>1, <1>2, <1>3, <3>1
    <3>3. Collect(dev + 1)
      BY <2>2 DEF ShutdownDevice
    <3> QED BY <1>1, <3>2, <3>3, CollectTables
  <2> QED BY <2>1, <2>2
<1> HIDE DEF dev
<1>7. /\ call'[t] = [op |-> "replace", idx |-> dev + 1, custom |-> call[t].custom, buf |-> None]
      /\ \A u \in Threads \ {t} : call'[u] = call[u]
  BY <1>1, <1>2, <1>3
<1>8. call' \in [Threads -> Calls]
  <2>1. call'[t] \in Calls
    BY <1>2, <1>7 DEF Calls
  <2> QED BY <1>1, <1>3, <2>1
<1>9. active' \in [Threads -> Nat] /\ \A u \in Threads : active'[u] < Len(pool)
  BY <1>1, <1>2, <1>3 DEF AllBelow
<1>10. TypeInv'
  BY <1>3, <1>6, <1>8, <1>9 DEF Inv, TypeInv, SameTables
<1>11. call'[t].op = "replace" /\ call'[t].idx = dev + 1
  BY <1>7
<1>12. ReplaceInv(t)'
  <2>1. dev + 1 <= Len(pool)
    BY <1>1, <1>2, <1>3
  <2> QED BY <1>1, <1>3, <1>7, <1>11, <2>1 DEF ReplaceInv, Alone
<1>13. AllBelow(Len(pool))'
  BY <1>1, <1>3, <1>9 DEF AllBelow, ArraysBelow, Live
<1>14. Serves(Len(pool))'
  BY <1>3, <1>5, <1>6 DEF SameTables, Serves
<1>15. \A u \in Threads \ {t} : call'[u].op = "idle"
  BY <1>4, <1>7
<1> QED BY <1>10, <1>11, <1>12, <1>13, <1>14, <1>15 DEF Inv, IndexInv, AddInv, ReplaceInv, RemoveInv

\* A new default manager has an entry for every device there is now.
LEMMA InstallManagerSafe ==
    ASSUME Inv, NEW t \in Threads, InstallManager(t)
    PROVE  Inv'
<1>1. /\ call[t].op = "replace" /\ call \in [Threads -> Calls] /\ Len(pool) \in Nat
      /\ Alone(t) /\ AllBelow(Len(pool))
  BY DEF InstallManager, Inv, TypeInv, IndexInv, ReplaceInv
<1>2. /\ manager' = IF call[t].custom THEN CustomManager ELSE DefaultManager(Len(pool))
      /\ call' = [call EXCEPT ![t] = Idle] /\ UNCHANGED <<pool, active, arr>>
  BY DEF InstallManager, getDeviceCount
<1>3. NoMemory \in Entries
  BY DEF NoMemory, Entries
<1>4. manager' \in Managers /\ Serves(Len(pool))'
  <2>1. CASE call[t].custom
    <3>1. manager' = [custom |-> TRUE, memory |-> <<NoMemory>>]
      BY <1>2, <2>1 DEF CustomManager
    <3> QED BY <1>3, <3>1 DEF Managers, Serves
  <2>2. CASE ~ call[t].custom
    <3> DEFINE table == [j \in 1 .. Len(pool) |-> NoMemory]
    <3>1. manager' = [custom |-> FALSE, memory |-> table]
      BY <1>2, <2>2 DEF DefaultManager
    <3>2. table \in Seq(Entries) /\ Len(table) = Len(pool)
      BY <1>1, <1>3
    <3> HIDE DEF table
    <3>3. manager' \in Managers /\ manager'.custom = FALSE /\ manager'.memory = table
      BY <3>1, <3>2 DEF Managers
    <3>4. Len(pool') <= Len(manager'.memory)
      BY <1>1, <1>2, <3>2, <3>3
    <3> QED BY <3>3, <3>4 DEF Serves
  <2> QED BY <2>1, <2>2
<1>5. TypeInv'
  BY <1>1, <1>2, <1>4 DEF Inv, TypeInv, Calls
<1>6. \A u \in Threads : call'[u].op = "idle"
  BY <1>1, <1>2 DEF Alone, Idle
<1>7. AllBelow(Len(pool))'
  BY <1>1, <1>2 DEF AllBelow, ArraysBelow, Live
<1> QED BY <1>4, <1>5, <1>6, <1>7 DEF Inv, IndexInv, AddInv, ReplaceInv, RemoveInv

-----------------------------------------------------------------------------
LEMMA InvInit == Init => Inv
<1> SUFFICES ASSUME Init PROVE Inv
  OBVIOUS
<1>1. /\ Internal \in Seq(ToSet(Internal)) /\ Internal # <<>>
  BY DeviceAssumption
<1>2. Len(Internal) \in Nat /\ Len(Internal) > 0
  BY <1>1
<1>3. Internal \in Seq(Contexts)
  <2>1. \A j \in 1 .. Len(Internal) : Internal[j] \in Contexts
    BY <1>1 DEF Contexts
  <2> QED BY <1>1, <2>1
<1> DEFINE table == [j \in 1 .. Len(Internal) |-> NoMemory]
<1>4. table \in Seq(Entries) /\ Len(table) = Len(Internal)
  BY <1>2 DEF NoMemory, Entries
<1>5. manager = [custom |-> FALSE, memory |-> table]
  BY DEF Init, DefaultManager
<1> HIDE DEF table
<1>6. manager \in Managers /\ Serves(Len(pool))
  BY <1>2, <1>4, <1>5 DEF Managers, Serves, Init
<1>7. TypeInv
  BY <1>3, <1>6 DEF TypeInv, Init, Arrays, Calls
<1>8. AllBelow(Len(pool))
  BY <1>2 DEF Init, AllBelow, ArraysBelow, Live
<1>9. \A t \in Threads : call[t].op = "idle"
  BY DEF Init, Idle
<1> QED BY <1>6, <1>7, <1>8, <1>9 DEF Inv, IndexInv, AddInv, ReplaceInv, RemoveInv

LEMMA InvNext == ASSUME Careful, Inv, [Next]_vars PROVE Inv'
<1>1. ASSUME NEW t \in Threads, NEW dev \in 0 .. Len(pool) - 1, SetDevice(t, dev)
      PROVE  Inv'
  <2>1. dev \in Nat /\ Len(pool) \in Nat
    BY DEF Inv, TypeInv
  <2> QED BY <1>1, <2>1, SetDeviceSafe DEF SetDevice
<1>2. ASSUME NEW t \in Threads, NEW c \in Contexts, SetDeviceContext(t, c)
      PROVE  Inv'
  <2> DEFINE j == CHOOSE i \in 1 .. Len(pool) : pool[i] = c
  <2>1. pool \in Seq(Contexts) /\ Len(pool) \in Nat
    BY DEF Inv, TypeInv
  <2>2. \E i \in 1 .. Len(pool) : pool[i] = c
    BY <1>2, <2>1 DEF SetDeviceContext, ToSet
  <2>3. j \in 1 .. Len(pool)
    BY <2>2
  <2>4. /\ Begins(t) /\ Usable(t, j - 1) /\ active' = [active EXCEPT ![t] = j - 1]
        /\ UNCHANGED <<pool, manager, arr, call>>
    BY <1>2 DEF SetDeviceContext
  <2> HIDE DEF j
  <2>5. j - 1 \in Nat /\ j - 1 < Len(pool)
    BY <2>1, <2>3
  <2> QED BY <2>4, <2>5, SetDeviceSafe
<1>3. CASE UNCHANGED vars
  BY <1>3 DEF vars, Inv, TypeInv, IndexInv, AllBelow, ArraysBelow, Live, Serves, AddInv, ReplaceInv, RemoveInv, OthersBelow, Alone
<1> QED
  BY <1>1, <1>2, <1>3, AddDeviceContextSafe, AddMemoryManagementSafe, RemoveDeviceContextSafe,
     RemoveMemoryManagementSafe, EraseDeviceSafe, AllocReuseSafe, AllocMissSafe, NativeAllocSafe,
     ReleaseSafe, DeviceGCSafe, SetMemoryManagerSafe, ShutdownDeviceSafe, InstallManagerSafe
  DEF Next

\* Whatever is added, removed, replaced and used meanwhile by whichever threads
\* of a careful program: the device of every thread and of every array is in
\* the pool, and memory has an entry for it, so that getCurrentMemoryInfo and
\* the vectors of the pool are indexed within their sizes.
THEOREM IndicesInRangeHolds == Careful => (Spec => []IndicesInRange)
<1> SUFFICES ASSUME Careful PROVE Spec => []IndicesInRange
  OBVIOUS
<1>1. Inv => IndicesInRange
  <2> SUFFICES ASSUME Inv PROVE IndicesInRange
    OBVIOUS
  <2>1. /\ Len(pool) \in Nat /\ active \in [Threads -> Nat] /\ arr \in [Handles -> Arrays]
        /\ Len(manager.memory) \in Nat /\ AllBelow(Len(pool)) /\ call \in [Threads -> Calls]
    BY DEF Inv, TypeInv, IndexInv, Managers
  <2>2. \E n \in Nat : n <= Len(pool) /\ AllBelow(n) /\ Serves(n)
    <3>1. CASE \A t \in Threads : call[t].op # "add"
      BY <2>1, <3>1 DEF Inv, IndexInv
    <3>2. ASSUME NEW t \in Threads, call[t].op = "add"
          PROVE  \E n \in Nat : n <= Len(pool) /\ AllBelow(n) /\ Serves(n)
      <4>1. call[t] \in Calls /\ call[t].idx + 1 = Len(pool) /\ AllBelow(call[t].idx) /\ Serves(call[t].idx)
        BY <2>1, <3>2 DEF Inv, IndexInv, AddInv
      <4>2. call[t].idx \in Nat
        BY <3>2, <4>1 DEF Calls, Idle
      <4> QED BY <2>1, <4>1, <4>2
    <3> QED BY <3>1, <3>2
  <2>3. PICK n \in Nat : n <= Len(pool) /\ AllBelow(n) /\ Serves(n)
    BY <2>2
  <2>4. ASSUME NEW dev \in Nat, dev < n PROVE Covered(dev)
    <3>1. dev < Len(pool)
      BY <2>1, <2>3, <2>4
    <3>2. CASE manager.custom
      <4>1. Slot(dev) = 1 /\ Len(manager.memory) = 1
        BY <2>3, <3>2 DEF Slot, Serves
      <4> QED BY <3>1, <4>1 DEF Covered
    <3>3. CASE ~ manager.custom
      <4>1. Slot(dev) = dev + 1 /\ n <= Len(manager.memory)
        BY <2>3, <3>3 DEF Slot, Serves
      <4> QED BY <2>1, <2>4, <3>1, <4>1 DEF Covered
    <3> QED BY <3>2, <3>3
  <2>5. \A t \in Threads : active[t] \in Nat /\ active[t] < n
    BY <2>1, <2>3 DEF AllBelow
  <2>6. \A h \in Handles : Live(h) => arr[h].dev \in Nat /\ arr[h].dev < n
    BY <2>1, <2>3 DEF AllBelow, ArraysBelow, Arrays, Live
  <2> QED BY <2>4, <2>5, <2>6 DEF IndicesInRange
<1>2. Inv /\ [Next]_vars => Inv'
  BY InvNext
<1> QED BY <1>1, <1>2, InvInit, PTL DEF Spec

-----------------------------------------------------------------------------
(***************************************************************************)
(* The buffers.  OwnContext and NothingLost need to know of every buffer   *)
(* where it is: with one array, pooled in one entry of memory, about to be *)
(* created, or not there.  Only an address that nobody uses is left on the *)
(* lists of other devices.                                                 *)
(***************************************************************************)
Slots == 1 .. Len(manager.memory)
Known(i) == manager.memory[i].locked
Pooled(i) == manager.memory[i].free
HeldBy(h, b) == Live(h) /\ arr[h].buf = b

\* The buffer of an array is alive, of the array's context, the array's own;
\* the program's manager has it in its table.
ArrayInv == \A h \in Handles : Live(h) =>
    /\ heap[arr[h].buf] = arr[h].ctx
    /\ pool[arr[h].dev + 1] = arr[h].ctx
    /\ \A g \in Handles \ {h} : ~ HeldBy(g, arr[h].buf)
    /\ manager.custom => arr[h].buf \in Known(1)

\* A pooled buffer is alive and nobody's, is listed once, and the default
\* manager pools it for the device of its context.
PooledInv == \A i \in Slots : \A b \in Pooled(i) :
    /\ heap[b] # None
    /\ \A h \in Handles : ~ HeldBy(h, b)
    /\ \A j \in Slots : b \notin Known(j) /\ (j # i => b \notin Pooled(j))
    /\ ~ manager.custom => i <= Len(pool) /\ heap[b] = pool[i]

\* A listed buffer that is alive belongs to an array of that device; the others
\* are addresses that migrations left behind.
KnownInv == \A i \in Slots : \A b \in Known(i) : heap[b] # None =>
    \E h \in Handles : HeldBy(h, b) /\ Slot(arr[h].dev) = i

\* Nothing else is alive.
AliveInv == \A b \in Buffers : heap[b] # None =>
    \/ \E h \in Handles : HeldBy(h, b)
    \/ \E i \in Slots : b \in Pooled(i)

\* A buffer about to be created is no other's, and no list has it.
AllocInv == \A t \in Threads : call[t].op = "alloc" =>
    /\ heap[call[t].buf] = None
    /\ \A i \in Slots : call[t].buf \notin Known(i)
    /\ Live(call[t].handle) => pool[arr[call[t].handle].dev + 1] # Context(t)
    /\ \A u \in Threads \ {t} : call[u].op = "alloc" =>
          call[u].buf # call[t].buf /\ call[u].handle # call[t].handle

\* A removal leaves nothing pooled behind the device, and then for it; a
\* replacement nothing where it has been.
CallsInv == \A t \in Threads :
    /\ ~ manager.custom =>
          /\ call[t].op = "remove" => \A i \in Slots : i > call[t].idx + 1 => Pooled(i) = {}
          /\ call[t].op = "erase" => \A i \in Slots : i > call[t].idx => Pooled(i) = {}
          /\ call[t].op = "replace" => \A i \in Slots : i <= call[t].idx => Pooled(i) = {}
    /\ call[t].op = "replace" =>
          /\ call[t].custom => \A h \in Handles : ~ Live(h)
          /\ manager.custom => Pooled(1) = {}

BufferInv ==
    /\ heap \in [Buffers -> Contexts \cup {None}]
    /\ ArrayInv /\ PooledInv /\ KnownInv /\ AliveInv /\ AllocInv /\ CallsInv

\* What the invariants of buffers say of states without the calls.
PlacesInv ==
    /\ heap \in [Buffers -> Contexts \cup {None}]
    /\ ArrayInv /\ PooledInv /\ KnownInv /\ AliveInv

LEMMA BufferFacts ==
    ASSUME TypeInv
    PROVE  /\ None \notin Buffers /\ None \notin Contexts
           /\ Len(pool) \in Nat /\ Len(manager.memory) \in Nat
           /\ manager.memory \in Seq(Entries)
           /\ \A h \in Handles : Live(h) =>
                 /\ arr[h].buf \in Buffers /\ arr[h].dev \in Nat
                 /\ arr[h].ctx \in Contexts
           /\ \A h \in Handles : ~ Live(h) => arr[h].buf = None
           /\ \A i \in Slots : Known(i) \subseteq Buffers /\ Pooled(i) \subseteq Buffers
<1>1. None \notin Buffers /\ None \notin Contexts
  BY DeviceAssumption DEF Contexts
<1>2. /\ Len(pool) \in Nat /\ Len(manager.memory) \in Nat
      /\ manager.memory \in Seq(Entries)
  BY DEF TypeInv, Managers
<1>3. \A h \in Handles : Live(h) =>
         arr[h].buf \in Buffers /\ arr[h].dev \in Nat /\ arr[h].ctx \in Contexts
  BY DEF TypeInv, Arrays, Live
<1>4. \A i \in Slots : Known(i) \subseteq Buffers /\ Pooled(i) \subseteq Buffers
  <2> TAKE i \in Slots
  <2>1. manager.memory[i] \in Entries
    BY <1>2 DEF Slots
  <2> QED BY <2>1 DEF Entries, Known, Pooled
<1>5. \A h \in Handles : ~ Live(h) => arr[h].buf = None
  BY DEF Live, NoArray
<1> QED BY <1>1, <1>2, <1>3, <1>4, <1>5

-----------------------------------------------------------------------------
(***************************************************************************)
(* One entry of the tables changes.                                        *)
(***************************************************************************)
LEMMA EntryOf ==
    ASSUME NEW m \in Managers, NEW i \in 1 .. Len(m.memory), NEW e \in Entries,
           NEW n, n = [m EXCEPT !.memory[i] = e]
    PROVE  /\ n \in Managers /\ n.custom = m.custom /\ Len(n.memory) = Len(m.memory)
           /\ \A j \in 1 .. Len(m.memory) :
                 n.memory[j] = IF j = i THEN e ELSE m.memory[j]
<1>1. /\ m.memory \in Seq(Entries)
      /\ n = [m EXCEPT !.memory = [m.memory EXCEPT ![i] = e]]
  BY DEF Managers
<1>2. n.memory = [m.memory EXCEPT ![i] = e]
  BY <1>1 DEF Managers
<1> QED BY <1>1, <1>2, ChangedEntry DEF SameTables

\* Collect empties one list and frees what was on it.
Collected(i) ==
    /\ manager'.custom = manager.custom /\ Len(manager'.memory) = Len(manager.memory)
    /\ \A j \in Slots : /\ Known(j)' = Known(j)
                        /\ Pooled(j)' = IF j = i THEN {} ELSE Pooled(j)
    /\ heap' = [b \in Buffers |-> IF b \in Pooled(i) THEN None ELSE heap[b]]

LEMMA CollectEffect ==
    ASSUME TypeInv, NEW i \in Slots, Collect(i)
    PROVE  Collected(i)
<1> DEFINE e == [manager.memory[i] EXCEPT !.free = {}]
<1>1. manager \in Managers /\ i \in 1 .. Len(manager.memory)
  BY DEF TypeInv, Slots
<1>2. manager.memory[i] \in Entries
  BY <1>1 DEF Managers
<1>3. e \in Entries /\ e.free = {} /\ e.locked = manager.memory[i].locked
  BY <1>2 DEF Entries
<1>4. manager' = [manager EXCEPT !.memory[i] = e]
  BY Zenon DEF Collect
<1> HIDE DEF e
<1>5. /\ manager'.custom = manager.custom /\ Len(manager'.memory) = Len(manager.memory)
      /\ \A j \in 1 .. Len(manager.memory) :
            manager'.memory[j] = IF j = i THEN e ELSE manager.memory[j]
  BY <1>1, <1>3, <1>4, EntryOf
<1>6. heap' = [b \in Buffers |-> IF b \in Pooled(i) THEN None ELSE heap[b]]
  BY DEF Collect, Free, Pooled
<1> QED BY <1>3, <1>5, <1>6 DEF Collected, Known, Pooled, Slots

LEMMA CollectedKeeps ==
    ASSUME TypeInv, PlacesInv, NEW i \in Slots, Collected(i), UNCHANGED <<pool, arr>>
    PROVE  PlacesInv'
<1>1. /\ manager'.custom = manager.custom /\ Slots' = Slots
      /\ \A j \in Slots : Known(j)' = Known(j) /\ Pooled(j)' \subseteq Pooled(j)
      /\ \A j \in Slots \ {i} : Pooled(j)' = Pooled(j)
      /\ \A j \in Slots : i = j => Pooled(j)' = {}
      /\ \A h : Live(h)' = Live(h)
      /\ \A d : Slot(d)' = Slot(d)
  BY DEF Collected, Slots, Live, Slot
<1>2. /\ heap' \in [Buffers -> Contexts \cup {None}]
      /\ \A b \in Buffers : heap'[b] = IF b \in Pooled(i) THEN None ELSE heap[b]
  BY DEF Collected, PlacesInv
<1>3. \A h \in Handles : Live(h) => arr[h].buf \in Buffers /\ arr[h].buf \notin Pooled(i)
  BY BufferFacts DEF PlacesInv, PooledInv, HeldBy
<1>4. ArrayInv'
  <2> SUFFICES ASSUME NEW h \in Handles, Live(h)
               PROVE  /\ heap'[arr[h].buf] = arr[h].ctx
                      /\ pool[arr[h].dev + 1] = arr[h].ctx
                      /\ \A g \in Handles \ {h} : ~ HeldBy(g, arr[h].buf)
                      /\ manager.custom => arr[h].buf \in Known(1)'
    BY <1>1 DEF ArrayInv, HeldBy
  <2>1. 1 \in Slots
    BY BufferFacts DEF Slots
  <2> QED BY <1>1, <1>2, <1>3, <2>1 DEF PlacesInv, ArrayInv
<1>5. PooledInv'
  <2> SUFFICES ASSUME NEW j \in Slots, NEW b \in Pooled(j)'
               PROVE  /\ heap'[b] # None
                      /\ \A h \in Handles : ~ HeldBy(h, b)
                      /\ \A k \in Slots : b \notin Known(k)
                                          /\ (k # j => b \notin Pooled(k)')
                      /\ ~ manager.custom => j <= Len(pool) /\ heap'[b] = pool[j]
    BY <1>1 DEF PooledInv, HeldBy
  <2>1. b \in Pooled(j) /\ j # i /\ b \in Buffers
    BY <1>1, BufferFacts
  <2>2. b \notin Pooled(i)
    BY <2>1 DEF PlacesInv, PooledInv
  <2> QED BY <1>1, <1>2, <2>1, <2>2 DEF PlacesInv, PooledInv
<1>6. KnownInv'
  <2> SUFFICES ASSUME NEW j \in Slots, NEW b \in Known(j), heap'[b] # None
               PROVE  \E h \in Handles : HeldBy(h, b) /\ Slot(arr[h].dev) = j
    BY <1>1 DEF KnownInv, HeldBy
  <2>1. b \in Buffers
    BY BufferFacts
  <2> QED BY <1>2, <2>1 DEF PlacesInv, KnownInv
<1>7. AliveInv'
  <2> SUFFICES ASSUME NEW b \in Buffers, heap'[b] # None
               PROVE  \/ \E h \in Handles : HeldBy(h, b)
                      \/ \E j \in Slots : b \in Pooled(j)'
    BY <1>1 DEF AliveInv, HeldBy
  <2>1. b \notin Pooled(i) /\ heap[b] # None
    BY <1>2
  <2> QED BY <1>1, <2>1 DEF PlacesInv, AliveInv
<1> QED BY <1>2, <1>4, <1>5, <1>6, <1>7 DEF PlacesInv

\* Steps of the pool: what is in use or pooled keeps its context.
LEMMA PoolFrame ==
    ASSUME TypeInv, PlacesInv, UNCHANGED <<manager, heap, arr>>,
           \A h \in Handles : Live(h) => pool'[arr[h].dev + 1] = pool[arr[h].dev + 1],
           ~ manager.custom => \A i \in Slots : Pooled(i) # {} =>
               (i <= Len(pool) => i <= Len(pool') /\ pool'[i] = pool[i])
    PROVE  PlacesInv'
<1>1. /\ Slots' = Slots /\ \A i : Known(i)' = Known(i) /\ Pooled(i)' = Pooled(i)
      /\ \A h : Live(h)' = Live(h)
      /\ \A d : Slot(d)' = Slot(d)
  BY DEF Slots, Known, Pooled, Live, Slot
<1>2. ArrayInv'
  BY <1>1 DEF PlacesInv, ArrayInv, HeldBy
<1>3. PooledInv'
  <2> SUFFICES ASSUME NEW j \in Slots, NEW b \in Pooled(j)
               PROVE  /\ heap[b] # None
                      /\ \A h \in Handles : ~ HeldBy(h, b)
                      /\ \A k \in Slots : b \notin Known(k)
                                          /\ (k # j => b \notin Pooled(k))
                      /\ ~ manager.custom => j <= Len(pool') /\ heap[b] = pool'[j]
    BY <1>1 DEF PooledInv, HeldBy
  <2> QED BY DEF PlacesInv, PooledInv
<1>4. KnownInv' /\ AliveInv'
  BY <1>1 DEF PlacesInv, KnownInv, AliveInv, HeldBy
<1> QED BY <1>2, <1>3, <1>4 DEF PlacesInv

-----------------------------------------------------------------------------
(***************************************************************************)
(* An array takes a buffer.                                                *)
(***************************************************************************)
\* What has become of the buffer the array had: the program's manager pools it,
\* the default manager, which looks for it on the wrong device, frees it.
PooledOld(h) == IF manager.custom /\ Live(h) THEN {arr[h].buf} ELSE {}
FreedOld(h) == IF ~ manager.custom /\ Live(h) THEN {arr[h].buf} ELSE {}

Taken(t, h, b) ==
    /\ manager'.custom = manager.custom /\ Len(manager'.memory) = Len(manager.memory)
    /\ arr' = [arr EXCEPT ![h] = NewArray(t, b)]
    /\ \A j \in Slots : j # Slot(active[t]) =>
          Known(j)' = Known(j) /\ Pooled(j)' = Pooled(j)
    /\ \A j \in Slots : j = Slot(active[t]) =>
          /\ Known(j)' = (Known(j) \cup {b}) \ PooledOld(h)
          /\ Pooled(j)' = (Pooled(j) \ {b}) \cup PooledOld(h)
    /\ heap' = [x \in Buffers |-> IF x = b THEN Context(t)
                                  ELSE IF x \in FreedOld(h) THEN None ELSE heap[x]]

\* A buffer an array may take for the entry s.
Takeable(b, s) ==
    /\ \A h \in Handles : ~ HeldBy(h, b)
    /\ \A j \in Slots : b \notin Known(j) /\ (j # s => b \notin Pooled(j))

\* The active device of the thread is in the pool and the tables.
ActiveListed(t) ==
    /\ active[t] \in Nat /\ Slot(active[t]) \in Slots /\ Context(t) \in Contexts
    /\ manager.custom => Slots = {1}

LEMMA TakenKeeps ==
    ASSUME TypeInv, PlacesInv, NEW t \in Threads, NEW h \in Handles, NEW b \in Buffers,
           Taken(t, h, b), pool' = pool,
           ActiveListed(t),
           Takeable(b, Slot(active[t]))
    PROVE  PlacesInv'
<1>0. /\ active[t] \in Nat /\ Slot(active[t]) \in Slots /\ Context(t) \in Contexts
      /\ manager.custom => Slots = {1}
  BY DEF ActiveListed
<1>slot. PICK s \in Slots : s = Slot(active[t])
  BY <1>0
<1>old. PICK old : old = arr[h].buf
  OBVIOUS
<1>1. /\ manager'.custom = manager.custom /\ Slots' = Slots
      /\ \A j \in Slots : j # s => Known(j)' = Known(j) /\ Pooled(j)' = Pooled(j)
      /\ Known(s)' = (Known(s) \cup {b}) \ PooledOld(h)
      /\ Pooled(s)' = (Pooled(s) \ {b}) \cup PooledOld(h)
      /\ \A d : Slot(d)' = Slot(d)
  BY <1>slot DEF Taken, Slots, Slot
<1>2. /\ \A x \in Buffers : heap'[x] = IF x = b THEN Context(t)
                               ELSE IF x \in FreedOld(h) THEN None ELSE heap[x]
      /\ heap' \in [Buffers -> Contexts \cup {None}]
      /\ heap'[b] # None
  BY <1>0, BufferFacts DEF Taken, PlacesInv
<1>3. /\ \A g \in Handles \ {h} : arr'[g] = arr[g]
      /\ arr'[h] = NewArray(t, b)
  BY DEF Taken, TypeInv
<1>4. /\ arr'[h].buf = b /\ arr'[h].dev = active[t] /\ arr'[h].ctx = Context(t)
      /\ Live(h)' /\ \A g \in Handles \ {h} : Live(g)' = Live(g)
      /\ \A g \in Handles \ {h} : \A x : HeldBy(g, x)' = HeldBy(g, x)
      /\ \A x : HeldBy(h, x)' <=> x = b
  <2>1. arr'[h].buf = b /\ arr'[h].dev = active[t] /\ arr'[h].ctx = Context(t)
    BY <1>0, <1>3 DEF NewArray
  <2>2. arr'[h] # NoArray
    BY <2>1, BufferFacts DEF NoArray
  <2> QED BY <1>3, <2>1, <2>2 DEF Live, HeldBy
<1>5. /\ Live(h) => old # b /\ old \in Buffers /\ heap[old] # None
      /\ \A g \in Handles \ {h} : Live(g) =>
            arr[g].buf # b /\ arr[g].buf \in Buffers /\ (Live(h) => arr[g].buf # old)
  BY <1>old, BufferFacts DEF Takeable, HeldBy, PlacesInv, ArrayInv
<1>6. pool[active[t] + 1] = Context(t)
  BY DEF Context
<1>7. /\ \A j \in Slots : \A x \in Pooled(j) : ~ (Live(h) /\ x = old)
      /\ Live(h) /\ manager.custom => old \in Known(1)
      /\ \A j \in Slots : b \notin Known(j) /\ (j # s => b \notin Pooled(j))
  BY <1>slot, <1>old DEF PlacesInv, PooledInv, ArrayInv, HeldBy, Takeable
<1>8. ArrayInv'
  <2> SUFFICES ASSUME NEW g \in Handles, Live(g)'
               PROVE  /\ heap'[arr'[g].buf] = arr'[g].ctx
                      /\ pool[arr'[g].dev + 1] = arr'[g].ctx
                      /\ \A k \in Handles \ {g} :
                            ~ (Live(k)' /\ arr'[k].buf = arr'[g].buf)
                      /\ manager.custom => arr'[g].buf \in Known(1)'
    BY <1>1 DEF ArrayInv, HeldBy
  <2>1. CASE g = h
    <3>1. manager.custom => b \in Known(1)'
      BY <1>0, <1>1, <1>5, <1>slot, <1>old DEF PooledOld
    <3>2. \A k \in Handles \ {h} : ~ (Live(k)' /\ arr'[k].buf = b)
      BY <1>3, <1>4 DEF Takeable, HeldBy
    <3> QED BY <1>2, <1>4, <1>6, <2>1, <3>1, <3>2
  <2>2. CASE g # h
    <3>1. /\ Live(g) /\ arr'[g] = arr[g] /\ arr[g].buf # b /\ arr[g].buf \in Buffers
          /\ (Live(h) => arr[g].buf # old)
      BY <1>3, <1>4, <1>5, <2>2
    <3>2. /\ heap[arr[g].buf] = arr[g].ctx /\ pool[arr[g].dev + 1] = arr[g].ctx
          /\ \A k \in Handles \ {g} : ~ HeldBy(k, arr[g].buf)
          /\ manager.custom => arr[g].buf \in Known(1)
      BY <3>1 DEF PlacesInv, ArrayInv
    <3>3. heap'[arr[g].buf] = arr[g].ctx
      BY <1>2, <3>1, <3>2, <1>old DEF FreedOld
    <3>4. manager.custom => arr[g].buf \in Known(1)'
      BY <1>0, <1>1, <3>1, <3>2, <1>slot, <1>old DEF PooledOld
    <3>5. \A k \in Handles \ {g} : ~ (Live(k)' /\ arr'[k].buf = arr'[g].buf)
      BY <1>3, <1>4, <3>1, <3>2 DEF HeldBy
    <3> QED BY <3>1, <3>2, <3>3, <3>4, <3>5
  <2> QED BY <2>1, <2>2
<1>9. PooledInv'
  <2> SUFFICES ASSUME NEW j \in Slots, NEW x \in Pooled(j)'
               PROVE  /\ heap'[x] # None
                      /\ \A g \in Handles : ~ HeldBy(g, x)'
                      /\ \A k \in Slots : x \notin Known(k)'
                                          /\ (k # j => x \notin Pooled(k)')
                      /\ ~ manager.custom => j <= Len(pool) /\ heap'[x] = pool[j]
    BY <1>1 DEF PooledInv
  <2>1. CASE x \in PooledOld(h)
    <3>1. manager.custom /\ Live(h) /\ x = old
      BY <2>1, <1>old DEF PooledOld
    <3>2. heap'[x] # None
      BY <1>2, <1>5, <3>1 DEF FreedOld
    <3>3. \A g \in Handles : ~ HeldBy(g, x)'
      BY <1>4, <1>5, <3>1 DEF HeldBy
    <3>4. Slots = {1} /\ s = 1 /\ j = 1
      BY <1>0, <3>1, <1>slot
    <3>5. x \notin Known(1)'
      BY <1>1, <2>1, <3>4
    <3> QED BY <3>1, <3>2, <3>3, <3>4, <3>5
  <2>2. CASE x \notin PooledOld(h)
    <3>1. x \in Pooled(j) /\ x # b /\ ~ (Live(h) /\ x = old) /\ x \in Buffers
      BY <1>1, <1>7, <2>2, BufferFacts
    <3>2. /\ heap[x] # None
          /\ \A g \in Handles : ~ HeldBy(g, x)
          /\ \A k \in Slots : x \notin Known(k) /\ (k # j => x \notin Pooled(k))
          /\ ~ manager.custom => j <= Len(pool) /\ heap[x] = pool[j]
      BY <3>1 DEF PlacesInv, PooledInv
    <3>3. heap'[x] = heap[x]
      BY <1>2, <3>1, <1>old DEF FreedOld
    <3>4. \A g \in Handles : ~ HeldBy(g, x)'
      BY <1>4, <3>1, <3>2
    <3>5. \A k \in Slots : x \notin Known(k)' /\ (k # j => x \notin Pooled(k)')
      <4> TAKE k \in Slots
      <4>1. CASE k = s
        BY <1>1, <2>2, <3>1, <3>2, <4>1
      <4>2. CASE k # s
        BY <1>1, <3>2, <4>2
      <4> QED BY <4>1, <4>2
    <3> QED BY <3>2, <3>3, <3>4, <3>5
  <2> QED BY <2>1, <2>2
<1>10. KnownInv'
  <2> SUFFICES ASSUME NEW j \in Slots, NEW x \in Known(j)', heap'[x] # None
               PROVE  \E g \in Handles : HeldBy(g, x)' /\ Slot(arr'[g].dev) = j
    BY <1>1 DEF KnownInv
  <2>1. CASE x = b
    <3>1. j = s
      BY <1>1, <1>7, <2>1
    <3> QED BY <1>4, <2>1, <3>1, <1>slot
  <2>2. CASE x # b
    <3>1. x \in Known(j) /\ (j = s => x \notin PooledOld(h)) /\ x \in Buffers
      BY <1>1, <2>2, BufferFacts
    <3>2. heap[x] # None /\ x \notin FreedOld(h)
      BY <1>2, <2>2, <3>1
    <3>3. PICK g \in Handles : HeldBy(g, x) /\ Slot(arr[g].dev) = j
      BY <3>1, <3>2 DEF PlacesInv, KnownInv
    <3>4. g # h
      <4> SUFFICES ASSUME g = h PROVE FALSE
        OBVIOUS
      <4>1. Live(h) /\ x = arr[h].buf
        BY <3>3 DEF HeldBy
      <4>2. manager.custom /\ x \in PooledOld(h)
        BY <3>2, <4>1 DEF FreedOld, PooledOld
      <4>3. j = s
        BY <1>0, <4>2, <1>slot
      <4> QED BY <3>1, <4>2, <4>3
    <3> QED BY <1>3, <1>4, <3>3, <3>4
  <2> QED BY <2>1, <2>2
<1>11. AliveInv'
  <2> SUFFICES ASSUME NEW x \in Buffers, heap'[x] # None
               PROVE  \/ \E g \in Handles : HeldBy(g, x)'
                      \/ \E j \in Slots : x \in Pooled(j)'
    BY <1>1 DEF AliveInv
  <2>1. CASE x = b
    BY <1>4, <2>1
  <2>2. ASSUME x # b, NEW g \in Handles, HeldBy(g, x)
        PROVE  \/ \E k \in Handles : HeldBy(k, x)'
               \/ \E j \in Slots : x \in Pooled(j)'
    <3>1. CASE g = h
      <4>1. Live(h) /\ x = arr[h].buf /\ x \notin FreedOld(h)
        BY <1>2, <2>2, <3>1 DEF HeldBy
      <4>2. x \in PooledOld(h)
        BY <4>1 DEF FreedOld, PooledOld
      <4> QED BY <1>1, <4>2, <1>slot
    <3>2. CASE g # h
      BY <1>4, <2>2, <3>2
    <3> QED BY <3>1, <3>2
  <2>3. ASSUME x # b, NEW j \in Slots, x \in Pooled(j)
        PROVE  x \in Pooled(j)'
    BY <1>1, <2>3
  <2>4. heap[x] # None \/ x = b
    BY <1>2
  <2> QED BY <2>1, <2>2, <2>3, <2>4 DEF PlacesInv, AliveInv
<1> QED BY <1>2, <1>8, <1>9, <1>10, <1>11 DEF PlacesInv

-----------------------------------------------------------------------------
(***************************************************************************)
(* An array is released.                                                   *)
(***************************************************************************)
\* Its buffer is pooled by a manager that has it in the entry s, and freed by
\* one that does not.
PooledBy(s, b) == IF b \in Known(s) THEN {b} ELSE {}

Released(h, s) ==
    /\ manager'.custom = manager.custom /\ Len(manager'.memory) = Len(manager.memory)
    /\ arr' = [arr EXCEPT ![h] = NoArray]
    /\ \A j \in Slots :
          /\ Known(j)' = IF j = s THEN Known(j) \ {arr[h].buf} ELSE Known(j)
          /\ Pooled(j)' = IF j = s THEN Pooled(j) \cup PooledBy(s, arr[h].buf)
                                   ELSE Pooled(j)
    /\ heap' = [x \in Buffers |->
                   IF x = arr[h].buf /\ x \notin Known(s) THEN None ELSE heap[x]]

LEMMA ReleasedKeeps ==
    ASSUME TypeInv, PlacesInv, NEW h \in Handles, Live(h), NEW s \in Slots,
           s = Slot(arr[h].dev), Released(h, s), pool' = pool,
           arr[h].dev < Len(pool)
    PROVE  PlacesInv'
<1>1. PICK b \in Buffers : b = arr[h].buf
  BY BufferFacts
<1>2. /\ manager'.custom = manager.custom /\ Slots' = Slots
      /\ \A j \in Slots :
            /\ Known(j)' = IF j = s THEN Known(j) \ {b} ELSE Known(j)
            /\ Pooled(j)' = IF j = s THEN Pooled(j) \cup PooledBy(s, b) ELSE Pooled(j)
      /\ \A d : Slot(d)' = Slot(d)
  BY <1>1 DEF Released, Slots, Slot
<1>3. /\ \A x \in Buffers : heap'[x] = IF x = b /\ x \notin Known(s) THEN None ELSE heap[x]
      /\ heap' \in [Buffers -> Contexts \cup {None}]
  BY <1>1 DEF Released, PlacesInv
<1>4. /\ \A g \in Handles \ {h} : arr'[g] = arr[g] /\ Live(g)' = Live(g)
      /\ ~ Live(h)'
      /\ \A g \in Handles \ {h} : \A x : HeldBy(g, x)' = HeldBy(g, x)
      /\ \A x : ~ HeldBy(h, x)'
  <2>1. arr'[h] = NoArray /\ \A g \in Handles \ {h} : arr'[g] = arr[g]
    BY DEF Released, TypeInv
  <2> QED BY <2>1 DEF Live, HeldBy
<1>5. /\ HeldBy(h, b) /\ heap[b] = arr[h].ctx /\ heap[b] # None
      /\ heap[b] = pool[arr[h].dev + 1]
      /\ manager.custom => b \in Known(1)
      /\ \A g \in Handles \ {h} : ~ HeldBy(g, b)
      /\ \A j \in Slots : b \notin Pooled(j)
  BY <1>1, BufferFacts DEF HeldBy, PlacesInv, ArrayInv, PooledInv
<1>6. \A j \in Slots : j # s => b \notin Known(j)
  <2> SUFFICES ASSUME NEW j \in Slots, b \in Known(j) PROVE j = s
    OBVIOUS
  <2>1. PICK g \in Handles : HeldBy(g, b) /\ Slot(arr[g].dev) = j
    BY <1>5 DEF PlacesInv, KnownInv
  <2> QED BY <1>5, <2>1
<1>7. ~ manager.custom => s <= Len(pool) /\ heap[b] = pool[s]
  <2>1. ~ manager.custom => s = arr[h].dev + 1
    BY DEF Slot
  <2> QED BY <1>5, <2>1, BufferFacts
<1>8. ArrayInv'
  <2> SUFFICES ASSUME NEW g \in Handles, Live(g)'
               PROVE  /\ heap'[arr'[g].buf] = arr'[g].ctx
                      /\ pool[arr'[g].dev + 1] = arr'[g].ctx
                      /\ \A k \in Handles \ {g} :
                            ~ (Live(k)' /\ arr'[k].buf = arr'[g].buf)
                      /\ manager.custom => arr'[g].buf \in Known(1)'
    BY <1>2 DEF ArrayInv, HeldBy
  <2>1. g # h /\ Live(g) /\ arr'[g] = arr[g] /\ arr[g].buf # b /\ arr[g].buf \in Buffers
    BY <1>4, <1>5, BufferFacts DEF HeldBy
  <2>2. /\ heap[arr[g].buf] = arr[g].ctx /\ pool[arr[g].dev + 1] = arr[g].ctx
        /\ \A k \in Handles \ {g} : ~ HeldBy(k, arr[g].buf)
        /\ manager.custom => arr[g].buf \in Known(1)
    BY <2>1 DEF PlacesInv, ArrayInv
  <2>3. heap'[arr[g].buf] = arr[g].ctx
    BY <1>3, <2>1, <2>2
  <2>4. manager.custom => arr[g].buf \in Known(1)'
    <3>1. 1 \in Slots
      BY BufferFacts DEF Slots
    <3> QED BY <1>2, <2>1, <2>2, <3>1
  <2>5. \A k \in Handles \ {g} : ~ (Live(k)' /\ arr'[k].buf = arr'[g].buf)
    BY <1>4, <2>1, <2>2 DEF HeldBy
  <2> QED BY <2>1, <2>2, <2>3, <2>4, <2>5
<1>9. PooledInv'
  <2> SUFFICES ASSUME NEW j \in Slots, NEW x \in Pooled(j)'
               PROVE  /\ heap'[x] # None
                      /\ \A g \in Handles : ~ HeldBy(g, x)'
                      /\ \A k \in Slots : x \notin Known(k)'
                                          /\ (k # j => x \notin Pooled(k)')
                      /\ ~ manager.custom => j <= Len(pool) /\ heap'[x] = pool[j]
    BY <1>2 DEF PooledInv
  <2>1. CASE x = b
    <3>1. j = s /\ b \in Known(s)
      BY <1>2, <1>5, <2>1 DEF PooledBy
    <3>2. heap'[b] = heap[b]
      BY <1>3, <3>1
    <3>3. \A g \in Handles : ~ HeldBy(g, b)'
      BY <1>4, <1>5
    <3>4. \A k \in Slots : b \notin Known(k)' /\ (k # s => b \notin Pooled(k)')
      BY <1>2, <1>5, <1>6
    <3> QED BY <1>5, <1>7, <2>1, <3>1, <3>2, <3>3, <3>4
  <2>2. CASE x # b
    <3>1. x \in Pooled(j) /\ x \in Buffers
      BY <1>2, <2>2, BufferFacts DEF PooledBy
    <3>2. /\ heap[x] # None
          /\ \A g \in Handles : ~ HeldBy(g, x)
          /\ \A k \in Slots : x \notin Known(k) /\ (k # j => x \notin Pooled(k))
          /\ ~ manager.custom => j <= Len(pool) /\ heap[x] = pool[j]
      BY <3>1 DEF PlacesInv, PooledInv
    <3>3. heap'[x] = heap[x]
      BY <1>3, <2>2, <3>1
    <3>4. \A g \in Handles : ~ HeldBy(g, x)'
      BY <1>4, <3>2
    <3>5. \A k \in Slots : x \notin Known(k)' /\ (k # j => x \notin Pooled(k)')
      BY <1>2, <2>2, <3>2 DEF PooledBy
    <3> QED BY <3>2, <3>3, <3>4, <3>5
  <2> QED BY <2>1, <2>2
<1>10. KnownInv'
  <2> SUFFICES ASSUME NEW j \in Slots, NEW x \in Known(j)', heap'[x] # None
               PROVE  \E g \in Handles : HeldBy(g, x)' /\ Slot(arr'[g].dev) = j
    BY <1>2 DEF KnownInv
  <2>1. x # b /\ x \in Known(j) /\ x \in Buffers
    BY <1>2, <1>6, BufferFacts
  <2>2. heap[x] # None
    BY <1>3, <2>1
  <2>3. PICK g \in Handles : HeldBy(g, x) /\ Slot(arr[g].dev) = j
    BY <2>1, <2>2 DEF PlacesInv, KnownInv
  <2>4. g # h
    BY <1>1, <2>1, <2>3 DEF HeldBy
  <2> QED BY <1>4, <2>3, <2>4
<1>11. AliveInv'
  <2> SUFFICES ASSUME NEW x \in Buffers, heap'[x] # None
               PROVE  \/ \E g \in Handles : HeldBy(g, x)'
                      \/ \E j \in Slots : x \in Pooled(j)'
    BY <1>2 DEF AliveInv
  <2>1. CASE x = b
    <3>1. b \in Known(s)
      BY <1>3, <2>1
    <3> QED BY <1>2, <2>1, <3>1 DEF PooledBy
  <2>2. CASE x # b
    <3>1. heap[x] # None
      BY <1>3
    <3>2. CASE \E g \in Handles : HeldBy(g, x)
      BY <1>1, <1>4, <2>2, <3>2 DEF HeldBy
    <3>3. CASE \E j \in Slots : x \in Pooled(j)
      BY <1>2, <3>3
    <3> QED BY <3>1, <3>2, <3>3 DEF PlacesInv, AliveInv
  <2> QED BY <2>1, <2>2
<1> QED BY <1>3, <1>8, <1>9, <1>10, <1>11 DEF PlacesInv

-----------------------------------------------------------------------------
(***************************************************************************)
(* The effect of unlock on the tables.                                     *)
(***************************************************************************)
\* The entry i of the table n, if m was the manager before.
Unlocked(m, i, b, n) ==
    /\ n.custom = m.custom /\ Len(n.memory) = Len(m.memory)
    /\ \A j \in 1 .. Len(m.memory) :
          /\ n.memory[j].locked = IF j = i THEN m.memory[j].locked \ {b}
                                  ELSE m.memory[j].locked
          /\ n.memory[j].free = IF j = i /\ b \in m.memory[i].locked
                                THEN m.memory[j].free \cup {b}
                                ELSE m.memory[j].free

Freed(m, i, b, H) == IF b \in m.memory[i].locked \/ m.custom THEN H
                     ELSE [H EXCEPT ![b] = None]

LEMMA UnlockEffect ==
    ASSUME NEW m \in Managers, NEW H, NEW dev \in Nat, NEW b \in Buffers,
           NEW i \in 1 .. Len(m.memory), i = (IF m.custom THEN 1 ELSE dev + 1),
           NEW u, u = Unlock(m, H, dev, b)
    PROVE  Unlocked(m, i, b, u.manager) /\ u.heap = Freed(m, i, b, H)
<1> DEFINE e == [locked |-> m.memory[i].locked \ {b}, free |-> m.memory[i].free \cup {b}]
<1>1. m.memory[i] \in Entries
  BY DEF Managers
<1>2. e \in Entries /\ e.locked = m.memory[i].locked \ {b} /\ e.free = m.memory[i].free \cup {b}
  BY <1>1 DEF Entries
<1>3. /\ u.manager = IF b \in m.memory[i].locked THEN [m EXCEPT !.memory[i] = e] ELSE m
      /\ u.heap = IF b \in m.memory[i].locked \/ m.custom THEN H ELSE [H EXCEPT ![b] = None]
  BY DEF Unlock, IgnoresUnknown, Managers
<1> HIDE DEF e
<1>4. CASE b \in m.memory[i].locked
  <2>1. /\ u.manager.custom = m.custom /\ Len(u.manager.memory) = Len(m.memory)
        /\ \A j \in 1 .. Len(m.memory) :
              u.manager.memory[j] = IF j = i THEN e ELSE m.memory[j]
    BY <1>2, <1>3, <1>4, EntryOf
  <2> QED BY <1>2, <1>3, <1>4, <2>1 DEF Unlocked, Freed
<1>5. CASE b \notin m.memory[i].locked
  BY <1>3, <1>5 DEF Unlocked, Freed
<1> QED BY <1>4, <1>5

LockedAt(m, s, b) ==
    /\ m \in Managers /\ m.custom = manager.custom
    /\ Len(m.memory) = Len(manager.memory)
    /\ \A j \in Slots :
          /\ m.memory[j].locked = IF j = s THEN Known(j) \cup {b} ELSE Known(j)
          /\ m.memory[j].free = IF j = s THEN Pooled(j) \ {b} ELSE Pooled(j)

LEMMA LockEffect ==
    ASSUME manager \in Managers, NEW dev \in Nat, NEW b \in Buffers,
           Slot(dev) \in Slots, NEW m, m = Lock(dev, b)
    PROVE  LockedAt(m, Slot(dev), b)
<1> DEFINE i == Slot(dev)
           e == [locked |-> Known(i) \cup {b}, free |-> Pooled(i) \ {b}]
<1>1. manager.memory[i] \in Entries
  BY DEF Managers, Slots
<1>2. e \in Entries /\ e.locked = Known(i) \cup {b} /\ e.free = Pooled(i) \ {b}
  BY <1>1 DEF Entries, Known, Pooled
<1>3. m = [manager EXCEPT !.memory[i] = e]
  BY DEF Lock, Managers, Known, Pooled
<1> HIDE DEF e
<1>4. /\ m \in Managers /\ m.custom = manager.custom
      /\ Len(m.memory) = Len(manager.memory)
      /\ \A j \in 1 .. Len(manager.memory) :
            m.memory[j] = IF j = i THEN e ELSE manager.memory[j]
  BY <1>2, <1>3, EntryOf DEF Slots
<1> QED BY <1>2, <1>4 DEF LockedAt, Slots, Known, Pooled

-----------------------------------------------------------------------------
(***************************************************************************)
(* The calls in progress.                                                  *)
(***************************************************************************)
LEMMA AllocKept ==
    ASSUME AllocInv,
           \A u \in Threads : call'[u].op = "alloc" =>
               /\ call'[u] = call[u] /\ Context(u)' = Context(u)
               /\ heap'[call[u].buf] = None
               /\ \A i \in Slots' : call[u].buf \notin Known(i)'
               /\ \A h : h = call[u].handle /\ Live(h)' =>
                     Live(h) /\ pool'[arr'[h].dev + 1] = pool[arr[h].dev + 1]
    PROVE  AllocInv'
<1> SUFFICES ASSUME NEW u \in Threads, call'[u].op = "alloc"
             PROVE  /\ heap'[call'[u].buf] = None
                    /\ \A i \in Slots' : call'[u].buf \notin Known(i)'
                    /\ Live(call[u].handle)' =>
                          pool'[arr'[call'[u].handle].dev + 1] # Context(u)'
                    /\ \A v \in Threads \ {u} : call'[v].op = "alloc" =>
                          call'[v].buf # call'[u].buf /\ call'[v].handle # call'[u].handle
  BY DEF AllocInv
<1>1. PICK h : h = call[u].handle
  OBVIOUS
<1>2. call'[u] = call[u] /\ (Live(h)' => Live(h) /\ pool'[arr'[h].dev + 1] = pool[arr[h].dev + 1])
  BY <1>1
<1>3. /\ Live(h) => pool[arr[h].dev + 1] # Context(u)
      /\ \A v \in Threads \ {u} : call[v].op = "alloc" =>
            call[v].buf # call[u].buf /\ call[v].handle # h
  BY <1>1, <1>2 DEF AllocInv
<1>4. Live(call[u].handle)' => Live(h)'
  BY <1>1, <1>2 DEF Live
<1> QED BY <1>1, <1>2, <1>3, <1>4

LEMMA CallsKept ==
    ASSUME CallsInv, manager'.custom = manager.custom, Slots' = Slots,
           \A u \in Threads : call'[u].op # "replace",
           \A u \in Threads : call'[u].op \in {"remove", "erase"} =>
               /\ call'[u] = call[u]
               /\ ~ manager.custom => \A i \in Slots :
                      i > call[u].idx => Pooled(i)' \subseteq Pooled(i)
           , \A u \in Threads : call'[u].op \in {"remove", "erase"} => call[u].idx \in Nat
    PROVE  CallsInv'
<1> SUFFICES ASSUME NEW u \in Threads, ~ manager.custom
             PROVE  /\ call'[u].op = "remove" =>
                          \A i \in Slots : i > call[u].idx + 1 => Pooled(i)' = {}
                    /\ call'[u].op = "erase" =>
                          \A i \in Slots : i > call[u].idx => Pooled(i)' = {}
  BY DEF CallsInv
<1>1. /\ call[u].op = "remove" => \A i \in Slots : i > call[u].idx + 1 => Pooled(i) = {}
      /\ call[u].op = "erase" => \A i \in Slots : i > call[u].idx => Pooled(i) = {}
  BY DEF CallsInv
<1>2. ASSUME call'[u].op = "remove", NEW i \in Slots, i > call[u].idx + 1
      PROVE  Pooled(i)' = {}
  <2>1. call[u].op = "remove" /\ i > call[u].idx
    BY <1>2 DEF Slots
  <2> QED BY <1>1, <1>2, <2>1
<1>3. ASSUME call'[u].op = "erase", NEW i \in Slots, i > call[u].idx
      PROVE  Pooled(i)' = {}
  BY <1>1, <1>3
<1> QED BY <1>2, <1>3

\* What a thread's call record holds.
LEMMA CallFacts ==
    ASSUME TypeInv, NEW u \in Threads
    PROVE  /\ call[u].op \in {"remove", "erase", "add", "replace"} => call[u].idx \in Nat
           /\ call[u].op = "alloc" => call[u].handle \in Handles /\ call[u].buf \in Buffers
           /\ call[u].op \in {"idle", "add", "remove", "erase", "alloc", "replace"}
<1>1. call[u] \in Calls
  BY DEF TypeInv
<1> QED BY <1>1 DEF Calls, Idle

\* With an entry for every device, that of a device in use is in the table.
LEMMA SlotFacts ==
    ASSUME Inv, \A u \in Threads : call[u].op # "add"
    PROVE  /\ \A dev \in Nat : dev < Len(pool) => Slot(dev) \in Slots
           /\ manager.custom => Slots = {1}
           /\ ~ manager.custom => \A i \in 1 .. Len(pool) : i \in Slots
<1>1. Serves(Len(pool)) /\ Len(pool) \in Nat /\ Len(manager.memory) \in Nat
  BY DEF Inv, IndexInv, TypeInv, Managers
<1>2. CASE manager.custom
  <2>1. Len(manager.memory) = 1
    BY <1>1, <1>2 DEF Serves
  <2> QED BY <1>2, <2>1 DEF Slots, Slot
<1>3. CASE ~ manager.custom
  <2>1. Len(pool) <= Len(manager.memory)
    BY <1>1, <1>3 DEF Serves
  <2> QED BY <1>1, <1>3, <2>1 DEF Slots, Slot
<1> QED BY <1>2, <1>3

-----------------------------------------------------------------------------
(***************************************************************************)
(* Every step keeps the buffers in their places.                           *)
(***************************************************************************)
LEMMA SetDeviceBuffers ==
    ASSUME Careful, Inv, BufferInv, NEW t \in Threads, Begins(t),
           \A u \in Threads \ {t} : active'[u] = active[u],
           UNCHANGED <<pool, manager, heap, arr, call>>
    PROVE  BufferInv'
<1>1. PlacesInv'
  BY PoolFrame, BufferFacts DEF BufferInv, PlacesInv, Inv
<1>2. /\ Slots' = Slots /\ \A i : Known(i)' = Known(i) /\ Pooled(i)' = Pooled(i)
      /\ \A h : Live(h)' = Live(h)
  BY DEF Slots, Known, Pooled, Live
<1>3. /\ call[t].op = "idle"
      /\ \A u \in Threads : call[u].op \notin {"add", "replace"}
  BY Begun
<1>4. AllocInv'
  <2>1. \A u \in Threads : call[u].op = "alloc" => Context(u)' = Context(u)
    BY <1>3 DEF Context
  <2> QED BY <1>2, <2>1, AllocKept DEF BufferInv, AllocInv
<1>5. CallsInv'
  BY <1>2, <1>3, CallsKept, CallFacts DEF BufferInv, Inv
<1> QED BY <1>1, <1>4, <1>5 DEF BufferInv, PlacesInv

LEMMA AddDeviceBuffers ==
    ASSUME Careful, Inv, BufferInv, NEW t \in Threads, NEW c \in UserContexts,
           AddDeviceContext(t, c)
    PROVE  BufferInv'
<1>1. /\ pool \in Seq(Contexts) /\ c \in Contexts /\ pool' = Append(pool, c)
      /\ UNCHANGED <<active, manager, heap, arr>>
      /\ call' = [call EXCEPT ![t] = [op |-> "add", idx |-> Len(pool), buf |-> None]]
      /\ call \in [Threads -> Calls] /\ Alone(t)
  BY DEF AddDeviceContext, Inv, TypeInv, Contexts
<1>2. /\ Len(pool') = Len(pool) + 1 /\ Len(pool) \in Nat
      /\ \A i \in 1 .. Len(pool) : pool'[i] = pool[i]
  BY <1>1
<1>3. \A h \in Handles : Live(h) => arr[h].dev + 1 \in 1 .. Len(pool)
  BY <1>2, BufferFacts DEF Inv, IndexInv, AllBelow, ArraysBelow
<1>4. PlacesInv'
  <2>1. \A i \in Slots : i <= Len(pool) => i <= Len(pool') /\ pool'[i] = pool[i]
    BY <1>2 DEF Slots
  <2> QED BY <1>1, <1>2, <1>3, <2>1, PoolFrame DEF BufferInv, PlacesInv, Inv
<1>5. \A u \in Threads : call'[u].op \in {"idle", "add"}
  BY <1>1 DEF Alone, Idle
<1> QED BY <1>4, <1>5 DEF BufferInv, PlacesInv, AllocInv, CallsInv

\* A longer table: the new entries are empty.
LEMMA AddMemoryBuffers ==
    ASSUME Inv, BufferInv, NEW t \in Threads, AddMemoryManagement(t)
    PROVE  BufferInv'
<1>1. /\ call[t].op = "add" /\ call \in [Threads -> Calls] /\ manager \in Managers
      /\ Alone(t) /\ UNCHANGED <<pool, heap, arr>> /\ call' = [call EXCEPT ![t] = Idle]
      /\ call[t].idx \in Nat
  BY CallFacts DEF AddMemoryManagement, Inv, TypeInv, IndexInv, AddInv
<1>2. \A u \in Threads : call'[u].op = "idle"
  BY <1>1 DEF Alone, Idle
<1>3. /\ manager'.custom = manager.custom /\ Slots \subseteq Slots'
      /\ manager.custom => Slots' = Slots
      /\ \A i \in Slots : Known(i)' = Known(i) /\ Pooled(i)' = Pooled(i)
      /\ \A i \in Slots' \ Slots : Known(i)' = {} /\ Pooled(i)' = {}
  <2>1. CASE manager.custom
    <3>1. manager' = manager
      BY <1>1, <2>1 DEF AddMemoryManagement, Managers
    <3> QED BY <3>1 DEF Slots, Known, Pooled
  <2>2. CASE ~ manager.custom
    <3> DEFINE n == Resized(Len(manager.memory), call[t].idx)
               grown == [i \in 1 .. n |-> IF i <= Len(manager.memory) THEN manager.memory[i]
                                          ELSE NoMemory]
    <3>1. Len(manager.memory) \in Nat
      BY <1>1 DEF Managers
    <3>2. n \in Nat /\ n >= Len(manager.memory)
      BY <1>1, <3>1 DEF Resized
    <3>3. Len(grown) = n
      BY <3>2
    <3>4. manager' = [manager EXCEPT !.memory = grown]
      BY <2>2 DEF AddMemoryManagement
    <3>5. manager'.custom = manager.custom /\ manager'.memory = grown
      BY <1>1, <3>4 DEF Managers
    <3>6. /\ \A i \in Slots : i \in 1 .. n /\ grown[i] = manager.memory[i]
          /\ \A i \in 1 .. n : i \notin Slots => grown[i] = NoMemory
      BY <3>1, <3>2 DEF Slots
    <3> HIDE DEF n, grown
    <3>7. Slots' = 1 .. n
      BY <3>3, <3>5 DEF Slots
    <3> QED BY <2>2, <3>5, <3>6, <3>7 DEF Known, Pooled, NoMemory
  <2> QED BY <2>1, <2>2
<1>4. /\ \A h : Live(h)' = Live(h)
      /\ \A h, b : HeldBy(h, b)' = HeldBy(h, b)
      /\ \A d : Slot(d)' = Slot(d)
  BY <1>1, <1>3 DEF Live, HeldBy, Slot
<1>5. ArrayInv'
  <2>1. manager.custom => 1 \in Slots
    <3> SUFFICES ASSUME manager.custom PROVE 1 \in Slots
      OBVIOUS
    <3>1. Serves(call[t].idx)
      BY <1>1 DEF Inv, IndexInv, AddInv
    <3>2. 1 .. Len(manager.memory) = 1 .. 1
      BY <3>1 DEF Serves
    <3> QED BY <3>2 DEF Slots
  <2> QED BY <1>1, <1>3, <1>4, <2>1 DEF BufferInv, ArrayInv, HeldBy
<1>6. PooledInv'
  <2> SUFFICES ASSUME NEW j \in Slots', NEW b \in Pooled(j)'
               PROVE  /\ heap[b] # None
                      /\ \A h \in Handles : ~ HeldBy(h, b)
                      /\ \A k \in Slots' : b \notin Known(k)'
                                           /\ (k # j => b \notin Pooled(k)')
                      /\ ~ manager.custom => j <= Len(pool) /\ heap[b] = pool[j]
    BY <1>1, <1>3, <1>4 DEF PooledInv
  <2>1. j \in Slots /\ b \in Pooled(j)
    BY <1>3
  <2> QED BY <1>3, <2>1 DEF BufferInv, PooledInv
<1>7. KnownInv'
  <2> SUFFICES ASSUME NEW j \in Slots', NEW b \in Known(j)', heap[b] # None
               PROVE  \E h \in Handles : HeldBy(h, b) /\ Slot(arr[h].dev) = j
    BY <1>1, <1>4 DEF KnownInv, HeldBy
  <2>1. j \in Slots /\ b \in Known(j)
    BY <1>3
  <2> QED BY <2>1 DEF BufferInv, KnownInv
<1>8. AliveInv'
  BY <1>1, <1>3, <1>4 DEF BufferInv, AliveInv
<1>9. AllocInv' /\ CallsInv'
  BY <1>2 DEF AllocInv, CallsInv
<1> QED BY <1>1, <1>5, <1>6, <1>7, <1>8, <1>9 DEF BufferInv

LEMMA RemoveDeviceBuffers ==
    ASSUME Careful, Inv, BufferInv, NEW t \in Threads, NEW c \in UserContexts,
           RemoveDeviceContext(t, c)
    PROVE  BufferInv'
<1>1. PICK i \in mUserDeviceOffset .. Len(pool) - 1 :
        /\ Removable(t, i)
        /\ call' = [call EXCEPT ![t] = [op |-> "remove", idx |-> i, buf |-> None]]
  BY DEF RemoveDeviceContext
<1>2. /\ UNCHANGED <<pool, active, manager, heap, arr>> /\ call \in [Threads -> Calls]
      /\ \A u \in Threads : call[u].op \notin {"add", "replace"}
  BY Begun DEF RemoveDeviceContext, Inv, TypeInv
<1>3. /\ call'[t].op = "remove" /\ call'[t].idx = i
      /\ \A u \in Threads \ {t} : call'[u] = call[u]
  BY <1>1, <1>2
<1>4. PlacesInv'
  BY <1>2, PoolFrame, BufferFacts DEF BufferInv, PlacesInv, Inv
<1>5. /\ Slots' = Slots /\ \A j : Known(j)' = Known(j) /\ Pooled(j)' = Pooled(j)
      /\ \A h : Live(h)' = Live(h)
  BY <1>2 DEF Slots, Known, Pooled, Live
<1>6. AllocInv'
  <2>1. \A u \in Threads : call'[u].op = "alloc" =>
           call'[u] = call[u] /\ Context(u)' = Context(u)
    BY <1>2, <1>3 DEF Context
  <2> QED BY <1>2, <1>5, <2>1, AllocKept DEF BufferInv, AllocInv
<1>7. CallsInv'
  <2>1. ~ manager.custom => \A j \in Slots : j > i + 1 => Pooled(j) = {}
    <3> SUFFICES ASSUME ~ manager.custom, NEW j \in Slots, j > i + 1
                 PROVE  Pooled(j) = {}
      OBVIOUS
    <3>1. Len(Internal) \in Nat
      BY DeviceAssumption
    <3>2. i \in Nat /\ Len(manager.memory) \in Nat
      BY <3>1, BufferFacts DEF Inv, mUserDeviceOffset
    <3>3. j \in i + 2 .. Len(manager.memory)
      BY <3>2 DEF Slots
    <3> QED BY <1>1, <3>3 DEF Removable, Pooled
  <2> QED BY <1>2, <1>3, <1>5, <2>1 DEF BufferInv, CallsInv
<1> QED BY <1>4, <1>6, <1>7 DEF BufferInv, PlacesInv

\* Emptying the list of the device to be removed.
LEMMA RemoveMemoryBuffers ==
    ASSUME Inv, BufferInv, NEW t \in Threads, RemoveMemoryManagement(t)
    PROVE  BufferInv'
<1>1. /\ call[t].op = "remove" /\ call \in [Threads -> Calls] /\ TypeInv
      /\ call[t].idx \in Nat /\ call[t].idx < Len(pool)
      /\ \A u \in Threads \ {t} : call[u].op \in {"idle", "alloc"}
      /\ UNCHANGED <<pool, active, arr>>
      /\ call' = [call EXCEPT ![t].op = "erase"]
  BY CallFacts DEF RemoveMemoryManagement, Inv, TypeInv, IndexInv, RemoveInv
<1>2. call'[t].op = "erase" /\ call'[t].idx = call[t].idx
      /\ \A u \in Threads \ {t} : call'[u] = call[u]
  <2>1. call[t] \in Calls
    BY <1>1
  <2>2. call[t] = [op |-> "remove", idx |-> call[t].idx, buf |-> None]
    BY <1>1, <2>1 DEF Calls, Idle
  <2>3. call'[t] = [op |-> "erase", idx |-> call[t].idx, buf |-> None]
    BY <1>1, <2>2
  <2>4. \A u \in Threads \ {t} : call'[u] = call[u]
    BY <1>1
  <2> QED BY <2>3, <2>4
<1>3. PICK i : i = RemovedSlot(call[t].idx)
  OBVIOUS
<1>4. i = call[t].idx + 1 /\ (~ manager.custom => i \in Slots)
  <2>1. ~ manager.custom => \A j \in 1 .. Len(pool) : j \in Slots
    BY <1>1, SlotFacts
  <2>2. call[t].idx + 1 \in 1 .. Len(pool)
    BY <1>1, BufferFacts
  <2> QED BY <1>3, <2>1, <2>2 DEF RemovedSlot
<1>5. CASE manager.custom
  <2>1. UNCHANGED <<manager, heap>>
    BY <1>5 DEF RemoveMemoryManagement
  <2>2. /\ Slots' = Slots /\ \A j : Known(j)' = Known(j) /\ Pooled(j)' = Pooled(j)
        /\ \A h : Live(h)' = Live(h) /\ \A u : Context(u)' = Context(u)
    BY <1>1, <2>1 DEF Slots, Known, Pooled, Live, Context
  <2>3. PlacesInv'
    BY <1>1, <2>1, PoolFrame DEF BufferInv, PlacesInv
  <2>4. AllocInv'
    BY <1>1, <1>2, <2>1, <2>2, AllocKept DEF BufferInv, AllocInv
  <2>5. CallsInv'
    BY <1>1, <1>2, <1>5, <2>1 DEF CallsInv
  <2> QED BY <2>3, <2>4, <2>5 DEF BufferInv, PlacesInv
<1>6. CASE ~ manager.custom
  <2>1. Collected(i)
    BY <1>1, <1>3, <1>4, <1>6, CollectEffect DEF RemoveMemoryManagement
  <2>2. PlacesInv'
    BY <1>1, <1>4, <1>6, <2>1, CollectedKeeps DEF BufferInv, PlacesInv
  <2>3. /\ manager'.custom = manager.custom /\ Slots' = Slots
        /\ \A j \in Slots : /\ Known(j)' = Known(j)
                            /\ Pooled(j)' = IF j = i THEN {} ELSE Pooled(j)
        /\ \A b \in Buffers : heap[b] = None => heap'[b] = None
        /\ \A h : Live(h)' = Live(h) /\ \A u : Context(u)' = Context(u)
    BY <1>1, <2>1 DEF Collected, Slots, Live, Context
  <2>4. AllocInv'
    <3>1. \A u \in Threads : call[u].op = "alloc" => call[u].buf \in Buffers
      BY <1>1, CallFacts
    <3>2. AllocInv
      BY DEF BufferInv
    <3>3. \A u \in Threads : call'[u].op = "alloc" =>
             /\ call'[u] = call[u] /\ Context(u)' = Context(u)
             /\ heap'[call[u].buf] = None
             /\ \A j \in Slots' : call[u].buf \notin Known(j)'
      BY <1>2, <2>3, <3>1, <3>2 DEF AllocInv
    <3> QED BY <1>1, <2>3, <3>2, <3>3, AllocKept
  <2>5. CallsInv'
    <3>1. \A j \in Slots : j > call[t].idx + 1 => Pooled(j) = {}
      BY <1>1, <1>6 DEF BufferInv, CallsInv
    <3>2. \A j \in Slots : j > call[t].idx => Pooled(j)' = {}
      <4> SUFFICES ASSUME NEW j \in Slots, j > call[t].idx, j # i PROVE Pooled(j)' = {}
        BY <2>3
      <4>1. j \in Nat
        BY DEF Slots
      <4>2. j > call[t].idx + 1
        BY <1>1, <1>4, <4>1
      <4> QED BY <2>3, <3>1, <4>2
    <3> QED BY <1>1, <1>2, <2>3, <3>2, <1>6 DEF CallsInv
  <2> QED BY <2>2, <2>4, <2>5 DEF BufferInv, PlacesInv
<1> QED BY <1>5, <1>6

\* The contexts before the removed one keep their indices.
LEMMA KeptBefore ==
    ASSUME NEW S, NEW s \in Seq(S), NEW i \in 1 .. Len(s), NEW j \in 1 .. i - 1
    PROVE  RemoveAt(s, i)[j] = s[j]
<1> DEFINE a == SubSeq(s, 1, i - 1)
           b == SubSeq(s, i + 1, Len(s))
<1>1. Len(s) \in Nat /\ i \in Nat
  OBVIOUS
<1>2. a \in Seq(S) /\ Len(a) = i - 1 /\ a[j] = s[j]
  BY <1>1
<1>3. b \in Seq(S)
  BY <1>1
<1>4. RemoveAt(s, i) = a \o b
  BY DEF RemoveAt
<1> HIDE DEF a, b
<1>5. (a \o b)[j] = a[j]
  BY <1>2, <1>3
<1> QED BY <1>2, <1>4, <1>5

\* Nothing in use or pooled is at the device that goes, or behind it.
LEMMA EraseDeviceBuffers ==
    ASSUME Inv, BufferInv, NEW t \in Threads, EraseDevice(t)
    PROVE  BufferInv'
<1>1. PICK i : i = call[t].idx
  OBVIOUS
<1>2. /\ call[t].op = "erase" /\ call \in [Threads -> Calls] /\ TypeInv
      /\ i \in Nat /\ i < Len(pool) /\ OthersBelow(t, i)
      /\ \A u \in Threads \ {t} : call[u].op \in {"idle", "alloc"}
      /\ UNCHANGED <<manager, heap, arr>>
      /\ pool' = RemoveAt(pool, i + 1)
      /\ call' = [call EXCEPT ![t] = Idle]
  BY <1>1, CallFacts DEF EraseDevice, Inv, TypeInv, IndexInv, RemoveInv
<1>3. /\ \A j \in 1 .. i : pool'[j] = pool[j]
      /\ Len(pool') = Len(pool) - 1 /\ Len(pool) \in Nat
  <2>1. pool \in Seq(Contexts) /\ Len(pool) \in Nat
    BY <1>2 DEF TypeInv
  <2>2. i + 1 \in 1 .. Len(pool) /\ 1 .. i = 1 .. (i + 1) - 1
    BY <1>2, <2>1
  <2> QED BY <1>2, <2>1, <2>2, KeptBefore, Removed
<1>4. /\ call'[t].op = "idle" /\ \A u \in Threads \ {t} : call'[u] = call[u]
  BY <1>2 DEF Idle
<1>5. \A h \in Handles : Live(h) => pool'[arr[h].dev + 1] = pool[arr[h].dev + 1]
  <2> TAKE h \in Handles
  <2> HAVE Live(h)
  <2>1. arr[h].dev \in Nat /\ arr[h].dev < i
    BY <1>2, BufferFacts DEF OthersBelow, ArraysBelow
  <2>2. arr[h].dev + 1 \in 1 .. i
    BY <1>2, <2>1
  <2> QED BY <1>3, <2>2
<1>6. PlacesInv'
  <2>1. ~ manager.custom => \A j \in Slots : Pooled(j) # {} => j \in 1 .. i
    <3> SUFFICES ASSUME ~ manager.custom, NEW j \in Slots, j \notin 1 .. i
                 PROVE  Pooled(j) = {}
      OBVIOUS
    <3>1. j > i
      BY <1>2 DEF Slots
    <3> QED BY <1>1, <1>2, <3>1 DEF BufferInv, CallsInv
  <2>2. \A j \in 1 .. i : j <= Len(pool')
    BY <1>2, <1>3
  <2> QED BY <1>2, <1>3, <1>5, <2>1, <2>2, PoolFrame DEF BufferInv, PlacesInv
<1>7. AllocInv'
  <2>1. ASSUME NEW u \in Threads, call'[u].op = "alloc"
        PROVE  call'[u] = call[u] /\ Context(u)' = Context(u)
    <3>1. u # t
      BY <1>4, <2>1
    <3>2. active'[u] = active[u] /\ active[u] \in Nat /\ active[u] < i
      BY <1>2, <3>1 DEF EraseDevice, OthersBelow, TypeInv
    <3>3. active[u] + 1 \in 1 .. i
      BY <1>2, <3>2
    <3> QED BY <1>3, <1>4, <3>1, <3>2, <3>3 DEF Context
  <2>2. /\ Slots' = Slots /\ \A j : Known(j)' = Known(j)
        /\ \A h : Live(h)' = Live(h)
    BY <1>2 DEF Slots, Known, Live
  <2>3. \A u \in Threads : call[u].op = "alloc" => call[u].handle \in Handles
    BY <1>2, CallFacts
  <2>4. AllocInv
    BY DEF BufferInv
  <2>5. \A u \in Threads : call'[u].op = "alloc" =>
           \A h : h = call[u].handle /\ Live(h)' =>
              Live(h) /\ pool'[arr'[h].dev + 1] = pool[arr[h].dev + 1]
    BY <1>2, <1>5, <2>1, <2>2, <2>3
  <2>6. \A u \in Threads : call'[u].op = "alloc" =>
           /\ heap'[call[u].buf] = None
           /\ \A j \in Slots' : call[u].buf \notin Known(j)'
    BY <1>2, <2>1, <2>2, <2>4 DEF AllocInv
  <2> QED BY <2>1, <2>4, <2>5, <2>6, AllocKept
<1>8. CallsInv'
  BY <1>2, <1>4 DEF CallsInv
<1> QED BY <1>6, <1>7, <1>8 DEF BufferInv, PlacesInv

\* What TakeBuffer does: an array that moves to another device is listed there,
\* and never on the active one, unless the program's manager has one table.
LEMMA TakeEffect ==
    ASSUME Inv, BufferInv, NEW t \in Threads, NEW h \in Handles, NEW b \in Buffers,
           NEW H, TakeBuffer(t, h, b, H),
           H = [x \in Buffers |-> IF x = b THEN Context(t) ELSE heap[x]],
           Live(h) => pool[arr[h].dev + 1] # Context(t),
           Takeable(b, Slot(active[t])), Slot(active[t]) \in Slots
    PROVE  Taken(t, h, b)
<1>m. PICK m : m = Lock(active[t], b)
  OBVIOUS
<1>u. PICK u : u = Unlock(m, H, active[t], arr[h].buf)
  OBVIOUS
<1>1. /\ TypeInv /\ active[t] \in Nat /\ manager \in Managers
      /\ arr' = [arr EXCEPT ![h] = NewArray(t, b)]
  BY DEF Inv, TypeInv, TakeBuffer
<1>2. /\ m \in Managers /\ m.custom = manager.custom
      /\ Len(m.memory) = Len(manager.memory)
      /\ \A j \in Slots :
            /\ m.memory[j].locked = IF j = Slot(active[t]) THEN Known(j) \cup {b} ELSE Known(j)
            /\ m.memory[j].free = IF j = Slot(active[t]) THEN Pooled(j) \ {b} ELSE Pooled(j)
  <2>1. LockedAt(m, Slot(active[t]), b)
    BY <1>m, <1>1, LockEffect
  <2> QED BY <2>1 DEF LockedAt
<1>3. /\ manager' = IF arr[h].buf = None THEN m ELSE u.manager
      /\ heap' = IF arr[h].buf = None THEN H ELSE u.heap
  BY <1>m, <1>u DEF TakeBuffer
<1>4. CASE ~ Live(h)
  <2>1. manager' = m /\ heap' = H
    BY <1>1, <1>3, <1>4, BufferFacts
  <2>2. PooledOld(h) = {} /\ FreedOld(h) = {}
    BY <1>4 DEF PooledOld, FreedOld
  <2> QED BY <1>1, <1>2, <2>1, <2>2 DEF Taken, Known, Pooled
<1>5. CASE Live(h)
  <2>1. PICK old \in Buffers : old = arr[h].buf
    BY <1>1, <1>5, BufferFacts
  <2>2. old # None /\ old # b /\ heap[old] # None
    BY <1>1, <1>5, <2>1, BufferFacts DEF Takeable, HeldBy, BufferInv, ArrayInv
  <2>3. manager' = u.manager /\ heap' = u.heap
    BY <1>3, <2>1, <2>2
  <2>4. PICK s \in Slots : s = Slot(active[t])
    OBVIOUS
  <2>5. s = (IF m.custom THEN 1 ELSE active[t] + 1) /\ s \in 1 .. Len(m.memory)
    BY <1>2, <2>4 DEF Slot, Slots
  <2>6. /\ manager'.custom = m.custom /\ Len(manager'.memory) = Len(m.memory)
        /\ \A j \in Slots :
              /\ manager'.memory[j].locked = IF j = s THEN m.memory[j].locked \ {old}
                                             ELSE m.memory[j].locked
              /\ manager'.memory[j].free =
                    IF j = s /\ old \in m.memory[s].locked THEN m.memory[j].free \cup {old}
                    ELSE m.memory[j].free
        /\ heap' = IF old \in m.memory[s].locked \/ m.custom THEN H
                   ELSE [H EXCEPT ![old] = None]
    <3>1. u = Unlock(m, H, active[t], old) /\ Slots = 1 .. Len(m.memory)
      BY <1>2, <1>u, <2>1 DEF Slots
    <3>2. Unlocked(m, s, old, u.manager) /\ u.heap = Freed(m, s, old, H)
      BY <1>1, <1>2, <2>5, <3>1, UnlockEffect
    <3> QED BY <2>3, <3>1, <3>2 DEF Unlocked, Freed
  <2>7. m.memory[s].locked = Known(s) \cup {b}
    BY <1>2, <2>4
  <2>8. CASE manager.custom
    <3>1. s = 1
      BY <1>2, <2>5, <2>8
    <3>2. old \in Known(s)
      BY <1>5, <2>1, <2>8, <3>1 DEF BufferInv, ArrayInv
    <3>3. PooledOld(h) = {old} /\ FreedOld(h) = {}
      BY <1>5, <2>1, <2>8 DEF PooledOld, FreedOld
    <3>4. heap' = H
      BY <2>6, <2>7, <3>2
    <3>5. \A j \in Slots : j # s => Known(j)' = Known(j) /\ Pooled(j)' = Pooled(j)
      BY <1>2, <2>4, <2>6 DEF Known, Pooled
    <3>6. \A j \in Slots : j = s =>
             Known(j)' = (Known(j) \cup {b}) \ {old} /\ Pooled(j)' = (Pooled(j) \ {b}) \cup {old}
      BY <1>2, <2>4, <2>6, <2>7, <3>2 DEF Known, Pooled
    <3> QED BY <1>1, <1>2, <2>4, <2>6, <3>3, <3>4, <3>5, <3>6 DEF Taken
  <2>9. CASE ~ manager.custom
    <3>1. old \notin Known(s)
      <4> SUFFICES ASSUME old \in Known(s) PROVE FALSE
        OBVIOUS
      <4>1. PICK g \in Handles : HeldBy(g, old) /\ Slot(arr[g].dev) = s
        BY <2>2 DEF BufferInv, KnownInv
      <4>2. g = h
        BY <1>5, <2>1, <4>1 DEF BufferInv, ArrayInv
      <4>3. arr[h].dev \in Nat /\ arr[h].dev + 1 = active[t] + 1
        BY <1>1, <1>5, <2>4, <2>9, <4>1, <4>2, BufferFacts DEF Slot
      <4>4. pool[arr[h].dev + 1] = Context(t)
        BY <4>3 DEF Context
      <4> QED BY <1>5, <4>4
    <3>2. PooledOld(h) = {} /\ FreedOld(h) = {old}
      BY <1>5, <2>1, <2>9 DEF PooledOld, FreedOld
    <3>3. old \notin m.memory[s].locked /\ ~ m.custom
      BY <1>2, <2>2, <2>7, <2>9, <3>1
    <3>4. heap' = [x \in Buffers |-> IF x = b THEN Context(t)
                                     ELSE IF x \in FreedOld(h) THEN None ELSE heap[x]]
      BY <2>2, <2>6, <3>2, <3>3
    <3>5. \A j \in Slots : j # s => Known(j)' = Known(j) /\ Pooled(j)' = Pooled(j)
      BY <1>2, <2>4, <2>6 DEF Known, Pooled
    <3>6. \A j \in Slots : j = s =>
             Known(j)' = Known(j) \cup {b} /\ Pooled(j)' = Pooled(j) \ {b}
      BY <1>2, <2>4, <2>6, <2>7, <3>3 DEF Known, Pooled
    <3> QED BY <1>1, <1>2, <2>4, <2>6, <3>2, <3>4, <3>5, <3>6 DEF Taken
  <2> QED BY <2>8, <2>9
<1> QED BY <1>4, <1>5

\* The invariant after an array has taken a buffer nobody else is about to get.
LEMMA TakeBuffers ==
    ASSUME Inv, BufferInv, NEW t \in Threads, NEW h \in Handles, NEW b \in Buffers,
           Taken(t, h, b), UNCHANGED <<pool, active>>,
           \A u \in Threads : call[u].op \notin {"add", "replace"},
           call[t].op \in {"idle", "alloc"}, call'[t].op = "idle",
           \A u \in Threads \ {t} : call'[u] = call[u],
           \A u \in Threads \ {t} : call[u].op = "alloc" =>
               call[u].handle # h /\ call[u].buf # b,
           Takeable(b, Slot(active[t]))
    PROVE  BufferInv'
<1>1. TypeInv /\ ActiveListed(t)
  BY ActiveCovered, SlotFacts DEF Inv, Context, Slots, ActiveListed
<1>2. PlacesInv'
  <2>1. PlacesInv
    BY DEF BufferInv, PlacesInv
  <2>2. pool' = pool
    OBVIOUS
  <2> QED BY <1>1, <2>1, <2>2, TakenKeeps
<1>3. /\ manager'.custom = manager.custom /\ Slots' = Slots
      /\ \A j \in Slots : Known(j)' \subseteq Known(j) \cup {b}
      /\ ~ manager.custom => \A j \in Slots : Pooled(j)' \subseteq Pooled(j)
      /\ \A x \in Buffers : x # b /\ heap[x] = None => heap'[x] = None
      /\ \A g \in Handles \ {h} : arr'[g] = arr[g] /\ Live(g)' = Live(g)
      /\ \A u : Context(u)' = Context(u)
  <2>1. ~ manager.custom => PooledOld(h) = {}
    BY DEF PooledOld
  <2>2. arr \in [Handles -> Arrays]
    BY <1>1 DEF TypeInv
  <2>3. \A j \in Slots : Known(j)' \subseteq Known(j) \cup {b}
    BY DEF Taken
  <2>4. ~ manager.custom => \A j \in Slots : Pooled(j)' \subseteq Pooled(j)
    BY <2>1 DEF Taken
  <2>5. \A x \in Buffers : x # b /\ heap[x] = None => heap'[x] = None
    BY DEF Taken
  <2> QED BY <2>2, <2>3, <2>4, <2>5 DEF Taken, Slots, Live, Context
<1>4. AllocInv'
  <2>1. AllocInv
    BY DEF BufferInv
  <2>2. ASSUME NEW u \in Threads, call'[u].op = "alloc"
        PROVE  /\ call'[u] = call[u] /\ Context(u)' = Context(u)
               /\ heap'[call[u].buf] = None
               /\ \A i \in Slots' : call[u].buf \notin Known(i)'
               /\ \A g : g = call[u].handle /\ Live(g)' =>
                     Live(g) /\ pool'[arr'[g].dev + 1] = pool[arr[g].dev + 1]
    <3>1. /\ u # t /\ call'[u] = call[u] /\ call[u].op = "alloc"
          /\ call[u].handle # h /\ call[u].buf # b
      BY <2>2
    <3>2. call[u].handle \in Handles /\ call[u].buf \in Buffers
      BY <1>1, <3>1, CallFacts
    <3>3. heap[call[u].buf] = None /\ \A i \in Slots : call[u].buf \notin Known(i)
      BY <2>1, <3>1 DEF AllocInv
    <3> QED BY <1>3, <3>1, <3>2, <3>3
  <2> QED BY <2>1, <2>2, AllocKept
<1>5. CallsInv'
  <2>1. \A u \in Threads : call'[u].op \in {"remove", "erase"} =>
           call'[u] = call[u] /\ call[u].idx \in Nat
    BY <1>1, CallFacts
  <2>2. \A u \in Threads : call'[u].op # "replace"
    OBVIOUS
  <2> QED BY <1>3, <2>1, <2>2, CallsKept DEF BufferInv
<1> QED BY <1>2, <1>4, <1>5 DEF BufferInv, PlacesInv

LEMMA AllocReuseBuffers ==
    ASSUME Careful, Inv, BufferInv, NEW t \in Threads, NEW h \in Handles, AllocReuse(t, h)
    PROVE  BufferInv'
<1>1. /\ call[t].op = "idle" /\ \A u \in Threads : call[u].op \notin {"add", "replace"}
      /\ TypeInv /\ ~ manager.custom /\ NeedsBuffer(t, h)
      /\ UNCHANGED <<pool, active, call>>
  BY Begun DEF AllocReuse, NeedsBuffer, Inv
<1>2. PICK s \in Slots : s = Slot(active[t])
  BY <1>1, ActiveCovered DEF Slots
<1>3. PICK b \in Pooled(s) : TakeBuffer(t, h, b, heap)
  BY <1>2 DEF AllocReuse, Pooled
<1>4. /\ b \in Buffers /\ heap[b] # None /\ Takeable(b, s)
      /\ heap[b] = pool[s]
  BY <1>1, <1>3, BufferFacts DEF BufferInv, PooledInv, Takeable
<1>5. /\ s = active[t] + 1 /\ active[t] \in Nat /\ Context(t) \in Contexts
      /\ heap[b] = Context(t)
  BY <1>1, <1>2, <1>4, ActiveCovered DEF Slot, Context
<1>6. Taken(t, h, b)
  <2>1. heap = [x \in Buffers |-> IF x = b THEN Context(t) ELSE heap[x]]
    BY <1>4, <1>5 DEF BufferInv
  <2>2. Live(h) => pool[arr[h].dev + 1] # Context(t)
    BY <1>1 DEF NeedsBuffer
  <2> QED BY <1>2, <1>3, <1>4, <2>1, <2>2, TakeEffect
<1> QED
  BY <1>1, <1>2, <1>4, <1>5, <1>6, TakeBuffers DEF NeedsBuffer, BufferInv, AllocInv

LEMMA AllocMissBuffers ==
    ASSUME Careful, ~ ReusesListed, Inv, BufferInv, NEW t \in Threads, NEW h \in Handles,
           AllocMiss(t, h)
    PROVE  BufferInv'
<1>1. /\ call[t].op = "idle" /\ \A u \in Threads : call[u].op \notin {"add", "replace"}
      /\ TypeInv /\ NeedsBuffer(t, h) /\ call \in [Threads -> Calls]
      /\ UNCHANGED <<pool, active, manager, heap, arr>>
  BY Begun DEF AllocMiss, NeedsBuffer, Inv, TypeInv
<1>2. PICK b \in Unused :
         call' = [call EXCEPT ![t] = [op |-> "alloc", handle |-> h, buf |-> b]]
  BY DEF AllocMiss
<1>3. /\ call'[t] = [op |-> "alloc", handle |-> h, buf |-> b]
      /\ \A u \in Threads \ {t} : call'[u] = call[u]
  BY <1>1, <1>2
<1>4. /\ heap[b] = None
      /\ \A u \in Threads : call[u].op = "alloc" => call[u].buf # b
      /\ \A i \in Slots : b \notin Known(i)
  BY DEF Unused, Listed, Slots, Known, Idle
<1>5. /\ Slots' = Slots /\ \A j : Known(j)' = Known(j) /\ Pooled(j)' = Pooled(j)
      /\ \A g : Live(g)' = Live(g) /\ \A u : Context(u)' = Context(u)
  BY <1>1 DEF Slots, Known, Pooled, Live, Context
<1>6. PlacesInv'
  BY <1>1, PoolFrame, BufferFacts DEF BufferInv, PlacesInv
<1>7. AllocInv'
  <2> SUFFICES ASSUME NEW u \in Threads, call'[u].op = "alloc"
               PROVE  /\ heap[call'[u].buf] = None
                      /\ \A i \in Slots : call'[u].buf \notin Known(i)
                      /\ \A g : g = call'[u].handle /\ Live(g) =>
                            pool[arr[g].dev + 1] # Context(u)
                      /\ \A v \in Threads \ {u} : call'[v].op = "alloc" =>
                            /\ call'[v].buf # call'[u].buf
                            /\ call'[v].handle # call'[u].handle
    BY <1>1, <1>5 DEF AllocInv, Live
  <2>1. \A v \in Threads : call[v].op = "alloc" => call[v].handle # h
    BY <1>1 DEF NeedsBuffer
  <2>2. CASE u = t
    <3>1. call'[u].buf = b /\ call'[u].handle = h
      BY <1>3, <2>2
    <3>2. Live(h) => pool[arr[h].dev + 1] # Context(t)
      BY <1>1 DEF NeedsBuffer
    <3> QED BY <1>3, <1>4, <2>1, <2>2, <3>1, <3>2
  <2>3. CASE u # t
    <3>1. call'[u] = call[u]
      BY <1>3, <2>3
    <3> QED BY <1>3, <1>4, <2>1, <2>3, <3>1 DEF BufferInv, AllocInv
  <2> QED BY <2>2, <2>3
<1>8. CallsInv'
  <2>1. \A u \in Threads : call'[u].op \in {"remove", "erase"} =>
           call'[u] = call[u] /\ call[u].idx \in Nat
    BY <1>1, <1>3, CallFacts
  <2>2. \A u \in Threads : call'[u].op # "replace"
    BY <1>1, <1>3
  <2> QED BY <1>1, <1>5, <2>1, <2>2, CallsKept DEF BufferInv
<1> QED BY <1>6, <1>7, <1>8 DEF BufferInv, PlacesInv

LEMMA NativeAllocBuffers ==
    ASSUME Inv, BufferInv, NEW t \in Threads, NativeAlloc(t)
    PROVE  BufferInv'
<1>1. PICK h, b : h = call[t].handle /\ b = call[t].buf
  OBVIOUS
<1>2. /\ call[t].op = "alloc" /\ TypeInv /\ call \in [Threads -> Calls]
      /\ h \in Handles /\ b \in Buffers /\ heap \in [Buffers -> Contexts \cup {None}]
      /\ TakeBuffer(t, h, b, [heap EXCEPT ![b] = Context(t)])
      /\ call' = [call EXCEPT ![t] = Idle] /\ UNCHANGED <<pool, active>>
  BY <1>1, CallFacts DEF NativeAlloc, Inv, TypeInv, BufferInv
<1>3. \A u \in Threads : call[u].op \notin {"add", "replace"}
  <2> SUFFICES ASSUME NEW u \in Threads, call[u].op \in {"add", "replace"} PROVE FALSE
    OBVIOUS
  <2>1. u # t /\ Alone(u)
    BY <1>2 DEF Inv, IndexInv, AddInv, ReplaceInv
  <2> QED BY <1>2, <2>1 DEF Alone, Idle
<1>4. /\ heap[b] = None /\ \A i \in Slots : b \notin Known(i)
      /\ Live(h) => pool[arr[h].dev + 1] # Context(t)
      /\ \A u \in Threads \ {t} : call[u].op = "alloc" =>
            call[u].buf # b /\ call[u].handle # h
  BY <1>1, <1>2 DEF BufferInv, AllocInv
<1>5. Takeable(b, Slot(active[t]))
  <2>1. \A i \in Slots : b \notin Pooled(i)
    BY <1>4 DEF BufferInv, PooledInv
  <2>2. ASSUME NEW g \in Handles, HeldBy(g, b) PROVE FALSE
    <3>1. Live(g) /\ heap[b] = arr[g].ctx /\ arr[g].ctx \in Contexts
      BY <1>2, <2>2, BufferFacts DEF HeldBy, BufferInv, ArrayInv
    <3> QED BY <1>2, <1>4, <3>1, BufferFacts
  <2> QED BY <1>4, <2>1, <2>2 DEF Takeable
<1>6. Slot(active[t]) \in Slots
  BY <1>2, <1>3, ActiveCovered DEF Slots
<1>7. Taken(t, h, b)
  <2>1. [heap EXCEPT ![b] = Context(t)]
            = [x \in Buffers |-> IF x = b THEN Context(t) ELSE heap[x]]
    BY <1>2
  <2> QED BY <1>2, <1>4, <1>5, <1>6, <2>1, TakeEffect
<1>8. call'[t].op = "idle" /\ \A u \in Threads \ {t} : call'[u] = call[u]
  BY <1>2 DEF Idle
<1> QED BY <1>2, <1>3, <1>4, <1>5, <1>7, <1>8, TakeBuffers

LEMMA ReleaseBuffers ==
    ASSUME Careful, Inv, BufferInv, NEW t \in Threads, NEW h \in Handles, Release(t, h)
    PROVE  BufferInv'
<1>1. /\ call[t].op = "idle" /\ \A u \in Threads : call[u].op \notin {"add", "replace"}
      /\ TypeInv /\ manager \in Managers /\ Live(h) /\ UNCHANGED <<pool, active, call>>
      /\ arr' = [arr EXCEPT ![h] = NoArray]
      /\ \A u \in Threads : call[u].op = "alloc" => call[u].handle # h
  BY Begun DEF Release, Inv, TypeInv
<1>2. PICK dev, b : dev = arr[h].dev /\ b = arr[h].buf
  OBVIOUS
<1>3. /\ dev \in Nat /\ dev < Len(pool) /\ b \in Buffers /\ Slot(dev) \in Slots
      /\ manager.custom => Slots = {1}
  BY <1>1, <1>2, BufferFacts, SlotFacts DEF Inv, IndexInv, AllBelow, ArraysBelow
<1>4. PICK s \in Slots : s = Slot(dev)
  BY <1>3
<1>5. PICK u : u = Unlock(manager, heap, dev, b)
  OBVIOUS
<1>6. manager' = u.manager /\ heap' = u.heap
  BY <1>2, <1>3, <1>5 DEF Release, ReleaseDevice
<1>7. Unlocked(manager, s, b, manager') /\ heap' = Freed(manager, s, b, heap)
  <2>1. s = (IF manager.custom THEN 1 ELSE dev + 1) /\ s \in 1 .. Len(manager.memory)
    BY <1>4 DEF Slot, Slots
  <2> QED BY <1>1, <1>3, <1>5, <1>6, <2>1, UnlockEffect
<1>8. manager.custom => b \in Known(s)
  BY <1>1, <1>2, <1>3 DEF BufferInv, ArrayInv
<1>9. Released(h, s)
  <2>1. /\ manager'.custom = manager.custom /\ Len(manager'.memory) = Len(manager.memory)
        /\ \A j \in Slots :
              /\ Known(j)' = IF j = s THEN Known(j) \ {b} ELSE Known(j)
              /\ Pooled(j)' = IF j = s THEN Pooled(j) \cup PooledBy(s, b) ELSE Pooled(j)
    BY <1>7 DEF Unlocked, Known, Pooled, PooledBy, Slots
  <2>2. heap' = [x \in Buffers |-> IF x = b /\ x \notin Known(s) THEN None ELSE heap[x]]
    <3>1. heap \in [Buffers -> Contexts \cup {None}]
      BY DEF BufferInv
    <3>2. heap' = IF b \in Known(s) THEN heap ELSE [heap EXCEPT ![b] = None]
      BY <1>7, <1>8 DEF Freed, Known
    <3> QED BY <3>1, <3>2
  <2> QED BY <1>1, <1>2, <2>1, <2>2 DEF Released
<1>10. PlacesInv'
  <2>1. PlacesInv
    BY DEF BufferInv, PlacesInv
  <2> QED BY <1>1, <1>2, <1>3, <1>4, <1>9, <2>1, ReleasedKeeps
<1>11. /\ manager'.custom = manager.custom /\ Slots' = Slots
       /\ \A j \in Slots : Known(j)' \subseteq Known(j)
       /\ \A j \in Slots : j # s => Pooled(j)' = Pooled(j)
       /\ \A x \in Buffers : heap[x] = None => heap'[x] = None
       /\ \A g \in Handles \ {h} : arr'[g] = arr[g] /\ Live(g)' = Live(g)
       /\ \A v : Context(v)' = Context(v)
  <2>1. arr \in [Handles -> Arrays]
    BY <1>1 DEF TypeInv
  <2> QED BY <1>1, <1>9, <2>1 DEF Released, Slots, Live, Context
<1>12. AllocInv'
  <2>1. AllocInv
    BY DEF BufferInv
  <2>2. ASSUME NEW v \in Threads, call'[v].op = "alloc"
        PROVE  /\ call'[v] = call[v] /\ Context(v)' = Context(v)
               /\ heap'[call[v].buf] = None
               /\ \A i \in Slots' : call[v].buf \notin Known(i)'
               /\ \A g : g = call[v].handle /\ Live(g)' =>
                     Live(g) /\ pool'[arr'[g].dev + 1] = pool[arr[g].dev + 1]
    <3>1. call'[v] = call[v] /\ call[v].op = "alloc" /\ call[v].handle # h
      BY <1>1, <2>2
    <3>2. call[v].handle \in Handles /\ call[v].buf \in Buffers
      BY <1>1, <3>1, CallFacts
    <3>3. heap[call[v].buf] = None /\ \A i \in Slots : call[v].buf \notin Known(i)
      BY <2>1, <3>1 DEF AllocInv
    <3> QED BY <1>1, <1>11, <3>1, <3>2, <3>3
  <2> QED BY <2>1, <2>2, AllocKept
<1>13. CallsInv'
  <2>1. ASSUME NEW v \in Threads, call'[v].op \in {"remove", "erase"}
        PROVE  /\ call'[v] = call[v] /\ call[v].idx \in Nat
               /\ ~ manager.custom => \A i \in Slots :
                      i > call[v].idx => Pooled(i)' \subseteq Pooled(i)
    <3>1. call'[v] = call[v] /\ call[v].op \in {"remove", "erase"} /\ call[v].idx \in Nat
      BY <1>1, <2>1, CallFacts
    <3>2. dev < call[v].idx
      BY <1>1, <1>2, <3>1 DEF Inv, IndexInv, RemoveInv, OthersBelow, ArraysBelow
    <3>3. ~ manager.custom => s <= call[v].idx
      BY <1>3, <1>4, <3>1, <3>2 DEF Slot
    <3>4. s \in Nat
      BY DEF Slots
    <3>5. ~ manager.custom => \A i \in Slots : i > call[v].idx => i # s
      BY <3>1, <3>3, <3>4
    <3> QED BY <1>11, <3>1, <3>5
  <2>2. \A v \in Threads : call'[v].op # "replace"
    BY <1>1
  <2> QED BY <1>11, <2>1, <2>2, CallsKept DEF BufferInv
<1> QED BY <1>10, <1>12, <1>13 DEF BufferInv, PlacesInv

LEMMA DeviceGCBuffers ==
    ASSUME Careful, Inv, BufferInv, NEW t \in Threads, DeviceGC(t)
    PROVE  BufferInv'
<1>1. /\ call[t].op = "idle" /\ \A u \in Threads : call[u].op \notin {"add", "replace"}
      /\ TypeInv /\ UNCHANGED <<pool, active, arr, call>>
  BY Begun DEF DeviceGC, Inv
<1>2. PICK s \in Slots : s = Slot(active[t])
  BY <1>1, ActiveCovered DEF Slots
<1>3. Collected(s)
  BY <1>1, <1>2, CollectEffect DEF DeviceGC
<1>4. PlacesInv'
  BY <1>1, <1>3, CollectedKeeps DEF BufferInv, PlacesInv
<1>5. /\ manager'.custom = manager.custom /\ Slots' = Slots
      /\ \A j \in Slots : Known(j)' = Known(j) /\ Pooled(j)' \subseteq Pooled(j)
      /\ \A b \in Buffers : heap[b] = None => heap'[b] = None
      /\ \A h : Live(h)' = Live(h) /\ \A u : Context(u)' = Context(u)
  BY <1>1, <1>3 DEF Collected, Slots, Live, Context
<1>6. AllocInv'
  <2>1. \A u \in Threads : call[u].op = "alloc" => call[u].buf \in Buffers
    BY <1>1, CallFacts
  <2>2. AllocInv
    BY DEF BufferInv
  <2>3. \A u \in Threads : call'[u].op = "alloc" =>
           /\ heap'[call[u].buf] = None
           /\ \A j \in Slots' : call[u].buf \notin Known(j)'
    BY <1>1, <1>5, <2>1, <2>2 DEF AllocInv
  <2> QED BY <1>1, <1>5, <2>2, <2>3, AllocKept
<1>7. CallsInv'
  BY <1>1, <1>5, CallsKept, CallFacts DEF BufferInv
<1> QED BY <1>4, <1>6, <1>7 DEF BufferInv, PlacesInv

\* A careful program replaces the manager when no list of it matters.
LEMMA SetManagerBuffers ==
    ASSUME Careful, Inv, BufferInv, NEW t \in Threads, NEW custom \in BOOLEAN,
           SetMemoryManager(t, custom)
    PROVE  BufferInv'
<1>1. /\ Alone(t) /\ Replaceable(custom) /\ call \in [Threads -> Calls]
      /\ UNCHANGED <<pool, active, manager, heap, arr>> /\ TypeInv
      /\ call' = [call EXCEPT ![t] = [op |-> "replace", idx |-> 0, custom |-> custom,
                                      buf |-> None]]
  BY DEF SetMemoryManager, Inv, TypeInv
<1>2. /\ call'[t].op = "replace" /\ call'[t].idx = 0 /\ call'[t].custom = custom
      /\ \A u \in Threads \ {t} : call'[u].op = "idle"
  BY <1>1 DEF Alone, Idle
<1>3. PlacesInv'
  BY <1>1, PoolFrame, BufferFacts DEF BufferInv, PlacesInv
<1>4. AllocInv'
  BY <1>2 DEF AllocInv
<1>5. /\ Slots' = Slots /\ \A j : Pooled(j)' = Pooled(j)
      /\ \A h : Live(h)' = Live(h) /\ \A i \in Slots : i > 0
  BY <1>1 DEF Slots, Pooled, Live
<1>6. CallsInv'
  <2>1. custom => \A h \in Handles : ~ Live(h)
    BY <1>1 DEF Replaceable
  <2>2. manager.custom => Pooled(1) = {}
    BY <1>1 DEF Replaceable, Pooled
  <2>3. \A i \in Slots : ~ (i <= 0)
    BY DEF Slots
  <2> QED BY <1>1, <1>2, <1>5, <2>1, <2>2, <2>3 DEF CallsInv
<1> QED BY <1>3, <1>4, <1>6 DEF BufferInv, PlacesInv

\* Nobody but the replacing thread is in a call.
LEMMA ReplaceFacts ==
    ASSUME Inv, NEW t \in Threads, call[t].op = "replace"
    PROVE  /\ TypeInv /\ call \in [Threads -> Calls] /\ call[t].idx \in Nat
           /\ \A u \in Threads \ {t} : call[u].op = "idle"
           /\ \A u \in Threads : call[u].op # "add"
           /\ call[t].idx <= Len(pool)
<1>1. Alone(t) /\ call[t].idx <= Len(pool) /\ TypeInv
  BY DEF Inv, IndexInv, ReplaceInv
<1> QED BY <1>1, CallFacts DEF Alone, Idle, TypeInv

LEMMA ShutdownBuffers ==
    ASSUME Inv, BufferInv, NEW t \in Threads, ShutdownDevice(t)
    PROVE  BufferInv'
<1>1. PICK dev : dev = call[t].idx
  OBVIOUS
<1>2. /\ call[t].op = "replace" /\ TypeInv /\ call \in [Threads -> Calls] /\ dev \in Nat
      /\ \A u \in Threads \ {t} : call[u].op = "idle"
      /\ \A u \in Threads : call[u].op # "add"
      /\ dev < Len(pool) /\ call' = [call EXCEPT ![t].idx = dev + 1]
      /\ UNCHANGED <<pool, arr>>
  BY <1>1, ReplaceFacts DEF ShutdownDevice, getDeviceCount
<1>3. /\ call'[t].op = "replace" /\ call'[t].idx = dev + 1
      /\ call'[t].custom = call[t].custom
      /\ \A u \in Threads \ {t} : call'[u].op = "idle"
  <2>1. call[t] = [op |-> "replace", idx |-> dev, custom |-> call[t].custom, buf |-> None]
    BY <1>1, <1>2 DEF Calls, Idle
  <2>2. call'[t] = [op |-> "replace", idx |-> dev + 1, custom |-> call[t].custom, buf |-> None]
    BY <1>2, <2>1
  <2> QED BY <1>2, <2>2
<1>4. AllocInv'
  BY <1>3 DEF AllocInv
<1>5. /\ call[t].custom => \A h \in Handles : ~ Live(h)
      /\ manager.custom => Pooled(1) = {}
      /\ ~ manager.custom => \A i \in Slots : i <= dev => Pooled(i) = {}
  BY <1>1, <1>2 DEF BufferInv, CallsInv
<1>6. CASE manager.custom
  <2>1. UNCHANGED <<manager, heap>>
    BY <1>6 DEF ShutdownDevice
  <2>2. PlacesInv'
    BY <1>2, <2>1, PoolFrame DEF BufferInv, PlacesInv
  <2>3. CallsInv'
    BY <1>2, <1>3, <1>5, <1>6, <2>1 DEF CallsInv, Live, Pooled
  <2> QED BY <1>4, <2>2, <2>3 DEF BufferInv, PlacesInv
<1>7. CASE ~ manager.custom
  <2>1. PICK s \in Slots : s = dev + 1
    <3>1. dev + 1 \in 1 .. Len(pool)
      BY <1>2, BufferFacts
    <3> QED BY <1>2, <1>7, <3>1, SlotFacts
  <2>2. Collected(s)
    BY <1>1, <1>2, <1>7, <2>1, CollectEffect DEF ShutdownDevice
  <2>3. PlacesInv'
    BY <1>2, <2>2, CollectedKeeps DEF BufferInv, PlacesInv
  <2>4. /\ manager'.custom = manager.custom /\ Slots' = Slots
        /\ \A j \in Slots : Pooled(j)' = IF j = s THEN {} ELSE Pooled(j)
        /\ \A h : Live(h)' = Live(h)
    BY <1>2, <2>2 DEF Collected, Slots, Live
  <2>5. \A i \in Slots : i <= dev + 1 => Pooled(i)' = {}
    <3> SUFFICES ASSUME NEW i \in Slots, i <= dev + 1, i # s PROVE Pooled(i) = {}
      BY <2>4
    <3>1. i \in Nat
      BY DEF Slots
    <3>2. i <= dev
      BY <1>2, <2>1, <3>1
    <3> QED BY <1>5, <1>7, <3>2
  <2>6. CallsInv'
    BY <1>2, <1>3, <1>5, <1>7, <2>4, <2>5 DEF CallsInv
  <2> QED BY <1>4, <2>3, <2>6 DEF BufferInv, PlacesInv
<1> QED BY <1>6, <1>7

\* The old manager has nothing pooled when it is destroyed, and one of the
\* program takes over from arrays that are all dead.
LEMMA InstallBuffers ==
    ASSUME Inv, BufferInv, NEW t \in Threads, InstallManager(t)
    PROVE  BufferInv'
<1>1. /\ call[t].op = "replace" /\ TypeInv /\ call \in [Threads -> Calls]
      /\ \A u \in Threads \ {t} : call[u].op = "idle"
      /\ \A u \in Threads : call[u].op # "add"
      /\ call[t].idx = Len(pool)
      /\ manager' = IF call[t].custom THEN CustomManager ELSE DefaultManager(Len(pool))
      /\ call' = [call EXCEPT ![t] = Idle] /\ UNCHANGED <<pool, active, heap, arr>>
  BY ReplaceFacts DEF InstallManager, getDeviceCount
<1>2. \A i \in Slots : Pooled(i) = {}
  <2>1. CASE manager.custom
    <3>1. Pooled(1) = {} /\ Slots = {1}
      BY <1>1, <2>1, SlotFacts DEF BufferInv, CallsInv
    <3> QED BY <3>1
  <2>2. CASE ~ manager.custom
    <3>1. \A i \in Slots : i <= Len(pool) => Pooled(i) = {}
      BY <1>1, <2>2 DEF BufferInv, CallsInv
    <3>2. \A i \in Slots : Pooled(i) # {} => i <= Len(pool)
      BY <2>2 DEF BufferInv, PooledInv
    <3> QED BY <3>1, <3>2
  <2> QED BY <2>1, <2>2
<1>3. \A i \in Slots' : Known(i)' = {} /\ Pooled(i)' = {}
  <2>1. CASE call[t].custom
    <3>1. manager'.memory = <<NoMemory>>
      BY <1>1, <2>1 DEF CustomManager
    <3>2. \A i \in Slots' : manager'.memory[i] = NoMemory
      BY <3>1 DEF Slots
    <3> QED BY <3>2 DEF Known, Pooled, NoMemory
  <2>2. CASE ~ call[t].custom
    <3>1. manager'.memory = [i \in 1 .. Len(pool) |-> NoMemory] /\ Len(pool) \in Nat
      BY <1>1, <2>2, BufferFacts DEF DefaultManager
    <3>2. \A i \in Slots' : manager'.memory[i] = NoMemory
      BY <3>1 DEF Slots
    <3> QED BY <3>2 DEF Known, Pooled, NoMemory
  <2> QED BY <2>1, <2>2
<1>4. manager'.custom => \A h \in Handles : ~ Live(h)
  <2>1. CASE call[t].custom
    BY <1>1, <2>1 DEF BufferInv, CallsInv
  <2>2. CASE ~ call[t].custom
    BY <1>1, <2>2 DEF DefaultManager
  <2> QED BY <2>1, <2>2
<1>5. (\A h : Live(h)' = Live(h)) /\ \A h, b : HeldBy(h, b)' = HeldBy(h, b)
  BY <1>1 DEF Live, HeldBy
<1>6. ArrayInv'
  <2> SUFFICES ASSUME NEW h \in Handles, Live(h)
               PROVE  /\ heap[arr[h].buf] = arr[h].ctx
                      /\ pool[arr[h].dev + 1] = arr[h].ctx
                      /\ \A g \in Handles \ {h} : ~ HeldBy(g, arr[h].buf)
    BY <1>1, <1>4, <1>5 DEF ArrayInv, HeldBy
  <2> QED BY DEF BufferInv, ArrayInv
<1>7. PooledInv' /\ KnownInv'
  BY <1>3 DEF PooledInv, KnownInv
<1>8. AliveInv'
  BY <1>1, <1>2, <1>5 DEF BufferInv, AliveInv
<1>9. \A u \in Threads : call'[u].op = "idle"
  BY <1>1 DEF Idle
<1>10. AllocInv' /\ CallsInv'
  BY <1>9 DEF AllocInv, CallsInv
<1> QED BY <1>1, <1>6, <1>7, <1>8, <1>10 DEF BufferInv

-----------------------------------------------------------------------------
LEMMA BufferInit == Init => BufferInv
<1> SUFFICES ASSUME Init PROVE BufferInv
  OBVIOUS
<1>1. /\ \A h \in Handles : ~ Live(h)
      /\ \A t \in Threads : call[t].op = "idle"
      /\ \A b \in Buffers : heap[b] = None
      /\ heap \in [Buffers -> Contexts \cup {None}]
  BY DEF Init, Live, Idle
<1>2. \A i \in Slots : Known(i) = {} /\ Pooled(i) = {}
  <2>1. Len(Internal) \in Nat
    BY DeviceAssumption
  <2>2. manager.memory = [i \in 1 .. Len(Internal) |-> NoMemory]
    BY DEF Init, DefaultManager
  <2>3. \A i \in Slots : manager.memory[i] = NoMemory
    BY <2>1, <2>2 DEF Slots
  <2> QED BY <2>3 DEF Known, Pooled, NoMemory
<1> QED BY <1>1, <1>2
        DEF BufferInv, ArrayInv, PooledInv, KnownInv, AliveInv, AllocInv, CallsInv

LEMMA BufferNext ==
    ASSUME Careful, ~ ReusesListed, Inv, BufferInv, [Next]_vars
    PROVE  BufferInv'
<1>1. ASSUME NEW t \in Threads, NEW dev, SetDevice(t, dev)
      PROVE  BufferInv'
  <2>1. \A u \in Threads \ {t} : active'[u] = active[u]
    BY <1>1 DEF SetDevice, Inv, TypeInv
  <2> QED BY <1>1, <2>1, SetDeviceBuffers DEF SetDevice
<1>2. ASSUME NEW t \in Threads, NEW c, SetDeviceContext(t, c)
      PROVE  BufferInv'
  <2>1. \A u \in Threads \ {t} : active'[u] = active[u]
    BY <1>2 DEF SetDeviceContext, Inv, TypeInv
  <2> QED BY <1>2, <2>1, SetDeviceBuffers DEF SetDeviceContext
<1>3. CASE UNCHANGED vars
  <2>1. /\ Slots' = Slots /\ \A j : Known(j)' = Known(j) /\ Pooled(j)' = Pooled(j)
        /\ \A h : Live(h)' = Live(h) /\ \A u : Context(u)' = Context(u)
    BY <1>3 DEF vars, Slots, Known, Pooled, Live, Context
  <2>2. TypeInv
    BY DEF Inv
  <2>3. PlacesInv'
    BY <1>3, <2>2, PoolFrame, BufferFacts DEF vars, BufferInv, PlacesInv
  <2>4. AllocInv' /\ CallsInv'
    BY <1>3, <2>1 DEF vars, BufferInv, AllocInv, CallsInv, Live
  <2> QED BY <2>3, <2>4 DEF BufferInv, PlacesInv
<1> QED
  BY <1>1, <1>2, <1>3, AddDeviceBuffers, AddMemoryBuffers, RemoveDeviceBuffers,
     RemoveMemoryBuffers, EraseDeviceBuffers, AllocReuseBuffers, AllocMissBuffers,
     NativeAllocBuffers, ReleaseBuffers, DeviceGCBuffers, SetManagerBuffers,
     ShutdownBuffers, InstallBuffers
  DEF Next

LEMMA BuffersInPlace ==
    Careful /\ ~ ReusesListed => (Spec => [](Inv /\ BufferInv))
<1> SUFFICES ASSUME Careful, ~ ReusesListed PROVE Spec => [](Inv /\ BufferInv)
  OBVIOUS
<1>1. Init => Inv /\ BufferInv
  BY InvInit, BufferInit
<1>2. (Inv /\ BufferInv) /\ [Next]_vars => (Inv /\ BufferInv)'
  BY InvNext, BufferNext
<1> QED BY <1>1, <1>2, PTL DEF Spec

\* An array reads and writes memory of the context its device had when it was
\* made: whatever was pooled, migrated, collected or forgotten in between, the
\* buffer is alive, its own, and the device index still means that context.
\* The assumption ~ ReusesListed is needed: a migration leaves the address on
\* the list of the old device, and one that comes back is taken for it.
THEOREM OwnContextHolds ==
    Careful /\ ~ ReusesListed => (Spec => []OwnContext)
<1> SUFFICES ASSUME Careful, ~ ReusesListed PROVE Spec => []OwnContext
  OBVIOUS
<1>1. Inv /\ BufferInv => OwnContext
  <2> SUFFICES ASSUME Inv, BufferInv, NEW h \in Handles, Live(h)
               PROVE  /\ heap[arr[h].buf] = arr[h].ctx
                      /\ pool[arr[h].dev + 1] = arr[h].ctx
                      /\ \A g \in Handles \ {h} : arr[g].buf # arr[h].buf
    BY DEF OwnContext
  <2>1. \A g \in Handles \ {h} : ~ HeldBy(g, arr[h].buf)
    BY DEF BufferInv, ArrayInv
  <2>2. \A g \in Handles : ~ Live(g) => arr[g].buf # arr[h].buf
    BY BufferFacts DEF Inv
  <2> QED BY <2>1, <2>2 DEF BufferInv, ArrayInv, HeldBy
<1> QED BY <1>1, BuffersInPlace, PTL

\* No buffer outlives the last list or array that leads to it, through all
\* removals of devices and replacements of managers.
THEOREM NothingLostHolds ==
    Careful /\ ~ ReusesListed => (Spec => []NothingLost)
<1> SUFFICES ASSUME Careful, ~ ReusesListed PROVE Spec => []NothingLost
  OBVIOUS
<1>1. Inv /\ BufferInv => NothingLost
  <2> SUFFICES ASSUME Inv, BufferInv, NEW b \in Buffers, heap[b] # None
               PROVE  \/ \E h \in Handles : arr[h].buf = b
                      \/ \E i \in 1 .. Len(manager.memory) :
                            /\ b \in manager.memory[i].free
                            /\ manager.custom \/ i <= Len(pool)
    BY DEF NothingLost
  <2>1. CASE \E h \in Handles : HeldBy(h, b)
    BY <2>1 DEF HeldBy
  <2>2. ASSUME NEW i \in Slots, b \in Pooled(i)
        PROVE  i \in 1 .. Len(manager.memory) /\ b \in manager.memory[i].free
               /\ (manager.custom \/ i <= Len(pool))
    BY <2>2 DEF BufferInv, PooledInv, Pooled, Slots
  <2> QED BY <2>1, <2>2 DEF BufferInv, AliveInv
<1> QED BY <1>1, BuffersInPlace, PTL
=============================================================================
