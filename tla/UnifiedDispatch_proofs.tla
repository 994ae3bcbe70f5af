------------------------ MODULE UnifiedDispatch_proofs ------------------------
(***************************************************************************)
(* Proofs about UnifiedDispatch, for any number of threads and arrays and  *)
(* every set of libraries found.  A call changes the state of its own      *)
(* thread only, so the invariant is a property of each thread's state: the *)
(* handle and the backend name the same library, and a cached function     *)
(* pointer is what dlsym returns for it in the library of its index.       *)
(***************************************************************************)
EXTENDS UnifiedDispatch, FiniteSetTheorems, TLAPS

-----------------------------------------------------------------------------
(* The inductive invariant.                                                *)

\* The state of a thread is well typed ...
TypedThread(s) ==
    /\ s \in ThreadState
    /\ \A b \in Backends : s.device[b] < NumDevices[b]
    /\ \A w \in Backends \cup {"unified"} : s.error[w] <= s.errors

\* ... its handle is the library of its backend, and there is none only when
\* no library was loaded ...
HandleInv(s) ==
    \/ s.handle \in manager.loaded /\ s.backend = s.handle
    \/ s.handle = NoLib /\ s.backend = Default /\ manager.loaded = {}

\* ... and a cached pointer is the one of the library it was looked up in.
CacheInv(s) ==
    \A f \in Functions :
        \/ s.func[f] = Unset /\ (s.index[f] # Unset => s.handle = NoLib)
        \/ s.index[f] \in manager.loaded /\ s.func[f] = Resolve(s.index[f], f)

ThreadInv(s) == TypedThread(s) /\ HandleInv(s) /\ CacheInv(s)

ManagerInv ==
    /\ manager.loaded \subseteq Backends
    /\ \/ manager.handle \in manager.loaded /\ manager.backend = manager.handle
       \/ manager.handle = NoLib /\ manager.backend = Default
          /\ manager.loaded = {}

ArrayInv ==
    /\ DOMAIN array \subseteq Arrays
    /\ \A a \in DOMAIN array :
          /\ array[a].backend \in manager.loaded
          /\ array[a].device \in 0..NumDevices[array[a].backend] - 1

DispatchInv ==
    /\ ManagerInv
    /\ thread \in [Threads -> ThreadState]
    /\ \A t \in Threads : ThreadInv(thread[t])
    /\ ArrayInv

\* Libraries of one version: each exports every function.
OneVersion == \A b \in Backends : Provides[b] = Functions

-----------------------------------------------------------------------------

LEMMA BackendNames ==
    /\ Backends = {"cuda", "oneapi", "opencl", "cpu"}
    /\ \A i \in 1..4 : Order[i] \in Backends
    /\ NoLib \notin Backends /\ NoCall \notin Backends /\ Default \notin Backends
    /\ Unset \notin Backends /\ "unified" \notin Backends
<1>1. Backends = {Order[1], Order[2], Order[3], Order[4]}
    BY DEF Backends
<1>2. Backends = {"cuda", "oneapi", "opencl", "cpu"}
    BY <1>1 DEF Order
<1>3. \A i \in 1..4 : Order[i] \in Backends
    BY DEF Backends
<1> QED
    BY <1>2, <1>3 DEF NoLib, NoCall, Default, Unset

\* One step of the constructor's loop.
OpenedInv(m) ==
    /\ m.loaded \subseteq Backends
    /\ \/ m.handle \in m.loaded /\ m.backend = m.handle
       \/ m.handle = NoLib /\ m.backend = Default /\ m.loaded = {}

LEMMA OpenLibraryKeeps ==
    ASSUME NEW found, NEW b \in Backends, NEW m, OpenedInv(m)
    PROVE  OpenedInv(OpenLibrary(found, b, m))
BY DEF OpenedInv, OpenLibrary

LEMMA DispatchInit == Init => DispatchInv
<1> SUFFICES ASSUME Init PROVE DispatchInv
    OBVIOUS
<1>1. PICK found \in Installed : manager = AFSymbolManager(found)
    BY DEF Init
<1>2. OpenedInv(Nothing)
    BY DEF OpenedInv, Nothing
<1>3. OpenedInv(manager)
    BY <1>1, <1>2, OpenLibraryKeeps, BackendNames DEF AFSymbolManager
<1>4. ManagerInv
    BY <1>3 DEF OpenedInv, ManagerInv
<1>5. ThreadInv(InitThread(manager))
    BY <1>4, BackendNames, UnifiedAssumption
    DEF ThreadInv, TypedThread, HandleInv, CacheInv, InitThread, ThreadState,
        ManagerInv
<1> QED
    BY <1>4, <1>5 DEF Init, DispatchInv, ArrayInv, ThreadInv, TypedThread

-----------------------------------------------------------------------------
(* The parts of a call.                                                    *)

\* An error is kept in one string and changes nothing else.
LEMMA FailedKeeps ==
    ASSUME NEW s, ThreadInv(s), NEW w \in Backends \cup {"unified"}
    PROVE  /\ ThreadInv(Failed(s, w))
           /\ Failed(s, w).backend = s.backend
           /\ Failed(s, w).device = s.device
<1>1. s \in ThreadState
    BY DEF ThreadInv, TypedThread
<1>2. Failed(s, w) \in ThreadState
    <2> DEFINE e1 == [s EXCEPT !.error[w] = s.errors + 1]
               e2 == [e1 EXCEPT !.errors = s.errors + 1]
               e3 == [e2 EXCEPT !.unread = TRUE]
    <2>1. e1 \in ThreadState /\ e1.errors = s.errors
        BY <1>1 DEF ThreadState
    <2>2. e2 \in ThreadState
        <3> HIDE DEF e1
        <3> QED BY <1>1, <2>1 DEF ThreadState
    <2>3. e3 \in ThreadState
        <3> HIDE DEF e2
        <3> QED BY <2>2 DEF ThreadState
    <2>4. Failed(s, w) = e3
        BY <1>1 DEF Failed, ThreadState
    <2> QED
        BY <2>3, <2>4
<1>3. \A v \in Backends \cup {"unified"} :
          Failed(s, w).error[v] <= Failed(s, w).errors
    BY <1>1 DEF Failed, ThreadState, ThreadInv, TypedThread
<1>4. /\ Failed(s, w).backend = s.backend /\ Failed(s, w).handle = s.handle
      /\ Failed(s, w).device = s.device
      /\ Failed(s, w).func = s.func /\ Failed(s, w).index = s.index
    BY <1>1 DEF Failed, ThreadState
<1> QED
    BY <1>2, <1>3, <1>4 DEF ThreadInv, TypedThread, HandleInv, CacheInv

\* CALL leaves a consistent cache behind and reaches the active library, if
\* the libraries export the same functions.
LEMMA CallTargetKeeps ==
    ASSUME ManagerInv, NEW s, ThreadInv(s), NEW f \in Functions
    PROVE  LET c == CallTarget(s, f)
           IN  /\ ThreadInv(c.s)
               /\ c.s.backend = s.backend /\ c.s.device = s.device
               /\ c.lib \in Backends => c.lib \in manager.loaded
               /\ OneVersion /\ c.lib # NoCall => c.lib = s.backend
<1> DEFINE index == IF s.index[f] = Unset THEN s.backend ELSE s.index[f]
           func  == IF s.func[f] = Unset THEN Resolve(s.handle, f) ELSE s.func[f]
           fresh == Resolve(s.handle, f)
           With(i, g) == [s EXCEPT !.index[f] = i, !.func[f] = g]
           c == CallTarget(s, f)
<1>1. /\ s \in ThreadState /\ manager.loaded \subseteq Backends
      /\ HandleInv(s) /\ CacheInv(s)
    BY DEF ThreadInv, TypedThread, ManagerInv
<1>2. CASE s.handle = NoLib
    <2>1. c = [s |-> [s EXCEPT !.index[f] = index], lib |-> NoCall]
        BY <1>2 DEF CallTarget
    <2>2. s.backend = Default /\ manager.loaded = {}
        BY <1>1, <1>2, BackendNames DEF HandleInv
    <2>3. c.s \in ThreadState
        BY <1>1, <2>1, <2>2 DEF ThreadState
    <2>4. /\ c.s.backend = s.backend /\ c.s.handle = s.handle
          /\ c.s.device = s.device /\ c.s.error = s.error
          /\ c.s.errors = s.errors /\ c.s.func = s.func
        BY <1>1, <2>1 DEF ThreadState
    <2>5. CacheInv(c.s)
        BY <1>1, <1>2, <2>2, <2>4 DEF CacheInv
    <2> QED
        BY <2>1, <2>3, <2>4, <2>5, BackendNames
        DEF ThreadInv, TypedThread, HandleInv
<1>3. CASE s.handle # NoLib
    <2>1. s.handle \in manager.loaded /\ s.backend = s.handle
        BY <1>1, <1>3 DEF HandleInv
    <2>2. /\ index \in manager.loaded /\ func = Resolve(index, f)
          /\ fresh = Resolve(s.backend, f)
        BY <1>1, <1>3, <2>1, BackendNames
        DEF CacheInv, Resolve, NoLib, Unset
    <2>3. ASSUME NEW i \in manager.loaded, NEW g, g = Resolve(i, f)
          PROVE  /\ ThreadInv(With(i, g))
                 /\ With(i, g).backend = s.backend
                 /\ With(i, g).device = s.device
        <3>1. With(i, g) \in ThreadState
            BY <1>1, <2>3 DEF ThreadState, Resolve
        <3>2. /\ With(i, g).backend = s.backend /\ With(i, g).handle = s.handle
              /\ With(i, g).device = s.device /\ With(i, g).error = s.error
              /\ With(i, g).errors = s.errors
              /\ With(i, g).index = [s.index EXCEPT ![f] = i]
              /\ With(i, g).func = [s.func EXCEPT ![f] = g]
            BY <1>1 DEF ThreadState
        <3>3. CacheInv(With(i, g))
            BY <1>1, <2>3, <3>2 DEF CacheInv, ThreadState
        <3> QED
            BY <3>1, <3>2, <3>3 DEF ThreadInv, TypedThread, HandleInv
    <2>4. c = IF func = NoLib THEN [s |-> With(index, func), lib |-> NoCall]
              ELSE IF index # s.backend
              THEN [s |-> With(s.backend, fresh), lib |-> fresh]
              ELSE [s |-> With(index, func), lib |-> func]
        BY <1>3 DEF CallTarget
    <2>5. c.lib \in {NoCall, NoLib, s.backend}
        BY <2>2, <2>4 DEF Resolve
    <2>6. OneVersion => func # NoLib /\ fresh = s.backend
        BY <1>1, <2>1, <2>2, BackendNames DEF OneVersion, Resolve
    <2>7. OneVersion /\ c.lib # NoCall => c.lib = s.backend
        BY <2>2, <2>4, <2>6
    <2>8. /\ ThreadInv(c.s)
          /\ c.s.backend = s.backend /\ c.s.device = s.device
        <3>1. /\ ThreadInv(With(index, func))
              /\ With(index, func).backend = s.backend
              /\ With(index, func).device = s.device
            <4> HIDE DEF index, func, With
            <4> QED BY <2>2, <2>3
        <3>2. /\ ThreadInv(With(s.backend, fresh))
              /\ With(s.backend, fresh).backend = s.backend
              /\ With(s.backend, fresh).device = s.device
            BY <2>1, <2>2, <2>3
        <3>3. c.s = With(index, func) \/ c.s = With(s.backend, fresh)
            BY <2>4
        <3> QED
            BY <3>1, <3>2, <3>3
    <2> QED
        BY <2>1, <2>5, <2>7, <2>8, BackendNames
<1> QED
    BY <1>2, <1>3

LEMMA CalledKeeps ==
    ASSUME ManagerInv, NEW s, ThreadInv(s), NEW f \in Functions
    PROVE  LET c == Called(s, f)
           IN  /\ ThreadInv(c.s)
               /\ c.s.backend = s.backend /\ c.s.device = s.device
               /\ c.lib \in Backends => c.lib \in manager.loaded
               /\ OneVersion /\ c.lib # NoCall => c.lib = s.backend
<1> DEFINE k == CallTarget(s, f)
           c == Called(s, f)
<1>1. /\ ThreadInv(k.s)
      /\ k.s.backend = s.backend /\ k.s.device = s.device
      /\ k.lib \in Backends => k.lib \in manager.loaded
      /\ OneVersion /\ k.lib # NoCall => k.lib = s.backend
    BY CallTargetKeeps
<1>2. /\ ThreadInv(Failed(k.s, "unified"))
      /\ Failed(k.s, "unified").backend = s.backend
      /\ Failed(k.s, "unified").device = s.device
    BY <1>1, FailedKeeps
<1>3. DOMAIN k = {"s", "lib"}
    BY DEF CallTarget
<1>4. CASE k.lib = NoCall
    <2>1. c.s = Failed(k.s, "unified") /\ c.lib = k.lib
        BY <1>3, <1>4 DEF Called
    <2> QED
        BY <1>2, <1>4, <2>1, BackendNames
<1>5. CASE k.lib # NoCall
    BY <1>1, <1>5 DEF Called
<1> QED
    BY <1>4, <1>5

\* CHECK_ARRAYS lets an array of the active backend through and no other.
LEMMA CheckArraysKeeps ==
    ASSUME ManagerInv, NEW s, ThreadInv(s), NEW a
    PROVE  LET k == CheckArrays(s, a)
           IN  /\ ThreadInv(k.s)
               /\ k.s.backend = s.backend /\ k.s.device = s.device
               /\ k.ok => array[a].backend = s.backend
<1> DEFINE c == Called(s, "backend_id")
<1>1. ThreadInv(c.s) /\ c.s.backend = s.backend /\ c.s.device = s.device
    BY CalledKeeps DEF Functions
<1>2. /\ ThreadInv(Failed(c.s, "unified"))
      /\ Failed(c.s, "unified").backend = s.backend
      /\ Failed(c.s, "unified").device = s.device
    BY <1>1, FailedKeeps
<1> HIDE DEF c
<1>3. CheckArrays(s, a).s \in {c.s, Failed(c.s, "unified")}
    BY DEF CheckArrays, c
<1>4. CheckArrays(s, a).ok => array[a].backend = s.backend
    BY DEF CheckArrays
<1> QED
    BY <1>1, <1>2, <1>3, <1>4

\* A device that exists becomes the active one; nothing else changes.
LEMMA SetActiveDeviceKeeps ==
    ASSUME NEW s, ThreadInv(s), NEW lib \in Backends, NEW d \in Nat
    PROVE  /\ ThreadInv(SetActiveDevice(s, lib, d))
           /\ SetActiveDevice(s, lib, d).backend = s.backend
           /\ d < NumDevices[lib] => SetActiveDevice(s, lib, d).device[lib] = d
<1> DEFINE e == [s EXCEPT !.device[lib] = d]
<1>1. s \in ThreadState
    BY DEF ThreadInv, TypedThread
<1>2. e \in ThreadState
    BY <1>1 DEF ThreadState
<1>3. /\ e.backend = s.backend /\ e.handle = s.handle
      /\ e.device = [s.device EXCEPT ![lib] = d]
      /\ e.func = s.func /\ e.index = s.index
      /\ e.error = s.error /\ e.errors = s.errors
    BY <1>1 DEF ThreadState
<1>4. e.device[lib] = d
    BY <1>1, <1>3 DEF ThreadState
<1>5. CASE d < NumDevices[lib]
    <2>1. \A b \in Backends : e.device[b] < NumDevices[b]
        BY <1>1, <1>3, <1>5 DEF ThreadState, ThreadInv, TypedThread
    <2>2. ThreadInv(e)
        <3> HIDE DEF e
        <3> QED BY <1>2, <1>3, <2>1 DEF ThreadInv, TypedThread, HandleInv,
                                        CacheInv
    <2> QED
        BY <1>3, <1>4, <1>5, <2>2 DEF SetActiveDevice
<1>6. CASE ~ (d < NumDevices[lib])
    BY <1>6 DEF SetActiveDevice
<1> QED
    BY <1>5, <1>6

-----------------------------------------------------------------------------
(* Every call keeps the invariant.                                         *)

\* It is enough that the caller's new state is consistent.
LEMMA OwnThreadOnly ==
    ASSUME DispatchInv, NEW t \in Threads, NEW s, ThreadInv(s),
           thread' = [thread EXCEPT ![t] = s], UNCHANGED manager, ArrayInv'
    PROVE  DispatchInv'
<1>1. \A r : ThreadInv(r)' <=> ThreadInv(r)
    BY DEF ThreadInv, TypedThread, HandleInv, CacheInv, ThreadState
<1>2. \A u \in Threads : thread'[u] = IF u = t THEN s ELSE thread[u]
    BY DEF DispatchInv
<1>3. \A u \in Threads : ThreadInv(thread'[u])
    BY <1>2 DEF DispatchInv
<1>4. thread' \in [Threads -> ThreadState] /\ ThreadState' = ThreadState
    BY DEF DispatchInv, ThreadInv, TypedThread, ThreadState
<1>5. ManagerInv'
    BY DEF DispatchInv, ManagerInv
<1> QED
    BY <1>1, <1>3, <1>4, <1>5 DEF DispatchInv

\* What the history variable says of the last call.
LastInv ==
    /\ OneVersion => DispatchesToActive
    /\ OneVersion /\ ReleaseAtHome => ArraysStayHome /\ FreedOnItsDevice

LEMMA SetBackendKeeps ==
    ASSUME DispatchInv, NEW t \in Threads, NEW b \in Backends \cup {Default},
           SetBackend(t, b)
    PROVE  DispatchInv' /\ LastInv'
<1> DEFINE s    == thread[t]
           want == IF b = Default THEN manager.backend ELSE b
           lib  == IF b = Default THEN manager.handle
                   ELSE IF b \in manager.loaded THEN b ELSE NoLib
           e    == [s EXCEPT !.handle = lib, !.backend = want]
<1>1. ThreadInv(s) /\ s \in ThreadState /\ ManagerInv
    BY DEF DispatchInv, ThreadInv, TypedThread
<1>2. UNCHANGED manager /\ ArrayInv' /\ last'.op = "idle"
    BY DEF SetBackend, DispatchInv, ArrayInv, Idle
<1>3. CASE lib = NoLib
    <2>1. thread' = [thread EXCEPT ![t] = Failed(s, "unified")]
        BY <1>3 DEF SetBackend
    <2> QED
        BY <1>1, <1>2, <2>1, FailedKeeps, OwnThreadOnly
        DEF LastInv, DispatchesToActive, ArraysStayHome, FreedOnItsDevice,
            ReachedLibrary
<1>4. CASE lib # NoLib
    <2>1. thread' = [thread EXCEPT ![t].handle = lib, ![t].backend = want]
        BY <1>4 DEF SetBackend
    <2>2. lib \in manager.loaded /\ want = lib
        BY <1>1, <1>4 DEF ManagerInv
    <2> HIDE DEF lib, want
    <2>3. thread' = [thread EXCEPT ![t] = e]
        BY <2>1 DEF DispatchInv
    <2>4. e \in ThreadState
        BY <1>1, <2>2 DEF ThreadState
    <2>5. /\ e.handle = lib /\ e.backend = lib
          /\ e.device = s.device /\ e.func = s.func /\ e.index = s.index
          /\ e.error = s.error /\ e.errors = s.errors
        BY <1>1, <2>2 DEF ThreadState
    <2>6. s.handle # NoLib
        BY <1>1, <2>2, BackendNames DEF ThreadInv, HandleInv, ManagerInv
    <2>7. ThreadInv(e)
        <3> HIDE DEF e
        <3> QED BY <1>1, <2>2, <2>4, <2>5, <2>6
                DEF ThreadInv, TypedThread, HandleInv, CacheInv
    <2> QED
        BY <1>2, <2>3, <2>7, OwnThreadOnly
        DEF LastInv, DispatchesToActive, ArraysStayHome, FreedOnItsDevice,
            ReachedLibrary
<1> QED
    BY <1>3, <1>4

LEMMA CreateArrayKeeps ==
    ASSUME DispatchInv, NEW t \in Threads, NEW a \in Arrays, CreateArray(t, a)
    PROVE  DispatchInv' /\ LastInv'
<1> DEFINE c == Called(thread[t], "create")
<1>1. /\ ThreadInv(c.s) /\ c.s.backend = thread[t].backend
      /\ c.lib \in Backends => c.lib \in manager.loaded
      /\ OneVersion /\ c.lib # NoCall => c.lib = thread[t].backend
    BY CalledKeeps DEF DispatchInv, Functions
<1> HIDE DEF c
<1>2. /\ thread' = [thread EXCEPT ![t] = c.s] /\ UNCHANGED manager
      /\ last' = Did(t, "create", c.lib, NoArray)
      /\ array' = IF c.lib \in Backends
                  THEN [x \in Live \cup {a} |->
                          IF x # a THEN array[x]
                          ELSE [backend |-> c.lib,
                                device  |-> c.s.device[c.lib]]]
                  ELSE array
    BY DEF CreateArray, c
<1>3. ArrayInv'
    <2>1. c.lib \in Backends => c.s.device[c.lib] \in 0..NumDevices[c.lib] - 1
        BY <1>1, UnifiedAssumption DEF ThreadInv, TypedThread, ThreadState
    <2>2. CASE c.lib \in Backends
        BY <1>1, <1>2, <2>1, <2>2 DEF ArrayInv, DispatchInv, Live
    <2>3. CASE c.lib \notin Backends
        BY <1>2, <2>3 DEF ArrayInv, DispatchInv
    <2> QED
        BY <2>2, <2>3
<1>4. DispatchInv'
    BY <1>1, <1>2, <1>3, OwnThreadOnly
<1>5. thread'[t].backend = thread[t].backend
    BY <1>1, <1>2 DEF DispatchInv
<1> QED
    BY <1>1, <1>2, <1>4, <1>5
    DEF LastInv, DispatchesToActive, ArraysStayHome, FreedOnItsDevice,
        ReachedLibrary, Did

LEMMA UseArrayKeeps ==
    ASSUME DispatchInv, NEW t \in Threads, NEW a \in Arrays, UseArray(t, a)
    PROVE  DispatchInv' /\ LastInv'
<1> DEFINE k == CheckArrays(thread[t], a)
           c == Called(k.s, "use")
<1>1. /\ ThreadInv(k.s) /\ k.s.backend = thread[t].backend
      /\ k.ok => array[a].backend = thread[t].backend
    BY CheckArraysKeeps DEF DispatchInv
<1> HIDE DEF k
<1>2. /\ ThreadInv(c.s) /\ c.s.backend = thread[t].backend
      /\ OneVersion /\ c.lib # NoCall => c.lib = thread[t].backend
    BY <1>1, CalledKeeps DEF DispatchInv, Functions
<1>3. c.lib \in Backends => /\ ThreadInv(Failed(c.s, c.lib))
                            /\ Failed(c.s, c.lib).backend = thread[t].backend
    BY <1>2, FailedKeeps
<1> HIDE DEF c
<1>4. PICK r :
          /\ thread' = [thread EXCEPT ![t] = r]
          /\ \/ r \in {k.s, c.s}
             \/ c.lib \in Backends /\ r = Failed(c.s, c.lib)
          /\ last' = Did(t, "use", IF k.ok THEN c.lib ELSE NoCall, array[a])
    BY DEF UseArray, k, c
<1>5. ThreadInv(r) /\ r.backend = thread[t].backend
    BY <1>1, <1>2, <1>3, <1>4
<1>6. UNCHANGED manager /\ ArrayInv'
    BY DEF UseArray, DispatchInv, ArrayInv
<1>7. DispatchInv'
    BY <1>4, <1>5, <1>6, OwnThreadOnly
<1>8. thread'[t].backend = thread[t].backend
    BY <1>4, <1>5 DEF DispatchInv
<1> QED
    BY <1>1, <1>2, <1>4, <1>7, <1>8
    DEF LastInv, DispatchesToActive, ArraysStayHome, FreedOnItsDevice,
        ReachedLibrary, Did

LEMMA ReleaseArrayKeeps ==
    ASSUME DispatchInv, NEW t \in Threads, NEW a \in Arrays, ReleaseArray(t, a)
    PROVE  DispatchInv' /\ LastInv'
<1> DEFINE c == Called(thread[t], "release")
<1>1. /\ ThreadInv(c.s) /\ c.s.backend = thread[t].backend
      /\ OneVersion /\ c.lib # NoCall => c.lib = thread[t].backend
    BY CalledKeeps DEF DispatchInv, Functions
<1> HIDE DEF c
<1>2. /\ a \in Live
      /\ ReleaseAtHome => array[a].backend = thread[t].backend
      /\ thread' = [thread EXCEPT ![t] = c.s] /\ UNCHANGED manager
      /\ array' \in {array, [x \in Live \ {a} |-> array[x]]}
      /\ last' = IF c.lib \in Backends
                 THEN [op |-> "release", thread |-> t, fn |-> "release",
                       lib |-> c.lib, array |-> array[a],
                       freedOn |-> ReleaseHandle(c.s, c.lib, array[a].device)
                                      .device[array[a].backend]]
                 ELSE Did(t, "release", c.lib, array[a])
    BY DEF ReleaseArray, c
<1>3. ArrayInv'
    BY <1>2 DEF ArrayInv, DispatchInv, Live
<1>4. DispatchInv'
    BY <1>1, <1>2, <1>3, OwnThreadOnly
<1>5. thread'[t].backend = thread[t].backend
    BY <1>1, <1>2 DEF DispatchInv
<1>6. ASSUME OneVersion, ReleaseAtHome, c.lib \in Backends
      PROVE  last'.freedOn = array[a].device
    <2>1. c.lib = array[a].backend
        BY <1>1, <1>2, <1>6, BackendNames
    <2>2. array[a].device \in Nat /\ array[a].device < NumDevices[c.lib]
        BY <1>2, <1>6, <2>1, UnifiedAssumption DEF DispatchInv, ArrayInv, Live
    <2>3. ReleaseHandle(c.s, c.lib, array[a].device).device[c.lib]
              = array[a].device
        BY <1>1, <1>6, <2>2, SetActiveDeviceKeeps DEF ReleaseHandle
    <2> QED
        BY <1>2, <1>6, <2>1, <2>3
<1> QED
    BY <1>1, <1>2, <1>4, <1>5, <1>6
    DEF LastInv, DispatchesToActive, ArraysStayHome, FreedOnItsDevice,
        ReachedLibrary, Did

LEMMA SetDeviceKeeps ==
    ASSUME DispatchInv, NEW t \in Threads, NEW d \in 0..1, SetDevice(t, d)
    PROVE  DispatchInv' /\ LastInv'
<1> DEFINE c == Called(thread[t], "set_device")
<1>1. /\ ThreadInv(c.s) /\ c.s.backend = thread[t].backend
      /\ OneVersion /\ c.lib # NoCall => c.lib = thread[t].backend
    BY CalledKeeps DEF DispatchInv, Functions
<1> HIDE DEF c
<1>2. ASSUME c.lib \in Backends
      PROVE  /\ ThreadInv(SetActiveDevice(c.s, c.lib, d))
             /\ ThreadInv(Failed(c.s, c.lib))
             /\ SetActiveDevice(c.s, c.lib, d).backend = thread[t].backend
             /\ Failed(c.s, c.lib).backend = thread[t].backend
    BY <1>1, <1>2, SetActiveDeviceKeeps, FailedKeeps
<1>3. PICK r : /\ thread' = [thread EXCEPT ![t] = r]
               /\ \/ r = c.s
                  \/ /\ c.lib \in Backends
                     /\ r \in {SetActiveDevice(c.s, c.lib, d),
                               Failed(c.s, c.lib)}
    BY DEF SetDevice, c
<1>4. ThreadInv(r) /\ r.backend = thread[t].backend
    BY <1>1, <1>2, <1>3
<1>5. /\ UNCHANGED manager /\ ArrayInv'
      /\ last' = Did(t, "set_device", c.lib, NoArray)
    BY DEF SetDevice, DispatchInv, ArrayInv, c
<1>6. DispatchInv'
    BY <1>3, <1>4, <1>5, OwnThreadOnly
<1>7. thread'[t].backend = thread[t].backend
    BY <1>3, <1>4 DEF DispatchInv
<1> QED
    BY <1>1, <1>5, <1>6, <1>7
    DEF LastInv, DispatchesToActive, ArraysStayHome, FreedOnItsDevice,
        ReachedLibrary, Did

LEMMA GetLastErrorKeeps ==
    ASSUME DispatchInv, NEW t \in Threads, GetLastError(t)
    PROVE  DispatchInv' /\ LastInv'
<1> DEFINE s == thread[t]
           where == IF s.error["unified"] # 0 THEN "unified" ELSE s.handle
           e1 == [s EXCEPT !.error[where] = 0]
           e2 == [e1 EXCEPT !.unread = FALSE]
<1>1. ThreadInv(s) /\ s \in ThreadState /\ manager.loaded \subseteq Backends
    BY DEF DispatchInv, ThreadInv, TypedThread, ManagerInv
<1>2. where \in Backends \cup {"unified"}
    BY <1>1 DEF GetLastError, ThreadState
<1>3. /\ UNCHANGED manager /\ ArrayInv' /\ last'.op = "error"
      /\ thread' = [thread EXCEPT ![t].error[where] = 0, ![t].unread = FALSE]
    BY DEF GetLastError, DispatchInv, ArrayInv
<1> HIDE DEF where
<1>4. thread' = [thread EXCEPT ![t] = e2]
    BY <1>1, <1>3 DEF DispatchInv, ThreadState
<1>5. /\ e1 \in ThreadState
      /\ e1.error = [s.error EXCEPT ![where] = 0]
      /\ e1.backend = s.backend /\ e1.handle = s.handle
      /\ e1.device = s.device /\ e1.func = s.func /\ e1.index = s.index
      /\ e1.errors = s.errors
    BY <1>1, <1>2 DEF ThreadState
<1>6. /\ e2 \in ThreadState
      /\ e2.error = [s.error EXCEPT ![where] = 0]
      /\ e2.backend = s.backend /\ e2.handle = s.handle
      /\ e2.device = s.device /\ e2.func = s.func /\ e2.index = s.index
      /\ e2.errors = s.errors
    <2> HIDE DEF e1
    <2> QED BY <1>5 DEF ThreadState
<1> HIDE DEF e2
<1>7. \A w \in Backends \cup {"unified"} : e2.error[w] <= e2.errors
    BY <1>1, <1>2, <1>6 DEF ThreadState, ThreadInv, TypedThread
<1>8. ThreadInv(e2)
    BY <1>1, <1>6, <1>7 DEF ThreadInv, TypedThread, HandleInv, CacheInv
<1> QED
    BY <1>3, <1>4, <1>8, OwnThreadOnly
    DEF LastInv, DispatchesToActive, ArraysStayHome, FreedOnItsDevice,
        ReachedLibrary

LEMMA DispatchNext ==
    ASSUME DispatchInv, LastInv, [Next]_vars
    PROVE  DispatchInv' /\ LastInv'
<1>1. CASE UNCHANGED vars
    BY <1>1, ZenonT(30)
    DEF vars, DispatchInv, LastInv, ManagerInv, ThreadInv, TypedThread,
        HandleInv, CacheInv, ThreadState, ArrayInv, DispatchesToActive,
        ArraysStayHome, FreedOnItsDevice, ReachedLibrary
<1>2. ASSUME NEW t \in Threads, ApiCall(t) \/ GetLastError(t)
      PROVE  DispatchInv' /\ LastInv'
    BY <1>2, SetBackendKeeps, CreateArrayKeeps, UseArrayKeeps,
       ReleaseArrayKeeps, SetDeviceKeeps, GetLastErrorKeeps DEF ApiCall
<1> QED
    BY <1>1, <1>2 DEF Next

LEMMA Dispatch == Spec => [](DispatchInv /\ LastInv)
<1>1. Init => LastInv
    BY DEF Init, Idle, LastInv, DispatchesToActive, ArraysStayHome,
           FreedOnItsDevice, ReachedLibrary
<1>2. Init => DispatchInv
    BY DispatchInit
<1>3. DispatchInv /\ LastInv /\ [Next]_vars => (DispatchInv /\ LastInv)'
    BY DispatchNext
<1> QED
    BY <1>1, <1>2, <1>3, PTL DEF Spec

-----------------------------------------------------------------------------
(* What follows.                                                           *)

\* Type correctness: every thread's library, cached functions, devices and
\* messages are those of libraries that were loaded.
THEOREM TypeCorrect == Spec => []TypeOK
<1>1. DispatchInv => TypeOK
    BY DEF DispatchInv, ManagerInv, ThreadInv, TypedThread, ArrayInv, TypeOK,
           Live
<1> QED
    BY <1>1, Dispatch, PTL

\* With libraries of one version, a call runs in the library that is active in
\* the calling thread, whatever function pointers the thread has cached.
THEOREM DispatchesToActiveHolds == OneVersion => (Spec => []DispatchesToActive)
<1> SUFFICES ASSUME OneVersion PROVE Spec => []DispatchesToActive
    OBVIOUS
<1>1. LastInv => DispatchesToActive
    BY DEF LastInv
<1> QED
    BY <1>1, Dispatch, PTL

\* A program that releases arrays under their own backend never gives an array
\* to another library.
THEOREM ArraysStayHomeHolds ==
    OneVersion /\ ReleaseAtHome => (Spec => []ArraysStayHome)
<1> SUFFICES ASSUME OneVersion, ReleaseAtHome PROVE Spec => []ArraysStayHome
    OBVIOUS
<1>1. LastInv => ArraysStayHome
    BY DEF LastInv
<1> QED
    BY <1>1, Dispatch, PTL

\* The buffers of its arrays go back to the device they came from, whichever
\* devices the threads have made active meanwhile.
THEOREM FreedOnItsDeviceHolds ==
    OneVersion /\ ReleaseAtHome => (Spec => []FreedOnItsDevice)
<1> SUFFICES ASSUME OneVersion, ReleaseAtHome PROVE Spec => []FreedOnItsDevice
    OBVIOUS
<1>1. LastInv => FreedOnItsDevice
    BY DEF LastInv
<1> QED
    BY <1>1, Dispatch, PTL

-----------------------------------------------------------------------------
(* The libraries found at start.                                            *)

\* Which flags the sum of the flags of the libraries in S has
Bit(S, b) == IF b \in S THEN 1 ELSE 0
FlagSum(S) ==
    Bit(S, "cpu") + 2 * Bit(S, "cuda") + 4 * Bit(S, "opencl") + 8 * Bit(S, "oneapi")

\* The loop counts and adds up what it opened.
Counted(m) ==
    /\ IsFiniteSet(m.loaded) /\ m.loaded \subseteq Backends
    /\ m.numBackends = Cardinality(m.loaded)
    /\ m.available = FlagSum(m.loaded)

LEMMA OpenLibraryCounts ==
    ASSUME NEW found, NEW b \in Backends, NEW m, Counted(m), b \notin m.loaded
    PROVE  /\ Counted(OpenLibrary(found, b, m))
           /\ OpenLibrary(found, b, m).loaded = m.loaded \cup ({b} \cap found)
<1>1. CASE b \in found
    <2> DEFINE n == OpenLibrary(found, b, m)
    <2>1. /\ n.loaded = m.loaded \cup {b} /\ n.numBackends = m.numBackends + 1
          /\ n.available = m.available + Flag[b]
        BY <1>1 DEF OpenLibrary
    <2>2. IsFiniteSet(n.loaded) /\ Cardinality(n.loaded) = Cardinality(m.loaded) + 1
        BY <2>1, FS_AddElement DEF Counted
    <2>3. FlagSum(n.loaded) = FlagSum(m.loaded) + Flag[b]
        BY <2>1, BackendNames DEF FlagSum, Bit, Flag
    <2> QED
        BY <1>1, <2>1, <2>2, <2>3 DEF Counted
<1>2. CASE b \notin found
    BY <1>2 DEF OpenLibrary
<1> QED
    BY <1>1, <1>2

\* Each flag can be read back from the sum.
LEMMA FlagsReadBack ==
    ASSUME NEW S, NEW b \in Backends
    PROVE  (FlagSum(S) \div Flag[b]) % 2 = 1 <=> b \in S
<1> DEFINE x == Bit(S, "cpu")
           y == Bit(S, "cuda")
           z == Bit(S, "opencl")
           w == Bit(S, "oneapi")
<1>1. x \in {0, 1} /\ y \in {0, 1} /\ z \in {0, 1} /\ w \in {0, 1}
    BY DEF Bit
<1>2. FlagSum(S) = x + 2 * y + 4 * z + 8 * w
    BY DEF FlagSum
<1>3. /\ Flag["cpu"] = 1 /\ Flag["cuda"] = 2 /\ Flag["opencl"] = 4 /\ Flag["oneapi"] = 8
    BY DEF Flag
<1>4. CASE b = "cpu"
    <2>1. (FlagSum(S) \div 1) % 2 = x
        <3> HIDE DEF x, y, z, w
        <3> QED BY <1>1, <1>2
    <2> QED BY <1>3, <1>4, <2>1 DEF Bit
<1>5. CASE b = "cuda"
    <2>1. (FlagSum(S) \div 2) % 2 = y
        <3> HIDE DEF x, y, z, w
        <3> QED BY <1>1, <1>2
    <2> QED BY <1>3, <1>5, <2>1 DEF Bit
<1>6. CASE b = "opencl"
    <2>1. (FlagSum(S) \div 4) % 2 = z
        <3> HIDE DEF x, y, z, w
        <3> QED BY <1>1, <1>2
    <2> QED BY <1>3, <1>6, <2>1 DEF Bit
<1>7. CASE b = "oneapi"
    <2>1. (FlagSum(S) \div 8) % 2 = w
        <3> HIDE DEF x, y, z, w
        <3> QED BY <1>1, <1>2
    <2> QED BY <1>3, <1>7, <2>1 DEF Bit
<1> QED
    BY <1>4, <1>5, <1>6, <1>7, BackendNames

\* The loop runs from the least preferred library to the most preferred one.
LEMMA SymbolManagerPrefers ==
    ASSUME NEW found \in Installed, manager = AFSymbolManager(found)
    PROVE  PreferredBackend
<1> DEFINE m4 == OpenLibrary(found, Order[4], Nothing)
           m3 == OpenLibrary(found, Order[3], m4)
           m2 == OpenLibrary(found, Order[2], m3)
           m1 == OpenLibrary(found, Order[1], m2)
<1>1. /\ Order[1] = "cuda" /\ Order[2] = "oneapi"
      /\ Order[3] = "opencl" /\ Order[4] = "cpu"
    BY DEF Order
<1>2. Counted(Nothing) /\ Nothing.loaded = {}
    BY FS_EmptySet DEF Counted, Nothing, FlagSum, Bit
<1>3. ASSUME NEW b \in Backends, NEW m, Counted(m), b \notin m.loaded,
             NEW S, m.loaded = S \cap found
      PROVE  /\ Counted(OpenLibrary(found, b, m))
             /\ OpenLibrary(found, b, m).loaded = (S \cup {b}) \cap found
    <2>1. (S \cap found) \cup ({b} \cap found) = (S \cup {b}) \cap found
        OBVIOUS
    <2> QED BY <1>3, <2>1, OpenLibraryCounts
<1>4. /\ Order[1] \in Backends /\ Order[2] \in Backends
      /\ Order[3] \in Backends /\ Order[4] \in Backends
    BY BackendNames
<1>5. Counted(m4) /\ m4.loaded = {Order[4]} \cap found
    <2>1. Order[4] \notin Nothing.loaded /\ Nothing.loaded = {} \cap found
        BY <1>1, <1>2
    <2>2. Counted(m4) /\ m4.loaded = ({} \cup {Order[4]}) \cap found
        BY <1>3, <1>4, <1>2, <2>1
    <2>3. {} \cup {Order[4]} = {Order[4]}
        OBVIOUS
    <2> QED BY <2>2, <2>3
<1>6. Counted(m3) /\ m3.loaded = {Order[4], Order[3]} \cap found
    <2> HIDE DEF m4
    <2>1. Order[3] \notin m4.loaded /\ m4.loaded = {Order[4]} \cap found
        BY <1>1, <1>5
    <2>2. Counted(m3) /\ m3.loaded = ({Order[4]} \cup {Order[3]}) \cap found
        BY <1>3, <1>4, <1>5, <2>1
    <2>3. {Order[4]} \cup {Order[3]} = {Order[4], Order[3]}
        OBVIOUS
    <2> QED BY <2>2, <2>3
<1>7. Counted(m2) /\ m2.loaded = {Order[4], Order[3], Order[2]} \cap found
    <2> HIDE DEF m3
    <2>1. Order[2] \notin m3.loaded /\ m3.loaded = {Order[4], Order[3]} \cap found
        BY <1>1, <1>6
    <2>2. Counted(m2) /\ m2.loaded = ({Order[4], Order[3]} \cup {Order[2]}) \cap found
        BY <1>3, <1>4, <1>6, <2>1
    <2>3. {Order[4], Order[3]} \cup {Order[2]} = {Order[4], Order[3], Order[2]}
        OBVIOUS
    <2> QED BY <2>2, <2>3
<1>8. Counted(m1) /\ m1.loaded = {Order[4], Order[3], Order[2], Order[1]} \cap found
    <2> HIDE DEF m2
    <2>1. Order[1] \notin m2.loaded /\ m2.loaded = {Order[4], Order[3], Order[2]} \cap found
        BY <1>1, <1>7
    <2>2. Counted(m1) /\ m1.loaded = ({Order[4], Order[3], Order[2]} \cup {Order[1]}) \cap found
        BY <1>3, <1>4, <1>7, <2>1
    <2>3. {Order[4], Order[3], Order[2]} \cup {Order[1]} = {Order[4], Order[3], Order[2], Order[1]}
        OBVIOUS
    <2> QED BY <2>2, <2>3
<1>9. manager = m1
    BY DEF AFSymbolManager
<1>10. /\ Order[1] \in found => m1.backend = Order[1] /\ m1.handle = Order[1]
       /\ Order[1] \notin found => m1 = m2
       /\ Order[2] \in found => m2.backend = Order[2] /\ m2.handle = Order[2]
       /\ Order[2] \notin found => m2 = m3
       /\ Order[3] \in found => m3.backend = Order[3] /\ m3.handle = Order[3]
       /\ Order[3] \notin found => m3 = m4
       /\ Order[4] \in found => m4.backend = Order[4] /\ m4.handle = Order[4]
    BY DEF OpenLibrary
<1> HIDE DEF m1, m2, m3, m4
<1>11. ASSUME NEW i \in 1..4, Order[i] \in found, \A j \in 1..i-1 : Order[j] \notin found
      PROVE  m1.backend = Order[i] /\ m1.handle = Order[i]
    <2>1. i = 1 \/ i = 2 \/ i = 3 \/ i = 4
        OBVIOUS
    <2>2. /\ i = 2 => Order[1] \notin found
          /\ i = 3 => Order[1] \notin found /\ Order[2] \notin found
          /\ i = 4 => Order[1] \notin found /\ Order[2] \notin found /\ Order[3] \notin found
        BY <1>11
    <2>3. CASE i = 1
        BY <1>10, <1>11, <2>3
    <2>4. CASE i = 2
        BY <1>10, <1>11, <2>2, <2>4
    <2>5. CASE i = 3
        BY <1>10, <1>11, <2>2, <2>5
    <2>6. CASE i = 4
        BY <1>10, <1>11, <2>2, <2>6
    <2> QED BY <2>1, <2>3, <2>4, <2>5, <2>6
<1>12. ASSUME m1.loaded # {}
       PROVE  \E i \in 1..4 : Order[i] \in found /\ \A j \in 1..i-1 : Order[j] \notin found
    <2>1. \E i \in 1..4 : Order[i] \in found
        BY <1>8, <1>12
    <2>2. CASE Order[1] \in found
        BY <2>2
    <2>3. CASE Order[1] \notin found /\ Order[2] \in found
        <3>1. \A j \in 1..2-1 : j = 1 OBVIOUS
        <3> QED BY <2>3, <3>1
    <2>4. CASE Order[1] \notin found /\ Order[2] \notin found /\ Order[3] \in found
        <3>1. \A j \in 1..3-1 : j = 1 \/ j = 2 OBVIOUS
        <3> QED BY <2>4, <3>1
    <2>5. CASE /\ Order[1] \notin found /\ Order[2] \notin found /\ Order[3] \notin found
               /\ Order[4] \in found
        <3>1. \A j \in 1..4-1 : j = 1 \/ j = 2 \/ j = 3 OBVIOUS
        <3> QED BY <2>5, <3>1
    <2>6. \A i \in 1..4 : i = 1 \/ i = 2 \/ i = 3 \/ i = 4 OBVIOUS
    <2> QED BY <2>1, <2>2, <2>3, <2>4, <2>5, <2>6
<1>13. \A i \in 1..4 : Order[i] \in m1.loaded <=> Order[i] \in found
    <2>1. \A i \in 1..4 : i = 1 \/ i = 2 \/ i = 3 \/ i = 4 OBVIOUS
    <2> QED BY <1>8, <2>1
<1>14. Len(Order) = 4
    BY DEF Order
<1>15. ASSUME m1.loaded # {}
       PROVE  \E i \in 1..Len(Order) :
                 /\ m1.backend = Order[i] /\ m1.handle = Order[i]
                 /\ Order[i] \in m1.loaded
                 /\ \A j \in 1..i-1 : Order[j] \notin m1.loaded
    <2>1. PICK i \in 1..4 : Order[i] \in found /\ \A j \in 1..i-1 : Order[j] \notin found
        BY <1>12, <1>15
    <2>2. \A j \in 1..i-1 : j \in 1..4
        OBVIOUS
    <2>3. m1.backend = Order[i] /\ m1.handle = Order[i]
        BY <1>11, <2>1
    <2> QED BY <1>13, <1>14, <2>1, <2>2, <2>3
<1>16. \A b \in Backends : (m1.available \div Flag[b]) % 2 = 1 <=> b \in m1.loaded
    BY <1>8, FlagsReadBack DEF Counted
<1> QED
    BY <1>8, <1>9, <1>15, <1>16 DEF PreferredBackend, Counted

\* Whatever is installed, the default backend is the first of the order that
\* could be loaded, and the count and the flags that the program is told of
\* are those of the libraries setBackend accepts, at any later time.
THEOREM PreferredBackendHolds == Spec => []PreferredBackend
<1>1. Init => PreferredBackend
    BY SymbolManagerPrefers DEF Init
<1>2. PreferredBackend /\ [Next]_vars => PreferredBackend'
    <2>1. [Next]_vars => UNCHANGED manager
        BY ZenonT(30) DEF Next, vars, ApiCall, SetBackend, CreateArray, UseArray, ReleaseArray,
               SetDevice, GetLastError
    <2> QED BY <2>1 DEF PreferredBackend
<1> QED
    BY <1>1, <1>2, PTL DEF Spec

-----------------------------------------------------------------------------
(* The messages of a thread.                                               *)

Messages == Backends \cup {"unified"}

\* A thread that has asked for every message has none left ...
Silent(s) == ~ s.unread /\ \A w \in Messages : s.error[w] = 0

\* ... and one that has not has the newest, at w, and no other.
OnlyAt(s, w) ==
    /\ s.unread /\ s.errors # 0 /\ s.error[w] = s.errors
    /\ \A v \in Messages \ {w} : s.error[v] = 0

\* af_get_last_error looks where the message is: into the unified library's
\* own string or into the one of the backend that is active.
ErrorInv(s) ==
    \/ Silent(s)
    \/ \E w \in Messages \cap {"unified", s.backend} : OnlyAt(s, w)

LEMMA FailedAt ==
    ASSUME NEW s, ThreadInv(s), NEW w \in Messages, Silent(s) \/ OnlyAt(s, w)
    PROVE  OnlyAt(Failed(s, w), w)
<1>1. /\ Failed(s, w).unread = TRUE /\ Failed(s, w).errors = s.errors + 1
      /\ Failed(s, w).error = [s.error EXCEPT ![w] = s.errors + 1]
      /\ s.errors \in Nat /\ DOMAIN s.error = Messages
    BY DEF ThreadInv, TypedThread, ThreadState, Failed, Messages
<1> QED
    BY <1>1 DEF OnlyAt, Silent

\* CALL looks up a function: it leaves the messages alone.
LEMMA CallTargetErrors ==
    ASSUME ManagerInv, NEW s, ThreadInv(s), NEW f \in Functions, Silent(s)
    PROVE  LET c == CallTarget(s, f)
           IN  /\ Silent(c.s)
               /\ c.lib \in Backends => c.lib = s.backend
<1> DEFINE c == CallTarget(s, f)
<1>1. /\ s \in ThreadState /\ HandleInv(s) /\ CacheInv(s)
    BY DEF ThreadInv, TypedThread
<1>2. c.s.error = s.error /\ c.s.unread = s.unread
    BY <1>1 DEF CallTarget, ThreadState
<1>3. c.lib \in Backends => c.lib = s.backend
    <2>1. CASE s.handle = NoLib
        BY <2>1, BackendNames DEF CallTarget
    <2>2. CASE s.handle # NoLib
        BY <1>1, <2>2, BackendNames
        DEF CallTarget, HandleInv, CacheInv, Resolve, NoLib, NoCall, Unset
    <2> QED BY <2>1, <2>2
<1> QED
    BY <1>2, <1>3 DEF Silent

LEMMA CalledErrors ==
    ASSUME ManagerInv, NEW s, ThreadInv(s), NEW f \in Functions, Silent(s)
    PROVE  LET c == Called(s, f)
           IN  /\ c.lib \in Backends => Silent(c.s) /\ c.lib = s.backend
               /\ Silent(c.s) \/ OnlyAt(c.s, "unified")
<1> DEFINE k == CallTarget(s, f)
           c == Called(s, f)
<1>1. Silent(k.s) /\ ThreadInv(k.s) /\ (k.lib \in Backends => k.lib = s.backend)
    BY CallTargetErrors, CallTargetKeeps
<1>2. OnlyAt(Failed(k.s, "unified"), "unified")
    BY <1>1, FailedAt DEF Messages
<1>3. DOMAIN k = {"s", "lib"}
    BY DEF CallTarget
<1>4. CASE k.lib = NoCall
    <2>1. c.s = Failed(k.s, "unified") /\ c.lib = k.lib
        BY <1>3, <1>4 DEF Called
    <2> QED
        BY <1>2, <1>4, <2>1, BackendNames
<1>5. CASE k.lib # NoCall
    BY <1>1, <1>5 DEF Called
<1> QED
    BY <1>4, <1>5

\* CHECK_ARRAYS may report two errors: both are kept in the unified string.
LEMMA CheckArraysErrors ==
    ASSUME ManagerInv, NEW s, ThreadInv(s), NEW a, Silent(s)
    PROVE  LET k == CheckArrays(s, a)
           IN  IF k.ok THEN Silent(k.s) ELSE OnlyAt(k.s, "unified")
<1> DEFINE c == Called(s, "backend_id")
<1>1. /\ ThreadInv(c.s)
      /\ c.lib \in Backends => Silent(c.s)
      /\ Silent(c.s) \/ OnlyAt(c.s, "unified")
    BY CalledKeeps, CalledErrors DEF Functions
<1>2. OnlyAt(Failed(c.s, "unified"), "unified")
    BY <1>1, FailedAt DEF Messages
<1> HIDE DEF c
<1> QED
    BY <1>1, <1>2 DEF CheckArrays, c

\* A call by a thread without unread messages leaves at most one.
LEMMA ApiCallErrors ==
    ASSUME DispatchInv, NEW t \in Threads, Silent(thread[t]), ApiCall(t)
    PROVE  /\ \E r : thread' = [thread EXCEPT ![t] = r] /\ ErrorInv(r)
           /\ last'.op # "error"
<1> DEFINE s == thread[t]
           Leaves == /\ \E r : thread' = [thread EXCEPT ![t] = r] /\ ErrorInv(r)
                     /\ last'.op # "error"
<1>1. ThreadInv(s) /\ s \in ThreadState /\ ManagerInv
    BY DEF DispatchInv, ThreadInv, TypedThread
<1>2. ASSUME NEW b \in Backends \cup {Default}, SetBackend(t, b)
      PROVE  Leaves
    <2> DEFINE want == IF b = Default THEN manager.backend ELSE b
               lib  == IF b = Default THEN manager.handle
                       ELSE IF b \in manager.loaded THEN b ELSE NoLib
               e    == [s EXCEPT !.handle = lib, !.backend = want]
    <2>1. last'.op = "idle"
        BY <1>2 DEF SetBackend, Idle
    <2>2. CASE lib = NoLib
        <3>1. thread' = [thread EXCEPT ![t] = Failed(s, "unified")]
            BY <1>2, <2>2 DEF SetBackend
        <3>2. ErrorInv(Failed(s, "unified"))
            BY <1>1, FailedAt DEF ErrorInv, Messages
        <3> QED BY <2>1, <3>1, <3>2
    <2>3. CASE lib # NoLib
        <3>1. thread' = [thread EXCEPT ![t].handle = lib, ![t].backend = want]
            BY <1>2, <2>3 DEF SetBackend
        <3> HIDE DEF lib, want
        <3>2. thread' = [thread EXCEPT ![t] = e]
            BY <3>1 DEF DispatchInv
        <3>3. e.error = s.error /\ e.unread = s.unread
            BY <1>1 DEF ThreadState
        <3>4. ErrorInv(e)
            <4> HIDE DEF e
            <4> QED BY <3>3 DEF ErrorInv, Silent
        <3> QED BY <2>1, <3>2, <3>4
    <2> QED BY <2>2, <2>3
<1>3. ASSUME NEW f \in Functions
      PROVE  LET c == Called(s, f)
             IN  /\ ErrorInv(c.s)
                 /\ c.lib \in Backends => ErrorInv(Failed(c.s, c.lib))
                 /\ c.lib \in Backends => Silent(c.s)
    <2> DEFINE c == Called(s, f)
    <2>1. /\ ThreadInv(c.s) /\ c.s.backend = s.backend
          /\ c.lib \in Backends => Silent(c.s) /\ c.lib = s.backend
          /\ Silent(c.s) \/ OnlyAt(c.s, "unified")
        BY <1>1, CalledKeeps, CalledErrors
    <2> HIDE DEF c
    <2>2. ErrorInv(c.s)
        BY <2>1 DEF ErrorInv, Messages
    <2>3. ASSUME c.lib \in Backends
          PROVE  ErrorInv(Failed(c.s, c.lib))
        <3>1. OnlyAt(Failed(c.s, c.lib), c.lib)
            BY <2>1, <2>3, FailedAt DEF Messages
        <3>2. Failed(c.s, c.lib).backend = s.backend
            BY <2>1, <2>3, FailedKeeps
        <3> QED BY <2>1, <2>3, <3>1, <3>2 DEF ErrorInv, Messages
    <2> QED BY <2>1, <2>2, <2>3 DEF c
<1>4. ASSUME NEW a \in Arrays, CreateArray(t, a)
      PROVE  Leaves
    <2> DEFINE c == Called(s, "create")
    <2>1. ErrorInv(c.s)
        BY <1>3 DEF Functions
    <2>2. thread' = [thread EXCEPT ![t] = c.s] /\ last'.op = "call"
        BY <1>4 DEF CreateArray, Did
    <2> QED BY <2>1, <2>2
<1>5. ASSUME NEW a \in Arrays, UseArray(t, a)
      PROVE  Leaves
    <2> DEFINE k == CheckArrays(s, a)
               c == Called(k.s, "use")
    <2>1. /\ ThreadInv(k.s)
          /\ IF k.ok THEN Silent(k.s) ELSE OnlyAt(k.s, "unified")
        BY <1>1, CheckArraysKeeps, CheckArraysErrors
    <2> HIDE DEF k
    <2>2. CASE ~ k.ok
        <3>1. thread' = [thread EXCEPT ![t] = k.s] /\ last'.op = "call"
            BY <1>5, <2>2 DEF UseArray, Did, k
        <3> QED BY <2>1, <2>2, <3>1 DEF ErrorInv, Messages
    <2>3. CASE k.ok
        <3>1. /\ ThreadInv(c.s)
              /\ c.lib \in Backends => Silent(c.s) /\ c.lib = c.s.backend
              /\ Silent(c.s) \/ OnlyAt(c.s, "unified")
            BY <1>1, <2>1, <2>3, CalledKeeps, CalledErrors DEF Functions
        <3> HIDE DEF c
        <3>2. ErrorInv(c.s)
            BY <3>1 DEF ErrorInv, Messages
        <3>3. ASSUME c.lib \in Backends
              PROVE  ErrorInv(Failed(c.s, c.lib))
            <4>1. OnlyAt(Failed(c.s, c.lib), c.lib)
                BY <3>1, <3>3, FailedAt DEF Messages
            <4>2. Failed(c.s, c.lib).backend = c.s.backend
                BY <3>1, <3>3, FailedKeeps
            <4> QED BY <3>1, <3>3, <4>1, <4>2 DEF ErrorInv, Messages
        <3>4. /\ \/ thread' = [thread EXCEPT ![t] = c.s]
                 \/ /\ c.lib \in Backends
                    /\ thread' = [thread EXCEPT ![t] = Failed(c.s, c.lib)]
              /\ last'.op = "call"
            BY <1>5, <2>3 DEF UseArray, Did, k, c
        <3> QED BY <3>2, <3>3, <3>4
    <2> QED BY <2>2, <2>3
<1>6. ASSUME NEW a \in Arrays, ReleaseArray(t, a)
      PROVE  Leaves
    <2> DEFINE c == Called(s, "release")
    <2>1. ErrorInv(c.s)
        BY <1>3 DEF Functions
    <2>2. thread' = [thread EXCEPT ![t] = c.s] /\ last'.op \in {"call", "release"}
        BY <1>6 DEF ReleaseArray, Did
    <2> QED BY <2>1, <2>2
<1>7. ASSUME NEW d \in 0..1, SetDevice(t, d)
      PROVE  Leaves
    <2> DEFINE c == Called(s, "set_device")
    <2>1. /\ ErrorInv(c.s) /\ ThreadInv(c.s)
          /\ c.lib \in Backends => ErrorInv(Failed(c.s, c.lib)) /\ Silent(c.s)
        BY <1>1, <1>3, CalledKeeps DEF Functions
    <2> HIDE DEF c
    <2>2. SetActiveDevice(c.s, c.lib, d).error = c.s.error
          /\ SetActiveDevice(c.s, c.lib, d).unread = c.s.unread
        BY <2>1 DEF SetActiveDevice, ThreadInv, TypedThread, ThreadState
    <2>3. c.lib \in Backends => ErrorInv(SetActiveDevice(c.s, c.lib, d))
        BY <2>1, <2>2 DEF ErrorInv, Silent
    <2>4. PICK r : /\ thread' = [thread EXCEPT ![t] = r]
                   /\ \/ r = c.s
                      \/ /\ c.lib \in Backends
                         /\ r \in {SetActiveDevice(c.s, c.lib, d),
                                   Failed(c.s, c.lib)}
        BY <1>7 DEF SetDevice, c
    <2>5. last'.op = "call"
        BY <1>7 DEF SetDevice, Did
    <2> QED BY <2>1, <2>3, <2>4, <2>5
<1> QED
    BY <1>2, <1>4, <1>5, <1>6, <1>7 DEF ApiCall

\* af_get_last_error finds the one message there is, and clears it.
LEMMA GetLastErrorReads ==
    ASSUME DispatchInv, NEW t \in Threads, ErrorInv(thread[t]), GetLastError(t)
    PROVE  /\ \E r : thread' = [thread EXCEPT ![t] = r] /\ ErrorInv(r)
           /\ LastErrorReported'
<1> DEFINE s == thread[t]
           where == IF s.error["unified"] # 0 THEN "unified" ELSE s.handle
           e1 == [s EXCEPT !.error[where] = 0]
           e2 == [e1 EXCEPT !.unread = FALSE]
<1>1. /\ s \in ThreadState /\ HandleInv(s) /\ manager.loaded \subseteq Backends
      /\ DOMAIN s.error = Messages
    BY DEF DispatchInv, ThreadInv, TypedThread, ManagerInv, ThreadState, Messages
<1>2. where \in Messages
    BY <1>1 DEF GetLastError, ThreadState, Messages
<1>3. /\ thread' = [thread EXCEPT ![t].error[where] = 0, ![t].unread = FALSE]
      /\ last' = [op |-> "error", thread |-> t, got |-> s.error[where],
                  newest |-> s.errors, unread |-> s.unread]
    BY DEF GetLastError
<1>4. ASSUME NEW w \in Messages \cap {"unified", s.backend}, OnlyAt(s, w)
      PROVE  where = w
    <2>1. CASE w = "unified"
        BY <1>4, <2>1 DEF OnlyAt
    <2>2. CASE w # "unified"
        BY <1>1, <1>4, <2>2, BackendNames DEF OnlyAt, HandleInv, Messages
    <2> QED BY <2>1, <2>2
<1>5. s.unread => s.error[where] = s.errors
    BY <1>4 DEF ErrorInv, Silent, OnlyAt
<1>6. \A v \in Messages \ {where} : s.error[v] = 0
    BY <1>4 DEF ErrorInv, Silent, OnlyAt
<1> HIDE DEF where
<1>7. thread' = [thread EXCEPT ![t] = e2]
    BY <1>1, <1>3 DEF DispatchInv, ThreadState
<1>8. e2.error = [s.error EXCEPT ![where] = 0] /\ e2.unread = FALSE
    BY <1>1 DEF ThreadState
<1> HIDE DEF e2
<1>9. Silent(e2)
    BY <1>1, <1>2, <1>6, <1>8 DEF Silent
<1> QED
    BY <1>3, <1>5, <1>7, <1>9 DEF ErrorInv, LastErrorReported

\* A program that asks for every error when it occurs, as the C++ API does
\* (AF_THROW), is told of that error: not of an older one, whichever libraries
\* it switched between and wherever the message was kept.
THEOREM LastErrorReportedHolds == ErrorsRead => (Spec => []LastErrorReported)
<1> DEFINE Inv == (\A t \in Threads : ErrorInv(thread[t])) /\ LastErrorReported
<1> SUFFICES ASSUME ErrorsRead PROVE Spec => []LastErrorReported
    OBVIOUS
<1>1. Init => Inv
    BY DEF Init, InitThread, Idle, LastErrorReported, ErrorInv, Silent, Messages
<1>2. ASSUME DispatchInv, Inv, [Next]_vars
      PROVE  Inv'
    <2>1. CASE UNCHANGED vars
        BY <1>2, <2>1 DEF vars, LastErrorReported, ErrorInv, Silent, OnlyAt
    <2>2. ASSUME NEW t \in Threads,
                 \E r : thread' = [thread EXCEPT ![t] = r] /\ ErrorInv(r)
          PROVE  \A u \in Threads : ErrorInv(thread'[u])
        <3>1. PICK r : thread' = [thread EXCEPT ![t] = r] /\ ErrorInv(r)
            BY <2>2
        <3>2. \A u \in Threads : thread'[u] = IF u = t THEN r ELSE thread[u]
            BY <1>2, <3>1 DEF DispatchInv
        <3> QED BY <1>2, <3>1, <3>2
    <2>3. ASSUME NEW t \in Threads, ~ thread[t].unread, ApiCall(t)
          PROVE  Inv'
        <3>1. Silent(thread[t])
            BY <1>2, <2>3 DEF ErrorInv, OnlyAt
        <3>2. /\ \E r : thread' = [thread EXCEPT ![t] = r] /\ ErrorInv(r)
              /\ last'.op # "error"
            BY <1>2, <2>3, <3>1, ApiCallErrors
        <3>3. \A u \in Threads : ErrorInv(thread'[u])
            BY <2>2, <3>2
        <3> QED BY <3>2, <3>3 DEF LastErrorReported
    <2>4. ASSUME NEW t \in Threads, GetLastError(t)
          PROVE  Inv'
        <3>1. /\ \E r : thread' = [thread EXCEPT ![t] = r] /\ ErrorInv(r)
              /\ LastErrorReported'
            BY <1>2, <2>4, GetLastErrorReads
        <3>2. \A u \in Threads : ErrorInv(thread'[u])
            BY <2>2, <3>1
        <3> QED BY <3>1, <3>2
    <2> QED BY <1>2, <2>1, <2>3, <2>4 DEF Next
<1>3. DispatchInv /\ Inv /\ [Next]_vars => Inv'
    BY <1>2
<1>4. Spec => []DispatchInv
    BY Dispatch, PTL
<1> QED
    BY <1>1, <1>3, <1>4, PTL DEF Spec

=============================================================================
