-------------------------- MODULE UnifiedDispatch --------------------------
(***************************************************************************)
(* The unified backend (src/src/api/unified): one C API in front of the    *)
(* libraries libafcuda, libafoneapi, libafopencl and libafcpu.  Every      *)
(* thread has an active backend; every API function caches, per thread,    *)
(* the function pointer it found in the active library and the backend it  *)
(* found it in (the CALL macro), and most functions refuse arrays of       *)
(* another backend (CHECK_ARRAYS).  Each library keeps its own active      *)
(* device and its own last error, per thread.                              *)
(*                                                                         *)
(* A library handle and a function pointer are modelled by the library     *)
(* they belong to; the functions of the API by one of each kind: one that  *)
(* makes an array, one that takes an array, af_release_array,              *)
(* af_get_backend_id and af_set_device.                                    *)
(***************************************************************************)
EXTENDS Integers, Sequences, FiniteSets

CONSTANTS
    Threads,        \* the threads of the program
    Arrays,         \* the af_array handles the program may have at a time
    Installed,      \* the sets of libraries that may be found at start-up
    Provides,       \* [Backends -> SUBSET Functions]: the exported symbols
    NumDevices,     \* [Backends -> Nat \ {0}]: the devices each library sees
    MaxErrors,      \* bound: the errors a thread may meet
    ReleaseAtHome,  \* the program releases an array only under its backend
    ErrorsRead      \* the program asks for every error at once (AF_THROW)

\* order[] of the constructor: the default is the first that can be loaded.
Order == <<"cuda", "oneapi", "opencl", "cpu">>

Backends == {Order[i] : i \in 1..4}

\* enum af_backend: the bits of af_get_available_backends.
Flag == [cpu |-> 1, cuda |-> 2, opencl |-> 4, oneapi |-> 8]

Functions == {"create", "use", "release", "backend_id", "set_device"}

Default == "AF_BACKEND_DEFAULT"
NoLib   == "nullptr"
Unset   == "unset"       \* a thread_local not initialised yet
NoCall  == "none"        \* the call did not reach a library

ASSUME UnifiedAssumption ==
    /\ Installed \subseteq SUBSET Backends
    /\ Provides \in [Backends -> SUBSET Functions]
    /\ \A b \in Backends : "backend_id" \in Provides[b]
    /\ NumDevices \in [Backends -> Nat \ {0}]
    /\ MaxErrors \in Nat
    /\ ReleaseAtHome \in BOOLEAN /\ ErrorsRead \in BOOLEAN

VARIABLES
    manager,    \* the AFSymbolManager singleton
    thread,     \* the thread_local state of every thread
    array,      \* the live arrays: the library and device that made them
    last        \* history: what the last call did

vars == <<manager, thread, array, last>>

----------------------------------------------------------------------------
(* AFSymbolManager() opens the libraries from the least to the most         *)
(* preferred one and remembers the last it could open.                      *)

Nothing == [loaded |-> {}, handle |-> NoLib, backend |-> Default,
            numBackends |-> 0, available |-> 0]

OpenLibrary(found, b, m) ==
    IF b \in found
    THEN [loaded |-> m.loaded \cup {b}, handle |-> b, backend |-> b,
          numBackends |-> m.numBackends + 1,
          available |-> m.available + Flag[b]]
    ELSE m

AFSymbolManager_Ascending(found) ==
    LET Open(i, m) == OpenLibrary(found, Order[i], m)
    IN  Open(4, Open(3, Open(2, Open(1, Nothing))))

\* for (int i = NUM_BACKENDS - 1; i >= 0; i--)
AFSymbolManager(found) ==
    LET Open(i, m) == OpenLibrary(found, Order[i], m)
    IN  Open(1, Open(2, Open(3, Open(4, Nothing))))

----------------------------------------------------------------------------
(* One API call.  `s' is the thread's state.                                *)

Resolve(lib, f) == IF f \in Provides[lib] THEN lib ELSE NoLib

\* The error strings: one of the unified library, one of each backend.  A
\* message is the number of its error in the thread, 0 the empty message;
\* `unread' remembers that nobody asked for a message since the last error.
Failed(s, where) ==
    [s EXCEPT !.error[where] = s.errors + 1, !.errors = @ + 1,
              !.unread = TRUE]

\* CALL(FUNCTION, ...) up to the call itself: the new thread_local state and
\* the library whose function is called, NoLib when the null pointer is, and
\* NoCall when the macro returns AF_ERR_LOAD_LIB.
CallTarget(s, f) ==
    LET index == IF s.index[f] = Unset THEN s.backend ELSE s.index[f]
        func  == IF s.func[f] = Unset THEN Resolve(s.handle, f) ELSE s.func[f]
        fresh == Resolve(s.handle, f)
    IN  IF s.handle = NoLib
        THEN [s |-> [s EXCEPT !.index[f] = index], lib |-> NoCall]
        ELSE IF func = NoLib
        THEN [s   |-> [s EXCEPT !.index[f] = index, !.func[f] = func],
              lib |-> NoCall]
        ELSE IF index # s.backend
        THEN [s   |-> [s EXCEPT !.index[f] = s.backend, !.func[f] = fresh],
              lib |-> fresh]
        ELSE [s   |-> [s EXCEPT !.index[f] = index, !.func[f] = func],
              lib |-> func]

Called_StaleFunc(s, f) ==
    LET c == CallTarget(s, f)
    IN  IF c.lib = NoCall THEN [c EXCEPT !.s = Failed(c.s, "unified")]
        ELSE [c EXCEPT !.lib = IF s.func[f] = Unset THEN @ ELSE s.func[f]]

\* The error of CALL, when it does not reach a library.
Called(s, f) ==
    LET c == CallTarget(s, f)
    IN  IF c.lib = NoCall THEN [c EXCEPT !.s = Failed(c.s, "unified")] ELSE c

CheckArrays_Ignored(s, a) ==
    LET c == Called(s, "backend_id") IN [s |-> c.s, ok |-> c.lib \in Backends]

\* CHECK_ARRAYS(a): asks the active library for the array's backend, through
\* CALL as well, and ignores an error of that call.
CheckArrays(s, a) ==
    LET c  == Called(s, "backend_id")
        ok == c.lib \in Backends /\ array[a].backend = s.backend
    IN  [s  |-> IF ok THEN c.s ELSE Failed(c.s, "unified"), ok |-> ok]

\* detail::setDevice: an index out of range changes nothing (the CPU library
\* has one device and accepts every index).
SetActiveDevice(s, lib, d) ==
    IF d < NumDevices[lib] THEN [s EXCEPT !.device[lib] = d] ELSE s

----------------------------------------------------------------------------
(* The calls of a program.                                                  *)

Live == DOMAIN array

\* What a call did: the thread, the function, the library that ran it, and
\* the array it was given.
Did(t, f, lib, a) == [op |-> "call", thread |-> t, fn |-> f, lib |-> lib,
                      array |-> a]

Idle == [op |-> "idle"]

NoArray == [backend |-> NoLib, device |-> 0]

SetBackend_Unchecked(t, b) ==
    /\ thread' = [thread EXCEPT ![t].handle = b, ![t].backend = b]
    /\ last' = Idle
    /\ UNCHANGED <<manager, array>>

\* setBackend: AF_BACKEND_DEFAULT stands for the preferred library, a library
\* that was not found leaves everything as it was.
SetBackend(t, b) ==
    LET s    == thread[t]
        want == IF b = Default THEN manager.backend ELSE b
        lib  == IF b = Default THEN manager.handle
                ELSE IF b \in manager.loaded THEN b ELSE NoLib
    IN  /\ IF lib # NoLib
           THEN thread' = [thread EXCEPT ![t].handle = lib,
                                         ![t].backend = want]
           ELSE thread' = [thread EXCEPT ![t] = Failed(s, "unified")]
        /\ last' = Idle
        /\ UNCHANGED <<manager, array>>

\* A function that makes an array: af_randu, af_constant, ...
CreateArray(t, a) ==
    LET c == Called(thread[t], "create")
    IN  /\ a \notin Live
        /\ thread' = [thread EXCEPT ![t] = c.s]
        /\ array' = IF c.lib \in Backends
                    THEN [x \in Live \cup {a} |->
                            IF x # a THEN array[x]
                            ELSE [backend |-> c.lib,
                                  device  |-> c.s.device[c.lib]]]
                    ELSE array
        /\ last' = Did(t, "create", c.lib, NoArray)
        /\ UNCHANGED manager

\* A function that takes an array: CHECK_ARRAYS, then CALL.  The library may
\* refuse its arguments: it keeps the message in its own string.
UseArray(t, a) ==
    LET k == CheckArrays(thread[t], a)
        c == Called(k.s, "use")
    IN  /\ a \in Live
        /\ IF k.ok
           THEN /\ \/ thread' = [thread EXCEPT ![t] = c.s]
                   \/ /\ c.lib \in Backends
                      /\ thread' = [thread EXCEPT ![t] = Failed(c.s, c.lib)]
                /\ last' = Did(t, "use", c.lib, array[a])
           ELSE /\ thread' = [thread EXCEPT ![t] = k.s]
                /\ last' = Did(t, "use", NoCall, array[a])
        /\ UNCHANGED <<manager, array>>

\* releaseHandle makes the array's device the active one of the library it
\* runs in, for the time of destroyArray, whatever library made the array.
ReleaseHandle_NoSwitch(s, lib, d) == s

ReleaseHandle(s, lib, d) == SetActiveDevice(s, lib, d)

\* af_release_array: CALL without CHECK_ARRAYS.  The buffer's deleter is the
\* one of the library that made the array (the array classes of the libraries
\* have the same layout, and shared_ptr erases the deleter's type), and frees
\* it on the device that is active there.
ReleaseArray(t, a) ==
    LET c == Called(thread[t], "release")
    IN  /\ a \in Live
        /\ ReleaseAtHome => array[a].backend = thread[t].backend
        /\ thread' = [thread EXCEPT ![t] = c.s]
        /\ array' = IF c.lib \in Backends
                    THEN [x \in Live \ {a} |-> array[x]] ELSE array
        /\ last' = IF c.lib \in Backends
                   THEN [op |-> "release", thread |-> t, fn |-> "release",
                         lib |-> c.lib, array |-> array[a],
                         freedOn |-> ReleaseHandle(c.s, c.lib, array[a].device)
                                        .device[array[a].backend]]
                   ELSE Did(t, "release", c.lib, array[a])
        /\ UNCHANGED manager

\* af_set_device: the device of the active library.
SetDevice(t, d) ==
    LET c  == Called(thread[t], "set_device")
        ok == d < NumDevices[c.lib] \/ c.lib = "cpu"
    IN  /\ thread' = [thread EXCEPT ![t] =
                        IF c.lib \notin Backends THEN c.s
                        ELSE IF ok THEN SetActiveDevice(c.s, c.lib, d)
                        ELSE Failed(c.s, c.lib)]
        /\ last' = Did(t, "set_device", c.lib, NoArray)
        /\ UNCHANGED <<manager, array>>

GetLastError_NotCleared(t) ==
    LET s     == thread[t]
        where == IF s.error["unified"] # 0 THEN "unified" ELSE s.handle
    IN  /\ where # NoLib
        /\ thread' = [thread EXCEPT ![t].error[where] =
                        IF where = "unified" THEN @ ELSE 0,
                                     ![t].unread = FALSE]
        /\ last' = [op |-> "error", thread |-> t, got |-> s.error[where],
                    newest |-> s.errors, unread |-> s.unread]
        /\ UNCHANGED <<manager, array>>

\* af_get_last_error: the unified library's own message first, else the one of
\* the active library; the message is cleared.
GetLastError(t) ==
    LET s     == thread[t]
        where == IF s.error["unified"] # 0 THEN "unified" ELSE s.handle
    IN  /\ where # NoLib
        /\ thread' = [thread EXCEPT ![t].error[where] = 0, ![t].unread = FALSE]
        /\ last' = [op |-> "error", thread |-> t, got |-> s.error[where],
                    newest |-> s.errors, unread |-> s.unread]
        /\ UNCHANGED <<manager, array>>

----------------------------------------------------------------------------

InitThread(m) ==
    [backend |-> m.backend, handle |-> m.handle,
     index |-> [f \in Functions |-> Unset],
     func  |-> [f \in Functions |-> Unset],
     device |-> [b \in Backends |-> 0],
     error |-> [w \in Backends \cup {"unified"} |-> 0],
     errors |-> 0, unread |-> FALSE]

Init ==
    /\ \E found \in Installed : manager = AFSymbolManager(found)
    /\ thread = [t \in Threads |-> InitThread(manager)]
    /\ array = [a \in {} |-> NoArray]
    /\ last = Idle

\* A call that may follow an error the program has not asked for.
ApiCall(t) ==
    \/ \E b \in Backends \cup {Default} : SetBackend(t, b)
    \/ \E a \in Arrays : CreateArray(t, a)
    \/ \E a \in Arrays : UseArray(t, a)
    \/ \E a \in Arrays : ReleaseArray(t, a)
    \/ \E d \in 0..1 : SetDevice(t, d)

\* `errors <= MaxErrors' is the bound on the errors a thread may meet.
Next ==
    \E t \in Threads :
        /\ \/ (ErrorsRead => ~thread[t].unread) /\ ApiCall(t)
           \/ GetLastError(t)
        /\ thread'[t].errors <= MaxErrors

Spec == Init /\ [][Next]_vars

----------------------------------------------------------------------------

\* The thread_local state of a thread of the program: its handle is a library
\* that was loaded, and so is the one of every cached function.
ThreadState ==
    LET libs == manager.loaded
    IN  [backend : libs \cup {Default}, handle : libs \cup {NoLib},
         index : [Functions -> libs \cup {Default, Unset}],
         func : [Functions -> libs \cup {NoLib, Unset}],
         device : [Backends -> Nat],
         error : [Backends \cup {"unified"} -> Nat],
         errors : Nat, unread : BOOLEAN]

\* The type of the state.  Devices are devices of their library, messages are
\* numbers of errors that occurred, and an array belongs to a loaded library.
TypeOK ==
    /\ manager.loaded \subseteq Backends
    /\ manager.handle \in manager.loaded \cup {NoLib}
    /\ manager.backend \in manager.loaded \cup {Default}
    /\ thread \in [Threads -> ThreadState]
    /\ \A t \in Threads :
          /\ \A b \in Backends : thread[t].device[b] < NumDevices[b]
          /\ \A w \in Backends \cup {"unified"} :
                thread[t].error[w] <= thread[t].errors
    /\ Live \subseteq Arrays
    /\ \A a \in Live : /\ array[a].backend \in manager.loaded
                       /\ array[a].device \in 0..NumDevices[array[a].backend] - 1

\* A library was called, or a null pointer.
ReachedLibrary == last.op \in {"call", "release"} /\ last.lib # NoCall

\* The default is the first loadable library in the order CUDA, oneAPI, OpenCL,
\* CPU, and the flags and the count name exactly the libraries setBackend
\* accepts (the loop of the constructor runs the other way round).
PreferredBackend ==
    /\ manager.loaded # {} =>
          \E i \in 1..Len(Order) :
             /\ manager.backend = Order[i] /\ manager.handle = Order[i]
             /\ Order[i] \in manager.loaded
             /\ \A j \in 1..i-1 : Order[j] \notin manager.loaded
    /\ manager.numBackends = Cardinality(manager.loaded)
    /\ \A b \in Backends :
          (manager.available \div Flag[b]) % 2 = 1 <=> b \in manager.loaded

\* However often a thread switches backends between calls of a function, the
\* function pointer it cached is never the one of another backend: the call
\* runs in the library that is active in this thread.
DispatchesToActive ==
    ReachedLibrary => last.lib = thread[last.thread].backend

\* No library is given an array of another library.
ArraysStayHome ==
    ReachedLibrary /\ last.array # NoArray => last.array.backend = last.lib

\* The buffer of an array that dies is returned to the memory manager of the
\* device it was allocated on, whatever device and thread are active.
FreedOnItsDevice == last.op = "release" => last.freedOn = last.array.device

\* af_get_last_error returns the message of the error that occurred last in
\* the thread, if it is asked for the first time since then.
LastErrorReported ==
    last.op = "error" /\ last.unread => last.got = last.newest
=============================================================================
