------------------------------ MODULE KernelCache ------------------------------
(***************************************************************************)
(* The cache of compiled kernels of the cuda, hip and opencl backends:     *)
(* getKernel of common/kernel_cache.cpp with the module map of a process   *)
(* in memory, and compileModule and loadModuleFromDisk with the directory  *)
(* of compiled binaries that processes share on disk.                      *)
(*                                                                         *)
(* One device.  A key stands for the hash of a kernel's source, options    *)
(* and instance, and for the code compiled from it.  A file holds a hash   *)
(* and a binary; it is intact when the hash is the binary's.               *)
(***************************************************************************)
EXTENDS FiniteSets, Naturals

CONSTANTS
    Threads, Procs,
    Proc,        \* the process of each thread
    Keys, NoKey,
    Mods, NoMod, \* loaded modules (CUmodule, cl::Program)
    Inodes, NoIno,
    TempName,    \* makeTempFilename() of each thread
    UseDisk,     \* getCacheDirectory() is not empty
    OpenFails,   \* opening a temporary file that is there already may fail
    MaxCrashes   \* bound on the crashes of processes

TempFiles == {TempName[t] : t \in Threads}
Files == Keys \cup TempFiles

ASSUME CacheAssumption ==
    /\ Proc \in [Threads -> Procs]
    /\ NoKey \notin Keys /\ NoMod \notin Mods /\ NoIno \notin Inodes
    /\ DOMAIN TempName = Threads /\ TempFiles \cap Keys = {}
    /\ UseDisk \in BOOLEAN /\ OpenFails \in BOOLEAN
    /\ MaxCrashes \in Nat

VARIABLES
    th,      \* thread -> where it is in getKernel, and its locals
    cache,   \* process -> getCache(): key -> module
    loaded,  \* process -> the code in each loaded module
    handed,  \* process -> the <<key, module>> of the kernels returned so far
    file,    \* directory: file name -> inode
    data,    \* inode -> contents
    crashes

vars == <<th, cache, loaded, handed, file, data, crashes>>

Idle == [pc |-> "idle", key |-> NoKey, mod |-> NoMod, ino |-> NoIno]
Blank == [hash |-> NoKey, binary |-> NoKey]

At(t, pc) == th[t].pc = pc
Move(t, pc, m, i) ==
    th' = [th EXCEPT ![t] = [pc |-> pc, key |-> th[t].key, mod |-> m, ino |-> i]]
Goto(t, pc) == Move(t, pc, th[t].mod, NoIno)
Open(t, pc, i) == Move(t, pc, th[t].mod, i)
Key(t) == th[t].key
Cached(t) == cache[Proc[t]][Key(t)]

\* Module handles that nobody in the process refers to
Unused(p) == {m \in Mods : /\ loaded[p][m] = NoKey
                           /\ \A k \in Keys : cache[p][k] # m /\ <<k, m>> \notin handed[p]}

\* Inodes without a name that no thread has open
FreeInodes == {i \in Inodes : (\A f \in Files : file[f] # i) /\ (\A t \in Threads : th[t].ino # i)}

\* Which unused handle or inode is taken makes no difference.
OneOf(S) == CHOOSE x \in S : TRUE

Load(t, code, pc) ==
    /\ Unused(Proc[t]) # {}
    /\ LET m == OneOf(Unused(Proc[t])) IN
         /\ loaded' = [loaded EXCEPT ![Proc[t]][m] = code]
         /\ Move(t, pc, m, NoIno)

Return(t, k, m) == handed' = [handed EXCEPT ![Proc[t]] = @ \cup {<<k, m>>}]

-----------------------------------------------------------------------------
(***************************************************************************)
(* getKernel up to the end of findModule, under the shared lock            *)
(***************************************************************************)
Hit(t, k) ==
    /\ At(t, "idle")
    /\ cache[Proc[t]][k] # NoMod
    /\ Return(t, k, cache[Proc[t]][k])
    /\ UNCHANGED <<th, cache, loaded, file, data, crashes>>

Miss(t, k) ==
    /\ At(t, "idle")
    /\ cache[Proc[t]][k] = NoMod
    /\ th' = [th EXCEPT ![t] = [pc |-> IF UseDisk THEN "open" ELSE "compile",
                                key |-> k, mod |-> NoMod, ino |-> NoIno]]
    /\ UNCHANGED <<cache, loaded, handed, file, data, crashes>>

(***************************************************************************)
(* loadModuleFromDisk                                                      *)
(***************************************************************************)
OpenCacheFile(t) ==
    /\ At(t, "open")
    /\ \/ /\ file[Key(t)] # NoIno
          /\ Open(t, "read", file[Key(t)])
       \/ file[Key(t)] = NoIno /\ Goto(t, "remove")
    /\ UNCHANGED <<cache, loaded, handed, file, data, crashes>>

Intact(c) == c.hash = c.binary /\ c.binary # NoKey

\* The driver may also refuse an intact binary.
ReadCacheFile(t) ==
    /\ At(t, "read")
    /\ \/ /\ Intact(data[th[t].ino])
          /\ Load(t, data[th[t].ino].binary, "publish")
       \/ Goto(t, "remove") /\ UNCHANGED loaded
    /\ UNCHANGED <<cache, handed, file, data, crashes>>

RemoveCacheFile(t) ==
    /\ At(t, "remove")
    /\ file' = [file EXCEPT ![Key(t)] = NoIno]
    /\ Goto(t, "compile")
    /\ UNCHANGED <<cache, loaded, handed, data, crashes>>

(***************************************************************************)
(* compileModule                                                           *)
(***************************************************************************)
Compile(t) ==
    /\ At(t, "compile")
    /\ Load(t, Key(t), IF UseDisk THEN "save" ELSE "publish")
    /\ UNCHANGED <<cache, handed, file, data, crashes>>

\* AF_ERR_COMPILE and the like: the call throws
CompileError(t) ==
    /\ At(t, "compile")
    /\ th' = [th EXCEPT ![t] = Idle]
    /\ UNCHANGED <<cache, loaded, handed, file, data, crashes>>

\* With ios::app
OpenTemp_Append(t) ==
    /\ At(t, "save")
    /\ FreeInodes # {}
    /\ LET f == TempName[t]
           i == IF file[f] = NoIno THEN OneOf(FreeInodes) ELSE file[f] IN
         /\ file' = [file EXCEPT ![f] = i]
         /\ data' = IF file[f] = NoIno THEN [data EXCEPT ![i] = Blank] ELSE data
         /\ Open(t, "hash", i)
    /\ UNCHANGED <<cache, loaded, handed, crashes>>

\* ofstream out(tempFile): creates the file, or truncates the one that is there
OpenTemp(t) ==
    /\ At(t, "save")
    /\ FreeInodes # {}
    /\ LET f == TempName[t]
           i == IF file[f] = NoIno THEN OneOf(FreeInodes) ELSE file[f] IN
         /\ file' = [file EXCEPT ![f] = i]
         /\ data' = [data EXCEPT ![i] = Blank]
         /\ Open(t, "hash", i)
    /\ UNCHANGED <<cache, loaded, handed, crashes>>

OpenTempFails_Ignored(t) ==
    /\ At(t, "save")
    /\ file[TempName[t]] = NoIno \/ OpenFails
    /\ Goto(t, "hash")
    /\ UNCHANGED <<cache, loaded, handed, file, data, crashes>>
\* Creating a file may fail, and under OpenFails also opening one that exists.
\* Without exceptions enabled a stream that did not open ignores the writes.
OpenTempFails(t) ==
    /\ At(t, "save")
    /\ file[TempName[t]] = NoIno \/ OpenFails
    /\ Goto(t, "rename")
    /\ UNCHANGED <<cache, loaded, handed, file, data, crashes>>

WriteHash(t) ==
    /\ At(t, "hash")
    /\ data' = [data EXCEPT ![th[t].ino] = [hash |-> Key(t), binary |-> @.binary]]
    /\ Open(t, "binary", th[t].ino)
    /\ UNCHANGED <<cache, loaded, handed, file, crashes>>

WriteBinary(t) ==
    /\ At(t, "binary")
    /\ data' = [data EXCEPT ![th[t].ino] = [hash |-> @.hash, binary |-> Key(t)]]
    /\ Goto(t, "rename")
    /\ UNCHANGED <<cache, loaded, handed, file, crashes>>

\* A full disk: a failed stream ignores the writes that follow.
WriteFails(t) ==
    /\ At(t, "hash") \/ At(t, "binary")
    /\ Goto(t, "rename")
    /\ UNCHANGED <<cache, loaded, handed, file, data, crashes>>

\* renameFile(tempFile, cacheFile)
Rename(t) ==
    /\ At(t, "rename")
    /\ file[TempName[t]] # NoIno
    /\ file' = [file EXCEPT ![Key(t)] = file[TempName[t]], ![TempName[t]] = NoIno]
    /\ Goto(t, "publish")
    /\ UNCHANGED <<cache, loaded, handed, data, crashes>>

\* It fails when there is no such file, or for reasons of the file system.
RenameFails(t) ==
    /\ At(t, "rename")
    /\ Goto(t, "unlink")
    /\ UNCHANGED <<cache, loaded, handed, file, data, crashes>>

RemoveTemp(t) ==
    /\ At(t, "unlink")
    /\ file' = [file EXCEPT ![TempName[t]] = NoIno]
    /\ Goto(t, "publish")
    /\ UNCHANGED <<cache, loaded, handed, data, crashes>>

(***************************************************************************)
(* The end of getKernel, under the unique lock: the first thread keeps its *)
(* module in the cache, another one unloads its own and takes the first's. *)
(***************************************************************************)
Publish_Overwrite(t) ==
    /\ At(t, "publish")
    /\ cache' = [cache EXCEPT ![Proc[t]][Key(t)] = th[t].mod]
    /\ loaded' = IF Cached(t) = NoMod THEN loaded
                 ELSE [loaded EXCEPT ![Proc[t]][Cached(t)] = NoKey]
    /\ Return(t, Key(t), th[t].mod)
    /\ th' = [th EXCEPT ![t] = Idle]
    /\ UNCHANGED <<file, data, crashes>>
Publish_NoUnload(t) ==
    /\ At(t, "publish")
    /\ LET first == Cached(t) = NoMod
           m == IF first THEN th[t].mod ELSE Cached(t)
       IN /\ cache' = [cache EXCEPT ![Proc[t]][Key(t)] = m]
          /\ UNCHANGED loaded
          /\ Return(t, Key(t), m)
    /\ th' = [th EXCEPT ![t] = Idle]
    /\ UNCHANGED <<file, data, crashes>>
Publish_KeepOwn(t) ==
    /\ At(t, "publish")
    /\ cache' = IF Cached(t) = NoMod THEN [cache EXCEPT ![Proc[t]][Key(t)] = th[t].mod] ELSE cache
    /\ Return(t, Key(t), th[t].mod)
    /\ th' = [th EXCEPT ![t] = Idle]
    /\ UNCHANGED <<loaded, file, data, crashes>>
Publish(t) ==
    /\ At(t, "publish")
    /\ \/ /\ Cached(t) = NoMod
          /\ cache' = [cache EXCEPT ![Proc[t]][Key(t)] = th[t].mod]
          /\ Return(t, Key(t), th[t].mod)
          /\ UNCHANGED loaded
       \/ /\ Cached(t) # NoMod
          /\ loaded' = [loaded EXCEPT ![Proc[t]][th[t].mod] = NoKey]
          /\ Return(t, Key(t), Cached(t))
          /\ UNCHANGED cache
    /\ th' = [th EXCEPT ![t] = Idle]
    /\ UNCHANGED <<file, data, crashes>>

\* A process dies and starts again; what it wrote stays on disk.
Crash(p) ==
    /\ crashes < MaxCrashes
    /\ crashes' = crashes + 1
    /\ th' = [t \in Threads |-> IF Proc[t] = p THEN Idle ELSE th[t]]
    /\ cache' = [cache EXCEPT ![p] = [k \in Keys |-> NoMod]]
    /\ loaded' = [loaded EXCEPT ![p] = [m \in Mods |-> NoKey]]
    /\ handed' = [handed EXCEPT ![p] = {}]
    /\ UNCHANGED <<file, data>>

Init ==
    /\ th = [t \in Threads |-> Idle]
    /\ cache = [p \in Procs |-> [k \in Keys |-> NoMod]]
    /\ loaded = [p \in Procs |-> [m \in Mods |-> NoKey]]
    /\ handed = [p \in Procs |-> {}]
    /\ file = [f \in Files |-> NoIno]
    /\ data = [i \in Inodes |-> Blank]
    /\ crashes = 0

Call(t) == \E k \in Keys : Hit(t, k) \/ Miss(t, k)

Step(t) ==
    \/ OpenCacheFile(t) \/ ReadCacheFile(t) \/ RemoveCacheFile(t)
    \/ Compile(t) \/ CompileError(t)
    \/ OpenTemp(t) \/ OpenTempFails(t) \/ WriteHash(t) \/ WriteBinary(t) \/ WriteFails(t)
    \/ Rename(t) \/ RenameFails(t) \/ RemoveTemp(t)
    \/ Publish(t)

Next == \/ \E t \in Threads : Call(t) \/ Step(t)
        \/ \E p \in Procs : Crash(p)

Spec == Init /\ [][Next]_vars

-----------------------------------------------------------------------------
(***************************************************************************)
(* Properties                                                              *)
(***************************************************************************)
PCs == {"idle", "open", "read", "remove", "compile", "save", "hash", "binary",
        "rename", "unlink", "publish"}

\* Type correctness of the state of getKernel and of the directory.
TypeOK ==
    /\ th \in [Threads -> [pc : PCs, key : Keys \cup {NoKey}, mod : Mods \cup {NoMod},
                           ino : Inodes \cup {NoIno}]]
    /\ cache \in [Procs -> [Keys -> Mods \cup {NoMod}]]
    /\ loaded \in [Procs -> [Mods -> Keys \cup {NoKey}]]
    /\ handed \in [Procs -> SUBSET (Keys \X Mods)]
    /\ file \in [Files -> Inodes \cup {NoIno}]
    /\ data \in [Inodes -> [hash : Keys \cup {NoKey}, binary : Keys \cup {NoKey}]]
    /\ crashes \in 0 .. MaxCrashes
    /\ \A t \in Threads :
         /\ th[t].pc # "idle" => th[t].key \in Keys
         /\ th[t].pc \in {"read", "hash", "binary"} => th[t].ino \in Inodes
         /\ th[t].pc \in {"save", "hash", "binary", "rename", "unlink", "publish"} => th[t].mod \in Mods

\* A kernel that getKernel has returned is never pulled from under its caller:
\* the module it belongs to stays loaded ("dump the current threads extra
\* compilation" unloads only a module that nobody else has).
KernelsStayLoaded ==
    \A p \in Procs : \A r \in handed[p] : loaded[p][r[2]] # NoKey

\* However many threads miss at once, all callers of a key in a process get
\* the same module, the one in the cache.
OneModulePerKey ==
    \A p \in Procs : \A r \in handed[p] : cache[p][r[1]] = r[2]

\* Every module that a process has loaded is in its cache or still in the
\* hands of the one thread that loaded it: a lost race leaks nothing.
NoModuleLeaks ==
    \A p \in Procs : \A m \in Mods : loaded[p][m] # NoKey =>
        \/ \E k \in Keys : cache[p][k] = m
        \/ \E t \in Threads : Proc[t] = p /\ th[t].mod = m

\* A caller of getKernel gets the code of the key it asked for, whatever
\* other threads, other processes, crashes and a full disk leave in the
\* directory ("write module hash(everything: names, code & options)").
RightCode ==
    \A p \in Procs : \A r \in handed[p] : loaded[p][r[2]] = r[1]

=============================================================================
